----------------------------- MODULE Inventory -----------------------------
(***************************************************************************)
(* The inventory: CA profiles, tenants, devices and certificates, as the   *)
(* requests of the API and the commands of the CLI read and write them     *)
(* (app/inventory.py, app/api, app/cli.py, IssuanceService._issue_one).    *)
(* A request reads by natural key, keeps the row ids it found, and writes  *)
(* by id in one transaction at its end; between the two it may talk to     *)
(* Webex, to a gateway or for minutes to a CA, and others commit.  No row  *)
(* is locked.  SQLite gives a new row the id after the largest one in use, *)
(* so that the id of a deleted row may come back under another name.       *)
(***************************************************************************)
EXTENDS Naturals, Functions

CONSTANTS
    Requests,          \* what serves requests: threads and CLI processes
    Cas, Slugs, Fqdns, \* natural keys: CA profiles, tenants, devices
    Orgs,              \* Webex organisations
    MaxRows,           \* bound on the row ids of a table
    MaxServed,         \* bound on the requests served
    Stored,            \* the datastores to start from
    None, NoRow, Keep, Lost

ASSUME InventoryAssumption ==
    /\ MaxRows \in Nat /\ MaxServed \in Nat
    /\ None \notin Cas \cup Slugs \cup Fqdns \cup Orgs
    /\ Lost \notin Cas \cup Slugs \cup Fqdns \cup {None}
    /\ Keep \notin Cas \cup Slugs \cup Fqdns \cup Orgs \cup BOOLEAN \cup {None}

Ids == 1..MaxRows
Names == Cas \cup Slugs \cup Fqdns

\* A sealed value is written as the natural key it is bound to (its AAD), or
\* Lost if it was sealed under another master key.
CaRows == [name : Cas, eab : Cas \cup {None, Lost}]
TenantRows == [name : Slugs, ca : Ids, org : Orgs \cup {None}, cred : Slugs \cup {None, Lost}]
DeviceRows == [name : Fqdns, tenant : Ids, enabled : BOOLEAN,
               cred : Fqdns \cup {None, Lost}, key : Fqdns \cup {None}]
CertRows == [device : Ids, ca : Ids, subject : Fqdns, sealed : Fqdns \cup {Lost}]

Rows(table) == {i \in Ids : table[i] # NoRow}
Named(table, n) == {i \in Rows(table) : table[i].name = n}

\* What the schema demands of the tables: unique keys and foreign keys.
Unique(table) == \A i, j \in Rows(table) : table[i].name = table[j].name => i = j

Intact(c, t, d, x) ==
    /\ c \in [Ids -> CaRows \cup {NoRow}]
    /\ t \in [Ids -> TenantRows \cup {NoRow}]
    /\ d \in [Ids -> DeviceRows \cup {NoRow}]
    /\ x \in [Ids -> CertRows \cup {NoRow}]
    /\ Unique(c) /\ Unique(t) /\ Unique(d)
    /\ \A i \in Rows(t) : c[t[i].ca] # NoRow
    /\ \A i \in Rows(d) : t[d[i].tenant] # NoRow
    /\ \A i \in Rows(x) : d[x[i].device] # NoRow /\ c[x[i].ca] # NoRow

\* What was stored was stored for the row it is in.
Tidy(c, t, d, x) ==
    /\ \A i \in Rows(c) : c[i].eab \in {c[i].name, None}
    /\ \A i \in Rows(t) : t[i].cred \in {t[i].name, None}
    /\ \A i, j \in Rows(t) : t[i].org = t[j].org => i = j \/ t[i].org = None
    /\ \A i \in Rows(d) : {d[i].cred, d[i].key} \subseteq {d[i].name, None}
    /\ \A i \in Rows(x) : x[i].subject = d[x[i].device].name /\ x[i].sealed = x[i].subject

ASSUME StoredAssumption ==
    /\ NoRow \notin CaRows \cup TenantRows \cup DeviceRows \cup CertRows
    /\ \A s \in Stored : /\ Intact(s.ca, s.tenant, s.device, s.cert)
                         /\ Tidy(s.ca, s.tenant, s.device, s.cert)

VARIABLES
    ca, tenant, device, cert, \* the tables: row ids to rows
    work,      \* what each request has read and is about to write
    served,    \* the requests begun
    askedCa,   \* the CA each tenant was last put under, by name
    asked,     \* the tenant each device was last put under, by name, and
               \* whether it was last asked to be enabled
    reissued,  \* a new row got an id that an open request holds
    contended  \* the organisations that two open requests wanted to link

tables == <<ca, tenant, device, cert>>
wishes == <<askedCa, asked>>
ghosts == <<wishes, reissued, contended>>
vars == <<tables, work, served, ghosts>>

Reading == {"list", "cli_list", "cli_add", "fetch"}
Writing == {"new_ca", "set_ca", "drop_ca", "new_tenant", "set_tenant", "drop_tenant",
            "new_device", "set_device", "drop_device", "new_cert"}

\* id, name: the row to change, and its key when it was read; ref, owner: the
\* row it is to refer to (0: none), and its key; names: the keys of the rows to
\* insert; drop: the certificates to delete with a device; checked: nothing
\* was committed by others since the request looked; the others: the columns to
\* write (Keep: not this one)
Works == [op : {"idle"} \cup Reading \cup Writing, id : Ids \cup {0}, name : Names \cup {None},
          ref : Ids \cup {0}, owner : Names \cup {None}, names : SUBSET Names,
          drop : SUBSET Ids, checked : BOOLEAN,
          eab : Cas \cup {None, Keep}, org : Orgs \cup {Keep}, enabled : BOOLEAN \cup {Keep},
          cred : Slugs \cup Fqdns \cup {Keep}, key : Fqdns \cup {Keep}]

Idle == [op |-> "idle", id |-> 0, name |-> None, ref |-> 0, owner |-> None, names |-> {},
         drop |-> {}, checked |-> FALSE,
         eab |-> Keep, org |-> Keep, enabled |-> Keep, cred |-> Keep, key |-> Keep]

TypeOK ==
    /\ ca \in [Ids -> CaRows \cup {NoRow}]
    /\ tenant \in [Ids -> TenantRows \cup {NoRow}]
    /\ device \in [Ids -> DeviceRows \cup {NoRow}]
    /\ cert \in [Ids -> CertRows \cup {NoRow}]
    /\ work \in [Requests -> Works]
    /\ served \in 0..MaxServed
    /\ askedCa \in [Slugs -> Cas \cup {None}]
    /\ asked \in [Fqdns -> [tenant : Slugs \cup {None}, enabled : BOOLEAN]]
    /\ reissued \in BOOLEAN
    /\ contended \subseteq Orgs

Init ==
    /\ \E s \in Stored : ca = s.ca /\ tenant = s.tenant /\ device = s.device /\ cert = s.cert
    /\ work = [r \in Requests |-> Idle]
    /\ served = 0
    /\ askedCa \in [Slugs -> Cas \cup {None}]
    /\ \A i \in Rows(tenant) : askedCa[tenant[i].name] = ca[tenant[i].ca].name
    /\ \A s \in Slugs : Named(tenant, s) = {} => askedCa[s] = None
    /\ asked \in [Fqdns -> [tenant : Slugs \cup {None}, enabled : BOOLEAN]]
    /\ \A i \in Rows(device) :
          asked[device[i].name] = [tenant |-> tenant[device[i].tenant].name,
                                   enabled |-> device[i].enabled]
    /\ \A n \in Fqdns : Named(device, n) = {} => asked[n] = [tenant |-> None, enabled |-> FALSE]
    /\ reissued = FALSE
    /\ contended = {}

-----------------------------------------------------------------------------
(* What a request reads                                                    *)

\* A request begins by looking, and plans w.  One that is refused (404, 409,
\* 400) changes nothing and is left out.
Open(r, w) ==
    /\ work[r].op = "idle"
    /\ served < MaxServed
    /\ served' = served + 1
    /\ work' = [work EXCEPT ![r] = w]
    /\ UNCHANGED <<tables, wishes, reissued>>

Begin(r, w) == Open(r, w) /\ UNCHANGED contended

Looked == [Idle EXCEPT !.checked = TRUE]

\* A column that is assigned the value it had when it was read is not written,
\* nor is a reference to the row it referred to (0).
Assigned(new, read) == IF new = read THEN Keep ELSE new
Referred(new, read) == IF new = read THEN 0 ELSE new

\* create_ca_profile, and the same in the CLI; with EAB credentials or without
CreateCa(r) ==
    \E n \in Cas, eab \in BOOLEAN :
        /\ Named(ca, n) = {}
        /\ Begin(r, [Looked EXCEPT !.op = "new_ca", !.names = {n},
                                   !.eab = IF eab THEN n ELSE None])

\* update_ca_profile, as far as the sealed columns go: set or cleared
UpdateCa(r) ==
    \E n \in Cas, clear \in BOOLEAN : \E i \in Named(ca, n) :
        Begin(r, [Looked EXCEPT !.op = "set_ca", !.id = i, !.name = n,
                                !.eab = IF clear THEN Assigned(None, ca[i].eab) ELSE n])

\* delete_ca_profile looks for tenants, not for certificates.
DeleteCa(r) ==
    \E n \in Cas : \E i \in Named(ca, n) :
        /\ \A t \in Rows(tenant) : tenant[t].ca # i
        /\ Begin(r, [Looked EXCEPT !.op = "drop_ca", !.id = i, !.name = n])

NewTenant(s, i, n, looked) ==
    [Idle EXCEPT !.op = "new_tenant", !.names = {s}, !.ref = i, !.owner = n, !.checked = looked]

\* create_tenant
CreateTenant(r) ==
    \E s \in Slugs, n \in Cas : \E i \in Named(ca, n) :
        /\ Named(tenant, s) = {}
        /\ Begin(r, NewTenant(s, i, n, TRUE))

\* tenant add: it leaves it to the schema to refuse a slug that is taken.
TenantAdd(r) ==
    \E s \in Slugs, n \in Cas : \E i \in Named(ca, n) :
        Begin(r, NewTenant(s, i, n, FALSE))

\* update_tenant and tenant set-ca: a tenant is put under another CA.
UpdateTenant(r) ==
    \E s \in Slugs, n \in Cas : \E i \in Named(tenant, s), k \in Named(ca, n) :
        Begin(r, [Looked EXCEPT !.op = "set_tenant", !.id = i, !.name = s,
                                !.ref = Referred(k, tenant[i].ca), !.owner = n])

\* Mutant: a tenant is deleted without a look at its devices.
DeleteTenant_Unchecked(r) ==
    \E s \in Slugs : \E i \in Named(tenant, s) :
        Begin(r, [Looked EXCEPT !.op = "drop_tenant", !.id = i, !.name = s])

\* delete_tenant
DeleteTenant(r) ==
    \E s \in Slugs : \E i \in Named(tenant, s) :
        /\ \A d \in Rows(device) : device[d].tenant # i
        /\ Begin(r, [Looked EXCEPT !.op = "drop_tenant", !.id = i, !.name = s])

\* Two open requests want to link one organisation.
Contend(o) ==
    contended' = contended \cup {p \in {o} : \E q \in Requests : work[q].org = p}

Link(r, s, i, o) ==
    /\ Open(r, [Looked EXCEPT !.op = "set_tenant", !.id = i, !.name = s,
                              !.org = Assigned(o, tenant[i].org)])
    /\ Contend(o)

\* Mutant: only an unlinked tenant is looked for, not who else has the
\* organisation.
LinkWebexOrg_Unchecked(r) ==
    \E s \in Slugs, o \in Orgs : \E i \in Named(tenant, s) :
        /\ tenant[i].org = None
        /\ Link(r, s, i, o)

\* link_webex_org, tenant set-webex-org
LinkWebexOrg(r) ==
    \E s \in Slugs, o \in Orgs : \E i \in Named(tenant, s) :
        /\ \A j \in Rows(tenant) : tenant[j].org = o => tenant[j].name = s
        /\ Link(r, s, i, o)

\* set_tenant_credentials
SetTenantCredentials(r) ==
    \E s \in Slugs : \E i \in Named(tenant, s) :
        Begin(r, [Looked EXCEPT !.op = "set_tenant", !.id = i, !.name = s, !.cred = s])

NewDevices(ns, i, s, on, looked) ==
    [Idle EXCEPT !.op = "new_device", !.names = ns, !.ref = i, !.owner = s,
                 !.enabled = on, !.checked = looked]

\* create_device
CreateDevice(r) ==
    \E n \in Fqdns, s \in Slugs, on \in BOOLEAN : \E i \in Named(tenant, s) :
        /\ Named(device, n) = {}
        /\ Begin(r, NewDevices({n}, i, s, on, TRUE))

\* device add: enabled, and without a look for the same name
DeviceAdd(r) ==
    \E n \in Fqdns, s \in Slugs : \E i \in Named(tenant, s) :
        Begin(r, NewDevices({n}, i, s, TRUE, FALSE))

SetDevice(n, i) == [Looked EXCEPT !.op = "set_device", !.id = i, !.name = n]

\* update_device: it is enabled or disabled, or moved to another tenant, or
\* both.
UpdateDevice(r) ==
    \E n \in Fqdns, on \in BOOLEAN \cup {Keep} : \E i \in Named(device, n) :
        LET w == [SetDevice(n, i) EXCEPT !.enabled = Assigned(on, device[i].enabled)]
        IN  \/ on # Keep /\ Begin(r, w)
            \/ \E s \in Slugs : \E t \in Named(tenant, s) :
                  Begin(r, [w EXCEPT !.ref = Referred(t, device[i].tenant), !.owner = s])

\* delete_device: with the certificates it finds
DeleteDevice(r) ==
    \E n \in Fqdns : \E i \in Named(device, n) :
        Begin(r, [Looked EXCEPT !.op = "drop_device", !.id = i, !.name = n,
                                !.drop = {x \in Rows(cert) : cert[x].device = i}])

\* set_device_credentials
SetDeviceCredentials(r) ==
    \E n \in Fqdns : \E i \in Named(device, n) :
        Begin(r, [SetDevice(n, i) EXCEPT !.cred = n])

\* A request goes on: it has looked again, or got an answer.
Plan(r, w) ==
    /\ work' = [work EXCEPT ![r] = w]
    /\ UNCHANGED <<tables, served, ghosts>>

\* api_preview_host_key and device trust: the gateway is asked for its key,
PreviewHostKey(r) ==
    \E n \in Fqdns : \E i \in Named(device, n) :
        Begin(r, [Looked EXCEPT !.op = "fetch", !.name = n])

\* which is pinned to the device that has the name then.
PinHostKey(r) ==
    /\ work[r].op = "fetch"
    /\ \E i \in Named(device, work[r].name) :
          Plan(r, [work[r] EXCEPT !.op = "set_device", !.id = i, !.key = work[r].name])

\* IssuanceService: the device, its tenant and their CA profile are loaded
\* before the order, which takes minutes, and the certificate is stored after.
Issue(r) ==
    \E n \in Fqdns : \E i \in Named(device, n) :
        LET k == tenant[device[i].tenant].ca
        IN  /\ ca[k].eab \in {None, ca[k].name}
            /\ Begin(r, [Looked EXCEPT !.op = "new_cert", !.id = i, !.name = n,
                                       !.ref = k, !.owner = ca[k].name])

\* webex_import: the tenant is loaded, and Webex asked for the trunks of the
\* organisation given or else of the tenant's.
Import(r) ==
    \E s \in Slugs : \E i \in Named(tenant, s) :
        /\ \E o \in Orgs \cup {tenant[i].org} : o # None
        /\ Begin(r, [Looked EXCEPT !.op = "list", !.ref = i, !.owner = s])

\* WebexInventory.trunks: whatever the organisation has
Answers == SUBSET Fqdns

\* The trunks whose names no device has are to become devices, disabled.
Candidates == {{n \in found : Named(device, n) = {}} : found \in Answers} \ {{}}

\* Mutant: it is left open whether they are enabled.
Trunks_Unset(r) ==
    /\ work[r].op = "list"
    /\ \E ns \in Candidates :
          Plan(r, [work[r] EXCEPT !.op = "new_device", !.names = ns])

Trunks(r) ==
    /\ work[r].op = "list"
    /\ \E ns \in Candidates :
          Plan(r, [work[r] EXCEPT !.op = "new_device", !.names = ns, !.enabled = FALSE])

\* webex import of the CLI: each time in a session of its own, the
\* organisation is looked up,
CliImport(r) ==
    \E s \in Slugs :
        /\ \E o \in Orgs \cup {tenant[i].org : i \in Named(tenant, s)} : o # None
        /\ Begin(r, [Looked EXCEPT !.op = "cli_list", !.owner = s])

\* then, with the answer of Webex, the tenant and the names that are taken,
CliTrunks(r) ==
    /\ work[r].op = "cli_list"
    /\ Named(tenant, work[r].owner) # {}
    /\ \E ns \in Candidates :
          Plan(r, [work[r] EXCEPT !.op = "cli_add", !.names = ns, !.enabled = FALSE])

\* then the tenant again.
CliAttach(r) ==
    /\ work[r].op = "cli_add"
    /\ \E i \in Named(tenant, work[r].owner) :
          Plan(r, [work[r] EXCEPT !.op = "new_device", !.ref = i])

-----------------------------------------------------------------------------
(* What a request writes                                                   *)

Free(table, names) == \A n \in names : Named(table, n) = {}

\* What the schema demands of a statement.  To update a row that is gone is an
\* error of the ORM, to delete one is not.
Fits(w) ==
    /\ w.op = "new_ca" => Free(ca, w.names)
    /\ w.op = "set_ca" => ca[w.id] # NoRow
    /\ w.op = "drop_ca" => /\ \A i \in Rows(tenant) : tenant[i].ca # w.id
                           /\ \A i \in Rows(cert) : cert[i].ca # w.id
    /\ w.op = "new_tenant" => Free(tenant, w.names) /\ ca[w.ref] # NoRow
    /\ w.op = "set_tenant" => /\ tenant[w.id] # NoRow
                              /\ w.ref # 0 => ca[w.ref] # NoRow
    /\ w.op = "drop_tenant" => \A i \in Rows(device) : device[i].tenant # w.id
    /\ w.op = "new_device" => Free(device, w.names) /\ tenant[w.ref] # NoRow
    /\ w.op = "set_device" => /\ device[w.id] # NoRow
                              /\ w.ref # 0 => tenant[w.ref] # NoRow
    /\ w.op = "drop_device" => \A i \in Rows(cert) \ w.drop : cert[i].device # w.id
    /\ w.op = "new_cert" => device[w.id] # NoRow /\ ca[w.ref] # NoRow

\* The request is over, and what the others have looked at may have changed.
Settle(r) ==
    /\ work' = [q \in Requests |-> IF q = r THEN Idle ELSE [work[q] EXCEPT !.checked = FALSE]]
    /\ UNCHANGED <<served, contended>>

Commit(r, op) == work[r].op = op /\ Fits(work[r]) /\ Settle(r)

\* The ids of new rows: those after the largest one in use.
Fresh(table, new) ==
    \A i \in new : /\ \A j \in Rows(table) : j < i
                   /\ \A k \in Ids : k < i => k \in new \/ \E j \in Rows(table) : k <= j

\* The rows an open request has loaded and refers to by id
HoldsCa(w, i) == \/ w.op \in {"set_ca", "drop_ca"} /\ w.id = i
                 \/ w.op \in {"new_tenant", "set_tenant", "new_cert"} /\ w.ref = i
HoldsTenant(w, i) == \/ w.op \in {"set_tenant", "drop_tenant"} /\ w.id = i
                     \/ w.op \in {"list", "new_device", "set_device"} /\ w.ref = i
HoldsDevice(w, i) == w.op \in {"set_device", "drop_device", "new_cert"} /\ w.id = i
HoldsCert(w, i) == i \in w.drop

Written(new, old) == IF new = Keep THEN old ELSE new
Referring(new, old) == IF new = 0 THEN old ELSE new

InsertCa(r) ==
    /\ Commit(r, "new_ca")
    /\ \E i \in Ids, n \in work[r].names :
          /\ Fresh(ca, {i})
          /\ ca' = [ca EXCEPT ![i] = [name |-> n, eab |-> work[r].eab]]
          /\ reissued' = (reissued \/ \E q \in Requests : HoldsCa(work[q], i))
    /\ UNCHANGED <<tenant, device, cert, wishes>>

UpdateCaRow(r) ==
    /\ Commit(r, "set_ca")
    /\ ca' = [ca EXCEPT ![work[r].id].eab = Written(work[r].eab, @)]
    /\ UNCHANGED <<tenant, device, cert, wishes, reissued>>

RemoveCa(r) ==
    /\ Commit(r, "drop_ca")
    /\ ca' = [ca EXCEPT ![work[r].id] = NoRow]
    /\ UNCHANGED <<tenant, device, cert, wishes, reissued>>

InsertTenant(r) ==
    /\ Commit(r, "new_tenant")
    /\ \E i \in Ids, s \in work[r].names :
          /\ Fresh(tenant, {i})
          /\ tenant' = [tenant EXCEPT ![i] =
                           [name |-> s, ca |-> work[r].ref, org |-> None, cred |-> None]]
          /\ askedCa' = [askedCa EXCEPT ![s] = work[r].owner]
          /\ reissued' = (reissued \/ \E q \in Requests : HoldsTenant(work[q], i))
    /\ UNCHANGED <<ca, device, cert, asked>>

\* The row t with the columns of w written
TenantWith(t, w) ==
    [t EXCEPT !.ca = Referring(w.ref, @), !.org = Written(w.org, @), !.cred = Written(w.cred, @)]

UpdateTenantRow(r) ==
    LET w == work[r]
    IN  /\ Commit(r, "set_tenant")
        /\ tenant' = [tenant EXCEPT ![w.id] = TenantWith(@, w)]
        /\ askedCa' = [askedCa EXCEPT ![w.name] = IF w.ref = 0 THEN @ ELSE w.owner]
        /\ UNCHANGED <<ca, device, cert, asked, reissued>>

RemoveTenant(r) ==
    /\ Commit(r, "drop_tenant")
    /\ tenant' = [tenant EXCEPT ![work[r].id] = NoRow]
    /\ UNCHANGED <<ca, device, cert, wishes, reissued>>

InsertDevices(r) ==
    LET w == work[r]
    IN  /\ Commit(r, "new_device")
        /\ \E new \in SUBSET Ids : \E nameOf \in Bijection(new, w.names) :
              /\ Fresh(device, new)
              /\ device' = [i \in Ids |->
                    IF i \in new THEN [name |-> nameOf[i], tenant |-> w.ref,
                                       enabled |-> w.enabled, cred |-> None, key |-> None]
                    ELSE device[i]]
              /\ reissued' = (reissued \/ \E q \in Requests, i \in new : HoldsDevice(work[q], i))
        /\ asked' = [n \in Fqdns |->
              IF n \in w.names THEN [tenant |-> w.owner, enabled |-> w.enabled] ELSE asked[n]]
        /\ UNCHANGED <<ca, tenant, cert, askedCa>>

\* What a request wants of a device, said of its row or of the name asked for
Changed(d, w, owner) ==
    [d EXCEPT !.tenant = IF w.ref = 0 THEN @ ELSE owner, !.enabled = Written(w.enabled, @)]

\* The row d with the columns of w written
DeviceWith(d, w) ==
    [Changed(d, w, w.ref) EXCEPT !.cred = Written(w.cred, @), !.key = Written(w.key, @)]

\* Mutant: a change that does not mention it disables the device.
UpdateDeviceRow_Disables(r) ==
    LET w == work[r]
    IN  /\ Commit(r, "set_device")
        /\ device' = [device EXCEPT ![w.id] =
                         [DeviceWith(@, w) EXCEPT !.enabled = (w.enabled = TRUE)]]
        /\ asked' = [asked EXCEPT ![w.name] = Changed(@, w, w.owner)]
        /\ UNCHANGED <<ca, tenant, cert, askedCa, reissued>>

UpdateDeviceRow(r) ==
    LET w == work[r]
    IN  /\ Commit(r, "set_device")
        /\ device' = [device EXCEPT ![w.id] = DeviceWith(@, w)]
        /\ asked' = [asked EXCEPT ![w.name] = Changed(@, w, w.owner)]
        /\ UNCHANGED <<ca, tenant, cert, askedCa, reissued>>

\* Mutant: foreign keys are off, and the certificates are left behind.
RemoveDevice_Orphans(r) ==
    /\ work[r].op = "drop_device"
    /\ Settle(r)
    /\ device' = [device EXCEPT ![work[r].id] = NoRow]
    /\ UNCHANGED <<ca, tenant, cert, wishes, reissued>>

RemoveDevice(r) ==
    /\ Commit(r, "drop_device")
    /\ device' = [device EXCEPT ![work[r].id] = NoRow]
    /\ cert' = [i \in Ids |-> IF i \in work[r].drop THEN NoRow ELSE cert[i]]
    /\ UNCHANGED <<ca, tenant, wishes, reissued>>

InsertCert(r) ==
    LET w == work[r]
    IN  /\ Commit(r, "new_cert")
        /\ \E i \in Ids :
              /\ Fresh(cert, {i})
              /\ cert' = [cert EXCEPT ![i] = [device |-> w.id, ca |-> w.ref,
                                              subject |-> w.name, sealed |-> w.name]]
              /\ reissued' = (reissued \/ \E q \in Requests : HoldsCert(work[q], i))
        /\ UNCHANGED <<ca, tenant, device, wishes>>

\* The request ends without a write: the schema refuses it, the database is
\* locked, Webex, the gateway or the CA fails, or its process is killed.
Abandon(r) ==
    /\ work[r].op # "idle"
    /\ Plan(r, Idle)

\* The program comes back with another master key: nothing sealed before opens.
Rotate ==
    /\ work' = [r \in Requests |-> Idle]
    /\ ca' = [i \in Ids |-> IF i \in Rows(ca) /\ ca[i].eab # None
                            THEN [ca[i] EXCEPT !.eab = Lost] ELSE ca[i]]
    /\ tenant' = [i \in Ids |-> IF i \in Rows(tenant) /\ tenant[i].cred # None
                                THEN [tenant[i] EXCEPT !.cred = Lost] ELSE tenant[i]]
    /\ device' = [i \in Ids |-> IF i \in Rows(device) /\ device[i].cred # None
                                THEN [device[i] EXCEPT !.cred = Lost] ELSE device[i]]
    /\ cert' = [i \in Ids |-> IF i \in Rows(cert) THEN [cert[i] EXCEPT !.sealed = Lost]
                              ELSE cert[i]]
    /\ UNCHANGED <<served, ghosts>>

-----------------------------------------------------------------------------

\* What the console and the CLI both offer, for CA profiles and tenants, and
\* for devices
CommonTenants(r) == CreateCa(r) \/ UpdateTenant(r) \/ LinkWebexOrg(r) \/ SetTenantCredentials(r)
CommonDevices(r) == SetDeviceCredentials(r) \/ PreviewHostKey(r) \/ PinHostKey(r) \/ Issue(r)

\* What only the console offers
ConsoleTenants(r) == UpdateCa(r) \/ DeleteCa(r) \/ CreateTenant(r) \/ DeleteTenant(r)
ConsoleDevices(r) ==
    CreateDevice(r) \/ UpdateDevice(r) \/ DeleteDevice(r) \/ Import(r) \/ Trunks(r)

\* What the CLI does in its own way
CliOnly(r) == TenantAdd(r) \/ DeviceAdd(r) \/ CliImport(r) \/ CliTrunks(r) \/ CliAttach(r)

Look(r) ==
    CommonTenants(r) \/ CommonDevices(r) \/ ConsoleTenants(r) \/ ConsoleDevices(r) \/ CliOnly(r)

Write(r) ==
    \/ InsertCa(r) \/ UpdateCaRow(r) \/ RemoveCa(r)
    \/ InsertTenant(r) \/ UpdateTenantRow(r) \/ RemoveTenant(r)
    \/ InsertDevices(r) \/ UpdateDeviceRow(r) \/ RemoveDevice(r)
    \/ InsertCert(r)

Next == (\E r \in Requests : Look(r) \/ Write(r) \/ Abandon(r)) \/ Rotate

Spec == Init /\ [][Next]_vars

-----------------------------------------------------------------------------
(* Sealed values                                                           *)

\* Mutant: a sealed value is not bound to its record.
Opens_Anywhere(v, n) == v # Lost

\* SecretBox.open(v) with the AAD of the record named n
Opens(v, n) == v = n

\* resolve_credentials: the record whose credentials a gateway is sent, or None
CredentialsFor(d) ==
    LET row == IF d.cred # None THEN d ELSE tenant[d.tenant]
    IN  IF row.cred # None /\ Opens(row.cred, row.name) THEN row.cred ELSE None

\* Mutant: the report forgets the defaults of the tenants.
SealedRecords_NoTenants ==
    {<<ca[i].eab, ca[i].name>> : i \in Rows(ca)}
    \cup {<<device[i].cred, device[i].name>> : i \in Rows(device)}
    \cup {<<cert[i].sealed, device[cert[i].device].name>> : i \in Rows(cert)}

\* _sealed_records: what is sealed, and the record it should open for
SealedRecords ==
    {<<ca[i].eab, ca[i].name>> : i \in Rows(ca)}
    \cup {<<tenant[i].cred, tenant[i].name>> : i \in Rows(tenant)}
    \cup {<<device[i].cred, device[i].name>> : i \in Rows(device)}
    \cup {<<cert[i].sealed, device[cert[i].device].name>> : i \in Rows(cert)}

\* run_checks has nothing to say of sealed values and credentials.
Healthy ==
    /\ \A s \in SealedRecords : s[1] # None => Opens(s[1], s[2])
    /\ \A i \in Rows(device) : device[i].cred # None \/ tenant[device[i].tenant].cred # None

-----------------------------------------------------------------------------
(* Properties                                                              *)

\* Every gateway and every tenant is where the last request that moved it put
\* it (create_device, update_device, webex_import: app/inventory.py:308-397),
\* enabled only if it was asked to be, and what is stored in its row was stored
\* for it, whatever others committed between the reads and the writes of these
\* requests; unless an id was reissued under an open one.
AsAsked ==
    reissued \/
    /\ \A i \in Rows(device) :
          LET d == device[i]
          IN  /\ asked[d.name] = [tenant |-> tenant[d.tenant].name, enabled |-> d.enabled]
              /\ d.cred \in {d.name, None, Lost} /\ d.key \in {d.name, None}
    /\ \A i \in Rows(tenant) :
          LET t == tenant[i]
          IN askedCa[t.name] = ca[t.ca].name /\ t.cred \in {t.name, None, Lost}

\* A certificate on record, with its escrowed key, belongs to a gateway on
\* record, the one it was ordered for, although the row is written minutes
\* after the gateway's was read (app/issuance.py:341) and gateways are deleted
\* in between; unless an id was reissued.
CertificatesFit ==
    reissued \/
    \A i \in Rows(cert) :
        LET x == cert[i]
        IN  /\ device[x.device] # NoRow
            /\ x.subject = device[x.device].name
            /\ x.sealed \in {x.subject, Lost}

\* A gateway is sent its own credentials or its tenant's, never those stored
\* for another one, even in a row whose id was reissued (the AAD of
\* app/devices/factory.py:30-40).
CredentialsOwn ==
    \A i \in Rows(device) :
        LET d == device[i]
        IN CredentialsFor(d) \in {None, d.name, tenant[d.tenant].name}

\* One Webex organisation is linked to one tenant (app/api/routes.py:449),
\* unless two requests to link it were open at once.
OneTenantPerOrg ==
    \A i, j \in Rows(tenant) :
        tenant[i].org = tenant[j].org /\ tenant[i].org \notin contended \cup {None} => i = j

\* A request whose checks passed, with nothing committed in between, is not
\* refused by the schema; only a CA profile without tenants may still be
\* referred to, by certificates it issued (app/inventory.py:168).
ChecksSuffice ==
    \A r \in Requests :
        LET w == work[r]
        IN  w.checked => Fits(w) \/ /\ w.op = "drop_ca"
                                    /\ \E i \in Rows(cert) : cert[i].ca = w.id

\* When the doctor finds that everything opens and no gateway lacks
\* credentials, every gateway's credentials can be resolved and every stored
\* certificate can be deployed (app/health.py:53-100 against
\* app/devices/factory.py:42-89).
DoctorTruthful ==
    Healthy => /\ \A i \in Rows(device) : CredentialsFor(device[i]) # None
               /\ \A i \in Rows(cert) : Opens(cert[i].sealed, device[cert[i].device].name)

=============================================================================
