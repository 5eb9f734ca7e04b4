-------------------------- MODULE InventoryProofs --------------------------
(***************************************************************************)
(* Theorems about Inventory, for any requests, keys and organisations, any *)
(* bounds and any stored datastore that is intact and tidy.                *)
(***************************************************************************)
EXTENDS Inventory, TLAPS

\* What the fields of a request's plan hold
Shape(w) ==
    /\ w.op = "new_ca" => w.names \subseteq Cas /\ w.eab \in Cas \cup {None}
    /\ w.op \in {"set_ca", "drop_ca"} => w.id \in Ids /\ w.name \in Cas
    /\ w.op = "set_ca" => w.eab \in Cas \cup {None, Keep}
    /\ w.op = "new_tenant" => w.names \subseteq Slugs /\ w.ref \in Ids /\ w.owner \in Cas
    /\ w.op \in {"set_tenant", "drop_tenant"} => w.id \in Ids /\ w.name \in Slugs
    /\ w.op = "set_tenant" => /\ w.cred \in {w.name, Keep}
                              /\ w.ref # 0 => w.owner \in Cas
    /\ w.op \in {"list", "new_device"} => w.ref \in Ids
    /\ w.op \in {"list", "cli_list", "cli_add", "new_device"} => w.owner \in Slugs
    /\ w.op \in {"cli_add", "new_device"} =>
          w.names \subseteq Fqdns /\ w.enabled \in BOOLEAN
    /\ w.op \in {"fetch", "set_device", "drop_device", "new_cert"} => w.name \in Fqdns
    /\ w.op \in {"set_device", "drop_device", "new_cert"} => w.id \in Ids
    /\ w.op = "set_device" => /\ w.cred \in {w.name, Keep} /\ w.key \in {w.name, Keep}
                              /\ w.ref # 0 => w.owner \in Slugs
    /\ w.op = "new_cert" => w.ref \in Ids
    /\ w.op = "fetch" => w.ref = 0 /\ w.cred = Keep
    /\ w.org \in Orgs => w.op = "set_tenant"

Keyed(table, i, n) == i \in Ids /\ table[i] # NoRow => table[i].name = n

\* The rows it has loaded, if they are there, have the keys it read.
Kept(w) ==
    /\ w.op \in {"set_ca", "drop_ca"} => Keyed(ca, w.id, w.name)
    /\ w.op \in {"new_tenant", "set_tenant", "new_cert"} => Keyed(ca, w.ref, w.owner)
    /\ w.op \in {"set_tenant", "drop_tenant"} => Keyed(tenant, w.id, w.name)
    /\ w.op \in {"list", "new_device", "set_device"} => Keyed(tenant, w.ref, w.owner)
    /\ w.op \in {"set_device", "drop_device", "new_cert"} => Keyed(device, w.id, w.name)

\* What a request has checked, while nothing was committed since
Ready(w) ==
    /\ Fits(w) \/ (w.op = "drop_ca" /\ \E i \in Rows(cert) : cert[i].ca = w.id)
    /\ w.op = "list" => tenant[w.ref] # NoRow
    /\ w.op = "cli_add" => Free(device, w.names)

Good(w) ==
    /\ w \in Works
    /\ Shape(w)
    /\ reissued \/ Kept(w)
    /\ w.checked => Ready(w)

\* An organisation that one open request is to link has no other tenant.
Sole(w) ==
    w.org \in Orgs \ contended =>
        \A j \in Rows(tenant) : tenant[j].org = w.org => j = w.id

Rivals(r) ==
    \A q \in Requests \ {r} :
        work[q].org = work[r].org => work[r].org \in contended \cup {Keep}

Base ==
    /\ Intact(ca, tenant, device, cert)
    /\ served \in 0..MaxServed
    /\ askedCa \in [Slugs -> Cas \cup {None}]
    /\ asked \in [Fqdns -> [tenant : Slugs \cup {None}, enabled : BOOLEAN]]
    /\ reissued \in BOOLEAN
    /\ contended \subseteq Orgs

Plans ==
    /\ work \in [Requests -> Works]
    /\ \A r \in Requests : Good(work[r]) /\ Sole(work[r]) /\ Rivals(r)

LEMMA IdleGood == Idle \in Works /\ Looked \in Works
BY DEF Idle, Looked, Works, Ids, Names, Reading, Writing

LEMMA SetField ==
    ASSUME NEW w \in Works
    PROVE  /\ \A v \in {"idle"} \cup Reading \cup Writing : [w EXCEPT !.op = v] \in Works
           /\ \A v \in Ids \cup {0} : [w EXCEPT !.id = v] \in Works /\ [w EXCEPT !.ref = v] \in Works
           /\ \A v \in Names \cup {None} : /\ [w EXCEPT !.name = v] \in Works
                                           /\ [w EXCEPT !.owner = v] \in Works
           /\ \A v \in SUBSET Names : [w EXCEPT !.names = v] \in Works
           /\ \A v \in SUBSET Ids : [w EXCEPT !.drop = v] \in Works
           /\ \A v \in BOOLEAN : [w EXCEPT !.checked = v] \in Works
           /\ \A v \in Cas \cup {None, Keep} : [w EXCEPT !.eab = v] \in Works
           /\ \A v \in Orgs \cup {Keep} : [w EXCEPT !.org = v] \in Works
           /\ \A v \in BOOLEAN \cup {Keep} : [w EXCEPT !.enabled = v] \in Works
           /\ \A v \in Slugs \cup Fqdns \cup {Keep} : [w EXCEPT !.cred = v] \in Works
           /\ \A v \in Fqdns \cup {Keep} : [w EXCEPT !.key = v] \in Works
<1>1. /\ \A v \in {"idle"} \cup Reading \cup Writing : [w EXCEPT !.op = v] \in Works
      /\ \A v \in Ids \cup {0} : [w EXCEPT !.id = v] \in Works /\ [w EXCEPT !.ref = v] \in Works
      /\ \A v \in Names \cup {None} : /\ [w EXCEPT !.name = v] \in Works
                                      /\ [w EXCEPT !.owner = v] \in Works
  BY DEF Works
<1>2. /\ \A v \in SUBSET Names : [w EXCEPT !.names = v] \in Works
      /\ \A v \in SUBSET Ids : [w EXCEPT !.drop = v] \in Works
      /\ \A v \in BOOLEAN : [w EXCEPT !.checked = v] \in Works
  BY DEF Works
<1>3. /\ \A v \in Cas \cup {None, Keep} : [w EXCEPT !.eab = v] \in Works
      /\ \A v \in Orgs \cup {Keep} : [w EXCEPT !.org = v] \in Works
      /\ \A v \in BOOLEAN \cup {Keep} : [w EXCEPT !.enabled = v] \in Works
      /\ \A v \in Slugs \cup Fqdns \cup {Keep} : [w EXCEPT !.cred = v] \in Works
      /\ \A v \in Fqdns \cup {Keep} : [w EXCEPT !.key = v] \in Works
  BY DEF Works
<1> QED
  BY <1>1, <1>2, <1>3

LEMMA Vocabulary ==
    /\ {"list", "cli_list", "cli_add", "fetch", "new_ca", "set_ca", "drop_ca", "new_tenant",
        "set_tenant", "drop_tenant", "new_device", "set_device", "drop_device", "new_cert"}
          \subseteq Reading \cup Writing
    /\ Cas \subseteq Names /\ Slugs \subseteq Names /\ Fqdns \subseteq Names
BY DEF Reading, Writing, Names

LEMMA TableFacts ==
    ASSUME Base
    PROVE  /\ \A i \in Rows(ca) : i \in Ids /\ ca[i] \in CaRows
           /\ \A i \in Rows(tenant) : i \in Ids /\ tenant[i] \in TenantRows
           /\ \A i \in Rows(device) : i \in Ids /\ device[i] \in DeviceRows
           /\ \A i \in Rows(cert) : i \in Ids /\ cert[i] \in CertRows
           /\ \A i \in Ids : i \in Nat /\ i # 0
BY DEF Base, Intact, Rows, Ids

-----------------------------------------------------------------------------
(* What looking does                                                       *)

Planned(r, w) ==
    /\ w.org \notin Orgs
    /\ Good(w)
    /\ work' = [work EXCEPT ![r] = w]
    /\ served' \in 0..MaxServed
    /\ UNCHANGED <<tables, wishes, reissued, contended>>

LEMMA BeginPlanned ==
    ASSUME Base, NEW r, NEW w, Begin(r, w), Good(w), w.org \notin Orgs
    PROVE  Planned(r, w)
BY InventoryAssumption DEF Begin, Open, Planned, Base, tables, wishes

LEMMA CaLooks ==
    ASSUME Base, NEW r \in Requests,
           CreateCa(r) \/ UpdateCa(r) \/ DeleteCa(r)
    PROVE  \E w : Planned(r, w)
<1>1. CASE CreateCa(r)
  <2>1. PICK n \in Cas, eab \in BOOLEAN :
           /\ Named(ca, n) = {}
           /\ Begin(r, [Looked EXCEPT !.op = "new_ca", !.names = {n},
                                      !.eab = IF eab THEN n ELSE None])
    BY <1>1 DEF CreateCa
  <2> DEFINE w == [Looked EXCEPT !.op = "new_ca", !.names = {n},
                                      !.eab = IF eab THEN n ELSE None]
  <2>2. /\ w.op = "new_ca" /\ w.names = {n} /\ w.id = 0 /\ w.ref = 0
        /\ w.eab \in Cas \cup {None} /\ w.org = Keep
    BY DEF Looked, Idle
  <2>3. {n} \in SUBSET Names /\ (IF eab THEN n ELSE None) \in Cas \cup {None, Keep}
    BY <2>1, TableFacts, Vocabulary DEF Named, Rows, Assigned, Referred, CaRows, TenantRows, DeviceRows
  <2>4. w \in Works
    BY <2>3, IdleGood, SetField, Vocabulary
  <2>5. Good(w)
    BY <2>1, <2>2, <2>3, <2>4, TableFacts, InventoryAssumption
       DEF Good, Shape, Kept, Keyed, Ready, Fits, Free, Named, Rows, Referred, Assigned
  <2> QED
    BY <2>1, <2>2, <2>5, BeginPlanned, InventoryAssumption
<1>2. CASE UpdateCa(r)
  <2>1. PICK n \in Cas, clear \in BOOLEAN, i \in Ids :
           /\ i \in Named(ca, n)
           /\ Begin(r, [Looked EXCEPT !.op = "set_ca", !.id = i, !.name = n,
                                      !.eab = IF clear THEN Assigned(None, ca[i].eab) ELSE n])
    BY <1>2 DEF UpdateCa, Named, Rows
  <2> DEFINE w == [Looked EXCEPT !.op = "set_ca", !.id = i, !.name = n,
                                      !.eab = IF clear THEN Assigned(None, ca[i].eab) ELSE n]
  <2>2. /\ w.op = "set_ca" /\ w.id = i /\ w.name = n /\ w.ref = 0
        /\ w.eab = IF clear THEN Assigned(None, ca[i].eab) ELSE n
        /\ w.org = Keep
    BY DEF Looked, Idle
  <2>3. /\ n \in Names \cup {None} /\ i \in Ids \cup {0}
        /\ (IF clear THEN Assigned(None, ca[i].eab) ELSE n) \in Cas \cup {None, Keep}
    BY <2>1, TableFacts, Vocabulary DEF Named, Rows, Assigned, Referred, CaRows, TenantRows, DeviceRows
  <2>4. w \in Works
    BY <2>3, IdleGood, SetField, Vocabulary
  <2>5. Good(w)
    BY <2>1, <2>2, <2>3, <2>4, TableFacts, InventoryAssumption
       DEF Good, Shape, Kept, Keyed, Ready, Fits, Free, Named, Rows, Referred, Assigned
  <2> QED
    BY <2>1, <2>2, <2>5, BeginPlanned, InventoryAssumption
<1>3. CASE DeleteCa(r)
  <2>1. PICK n \in Cas, i \in Ids :
           /\ i \in Named(ca, n)
           /\ \A t \in Rows(tenant) : tenant[t].ca # i
           /\ Begin(r, [Looked EXCEPT !.op = "drop_ca", !.id = i, !.name = n])
    BY <1>3 DEF DeleteCa, Named, Rows
  <2> DEFINE w == [Looked EXCEPT !.op = "drop_ca", !.id = i, !.name = n]
  <2>2. /\ w.op = "drop_ca" /\ w.id = i /\ w.name = n /\ w.ref = 0 /\ w.org = Keep
    BY DEF Looked, Idle
  <2>3. n \in Names \cup {None} /\ i \in Ids \cup {0}
    BY <2>1, TableFacts, Vocabulary DEF Named, Rows, Assigned, Referred, CaRows, TenantRows, DeviceRows
  <2>4. w \in Works
    BY <2>3, IdleGood, SetField, Vocabulary
  <2>5. Good(w)
    BY <2>1, <2>2, <2>3, <2>4, TableFacts, InventoryAssumption
       DEF Good, Shape, Kept, Keyed, Ready, Fits, Free, Named, Rows, Referred, Assigned
  <2> QED
    BY <2>1, <2>2, <2>5, BeginPlanned, InventoryAssumption
<1> QED
  BY <1>1, <1>2, <1>3

LEMMA TenantLooks ==
    ASSUME Base, NEW r \in Requests,
           CreateTenant(r) \/ TenantAdd(r) \/ UpdateTenant(r)
           \/ DeleteTenant(r) \/ SetTenantCredentials(r)
    PROVE  \E w : Planned(r, w)
<1>1. CASE CreateTenant(r)
  <2>1. PICK s \in Slugs, n \in Cas, i \in Ids :
           /\ Named(tenant, s) = {}
           /\ i \in Named(ca, n)
           /\ Begin(r, NewTenant(s, i, n, TRUE))
    BY <1>1 DEF CreateTenant, Named, Rows
  <2> DEFINE w == NewTenant(s, i, n, TRUE)
  <2>2. /\ w.op = "new_tenant" /\ w.names = {s} /\ w.ref = i /\ w.owner = n /\ w.org = Keep
    BY DEF Looked, Idle, NewTenant
  <2>3. {s} \in SUBSET Names /\ n \in Names \cup {None} /\ i \in Ids \cup {0}
    BY <2>1, TableFacts, Vocabulary DEF Named, Rows, Assigned, Referred, CaRows, TenantRows, DeviceRows
  <2>4. w \in Works
    BY <2>3, IdleGood, SetField, Vocabulary DEF NewTenant
  <2>5. Good(w)
    BY <2>1, <2>2, <2>3, <2>4, TableFacts, InventoryAssumption
       DEF Good, Shape, Kept, Keyed, Ready, Fits, Free, Named, Rows, Referred, Assigned
  <2> QED
    BY <2>1, <2>2, <2>5, BeginPlanned, InventoryAssumption
<1>2. CASE TenantAdd(r)
  <2>1. PICK s \in Slugs, n \in Cas, i \in Ids :
           /\ i \in Named(ca, n)
           /\ Begin(r, NewTenant(s, i, n, FALSE))
    BY <1>2 DEF TenantAdd, Named, Rows
  <2> DEFINE w == NewTenant(s, i, n, FALSE)
  <2>2. /\ w.op = "new_tenant" /\ w.names = {s} /\ w.ref = i /\ w.owner = n /\ w.org = Keep
        /\ ~w.checked
    BY DEF Looked, Idle, NewTenant
  <2>3. {s} \in SUBSET Names /\ n \in Names \cup {None} /\ i \in Ids \cup {0}
    BY <2>1, TableFacts, Vocabulary DEF Named, Rows, Assigned, Referred, CaRows, TenantRows, DeviceRows
  <2>4. w \in Works
    BY <2>3, IdleGood, SetField, Vocabulary DEF NewTenant
  <2>5. Good(w)
    BY <2>1, <2>2, <2>3, <2>4, TableFacts, InventoryAssumption
       DEF Good, Shape, Kept, Keyed, Ready, Fits, Free, Named, Rows, Referred, Assigned
  <2> QED
    BY <2>1, <2>2, <2>5, BeginPlanned, InventoryAssumption
<1>3. CASE UpdateTenant(r)
  <2>1. PICK s \in Slugs, n \in Cas, i \in Ids, k \in Ids :
           /\ i \in Named(tenant, s)
           /\ k \in Named(ca, n)
           /\ Begin(r, [Looked EXCEPT !.op = "set_tenant", !.id = i, !.name = s,
                                      !.ref = Referred(k, tenant[i].ca), !.owner = n])
    BY <1>3 DEF UpdateTenant, Named, Rows
  <2> DEFINE w == [Looked EXCEPT !.op = "set_tenant", !.id = i, !.name = s,
                                      !.ref = Referred(k, tenant[i].ca), !.owner = n]
  <2>2. /\ w.op = "set_tenant" /\ w.id = i /\ w.name = s /\ w.ref = Referred(k, tenant[i].ca)
        /\ w.owner = n /\ w.cred = Keep /\ w.org = Keep
    BY DEF Looked, Idle
  <2>3. /\ s \in Names \cup {None} /\ n \in Names \cup {None} /\ i \in Ids \cup {0}
        /\ Referred(k, tenant[i].ca) \in Ids \cup {0}
    BY <2>1, TableFacts, Vocabulary DEF Named, Rows, Assigned, Referred, CaRows, TenantRows, DeviceRows
  <2>4. w \in Works
    BY <2>3, IdleGood, SetField, Vocabulary
  <2>5. Good(w)
    BY <2>1, <2>2, <2>3, <2>4, TableFacts, InventoryAssumption
       DEF Good, Shape, Kept, Keyed, Ready, Fits, Free, Named, Rows, Referred, Assigned
  <2> QED
    BY <2>1, <2>2, <2>5, BeginPlanned, InventoryAssumption
<1>4. CASE DeleteTenant(r)
  <2>1. PICK s \in Slugs, i \in Ids :
           /\ i \in Named(tenant, s)
           /\ \A d \in Rows(device) : device[d].tenant # i
           /\ Begin(r, [Looked EXCEPT !.op = "drop_tenant", !.id = i, !.name = s])
    BY <1>4 DEF DeleteTenant, Named, Rows
  <2> DEFINE w == [Looked EXCEPT !.op = "drop_tenant", !.id = i, !.name = s]
  <2>2. /\ w.op = "drop_tenant" /\ w.id = i /\ w.name = s /\ w.ref = 0 /\ w.org = Keep
    BY DEF Looked, Idle
  <2>3. s \in Names \cup {None} /\ i \in Ids \cup {0}
    BY <2>1, TableFacts, Vocabulary DEF Named, Rows, Assigned, Referred, CaRows, TenantRows, DeviceRows
  <2>4. w \in Works
    BY <2>3, IdleGood, SetField, Vocabulary
  <2>5. Good(w)
    BY <2>1, <2>2, <2>3, <2>4, TableFacts, InventoryAssumption
       DEF Good, Shape, Kept, Keyed, Ready, Fits, Free, Named, Rows, Referred, Assigned
  <2> QED
    BY <2>1, <2>2, <2>5, BeginPlanned, InventoryAssumption
<1>5. CASE SetTenantCredentials(r)
  <2>1. PICK s \in Slugs, i \in Ids :
           /\ i \in Named(tenant, s)
           /\ Begin(r, [Looked EXCEPT !.op = "set_tenant", !.id = i, !.name = s, !.cred = s])
    BY <1>5 DEF SetTenantCredentials, Named, Rows
  <2> DEFINE w == [Looked EXCEPT !.op = "set_tenant", !.id = i, !.name = s, !.cred = s]
  <2>2. /\ w.op = "set_tenant" /\ w.id = i /\ w.name = s /\ w.ref = 0
        /\ w.cred = s /\ w.org = Keep
    BY DEF Looked, Idle
  <2>3. s \in Names \cup {None} /\ i \in Ids \cup {0} /\ s \in Slugs \cup Fqdns \cup {Keep}
    BY <2>1, TableFacts, Vocabulary DEF Named, Rows, Assigned, Referred, CaRows, TenantRows, DeviceRows
  <2>4. w \in Works
    BY <2>3, IdleGood, SetField, Vocabulary
  <2>5. Good(w)
    BY <2>1, <2>2, <2>3, <2>4, TableFacts, InventoryAssumption
       DEF Good, Shape, Kept, Keyed, Ready, Fits, Free, Named, Rows, Referred, Assigned
  <2> QED
    BY <2>1, <2>2, <2>5, BeginPlanned, InventoryAssumption
<1> QED
  BY <1>1, <1>2, <1>3, <1>4, <1>5

LEMMA DeviceLooks ==
    ASSUME Base, NEW r \in Requests,
           CreateDevice(r) \/ DeviceAdd(r) \/ DeleteDevice(r) \/ SetDeviceCredentials(r)
           \/ PreviewHostKey(r) \/ Import(r) \/ CliImport(r)
    PROVE  \E w : Planned(r, w)
<1>1. CASE CreateDevice(r)
  <2>1. PICK n \in Fqdns, s \in Slugs, on \in BOOLEAN, i \in Ids :
           /\ i \in Named(tenant, s)
           /\ Named(device, n) = {}
           /\ Begin(r, NewDevices({n}, i, s, on, TRUE))
    BY <1>1 DEF CreateDevice, Named, Rows
  <2> DEFINE w == NewDevices({n}, i, s, on, TRUE)
  <2>2. /\ w.op = "new_device" /\ w.names = {n} /\ w.ref = i /\ w.owner = s /\ w.enabled = on
        /\ w.org = Keep
    BY DEF Looked, Idle, NewDevices
  <2>3. {n} \in SUBSET Names /\ s \in Names \cup {None} /\ i \in Ids \cup {0} /\ on \in BOOLEAN \cup {Keep}
    BY <2>1, TableFacts, Vocabulary DEF Named, Rows, Assigned, Referred, CaRows, TenantRows, DeviceRows
  <2>4. w \in Works
    BY <2>3, IdleGood, SetField, Vocabulary DEF NewDevices
  <2>5. Good(w)
    BY <2>1, <2>2, <2>3, <2>4, TableFacts, InventoryAssumption
       DEF Good, Shape, Kept, Keyed, Ready, Fits, Free, Named, Rows, Referred, Assigned
  <2> QED
    BY <2>1, <2>2, <2>5, BeginPlanned, InventoryAssumption
<1>2. CASE DeviceAdd(r)
  <2>1. PICK n \in Fqdns, s \in Slugs, i \in Ids :
           /\ i \in Named(tenant, s)
           /\ Begin(r, NewDevices({n}, i, s, TRUE, FALSE))
    BY <1>2 DEF DeviceAdd, Named, Rows
  <2> DEFINE w == NewDevices({n}, i, s, TRUE, FALSE)
  <2>2. /\ w.op = "new_device" /\ w.names = {n} /\ w.ref = i /\ w.owner = s /\ w.enabled
        /\ ~w.checked /\ w.org = Keep
    BY DEF Looked, Idle, NewDevices
  <2>3. {n} \in SUBSET Names /\ s \in Names \cup {None} /\ i \in Ids \cup {0} /\ TRUE \in BOOLEAN \cup {Keep}
    BY <2>1, TableFacts, Vocabulary DEF Named, Rows, Assigned, Referred, CaRows, TenantRows, DeviceRows
  <2>4. w \in Works
    BY <2>3, IdleGood, SetField, Vocabulary DEF NewDevices
  <2>5. Good(w)
    BY <2>1, <2>2, <2>3, <2>4, TableFacts, InventoryAssumption
       DEF Good, Shape, Kept, Keyed, Ready, Fits, Free, Named, Rows, Referred, Assigned
  <2> QED
    BY <2>1, <2>2, <2>5, BeginPlanned, InventoryAssumption
<1>3. CASE DeleteDevice(r)
  <2>1. PICK n \in Fqdns, i \in Ids :
           /\ i \in Named(device, n)
           /\ Begin(r, [Looked EXCEPT !.op = "drop_device", !.id = i, !.name = n,
                                      !.drop = {x \in Rows(cert) : cert[x].device = i}])
    BY <1>3 DEF DeleteDevice, Named, Rows
  <2> DEFINE w == [Looked EXCEPT !.op = "drop_device", !.id = i, !.name = n,
                                      !.drop = {x \in Rows(cert) : cert[x].device = i}]
  <2>2. /\ w.op = "drop_device" /\ w.id = i /\ w.name = n /\ w.ref = 0 /\ w.org = Keep
        /\ w.drop = {x \in Rows(cert) : cert[x].device = i}
    BY DEF Looked, Idle
  <2>3. /\ n \in Names \cup {None} /\ i \in Ids \cup {0}
        /\ {x \in Rows(cert) : cert[x].device = i} \in SUBSET Ids
    BY <2>1, TableFacts, Vocabulary DEF Named, Rows, Assigned, Referred, CaRows, TenantRows, DeviceRows
  <2>4. w \in Works
    BY <2>3, IdleGood, SetField, Vocabulary
  <2>5. Good(w)
    BY <2>1, <2>2, <2>3, <2>4, TableFacts, InventoryAssumption
       DEF Good, Shape, Kept, Keyed, Ready, Fits, Free, Named, Rows, Referred, Assigned
  <2> QED
    BY <2>1, <2>2, <2>5, BeginPlanned, InventoryAssumption
<1>4. CASE SetDeviceCredentials(r)
  <2>1. PICK n \in Fqdns, i \in Ids :
           /\ i \in Named(device, n)
           /\ Begin(r, [SetDevice(n, i) EXCEPT !.cred = n])
    BY <1>4 DEF SetDeviceCredentials, Named, Rows
  <2> DEFINE w == [SetDevice(n, i) EXCEPT !.cred = n]
  <2>2. /\ w.op = "set_device" /\ w.id = i /\ w.name = n /\ w.ref = 0 /\ w.cred = n
        /\ w.key = Keep /\ w.org = Keep
    BY DEF Looked, Idle, SetDevice
  <2>3. n \in Names \cup {None} /\ i \in Ids \cup {0} /\ n \in Slugs \cup Fqdns \cup {Keep}
    BY <2>1, TableFacts, Vocabulary DEF Named, Rows, Assigned, Referred, CaRows, TenantRows, DeviceRows
  <2>4. w \in Works
    BY <2>3, IdleGood, SetField, Vocabulary DEF SetDevice
  <2>5. Good(w)
    BY <2>1, <2>2, <2>3, <2>4, TableFacts, InventoryAssumption
       DEF Good, Shape, Kept, Keyed, Ready, Fits, Free, Named, Rows, Referred, Assigned
  <2> QED
    BY <2>1, <2>2, <2>5, BeginPlanned, InventoryAssumption
<1>5. CASE PreviewHostKey(r)
  <2>1. PICK n \in Fqdns, i \in Ids :
           /\ i \in Named(device, n)
           /\ Begin(r, [Looked EXCEPT !.op = "fetch", !.name = n])
    BY <1>5 DEF PreviewHostKey, Named, Rows
  <2> DEFINE w == [Looked EXCEPT !.op = "fetch", !.name = n]
  <2>2. /\ w.op = "fetch" /\ w.name = n /\ w.ref = 0 /\ w.cred = Keep /\ w.key = Keep /\ w.org = Keep
    BY DEF Looked, Idle
  <2>3. n \in Names \cup {None}
    BY <2>1, TableFacts, Vocabulary DEF Named, Rows, Assigned, Referred, CaRows, TenantRows, DeviceRows
  <2>4. w \in Works
    BY <2>3, IdleGood, SetField, Vocabulary
  <2>5. Good(w)
    BY <2>1, <2>2, <2>3, <2>4, TableFacts, InventoryAssumption
       DEF Good, Shape, Kept, Keyed, Ready, Fits, Free, Named, Rows, Referred, Assigned
  <2> QED
    BY <2>1, <2>2, <2>5, BeginPlanned, InventoryAssumption
<1>6. CASE Import(r)
  <2>1. PICK s \in Slugs, i \in Ids :
           /\ i \in Named(tenant, s)
           /\ Begin(r, [Looked EXCEPT !.op = "list", !.ref = i, !.owner = s])
    BY <1>6 DEF Import, Named, Rows
  <2> DEFINE w == [Looked EXCEPT !.op = "list", !.ref = i, !.owner = s]
  <2>2. /\ w.op = "list" /\ w.ref = i /\ w.owner = s /\ w.org = Keep
    BY DEF Looked, Idle
  <2>3. s \in Names \cup {None} /\ i \in Ids \cup {0}
    BY <2>1, TableFacts, Vocabulary DEF Named, Rows, Assigned, Referred, CaRows, TenantRows, DeviceRows
  <2>4. w \in Works
    BY <2>3, IdleGood, SetField, Vocabulary
  <2>5. Good(w)
    BY <2>1, <2>2, <2>3, <2>4, TableFacts, InventoryAssumption
       DEF Good, Shape, Kept, Keyed, Ready, Fits, Free, Named, Rows, Referred, Assigned
  <2> QED
    BY <2>1, <2>2, <2>5, BeginPlanned, InventoryAssumption
<1>7. CASE CliImport(r)
  <2>1. PICK s \in Slugs :
           /\ Begin(r, [Looked EXCEPT !.op = "cli_list", !.owner = s])
    BY <1>7 DEF CliImport, Named, Rows
  <2> DEFINE w == [Looked EXCEPT !.op = "cli_list", !.owner = s]
  <2>2. /\ w.op = "cli_list" /\ w.owner = s /\ w.org = Keep
    BY DEF Looked, Idle
  <2>3. s \in Names \cup {None}
    BY <2>1, TableFacts, Vocabulary DEF Named, Rows, Assigned, Referred, CaRows, TenantRows, DeviceRows
  <2>4. w \in Works
    BY <2>3, IdleGood, SetField, Vocabulary
  <2>5. Good(w)
    BY <2>1, <2>2, <2>3, <2>4, TableFacts, InventoryAssumption
       DEF Good, Shape, Kept, Keyed, Ready, Fits, Free, Named, Rows, Referred, Assigned
  <2> QED
    BY <2>1, <2>2, <2>5, BeginPlanned, InventoryAssumption
<1> QED
  BY <1>1, <1>2, <1>3, <1>4, <1>5, <1>6, <1>7

LEMMA UpdateLooks ==
    ASSUME Base, NEW r \in Requests, UpdateDevice(r)
    PROVE  \E w : Planned(r, w)
<1>1. PICK n \in Fqdns, on \in BOOLEAN \cup {Keep}, i \in Ids :
         /\ i \in Named(device, n)
         /\ LET w == [SetDevice(n, i) EXCEPT !.enabled = Assigned(on, device[i].enabled)]
            IN  \/ on # Keep /\ Begin(r, w)
                \/ \E s \in Slugs : \E t \in Named(tenant, s) :
                      Begin(r, [w EXCEPT !.ref = Referred(t, device[i].tenant), !.owner = s])
  BY DEF UpdateDevice, Named, Rows
<1> DEFINE w == [SetDevice(n, i) EXCEPT !.enabled = Assigned(on, device[i].enabled)]
<1>2. /\ n \in Names \cup {None} /\ i \in Ids \cup {0}
      /\ Assigned(on, device[i].enabled) \in BOOLEAN \cup {Keep}
  BY <1>1, Vocabulary DEF Assigned
<1>3. w \in Works
  BY <1>2, IdleGood, SetField, Vocabulary DEF SetDevice
<1>4. CASE Begin(r, w)
  <2>1. /\ w.op = "set_device" /\ w.id = i /\ w.name = n /\ w.ref = 0 /\ w.cred = Keep
        /\ w.key = Keep /\ w.org = Keep
    BY DEF Looked, Idle, SetDevice
  <2>2. Good(w)
    BY <1>1, <1>3, <2>1, TableFacts, InventoryAssumption
       DEF Good, Shape, Kept, Keyed, Ready, Fits, Named, Rows
  <2> QED
    BY <1>4, <2>1, <2>2, BeginPlanned, InventoryAssumption
<1>5. ASSUME NEW s \in Slugs, NEW t \in Named(tenant, s),
             Begin(r, [w EXCEPT !.ref = Referred(t, device[i].tenant), !.owner = s])
      PROVE  \E v : Planned(r, v)
  <2> DEFINE v == [w EXCEPT !.ref = Referred(t, device[i].tenant), !.owner = s]
  <2>1. /\ v.op = "set_device" /\ v.id = i /\ v.name = n /\ v.cred = Keep
        /\ v.key = Keep /\ v.org = Keep /\ v.ref = Referred(t, device[i].tenant) /\ v.owner = s
    BY DEF Looked, Idle, SetDevice
  <2>2. s \in Names \cup {None} /\ t \in Ids /\ Referred(t, device[i].tenant) \in Ids \cup {0}
    BY <1>5, Vocabulary DEF Named, Rows, Referred
  <2>3. v \in Works
    <3>1. [w EXCEPT !.ref = Referred(t, device[i].tenant)] \in Works
      BY <1>3, <2>2, SetField
    <3> HIDE DEF w
    <3>2. [[w EXCEPT !.ref = Referred(t, device[i].tenant)] EXCEPT !.owner = s] \in Works
      BY <3>1, <2>2, SetField
    <3>3. v = [[w EXCEPT !.ref = Referred(t, device[i].tenant)] EXCEPT !.owner = s]
      OBVIOUS
    <3> QED
      BY <3>2, <3>3
  <2>4. Good(v)
    BY <1>1, <1>5, <2>1, <2>2, <2>3, TableFacts, InventoryAssumption
       DEF Good, Shape, Kept, Keyed, Ready, Fits, Named, Rows, Referred
  <2> QED
    BY <1>5, <2>1, <2>4, BeginPlanned, InventoryAssumption
<1> QED
  BY <1>1, <1>4, <1>5

LEMMA IssueLooks ==
    ASSUME Base, NEW r \in Requests, Issue(r)
    PROVE  \E w : Planned(r, w)
<1>1. PICK n \in Fqdns, i \in Ids :
         /\ i \in Named(device, n)
         /\ LET k == tenant[device[i].tenant].ca
            IN  Begin(r, [Looked EXCEPT !.op = "new_cert", !.id = i, !.name = n,
                                        !.ref = k, !.owner = ca[k].name])
  BY DEF Issue, Named, Rows
<1> DEFINE k == tenant[device[i].tenant].ca
           w == [Looked EXCEPT !.op = "new_cert", !.id = i, !.name = n,
                               !.ref = k, !.owner = ca[k].name]
<1>2. i \in Rows(device) /\ device[i].name = n
  BY <1>1 DEF Named
<1>3. device[i].tenant \in Rows(tenant)
  BY <1>2, TableFacts DEF Base, Intact, Rows, DeviceRows
<1>4. k \in Rows(ca)
  BY <1>3, TableFacts DEF Base, Intact, Rows, TenantRows
<1>5. /\ n \in Names \cup {None} /\ i \in Ids \cup {0} /\ k \in Ids
      /\ ca[k].name \in Names \cup {None}
  BY <1>4, TableFacts, Vocabulary DEF CaRows
<1>6. w.op = "new_cert" /\ w.id = i /\ w.name = n /\ w.ref = k /\ w.owner = ca[k].name /\ w.org = Keep
  BY DEF Looked, Idle
<1>7. w \in Works
  <2> HIDE DEF k
  <2> QED
    BY <1>5, IdleGood, SetField, Vocabulary
<1>8. Good(w)
  <2> HIDE DEF k, w
  <2> QED
    BY <1>2, <1>4, <1>5, <1>6, <1>7, TableFacts, InventoryAssumption
       DEF Good, Shape, Kept, Keyed, Ready, Fits, Rows
<1> QED
  BY <1>1, <1>6, <1>8, BeginPlanned, InventoryAssumption

LEMMA PlanPlanned ==
    ASSUME Base, Plans, NEW r \in Requests, NEW w, Plan(r, w), Good(w), w.org \notin Orgs
    PROVE  Planned(r, w)
BY DEF Plan, Planned, Base, tables, wishes, ghosts

LEMMA TrunksPlanned ==
    ASSUME Base, Plans, NEW r \in Requests, Trunks(r)
    PROVE  \E w : Planned(r, w)
<1>1. PICK ns \in Candidates :
         Plan(r, [work[r] EXCEPT !.op = "new_device", !.names = ns, !.enabled = FALSE])
  BY DEF Trunks
<1> DEFINE w == [work[r] EXCEPT !.op = "new_device", !.names = ns, !.enabled = FALSE]
<1>2. ns \subseteq Fqdns /\ ns \in SUBSET Names /\ Free(device, ns)
  BY <1>1, Vocabulary DEF Candidates, Answers, Free
<1>3. work[r] \in Works /\ work[r].op = "list" /\ Good(work[r])
  BY DEF Plans, Trunks
<1>4. w \in Works
  BY <1>2, <1>3, SetField, Vocabulary
<1>5. /\ w.op = "new_device" /\ w.names = ns /\ w.enabled = FALSE /\ w.ref = work[r].ref
      /\ w.owner = work[r].owner /\ w.org = work[r].org /\ w.checked = work[r].checked
  BY <1>3 DEF Works
<1>6. w.org \notin Orgs
  BY <1>3, <1>5 DEF Good, Shape
<1>7. Good(w)
  <2> HIDE DEF w
  <2> QED
    BY <1>2, <1>3, <1>4, <1>5, <1>6 DEF Good, Shape, Kept, Ready, Fits
<1> QED
  BY <1>1, <1>6, <1>7, PlanPlanned

LEMMA CliTrunksPlanned ==
    ASSUME Base, Plans, NEW r \in Requests, CliTrunks(r)
    PROVE  \E w : Planned(r, w)
<1>1. PICK ns \in Candidates :
         Plan(r, [work[r] EXCEPT !.op = "cli_add", !.names = ns, !.enabled = FALSE])
  BY DEF CliTrunks
<1> DEFINE w == [work[r] EXCEPT !.op = "cli_add", !.names = ns, !.enabled = FALSE]
<1>2. ns \subseteq Fqdns /\ ns \in SUBSET Names /\ Free(device, ns)
  BY <1>1, Vocabulary DEF Candidates, Answers, Free
<1>3. work[r] \in Works /\ work[r].op = "cli_list" /\ Good(work[r])
  BY DEF Plans, CliTrunks
<1>4. w \in Works
  BY <1>2, <1>3, SetField, Vocabulary
<1>5. /\ w.op = "cli_add" /\ w.names = ns /\ w.enabled = FALSE
      /\ w.owner = work[r].owner /\ w.org = work[r].org
  BY <1>3 DEF Works
<1>6. w.org \notin Orgs
  BY <1>3, <1>5 DEF Good, Shape
<1>7. Good(w)
  <2> HIDE DEF w
  <2> QED
    BY <1>2, <1>3, <1>4, <1>5, <1>6 DEF Good, Shape, Kept, Ready, Fits
<1> QED
  BY <1>1, <1>6, <1>7, PlanPlanned

LEMMA CliAttachPlanned ==
    ASSUME Base, Plans, NEW r \in Requests, CliAttach(r)
    PROVE  \E w : Planned(r, w)
<1>1. PICK i \in Ids :
         /\ i \in Named(tenant, work[r].owner)
         /\ Plan(r, [work[r] EXCEPT !.op = "new_device", !.ref = i])
  BY DEF CliAttach, Named, Rows
<1> DEFINE w == [work[r] EXCEPT !.op = "new_device", !.ref = i]
<1>2. tenant[i] # NoRow /\ tenant[i].name = work[r].owner
  BY <1>1 DEF Named, Rows
<1>3. work[r] \in Works /\ work[r].op = "cli_add" /\ Good(work[r])
  BY DEF Plans, CliAttach
<1>4. w \in Works
  BY <1>1, <1>3, SetField, Vocabulary
<1>5. /\ w.op = "new_device" /\ w.ref = i /\ w.names = work[r].names
      /\ w.enabled = work[r].enabled /\ w.checked = work[r].checked
      /\ w.owner = work[r].owner /\ w.org = work[r].org
  BY <1>3 DEF Works
<1>6. w.org \notin Orgs
  BY <1>3, <1>5 DEF Good, Shape
<1>7. Good(w)
  <2> HIDE DEF w
  <2> QED
    BY <1>2, <1>3, <1>4, <1>5, <1>6 DEF Good, Shape, Kept, Keyed, Ready, Fits
<1> QED
  BY <1>1, <1>6, <1>7, PlanPlanned

LEMMA PinPlanned ==
    ASSUME Base, Plans, NEW r \in Requests, PinHostKey(r)
    PROVE  \E w : Planned(r, w)
<1>1. PICK i \in Ids :
         /\ i \in Named(device, work[r].name)
         /\ Plan(r, [work[r] EXCEPT !.op = "set_device", !.id = i, !.key = work[r].name])
  BY DEF PinHostKey, Named, Rows
<1> DEFINE w == [work[r] EXCEPT !.op = "set_device", !.id = i, !.key = work[r].name]
<1>2. device[i] # NoRow /\ device[i].name = work[r].name
  BY <1>1 DEF Named, Rows
<1>3. work[r] \in Works /\ work[r].op = "fetch" /\ Good(work[r]) /\ work[r].name \in Fqdns
  BY DEF Plans, PinHostKey, Good, Shape
<1>4. w \in Works
  BY <1>1, <1>3, SetField, Vocabulary
<1>5. /\ w.op = "set_device" /\ w.id = i /\ w.key = work[r].name /\ w.name = work[r].name
      /\ w.ref = work[r].ref /\ w.cred = work[r].cred /\ w.org = work[r].org
  BY <1>3 DEF Works
<1>6. w.org \notin Orgs
  BY <1>3, <1>5 DEF Good, Shape
<1>7. Good(w)
  <2> HIDE DEF w
  <2> QED
    BY <1>1, <1>2, <1>3, <1>4, <1>5, <1>6, TableFacts, InventoryAssumption
       DEF Good, Shape, Kept, Keyed, Ready, Fits
<1> QED
  BY <1>1, <1>6, <1>7, PlanPlanned

LEMMA AbandonPlanned ==
    ASSUME Base, Plans, NEW r \in Requests, Abandon(r)
    PROVE  Planned(r, Idle)
<1>1. Idle.org \notin Orgs
  BY InventoryAssumption DEF Idle
<1>2. Good(Idle)
  BY IdleGood, <1>1 DEF Idle, Good, Shape, Kept
<1> QED
  BY <1>1, <1>2, PlanPlanned DEF Abandon

\* A look, or a step that goes on: r plans w, and if it is to link an
\* organisation, no other tenant has it and every rival is known.
Looks(r, w) ==
    /\ Good(w)
    /\ w.org \in Orgs => /\ \A j \in Rows(tenant) : tenant[j].org = w.org => j = w.id
                         /\ \A q \in Requests \ {r} : work[q].org = w.org => w.org \in contended'
    /\ work' = [work EXCEPT ![r] = w]
    /\ served' \in 0..MaxServed
    /\ contended \subseteq contended' /\ contended' \subseteq Orgs
    /\ UNCHANGED <<tables, wishes, reissued>>

LEMMA LinkLooks ==
    ASSUME Base, Plans, NEW r \in Requests, LinkWebexOrg(r)
    PROVE  \E w : Looks(r, w)
<1>1. PICK s \in Slugs, o \in Orgs, i \in Ids :
         /\ i \in Named(tenant, s)
         /\ \A j \in Rows(tenant) : tenant[j].org = o => tenant[j].name = s
         /\ Link(r, s, i, o)
  BY DEF LinkWebexOrg, Named, Rows
<1> DEFINE w == [Looked EXCEPT !.op = "set_tenant", !.id = i, !.name = s,
                               !.org = Assigned(o, tenant[i].org)]
<1>2. /\ w.op = "set_tenant" /\ w.id = i /\ w.name = s /\ w.ref = 0 /\ w.cred = Keep
      /\ w.org = Assigned(o, tenant[i].org)
  BY DEF Looked, Idle
<1>3. /\ s \in Names \cup {None} /\ i \in Ids \cup {0}
      /\ Assigned(o, tenant[i].org) \in Orgs \cup {Keep}
  BY <1>1, Vocabulary DEF Assigned
<1>4. w \in Works
  BY <1>3, IdleGood, SetField, Vocabulary
<1>5. Good(w)
  <2> HIDE DEF w
  <2> QED
    BY <1>1, <1>2, <1>3, <1>4, TableFacts, InventoryAssumption
       DEF Good, Shape, Kept, Keyed, Ready, Fits, Named, Rows
<1>6. ASSUME w.org \in Orgs
      PROVE  /\ \A j \in Rows(tenant) : tenant[j].org = w.org => j = w.id
             /\ \A q \in Requests \ {r} : work[q].org = w.org => w.org \in contended'
  <2>1. w.org = o
    BY <1>2, <1>6, InventoryAssumption DEF Assigned
  <2>2. \A j \in Rows(tenant) : tenant[j].org = w.org => j = w.id
    BY <1>1, <1>2, <2>1 DEF Base, Intact, Unique, Named, Rows
  <2>3. \A q \in Requests \ {r} : work[q].org = w.org => w.org \in contended'
    BY <1>1, <2>1 DEF Link, Contend
  <2> QED
    BY <2>2, <2>3
<1>7. /\ work' = [work EXCEPT ![r] = w]
      /\ served' \in 0..MaxServed
      /\ UNCHANGED <<tables, wishes, reissued>>
  BY <1>1, InventoryAssumption DEF Link, Open, Base
<1>8. contended \subseteq contended' /\ contended' \subseteq Orgs
  BY <1>1 DEF Link, Contend, Base
<1> QED
  BY <1>5, <1>6, <1>7, <1>8 DEF Looks

LEMMA PlannedLooks ==
    ASSUME Base, NEW r, NEW w, Planned(r, w)
    PROVE  Looks(r, w)
BY DEF Planned, Looks, Base

\* Every step that only looks
LEMMA LookLooks ==
    ASSUME Base, Plans, NEW r \in Requests, Look(r) \/ Abandon(r)
    PROVE  \E w : Looks(r, w)
<1>1. CASE CreateCa(r) \/ UpdateCa(r) \/ DeleteCa(r)
  BY <1>1, CaLooks, PlannedLooks
<1>2. CASE CreateTenant(r) \/ TenantAdd(r) \/ UpdateTenant(r) \/ DeleteTenant(r)
           \/ SetTenantCredentials(r)
  BY <1>2, TenantLooks, PlannedLooks
<1>3. CASE CreateDevice(r) \/ DeviceAdd(r) \/ DeleteDevice(r) \/ SetDeviceCredentials(r)
           \/ PreviewHostKey(r) \/ Import(r) \/ CliImport(r)
  BY <1>3, DeviceLooks, PlannedLooks
<1>4. CASE UpdateDevice(r)
  BY <1>4, UpdateLooks, PlannedLooks
<1>5. CASE Issue(r)
  BY <1>5, IssueLooks, PlannedLooks
<1>6. CASE Trunks(r)
  BY <1>6, TrunksPlanned, PlannedLooks
<1>7. CASE CliTrunks(r)
  BY <1>7, CliTrunksPlanned, PlannedLooks
<1>8. CASE CliAttach(r)
  BY <1>8, CliAttachPlanned, PlannedLooks
<1>9. CASE PinHostKey(r)
  BY <1>9, PinPlanned, PlannedLooks
<1>10. CASE Abandon(r)
  BY <1>10, AbandonPlanned, PlannedLooks
<1>11. CASE LinkWebexOrg(r)
  BY <1>11, LinkLooks
<1> QED
  BY <1>1, <1>2, <1>3, <1>4, <1>5, <1>6, <1>7, <1>8, <1>9, <1>10, <1>11
     DEF Look, CommonTenants, CommonDevices, ConsoleTenants, ConsoleDevices, CliOnly

-----------------------------------------------------------------------------
(* The invariant                                                           *)

IInv == Base /\ Plans /\ AsAsked /\ CertificatesFit /\ OneTenantPerOrg

LEMMA GoodStays ==
    ASSUME NEW q \in Requests, NEW w, Good(w), work'[q] = w,
           UNCHANGED <<ca, tenant, device, cert, reissued>>
    PROVE  Good(work[q])'
<1>1. Shape(work[q])' /\ work'[q] \in Works
  BY DEF Good, Shape
<1>2. reissued' \/ Kept(work[q])'
  BY DEF Good, Kept, Keyed
<1>3. (work[q].checked => Ready(work[q]))'
  <2>1. Fits(w) => Fits(work[q])'
    BY DEF Fits, Free, Named, Rows
  <2> QED
    BY <2>1 DEF Good, Ready, Free, Named, Rows
<1> QED
  BY <1>1, <1>2, <1>3 DEF Good

LEMMA LooksKeep ==
    ASSUME IInv, NEW r \in Requests, NEW w, Looks(r, w)
    PROVE  IInv'
<1>1. UNCHANGED <<ca, tenant, device, cert, reissued, askedCa, asked>>
  BY DEF Looks, tables, wishes
<1>2. Base'
  BY <1>1 DEF IInv, Base, Looks, Intact, Unique, Rows
<1>3. w \in Works /\ work \in [Requests -> Works] /\ work'[r] = w
      /\ \A q \in Requests \ {r} : work'[q] = work[q]
  BY DEF IInv, Plans, Looks, Good
<1>4. work' \in [Requests -> Works]
  BY <1>3 DEF Looks
<1>5. \A q \in Requests : Good(work[q])'
  <2> SUFFICES ASSUME NEW q \in Requests PROVE Good(work[q])'
    OBVIOUS
  <2>1. CASE q = r
    BY <1>1, <1>3, <2>1, GoodStays DEF Looks
  <2>2. CASE q # r
    BY <1>1, <1>3, <2>2, GoodStays DEF IInv, Plans
  <2> QED
    BY <2>1, <2>2
<1>6. \A q \in Requests : Sole(work[q])'
  BY <1>1, <1>3 DEF Looks, IInv, Plans, Sole, Rows
<1>7. \A q \in Requests : Rivals(q)'
  <2> SUFFICES ASSUME NEW q \in Requests, NEW p \in Requests \ {q},
                      work'[p].org = work'[q].org
               PROVE  work'[q].org \in contended' \cup {Keep}
    BY DEF Rivals
  <2>1. w.org \in Orgs \cup {Keep}
    BY <1>3 DEF Works
  <2>2. CASE q = r
    BY <1>3, <2>1, <2>2 DEF Looks
  <2>3. CASE p = r
    BY <1>3, <2>1, <2>3 DEF Looks
  <2>4. CASE q # r /\ p # r
    BY <1>3, <2>4 DEF Looks, IInv, Plans, Rivals
  <2> QED
    BY <2>2, <2>3, <2>4
<1>8. AsAsked' /\ CertificatesFit'
  BY <1>1 DEF IInv, AsAsked, CertificatesFit, Rows
<1>9. OneTenantPerOrg'
  BY <1>1 DEF IInv, OneTenantPerOrg, Rows, Looks
<1> QED
  BY <1>2, <1>4, <1>5, <1>6, <1>7, <1>8, <1>9 DEF IInv, Plans

-----------------------------------------------------------------------------
(* What writing does                                                       *)

\* No row that an open request has loaded changes its key.
Renaming ==
    /\ reissued => reissued'
    /\ reissued' \/ \A i \in Ids, q \in Requests :
          /\ \/ ca'[i] = NoRow \/ ~HoldsCa(work[q], i)
             \/ ca[i] # NoRow /\ ca'[i].name = ca[i].name
          /\ \/ tenant'[i] = NoRow \/ ~HoldsTenant(work[q], i)
             \/ tenant[i] # NoRow /\ tenant'[i].name = tenant[i].name
          /\ \/ device'[i] = NoRow \/ ~HoldsDevice(work[q], i)
             \/ device[i] # NoRow /\ device'[i].name = device[i].name

\* Only r links a tenant.
Linking(r) ==
    \A j \in Ids :
        \/ tenant'[j] = NoRow
        \/ tenant'[j].org = None
        \/ tenant[j] # NoRow /\ tenant'[j].org = tenant[j].org
        \/ j = work[r].id /\ tenant'[j].org = work[r].org

LEMMA Unchecked ==
    ASSUME NEW w \in Works
    PROVE  LET u == [w EXCEPT !.checked = FALSE]
           IN  /\ ~u.checked
               /\ u.op = w.op /\ u.id = w.id /\ u.name = w.name /\ u.ref = w.ref
               /\ u.owner = w.owner /\ u.names = w.names /\ u.eab = w.eab /\ u.org = w.org
               /\ u.enabled = w.enabled /\ u.cred = w.cred /\ u.key = w.key
BY DEF Works

LEMMA SettleKeeps ==
    ASSUME IInv, NEW r \in Requests, Settle(r), Base', Renaming, Linking(r)
    PROVE  Plans' /\ OneTenantPerOrg'
<1>1. /\ work'[r] = Idle
      /\ \A q \in Requests \ {r} : work'[q] = [work[q] EXCEPT !.checked = FALSE]
      /\ contended' = contended
  BY DEF Settle
<1>2. \A q \in Requests : work[q] \in Works /\ Good(work[q]) /\ Sole(work[q]) /\ Rivals(q)
  BY DEF IInv, Plans
<1>3. work' \in [Requests -> Works]
  BY <1>1, <1>2, IdleGood, SetField DEF Settle
<1>4. \A q \in Requests \ {r} :
         /\ ~work'[q].checked
         /\ work'[q].op = work[q].op /\ work'[q].id = work[q].id /\ work'[q].name = work[q].name
         /\ work'[q].ref = work[q].ref /\ work'[q].owner = work[q].owner
         /\ work'[q].names = work[q].names /\ work'[q].eab = work[q].eab
         /\ work'[q].org = work[q].org /\ work'[q].enabled = work[q].enabled
         /\ work'[q].cred = work[q].cred /\ work'[q].key = work[q].key
  <2> SUFFICES ASSUME NEW q \in Requests \ {r}
               PROVE  LET u == work'[q] w == work[q]
                      IN  /\ ~u.checked
                          /\ u.op = w.op /\ u.id = w.id /\ u.name = w.name /\ u.ref = w.ref
                          /\ u.owner = w.owner /\ u.names = w.names /\ u.eab = w.eab
                          /\ u.org = w.org /\ u.enabled = w.enabled /\ u.cred = w.cred
                          /\ u.key = w.key
    OBVIOUS
  <2>1. work[q] \in Works /\ work'[q] = [work[q] EXCEPT !.checked = FALSE]
    BY <1>1, <1>2
  <2> QED
    BY <2>1, Unchecked
<1>5. Idle.org = Keep /\ Keep \notin Orgs /\ Idle.op = "idle" /\ ~Idle.checked
  BY InventoryAssumption DEF Idle
<1>6. \A q \in Requests : Good(work[q])'
  <2>1. Good(work[r])'
    BY <1>1, <1>3, <1>5 DEF Good, Shape, Kept
  <2>2. ASSUME NEW q \in Requests \ {r} PROVE Good(work[q])'
    <3>1. Shape(work[q])'
      BY <1>2, <1>4 DEF Good, Shape
    <3>2. ASSUME ~reissued' PROVE Kept(work[q])'
      <4>1. Kept(work[q])
        BY <1>2, <3>2 DEF Renaming, Good
      <4> QED
        BY <4>1, <1>4, <3>2 DEF Renaming, Kept, Keyed, HoldsCa, HoldsTenant, HoldsDevice
    <3> QED
      BY <1>3, <1>4, <3>1, <3>2 DEF Good
  <2> QED
    BY <2>1, <2>2
<1>7. \A q \in Requests : Sole(work[q])'
  <2>1. Sole(work[r])'
    BY <1>1, <1>5 DEF Sole
  <2>2. ASSUME NEW q \in Requests \ {r}, work[q].org \in Orgs \ contended,
               NEW j \in Ids, tenant'[j] # NoRow, tenant'[j].org = work[q].org
        PROVE  j = work[q].id
    <3>1. work[q].org # None
      BY <2>2, InventoryAssumption
    <3>2. work[r].org # work[q].org
      BY <1>2, <1>5, <2>2 DEF Rivals
    <3>3. tenant[j] # NoRow /\ tenant[j].org = work[q].org
      BY <2>2, <3>1, <3>2 DEF Linking
    <3> QED
      BY <1>2, <2>2, <3>3 DEF Sole, Rows
  <2> QED
    BY <1>1, <1>4, <2>1, <2>2 DEF Sole, Rows
<1>8. \A q \in Requests : Rivals(q)'
  BY <1>1, <1>2, <1>4, <1>5 DEF Rivals
<1>9. OneTenantPerOrg'
  <2> SUFFICES ASSUME NEW i \in Ids, NEW j \in Ids, tenant'[i] # NoRow, tenant'[j] # NoRow,
                      tenant'[i].org = tenant'[j].org, tenant'[i].org \notin contended \cup {None}
               PROVE  i = j
    BY <1>1 DEF OneTenantPerOrg, Rows
  <2>1. tenant'[i].org \in Orgs
    BY DEF Base, Intact, TenantRows
  <2>2. CASE /\ tenant[i] # NoRow /\ tenant'[i].org = tenant[i].org
             /\ tenant[j] # NoRow /\ tenant'[j].org = tenant[j].org
    BY <2>2 DEF IInv, OneTenantPerOrg, Rows
  <2>3. CASE /\ tenant[i] # NoRow /\ tenant'[i].org = tenant[i].org
             /\ j = work[r].id /\ tenant'[j].org = work[r].org
    BY <1>2, <2>1, <2>3 DEF Sole, Rows
  <2>4. CASE /\ tenant[j] # NoRow /\ tenant'[j].org = tenant[j].org
             /\ i = work[r].id /\ tenant'[i].org = work[r].org
    BY <1>2, <2>1, <2>4 DEF Sole, Rows
  <2> QED
    BY <2>2, <2>3, <2>4 DEF Linking
<1> QED
  BY <1>3, <1>6, <1>7, <1>8, <1>9 DEF Plans

LEMMA CommitFacts ==
    ASSUME IInv, NEW r \in Requests, NEW op, Commit(r, op)
    PROVE  /\ work[r] \in Works /\ Shape(work[r]) /\ work[r].op = op
           /\ Fits(work[r]) /\ Settle(r)
           /\ reissued \/ Kept(work[r])
           /\ UNCHANGED <<served, contended>>
BY DEF IInv, Plans, Good, Commit, Settle

\* The parts of Base
Typed ==
    /\ ca \in [Ids -> CaRows \cup {NoRow}]
    /\ tenant \in [Ids -> TenantRows \cup {NoRow}]
    /\ device \in [Ids -> DeviceRows \cup {NoRow}]
    /\ cert \in [Ids -> CertRows \cup {NoRow}]

Refs ==
    /\ \A i \in Ids : tenant[i] # NoRow => tenant[i].ca \in Ids /\ ca[tenant[i].ca] # NoRow
    /\ \A i \in Ids : device[i] # NoRow =>
          device[i].tenant \in Ids /\ tenant[device[i].tenant] # NoRow
    /\ \A i \in Ids : cert[i] # NoRow =>
          /\ cert[i].device \in Ids /\ device[cert[i].device] # NoRow
          /\ cert[i].ca \in Ids /\ ca[cert[i].ca] # NoRow

Ghosts ==
    /\ served \in 0..MaxServed
    /\ askedCa \in [Slugs -> Cas \cup {None}]
    /\ asked \in [Fqdns -> [tenant : Slugs \cup {None}, enabled : BOOLEAN]]
    /\ reissued \in BOOLEAN
    /\ contended \subseteq Orgs

LEMMA BaseParts == Base => Typed /\ Refs /\ Ghosts /\ Unique(ca) /\ Unique(tenant) /\ Unique(device)
<1> SUFFICES ASSUME Base PROVE Refs /\ Typed /\ Ghosts /\ Unique(ca) /\ Unique(tenant) /\ Unique(device)
  OBVIOUS
<1>1. Typed /\ Ghosts /\ Unique(ca) /\ Unique(tenant) /\ Unique(device)
  BY DEF Base, Intact, Typed, Ghosts
<1>2. Refs
  BY DEF Base, Intact, Refs, Rows, TenantRows, DeviceRows, CertRows
<1> QED
  BY <1>1, <1>2

LEMMA PartsBase ==
    (Typed /\ Refs /\ Ghosts /\ Unique(ca) /\ Unique(tenant) /\ Unique(device))' => Base'
BY DEF Base, Intact, Typed, Refs, Ghosts, Unique, Rows

\* Where the rows are, said of row ids
Placed ==
    /\ \A i \in Ids : device[i] # NoRow =>
          /\ asked[device[i].name] = [tenant |-> tenant[device[i].tenant].name,
                                      enabled |-> device[i].enabled]
          /\ device[i].cred \in {device[i].name, None, Lost}
          /\ device[i].key \in {device[i].name, None}
    /\ \A i \in Ids : tenant[i] # NoRow =>
          /\ askedCa[tenant[i].name] = ca[tenant[i].ca].name
          /\ tenant[i].cred \in {tenant[i].name, None, Lost}

LEMMA AsAskedPlaced ==
    ASSUME AsAsked, reissued => reissued', ~reissued' => (Placed => Placed')
    PROVE  AsAsked'
BY DEF AsAsked, Placed, Rows

LEMMA InsertCaKeeps ==
    ASSUME IInv, NEW r \in Requests, InsertCa(r)
    PROVE  IInv'
<1>1. PICK i \in Ids, n \in work[r].names :
         /\ Fresh(ca, {i})
         /\ ca' = [ca EXCEPT ![i] = [name |-> n, eab |-> work[r].eab]]
         /\ reissued' = (reissued \/ \E q \in Requests : HoldsCa(work[q], i))
  BY DEF InsertCa
<1>2. Commit(r, "new_ca") /\ UNCHANGED <<tenant, device, cert, askedCa, asked>>
  BY DEF InsertCa, wishes
<1>3. /\ Settle(r) /\ UNCHANGED <<served, contended>>
      /\ n \in Cas /\ work[r].eab \in Cas \cup {None} /\ Named(ca, n) = {}
  BY <1>1, <1>2, CommitFacts DEF Shape, Fits, Free
<1>4. /\ ca[i] = NoRow /\ ca'[i] \in CaRows /\ ca'[i].name = n /\ ca'[i] # NoRow
      /\ \A k \in Ids \ {i} : ca'[k] = ca[k]
      /\ ca' \in [Ids -> CaRows \cup {NoRow}]
  <2>1. ca \in [Ids -> CaRows \cup {NoRow}]
    BY DEF IInv, Base, Intact
  <2>2. [name |-> n, eab |-> work[r].eab] \in CaRows
    BY <1>3 DEF CaRows
  <2>3. ca[i] = NoRow
    BY <1>1, TableFacts DEF Fresh, Rows, IInv, Ids
  <2> QED
    BY <1>1, <2>1, <2>2, <2>3, StoredAssumption
<1>5. Base'
  <2>1. Unique(ca)'
    BY <1>3, <1>4 DEF IInv, Base, Intact, Unique, Rows, Named
  <2>2. Refs'
    BY <1>2, <1>4, BaseParts DEF Refs, IInv
  <2>3. Typed' /\ Ghosts' /\ Unique(tenant)' /\ Unique(device)'
    BY <1>1, <1>2, <1>3, <1>4, BaseParts DEF Typed, Ghosts, IInv, Unique, Rows
  <2> QED
    BY <2>1, <2>2, <2>3, PartsBase
<1>6. Renaming
  BY <1>1, <1>2, <1>4 DEF Renaming
<1>7. Linking(r)
  BY <1>2 DEF Linking
<1>8. AsAsked'
  <2>1. reissued => reissued'
    BY <1>1
  <2>2. Placed => Placed'
    BY <1>2, <1>4, BaseParts DEF Placed, Refs, IInv
  <2> QED
    BY <2>1, <2>2, AsAskedPlaced DEF IInv
<1>9. CertificatesFit'
  BY <1>1, <1>2 DEF IInv, CertificatesFit, Rows
<1> QED
  BY <1>3, <1>5, <1>6, <1>7, <1>8, <1>9, SettleKeeps DEF IInv

LEMMA UpdateCaKeeps ==
    ASSUME IInv, NEW r \in Requests, UpdateCaRow(r)
    PROVE  IInv'
<1> DEFINE i == work[r].id
<1>1. Commit(r, "set_ca") /\ UNCHANGED <<tenant, device, cert, askedCa, asked, reissued>>
  BY DEF UpdateCaRow, wishes
<1>2. /\ Settle(r) /\ UNCHANGED <<served, contended>>
      /\ i \in Ids /\ work[r].eab \in Cas \cup {None, Keep} /\ ca[i] # NoRow
  BY <1>1, CommitFacts DEF Shape, Fits
<1>3. /\ ca'[i] \in CaRows /\ ca'[i].name = ca[i].name /\ ca'[i] # NoRow
      /\ \A k \in Ids \ {i} : ca'[k] = ca[k]
      /\ ca' \in [Ids -> CaRows \cup {NoRow}]
  <2>1. ca \in [Ids -> CaRows \cup {NoRow}] /\ ca[i] \in CaRows
    BY <1>2 DEF IInv, Base, Intact
  <2>2. ca' = [ca EXCEPT ![i] = [ca[i] EXCEPT !.eab = Written(work[r].eab, ca[i].eab)]]
    BY DEF UpdateCaRow
  <2>3. Written(work[r].eab, ca[i].eab) \in Cas \cup {None, Lost}
    BY <1>2, <2>1 DEF Written, CaRows
  <2> DEFINE row == [ca[i] EXCEPT !.eab = Written(work[r].eab, ca[i].eab)]
  <2>4. row \in CaRows /\ row.name = ca[i].name /\ row # NoRow
    <3>1. row \in CaRows /\ row.name = ca[i].name
      BY <2>1, <2>3 DEF CaRows
    <3> QED
      BY <3>1, StoredAssumption
  <2>5. ca' = [ca EXCEPT ![i] = row]
    BY <2>2
  <2> HIDE DEF row, i
  <2> QED
    BY <1>2, <2>1, <2>4, <2>5
<1>4. Base'
  <2>1. Unique(ca)'
    BY <1>2, <1>3 DEF IInv, Base, Intact, Unique, Rows
  <2>2. Refs'
    BY <1>1, <1>2, <1>3, BaseParts DEF Refs, IInv
  <2>3. Typed' /\ Ghosts' /\ Unique(tenant)' /\ Unique(device)'
    BY <1>1, <1>2, <1>3, BaseParts DEF Typed, Ghosts, IInv, Unique, Rows
  <2> QED
    BY <2>1, <2>2, <2>3, PartsBase
<1>5. Renaming
  BY <1>1, <1>2, <1>3 DEF Renaming
<1>6. Linking(r)
  BY <1>1 DEF Linking
<1>7. AsAsked'
  <2>1. Placed => Placed'
    BY <1>1, <1>3, BaseParts DEF Placed, Refs, IInv
  <2> QED
    BY <1>1, <2>1, AsAskedPlaced DEF IInv
<1>8. CertificatesFit'
  BY <1>1 DEF IInv, CertificatesFit, Rows
<1> QED
  BY <1>2, <1>4, <1>5, <1>6, <1>7, <1>8, SettleKeeps DEF IInv

LEMMA RemoveCaKeeps ==
    ASSUME IInv, NEW r \in Requests, RemoveCa(r)
    PROVE  IInv'
<1> DEFINE i == work[r].id
<1>1. Commit(r, "drop_ca") /\ UNCHANGED <<tenant, device, cert, askedCa, asked, reissued>>
  BY DEF RemoveCa, wishes
<1>2. /\ Settle(r) /\ UNCHANGED <<served, contended>> /\ i \in Ids
      /\ \A t \in Rows(tenant) : tenant[t].ca # i
      /\ \A x \in Rows(cert) : cert[x].ca # i
  BY <1>1, CommitFacts DEF Shape, Fits
<1>3. /\ ca'[i] = NoRow
      /\ \A k \in Ids \ {i} : ca'[k] = ca[k]
      /\ ca' \in [Ids -> CaRows \cup {NoRow}]
  BY <1>2 DEF RemoveCa, IInv, Base, Intact
<1>4. Base'
  BY <1>1, <1>2, <1>3, TableFacts DEF IInv, Base, Intact, Unique, Rows, TenantRows, CertRows
<1>5. Renaming
  BY <1>1, <1>2, <1>3 DEF Renaming
<1>6. Linking(r)
  BY <1>1 DEF Linking
<1>7. AsAsked'
  BY <1>1, <1>2, <1>3, TableFacts DEF AsAsked, Rows, IInv, Base, Intact, TenantRows
<1>8. CertificatesFit'
  BY <1>1 DEF IInv, CertificatesFit, Rows
<1> QED
  BY <1>2, <1>4, <1>5, <1>6, <1>7, <1>8, SettleKeeps DEF IInv

LEMMA InsertTenantKeeps ==
    ASSUME IInv, NEW r \in Requests, InsertTenant(r)
    PROVE  IInv'
<1> DEFINE w == work[r]
<1>1. PICK i \in Ids, s \in w.names :
         /\ Fresh(tenant, {i})
         /\ tenant' = [tenant EXCEPT ![i] =
                          [name |-> s, ca |-> w.ref, org |-> None, cred |-> None]]
         /\ askedCa' = [askedCa EXCEPT ![s] = w.owner]
         /\ reissued' = (reissued \/ \E q \in Requests : HoldsTenant(work[q], i))
  BY DEF InsertTenant
<1>2. Commit(r, "new_tenant") /\ UNCHANGED <<ca, device, cert, asked>>
  BY DEF InsertTenant
<1>3. /\ Settle(r) /\ UNCHANGED <<served, contended>>
      /\ s \in Slugs /\ w.ref \in Ids /\ w.owner \in Cas
      /\ Named(tenant, s) = {} /\ ca[w.ref] # NoRow
      /\ reissued \/ ca[w.ref].name = w.owner
  BY <1>1, <1>2, CommitFacts DEF Shape, Fits, Free, Kept, Keyed
<1>4. /\ tenant[i] = NoRow /\ tenant'[i].name = s /\ tenant'[i].ca = w.ref
      /\ tenant'[i].org = None /\ tenant'[i].cred = None /\ tenant'[i] # NoRow
      /\ \A k \in Ids \ {i} : tenant'[k] = tenant[k]
      /\ tenant' \in [Ids -> TenantRows \cup {NoRow}]
  <2>1. Typed
    BY BaseParts DEF IInv
  <2>2. [name |-> s, ca |-> w.ref, org |-> None, cred |-> None] \in TenantRows
    BY <1>3 DEF TenantRows
  <2>3. tenant[i] = NoRow
    BY <1>1, TableFacts DEF Fresh, Rows, IInv, Ids
  <2> QED
    BY <1>1, <2>1, <2>2, <2>3, StoredAssumption DEF Typed
<1>5. \A k \in Ids : tenant[k] # NoRow => tenant[k].name # s
  BY <1>3 DEF Named, Rows
<1>6. Base'
  <2>1. Unique(tenant)'
    BY <1>4, <1>5, BaseParts DEF IInv, Unique, Rows
  <2>2. Refs'
    BY <1>2, <1>3, <1>4, BaseParts DEF Refs, IInv
  <2>3. Typed' /\ Unique(ca)' /\ Unique(device)'
    BY <1>2, <1>4, BaseParts DEF Typed, IInv, Unique, Rows
  <2>4. Ghosts'
    BY <1>1, <1>2, <1>3, BaseParts DEF Ghosts, IInv
  <2> QED
    BY <2>1, <2>2, <2>3, <2>4, PartsBase
<1>7. Renaming
  BY <1>1, <1>2, <1>4 DEF Renaming
<1>8. Linking(r)
  BY <1>4 DEF Linking
<1>9. AsAsked'
  <2>1. reissued => reissued'
    BY <1>1
  <2>2. ASSUME ~reissued', Placed PROVE Placed'
    <3>1. \A k \in Ids : tenant'[k] # NoRow =>
             /\ askedCa'[tenant'[k].name] = ca'[tenant'[k].ca].name
             /\ tenant'[k].cred \in {tenant'[k].name, None, Lost}
      <4> SUFFICES ASSUME NEW k \in Ids, tenant'[k] # NoRow
                   PROVE  /\ askedCa'[tenant'[k].name] = ca'[tenant'[k].ca].name
                          /\ tenant'[k].cred \in {tenant'[k].name, None, Lost}
        OBVIOUS
      <4>1. CASE k = i
        BY <1>1, <1>2, <1>3, <1>4, <2>1, <2>2, <4>1, BaseParts DEF Ghosts, IInv
      <4>2. CASE k # i
        BY <1>1, <1>2, <1>4, <1>5, <2>2, <4>2, BaseParts DEF Placed, Ghosts, IInv, Typed, TenantRows
      <4> QED
        BY <4>1, <4>2
    <3>2. \A k \in Ids : device[k] # NoRow => tenant'[device[k].tenant] = tenant[device[k].tenant]
      BY <1>4, BaseParts DEF Refs, IInv
    <3> QED
      BY <1>2, <2>2, <3>1, <3>2 DEF Placed
  <2> QED
    BY <2>1, <2>2, AsAskedPlaced DEF IInv
<1>10. CertificatesFit'
  BY <1>1, <1>2 DEF IInv, CertificatesFit, Rows
<1> QED
  BY <1>3, <1>6, <1>7, <1>8, <1>9, <1>10, SettleKeeps DEF IInv

LEMMA UpdateTenantKeeps ==
    ASSUME IInv, NEW r \in Requests, UpdateTenantRow(r)
    PROVE  IInv'
<1> DEFINE w == work[r]
           i == w.id
           row == TenantWith(tenant[i], w)
<1>1. /\ Commit(r, "set_tenant") /\ UNCHANGED <<ca, device, cert, asked, reissued>>
      /\ askedCa' = [askedCa EXCEPT ![w.name] = IF w.ref = 0 THEN @ ELSE w.owner]
  BY DEF UpdateTenantRow
<1>2. tenant' = [tenant EXCEPT ![i] = row]
  BY DEF UpdateTenantRow
<1>3. /\ Settle(r) /\ UNCHANGED <<served, contended>>
      /\ i \in Ids /\ w.name \in Slugs /\ w.cred \in {w.name, Keep}
      /\ w.ref \in Ids \cup {0} /\ w.org \in Orgs \cup {Keep}
      /\ w.ref # 0 => w.owner \in Cas /\ ca[w.ref] # NoRow
      /\ tenant[i] # NoRow
      /\ reissued \/ (tenant[i].name = w.name /\ (w.ref # 0 => ca[w.ref].name = w.owner))
  BY <1>1, CommitFacts DEF Shape, Fits, Kept, Keyed, Works
<1>4. tenant[i] \in TenantRows
  BY <1>3, BaseParts DEF IInv, Typed
<1>5. /\ row.name = tenant[i].name /\ row.ca = Referring(w.ref, tenant[i].ca)
      /\ row.org = Written(w.org, tenant[i].org) /\ row.cred = Written(w.cred, tenant[i].cred)
  BY <1>4 DEF TenantRows, TenantWith
<1>6. row \in TenantRows /\ row # NoRow
  <2>1. /\ Referring(w.ref, tenant[i].ca) \in Ids
        /\ Written(w.org, tenant[i].org) \in Orgs \cup {None}
        /\ Written(w.cred, tenant[i].cred) \in Slugs \cup {None, Lost}
    BY <1>3, <1>4 DEF Referring, Written, TenantRows
  <2>2. row \in TenantRows
    BY <1>4, <2>1 DEF TenantRows, TenantWith
  <2> QED
    BY <2>2, StoredAssumption
<1> HIDE DEF row
<1>7. /\ tenant'[i] = row
      /\ \A k \in Ids \ {i} : tenant'[k] = tenant[k]
      /\ tenant' \in [Ids -> TenantRows \cup {NoRow}]
  BY <1>2, <1>3, <1>6, BaseParts DEF IInv, Typed
<1>8. Base'
  <2>1. Unique(tenant)'
    BY <1>3, <1>5, <1>7, BaseParts DEF IInv, Unique, Rows
  <2>2. Refs'
    BY <1>1, <1>3, <1>5, <1>6, <1>7, BaseParts DEF Refs, IInv, Referring
  <2>3. Typed' /\ Unique(ca)' /\ Unique(device)'
    BY <1>1, <1>7, BaseParts DEF Typed, IInv, Unique, Rows
  <2>4. Ghosts'
    BY <1>1, <1>3, BaseParts DEF Ghosts, IInv
  <2> QED
    BY <2>1, <2>2, <2>3, <2>4, PartsBase
<1>9. Renaming
  BY <1>1, <1>3, <1>5, <1>7 DEF Renaming
<1>10. Linking(r)
  BY <1>3, <1>5, <1>7 DEF Linking, Written
<1>11. AsAsked'
  <2>1. ASSUME ~reissued', Placed PROVE Placed'
    <3>1. tenant[i].name = w.name /\ (w.ref # 0 => ca[w.ref].name = w.owner)
      BY <1>1, <1>3, <2>1
    <3>2. \A k \in Ids \ {i} : tenant[k] # NoRow => tenant[k].name # w.name
      BY <1>3, <3>1, BaseParts DEF Unique, Rows, IInv
    <3>3. \A k \in Ids \ {i} : tenant'[k] # NoRow =>
             /\ askedCa'[tenant'[k].name] = ca'[tenant'[k].ca].name
             /\ tenant'[k].cred \in {tenant'[k].name, None, Lost}
      BY <1>1, <1>7, <2>1, <3>2, BaseParts DEF Placed, IInv, Ghosts
    <3>4. /\ askedCa'[tenant'[i].name] = ca'[tenant'[i].ca].name
          /\ tenant'[i].cred \in {tenant'[i].name, None, Lost}
      <4>1. askedCa'[w.name] = IF w.ref = 0 THEN askedCa[w.name] ELSE w.owner
        BY <1>1, <1>3, BaseParts DEF IInv, Ghosts
      <4> QED
        BY <1>1, <1>3, <1>5, <1>7, <2>1, <3>1, <4>1 DEF Placed, Referring, Written
    <3>5. \A k \in Ids : device[k] # NoRow =>
             tenant'[device[k].tenant].name = tenant[device[k].tenant].name
      BY <1>5, <1>7, BaseParts DEF Refs, IInv
    <3> QED
      BY <1>1, <2>1, <3>3, <3>4, <3>5 DEF Placed
  <2> QED
    BY <1>1, <2>1, AsAskedPlaced DEF IInv
<1>12. CertificatesFit'
  BY <1>1 DEF IInv, CertificatesFit, Rows
<1> QED
  BY <1>3, <1>8, <1>9, <1>10, <1>11, <1>12, SettleKeeps DEF IInv

LEMMA RemoveTenantKeeps ==
    ASSUME IInv, NEW r \in Requests, RemoveTenant(r)
    PROVE  IInv'
<1> DEFINE i == work[r].id
<1>1. Commit(r, "drop_tenant") /\ UNCHANGED <<ca, device, cert, askedCa, asked, reissued>>
  BY DEF RemoveTenant, wishes
<1>2. /\ Settle(r) /\ UNCHANGED <<served, contended>> /\ i \in Ids
      /\ \A d \in Rows(device) : device[d].tenant # i
  BY <1>1, CommitFacts DEF Shape, Fits
<1>3. /\ tenant'[i] = NoRow
      /\ \A k \in Ids \ {i} : tenant'[k] = tenant[k]
      /\ tenant' \in [Ids -> TenantRows \cup {NoRow}]
  BY <1>2 DEF RemoveTenant, IInv, Base, Intact
<1>4. Base'
  <2>1. Unique(tenant)'
    BY <1>3, BaseParts DEF IInv, Unique, Rows
  <2>2. Refs'
    BY <1>1, <1>2, <1>3, BaseParts DEF Refs, IInv, Rows
  <2>3. Typed' /\ Ghosts' /\ Unique(ca)' /\ Unique(device)'
    BY <1>1, <1>2, <1>3, BaseParts DEF Typed, Ghosts, IInv, Unique, Rows
  <2> QED
    BY <2>1, <2>2, <2>3, PartsBase
<1>5. Renaming
  BY <1>1, <1>2, <1>3 DEF Renaming
<1>6. Linking(r)
  BY <1>3 DEF Linking
<1>7. AsAsked'
  <2>1. Placed => Placed'
    BY <1>1, <1>2, <1>3, BaseParts DEF Placed, Refs, IInv, Rows
  <2> QED
    BY <1>1, <2>1, AsAskedPlaced DEF IInv
<1>8. CertificatesFit'
  BY <1>1 DEF IInv, CertificatesFit, Rows
<1> QED
  BY <1>2, <1>4, <1>5, <1>6, <1>7, <1>8, SettleKeeps DEF IInv

LEMMA NewDeviceRow ==
    ASSUME NEW n \in Fqdns, NEW t \in Ids, NEW on \in BOOLEAN
    PROVE  LET d == [name |-> n, tenant |-> t, enabled |-> on, cred |-> None, key |-> None]
           IN  d \in DeviceRows /\ d # NoRow
<1>1. [name |-> n, tenant |-> t, enabled |-> on, cred |-> None, key |-> None] \in DeviceRows
  BY DEF DeviceRows
<1> QED
  BY <1>1, StoredAssumption

LEMMA InsertDevicesKeeps ==
    ASSUME IInv, NEW r \in Requests, InsertDevices(r)
    PROVE  IInv'
<1> DEFINE w == work[r]
           Row(n) == [name |-> n, tenant |-> w.ref, enabled |-> w.enabled,
                      cred |-> None, key |-> None]
<1>0. PICK new \in SUBSET Ids :
         \E nameOf \in Bijection(new, work[r].names) :
            /\ Fresh(device, new)
            /\ device' = [i \in Ids |-> IF i \in new THEN Row(nameOf[i]) ELSE device[i]]
            /\ reissued' = (reissued \/ \E q \in Requests, i \in new : HoldsDevice(work[q], i))
  BY DEF InsertDevices
<1>1. PICK nameOf \in Bijection(new, work[r].names) :
         /\ Fresh(device, new)
         /\ device' = [i \in Ids |-> IF i \in new THEN Row(nameOf[i]) ELSE device[i]]
         /\ reissued' = (reissued \/ \E q \in Requests, i \in new : HoldsDevice(work[q], i))
  BY <1>0
<1>2. /\ Commit(r, "new_device") /\ UNCHANGED <<ca, tenant, cert, askedCa>>
      /\ asked' = [n \in Fqdns |->
            IF n \in w.names THEN [tenant |-> w.owner, enabled |-> w.enabled] ELSE asked[n]]
  BY DEF InsertDevices
<1>3. /\ Settle(r) /\ UNCHANGED <<served, contended>>
      /\ w.names \subseteq Fqdns /\ w.ref \in Ids /\ w.owner \in Slugs /\ w.enabled \in BOOLEAN
      /\ Free(device, w.names) /\ tenant[w.ref] # NoRow
      /\ reissued \/ tenant[w.ref].name = w.owner
  BY <1>1, <1>2, CommitFacts DEF Shape, Fits, Kept, Keyed
<1>4. /\ \A i \in new : nameOf[i] \in w.names
      /\ \A i, j \in new : nameOf[i] = nameOf[j] => i = j
  BY <1>1 DEF Bijection, Injection, Surjection, IsInjective
<1>5. \A i \in new : i \in Ids /\ device[i] = NoRow
  BY <1>1, TableFacts DEF Fresh, Rows, IInv, Ids
<1>6. \A k \in Ids : device[k] # NoRow => device[k].name \notin w.names
  BY <1>3 DEF Free, Named, Rows
<1>7. /\ \A i \in new : /\ device'[i] = Row(nameOf[i]) /\ device'[i] \in DeviceRows
                        /\ device'[i] # NoRow
      /\ \A k \in Ids \ new : device'[k] = device[k]
  <2>1. \A i \in new : Row(nameOf[i]) \in DeviceRows /\ Row(nameOf[i]) # NoRow
    BY <1>3, <1>4, NewDeviceRow
  <2> HIDE DEF Row
  <2> QED
    BY <1>1, <1>5, <2>1
<1>8. device' \in [Ids -> DeviceRows \cup {NoRow}]
  <2>1. \A k \in Ids : device'[k] \in DeviceRows \cup {NoRow}
    BY <1>7, BaseParts DEF IInv, Typed
  <2> QED
    BY <1>1, <2>1
<1>9. \A i \in new : /\ device'[i].name = nameOf[i] /\ device'[i].tenant = w.ref
                     /\ device'[i].enabled = w.enabled /\ device'[i].cred = None
                     /\ device'[i].key = None
  <2>1. ASSUME NEW i \in new
        PROVE  /\ Row(nameOf[i]).name = nameOf[i] /\ Row(nameOf[i]).tenant = w.ref
               /\ Row(nameOf[i]).enabled = w.enabled /\ Row(nameOf[i]).cred = None
               /\ Row(nameOf[i]).key = None
    OBVIOUS
  <2> HIDE DEF Row
  <2> QED
    BY <1>7, <2>1
<1> HIDE DEF Row
<1>10. Base'
  <2>1. Unique(device)'
    <3> SUFFICES ASSUME NEW i \in Ids, NEW j \in Ids, device'[i] # NoRow, device'[j] # NoRow,
                        device'[i].name = device'[j].name
                 PROVE  i = j
      BY DEF Unique, Rows
    <3>1. CASE i \in new /\ j \in new
      BY <1>4, <1>9, <3>1
    <3>2. CASE i \in new /\ j \notin new
      BY <1>4, <1>6, <1>7, <1>9, <3>2
    <3>3. CASE i \notin new /\ j \in new
      BY <1>4, <1>6, <1>7, <1>9, <3>3
    <3>4. CASE i \notin new /\ j \notin new
      BY <1>7, <3>4, BaseParts DEF IInv, Unique, Rows
    <3> QED
      BY <3>1, <3>2, <3>3, <3>4
  <2>2. Refs'
    BY <1>2, <1>3, <1>5, <1>7, <1>9, BaseParts DEF Refs, IInv
  <2>3. Typed' /\ Unique(ca)' /\ Unique(tenant)'
    BY <1>2, <1>8, BaseParts DEF Typed, IInv, Unique, Rows
  <2>4. Ghosts'
    BY <1>1, <1>2, <1>3, BaseParts DEF Ghosts, IInv
  <2> QED
    BY <2>1, <2>2, <2>3, <2>4, PartsBase
<1>11. Renaming
  BY <1>1, <1>2, <1>7 DEF Renaming
<1>12. Linking(r)
  BY <1>2 DEF Linking
<1>13. reissued => reissued'
  BY <1>1
<1>14. AsAsked'
  <2>1. ASSUME ~reissued', Placed PROVE Placed'
    <3>1. \A i \in new : asked'[nameOf[i]] = [tenant |-> tenant[w.ref].name, enabled |-> w.enabled]
      BY <1>2, <1>3, <1>4, <1>13, <2>1
    <3>2. \A k \in Ids \ new : device[k] # NoRow => asked'[device[k].name] = asked[device[k].name]
      BY <1>2, <1>6, BaseParts DEF IInv, Typed, DeviceRows
    <3>3. ASSUME NEW k \in Ids, device'[k] # NoRow
          PROVE  /\ asked'[device'[k].name] = [tenant |-> tenant'[device'[k].tenant].name,
                                               enabled |-> device'[k].enabled]
                 /\ device'[k].cred \in {device'[k].name, None, Lost}
                 /\ device'[k].key \in {device'[k].name, None}
      <4>1. CASE k \in new
        BY <1>2, <1>9, <3>1, <4>1
      <4>2. CASE k \notin new
        BY <1>2, <1>7, <2>1, <3>2, <3>3, <4>2 DEF Placed
      <4> QED
        BY <4>1, <4>2
    <3> QED
      BY <1>2, <2>1, <3>3 DEF Placed
  <2> QED
    BY <1>13, <2>1, AsAskedPlaced DEF IInv
<1>15. CertificatesFit'
  BY <1>2, <1>5, <1>7, <1>13, BaseParts DEF IInv, CertificatesFit, Rows, Refs
<1> QED
  BY <1>3, <1>10, <1>11, <1>12, <1>14, <1>15, SettleKeeps DEF IInv

LEMMA UpdateDeviceKeeps ==
    ASSUME IInv, NEW r \in Requests, UpdateDeviceRow(r)
    PROVE  IInv'
<1> DEFINE w == work[r]
           i == w.id
           row == DeviceWith(device[i], w)
<1>1. /\ Commit(r, "set_device") /\ UNCHANGED <<ca, tenant, cert, askedCa, reissued>>
      /\ asked' = [asked EXCEPT ![w.name] = Changed(@, w, w.owner)]
  BY DEF UpdateDeviceRow
<1>2. device' = [device EXCEPT ![i] = row]
  BY DEF UpdateDeviceRow
<1>3. /\ Settle(r) /\ UNCHANGED <<served, contended>>
      /\ i \in Ids /\ w.name \in Fqdns /\ w.cred \in {w.name, Keep} /\ w.key \in {w.name, Keep}
      /\ w.ref \in Ids \cup {0} /\ w.enabled \in BOOLEAN \cup {Keep}
      /\ w.ref # 0 => w.owner \in Slugs /\ tenant[w.ref] # NoRow
      /\ device[i] # NoRow
      /\ reissued \/ (device[i].name = w.name /\ (w.ref # 0 => tenant[w.ref].name = w.owner))
  BY <1>1, CommitFacts DEF Shape, Fits, Kept, Keyed, Works
<1>4. device[i] \in DeviceRows
  BY <1>3, BaseParts DEF IInv, Typed
<1>5. /\ row.name = device[i].name /\ row.tenant = Referring(w.ref, device[i].tenant)
      /\ row.enabled = Written(w.enabled, device[i].enabled)
      /\ row.cred = Written(w.cred, device[i].cred) /\ row.key = Written(w.key, device[i].key)
  BY <1>4 DEF DeviceRows, DeviceWith, Changed, Referring
<1>6. row \in DeviceRows /\ row # NoRow
  <2>1. /\ Referring(w.ref, device[i].tenant) \in Ids
        /\ Written(w.enabled, device[i].enabled) \in BOOLEAN
        /\ Written(w.cred, device[i].cred) \in Fqdns \cup {None, Lost}
        /\ Written(w.key, device[i].key) \in Fqdns \cup {None}
    BY <1>3, <1>4 DEF Referring, Written, DeviceRows
  <2>2. row \in DeviceRows
    BY <1>4, <2>1 DEF DeviceRows, DeviceWith, Changed, Referring
  <2> QED
    BY <2>2, StoredAssumption
<1> HIDE DEF row
<1>7. /\ device'[i] = row
      /\ \A k \in Ids \ {i} : device'[k] = device[k]
      /\ device' \in [Ids -> DeviceRows \cup {NoRow}]
  BY <1>2, <1>3, <1>6, BaseParts DEF IInv, Typed
<1>8. LET a == Changed(asked[w.name], w, w.owner)
      IN  /\ a \in [tenant : Slugs \cup {None}, enabled : BOOLEAN]
          /\ a.tenant = (IF w.ref = 0 THEN asked[w.name].tenant ELSE w.owner)
          /\ a.enabled = Written(w.enabled, asked[w.name].enabled)
  BY <1>3, BaseParts DEF IInv, Ghosts, Changed, Written
<1>9. /\ asked' \in [Fqdns -> [tenant : Slugs \cup {None}, enabled : BOOLEAN]]
      /\ asked'[w.name].tenant = (IF w.ref = 0 THEN asked[w.name].tenant ELSE w.owner)
      /\ asked'[w.name].enabled = Written(w.enabled, asked[w.name].enabled)
      /\ \A n \in Fqdns \ {w.name} : asked'[n] = asked[n]
  <2> DEFINE a == Changed(asked[w.name], w, w.owner)
  <2>1. asked' = [asked EXCEPT ![w.name] = a]
    BY <1>1
  <2>2. /\ a \in [tenant : Slugs \cup {None}, enabled : BOOLEAN]
        /\ a.tenant = (IF w.ref = 0 THEN asked[w.name].tenant ELSE w.owner)
        /\ a.enabled = Written(w.enabled, asked[w.name].enabled)
    BY <1>8
  <2> HIDE DEF a
  <2> QED
    BY <1>3, <2>1, <2>2, BaseParts DEF IInv, Ghosts
<1>10. Base'
  <2>1. Unique(device)'
    BY <1>3, <1>5, <1>7, BaseParts DEF IInv, Unique, Rows
  <2>2. Refs'
    BY <1>1, <1>3, <1>5, <1>6, <1>7, BaseParts DEF Refs, IInv, Referring
  <2>3. Typed' /\ Unique(ca)' /\ Unique(tenant)'
    BY <1>1, <1>7, BaseParts DEF Typed, IInv, Unique, Rows
  <2>4. Ghosts'
    BY <1>1, <1>3, <1>9, BaseParts DEF Ghosts, IInv
  <2> QED
    BY <2>1, <2>2, <2>3, <2>4, PartsBase
<1>11. Renaming
  BY <1>1, <1>3, <1>5, <1>7 DEF Renaming
<1>12. Linking(r)
  BY <1>1 DEF Linking
<1>13. AsAsked'
  <2>1. ASSUME ~reissued', Placed PROVE Placed'
    <3>1. device[i].name = w.name /\ (w.ref # 0 => tenant[w.ref].name = w.owner)
      BY <1>1, <1>3, <2>1
    <3>2. \A k \in Ids \ {i} : device[k] # NoRow =>
             device[k].name \in Fqdns \ {w.name}
      BY <1>3, <3>1, BaseParts DEF Unique, Rows, IInv, Typed, DeviceRows
    <3>3. \A k \in Ids \ {i} : device'[k] # NoRow =>
             /\ asked'[device'[k].name] = [tenant |-> tenant'[device'[k].tenant].name,
                                           enabled |-> device'[k].enabled]
             /\ device'[k].cred \in {device'[k].name, None, Lost}
             /\ device'[k].key \in {device'[k].name, None}
      <4> SUFFICES ASSUME NEW k \in Ids \ {i}, device'[k] # NoRow
                   PROVE  /\ asked'[device'[k].name] = [tenant |-> tenant'[device'[k].tenant].name,
                                                        enabled |-> device'[k].enabled]
                          /\ device'[k].cred \in {device'[k].name, None, Lost}
                          /\ device'[k].key \in {device'[k].name, None}
        OBVIOUS
      <4>1. device'[k] = device[k] /\ asked'[device[k].name] = asked[device[k].name]
        BY <1>7, <1>9, <3>2
      <4> QED
        BY <1>1, <2>1, <4>1 DEF Placed
    <3>4. /\ asked'[device'[i].name].tenant = tenant'[device'[i].tenant].name
          /\ asked'[device'[i].name].enabled = device'[i].enabled
      <4>1. /\ asked[w.name].tenant = tenant[device[i].tenant].name
            /\ asked[w.name].enabled = device[i].enabled
        <5>1. asked[w.name] = [tenant |-> tenant[device[i].tenant].name,
                               enabled |-> device[i].enabled]
          BY <1>3, <2>1, <3>1 DEF Placed
        <5> QED
          BY <5>1
      <4> QED
        BY <1>1, <1>3, <1>5, <1>7, <1>9, <3>1, <4>1 DEF Referring, Written
    <3>5. asked'[device'[i].name] = [tenant |-> tenant'[device'[i].tenant].name,
                                     enabled |-> device'[i].enabled]
      <4>1. asked'[device'[i].name] \in [tenant : Slugs \cup {None}, enabled : BOOLEAN]
        BY <1>3, <1>5, <1>7, <1>9, <3>1
      <4> QED
        BY <3>4, <4>1
    <3>6. /\ device'[i].cred \in {device'[i].name, None, Lost}
          /\ device'[i].key \in {device'[i].name, None}
      BY <1>3, <1>5, <1>7, <2>1, <3>1 DEF Placed, Written
    <3> QED
      BY <1>1, <2>1, <3>3, <3>5, <3>6 DEF Placed
  <2> QED
    BY <1>1, <2>1, AsAskedPlaced DEF IInv
<1>14. CertificatesFit'
  <2>1. \A k \in Ids : device[k] # NoRow => /\ device'[k] # NoRow
                                             /\ device'[k].name = device[k].name
    BY <1>5, <1>6, <1>7
  <2> QED
    BY <1>1, <2>1, BaseParts DEF IInv, CertificatesFit, Rows, Refs
<1> QED
  BY <1>3, <1>10, <1>11, <1>12, <1>13, <1>14, SettleKeeps DEF IInv

LEMMA RemoveDeviceKeeps ==
    ASSUME IInv, NEW r \in Requests, RemoveDevice(r)
    PROVE  IInv'
<1> DEFINE w == work[r]
           i == w.id
<1>1. /\ Commit(r, "drop_device") /\ UNCHANGED <<ca, tenant, askedCa, asked, reissued>>
      /\ cert' = [k \in Ids |-> IF k \in w.drop THEN NoRow ELSE cert[k]]
  BY DEF RemoveDevice, wishes
<1>2. /\ Settle(r) /\ UNCHANGED <<served, contended>> /\ i \in Ids
      /\ \A x \in Ids \ w.drop : cert[x] # NoRow => cert[x].device # i
  BY <1>1, CommitFacts DEF Shape, Fits, Rows
<1>3. /\ device'[i] = NoRow
      /\ \A k \in Ids \ {i} : device'[k] = device[k]
      /\ device' \in [Ids -> DeviceRows \cup {NoRow}]
  BY <1>2 DEF RemoveDevice, IInv, Base, Intact
<1>4. /\ \A x \in Ids : cert'[x] # NoRow =>
            cert[x] # NoRow /\ cert'[x] = cert[x] /\ cert[x].device # i
      /\ cert' \in [Ids -> CertRows \cup {NoRow}]
  BY <1>1, <1>2, BaseParts DEF IInv, Typed
<1>5. Base'
  <2>1. Unique(device)'
    BY <1>3, BaseParts DEF IInv, Unique, Rows
  <2>2. Refs'
    BY <1>1, <1>3, <1>4, BaseParts DEF Refs, IInv
  <2>3. Typed' /\ Ghosts' /\ Unique(ca)' /\ Unique(tenant)'
    BY <1>1, <1>2, <1>3, <1>4, BaseParts DEF Typed, Ghosts, IInv, Unique, Rows
  <2> QED
    BY <2>1, <2>2, <2>3, PartsBase
<1>6. Renaming
  BY <1>1, <1>2, <1>3 DEF Renaming
<1>7. Linking(r)
  BY <1>1 DEF Linking
<1>8. AsAsked'
  <2>1. Placed => Placed'
    BY <1>1, <1>2, <1>3, BaseParts DEF Placed
  <2> QED
    BY <1>1, <2>1, AsAskedPlaced DEF IInv
<1>9. CertificatesFit'
  BY <1>1, <1>3, <1>4, BaseParts DEF IInv, CertificatesFit, Rows, Refs
<1> QED
  BY <1>2, <1>5, <1>6, <1>7, <1>8, <1>9, SettleKeeps DEF IInv

LEMMA InsertCertKeeps ==
    ASSUME IInv, NEW r \in Requests, InsertCert(r)
    PROVE  IInv'
<1> DEFINE w == work[r]
           row == [device |-> w.id, ca |-> w.ref, subject |-> w.name, sealed |-> w.name]
<1>1. PICK i \in Ids :
         /\ Fresh(cert, {i})
         /\ cert' = [cert EXCEPT ![i] = row]
         /\ reissued' = (reissued \/ \E q \in Requests : HoldsCert(work[q], i))
  BY DEF InsertCert
<1>2. Commit(r, "new_cert") /\ UNCHANGED <<ca, tenant, device, askedCa, asked>>
  BY DEF InsertCert, wishes
<1>3. /\ Settle(r) /\ UNCHANGED <<served, contended>>
      /\ w.id \in Ids /\ w.name \in Fqdns /\ w.ref \in Ids
      /\ device[w.id] # NoRow /\ ca[w.ref] # NoRow
      /\ reissued \/ device[w.id].name = w.name
  BY <1>2, CommitFacts DEF Shape, Fits, Kept, Keyed
<1>4. row \in CertRows /\ row # NoRow
  <2>1. row \in CertRows
    BY <1>3 DEF CertRows
  <2> QED
    BY <2>1, StoredAssumption
<1>5. /\ row.device = w.id /\ row.ca = w.ref /\ row.subject = w.name /\ row.sealed = w.name
  OBVIOUS
<1> HIDE DEF row
<1>6. /\ cert'[i] = row
      /\ \A k \in Ids \ {i} : cert'[k] = cert[k]
      /\ cert' \in [Ids -> CertRows \cup {NoRow}]
  BY <1>1, <1>4, BaseParts DEF IInv, Typed
<1>7. Base'
  <2>1. Refs'
    BY <1>2, <1>3, <1>5, <1>6, BaseParts DEF Refs, IInv
  <2>2. Typed' /\ Unique(ca)' /\ Unique(tenant)' /\ Unique(device)'
    BY <1>2, <1>6, BaseParts DEF Typed, IInv, Unique, Rows
  <2>3. Ghosts'
    BY <1>1, <1>2, <1>3, BaseParts DEF Ghosts, IInv
  <2> QED
    BY <2>1, <2>2, <2>3, PartsBase
<1>8. reissued => reissued'
  BY <1>1
<1>9. Renaming
  BY <1>2, <1>8 DEF Renaming
<1>10. Linking(r)
  BY <1>2 DEF Linking
<1>11. AsAsked'
  <2>1. Placed => Placed'
    BY <1>2 DEF Placed
  <2> QED
    BY <1>8, <2>1, AsAskedPlaced DEF IInv
<1>12. CertificatesFit'
  <2> SUFFICES ASSUME ~reissued', NEW k \in Ids, cert'[k] # NoRow
               PROVE  /\ device'[cert'[k].device] # NoRow
                      /\ cert'[k].subject = device'[cert'[k].device].name
                      /\ cert'[k].sealed \in {cert'[k].subject, Lost}
    BY DEF CertificatesFit, Rows
  <2>1. CASE k = i
    BY <1>2, <1>3, <1>5, <1>6, <1>8, <2>1
  <2>2. CASE k # i
    BY <1>2, <1>6, <1>8, <2>2 DEF IInv, CertificatesFit, Rows
  <2> QED
    BY <2>1, <2>2
<1> QED
  BY <1>3, <1>7, <1>9, <1>10, <1>11, <1>12, SettleKeeps DEF IInv

LEMMA Sealed ==
    /\ \A x \in CaRows : /\ [x EXCEPT !.eab = Lost] \in CaRows
                         /\ [x EXCEPT !.eab = Lost].name = x.name
    /\ \A x \in TenantRows : LET y == [x EXCEPT !.cred = Lost]
                             IN  /\ y \in TenantRows /\ y.name = x.name /\ y.ca = x.ca
                                 /\ y.org = x.org /\ y.cred = Lost
    /\ \A x \in DeviceRows : LET y == [x EXCEPT !.cred = Lost]
                             IN  /\ y \in DeviceRows /\ y.name = x.name /\ y.tenant = x.tenant
                                 /\ y.enabled = x.enabled /\ y.key = x.key /\ y.cred = Lost
    /\ \A x \in CertRows : LET y == [x EXCEPT !.sealed = Lost]
                           IN  /\ y \in CertRows /\ y.device = x.device /\ y.ca = x.ca
                               /\ y.subject = x.subject /\ y.sealed = Lost
<1>1. \A x \in CaRows : /\ [x EXCEPT !.eab = Lost] \in CaRows
                        /\ [x EXCEPT !.eab = Lost].name = x.name
  BY DEF CaRows
<1>2. \A x \in TenantRows : LET y == [x EXCEPT !.cred = Lost]
                            IN  /\ y \in TenantRows /\ y.name = x.name /\ y.ca = x.ca
                                /\ y.org = x.org /\ y.cred = Lost
  BY DEF TenantRows
<1>3. \A x \in DeviceRows : LET y == [x EXCEPT !.cred = Lost]
                            IN  /\ y \in DeviceRows /\ y.name = x.name /\ y.tenant = x.tenant
                                /\ y.enabled = x.enabled /\ y.key = x.key /\ y.cred = Lost
  BY DEF DeviceRows
<1>4. \A x \in CertRows : LET y == [x EXCEPT !.sealed = Lost]
                          IN  /\ y \in CertRows /\ y.device = x.device /\ y.ca = x.ca
                              /\ y.subject = x.subject /\ y.sealed = Lost
  BY DEF CertRows
<1> QED
  BY <1>1, <1>2, <1>3, <1>4

LEMMA RotateKeeps ==
    ASSUME IInv, Rotate
    PROVE  IInv'
<1>1. /\ UNCHANGED <<served, askedCa, asked, reissued, contended>>
      /\ work' = [r \in Requests |-> Idle]
  BY DEF Rotate, ghosts, wishes
<1>2. /\ ca' \in [Ids -> CaRows \cup {NoRow}]
      /\ \A k \in Ids : IF ca[k] = NoRow THEN ca'[k] = NoRow
                        ELSE ca'[k] # NoRow /\ ca'[k].name = ca[k].name
  <2>1. \A k \in Ids : /\ ca'[k] \in CaRows \cup {NoRow}
                       /\ IF ca[k] = NoRow THEN ca'[k] = NoRow
                          ELSE ca'[k] # NoRow /\ ca'[k].name = ca[k].name
    BY BaseParts, Sealed, StoredAssumption DEF Rotate, Rows, IInv, Typed
  <2> QED
    BY <2>1 DEF Rotate
<1>3. /\ tenant' \in [Ids -> TenantRows \cup {NoRow}]
      /\ \A k \in Ids : IF tenant[k] = NoRow THEN tenant'[k] = NoRow
                        ELSE /\ tenant'[k] # NoRow /\ tenant'[k].name = tenant[k].name
                             /\ tenant'[k].ca = tenant[k].ca /\ tenant'[k].org = tenant[k].org
                             /\ tenant'[k].cred \in {tenant[k].cred, Lost}
  <2>1. \A k \in Ids : /\ tenant'[k] \in TenantRows \cup {NoRow}
                       /\ IF tenant[k] = NoRow THEN tenant'[k] = NoRow
                          ELSE /\ tenant'[k] # NoRow /\ tenant'[k].name = tenant[k].name
                               /\ tenant'[k].ca = tenant[k].ca /\ tenant'[k].org = tenant[k].org
                               /\ tenant'[k].cred \in {tenant[k].cred, Lost}
    BY BaseParts, Sealed, StoredAssumption DEF Rotate, Rows, IInv, Typed
  <2> QED
    BY <2>1 DEF Rotate
<1>4. /\ device' \in [Ids -> DeviceRows \cup {NoRow}]
      /\ \A k \in Ids : IF device[k] = NoRow THEN device'[k] = NoRow
                        ELSE /\ device'[k] # NoRow /\ device'[k].name = device[k].name
                             /\ device'[k].tenant = device[k].tenant
                             /\ device'[k].enabled = device[k].enabled
                             /\ device'[k].key = device[k].key
                             /\ device'[k].cred \in {device[k].cred, Lost}
  <2>1. \A k \in Ids : /\ device'[k] \in DeviceRows \cup {NoRow}
                       /\ IF device[k] = NoRow THEN device'[k] = NoRow
                          ELSE /\ device'[k] # NoRow /\ device'[k].name = device[k].name
                               /\ device'[k].tenant = device[k].tenant
                               /\ device'[k].enabled = device[k].enabled
                               /\ device'[k].key = device[k].key
                               /\ device'[k].cred \in {device[k].cred, Lost}
    BY BaseParts, Sealed, StoredAssumption DEF Rotate, Rows, IInv, Typed
  <2> QED
    BY <2>1 DEF Rotate
<1>5. /\ cert' \in [Ids -> CertRows \cup {NoRow}]
      /\ \A k \in Ids : IF cert[k] = NoRow THEN cert'[k] = NoRow
                        ELSE /\ cert'[k] # NoRow /\ cert'[k].device = cert[k].device
                             /\ cert'[k].ca = cert[k].ca
                             /\ cert'[k].subject = cert[k].subject /\ cert'[k].sealed = Lost
  <2>1. \A k \in Ids : /\ cert'[k] \in CertRows \cup {NoRow}
                       /\ IF cert[k] = NoRow THEN cert'[k] = NoRow
                          ELSE /\ cert'[k] # NoRow /\ cert'[k].device = cert[k].device
                               /\ cert'[k].ca = cert[k].ca
                               /\ cert'[k].subject = cert[k].subject /\ cert'[k].sealed = Lost
    BY BaseParts, Sealed, StoredAssumption DEF Rotate, Rows, IInv, Typed
  <2> QED
    BY <2>1 DEF Rotate
<1>6. Base'
  <2>1. Unique(ca)' /\ Unique(tenant)' /\ Unique(device)'
    <3>1. Unique(ca)'
      BY <1>2, BaseParts DEF IInv, Unique, Rows
    <3>2. Unique(tenant)'
      BY <1>3, BaseParts DEF IInv, Unique, Rows
    <3>3. Unique(device)'
      BY <1>4, BaseParts DEF IInv, Unique, Rows
    <3> QED
      BY <3>1, <3>2, <3>3
  <2>2. Refs'
    <3>1. \A i \in Ids : tenant'[i] # NoRow => tenant'[i].ca \in Ids /\ ca'[tenant'[i].ca] # NoRow
      BY <1>2, <1>3, BaseParts DEF IInv, Refs
    <3>2. \A i \in Ids : device'[i] # NoRow =>
             device'[i].tenant \in Ids /\ tenant'[device'[i].tenant] # NoRow
      BY <1>3, <1>4, BaseParts DEF IInv, Refs
    <3>3. \A i \in Ids : cert'[i] # NoRow =>
             /\ cert'[i].device \in Ids /\ device'[cert'[i].device] # NoRow
             /\ cert'[i].ca \in Ids /\ ca'[cert'[i].ca] # NoRow
      BY <1>2, <1>4, <1>5, BaseParts DEF IInv, Refs
    <3> QED
      BY <3>1, <3>2, <3>3 DEF Refs
  <2>3. Typed' /\ Ghosts'
    BY <1>1, <1>2, <1>3, <1>4, <1>5, BaseParts DEF Typed, Ghosts, IInv
  <2> QED
    BY <2>1, <2>2, <2>3, PartsBase
<1>7. Plans'
  <2>1. Idle.org = Keep /\ Keep \notin Orgs /\ Idle.op = "idle" /\ ~Idle.checked
    BY InventoryAssumption DEF Idle
  <2> HIDE DEF Idle
  <2>2. \A q \in Requests : work'[q] = Idle
    BY <1>1
  <2>3. \A q \in Requests : Good(work[q])'
    BY <2>1, <2>2, IdleGood DEF Good, Shape, Kept
  <2>4. \A q \in Requests : Sole(work[q])' /\ Rivals(q)'
    BY <2>1, <2>2 DEF Sole, Rivals
  <2> QED
    BY <1>1, <2>3, <2>4, IdleGood DEF Plans
<1>8. AsAsked'
  <2>1. ASSUME Placed PROVE Placed'
    <3>1. \A i \in Ids : device'[i] # NoRow =>
             /\ asked'[device'[i].name] = [tenant |-> tenant'[device'[i].tenant].name,
                                           enabled |-> device'[i].enabled]
             /\ device'[i].cred \in {device'[i].name, None, Lost}
             /\ device'[i].key \in {device'[i].name, None}
      <4> SUFFICES ASSUME NEW i \in Ids, device'[i] # NoRow
                   PROVE  /\ asked'[device'[i].name] = [tenant |-> tenant'[device'[i].tenant].name,
                                                        enabled |-> device'[i].enabled]
                          /\ device'[i].cred \in {device'[i].name, None, Lost}
                          /\ device'[i].key \in {device'[i].name, None}
        OBVIOUS
      <4>1. /\ device[i] # NoRow /\ device'[i].name = device[i].name
            /\ device'[i].tenant = device[i].tenant /\ device'[i].enabled = device[i].enabled
            /\ device'[i].key = device[i].key /\ device'[i].cred \in {device[i].cred, Lost}
        BY <1>4
      <4>2. tenant'[device[i].tenant].name = tenant[device[i].tenant].name
        BY <1>3, <4>1, BaseParts DEF IInv, Refs
      <4> QED
        BY <1>1, <2>1, <4>1, <4>2 DEF Placed
    <3>2. \A i \in Ids : tenant'[i] # NoRow =>
             /\ askedCa'[tenant'[i].name] = ca'[tenant'[i].ca].name
             /\ tenant'[i].cred \in {tenant'[i].name, None, Lost}
      BY <1>1, <1>2, <1>3, <2>1, BaseParts DEF Placed, IInv, Refs
    <3> QED
      BY <3>1, <3>2 DEF Placed
  <2> QED
    BY <1>1, <2>1, AsAskedPlaced DEF IInv
<1>9. CertificatesFit'
  BY <1>1, <1>4, <1>5, BaseParts DEF IInv, CertificatesFit, Rows, Refs
<1>10. OneTenantPerOrg'
  BY <1>1, <1>3 DEF IInv, OneTenantPerOrg, Rows
<1> QED
  BY <1>6, <1>7, <1>8, <1>9, <1>10 DEF IInv

-----------------------------------------------------------------------------
(* The theorems                                                            *)

LEMMA StepKeeps ==
    ASSUME IInv, [Next]_vars
    PROVE  IInv'
<1>1. ASSUME NEW r \in Requests, Look(r) \/ Abandon(r) PROVE IInv'
  BY <1>1, LookLooks, LooksKeep DEF IInv
<1>2. ASSUME NEW r \in Requests, Write(r) PROVE IInv'
  BY <1>2, InsertCaKeeps, UpdateCaKeeps, RemoveCaKeeps, InsertTenantKeeps, UpdateTenantKeeps,
     RemoveTenantKeeps, InsertDevicesKeeps, UpdateDeviceKeeps, RemoveDeviceKeeps,
     InsertCertKeeps DEF Write
<1>3. CASE UNCHANGED vars
  <2>1. UNCHANGED <<ca, tenant, device, cert, work, served, askedCa, asked, reissued, contended>>
    BY <1>3 DEF vars, tables, ghosts, wishes
  <2>2. Base'
    BY <2>1 DEF IInv, Base, Intact, Unique, Rows
  <2>3. \A q \in Requests : Good(work[q])'
    BY <2>1, GoodStays DEF IInv, Plans
  <2>4. \A q \in Requests : Sole(work[q])' /\ Rivals(q)'
    BY <2>1 DEF IInv, Plans, Sole, Rivals, Rows
  <2>5. work' \in [Requests -> Works]
    BY <2>1 DEF IInv, Plans
  <2>6. AsAsked' /\ CertificatesFit' /\ OneTenantPerOrg'
    BY <2>1 DEF IInv, AsAsked, CertificatesFit, OneTenantPerOrg, Rows
  <2> QED
    BY <2>2, <2>3, <2>4, <2>5, <2>6 DEF IInv, Plans
<1> QED
  BY <1>1, <1>2, <1>3, RotateKeeps DEF Next

LEMMA InitHolds == Init => IInv
<1> SUFFICES ASSUME Init PROVE IInv
  OBVIOUS
<1>1. Intact(ca, tenant, device, cert) /\ Tidy(ca, tenant, device, cert)
  BY StoredAssumption DEF Init
<1>2. Base
  <2>1. served \in 0..MaxServed /\ contended \subseteq Orgs
    BY InventoryAssumption DEF Init
  <2>2. /\ askedCa \in [Slugs -> Cas \cup {None}]
        /\ asked \in [Fqdns -> [tenant : Slugs \cup {None}, enabled : BOOLEAN]]
        /\ reissued \in BOOLEAN
    BY DEF Init
  <2> QED
    BY <1>1, <2>1, <2>2 DEF Base
<1>3. Plans
  <2>1. Idle.org = Keep /\ Keep \notin Orgs /\ Idle.op = "idle" /\ ~Idle.checked
    BY InventoryAssumption DEF Idle
  <2>2. work \in [Requests -> Works] /\ \A q \in Requests : work[q] = Idle
    BY IdleGood DEF Init
  <2> HIDE DEF Idle
  <2>3. \A q \in Requests : Good(work[q])
    BY <2>1, <2>2, IdleGood DEF Good, Shape, Kept
  <2>4. \A q \in Requests : Sole(work[q]) /\ Rivals(q)
    BY <2>1, <2>2 DEF Sole, Rivals
  <2> QED
    BY <2>2, <2>3, <2>4 DEF Plans
<1>4. AsAsked
  <2>1. \A i \in Rows(device) :
           /\ asked[device[i].name] = [tenant |-> tenant[device[i].tenant].name,
                                       enabled |-> device[i].enabled]
           /\ device[i].cred \in {device[i].name, None, Lost}
           /\ device[i].key \in {device[i].name, None}
    BY <1>1 DEF Init, Tidy
  <2>2. \A i \in Rows(tenant) : /\ askedCa[tenant[i].name] = ca[tenant[i].ca].name
                                /\ tenant[i].cred \in {tenant[i].name, None, Lost}
    BY <1>1 DEF Init, Tidy
  <2> QED
    BY <2>1, <2>2 DEF AsAsked
<1>5. CertificatesFit
  BY <1>1 DEF Intact, Tidy, CertificatesFit
<1>6. OneTenantPerOrg
  BY <1>1 DEF Tidy, OneTenantPerOrg, Init
<1> QED
  BY <1>2, <1>3, <1>4, <1>5, <1>6 DEF IInv

LEMMA InventoryInvariant == Spec => []IInv
BY InitHolds, StepKeeps, PTL DEF Spec

\* The tables keep to the schema, and what a request plans is of its kind.
THEOREM InventoryTypeCorrect == Spec => []TypeOK
<1>1. IInv => TypeOK
  BY DEF IInv, Base, Plans, Intact, TypeOK
<1> QED
  BY <1>1, InventoryInvariant, PTL

\* Gateways and tenants are where they were last put and hold only what was
\* stored for them, however requests overlap.
THEOREM InventoryAsAsked == Spec => []AsAsked
<1>1. IInv => AsAsked
  BY DEF IInv
<1> QED
  BY <1>1, InventoryInvariant, PTL

\* A certificate on record belongs to the gateway it was ordered for.
THEOREM InventoryCertificates == Spec => []CertificatesFit
<1>1. IInv => CertificatesFit
  BY DEF IInv
<1> QED
  BY <1>1, InventoryInvariant, PTL

\* An organisation has one tenant, unless two requests to link it overlapped.
THEOREM InventoryOrganisations == Spec => []OneTenantPerOrg
<1>1. IInv => OneTenantPerOrg
  BY DEF IInv
<1> QED
  BY <1>1, InventoryInvariant, PTL

\* What a request checked is what the schema demands, but for the
\* certificates of a CA profile.
THEOREM InventoryChecks == Spec => []ChecksSuffice
<1>1. IInv => ChecksSuffice
  BY DEF IInv, Plans, Good, Ready, ChecksSuffice
<1> QED
  BY <1>1, InventoryInvariant, PTL

\* A gateway's credentials are its own or its tenant's.
THEOREM InventoryCredentials == Spec => []CredentialsOwn
<1>1. CredentialsOwn
  BY DEF CredentialsOwn, CredentialsFor, Opens
<1> QED
  BY <1>1, PTL

\* A report without a complaint means that every gateway can be logged in to
\* and every stored certificate deployed.
THEOREM InventoryDoctor == Spec => []DoctorTruthful
<1>1. IInv => DoctorTruthful
  <2> SUFFICES ASSUME IInv, Healthy PROVE DoctorTruthful
    BY DEF DoctorTruthful
  <2>1. ASSUME NEW i \in Rows(device) PROVE CredentialsFor(device[i]) # None
    <3>1. i \in Ids /\ device[i] \in DeviceRows /\ device[i].name # None
      BY <2>1, TableFacts, InventoryAssumption DEF IInv, DeviceRows
    <3>2. LET t == tenant[device[i].tenant]
          IN  device[i].tenant \in Rows(tenant) /\ t \in TenantRows /\ t.name # None
      BY <2>1, BaseParts, InventoryAssumption DEF IInv, Refs, Typed, Rows, TenantRows
    <3>3. CASE device[i].cred # None
      <4>1. <<device[i].cred, device[i].name>> \in SealedRecords
        BY <2>1 DEF SealedRecords
      <4> QED
        BY <3>1, <3>3, <4>1 DEF Healthy, CredentialsFor
    <3>4. CASE device[i].cred = None
      <4>1. tenant[device[i].tenant].cred # None
        BY <2>1, <3>4 DEF Healthy
      <4>2. <<tenant[device[i].tenant].cred, tenant[device[i].tenant].name>> \in SealedRecords
        BY <3>2 DEF SealedRecords
      <4> QED
        BY <3>2, <3>4, <4>1, <4>2 DEF Healthy, CredentialsFor
    <3> QED
      BY <3>3, <3>4
  <2>2. ASSUME NEW i \in Rows(cert)
        PROVE  Opens(cert[i].sealed, device[cert[i].device].name)
    <3>1. <<cert[i].sealed, device[cert[i].device].name>> \in SealedRecords
      BY <2>2 DEF SealedRecords
    <3>2. cert[i].sealed # None
      BY <2>2, TableFacts, InventoryAssumption DEF IInv, CertRows
    <3> QED
      BY <3>1, <3>2 DEF Healthy
  <2> QED
    BY <2>1, <2>2 DEF DoctorTruthful
<1> QED
  BY <1>1, InventoryInvariant, PTL

=============================================================================
