# ht-autocert: verification project

TLA+ models of ht-autocert (`app/`), the program that issues certificates for
Webex Local Gateways from an ACME CA and deploys them to Cisco IOS-XE voice
gateways over SSH. TLC checks the models on small instances; TLAPS proves the
most important properties for every value of the constants. Paths below are
relative to the repository's root; line numbers are those of the modelled
commit.

## 1. Inventory

| component | code | state it keeps | operations | modelled in |
|---|---|---|---|---|
| Blue/green deployment | `app/deployment.py` | `Certificate.status`, `Device.active_trustpoint`, run log | `Deployer.deploy`, `DeploymentService.deploy_device` | `Deployment`, `Cutover` |
| SSH transport and gateway | `app/devices/` | on the gateway: trustpoints, RSA keys, the binding of `sip-ua`, startup configuration, a file on flash | the operations of `DeviceTransport` | `Gateway` |
| Renewal cycle, scheduler | `app/scheduler.py` | run log; the job store, in memory | `run_renewal_cycle`, the daily job | `RenewalCycle` |
| Issuance | `app/issuance.py` | `Certificate` rows, run log, audit log | `IssuanceService.run`, `needs_renewal`, `materialize_pkcs12` | `RenewalCycle` (an order is one step), `Deployment` |
| ACME client | `app/ca/acme_provider.py` | account key and URI (in `CAProfile`), one order at the CA | `issue`, account registration, chain selection | `AcmeOrder`, but for chain selection |
| DNS-01 | `app/dns/` | TXT records of the zone | `create_txt`, `delete_txt`, `wait_for_txt`, delegation check | `AcmeOrder` |
| Trust anchors, PKCS12 | `app/ca/trust_anchors.py`, `app/pkcs12_builder.py` | none | `complete_chain`, `build_pkcs12` | no: see section 6 |
| Inventory | `app/inventory.py`, `app/api/admin_routes.py`, `app/cli.py` | `CAProfile`, `Tenant`, `Device`, `Certificate`, `Operator` rows | create, update, delete, link an organisation, set credentials, pin a host key | `Inventory`; operators in `Access`; deletion during a cycle in `RenewalCycle` |
| Webex discovery and import | `app/webex_inventory.py`, `app/api/routes.py`, `app/cli.py` | devices created disabled | list trunks, import | `Inventory` |
| Sign-in and roles | `app/auth.py`, `app/roles.py`, `app/api/deps.py`, `app/api/auth_routes.py` | session cookies, `Operator` rows | callback, logout, me, `resolve_role` | `Access` |
| Webex tokens | `app/webex_session.py` | sealed `WebexToken` rows | store, load with refresh, forget | `Access` |
| Secrets, credentials, health | `app/vault.py`, `app/devices/factory.py`, `app/health.py` | sealed columns of other tables | seal, open, `resolve_credentials`, health checks | `Inventory`; the tokens' binding in `Access` |
| HTTP API, CLI | `app/api/`, `app/cli.py` | none of their own | wrappers over the services above; some CLI commands differ from the API | `Inventory`, `Access`, and where they start runs |
| Web console | `web/` | none | a client of the API | no |
| Schema, migration, logging, settings | `app/db/migrate.py`, `app/logging.py`, `app/config.py` | - | - | no: one-shot or without control flow |
| RESTCONF reader | `app/devices/restconf.py` | none | reads device state for display | no: read-only |

### How they interact

* The scheduler's thread, the threads of the HTTP API and the processes of the
  CLI all call the same services on one SQLite datastore. Each holds a
  SQLAlchemy session and commits after every sub-step; no row is locked
  between a read and the write that depends on it.
* A renewal cycle calls `IssuanceService.run` for the devices that are due,
  then `DeploymentService.deploy_device` for those it obtained a certificate
  for. `deploy_device` drives one gateway through a transport; the ledger
  (certificate status, active trustpoint) is written once, at the end.
* The gateway is the only other place with durable state. It keeps what was
  configured until it reloads, and what was saved beyond that.

### What is hard here, and what correctness means

* *Deployment*: every one of some fifteen calls can fail before or after it
  took effect, or be refused by the gateway without an error the transport
  recognises; the session can drop in the middle of the import; the gateway can
  reload and the process can be killed between any two calls; earlier attempts
  leave remains; two runs may meet on one gateway. Correct means: what `sip-ua`
  is bound to is never touched and always holds a certificate, the switch is
  atomic for a peer, the outcome reported and recorded is the one the gateway
  is in, and the bundle does not stay on flash.
* *Renewal*: failed orders, missed days, deleted and disabled devices and
  overlapping cycles. Correct means: no gateway that is kept enabled runs into
  expiry, every due device gets its turn, and nothing is ordered twice.
* *ACME and DNS*: records must be removed on every path and must not be removed
  while another order needs them; an account must survive a crash between its
  registration and its recording.
* *Inventory*: a request reads by name, keeps row ids, talks to Webex, to a
  gateway or for minutes to a CA, and then writes by id, while others commit.
  Correct means: what ends up in a row is what was asked for its name, checks
  that are not atomic with their writes are backed by the schema or cannot be
  outrun, credentials are opened for the gateway they were stored for, and the
  doctor does not call sound what a deployment will refuse.
* *Access*: a decision to grant or withdraw access must not be undone by a visit
  that writes the same row; who was disabled stays out whatever the default
  role; a token is its owner's, is gone after sign-out, and stays refreshable
  when Webex leaves the refresh token out.

`PROJECT.json` lists every hazard with its line and the properties that cover it.

## 2. The modules

| module | what it is |
|---|---|
| `Gateway` | one gateway: the effect of each transport operation (`app/devices/ssh.py`) on trustpoints, keys, derived CA trustpoints, binding, startup configuration, flash |
| `Deployment` | runs of `deploy_device` against the gateway of `Gateway`, with the datastore rows they read and write |
| `Cutover` | the abstract specification: what a SIP peer may see during all this |
| `MCDeployment` | instances of `Deployment` for TLC |
| `DeploymentProofs` | theorems about `Deployment`: types, what is served, the refinement |
| `LedgerProofs` | theorems about what its runs report, record and leave behind |
| `RecoveryProofs` | theorems about how its runs end: what makes one deploy, and how many steps it takes |
| `RenewalCycle` | a fleet day after day: cycles, issuance runs, the calendar |
| `MCRenewalCycle` | instances of `RenewalCycle` for TLC |
| `RenewalCycleProofs` | theorems about `RenewalCycle` |
| `AcmeOrder` | orders at an ACME CA: the account of one CA profile, the DNS-01 records, the wait for the nameservers, the clean-up |
| `MCAcmeOrder` | instances of `AcmeOrder` for TLC |
| `CertProvider` | the abstract specification: what `issue` promises its callers |
| `AcmeOrderProofs` | theorems about `AcmeOrder` |
| `ProviderProofs` | the theorem that `AcmeOrder` implements `CertProvider` |
| `Inventory` | the tables of CA profiles, tenants, devices and certificates under concurrent requests of the API and the CLI; imports; sealed values and the doctor |
| `MCInventory` | instances of `Inventory` for TLC: two small datastores |
| `InventoryProofs` | theorems about `Inventory` |
| `Access` | sign-in, cookies, roles, the operator table and the Webex tokens |
| `MCAccess` | instances of `Access` for TLC |
| `AccessProofs` | theorems about `Access` |

`Deployment` extends `Gateway` and instantiates `Cutover` as `Peer`;
`AcmeOrder` instantiates `CertProvider` as `Provider`. The other components meet in the datastore only and are modelled apart: where one relies
on another (a device deleted during a cycle, a directory changed during an
order), the other's effect is an action of its module.

### Gateway and Deployment

`tp[l]` is what the trustpoint with label `l` holds: nothing (`Absent`: not in
running-config), no certificate (`Empty`) or a certificate. Certificates are
numbered in the order of issue, 0 being the one of the time before enrolment.
`key` and `derived` are the labels with an RSA key pair and with `-rrrN` CA
trustpoints, `bound` is what `crypto signaling default trustpoint` names,
`saved` the startup configuration, `flash` whose bundle `htautocert.p12` is.
IOS-XE is external: it is assumed to do what `ssh.py` and its docstrings say,
for instance that an import is refused while the trustpoint exists or a key of
its name is left, and that a partial import leaves an empty trustpoint.

A run `r` is one call of `deploy_device`. `pc[r]` names the call it is about to
make; `job[r]` holds its arguments and locals: the certificate, `rebind`, the
stored idle label (`idle`), the label it really imports into (`goal`) and what
it found bound (`prev`), and what its session had loaded of the datastore
(`loaded`, `known`). Every call is one action through `Call` (it changes the
gateway) or `Look` (it reads): it takes effect, or is refused in silence
(`Refusals`), or raises without effect (`Errors`) or with it (`LateErrors`). An
exception inside the `try` goes through the `finally` clause (`Cleanup`), one
outside goes straight to the handler (`Raise`). `Settle` and `Commit` are the
two halves of the last transaction: the certificates to supersede are read
before it commits. `Issue` stands for the issuance that commits a certificate
and its `target_trustpoint`.

The sessions of cycles and of the CLI (`session_scope`) keep the rows they have
loaded over their own commits, so that they may hold a device as it was before
another process changed it; those of the API load it anew. With `Lagging` a
session may hold any value that `active_trustpoint` has had so far (`past`), and
may take the run's certificate for one not yet recorded as deployed. This
matters in two places: `Issue` destines the certificate for the label that is
idle by what the session holds, and `RecordActive` leaves `active_trustpoint` as
it is when the label assigned is the one the session holds (`Written`: SQLAlchemy
leaves such a column out of the `UPDATE`, as in `Inventory!Assigned`).

Which calls can be refused in silence follows from the transport:
`_send_interactive` never looks at the reply, `_send_configs` knows only the
CLI error markers of scrapli. `write memory` is the one such call for which a
refusal is left out of `deploy_serial`: the code has no means to notice it, and
`DeployedIsDurable` is stated for gateways that save when asked.

`Cutover` has three variables: the newest certificate issued, what is served,
and what would be served after a reload. `Peer` maps them to `issued`,
`Serving` and `Presented(saved)`; `CutoverImplemented` says that every
behaviour of the runs is one of `Cutover`.

### RenewalCycle

`newest[d]` is `latest_certificate(d).days_remaining()`, `served[d]` the days
left on what the gateway presents; both count down at `Tick`. A cycle `k` is
the scheduler's (`Sched`) or one that an operator starts (`Manual`). Its loop
variables are `todo[k]` and `at[k]`; `got[k]` is `issued_fqdns`. The order of
the devices within a loop is left open (the code sorts by FQDN). `Check` and the
order are separate steps, since other runs commit in between. `Record` is every
write of a row that refers to the device: it fails once the device is gone. A
deployment is one step that may fail. Failures are bounded by `MaxTrouble`: a
due device is left without success at most that many times in a row.

`enabled` are the devices that are enabled and whose tenant is; only they are
selected by a cycle (`DueDevices`, `scheduler.py:55-71`), whereas an issuance run
takes any device on record. The devices of `Switched` may start out disabled, as
imported ones do, and are disabled and enabled at any time (`Switch`:
`update_device`, `update_tenant`). `passed` remembers the devices that the daily
cycle left out when they were due, until they are renewed: nothing is promised
of what their gateways serve.

`CutShort` ends a run at any step: the process is killed, or something raises
that no handler keeps to one device. That may be the missing Cloudflare token
(`issuance.py:250-252`), or a commit that fails, after which the handler's own
write fails as well (`issuance.py:294`, `365`). Two further causes have steps of
their own: a bundle that does not open (`PushRaises`), and a device that was
deleted under the run (`Record`).

### AcmeOrder

An order `o` is one call of `AcmeProvider.issue`. `dir`, `key` and `uri` are
the columns of its CA profile, which all orders share; `accounts` and
`certified` are what the CA knows, `zone` what the DNS provider holds and
`seen[s]` what nameserver `s` serves: the zone as it was at some earlier moment
(`Propagate`). `pc[o]` is the next call, `job[o]` the locals of the order; its
authorisations live at the CA and are kept in the same record (`authz`), as is
whether a sweep has taken one of its records (`swept`). `broken` remembers the
orders that were killed, whose call took effect and went unanswered, or whose
removal of a record failed.

What the model takes from the code and is easy to miss:

* `AccountKey` generates and commits a key and reads the URI afterwards.
  Whether it then reads the URI as loaded or as committed since depends on the
  session (`expire_on_commit`), so both are possible.
* A key that is registered already is a conflict, which the ACME library raises
  as an error and the code turns into a failed order: nothing but `GiveUp` is
  left, then and in every later order.
* `CreateRecord` includes the choice of the nameservers to wait for: those whose
  address this host could resolve. `Hidden` are the ones it may be unable to
  reach, about which nothing can be promised.
* `Cleanup` logs a refused removal and goes on, but an error of the connection
  is not a `CloudflareError` and is raised from the `finally` clause.
* The console's deletion of challenge records is one step per record (`Sweep`),
  since its requests interleave with those of the orders.

`CertProvider` is what `IssuanceService` relies on: a call is new, open, issued
or failed; it returns only with a certificate the CA has issued for it, raises
only when it obtained none and left nothing in the zone, unless it broke down,
and removes no other call's records. `Provider` maps `pc` and the outcome of an
order to the stage of a call and the zone to the calls that have records in it;
`PromisesKept` says that every behaviour of the orders is one of `CertProvider`.

Left out: commits of the datastore that fail (the order ends with the exception
before any record exists), and names that are delegated elsewhere, which are
one more reason for `Fail` or for a record never to be served. `Exclusive`
restricts the model to first orders that do not overlap; it serves to say
exactly which property needs that.

### Inventory

`ca`, `tenant`, `device` and `cert` map row ids to rows or `NoRow`. A request `r`
takes two steps or more: what it reads (an action such as `UpdateDevice`) and
what it commits (`UpdateDeviceRow`); `work[r]` holds in between what the code
holds, row ids above all. SQLite and SQLAlchemy are external, and what follows
from them is stated where it is used:

* The id of a new row is one more than the largest in use (`Fresh`), so the id
  of a deleted row can come back under another name while a request holds it.
  `reissued` remembers that this happened.
* An `UPDATE` writes the columns that changed (`Assigned`, `Referred`): a request
  that assigns the value it read writes nothing.
* To update a row that is gone is an error, to delete one is not, and unique
  columns and foreign keys are checked at commit (`Fits`). A commit that is
  refused is `Abandon`, as is every other way of ending without a write.

The API and the CLI differ, and so do their actions: `tenant add` and `device
add` leave a name that is taken to the schema, and `webex import` looks the
organisation, the tenant with the names, and the tenant again up in three
sessions (`CliImport`, `CliTrunks`, `CliAttach`) where the API loads the tenant
once, before it asks Webex (`Import`, `Trunks`).

A sealed value is written as the record it is bound to (the AAD of
`SecretBox`), or as `Lost` when the master key has been replaced since
(`Rotate`). `askedCa` and `asked` remember by name what was last asked for a
tenant or a device, `contended` the organisations that two open requests wanted
to link, and `work[r].checked` that nothing was committed since `r` looked.

Left out: columns nothing else depends on (display names, addresses, SANs, key
types), the case of names, run and audit logs, and the certificates' contents.

### Access

`operator` and `token` are tables like those of `Inventory`, with the same rules
about ids and columns; `cookie` is what each browser holds, live or expired.
`Session`, `Viewer` and `Admin` are `verify_session` and the role checks, made
anew for each request as `require_auth` does. A sealed token is written as the
person it is bound to. `load_token` is three steps, since it calls Webex between
reading the token (`LoadToken`), choosing the row to store the new one in
(`Refresh`) and storing it (`Refreshed`). `SignIn` sets the cookie whether the
token could be stored or not, as `callback` does.

`decided` remembers what the decisions about each person amount to, as they were
written; `overlapping` the people about whom two decisions were under way at
once; `signedOut` those whose sign-out met no refresh of their token.

Left out: the `state` parameter of the redirect and the signature of cookies
(taken to work), the names shown, and changes of the configuration.

## 3. The runs

Unless said otherwise a run passes. In the runs of `Deployment`, `Labels` holds
a third label no run uses, so that a gateway may be bound to something else. Two
runs and two certificates are the smallest instance in which a run meets the
remains of another one and a second certificate supersedes the first; labels
beyond A and B and runs that come after both add nothing, since a run keeps no
state beyond the gateway and the datastore. In all of them but
`deploy_swap_unrecorded` sessions may lag behind (`Lagging`).

| run | instance | shows |
|---|---|---|
| `deploy_serial` | 2 runs one after the other, 2 certificates, 3 labels; all failures, refusals but of the save, kills, 1 reload, sessions that lag behind | `ServingSound`, `BoundUntouched`, `CutoverImplemented`, `DeployedIsDurable`, `RolledBackRestores`, `LedgerTruthful`, `OneDeployed`, `TypeOK` |
| `deploy_fault_free` | no faults at all, but remains of earlier failures on both labels, staging runs | `FaultFreeDeploys` (every run deploys) |
| `deploy_overlap` | 2 runs interleaved freely, 1 certificate; every call but the clean-up may fail, the import also after taking effect | `BundleGone`, `RunsEnd` |
| `deploy_overlap_destroys` | 2 overlapping runs, no faults | violation of `BoundUntouched` |
| `deploy_swap_unrecorded` | 2 runs one after the other, no faults, no session lags behind | violation of `LedgerFollowsCutover` |
| `renewal_steady` | 3 devices, one of them disabled and enabled at will, validity 5, thresholds 2 and 3, cycles of an operator that overlap the scheduler's; orders fail, days are missed | `NoExpiry` |
| `renewal_faults` | 2 devices, one of them disabled and enabled at will, validity 2, thresholds 0 and 1, cycles and issuance runs that do not overlap; deletions, runs cut short, missed days, failing orders, deployments and bundles | `TypeOK`, `OnePerDay`, `FleetAttempted`, `Renewed` |
| `renewal_undelivered` | a deployment may fail | violation of `NoExpiry` |
| `acme_orders` | 2 orders for one name whose first steps do not overlap, 2 directories, 1 nameserver; all faults, sweeps, a profile that is moved | `TypeOK`, `PromisesKept`, `AccountSound`, `AccountKept`, `ChallengesStand`, `NoLeftovers`, `OrdersEnd` |
| `acme_moved` | the directory of the profile is changed | violation of `AccountAtDirectory` |
| `inventory` | 3 requests, 2 at once, 2 CA profiles, tenants and devices, 1 organisation, 2 rows per table; from a datastore of two clients, and from one with a gateway and its certificate | `TypeOK`, `AsAsked`, `CertificatesFit`, `CredentialsOwn`, `OneTenantPerOrg`, `ChecksSuffice`, `DoctorTruthful` |
| `access` | 4 requests, 2 at once, 2 people (one of them a bootstrap admin), 1 browser, 2 roles | `TypeOK`, `GrantsAsDecided`, `DisabledStaysOut`, `UsesOwnToken`, `SignedOutForgotten`, `StillRefreshable` |

Deadlock is not checked in the runs of `Deployment` and `AcmeOrder`, where every
run or order may be over, nor in those of `Inventory` and `Access`, where the
bounded number of requests may be served. In `RenewalCycle` days never end, and
it is checked. In `renewal_faults` a certificate that lasts two days passes
through being new, being in the margin of one device only, and being in that of
both; what `NoExpiry` needs of the days in between is in `renewal_steady`. The
thresholds and `MaxTrouble` of `renewal_steady` are chosen so
that the last permitted attempt comes on the last day: with one day less of
margin `NoExpiry` fails.

In `acme_orders` two orders for the same name are what could confuse records,
and two directories what could separate an account from its key. More names and
a nameserver that lags behind another one are left to the theorems of section 5,
which state the run's safety properties for any number of both.

In `inventory` two requests at once are what it takes to come between a reading
and a writing step, and a third one, served before or in between, deletes the
row that is reissued. Two rows per table suffice for a name and another one that
takes its id. In `access` a fourth request is needed: a person signs in, a token
expires and is refreshed while that person signs out, and another visit looks at
what is left. Bounds of both limit the requests of a behaviour, not what one of
them may do; the theorems of section 5 hold for every bound.

### What the violations say about the code

1. `deploy_overlap_destroys`: nothing keeps two runs off one gateway. The second
   prepares the label it found idle although the first has bound it since.
2. `deploy_swap_unrecorded`: when the stored idle label turns out to be bound,
   the run uses the other one, cuts over, and records nothing, because the
   label of the result is compared with the stored one (`deployment.py:335`). It
   is not the only way for the record to stay behind: see the first observation
   below.
3. `renewal_undelivered`: a certificate that was issued and not deployed is
   never deployed by a later cycle.
4. `acme_moved`: `update_ca_profile` changes the directory and leaves key and
   account of the old one, so that every later order of the profile is refused.

Observed while modelling, each outside the conditions of a run or theorem above
and without a run of its own:

* A cycle or a command of the CLI may leave `active_trustpoint` behind without a
  swap and without two deployments at once. A cycle loads the device with A
  active and issues certificate 1 for B; an operator deploys it, so that B is
  active, and has certificate 2 issued for A; the cycle then deploys certificate 2
  to A and assigns A over the A it had loaded (`deployment.py:337`), which writes
  nothing. Certificate 2 is on record as deployed, and the label on record is B.
  `LedgerTruthful` excepts exactly this case (`Outdated`); without the exception
  `deploy_serial` violates it.
* A disabled gateway, or one of a disabled tenant, is not renewed and serves its
  certificate until it has expired, and nothing reports it: that is what the
  selection says (`scheduler.py:57-64`), and why `NoExpiry` excepts the gateways
  that were left out when due (`passed`).
* `create_device` and `update_device` accept one label as both trustpoint A and
  B; deploying would then delete the active trustpoint (hence `A # B` below).
* The comparison of violation 2 also makes a staged certificate a deployed one
  on record when the label found bound is the stored idle one.
* The upload is outside the `try` whose `finally` removes the bundle: one that
  fails after writing leaves it on flash (`BundleGone` is checked with uploads
  that fail before they write).
* When the removal of the bundle raises something other than a `DeviceError`, a
  cutover that is complete is reported as failed and not recorded (`RawErrors`).
* Two runs that commit at the same time may leave two certificates on record as
  deployed, since those to supersede are read before (`OneDeployed` is checked
  for runs one after the other).
* `max_instances=1` holds for the scheduler's own job only: overlapping cycles
  may order twice on one day (hence `Overlap = FALSE` for `OnePerDay`).
* A device that is deleted during a cycle, a bundle that cannot be opened, a
  missing Cloudflare token and a commit that fails end the cycle for the devices
  that are left (hence the conditions of `FleetAttempted`).
* Two first orders of one CA profile may leave the key of one and the account of
  the other on record (hence `Exclusive` for `AccountSound`).
* A row id that was read before a long call and reissued since does lead a write
  into another row: a device of the wrong tenant, a certificate of the wrong
  gateway (hence `reissued` in `AsAsked` and `CertificatesFit`). Sealed values
  are bound to names, so that `CredentialsOwn` holds nevertheless.
* Two requests to link one organisation may both succeed: no constraint backs the
  check (hence `contended` in `OneTenantPerOrg`). `set_tenant_webex_org` and
  `clear_tenant_webex_org` are not called by anything.
* `delete_ca_profile` looks for tenants only; one with certificates on record is
  refused by the foreign key, and the request fails (`ChecksSuffice`).
* Two decisions about one person that overlap each write the columns they
  changed, so that their sum may be what nobody asked for (hence `overlapping`).
  For the same reason a request that confirms what it read does not win over an
  earlier change committed in between.
* `operator remove` without `--disable` makes the default role apply; a person
  who is let in by `webex_default_role` is not kept out by it. The message that
  "existing sessions remain valid until they expire" (`cli.py:297`) is too
  careful: `require_auth` resolves the role on every request.
* Signing out with an expired cookie, or while the token is being refreshed,
  leaves a token behind (hence `signedOut`).
* A token whose answer had no `expires_in`, or 0, never counts as expired.
* The API takes an organisation given to `webex_import` before the tenant's own,
  although the tenant may be linked to another one (`db/models.py:150`).
* `schedule_deploy` (`config.py:61`) is never read: a scheduler always deploys.

## 4. Fairness

`Deployment!FairSpec` assumes weak fairness of each run's own steps: every
transport call ends by a reply or a timeout, and a run that is not killed goes
on. It does not assume that runs are started, killed, or that gateways reload.

`RenewalCycle!FairSpec` assumes the same of each cycle's steps; that the
scheduler fires every day or the firing is missed; and that days go by. The
last two are strong fairness: a day only ends while no cycle is under way, and
operators may start cycles again and again, but time does not wait for them. No
fairness is assumed of operators, of kills, or of any outcome: an order
succeeds in the end only because `MaxTrouble` bounds the failures.

`AcmeOrder!FairSpec` assumes weak fairness of the steps of each order: a call
ends by its answer, its error or its deadline (`propagation_timeout`,
`order_timeout`, the timeout of the HTTP client). Nothing is assumed of the
nameservers, which may never come up to date, nor of the CA, which may never
validate: `OrdersEnd` holds because every wait has a deadline.

## 5. What is proved

### Deployment

`DeploymentProofs`, for any set of runs and labels, any number of certificates
and reloads, any choice of faults (`Errors`, `LateErrors`, `Refusals`,
`RawErrors`, `Crashes`, `Staging`) and sessions that lag behind or do not
(`Lagging`):

* `TypeCorrect`: `Spec => []TypeOK`.
* `NeverDark`, `ActiveNeverTouched`, `ImplementsCutover`: `ServingSound`,
  `BoundUntouched` and the refinement of `Cutover`, assuming that runs do not
  overlap (`Serialised`) and that the labels differ (`A # B`). The first
  assumption is necessary by the run `deploy_overlap_destroys`, the second
  because a run with one label deletes what it finds bound.

The inductive invariant `Inv` adds to the properties: at most one run is in
flight; while a run prepares or fills its label, that label is not the bound
one (`RunInv`: true since `GoalFor` compared it with what it read, and nobody
else binds); once `Verify` has passed, the label holds the run's certificate,
unless a reload has cut the session; and what is saved is sound, so that a
reload cannot break what is running (`SavedSound`). Without `SavedSound` the
step `Reload` could not be proved, without the clause about the session the
steps between `Verify` and `Bind`.

`LedgerProofs` goes on from there with `LedgerInv`:

* `DeployedLasts`, `RollbackRestores`, `OneOnRecord`, `RecordedIsServed`:
  `DeployedIsDurable`, `RolledBackRestores`, `OneDeployed` and `LedgerTruthful`,
  under the same assumptions; the first and the last also assume that a save is
  not refused in silence, and the last that nothing is staged (section 3 tells
  what staging does to the record). `LedgerTruthful` says of the label what is
  true of the code: it is the bound one, unless the session had loaded it before
  it was replaced on record.
* `BundleRemoved`: `BundleGone` without `Serialised`, for runs that are not
  interrupted and whose upload and removal of the bundle do not fail
  (`Undisturbed`).

What `LedgerInv` adds to `Inv` is the way from the outcome to the record: from the
save on, the run's certificate is bound both in the running and in the startup
configuration (`Durable`), so that a reload changes nothing; and between `Settle`
and `Commit`, `stale` still holds every other certificate on record as deployed.
Of what a session has loaded it says (`LoadedInv`) that a certificate which the
session takes for deployed is, and, if no session lags behind, that the label is
the one on record.
`BundleRemoved` rests on one fact: a bundle on flash has a run inside its `try`.

Two theorems of the same module concern the record between runs, which
`deploy_swap_unrecorded` shows to be wrong after a swap of the labels:

* `RecordFollows`: `LedgerFollowsCutover` as long as no run that is over has
  swapped them (`NoneSwapped`) or, where sessions may lag behind, had loaded the
  device with the label it was to record (`NoneOmitted`). These are two causes,
  the comparison at `deployment.py:335` and the assignment at `:337`; failed
  calls and reloads are none. The second condition is wider than its cause: a
  run that had loaded the label does no harm if nobody replaced it.
* `ServedIsRecorded`: when the runs that are over went so (`AsPlanned`), until the
  next one binds (`Settled`), the certificate served is on record as deployed,
  and a reload keeps it.

`FollowInv`, behind both, says that the record, the running and the startup
configuration then agree on one certificate and its label (`OnRecord`): the next
run does not touch that label before it binds, and nothing else writes the
record. Runs that failed or were killed are outside both: between `Bind` and
`Commit` they do leave a record that is behind.

`RecoveryProofs` is about how a run ends:

* `SmoothRunDeploys`: a run whose own calls all take effect (`Smooth`) deploys,
  or could not open its bundle, whatever the runs before it failed at, left on
  the labels or died of, assuming `Serialised`. The invariant `CleanInv` says
  what the run has cleared away and found by each of its calls; nothing in it
  depends on the state it started from.
* `FaultFreeSucceeds`: without faults every run is smooth: the safety half of
  `FaultFreeDeploys`. (`Works` is `Deployment` with its constants set so that
  nothing fails, and the two have the same steps then.)
* `EveryRunIsShort`: at most 16 steps, whatever fails and whatever other runs
  do; `Ahead` is the number of steps left. It is the safety half of `RunsEnd`.

### RenewalCycle

`RenewalCycleProofs`, for any fleet, validity, thresholds, operators and bound
on trouble:

* `RenewalTypeCorrect`: `Spec => []TypeOK`.
* `NeverExpired`: `NoExpiry`, assuming `Quiet`: deployments work, nothing is
  deleted or cut short, no run only issues, and `MaxTrouble` is below every
  threshold, which is below the validity. Cycles may overlap, and devices may be
  disabled and enabled: as `NoExpiry` does, it leaves out those that the daily
  cycle left out when they were due.
* `EveryTurn`: a run ends with no device left to handle, assuming that no device
  is deleted, no bundle fails to open and no run is cut short.
* `FailuresAreContained`: `FleetAttempted`, without an assumption: what a failed
  order, a failed deployment or a device renewed meanwhile does stays with that
  device. It does not say that nothing else ends a run early; what does in the
  code is listed under `CutShort` in section 2.
* `NeverTwice`: `OnePerDay`, assuming that runs do not overlap and that a new
  certificate is not due at once; with deletions, kills and all failures.
* `NewestStaysValid`: the certificate on record for a device never expires,
  again but for devices left out when due because they were disabled, assuming
  `Tended`: nothing is deleted, and `MaxTrouble` is below every threshold and
  below what a certificate lasts by more than a day. Deployments and bundles may
  fail, processes may be killed, runs may only issue and may overlap.
* `CycleTakesSoManySteps`: a run over `n` devices takes at most `5n+2` steps
  (`StepsLeft`), whatever else goes on. Only this needs the fleet to be finite.

Of `Quiet`, TLC finds `NoExpiry` violated when deployments or bundles may fail,
devices may be deleted, processes killed or runs may only issue, or when
`MaxTrouble` reaches a threshold. That a threshold is below the validity is
used by the invariant; TLC found no violation without it. Together with
`NewestStaysValid` this places the weakness: of the faults above all but
deletions spoil the way from the record to the gateway, never the record, since
no later cycle takes up a certificate that was issued and not deployed
(violation 3).

The invariant behind `NeverExpired` (`RenewalInv`) says where the margin goes:
`newest + failing` never falls below the threshold, and is strictly above it
once the day's cycle has passed the device (`MarginInv`), so days are lost to
trouble only; and what is served is as new as what is on record unless some
cycle has the newer one still to deploy (`ServedInv`). The threshold bounds
`failing`, so `newest`, and with it what is served, stays above zero.
`OnceInv` says that a device that was ordered for today is no longer due.
`RecordInv`, behind `NewestStaysValid`, is what is left of `RenewalInv` when
nothing is promised of deliveries: the margin alone, which is a device's
threshold or, if that is larger, the last day but one (`Margin`).

### AcmeOrder

`AcmeOrderProofs`, for any orders, names, nameservers and directories and any
subset of the faults:

* `AcmeTypeCorrect`: `Spec => []TypeOK`. `TypeOK` alone is not inductive: that
  an order past `AccountKey` has a key, and one past `Start` a directory
  (`Signed`), is what makes `Own(o)` an account.
* `NothingLeftBehind`: `NoLeftovers`. `RecordInv` says that the order of each
  record in the zone has it among those to remove or was broken, and that an
  order has nothing to remove before its challenges and after its clean-up.
* `AnsweredStaysServed`: `ChallengesStand`. `ChallengeInv` adds that an order
  that was not swept has its records in the zone as long as it solves, since
  the others remove only what bears their own value; a nameserver that comes up
  to date therefore keeps serving them; and that a name is answered only when
  no nameserver is left to agree.
* `IssuedReturned`: `IssuedKept`, that a certificate the CA has issued is
  returned unless the order broke down. No run checks it any more: it follows
  from `PromisesKept`.
* `AccountStaysSound`: `AccountSound`, assuming `Exclusive`. Its invariant says
  that the one order that opens the account knows the profile as it is.
* `RegisteredIsRecorded`: `AccountKept`, without that assumption. Its invariant
  says that whatever bears a key, its order is past making it, so a new key is
  never registered already.
* `AccountStaysHome`: `AccountAtDirectory` as long as nobody changes the
  directory of the profile, also of orders that overlap: `acme_moved` shows the
  only cause of what it shows. `PlacedInv` adds that an order about to join has
  read the directory on record.
* `OrdersAreWelcome`: assuming the same and `Exclusive`, no order is turned away
  for its account: it orders under the account on record, which the CA knows
  under the key it signs with, and a key is registered a second time only after
  a kill or a lost answer. `WelcomeInv` joins the three account invariants.
* `OrderTakesSoManyCalls`: an order of `n` names takes at most `n(s+3)+6` steps
  with `s` nameservers (`CallsLeft`), whatever the CA, the nameservers, other
  orders and the operators do; `CountInv` says that the name in hand is still to
  be done and bounds the records made. It is the safety half of `OrdersEnd`.

`ProviderProofs` has `ImplementsProvider`: `PromisesKept`, with no assumption.
`PromiseInv` adds to the invariants above that an order holds a certificate only
if the CA has issued it. The proof takes the actions one by one: the first one
of an order is `Begin`, the one that ends it `Return` or `Raise`, a sweep
`Clear`, and the others are `Work` or no step, because an order removes records
of its own only (`OwnZone`).

### Inventory

`InventoryProofs`, for any requests, names, organisations and bounds and any
stored datastore that keeps to the schema and in which everything is in its
place (`StoredAssumption`):

* `InventoryTypeCorrect`, `InventoryAsAsked`, `InventoryCertificates`,
  `InventoryOrganisations`, `InventoryChecks`, `InventoryCredentials` and
  `InventoryDoctor`: `Spec => []P` for each of the run's seven properties.

The inductive invariant `IInv` needs three things beyond these. The schema
(`Base`): every write keeps it because `Fits` is checked at commit. What a
request plans (`Plans`): each kind of request fills the fields its write uses
and nothing else (`Shape`); until an id is reissued, every row it holds still
has the name it was read under, or is gone (`Kept`); and what it looked at fits
as long as nothing was committed since (`Ready`). And, for `OneTenantPerOrg`,
that an organisation which one open request is to link has no other tenant
(`Sole`), unless two such requests met (`Rivals`). `CredentialsOwn` needs none
of these: it follows from the binding of sealed values alone. `DoctorTruthful`
needs the foreign keys only.

### Access

`AccessProofs`, for any requests, people, browsers and roles, any bootstrap list
and default role, any bounds and any stored state with unique names and tokens
of their own:

* `AccessTypeCorrect`, `AccessGrants`, `AccessDisabled`, `AccessOwnToken` and
  `AccessSignedOut`: `Spec => []P`; `AccessRefreshable`: the action property.

`IInv` adds to them: the kind of each request's fields (`Kinds`: a token about
to be stored is its owner's and has a refresh token, a visit writes no column of
the grant); that a decision which overlaps with no other still has the row it
read (`Held`, `Current`), in which writing the changed columns amounts to
writing what was asked; and that a signed-out person's only token is the row
that an unfinished sign-out is about to delete (`Forgettable`).

Each module states first what every action does to each field (the `...Effect`
lemmas of `AcmeOrderProofs`); the steps of an invariant then cite these.

### Only model-checked

The liveness properties `FaultFreeDeploys`, `RunsEnd`, `Renewed` and `OrdersEnd`:
fairness speaks of `ENABLED`, which is out of the prover's reach. Of each the
theorems have the half that is safety: that a run cannot end otherwise
(`FaultFreeSucceeds`), that no run, cycle or order takes more than so many steps
(`EveryRunIsShort`, `CycleTakesSoManySteps`, `OrderTakesSoManyCalls`), and that
a cycle which nothing cuts short goes through its devices (`EveryTurn`). What is
left to TLC is
that an unfinished run can always take a step, and for `Renewed` that days go
by. Every other property of a passing run is a theorem, under the assumptions
named above. Of the properties that runs refute, `BoundUntouched` and
`AccountAtDirectory` are proved under the condition whose absence the run shows,
`LedgerFollowsCutover` under that condition and `NoneOmitted`, and `NoExpiry`
under `Quiet`.

## 6. Not modelled, and why

* Trust anchors and PKCS12: pure functions of one order's answer. The bundled
  roots are self-signed, so the loop that completes a chain appends at most one
  of them; `tests/test_chain_selection.py` covers selection and completion.
* How a session compares a gateway's key with the pinned one, and the doctor's
  checks of settings, DNS and addresses: single comparisons.
* Dry runs (they write nothing), RESTCONF (read-only), the web console (a
  client of the API), schema migration, logging, settings: no state of
  interest.
* Text formats: parsing of `show` output, PKCS12 and PEM encoding, prompts.
  The repository's tests cover them.
* `write memory` that is not carried out (see section 2).
* Cryptography: sealing either opens or raises.

## 7. Plan

1. `Gateway`, `Deployment`, `Cutover` and their proofs: done.
2. `RenewalCycle` and its proofs: done.
3. `AcmeOrder` and its proofs: done.
4. `Inventory` and its proofs: done.
5. `Access` and its proofs: done.
6. The abstract specification of `AcmeOrder` (`CertProvider`) and its refinement:
   done.
7. Theorems about how runs, cycles and orders end, and about the conditions of
   the refuted properties: done.
8. The step that `RenewalCycle` makes of a run of `Deployment`, as a refinement.
9. A gateway that does not carry out `write memory`, once the transport looks at
   its reply.
