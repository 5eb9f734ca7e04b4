----------------------------- MODULE Deployment -----------------------------
(***************************************************************************)
(* app/deployment.py: runs of DeploymentService.deploy_device against one  *)
(* gateway.  A run takes one step per call it makes to the transport, and  *)
(* every call may raise before or after it took effect, or return normally *)
(* although the gateway refused it: the constants below name the calls for *)
(* which each of these happens.  Runs are started by the renewal cycle, by *)
(* the HTTP API and by the CLI in three different threads or processes,    *)
(* and nothing in the code keeps two of them off the same gateway:         *)
(* Serialised states that assumption where a property needs it.            *)
(***************************************************************************)
EXTENDS Gateway

CONSTANTS
    Runs,        \* the calls of deploy_device, each made at most once
    A, B,        \* device.trustpoint_a and device.trustpoint_b
    Serialised,  \* no run starts while another one is in flight
    Lagging,     \* a session may hold rows as it loaded them at an earlier time
    Staging,     \* runs with rebind=False are made
    RawErrors,   \* a failure may surface as an exception that is no DeviceError
    Errors,      \* the calls that may raise without taking effect
    LateErrors,  \* the calls that may raise after taking effect
    Refusals,    \* the calls that may return without having taken effect
    Crashes,     \* the process may be killed in the middle of a run
    MaxReloads   \* bound: how often the gateway reloads

\* The calls of a run, in program order, named for what is about to be called.
Calls == {"connect", "read", "upload", "derived", "trustpoint", "key", "import",
          "reconnect", "revocation", "verify", "bind", "confirm", "rollback",
          "save", "cleanup"}

InFlight == Calls \cup {"settle", "commit"}
Phases == InFlight \cup {"ready", "done", "killed"}

\* A call that raises inside the try block is followed by the finally clause.
InTry == Calls \ {"connect", "read", "upload", "cleanup"}

ASSUME LabelsAssumption == A \in Labels /\ B \in Labels
ASSUME FlagsAssumption ==
    /\ Serialised \in BOOLEAN /\ Staging \in BOOLEAN /\ Crashes \in BOOLEAN
    /\ RawErrors \in BOOLEAN /\ Lagging \in BOOLEAN
ASSUME FaultsAssumption ==
    /\ Errors \subseteq Calls /\ LateErrors \subseteq Calls
    /\ Refusals \subseteq Calls \ {"connect", "read", "verify", "confirm"}
    /\ MaxReloads \in Nat

VARIABLES
    issued,   \* how many certificates the datastore holds for the device
    target,   \* certificate.target_trustpoint
    status,   \* certificate.status
    active,   \* device.active_trustpoint
    past,     \* what device.active_trustpoint has been so far
    pc,       \* what each run is about to do
    job,      \* the arguments and local variables of each run
    result,   \* the status each run reports
    alive,    \* the session of each run has not been cut by a reload
    stale,    \* the certificates a run is about to mark superseded
    reloads   \* how often the gateway has reloaded

datastore == <<issued, target, status, active, past>>
runs == <<pc, job, result, alive, stale>>
vars == <<gateway, datastore, runs, reloads>>

\* loaded and known are the active_trustpoint of the device and whether the
\* certificate is recorded as deployed, as the run's session loaded the rows.
Jobs == [cert : Certs, rebind : BOOLEAN, idle : Labels, goal : Labels,
         prev : Labels \cup {NoLabel}, loaded : Labels \cup {NoLabel},
         known : BOOLEAN]
Statuses == {"none", "issued", "deployed", "superseded"}
Results == {"none", "deployed", "rolled_back", "failed", "raised"}

TypeOK ==
    /\ GatewayTypeOK
    /\ issued \in Certs
    /\ target \in [Certs -> Labels]
    /\ status \in [Certs -> Statuses]
    /\ active \in Labels \cup {NoLabel}
    /\ past \subseteq Labels \cup {NoLabel}
    /\ pc \in [Runs -> Phases]
    /\ job \in [Runs -> Jobs]
    /\ result \in [Runs -> Results]
    /\ alive \in [Runs -> BOOLEAN]
    /\ stale \in [Runs -> SUBSET Certs]
    /\ reloads \in 0 .. MaxReloads

\* The operator may have recorded any label, or none, as the active one.
Init ==
    /\ GatewayInit
    /\ issued = 0
    /\ target = [c \in Certs |-> A]
    /\ status = [c \in Certs |-> "none"]
    /\ active \in Labels \cup {NoLabel}
    /\ past = {active}
    /\ pc = [r \in Runs |-> "ready"]
    /\ job = [r \in Runs |-> [cert |-> 0, rebind |-> TRUE, idle |-> A,
                              goal |-> A, prev |-> NoLabel, loaded |-> NoLabel,
                              known |-> FALSE]]
    /\ result = [r \in Runs |-> "none"]
    /\ alive = [r \in Runs |-> TRUE]
    /\ stale = [r \in Runs |-> {}]
    /\ reloads = 0

-----------------------------------------------------------------------------
(* The datastore side                                                      *)

\* What a session that loaded a row now, or at an earlier time, has of it.
\* The sessions of cycles and of the CLI keep the rows they have loaded over
\* their commits, those of the API load them anew.
Loaded(now, before) == IF Lagging THEN {now} \cup before ELSE {now}

\* Mutant: the new certificate is destined for the trustpoint in use.
IdleTrustpoint_Active(label) == label

\* Device.idle_trustpoint of a device loaded with this active_trustpoint
IdleTrustpoint(label) == IF label = A THEN B ELSE A

\* The renewal cycle or an operator has a certificate issued.
Issue ==
    /\ issued < MaxIssued
    /\ issued' = issued + 1
    /\ \E label \in Loaded(active, past) :
          target' = [target EXCEPT ![issued + 1] = IdleTrustpoint(label)]
    /\ status' = [status EXCEPT ![issued + 1] = "issued"]
    /\ UNCHANGED <<gateway, active, past, runs, reloads>>

-----------------------------------------------------------------------------
(* Control flow of a run                                                   *)

Goto(r, phase) ==
    /\ pc' = [pc EXCEPT ![r] = phase]
    /\ UNCHANGED <<datastore, job, result, alive, stale, reloads>>

Finish(r, outcome, phase) ==
    /\ pc' = [pc EXCEPT ![r] = phase]
    /\ result' = [result EXCEPT ![r] = outcome]
    /\ UNCHANGED <<datastore, job, alive, stale, reloads>>

\* An exception: through the finally clause if the try block was entered,
\* then to the except clause of deploy_device, which records a failure.
Raise(r) == Finish(r, "failed", IF pc[r] \in InTry THEN "cleanup" ELSE "settle")

\* The transport cannot do the call: the session is gone, or it fails.
Breaks(r) == ~alive[r] \/ pc[r] \in Errors

\* A call of the transport whose effect on the gateway is effect.
Call(r, phase, effect, Continue) ==
    /\ pc[r] = phase
    /\ \/ alive[r] /\ effect /\ Continue
       \/ alive[r] /\ phase \in Refusals /\ UNCHANGED gateway /\ Continue
       \/ Breaks(r) /\ UNCHANGED gateway /\ Raise(r)
       \/ alive[r] /\ phase \in LateErrors /\ effect /\ Raise(r)

\* A call that only looks at the gateway.
Look(r, phase, Continue) ==
    /\ pc[r] = phase
    /\ UNCHANGED gateway
    /\ \/ alive[r] /\ Continue
       \/ Breaks(r) /\ Raise(r)

-----------------------------------------------------------------------------
(* The steps of a run                                                      *)

\* The arguments and local variables of a run that begins
Openings ==
    [cert : {issued}, rebind : IF Staging THEN BOOLEAN ELSE {TRUE},
     idle : {target[issued]}, goal : {target[issued]}, prev : {NoLabel},
     loaded : Loaded(active, past),
     known : Loaded(status[issued] = "deployed", {FALSE})]

\* deploy_device is called with the newest certificate.  Either its bundle
\* cannot be opened and the exception reaches the caller unrecorded, or the
\* audit event is committed and the idle trustpoint is taken from the
\* certificate.
Begin(r) ==
    /\ pc[r] = "ready"
    /\ issued > 0
    /\ Serialised => \A q \in Runs : pc[q] \notin InFlight
    /\ UNCHANGED <<gateway, datastore, alive, stale, reloads>>
    /\ \/ /\ \E opening \in Openings : job' = [job EXCEPT ![r] = opening]
          /\ pc' = [pc EXCEPT ![r] = "connect"]
          /\ UNCHANGED result
       \/ /\ pc' = [pc EXCEPT ![r] = "done"]
          /\ result' = [result EXCEPT ![r] = "raised"]
          /\ UNCHANGED job

\* A session opened now is not one that an earlier reload has cut.
Connect(r) ==
    /\ pc[r] = "connect"
    /\ UNCHANGED gateway
    /\ \/ /\ pc' = [pc EXCEPT ![r] = "read"]
          /\ alive' = [alive EXCEPT ![r] = TRUE]
          /\ UNCHANGED <<datastore, job, result, stale, reloads>>
       \/ "connect" \in Errors /\ Raise(r)

Other(label) == IF label = A THEN B ELSE A

\* Mutant: the stored idle label is trusted although it may be in use.
GoalFor_Stored(r) == job[r].idle

\* Where to import: the stored idle label, unless it is the one in use.
GoalFor(r) ==
    IF bound # NoLabel /\ bound = job[r].idle
    THEN Other(job[r].idle) ELSE job[r].idle

ReadState(r) ==
    /\ pc[r] = "read"
    /\ UNCHANGED gateway
    /\ \/ /\ alive[r]
          /\ job' = [job EXCEPT ![r].prev = bound, ![r].goal = GoalFor(r)]
          /\ pc' = [pc EXCEPT ![r] = "upload"]
          /\ UNCHANGED <<datastore, result, alive, stale, reloads>>
       \/ Breaks(r) /\ Raise(r)

Upload(r) == Call(r, "upload", UploadFile(job[r].cert), Goto(r, "derived"))

\* _prepare_idle_trustpoint: each of the three is looked up live and removed
\* if it is there.
PrepareDerived(r) ==
    Call(r, "derived", ClearDerived(job[r].goal), Goto(r, "trustpoint"))

PrepareTrustpoint(r) ==
    Call(r, "trustpoint", DeleteTrustpoint(job[r].goal), Goto(r, "key"))

\* Mutant: a key pair left behind is not looked for.
PrepareKey_Skipped(r) == Call(r, "key", UNCHANGED gateway, Goto(r, "import"))

PrepareKey(r) == Call(r, "key", ZeroizeKey(job[r].goal), Goto(r, "import"))

\* The import goes through, or is refused because the label is in use (which
\* the transport does not recognise as a failure), or fails: the bundle is
\* not the run's own, or the gateway prompts about a key pair left behind.
Import(r) ==
    LET c == job[r].cert
        l == job[r].goal
    IN  /\ pc[r] = "import"
        /\ alive[r]
        /\ \/ CanImport(l, c) /\ ImportPkcs12(l, c) /\ Goto(r, "revocation")
           \/ tp[l] # Absent /\ UNCHANGED gateway /\ Goto(r, "revocation")
           \/ tp[l] = Absent /\ ~CanImport(l, c) /\ UNCHANGED gateway /\ Raise(r)

\* The import raises after having done nothing, a part or all of its work.
\* A DeviceError that reads like a lost session is followed by a reconnect;
\* any other exception is not.
ImportBreaks(r) ==
    LET c == job[r].cert
        l == job[r].goal
    IN  /\ pc[r] = "import"
        /\ \/ Breaks(r) /\ UNCHANGED gateway
           \/ alive[r] /\ "import" \in Errors /\ CanImport(l, c) /\ ImportPartly(l)
           \/ alive[r] /\ "import" \in LateErrors /\ CanImport(l, c) /\ ImportPkcs12(l, c)
        /\ Raise(r) \/ Goto(r, "reconnect")

\* Mutant: the import is tried again after every reconnect.
Reconnect_Again(r) == Look(r, "reconnect", Goto(r, "import"))

\* One attempt, made at once: a gateway that is reloading is not back yet.
Reconnect(r) == Look(r, "reconnect", Goto(r, "revocation"))

SetRevocation(r) ==
    Call(r, "revocation", SetRevocationCheck(job[r].goal), Goto(r, "verify"))

\* Mutant: a trustpoint that merely exists passes for the imported one.
Verify_Exists(r) ==
    Look(r, "verify",
         \/ /\ tp[job[r].goal] # Absent
            /\ IF job[r].rebind THEN Goto(r, "bind")
                                ELSE Finish(r, "deployed", "cleanup")
         \/ tp[job[r].goal] = Absent /\ Raise(r))

\* _verify; a staged certificate is not bound.
Verify(r) ==
    Look(r, "verify",
         \/ /\ tp[job[r].goal] = job[r].cert
            /\ IF job[r].rebind THEN Goto(r, "bind")
                                ELSE Finish(r, "deployed", "cleanup")
         \/ tp[job[r].goal] # job[r].cert /\ Raise(r))

Bind(r) == Call(r, "bind", BindTrustpoint(job[r].goal), Goto(r, "confirm"))

\* Mutant: the binding is taken for granted.
Confirm_Unread(r) == Look(r, "confirm", Goto(r, "save"))

\* _verify_binding and its handler
Confirm(r) ==
    Look(r, "confirm",
         \/ bound = job[r].goal /\ Goto(r, "save")
         \/ bound # job[r].goal /\ job[r].prev # NoLabel /\ Goto(r, "rollback")
         \/ bound # job[r].goal /\ job[r].prev = NoLabel /\ Raise(r))

\* Mutant: the rollback binds the new label again.
Rollback_Forward(r) ==
    Call(r, "rollback", BindTrustpoint(job[r].goal),
         Finish(r, "rolled_back", "cleanup"))

Rollback(r) ==
    Call(r, "rollback", BindTrustpoint(job[r].prev),
         Finish(r, "rolled_back", "cleanup"))

Save(r) == Call(r, "save", SaveConfig, Finish(r, "deployed", "cleanup"))

\* Mutant: the bundle is removed only after a run that succeeded.
Cleanup_OnSuccess(r) ==
    /\ pc[r] = "cleanup"
    /\ IF result[r] = "deployed" THEN DeleteFile ELSE UNCHANGED gateway
    /\ Goto(r, "settle")

\* The finally clause.  It swallows a DeviceError; any other exception takes
\* the place of the result that was about to be returned.
Cleanup(r) ==
    /\ pc[r] = "cleanup"
    /\ \/ alive[r] /\ DeleteFile /\ Goto(r, "settle")
       \/ alive[r] /\ "cleanup" \in Refusals /\ UNCHANGED gateway /\ Goto(r, "settle")
       \/ Breaks(r) /\ UNCHANGED gateway /\ Goto(r, "settle")
       \/ Breaks(r) /\ UNCHANGED gateway /\ RawErrors /\ Raise(r)

\* result.active_trustpoint
ActiveResult(r) == IF job[r].rebind THEN job[r].goal ELSE job[r].prev

\* Mutant: the label alone decides, a run that rolled back included.
Recordable_AnyStatus(r) ==
    result[r] \in {"deployed", "rolled_back", "failed"} /\ job[r].goal = job[r].idle

\* The test that decides whether the datastore follows the gateway.
Recordable(r) == result[r] = "deployed" /\ ActiveResult(r) = job[r].idle

\* Only a run log entry is written, or the certificates to supersede are
\* read first.
Settle(r) ==
    /\ pc[r] = "settle"
    /\ pc' = [pc EXCEPT ![r] = IF Recordable(r) THEN "commit" ELSE "done"]
    /\ stale' = [stale EXCEPT ![r] =
            IF Recordable(r)
            THEN {c \in Certs : status[c] = "deployed" /\ c # job[r].cert} ELSE {}]
    /\ UNCHANGED <<gateway, datastore, job, result, alive, reloads>>

\* The value of a column after the session has assigned it and committed: one
\* that is assigned what the session loaded is left out of the UPDATE.
Written(new, loaded, row) == IF new = loaded THEN row ELSE new

\* The active trustpoint is recorded.
RecordActive(r) ==
    /\ active' = Written(job[r].idle, job[r].loaded, active)
    /\ past' = past \cup {active'}

\* Mutant: the certificate deployed before is not superseded.
Commit_NoSupersede(r) ==
    /\ pc[r] = "commit"
    /\ pc' = [pc EXCEPT ![r] = "done"]
    /\ status' = [status EXCEPT ![job[r].cert] =
                     IF job[r].known THEN @ ELSE "deployed"]
    /\ RecordActive(r)
    /\ stale' = [stale EXCEPT ![r] = {}]
    /\ UNCHANGED <<gateway, issued, target, job, result, alive, reloads>>

\* The transaction that records the cutover
Commit(r) ==
    /\ pc[r] = "commit"
    /\ pc' = [pc EXCEPT ![r] = "done"]
    /\ status' = [c \in Certs |->
                     IF c = job[r].cert THEN IF job[r].known THEN status[c] ELSE "deployed"
                     ELSE IF c \in stale[r] THEN "superseded" ELSE status[c]]
    /\ RecordActive(r)
    /\ stale' = [stale EXCEPT ![r] = {}]
    /\ UNCHANGED <<gateway, issued, target, job, result, alive, reloads>>

-----------------------------------------------------------------------------
(* The environment                                                         *)

\* The process that makes the run is killed.
Kill(r) ==
    /\ Crashes
    /\ pc[r] \in InFlight
    /\ pc' = [pc EXCEPT ![r] = "killed"]
    /\ UNCHANGED <<gateway, datastore, job, result, alive, stale, reloads>>

\* The gateway reloads: unsaved configuration is lost and so is every session.
Reload ==
    /\ reloads < MaxReloads
    /\ reloads' = reloads + 1
    /\ ReloadConfig
    /\ alive' = [r \in Runs |-> FALSE]
    /\ UNCHANGED <<datastore, pc, job, result, stale>>

-----------------------------------------------------------------------------

Step(r) ==
    \/ Connect(r) \/ ReadState(r) \/ Upload(r)
    \/ PrepareDerived(r) \/ PrepareTrustpoint(r) \/ PrepareKey(r)
    \/ Import(r) \/ ImportBreaks(r) \/ Reconnect(r) \/ SetRevocation(r)
    \/ Verify(r) \/ Bind(r) \/ Confirm(r) \/ Rollback(r) \/ Save(r)
    \/ Cleanup(r) \/ Settle(r) \/ Commit(r)

Next ==
    \/ Issue
    \/ Reload
    \/ \E r \in Runs : Begin(r) \/ Step(r) \/ Kill(r)

Spec == Init /\ [][Next]_vars

\* Every call of the transport ends, by a reply or by its timeout, so a run
\* that is not killed keeps going.  Nobody promises that one is started, that
\* it is killed or that the gateway reloads.
FairSpec == Spec /\ \A r \in Runs : WF_vars(Step(r))

-----------------------------------------------------------------------------
(* Properties                                                              *)

(***************************************************************************)
(* What sip-ua is bound to always holds a certificate: no sequence of      *)
(* runs, failures, kills and reloads leaves the gateway bound to a         *)
(* trustpoint that is missing or empty (the outage of the EEM applet that  *)
(* the docstring of app/deployment.py describes).                          *)
(***************************************************************************)
ServingSound == bound # NoLabel => tp[bound] \in Certs

(***************************************************************************)
(* No run deletes, zeroizes or imports into the trustpoint that sip-ua is  *)
(* bound to at that moment, nor its CA chain (app/devices/ssh.py:279:      *)
(* "Only ever called on the *idle* trustpoint").                           *)
(***************************************************************************)
BoundUntouched ==
    [][reloads' = reloads =>
           \A l \in Labels : bound = l =>
               /\ tp'[l] = tp[l]
               /\ l \in key' <=> l \in key
               /\ l \in derived' <=> l \in derived]_vars

(***************************************************************************)
(* Seen from a SIP peer the runs implement an atomic switch to an issued   *)
(* certificate.                                                            *)
(***************************************************************************)
Peer == INSTANCE Cutover WITH
            Offerable <- Certs, Nothing <- Empty, offered <- issued,
            serving <- Serving, startup <- Presented(saved)
CutoverImplemented == Peer!Spec

\* A run that is about to report what the gateway now does
Reporting(r) == pc[r] \in {"cleanup", "settle", "commit"}

(***************************************************************************)
(* A run that reports "deployed" with rebind left its own certificate      *)
(* bound, and a reload would not lose it (_verify, _verify_binding and     *)
(* save_config together).                                                  *)
(***************************************************************************)
DeployedIsDurable ==
    \A r \in Runs : Reporting(r) /\ result[r] = "deployed" /\ job[r].rebind =>
        /\ Serving = job[r].cert
        /\ Presented(saved) = job[r].cert

(***************************************************************************)
(* A run that reports "rolled_back" left the gateway on the trustpoint it  *)
(* found bound, or the gateway refused that too (deployment.py:168-180).   *)
(***************************************************************************)
RolledBackRestores ==
    \A r \in Runs : Reporting(r) /\ result[r] = "rolled_back" /\ alive[r] =>
        bound = job[r].prev

(***************************************************************************)
(* A certificate is recorded as deployed only while the gateway serves it, *)
(* and the label it serves it under is recorded with it (deployment.py:    *)
(* 335-341), unless the run's session loaded the device when that label    *)
(* was on record, and it has been replaced there since.                    *)
(***************************************************************************)
Outdated(r) == job[r].loaded = job[r].idle /\ active # job[r].loaded
LedgerTruthful ==
    [][\A c \in Certs : status'[c] = "deployed" /\ status[c] # "deployed" =>
           /\ Serving = c
           /\ \/ bound = active'
              \/ \E r \in Runs : pc[r] = "commit" /\ job[r].cert = c /\ Outdated(r)]_vars

(***************************************************************************)
(* At most one certificate of the device is recorded as deployed           *)
(* (_mark_superseded, deployment.py:352-363).                              *)
(***************************************************************************)
OneDeployed ==
    \A c, d \in Certs : status[c] = "deployed" /\ status[d] = "deployed" => c = d

(***************************************************************************)
(* No bundle is on flash when no run is in flight (README.md:135: "The     *)
(* .p12 is removed from flash whether the run succeeded or failed").       *)
(***************************************************************************)
BundleGone ==
    (\A r \in Runs : pc[r] \notin InFlight) => flash = NoFile

(***************************************************************************)
(* When the last thing done is a run that reported "deployed" with rebind, *)
(* the active trustpoint on record is the one bound (app/cli.py:749:       *)
(* "Trustpoint currently bound in 'sip-ua crypto signaling'").             *)
(***************************************************************************)
LedgerFollowsCutover ==
    (\A r \in Runs : /\ pc[r] \in {"ready", "done"}
                     /\ pc[r] = "done" => result[r] = "deployed" /\ job[r].rebind)
    /\ (\E r \in Runs : pc[r] = "done")
        => active = bound

(***************************************************************************)
(* With a gateway that does what it is told, every run that gets its       *)
(* bundle deploys: whatever earlier runs left on the gateway has been      *)
(* cleared before the import.                                              *)
(***************************************************************************)
FaultFreeDeploys ==
    \A r \in Runs : pc[r] = "connect" ~> pc[r] = "done" /\ result[r] = "deployed"

\* Every run ends: it reports, or its process is killed.
RunsEnd == \A r \in Runs : pc[r] \in InFlight ~> pc[r] \in {"done", "killed"}

=============================================================================
