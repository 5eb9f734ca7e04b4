--------------------------- MODULE RecoveryProofs ---------------------------
(***************************************************************************)
(* What a single run of Deployment is good for when its own calls work,    *)
(* whatever became of the runs before it, and that no run goes on for      *)
(* ever: what the liveness properties of Deployment rest on.               *)
(***************************************************************************)
EXTENDS DeploymentProofs

USE LabelsAssumption, NullAssumption, MaxIssuedAssumption, LeftoversAssumption,
    FaultsAssumption, FlagsAssumption

-----------------------------------------------------------------------------
(* A run whose calls work                                                  *)

\* The same gateway and the same runs, but every call is carried out.
Works == INSTANCE Deployment WITH Errors <- {}, LateErrors <- {}, Refusals <- {}

\* What happens now is not a failure of run r: its calls are carried out and
\* answered, its process lives, and the gateway does not reload under it.
Smooth(r) ==
    /\ Step(r) => Works!Step(r)
    /\ ~Kill(r)
    /\ pc[r] \in InFlight => ~Reload

\* What run r knows after each of its calls
CleanInv(r) ==
    /\ pc[r] \in InFlight \ {"connect"} => alive[r]
    /\ pc[r] \notin {"reconnect", "rollback", "killed"}
    /\ pc[r] \in {"derived", "trustpoint", "key", "import"} => flash = job[r].cert
    /\ pc[r] \in {"key", "import"} => tp[job[r].goal] = Absent
    /\ pc[r] = "import" => job[r].goal \notin key
    /\ pc[r] \in {"revocation", "verify", "bind", "confirm", "save"}
          => tp[job[r].goal] = job[r].cert
    /\ pc[r] \in {"confirm", "save"} => bound = job[r].goal
    /\ pc[r] \in {"cleanup", "settle", "commit"} => result[r] = "deployed"
    /\ pc[r] = "done" => result[r] \in {"deployed", "raised"}

\* Each of its phases has one call that works.
LEMMA OneCall ==
    ASSUME NEW r \in Runs, Works!Step(r)
    PROVE  /\ pc[r] = "connect" => Works!Connect(r)
           /\ pc[r] = "read" => Works!ReadState(r)
           /\ pc[r] = "upload" => Works!Upload(r)
           /\ pc[r] = "derived" => Works!PrepareDerived(r)
           /\ pc[r] = "trustpoint" => Works!PrepareTrustpoint(r)
           /\ pc[r] = "key" => Works!PrepareKey(r)
           /\ pc[r] = "import" => Works!Import(r) \/ Works!ImportBreaks(r)
           /\ pc[r] = "revocation" => Works!SetRevocation(r)
           /\ pc[r] = "verify" => Works!Verify(r)
           /\ pc[r] = "bind" => Works!Bind(r)
           /\ pc[r] = "confirm" => Works!Confirm(r)
           /\ pc[r] = "save" => Works!Save(r)
           /\ pc[r] = "cleanup" => Works!Cleanup(r)
           /\ pc[r] = "settle" => Works!Settle(r)
           /\ pc[r] = "commit" => Works!Commit(r)
           /\ pc[r] \in InFlight
BY DEF Works!Step, Works!Connect, Works!ReadState, Works!Upload, Works!PrepareDerived,
       Works!PrepareTrustpoint, Works!PrepareKey, Works!Import, Works!ImportBreaks,
       Works!Reconnect, Works!SetRevocation, Works!Verify, Works!Bind, Works!Confirm,
       Works!Rollback, Works!Save, Works!Cleanup, Works!Settle, Works!Commit,
       Works!Call, Works!Look, InFlight, Calls

\* The calls up to the import
LEMMA PreparingStep ==
    ASSUME TypeOK, NEW r \in Runs, CleanInv(r), Works!Step(r),
           pc[r] \in {"connect", "read", "upload", "derived", "trustpoint", "key"}
    PROVE  CleanInv(r)'
<1>1. pc[r] # "connect" => alive[r]
  BY DEF CleanInv, InFlight, Calls
<1>2. ASSUME NEW phase, Works!Goto(r, phase)
      PROVE  pc'[r] = phase /\ UNCHANGED <<job, alive>>
  BY <1>2 DEF Works!Goto, TypeOK
<1>3. CASE pc[r] = "connect"
  <2>1. Works!Connect(r)
    BY <1>3, OneCall
  <2> QED
    BY <2>1 DEF Works!Connect, CleanInv, TypeOK, InFlight, Calls
<1>4. CASE pc[r] = "read"
  <2>1. pc'[r] = "upload" /\ alive'[r]
    BY <1>1, <1>4, OneCall DEF Works!ReadState, Works!Breaks, TypeOK
  <2> QED
    BY <2>1 DEF CleanInv
<1>5. CASE pc[r] = "upload"
  <2>1. flash' = job[r].cert /\ Works!Goto(r, "derived")
    BY <1>1, <1>5, OneCall DEF Works!Upload, Works!Call, Works!Breaks, Works!UploadFile
  <2> QED
    BY <1>1, <1>2, <1>5, <2>1 DEF CleanInv
<1>6. CASE pc[r] = "derived"
  <2>1. UNCHANGED flash /\ Works!Goto(r, "trustpoint")
    BY <1>1, <1>6, OneCall DEF Works!PrepareDerived, Works!Call, Works!Breaks, Works!ClearDerived
  <2> QED
    BY <1>1, <1>2, <1>6, <2>1 DEF CleanInv
<1>7. CASE pc[r] = "trustpoint"
  <2>1. /\ UNCHANGED flash /\ tp' = [tp EXCEPT ![job[r].goal] = Absent]
        /\ Works!Goto(r, "key")
    BY <1>1, <1>7, OneCall
       DEF Works!PrepareTrustpoint, Works!Call, Works!Breaks, Works!DeleteTrustpoint
  <2>2. tp'[job[r].goal] = Absent
    BY <2>1 DEF TypeOK, GatewayTypeOK, Jobs
  <2> QED
    BY <1>1, <1>2, <1>7, <2>1, <2>2 DEF CleanInv
<1>8. CASE pc[r] = "key"
  <2>1. /\ UNCHANGED <<flash, tp>> /\ key' = key \ {job[r].goal}
        /\ Works!Goto(r, "import")
    BY <1>1, <1>8, OneCall DEF Works!PrepareKey, Works!Call, Works!Breaks, Works!ZeroizeKey
  <2> QED
    BY <1>1, <1>2, <1>8, <2>1 DEF CleanInv
<1> QED
  BY <1>3, <1>4, <1>5, <1>6, <1>7, <1>8

\* From the import to the save
LEMMA CutoverStep ==
    ASSUME TypeOK, NEW r \in Runs, CleanInv(r), Works!Step(r),
           pc[r] \in {"import", "revocation", "verify", "bind", "confirm", "save"}
    PROVE  CleanInv(r)'
<1>1. alive[r] /\ job[r].goal \in Labels /\ job[r].cert \in Certs
  BY DEF CleanInv, InFlight, Calls, TypeOK, Jobs
<1>2. ASSUME NEW phase, Works!Goto(r, phase)
      PROVE  pc'[r] = phase /\ UNCHANGED <<job, alive>>
  BY <1>2 DEF Works!Goto, TypeOK
<1>3. ASSUME Works!Finish(r, "deployed", "cleanup")
      PROVE  CleanInv(r)'
  <2>1. pc'[r] = "cleanup" /\ result'[r] = "deployed" /\ UNCHANGED alive
    BY <1>3 DEF Works!Finish, TypeOK
  <2> QED
    BY <1>1, <2>1 DEF CleanInv
<1>4. CASE pc[r] = "import"
  <2>1. Works!CanImport(job[r].goal, job[r].cert) /\ tp[job[r].goal] = Absent
    BY <1>4 DEF CleanInv, Works!CanImport
  <2>2. ~Works!ImportBreaks(r)
    BY <1>1 DEF Works!ImportBreaks, Works!Breaks
  <2>3. Works!ImportPkcs12(job[r].goal, job[r].cert) /\ Works!Goto(r, "revocation")
    BY <1>4, <2>1, <2>2, OneCall DEF Works!Import
  <2>4. tp'[job[r].goal] = job[r].cert
    BY <1>1, <2>3 DEF Works!ImportPkcs12, TypeOK, GatewayTypeOK
  <2> QED
    BY <1>1, <1>2, <2>3, <2>4 DEF CleanInv
<1>5. CASE pc[r] = "revocation"
  <2>1. Works!SetRevocationCheck(job[r].goal) /\ Works!Goto(r, "verify")
    BY <1>1, <1>5, OneCall DEF Works!SetRevocation, Works!Call, Works!Breaks
  <2>2. tp'[job[r].goal] = job[r].cert
    BY <1>1, <1>5, <2>1 DEF CleanInv, Works!SetRevocationCheck, TypeOK, GatewayTypeOK
  <2> QED
    BY <1>1, <1>2, <2>1, <2>2 DEF CleanInv
<1>6. CASE pc[r] = "verify"
  <2>1. /\ UNCHANGED gateway
        /\ Works!Goto(r, "bind") \/ Works!Finish(r, "deployed", "cleanup")
    BY <1>1, <1>6, OneCall DEF Works!Verify, Works!Look, Works!Breaks, CleanInv, Works!gateway,
           Works!running, gateway, running
  <2>2. Works!Goto(r, "bind") => CleanInv(r)'
    BY <1>1, <1>2, <1>6, <2>1 DEF CleanInv, gateway, running
  <2> QED
    BY <1>3, <2>1, <2>2
<1>7. CASE pc[r] = "bind"
  <2>1. bound' = job[r].goal /\ UNCHANGED tp /\ Works!Goto(r, "confirm")
    BY <1>1, <1>7, OneCall DEF Works!Bind, Works!Call, Works!Breaks, Works!BindTrustpoint
  <2> QED
    BY <1>1, <1>2, <1>7, <2>1 DEF CleanInv
<1>8. CASE pc[r] = "confirm"
  <2>1. UNCHANGED gateway /\ Works!Goto(r, "save")
    BY <1>1, <1>8, OneCall DEF Works!Confirm, Works!Look, Works!Breaks, CleanInv, Works!gateway,
           Works!running, gateway, running
  <2> QED
    BY <1>1, <1>2, <1>8, <2>1 DEF CleanInv, gateway, running
<1>9. CASE pc[r] = "save"
  BY <1>1, <1>3, <1>9, OneCall DEF Works!Save, Works!Call, Works!Breaks
<1> QED
  BY <1>4, <1>5, <1>6, <1>7, <1>8, <1>9

\* The clean-up and the record
LEMMA ClosingStep ==
    ASSUME TypeOK, NEW r \in Runs, CleanInv(r), Works!Step(r),
           pc[r] \in {"cleanup", "settle", "commit"}
    PROVE  CleanInv(r)'
<1>1. alive[r] /\ result[r] = "deployed"
  BY DEF CleanInv, InFlight, Calls
<1>2. CASE pc[r] = "cleanup"
  <2>1. Works!Goto(r, "settle")
    BY <1>1, <1>2, OneCall DEF Works!Cleanup, Works!Breaks
  <2> QED
    BY <1>1, <2>1 DEF Works!Goto, CleanInv, TypeOK
<1>3. CASE pc[r] = "settle"
  <2>1. pc'[r] \in {"commit", "done"} /\ UNCHANGED <<result, alive>>
    BY <1>3, OneCall DEF Works!Settle, TypeOK
  <2> QED
    BY <1>1, <2>1 DEF CleanInv
<1>4. CASE pc[r] = "commit"
  <2>1. pc'[r] = "done" /\ UNCHANGED <<result, alive>>
    BY <1>4, OneCall DEF Works!Commit, TypeOK
  <2> QED
    BY <1>1, <2>1 DEF CleanInv, InFlight, Calls
<1> QED
  BY <1>2, <1>3, <1>4

\* A run moves nobody else.
LEMMA OthersStay ==
    ASSUME TypeOK, NEW q \in Runs, Begin(q) \/ Step(q) \/ Kill(q), NEW r \in Runs, r # q
    PROVE  /\ pc'[r] = pc[r] /\ result'[r] = result[r] /\ alive'[r] = alive[r]
           /\ job'[r] = job[r]
BY DEF TypeOK, Begin, Step, Kill, Connect, ReadState, Upload, PrepareDerived,
       PrepareTrustpoint, PrepareKey, Import, ImportBreaks, Reconnect,
       SetRevocation, Verify, Bind, Confirm, Rollback, Save, Cleanup, Settle,
       Commit, Call, Look, Goto, Finish, Raise

LEMMA MovesInFlight ==
    ASSUME NEW r \in Runs, Step(r) \/ Kill(r)
    PROVE  pc[r] \in InFlight
BY DEF Step, Kill, Connect, ReadState, Upload, PrepareDerived, PrepareTrustpoint,
       PrepareKey, Import, ImportBreaks, Reconnect, SetRevocation, Verify, Bind,
       Confirm, Rollback, Save, Cleanup, Settle, Commit, Call, Look, InFlight, Calls

\* While one run steps no other is in flight.
LEMMA OneAtATime ==
    ASSUME Serialised
    PROVE  TypeOK /\ OneInFlight /\ [Next]_vars => OneInFlight'
<1> SUFFICES ASSUME TypeOK, OneInFlight, [Next]_vars PROVE OneInFlight'
  OBVIOUS
<1>1. CASE Issue \/ Reload \/ UNCHANGED vars
  BY <1>1 DEF Issue, Reload, vars, runs, OneInFlight
<1>2. ASSUME NEW q \in Runs, Begin(q) \/ Step(q) \/ Kill(q) PROVE OneInFlight'
  <2>1. \A r \in Runs \ {q} : pc[r] \notin InFlight
    BY <1>2, MovesInFlight DEF Begin, OneInFlight
  <2>2. \A r \in Runs \ {q} : pc'[r] \notin InFlight
    BY <1>2, <2>1, OthersStay
  <2> QED
    BY <2>2 DEF OneInFlight
<1> QED
  BY <1>1, <1>2 DEF Next

LEMMA CleanStep ==
    ASSUME Serialised, TypeOK, OneInFlight, NEW r \in Runs, CleanInv(r),
           [Next]_vars, [Smooth(r)]_vars
    PROVE  CleanInv(r)'
<1>1. CASE UNCHANGED vars
  BY <1>1 DEF vars, gateway, running, runs, CleanInv
<1>2. CASE Issue
  BY <1>2 DEF Issue, gateway, running, runs, CleanInv
<1>3. CASE Reload
  <2>1. vars' # vars
    BY <1>3 DEF Reload, TypeOK, vars
  <2>2. pc[r] \notin InFlight /\ UNCHANGED <<pc, job, result>>
    BY <1>3, <2>1 DEF Smooth, Reload
  <2> QED
    BY <2>2 DEF CleanInv, InFlight, Calls
<1>4. ASSUME NEW q \in Runs, q # r, Begin(q) \/ Step(q) \/ Kill(q)
      PROVE  CleanInv(r)'
  <2>1. pc[r] \notin InFlight
    BY <1>4, MovesInFlight DEF Begin, OneInFlight
  <2>2. pc'[r] = pc[r] /\ result'[r] = result[r]
    BY <1>4, OthersStay
  <2> QED
    BY <2>1, <2>2 DEF CleanInv, InFlight, Calls
<1>5. CASE Begin(r)
  <2>1. \/ pc'[r] = "connect"
        \/ pc'[r] = "done" /\ result'[r] = "raised"
    BY <1>5 DEF Begin, TypeOK
  <2> QED
    BY <2>1 DEF CleanInv, InFlight, Calls
<1>6. CASE Step(r) /\ vars' # vars
  <2>1. Works!Step(r)
    BY <1>6 DEF Smooth
  <2>2. pc[r] \in InFlight \ {"reconnect", "rollback"}
    BY <2>1, OneCall DEF CleanInv
  <2> QED
    BY <2>1, <2>2, PreparingStep, CutoverStep, ClosingStep DEF InFlight, Calls
<1>7. CASE Kill(r) /\ vars' # vars
  BY <1>7 DEF Smooth
<1> QED
  BY <1>1, <1>2, <1>3, <1>4, <1>5, <1>6, <1>7 DEF Next

(***************************************************************************)
(* A run whose own calls work deploys, whatever the runs before it failed  *)
(* at, left on the gateway or died of: _prepare_idle_trustpoint clears     *)
(* what is in the way (app/deployment.py:202-233), the goal is chosen from *)
(* what is bound now, and nothing a failed run left on record misleads the *)
(* next one.  (The bundle that cannot be opened is the one way not to get  *)
(* that far.)                                                              *)
(***************************************************************************)
THEOREM SmoothRunDeploys ==
    ASSUME Serialised, NEW r \in Runs
    PROVE  Spec /\ [][Smooth(r)]_vars
              => [](pc[r] = "done" => result[r] \in {"deployed", "raised"})
<1> DEFINE Deploys == pc[r] = "done" => result[r] \in {"deployed", "raised"}
<1>1. Init => OneInFlight /\ CleanInv(r)
  BY DEF Init, OneInFlight, CleanInv, InFlight, Calls
<1>2. TypeOK /\ OneInFlight /\ [Next]_vars => OneInFlight'
  BY OneAtATime
<1>3. TypeOK /\ OneInFlight /\ CleanInv(r) /\ [Next]_vars /\ [Smooth(r)]_vars => CleanInv(r)'
  BY CleanStep
<1>4. CleanInv(r) => Deploys
  BY DEF CleanInv
<1> HIDE DEF Deploys
<1>5. Spec /\ [][Smooth(r)]_vars => []Deploys
  BY <1>1, <1>2, <1>3, <1>4, TypeCorrect, PTL DEF Spec
<1> QED
  BY <1>5 DEF Deploys

\* Nothing can go wrong for anyone.
FaultFree ==
    /\ Errors = {} /\ LateErrors = {} /\ Refusals = {}
    /\ ~Crashes /\ MaxReloads = 0

\* Then the steps of a run are those whose calls work.
LEMMA SameSteps ==
    ASSUME FaultFree, NEW r \in Runs, Step(r)
    PROVE  Works!Step(r)
<1> USE DEF gateway, Works!gateway, running, Works!running
<1>1. /\ Works!Raise(r) <=> Raise(r)
      /\ Works!Breaks(r) <=> Breaks(r)
      /\ \A phase : Works!Goto(r, phase) <=> Goto(r, phase)
      /\ \A outcome, phase : Works!Finish(r, outcome, phase) <=> Finish(r, outcome, phase)
  BY DEF FaultFree, Works!Raise, Raise, Works!Finish, Finish, Works!Breaks, Breaks,
         Works!Goto, Goto, Works!InTry, InTry, Works!Calls, Calls, Works!datastore, datastore
<1>2. CASE Connect(r) \/ ReadState(r) \/ Settle(r) \/ Commit(r)
  <2>1. Connect(r) => Works!Connect(r)
    BY <1>1 DEF FaultFree, Connect, Works!Connect, Works!datastore, datastore
  <2>2. ReadState(r) => Works!ReadState(r)
    BY <1>1 DEF ReadState, Works!ReadState, Works!datastore, datastore, Works!GoalFor, GoalFor,
                Works!Other, Other
  <2>3. Settle(r) => Works!Settle(r)
    BY <1>1 DEF Settle, Works!Settle, Works!datastore, datastore, Works!Recordable, Recordable,
                Works!ActiveResult, ActiveResult, Works!Certs, Certs
  <2>4. Commit(r) => Works!Commit(r)
    BY <1>1 DEF Commit, Works!Commit, Works!Certs, Certs, RecordActive, Works!RecordActive,
       Written, Works!Written
  <2> QED
    BY <1>2, <2>1, <2>2, <2>3, <2>4 DEF Works!Step
<1>3. CASE Import(r) \/ ImportBreaks(r)
  <2>1. Import(r) => Works!Import(r)
    BY <1>1 DEF Import, Works!Import, CanImport, Works!CanImport, ImportPkcs12, Works!ImportPkcs12
  <2>2. ImportBreaks(r) => Works!ImportBreaks(r)
    BY <1>1 DEF FaultFree, ImportBreaks, Works!ImportBreaks
  <2> QED
    BY <1>3, <2>1, <2>2 DEF Works!Step
<1>4. CASE Reconnect(r) \/ Verify(r) \/ Confirm(r)
  BY <1>1, <1>4 DEF FaultFree, Reconnect, Works!Reconnect, Verify, Works!Verify, Confirm,
     Works!Confirm, Look, Works!Look, Works!Step
<1>5. CASE Upload(r) \/ PrepareDerived(r) \/ PrepareTrustpoint(r) \/ PrepareKey(r)
  BY <1>1, <1>5 DEF FaultFree, Upload, Works!Upload, PrepareDerived, Works!PrepareDerived,
     PrepareTrustpoint, Works!PrepareTrustpoint, PrepareKey, Works!PrepareKey, Call, Works!Call,
     UploadFile, Works!UploadFile, ClearDerived, Works!ClearDerived, DeleteTrustpoint,
     Works!DeleteTrustpoint, ZeroizeKey, Works!ZeroizeKey, Works!Step
<1>6. CASE SetRevocation(r) \/ Bind(r) \/ Rollback(r) \/ Save(r) \/ Cleanup(r)
  BY <1>1, <1>6 DEF FaultFree, SetRevocation, Works!SetRevocation, Bind, Works!Bind, Rollback,
     Works!Rollback, Save, Works!Save, Cleanup, Works!Cleanup, Call, Works!Call,
     SetRevocationCheck, Works!SetRevocationCheck, BindTrustpoint, Works!BindTrustpoint,
     SaveConfig, Works!SaveConfig, RunningConfig, Works!RunningConfig, DeleteFile,
     Works!DeleteFile, Works!Step
<1> QED
  BY <1>2, <1>3, <1>4, <1>5, <1>6 DEF Step

(***************************************************************************)
(* The safety half of FaultFreeDeploys: without faults no run that gets    *)
(* its bundle reports anything but "deployed", whatever an earlier attempt *)
(* left on the labels (app/deployment.py:202-216), for any number of runs, *)
(* labels and certificates.                                                *)
(***************************************************************************)
THEOREM FaultFreeSucceeds ==
    ASSUME Serialised, FaultFree, NEW r \in Runs
    PROVE  Spec => [](pc[r] = "done" => result[r] \in {"deployed", "raised"})
<1> DEFINE Deploys == pc[r] = "done" => result[r] \in {"deployed", "raised"}
<1>1. Step(r) => Works!Step(r)
  BY SameSteps
<1>2. TypeOK => ~Kill(r) /\ ~Reload
  BY DEF Kill, Reload, TypeOK, FaultFree
<1>3. TypeOK /\ [Next]_vars => [Smooth(r)]_vars
  BY <1>1, <1>2 DEF Smooth
<1>4. Spec => [][Smooth(r)]_vars
  BY <1>3, TypeCorrect, PTL DEF Spec
<1> HIDE DEF Deploys
<1>5. Spec /\ [][Smooth(r)]_vars => []Deploys
  BY SmoothRunDeploys DEF Deploys
<1> QED
  BY <1>4, <1>5, PTL DEF Deploys

-----------------------------------------------------------------------------
(* Every run is short                                                      *)

\* The steps a run has ahead of it at most; a run that rolls back and one
\* that saves are as long.
Ahead(phase) ==
    CASE phase = "ready" -> 17
      [] phase = "connect" -> 16
      [] phase = "read" -> 15
      [] phase = "upload" -> 14
      [] phase = "derived" -> 13
      [] phase = "trustpoint" -> 12
      [] phase = "key" -> 11
      [] phase = "import" -> 10
      [] phase = "reconnect" -> 9
      [] phase = "revocation" -> 8
      [] phase = "verify" -> 7
      [] phase = "bind" -> 6
      [] phase = "confirm" -> 5
      [] phase \in {"rollback", "save"} -> 4
      [] phase = "cleanup" -> 3
      [] phase = "settle" -> 2
      [] phase = "commit" -> 1
      [] phase \in {"done", "killed"} -> 0

LEMMA RaiseShortens ==
    ASSUME TypeOK, NEW r \in Runs, pc[r] \in Calls, Raise(r)
    PROVE  Ahead(pc'[r]) < Ahead(pc[r])
<1>1. pc'[r] = IF pc[r] \in InTry THEN "cleanup" ELSE "settle"
  BY DEF Raise, Finish, TypeOK
<1> QED
  BY <1>1 DEF InTry, Calls, Ahead

LEMMA StepShortens ==
    ASSUME TypeOK, NEW r \in Runs, Step(r)
    PROVE  Ahead(pc'[r]) < Ahead(pc[r])
<1>1. ASSUME NEW phase, Goto(r, phase) \/ \E outcome : Finish(r, outcome, phase)
      PROVE  pc'[r] = phase
  BY <1>1 DEF Goto, Finish, TypeOK
<1>2. CASE Raise(r) /\ pc[r] \in Calls
  BY <1>2, RaiseShortens
<1>3. CASE ~Raise(r)
  <2>1. CASE Connect(r) \/ ReadState(r) \/ Settle(r) \/ Commit(r)
    <3>1. \/ pc[r] = "connect" /\ pc'[r] = "read"
          \/ pc[r] = "read" /\ pc'[r] = "upload"
          \/ pc[r] = "settle" /\ pc'[r] \in {"commit", "done"}
          \/ pc[r] = "commit" /\ pc'[r] = "done"
      BY <1>3, <2>1 DEF Connect, ReadState, Settle, Commit, TypeOK
    <3> QED
      BY <3>1 DEF Ahead
  <2>2. CASE Upload(r) \/ PrepareDerived(r) \/ PrepareTrustpoint(r) \/ PrepareKey(r)
    <3>1. \/ pc[r] = "upload" /\ pc'[r] = "derived"
          \/ pc[r] = "derived" /\ pc'[r] = "trustpoint"
          \/ pc[r] = "trustpoint" /\ pc'[r] = "key"
          \/ pc[r] = "key" /\ pc'[r] = "import"
      BY <1>1, <1>3, <2>2 DEF Upload, PrepareDerived, PrepareTrustpoint, PrepareKey, Call
    <3> QED
      BY <3>1 DEF Ahead
  <2>3. CASE Import(r) \/ ImportBreaks(r) \/ Reconnect(r) \/ SetRevocation(r)
    <3>1. \/ pc[r] = "import" /\ pc'[r] \in {"reconnect", "revocation"}
          \/ pc[r] = "reconnect" /\ pc'[r] = "revocation"
          \/ pc[r] = "revocation" /\ pc'[r] = "verify"
      BY <1>1, <1>3, <2>3 DEF Import, ImportBreaks, Reconnect, SetRevocation, Call, Look
    <3> QED
      BY <3>1 DEF Ahead
  <2>4. CASE Verify(r) \/ Bind(r) \/ Confirm(r)
    <3>1. \/ pc[r] = "verify" /\ pc'[r] \in {"bind", "cleanup"}
          \/ pc[r] = "bind" /\ pc'[r] = "confirm"
          \/ pc[r] = "confirm" /\ pc'[r] \in {"rollback", "save"}
      BY <1>1, <1>3, <2>4 DEF Verify, Bind, Confirm, Call, Look
    <3> QED
      BY <3>1 DEF Ahead
  <2>5. CASE Rollback(r) \/ Save(r) \/ Cleanup(r)
    <3>1. \/ pc[r] \in {"rollback", "save"} /\ pc'[r] = "cleanup"
          \/ pc[r] = "cleanup" /\ pc'[r] = "settle"
      BY <1>1, <1>3, <2>5 DEF Rollback, Save, Cleanup, Call
    <3> QED
      BY <3>1 DEF Ahead
  <2> QED
    BY <2>1, <2>2, <2>3, <2>4, <2>5 DEF Step
<1>4. Raise(r) => pc[r] \in Calls
  <2>1. Settle(r) \/ Commit(r) => ~Raise(r)
    BY DEF Settle, Commit, Raise, Finish, TypeOK, datastore, InTry, Calls
  <2>2. pc[r] \in {"settle", "commit"} => Settle(r) \/ Commit(r)
    BY DEF Step, Connect, ReadState, Upload, PrepareDerived, PrepareTrustpoint,
       PrepareKey, Import, ImportBreaks, Reconnect, SetRevocation, Verify, Bind,
       Confirm, Rollback, Save, Cleanup, Call, Look
  <2> QED
    BY <2>1, <2>2, MovesInFlight DEF InFlight
<1> QED
  BY <1>2, <1>3, <1>4

(***************************************************************************)
(* Once begun, a run takes 16 steps at most, and nothing prolongs it: not  *)
(* another run, not what fails, not a gateway that reloads.  No call of a  *)
(* run is made twice, the import around the one reconnect included         *)
(* (app/deployment.py:126-138).  RunsEnd rests on this and on fairness.    *)
(***************************************************************************)
THEOREM EveryRunIsShort ==
    Spec => [][\A r \in Runs : /\ Ahead(pc'[r]) <= Ahead(pc[r])
                               /\ Step(r) => Ahead(pc'[r]) < Ahead(pc[r])]_vars
<1> DEFINE Shorter == \A r \in Runs : /\ Ahead(pc'[r]) <= Ahead(pc[r])
                                      /\ Step(r) => Ahead(pc'[r]) < Ahead(pc[r])
<1>1. TypeOK /\ [Next]_vars => [Shorter]_vars
  <2> SUFFICES ASSUME TypeOK, Next, NEW r \in Runs
               PROVE  /\ Ahead(pc'[r]) <= Ahead(pc[r])
                      /\ Step(r) => Ahead(pc'[r]) < Ahead(pc[r])
    OBVIOUS
  <2>1. pc[r] \in Phases /\ Ahead(pc[r]) \in Nat
    BY DEF TypeOK, Phases, InFlight, Calls, Ahead
  <2>2. CASE Step(r)
    <3>1. pc'[r] \in Phases
      BY StepType DEF TypeOK
    <3>2. Ahead(pc'[r]) \in Nat
      BY <3>1 DEF Phases, InFlight, Calls, Ahead
    <3> QED
      BY <2>1, <2>2, <3>2, StepShortens
  <2>3. CASE ~Step(r) /\ pc'[r] = pc[r]
    BY <2>1, <2>3
  <2>4. CASE Begin(r) \/ Kill(r)
    <3>1. \/ pc[r] = "ready" /\ pc'[r] \in {"connect", "done"}
          \/ pc'[r] = "killed"
      BY <2>4 DEF Begin, Kill, TypeOK
    <3>2. pc[r] = "ready" => Ahead(pc'[r]) <= Ahead(pc[r])
      BY <3>1 DEF Ahead
    <3>3. pc'[r] = "killed" => Ahead(pc'[r]) = 0
      BY DEF Ahead
    <3>4. Ahead(pc'[r]) <= Ahead(pc[r])
      BY <2>1, <3>1, <3>2, <3>3
    <3> QED
      BY <2>2, <3>4
  <2>5. Issue \/ Reload => pc'[r] = pc[r]
    BY DEF Issue, Reload, runs
  <2>6. ASSUME NEW q \in Runs, q # r, Begin(q) \/ Step(q) \/ Kill(q) PROVE pc'[r] = pc[r]
    BY <2>6, OthersStay
  <2> QED
    BY <2>2, <2>3, <2>4, <2>5, <2>6 DEF Next
<1> QED
  BY <1>1, TypeCorrect, PTL DEF Spec

=============================================================================
