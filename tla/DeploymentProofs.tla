-------------------------- MODULE DeploymentProofs --------------------------
(***************************************************************************)
(* Theorems about module Deployment, for any number of runs, certificates  *)
(* and labels and for every choice of faults.                              *)
(***************************************************************************)
EXTENDS Deployment, TLAPS

USE LabelsAssumption, NullAssumption, MaxIssuedAssumption, LeftoversAssumption,
    FaultsAssumption, FlagsAssumption

-----------------------------------------------------------------------------
(* Type correctness                                                        *)

LEMMA InitType == Init => TypeOK
<1> SUFFICES ASSUME Init PROVE TypeOK
  OBVIOUS
<1> USE DEF Init, GatewayInit
<1>1. /\ tp \in [Labels -> Holdings] /\ key \subseteq Labels /\ derived \subseteq Labels
      /\ bound \in Labels \cup {NoLabel}
  BY DEF Holdings, Certs
<1>2. saved \in Configs
  BY <1>1 DEF RunningConfig, Configs
<1>3. flash \in Certs \cup {NoFile} /\ issued \in Certs
  BY DEF Certs
<1>4. /\ target \in [Certs -> Labels] /\ status \in [Certs -> Statuses]
      /\ active \in Labels \cup {NoLabel} /\ past \subseteq Labels \cup {NoLabel}
  BY DEF Statuses
<1>5. /\ pc \in [Runs -> Phases] /\ result \in [Runs -> Results]
      /\ alive \in [Runs -> BOOLEAN] /\ stale \in [Runs -> SUBSET Certs]
      /\ job \in [Runs -> Jobs] /\ reloads \in 0 .. MaxReloads
  BY DEF Phases, Results, Jobs, Certs
<1> QED
  BY <1>1, <1>2, <1>3, <1>4, <1>5 DEF TypeOK, GatewayTypeOK

\* What the operations of the transport do to the types of the gateway
LEMMA GatewayStepType ==
    ASSUME TypeOK, NEW l \in Labels, NEW c \in Certs,
           \/ UploadFile(c) \/ DeleteFile \/ ClearDerived(l)
           \/ DeleteTrustpoint(l) \/ ZeroizeKey(l) \/ ImportPkcs12(l, c)
           \/ ImportPartly(l) \/ SetRevocationCheck(l) \/ BindTrustpoint(l)
           \/ SaveConfig \/ ReloadConfig \/ UNCHANGED gateway
    PROVE  GatewayTypeOK'
<1> USE DEF TypeOK, GatewayTypeOK, running
<1>1. CASE UploadFile(c) \/ DeleteFile \/ ClearDerived(l) \/ UNCHANGED gateway
  BY <1>1 DEF UploadFile, DeleteFile, ClearDerived, gateway
<1>2. CASE DeleteTrustpoint(l) \/ ZeroizeKey(l) \/ SetRevocationCheck(l)
  BY <1>2 DEF DeleteTrustpoint, ZeroizeKey, SetRevocationCheck, Holdings
<1>3. CASE ImportPkcs12(l, c) \/ ImportPartly(l)
  BY <1>3 DEF ImportPkcs12, ImportPartly, Holdings
<1>4. CASE BindTrustpoint(l)
  BY <1>4 DEF BindTrustpoint
<1>5. CASE SaveConfig
  BY <1>5 DEF SaveConfig, RunningConfig, Configs
<1>6. CASE ReloadConfig
  BY <1>6 DEF ReloadConfig, Configs
<1> QED
  BY <1>1, <1>2, <1>3, <1>4, <1>5, <1>6

-----------------------------------------------------------------------------
\* A step of a run keeps the types: first the gateway, then the datastore and
\* the runs.

LEMMA RunGatewayType ==
    ASSUME TypeOK, NEW r \in Runs, Begin(r) \/ Step(r) \/ Kill(r)
    PROVE  GatewayTypeOK'
<1>1. job[r].goal \in Labels /\ job[r].cert \in Certs /\ job[r].prev \in Labels \cup {NoLabel}
  BY DEF TypeOK, Jobs
<1> USE <1>1
<1>2. CASE UNCHANGED gateway
  BY <1>2, GatewayStepType
<1>3. CASE Upload(r) \/ PrepareDerived(r) \/ PrepareTrustpoint(r) \/ PrepareKey(r)
  BY <1>3, GatewayStepType DEF Upload, PrepareDerived, PrepareTrustpoint, PrepareKey, Call
<1>4. CASE Import(r) \/ ImportBreaks(r)
  BY <1>4, GatewayStepType DEF Import, ImportBreaks
<1>5. CASE SetRevocation(r) \/ Bind(r) \/ Save(r) \/ Cleanup(r)
  BY <1>5, GatewayStepType DEF SetRevocation, Bind, Save, Cleanup, Call
<1>6. CASE Rollback(r)
  <2>1. BindTrustpoint(job[r].prev) \/ UNCHANGED gateway
    BY <1>6 DEF Rollback, Call
  <2>2. CASE BindTrustpoint(job[r].prev)
    BY <2>2 DEF BindTrustpoint, GatewayTypeOK, TypeOK
  <2> QED
    BY <2>1, <2>2, <1>2
<1> QED
  BY <1>2, <1>3, <1>4, <1>5, <1>6
     DEF Step, Begin, Kill, Connect, ReadState, Reconnect, Verify, Confirm, Look,
         Settle, Commit

\* The control part of TypeOK
ControlTypeOK ==
    /\ issued \in Certs
    /\ target \in [Certs -> Labels]
    /\ status \in [Certs -> Statuses]
    /\ active \in Labels \cup {NoLabel}
    /\ past \subseteq Labels \cup {NoLabel}
    /\ pc \in [Runs -> Phases]
    /\ job \in [Runs -> Jobs]
    /\ result \in [Runs -> Results]
    /\ alive \in [Runs -> BOOLEAN]
    /\ stale \in [Runs -> SUBSET Certs]
    /\ reloads \in 0 .. MaxReloads

LEMMA ControlType ==
    ASSUME ControlTypeOK, NEW r \in Runs,
           \/ \E phase \in Phases : Goto(r, phase)
           \/ \E outcome \in Results, phase \in Phases : Finish(r, outcome, phase)
           \/ Raise(r)
    PROVE  ControlTypeOK'
<1>1. CASE \E phase \in Phases : Goto(r, phase)
  BY <1>1 DEF ControlTypeOK, Goto, datastore
<1>2. CASE \E outcome \in Results, phase \in Phases : Finish(r, outcome, phase)
  BY <1>2 DEF ControlTypeOK, Finish, datastore
<1>3. CASE Raise(r)
  <2>1. Finish(r, "failed", "cleanup") \/ Finish(r, "failed", "settle")
    BY <1>3 DEF Raise
  <2> QED
    BY <2>1, <1>2 DEF Results, Phases, InFlight, Calls
<1> QED
  BY <1>1, <1>2, <1>3

LEMMA OpeningsAreJobs == ControlTypeOK => Openings \subseteq Jobs
<1> SUFFICES ASSUME ControlTypeOK PROVE Openings \subseteq Jobs
  OBVIOUS
<1>1. issued \in Certs /\ target[issued] \in Labels
  BY DEF ControlTypeOK
<1>2. /\ Loaded(active, past) \subseteq Labels \cup {NoLabel}
      /\ Loaded(status[issued] = "deployed", {FALSE}) \subseteq BOOLEAN
  BY DEF ControlTypeOK, Loaded
<1> QED
  BY <1>1, <1>2 DEF Openings, Jobs

LEMMA RunControlType ==
    ASSUME ControlTypeOK, bound \in Labels \cup {NoLabel},
           NEW r \in Runs, Begin(r) \/ Step(r) \/ Kill(r)
    PROVE  ControlTypeOK'
<1>1. CASE \/ Upload(r) \/ PrepareDerived(r) \/ PrepareTrustpoint(r) \/ PrepareKey(r)
           \/ Import(r) \/ ImportBreaks(r) \/ Reconnect(r) \/ SetRevocation(r)
           \/ Bind(r) \/ Confirm(r)
  BY <1>1, ControlType
     DEF Upload, PrepareDerived, PrepareTrustpoint, PrepareKey, Import,
         ImportBreaks, Reconnect, SetRevocation, Bind, Confirm, Call, Look,
         Phases, InFlight, Calls
<1>2. CASE Verify(r) \/ Rollback(r) \/ Save(r) \/ Cleanup(r)
  BY <1>2, ControlType
     DEF Verify, Rollback, Save, Cleanup, Call, Look, Phases, InFlight, Calls, Results
<1>3. CASE Connect(r)
  <2>1. CASE Raise(r)
    BY <2>1, ControlType
  <2>2. CASE ~Raise(r)
    BY <1>3, <2>2 DEF Connect, ControlTypeOK, datastore, Phases, InFlight, Calls
  <2> QED
    BY <2>1, <2>2
<1>4. CASE ReadState(r)
  <2>1. CASE Raise(r)
    BY <2>1, ControlType
  <2>2. CASE ~Raise(r)
    <3>1. job' \in [Runs -> Jobs]
      BY <1>4, <2>2 DEF ReadState, ControlTypeOK, Jobs, GoalFor, Other
    <3>2. QED
      BY <1>4, <2>2, <3>1 DEF ReadState, ControlTypeOK, datastore, Phases, InFlight, Calls
  <2> QED
    BY <2>1, <2>2
<1>5. CASE Begin(r)
  <2>1. job' \in [Runs -> Jobs]
    <3>1. CASE UNCHANGED job
      BY <3>1 DEF ControlTypeOK
    <3>2. CASE \E opening \in Openings : job' = [job EXCEPT ![r] = opening]
      BY <3>2, OpeningsAreJobs DEF ControlTypeOK
    <3>3. QED
      BY <1>5, <3>1, <3>2 DEF Begin
  <2>2. QED
    BY <1>5, <2>1 DEF Begin, ControlTypeOK, datastore, Phases, InFlight, Calls, Results
<1>6. CASE Settle(r)
  BY <1>6 DEF Settle, ControlTypeOK, datastore, Phases, InFlight
<1>7. CASE Commit(r)
  <2>1. status' \in [Certs -> Statuses]
    BY <1>7 DEF Commit, ControlTypeOK, Statuses
  <2>2. job[r].idle \in Labels
    BY DEF ControlTypeOK, Jobs
  <2>3. active' \in Labels \cup {NoLabel} /\ past' \subseteq Labels \cup {NoLabel}
    BY <1>7, <2>2 DEF Commit, RecordActive, Written, ControlTypeOK
  <2>4. QED
    BY <1>7, <2>1, <2>3 DEF Commit, ControlTypeOK, Phases
<1>8. CASE Kill(r)
  BY <1>8 DEF Kill, ControlTypeOK, datastore, Phases
<1> QED
  BY <1>1, <1>2, <1>3, <1>4, <1>5, <1>6, <1>7, <1>8 DEF Step

LEMMA StepType == TypeOK /\ [Next]_vars => TypeOK'
<1> SUFFICES ASSUME TypeOK, [Next]_vars PROVE TypeOK'
  OBVIOUS
<1>0. ControlTypeOK /\ bound \in Labels \cup {NoLabel}
  BY DEF TypeOK, GatewayTypeOK, ControlTypeOK
<1>1. CASE Issue
  <2>1. GatewayTypeOK'
    BY <1>1, GatewayStepType, <1>0 DEF Issue, ControlTypeOK
  <2>2. (\A label : IdleTrustpoint(label) \in Labels) /\ issued + 1 \in Certs
    BY <1>0, <1>1 DEF IdleTrustpoint, Issue, Certs, ControlTypeOK
  <2>3. target' \in [Certs -> Labels] /\ status' \in [Certs -> Statuses]
    BY <1>0, <1>1, <2>2 DEF Issue, ControlTypeOK, Statuses
  <2> QED
    BY <1>0, <1>1, <2>1, <2>2, <2>3 DEF Issue, ControlTypeOK, TypeOK, runs
<1>2. CASE Reload
  <2>1. GatewayTypeOK'
    BY <1>2 DEF Reload, ReloadConfig, GatewayTypeOK, Configs, TypeOK
  <2> QED
    BY <1>0, <1>2, <2>1 DEF Reload, ControlTypeOK, TypeOK, datastore
<1>3. CASE \E r \in Runs : Begin(r) \/ Step(r) \/ Kill(r)
  BY <1>0, <1>3, RunGatewayType, RunControlType DEF TypeOK, ControlTypeOK
<1>4. CASE UNCHANGED vars
  BY <1>4 DEF vars, gateway, running, datastore, runs, TypeOK, GatewayTypeOK
<1> QED
  BY <1>1, <1>2, <1>3, <1>4 DEF Next

(***************************************************************************)
(* Every variable keeps its type, whatever fails and however runs overlap. *)
(***************************************************************************)
THEOREM TypeCorrect == Spec => []TypeOK
<1>1. Init => TypeOK
  BY InitType
<1>2. TypeOK /\ [Next]_vars => TypeOK'
  BY StepType
<1> QED
  BY <1>1, <1>2, PTL DEF Spec

-----------------------------------------------------------------------------
(***************************************************************************)
(* The inductive invariant of serialised runs.  That the bound trustpoint  *)
(* is never touched follows from what the one run in flight knows about    *)
(* the gateway at each of its steps: until it binds, its goal is not what  *)
(* is bound and its view of what is bound is still right; once it has      *)
(* verified, its goal holds its certificate.  It knows this only while its *)
(* session is alive: a reload may bring back any saved configuration, but  *)
(* it cuts the session, and the run can no longer act on the gateway.      *)
(***************************************************************************)
BeforeCutover == {"upload", "derived", "trustpoint", "key", "import",
                  "reconnect", "revocation", "verify", "bind"}

GoalIdle(r) == bound = job[r].prev /\ bound # job[r].goal
GoalHolds(r) == tp[job[r].goal] = job[r].cert

RunInv(r) ==
    /\ pc[r] \in InFlight => job[r].cert \in 1 .. issued
    /\ alive[r] =>
         /\ pc[r] \in BeforeCutover => GoalIdle(r)
         /\ pc[r] \in {"bind", "confirm", "save"} => GoalHolds(r)
         /\ pc[r] = "confirm" => bound \in {job[r].goal, job[r].prev}
         /\ pc[r] = "rollback" => bound = job[r].prev
         /\ pc[r] = "save" => bound = job[r].goal

OneInFlight ==
    \A r, q \in Runs : pc[r] \in InFlight /\ pc[q] \in InFlight => r = q

SavedSound == saved.bound # NoLabel => saved.tp[saved.bound] \in Certs

Inv ==
    /\ TypeOK
    /\ OneInFlight
    /\ \A r \in Runs : RunInv(r)
    /\ ServingSound
    /\ SavedSound

LEMMA InitInv == Init => Inv
<1> SUFFICES ASSUME Init PROVE Inv
  OBVIOUS
<1>1. OneInFlight /\ \A r \in Runs : RunInv(r)
  BY DEF Init, OneInFlight, RunInv, InFlight, Calls, BeforeCutover
<1>2. ServingSound /\ SavedSound
  BY DEF Init, GatewayInit, ServingSound, SavedSound, RunningConfig, Certs
<1> QED
  BY <1>1, <1>2, InitType DEF Inv

\* An operation on a label that is not bound leaves what is served as it is.
LEMMA IdleOperation ==
    ASSUME TypeOK, ServingSound, SavedSound, NEW l \in Labels, NEW c \in Certs,
           bound # l,
           \/ UploadFile(c) \/ DeleteFile \/ ClearDerived(l)
           \/ DeleteTrustpoint(l) \/ ZeroizeKey(l) \/ ImportPkcs12(l, c)
           \/ ImportPartly(l) \/ SetRevocationCheck(l) \/ UNCHANGED gateway
    PROVE  /\ ServingSound' /\ SavedSound'
           /\ bound' = bound /\ saved' = saved
           /\ \A m \in Labels : m # l =>
                 /\ tp'[m] = tp[m]
                 /\ m \in key' <=> m \in key
                 /\ m \in derived' <=> m \in derived
<1> USE DEF TypeOK, GatewayTypeOK, ServingSound, SavedSound, running
<1>1. CASE UploadFile(c) \/ DeleteFile \/ ClearDerived(l) \/ UNCHANGED gateway
  BY <1>1 DEF UploadFile, DeleteFile, ClearDerived, gateway
<1>2. CASE DeleteTrustpoint(l) \/ ZeroizeKey(l) \/ SetRevocationCheck(l)
  BY <1>2 DEF DeleteTrustpoint, ZeroizeKey, SetRevocationCheck
<1>3. CASE ImportPkcs12(l, c) \/ ImportPartly(l)
  BY <1>3 DEF ImportPkcs12, ImportPartly
<1> QED
  BY <1>1, <1>2, <1>3

\* A call that raises leaves the run with nothing more to know.
LEMMA RaiseKeeps ==
    ASSUME Inv, NEW r \in Runs, pc[r] \in InFlight, Raise(r)
    PROVE  RunInv(r)'
<1>1. pc'[r] \in {"cleanup", "settle"} /\ UNCHANGED <<job, issued>>
  BY DEF Raise, Finish, datastore, Inv, TypeOK
<1>2. RunInv(r)
  BY DEF Inv
<1> QED
  BY <1>1, <1>2 DEF RunInv, BeforeCutover

\* While one run steps no other is in flight, before or after.
LEMMA OthersKeep ==
    ASSUME Serialised, Inv, NEW r \in Runs, Begin(r) \/ Step(r) \/ Kill(r)
    PROVE  /\ \A q \in Runs \ {r} : pc'[q] \notin InFlight /\ RunInv(q)'
           /\ OneInFlight'
<1>1. \A q \in Runs \ {r} : pc'[q] = pc[q]
  BY DEF Inv, TypeOK, Begin, Step, Kill, Connect, ReadState, Upload, PrepareDerived,
         PrepareTrustpoint, PrepareKey, Import, ImportBreaks, Reconnect,
         SetRevocation, Verify, Bind, Confirm, Rollback, Save, Cleanup, Settle,
         Commit, Call, Look, Goto, Finish, Raise
<1>2. pc[r] \in InFlight \/ Begin(r)
  BY DEF Step, Kill, Connect, ReadState, Upload, PrepareDerived,
         PrepareTrustpoint, PrepareKey, Import, ImportBreaks, Reconnect,
         SetRevocation, Verify, Bind, Confirm, Rollback, Save, Cleanup, Settle,
         Commit, Call, Look, InFlight, Calls
<1>3. \A q \in Runs \ {r} : pc[q] \notin InFlight
  BY <1>2 DEF Begin, Inv, OneInFlight
<1>4. \A q \in Runs \ {r} : pc'[q] \notin InFlight
  BY <1>1, <1>3
<1> QED
  BY <1>4 DEF OneInFlight, RunInv, InFlight, Calls, BeforeCutover

\* The steps up to the verification act on a label that is not bound.
LEMMA BeforeKeeps ==
    ASSUME Inv, NEW r \in Runs,
           \/ Upload(r) \/ PrepareDerived(r) \/ PrepareTrustpoint(r) \/ PrepareKey(r)
           \/ Import(r) \/ ImportBreaks(r) \/ SetRevocation(r)
    PROVE  /\ RunInv(r)' /\ ServingSound' /\ SavedSound'
           /\ bound' = bound /\ saved' = saved
           /\ \A m \in Labels : bound = m =>
                 /\ tp'[m] = tp[m]
                 /\ m \in key' <=> m \in key
                 /\ m \in derived' <=> m \in derived
<1> DEFINE l == job[r].goal
           c == job[r].cert
<1>1. /\ TypeOK /\ ServingSound /\ SavedSound /\ RunInv(r)
      /\ l \in Labels /\ c \in Certs
  BY DEF Inv, TypeOK, Jobs
<1>2. pc[r] \in BeforeCutover /\ pc[r] \in InFlight
  BY DEF Upload, PrepareDerived, PrepareTrustpoint, PrepareKey, Import,
         ImportBreaks, SetRevocation, Call, BeforeCutover, InFlight, Calls
<1>3. \/ UNCHANGED gateway
      \/ /\ alive[r]
         /\ \/ UploadFile(c) \/ ClearDerived(l) \/ DeleteTrustpoint(l)
            \/ ZeroizeKey(l) \/ ImportPkcs12(l, c) \/ ImportPartly(l)
            \/ SetRevocationCheck(l)
  BY DEF Upload, PrepareDerived, PrepareTrustpoint, PrepareKey, Import,
         ImportBreaks, SetRevocation, Call
<1>4. /\ ServingSound' /\ SavedSound' /\ bound' = bound /\ saved' = saved
      /\ \A m \in Labels : bound = m =>
            /\ tp'[m] = tp[m]
            /\ m \in key' <=> m \in key
            /\ m \in derived' <=> m \in derived
  <2>1. CASE UNCHANGED gateway
    BY <2>1, <1>1 DEF gateway, running, ServingSound, SavedSound
  <2>2. CASE /\ alive[r]
             /\ \/ UploadFile(c) \/ ClearDerived(l) \/ DeleteTrustpoint(l)
                \/ ZeroizeKey(l) \/ ImportPkcs12(l, c) \/ ImportPartly(l)
                \/ SetRevocationCheck(l)
    <3>1. bound # l
      BY <2>2, <1>1, <1>2 DEF RunInv, GoalIdle
    <3> HIDE DEF l, c
    <3>2. QED
      BY <2>2, <3>1, <1>1, IdleOperation
  <2> QED
    BY <1>3, <2>1, <2>2
<1>5. RunInv(r)'
  <2>1. CASE Raise(r)
    BY <2>1, <1>2, RaiseKeeps
  <2>2. CASE \E phase \in BeforeCutover \ {"bind"} : Goto(r, phase)
    <3>1. /\ pc'[r] \in BeforeCutover \ {"bind"}
          /\ UNCHANGED <<job, issued, alive>>
      BY <2>2 DEF Goto, datastore, Inv, TypeOK
    <3> QED
      BY <3>1, <1>1, <1>2, <1>4 DEF RunInv, BeforeCutover, GoalIdle
  <2> QED
    BY <2>1, <2>2
       DEF Upload, PrepareDerived, PrepareTrustpoint, PrepareKey, Import,
           ImportBreaks, SetRevocation, Call, BeforeCutover
<1> QED
  BY <1>4, <1>5

\* Verification and the steps after it
LEMMA AfterKeeps ==
    ASSUME Inv, NEW r \in Runs,
           \/ Reconnect(r) \/ Verify(r) \/ Bind(r) \/ Confirm(r) \/ Rollback(r)
           \/ Save(r) \/ Cleanup(r)
    PROVE  RunInv(r)' /\ ServingSound' /\ SavedSound'
<1>1. /\ TypeOK /\ ServingSound /\ SavedSound /\ RunInv(r)
      /\ job[r].goal \in Labels /\ job[r].cert \in Certs
  BY DEF Inv, TypeOK, Jobs
<1>2. pc[r] \in InFlight
  BY DEF Reconnect, Verify, Bind, Confirm, Rollback, Save, Cleanup, Call, Look,
         InFlight, Calls
<1>3. ASSUME NEW phase, Goto(r, phase) \/ \E outcome : Finish(r, outcome, phase)
      PROVE  pc'[r] = phase /\ UNCHANGED <<job, issued, alive>>
  BY <1>1, <1>3 DEF Goto, Finish, datastore, TypeOK
<1>4. CASE Reconnect(r) \/ Verify(r) \/ Confirm(r)
  <2>1. UNCHANGED gateway
    BY <1>4 DEF Reconnect, Verify, Confirm, Look
  <2>2. ServingSound' /\ SavedSound'
    BY <2>1, <1>1 DEF gateway, running, ServingSound, SavedSound
  <2>3. CASE Raise(r)
    BY <2>2, <2>3, <1>2, RaiseKeeps
  <2>4. CASE alive[r] /\ ~Raise(r)
    <3>1. CASE Reconnect(r)
      <4>1. pc[r] = "reconnect" /\ Goto(r, "revocation")
        BY <3>1, <2>4 DEF Reconnect, Look
      <4> QED
        BY <4>1, <1>1, <1>3, <2>1, <2>2
           DEF RunInv, gateway, running, GoalIdle, BeforeCutover, InFlight, Calls
    <3>2. CASE Verify(r)
      <4>1. /\ pc[r] = "verify" /\ GoalHolds(r)
            /\ Goto(r, "bind") \/ Finish(r, "deployed", "cleanup")
        BY <3>2, <2>4 DEF Verify, Look, GoalHolds
      <4>2. /\ pc'[r] \in {"bind", "cleanup"} /\ UNCHANGED <<job, issued, alive>>
            /\ UNCHANGED <<tp, bound>>
        BY <4>1, <1>3, <2>1 DEF gateway, running
      <4>3. GoalIdle(r)' /\ GoalHolds(r)'
        BY <4>1, <4>2, <1>1, <2>4 DEF RunInv, BeforeCutover, GoalIdle, GoalHolds
      <4> QED
        BY <4>2, <4>3, <1>1, <1>2, <2>2 DEF RunInv, BeforeCutover
    <3>3. CASE Confirm(r)
      <4>1. /\ pc[r] = "confirm"
            /\ \/ bound = job[r].goal /\ Goto(r, "save")
               \/ bound # job[r].goal /\ Goto(r, "rollback")
        BY <3>3, <2>4 DEF Confirm, Look
      <4> QED
        BY <4>1, <1>1, <1>3, <2>1, <2>2
           DEF RunInv, gateway, running, GoalHolds, BeforeCutover, InFlight, Calls
    <3> QED
      BY <1>4, <3>1, <3>2, <3>3
  <2> QED
    BY <1>4, <2>3, <2>4 DEF Reconnect, Verify, Confirm, Look
<1>5. CASE Bind(r)
  <2>1. CASE UNCHANGED gateway
    <3>1. ServingSound' /\ SavedSound'
      BY <2>1, <1>1 DEF gateway, running, ServingSound, SavedSound
    <3>2. CASE Raise(r)
      BY <3>1, <3>2, <1>2, RaiseKeeps
    <3>3. CASE Goto(r, "confirm") /\ alive[r]
      BY <1>5, <3>1, <3>3, <2>1, <1>1, <1>3
         DEF Bind, Call, RunInv, gateway, running, GoalIdle, GoalHolds,
             BeforeCutover, InFlight, Calls
    <3> QED
      BY <1>5, <3>2, <3>3 DEF Bind, Call, Breaks
  <2>2. CASE alive[r] /\ BindTrustpoint(job[r].goal)
    <3>1. ServingSound' /\ SavedSound'
      BY <1>5, <2>2, <1>1
         DEF Bind, Call, BindTrustpoint, ServingSound, SavedSound, RunInv, GoalHolds
    <3>2. CASE Raise(r)
      BY <3>1, <3>2, <1>2, RaiseKeeps
    <3>3. CASE Goto(r, "confirm")
      BY <1>5, <3>1, <3>3, <2>2, <1>1, <1>3
         DEF Bind, Call, BindTrustpoint, RunInv, GoalHolds, BeforeCutover,
             InFlight, Calls
    <3> QED
      BY <1>5, <3>2, <3>3 DEF Bind, Call
  <2> QED
    BY <1>5, <2>1, <2>2 DEF Bind, Call
<1>6. CASE Rollback(r) \/ Save(r) \/ Cleanup(r)
  <2>1. ServingSound' /\ SavedSound'
    <3>1. CASE UNCHANGED gateway \/ DeleteFile
      BY <3>1, <1>1 DEF DeleteFile, gateway, running, ServingSound, SavedSound
    <3>2. CASE Rollback(r) /\ alive[r] /\ BindTrustpoint(job[r].prev)
      BY <3>2, <1>1 DEF Rollback, Call, BindTrustpoint, RunInv, ServingSound, SavedSound
    <3>3. CASE Save(r) /\ SaveConfig
      BY <3>3, <1>1 DEF SaveConfig, RunningConfig, running, ServingSound, SavedSound
    <3> QED
      BY <1>6, <3>1, <3>2, <3>3 DEF Rollback, Save, Cleanup, Call
  <2>2. RunInv(r)'
    <3>1. CASE Raise(r)
      BY <3>1, <1>2, RaiseKeeps
    <3>2. CASE \/ \E outcome : Finish(r, outcome, "cleanup")
               \/ Goto(r, "settle")
      <4>1. pc'[r] \in {"cleanup", "settle"} /\ UNCHANGED <<job, issued>>
        BY <3>2, <1>3
      <4> QED
        BY <4>1, <1>1, <1>2 DEF RunInv, BeforeCutover
    <3> QED
      BY <1>6, <3>1, <3>2 DEF Rollback, Save, Cleanup, Call
  <2> QED
    BY <2>1, <2>2
<1> QED
  BY <1>4, <1>5, <1>6

LEMMA RunStepInv ==
    ASSUME Serialised, A # B, Inv, NEW r \in Runs, Begin(r) \/ Step(r) \/ Kill(r)
    PROVE  Inv'
<1>1. TypeOK' /\ TypeOK /\ RunInv(r) /\ ServingSound /\ SavedSound
  BY StepType DEF Inv, Next
<1>2. RunInv(r)' /\ ServingSound' /\ SavedSound'
  <2>1. CASE \/ Upload(r) \/ PrepareDerived(r) \/ PrepareTrustpoint(r) \/ PrepareKey(r)
             \/ Import(r) \/ ImportBreaks(r) \/ SetRevocation(r)
    BY <2>1, BeforeKeeps
  <2>2. CASE \/ Reconnect(r) \/ Verify(r) \/ Bind(r) \/ Confirm(r) \/ Rollback(r)
             \/ Save(r) \/ Cleanup(r)
    BY <2>2, AfterKeeps
  <2>3. CASE Begin(r) \/ Connect(r) \/ ReadState(r) \/ Settle(r) \/ Commit(r) \/ Kill(r)
    <3>1. UNCHANGED gateway
      BY <2>3 DEF Begin, Connect, ReadState, Settle, Commit, Kill
    <3>2. ServingSound' /\ SavedSound'
      BY <3>1, <1>1 DEF gateway, running, ServingSound, SavedSound
    <3>3. CASE Begin(r)
      <4>1. pc'[r] \in {"connect", "done"} /\ issued' = issued /\ issued > 0
        BY <1>1, <3>3 DEF Begin, TypeOK, datastore
      <4>2. pc'[r] = "connect" => job'[r].cert = issued
        <5>1. CASE UNCHANGED job /\ pc' = [pc EXCEPT ![r] = "done"]
          BY <5>1, <1>1 DEF TypeOK
        <5>2. CASE \E opening \in Openings : job' = [job EXCEPT ![r] = opening]
          <6>1. job'[r] \in Openings
            BY <5>2, <1>1 DEF TypeOK
          <6> QED
            BY <6>1 DEF Openings
        <5> QED
          BY <3>3, <5>1, <5>2 DEF Begin
      <4>3. pc'[r] \in InFlight => job'[r].cert \in 1 .. issued'
        BY <4>1, <4>2, <1>1 DEF TypeOK, Certs, InFlight, Calls
      <4> QED
        BY <3>2, <4>1, <4>3 DEF RunInv, BeforeCutover
    <3>4. CASE Raise(r) /\ ~Begin(r)
      BY <2>3, <3>2, <3>4, <1>1, RaiseKeeps
         DEF Connect, ReadState, Settle, Commit, Kill, InFlight, Calls, Inv
    <3>5. CASE Connect(r) /\ ~Raise(r)
      BY <3>5, <3>2, <1>1
         DEF Connect, RunInv, TypeOK, datastore, BeforeCutover, InFlight, Calls
    <3>6. CASE ReadState(r) /\ ~Raise(r)
      <4>1. /\ pc[r] = "read" /\ pc'[r] = "upload" /\ issued' = issued
            /\ job' = [job EXCEPT ![r].prev = bound, ![r].goal = GoalFor(r)]
        BY <3>6, <1>1 DEF ReadState, TypeOK, datastore
      <4>2. /\ job'[r].cert = job[r].cert /\ job'[r].prev = bound
            /\ job'[r].goal = GoalFor(r)
        BY <4>1, <1>1 DEF TypeOK, Jobs
      <4>3. GoalFor(r) # bound
        <5>1. job[r].idle \in Labels
          BY <1>1 DEF TypeOK, Jobs
        <5> QED
          BY <5>1 DEF GoalFor, Other
      <4>4. GoalIdle(r)'
        BY <4>2, <4>3, <3>1 DEF GoalIdle, gateway, running
      <4> QED
        BY <4>1, <4>2, <4>4, <1>1, <3>2 DEF RunInv, InFlight, Calls
    <3>7. CASE (Settle(r) \/ Commit(r) \/ Kill(r)) /\ ~Raise(r)
      BY <3>7, <3>2, <1>1
         DEF Settle, Commit, Kill, RunInv, TypeOK, datastore, BeforeCutover,
             InFlight, Calls
    <3> QED
      BY <2>3, <3>3, <3>4, <3>5, <3>6, <3>7
  <2> QED
    BY <2>1, <2>2, <2>3 DEF Step
<1> QED
  BY <1>1, <1>2, OthersKeep DEF Inv

LEMMA InvInductive ==
    ASSUME Serialised, A # B
    PROVE  Inv /\ [Next]_vars => Inv'
<1> SUFFICES ASSUME Inv, [Next]_vars PROVE Inv'
  OBVIOUS
<1>1. TypeOK'
  BY StepType DEF Inv
<1>2. CASE Issue
  <2>1. /\ UNCHANGED <<gateway, pc, job, alive>>
        /\ issued \in Nat /\ issued' = issued + 1
    BY <1>2 DEF Issue, runs, Inv, TypeOK, Certs
  <2>2. \A r \in Runs : RunInv(r)'
    BY <2>1 DEF Inv, RunInv, gateway, running, GoalIdle, GoalHolds
  <2> QED
    BY <1>1, <2>1, <2>2
       DEF Inv, OneInFlight, ServingSound, SavedSound, gateway, running
<1>3. CASE Reload
  <2>1. OneInFlight' /\ \A r \in Runs : RunInv(r)'
    BY <1>3 DEF Inv, Reload, datastore, OneInFlight, RunInv
  <2>2. ServingSound' /\ SavedSound'
    BY <1>3 DEF Inv, Reload, ReloadConfig, ServingSound, SavedSound
  <2> QED
    BY <1>1, <2>1, <2>2 DEF Inv
<1>4. CASE \E r \in Runs : Begin(r) \/ Step(r) \/ Kill(r)
  BY <1>4, RunStepInv
<1>5. CASE UNCHANGED vars
  BY <1>1, <1>5 DEF vars, gateway, running, datastore, runs, Inv, OneInFlight,
     RunInv, GoalIdle, GoalHolds, ServingSound, SavedSound
<1> QED
  BY <1>2, <1>3, <1>4, <1>5 DEF Next

THEOREM InvHolds ==
    ASSUME Serialised, A # B
    PROVE  Spec => []Inv
<1>1. Init => Inv
  BY InitInv
<1>2. Inv /\ [Next]_vars => Inv'
  BY InvInductive
<1> QED
  BY <1>1, <1>2, PTL DEF Spec

(***************************************************************************)
(* As long as runs are serialised and the two labels of the device differ, *)
(* sip-ua is never left bound to a trustpoint without a certificate.       *)
(***************************************************************************)
THEOREM NeverDark ==
    ASSUME Serialised, A # B
    PROVE  Spec => []ServingSound
<1>1. Inv => ServingSound
  BY DEF Inv
<1> QED
  BY <1>1, InvHolds, PTL

-----------------------------------------------------------------------------
(* What a step may never do                                                *)

\* What of label m a step must leave alone
Kept(m) == /\ tp'[m] = tp[m]
           /\ m \in key' <=> m \in key
           /\ m \in derived' <=> m \in derived

LEMMA StepUntouched ==
    ASSUME Inv, Next, reloads' = reloads, NEW m \in Labels, bound = m
    PROVE  Kept(m)
<1>1. CASE \E r \in Runs :
             \/ Upload(r) \/ PrepareDerived(r) \/ PrepareTrustpoint(r) \/ PrepareKey(r)
             \/ Import(r) \/ ImportBreaks(r) \/ SetRevocation(r)
  BY <1>1, BeforeKeeps DEF Kept
<1>2. CASE UNCHANGED <<tp, key, derived>>
  BY <1>2 DEF Kept
<1>3. CASE Reload
  BY <1>3 DEF Reload, Inv, TypeOK
<1>4. CASE Issue
  BY <1>2, <1>4 DEF Issue, gateway, running
<1>5. ASSUME NEW r \in Runs,
             \/ Begin(r) \/ Connect(r) \/ ReadState(r) \/ Reconnect(r) \/ Verify(r)
             \/ Bind(r) \/ Confirm(r) \/ Rollback(r) \/ Save(r) \/ Cleanup(r)
             \/ Settle(r) \/ Commit(r) \/ Kill(r)
      PROVE  UNCHANGED <<tp, key, derived>>
  <2>1. \/ UNCHANGED gateway \/ SaveConfig \/ DeleteFile
        \/ \E l : BindTrustpoint(l)
    BY <1>5 DEF Begin, Connect, ReadState, Reconnect, Verify, Bind, Confirm,
       Rollback, Save, Cleanup, Settle, Commit, Kill, Call, Look
  <2> QED
    BY <2>1 DEF gateway, running, SaveConfig, DeleteFile, BindTrustpoint
<1> QED
  BY <1>1, <1>2, <1>3, <1>4, <1>5 DEF Next, Step

(***************************************************************************)
(* Serialised runs never delete, zeroize or import into the trustpoint     *)
(* that sip-ua is bound to.                                                *)
(***************************************************************************)
THEOREM ActiveNeverTouched ==
    ASSUME Serialised, A # B
    PROVE  Spec => BoundUntouched
<1>1. Inv /\ [Next]_vars =>
        [reloads' = reloads =>
           \A l \in Labels : bound = l =>
               /\ tp'[l] = tp[l]
               /\ l \in key' <=> l \in key
               /\ l \in derived' <=> l \in derived]_vars
  BY StepUntouched DEF Kept
<1> QED
  BY <1>1, InvHolds, PTL DEF Spec, BoundUntouched

-----------------------------------------------------------------------------
(* Deployment implements Cutover                                           *)

LEMMA InitRefines == Init => Peer!Init
<1> SUFFICES ASSUME Init PROVE Peer!Init
  OBVIOUS
<1>1. Presented(saved) = Serving
  BY DEF Init, GatewayInit, Serving
<1>2. Serving \in {0, Empty}
  BY DEF Init, GatewayInit, Serving, Presented, RunningConfig
<1> QED
  BY <1>1, <1>2 DEF Init, Peer!Init

\* A step that keeps the binding and the bound trustpoint, and does not save
LEMMA StutterRefines ==
    ASSUME TypeOK, UNCHANGED <<issued, bound, saved>>,
           \A m \in Labels : bound = m => tp'[m] = tp[m]
    PROVE  UNCHANGED Peer!view
  BY DEF Peer!view, Serving, Presented, RunningConfig, TypeOK, GatewayTypeOK

LEMMA StepRefines ==
    ASSUME Inv, [Next]_vars
    PROVE  [Peer!Next]_(Peer!view)
<1>0. TypeOK
  BY DEF Inv
<1>1. CASE Issue
  <2>1. UNCHANGED <<tp, bound, saved>> /\ issued' = issued + 1 /\ issued' \in Certs
    BY <1>0, <1>1 DEF Issue, gateway, running, TypeOK, Certs
  <2>2. UNCHANGED <<Serving, Presented(saved)>>
    BY <2>1 DEF Serving, Presented, RunningConfig
  <2> QED
    BY <2>1, <2>2 DEF Peer!Next, Peer!Offer
<1>2. CASE Reload
  <2>1. UNCHANGED <<issued, saved>> /\ tp' = saved.tp /\ bound' = saved.bound
    BY <1>2 DEF Reload, ReloadConfig, datastore
  <2>2. Serving' = Presented(saved)
    BY <2>1 DEF Serving, Presented, RunningConfig
  <2>3. Presented(saved)' = Presented(saved)
    BY <2>1 DEF Presented
  <2> QED
    BY <2>1, <2>2, <2>3 DEF Peer!Next, Peer!Restart
<1>3. CASE UNCHANGED vars
  BY <1>0, <1>3, StutterRefines DEF vars, gateway, running, datastore
<1>4. ASSUME NEW r \in Runs, Begin(r) \/ Step(r) \/ Kill(r)
      PROVE  Peer!Next \/ UNCHANGED Peer!view
  <2>0. issued' = issued
    BY <1>0, <1>4 DEF TypeOK, Begin, Step, Kill, Connect, ReadState, Upload,
       PrepareDerived, PrepareTrustpoint, PrepareKey, Import, ImportBreaks,
       Reconnect, SetRevocation, Verify, Bind, Confirm, Rollback, Save, Cleanup,
       Settle, Commit, Call, Look, Goto, Finish, Raise, datastore
  <2>1. CASE \/ Upload(r) \/ PrepareDerived(r) \/ PrepareTrustpoint(r) \/ PrepareKey(r)
             \/ Import(r) \/ ImportBreaks(r) \/ SetRevocation(r)
    BY <1>0, <2>0, <2>1, BeforeKeeps, StutterRefines
  <2>2. CASE UNCHANGED gateway \/ DeleteFile
    BY <1>0, <2>0, <2>2, StutterRefines DEF gateway, running, DeleteFile
  <2>3. CASE Bind(r) /\ alive[r] /\ BindTrustpoint(job[r].goal)
    <3>1. /\ tp[job[r].goal] = job[r].cert /\ job[r].cert \in 1 .. issued
          /\ job[r].goal \in Labels
      BY <1>0, <2>3 DEF Inv, RunInv, GoalHolds, Bind, Call, InFlight, Calls,
         TypeOK, Jobs
    <3>2. Serving' = job[r].cert /\ UNCHANGED saved
      BY <2>3, <3>1 DEF BindTrustpoint, Serving, Presented, RunningConfig
    <3>3. Presented(saved)' = Presented(saved)
      BY <3>2 DEF Presented
    <3>4. job[r].cert \in {d \in Certs : 0 < d /\ d <= issued}
      BY <3>1, <1>0 DEF TypeOK, Certs
    <3> QED
      BY <2>0, <3>2, <3>3, <3>4 DEF Peer!Next, Peer!Switch
  <2>4. CASE Rollback(r) /\ alive[r] /\ BindTrustpoint(job[r].prev)
    <3>1. bound = job[r].prev
      BY <2>4 DEF Inv, RunInv, Rollback, Call
    <3> QED
      BY <1>0, <2>0, <2>4, <3>1, StutterRefines DEF BindTrustpoint
  <2>5. CASE SaveConfig
    <3>1. UNCHANGED Serving /\ Presented(saved)' = Serving
      BY <2>5 DEF SaveConfig, running, Serving, Presented, RunningConfig
    <3> QED
      BY <2>0, <3>1 DEF Peer!Next, Peer!Persist
  <2> QED
    BY <1>4, <2>1, <2>2, <2>3, <2>4, <2>5
       DEF Step, Begin, Kill, Connect, ReadState, Reconnect, Verify, Bind,
           Confirm, Rollback, Save, Cleanup, Settle, Commit, Call, Look
<1> QED
  BY <1>1, <1>2, <1>3, <1>4 DEF Next

(***************************************************************************)
(* To a SIP peer, serialised runs look like atomic switches to issued      *)
(* certificates: Deployment implements Cutover.                            *)
(***************************************************************************)
THEOREM ImplementsCutover ==
    ASSUME Serialised, A # B
    PROVE  Spec => CutoverImplemented
<1>1. Init => Peer!Init
  BY InitRefines
<1>2. Inv /\ [Next]_vars => [Peer!Next]_(Peer!view)
  BY StepRefines
<1> QED
  BY <1>1, <1>2, InvHolds, PTL DEF Spec, Peer!Spec, CutoverImplemented

=============================================================================
