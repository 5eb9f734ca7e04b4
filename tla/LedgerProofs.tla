---------------------------- MODULE LedgerProofs ----------------------------
(***************************************************************************)
(* Theorems about what runs of Deployment report, record and leave behind, *)
(* on top of the invariant of DeploymentProofs.                            *)
(***************************************************************************)
EXTENDS DeploymentProofs

USE LabelsAssumption, NullAssumption

-----------------------------------------------------------------------------
(* What is reported and recorded                                           *)

\* The certificate of the run is bound, in the running configuration and in
\* the one that a reload brings back.
Durable(r) ==
    /\ bound = job[r].goal /\ GoalHolds(r)
    /\ saved.bound = job[r].goal /\ saved.tp[job[r].goal] = job[r].cert

DeployedOthers(r) == {c \in Certs : status[c] = "deployed" /\ c # job[r].cert}

ReportInv(r) ==
    /\ "save" \notin Refusals /\ Reporting(r) /\ result[r] = "deployed" /\ job[r].rebind
          => Durable(r)
    /\ Reporting(r) /\ result[r] = "rolled_back" /\ alive[r] => bound = job[r].prev
    /\ pc[r] = "commit" => Recordable(r) /\ DeployedOthers(r) \subseteq stale[r]
    /\ ~Staging /\ pc[r] \in InFlight => job[r].rebind

\* What the session of a run in flight has loaded is what is on record: of its
\* certificate as far as it matters, of the label if no session lags behind.
LoadedInv(r) ==
    pc[r] \in InFlight =>
        /\ ~Lagging => job[r].loaded = active
        /\ job[r].known => status[job[r].cert] = "deployed"

LedgerInv == Inv /\ OneDeployed /\ \A r \in Runs : ReportInv(r) /\ LoadedInv(r)

\* Only the transaction of a run changes what is recorded of the device.
LEMMA RecordUntouched ==
    ASSUME NEW r \in Runs, Begin(r) \/ Step(r) \/ Kill(r), ~Commit(r)
    PROVE  UNCHANGED <<status, active>>
BY DEF Begin, Kill, Step, Connect, ReadState, Upload, PrepareDerived, PrepareTrustpoint,
       PrepareKey, Import, ImportBreaks, Reconnect, SetRevocation, Verify, Bind, Confirm,
       Rollback, Save, Cleanup, Settle, Call, Look, Goto, Finish, Raise, datastore

LEMMA GoalNamed == LedgerInv => \A r \in Runs : job[r].goal # NoLabel
BY DEF LedgerInv, Inv, TypeOK, Jobs

\* Nothing is known of a run that does not report.
LEMMA SilentStep ==
    ASSUME LedgerInv, NEW r \in Runs, ~Reporting(r)',
           ~Staging /\ pc'[r] \in InFlight => job'[r].rebind
    PROVE  ReportInv(r)'
BY DEF ReportInv, Reporting

\* A call that raises reports a failure.
LEMMA FailedStep ==
    ASSUME LedgerInv, NEW r \in Runs, pc[r] \in InFlight, Raise(r)
    PROVE  ReportInv(r)'
<1>1. pc'[r] \in {"cleanup", "settle"} /\ result'[r] = "failed" /\ UNCHANGED job
  BY DEF Raise, Finish, LedgerInv, Inv, TypeOK
<1> QED
  BY <1>1 DEF LedgerInv, ReportInv

\* The calls before the outcome is known
LEMMA CallStep ==
    ASSUME LedgerInv, NEW r \in Runs,
           \/ Connect(r) \/ ReadState(r) \/ Upload(r)
           \/ PrepareDerived(r) \/ PrepareTrustpoint(r) \/ PrepareKey(r)
           \/ Import(r) \/ ImportBreaks(r) \/ Reconnect(r) \/ SetRevocation(r)
           \/ Bind(r) \/ Confirm(r)
    PROVE  ReportInv(r)'
<1>1. TypeOK /\ pc[r] \in InFlight
  BY DEF LedgerInv, Inv, Connect, ReadState, Upload, PrepareDerived, PrepareTrustpoint,
         PrepareKey, Import, ImportBreaks, Reconnect, SetRevocation, Bind, Confirm, Call, Look,
         InFlight, Calls
<1>2. CASE Raise(r)
  BY <1>1, <1>2, FailedStep
<1>3. CASE ~Raise(r)
  <2> DEFINE Early == InFlight \ {"cleanup", "settle", "commit"}
  <2>1. CASE \E phase \in Early : Goto(r, phase)
    <3>1. pc'[r] \in Early /\ UNCHANGED job
      BY <1>1, <2>1 DEF Goto, TypeOK
    <3> QED
      BY <1>1, <3>1, SilentStep DEF Reporting, LedgerInv, ReportInv
  <2>2. CASE Connect(r)
    <3>1. pc'[r] = "read" /\ UNCHANGED job
      BY <1>1, <1>3, <2>2 DEF Connect, TypeOK
    <3> QED
      BY <1>1, <3>1, SilentStep DEF Reporting, LedgerInv, ReportInv
  <2>3. CASE ReadState(r)
    <3>1. pc'[r] = "upload" /\ job' = [job EXCEPT ![r].prev = bound, ![r].goal = GoalFor(r)]
      BY <1>1, <1>3, <2>3 DEF ReadState, TypeOK
    <3>2. job'[r].rebind = job[r].rebind
      BY <1>1, <3>1 DEF TypeOK, Jobs
    <3> QED
      BY <1>1, <3>1, <3>2, SilentStep DEF Reporting, LedgerInv, ReportInv
  <2> QED
    BY <1>3, <2>1, <2>2, <2>3
       DEF Upload, PrepareDerived, PrepareTrustpoint, PrepareKey, Import, ImportBreaks,
           Reconnect, SetRevocation, Bind, Confirm, Call, Look, InFlight, Calls
<1> QED
  BY <1>2, <1>3

\* The calls whose outcome is reported
LEMMA OutcomeStep ==
    ASSUME LedgerInv, NEW r \in Runs, Verify(r) \/ Rollback(r) \/ Save(r)
    PROVE  ReportInv(r)'
<1>1. /\ TypeOK /\ RunInv(r) /\ ReportInv(r) /\ pc[r] \in InFlight
      /\ job[r].goal \in Labels
  BY DEF LedgerInv, Inv, TypeOK, Jobs, Verify, Rollback, Save, Call, Look, InFlight, Calls
<1>2. ASSUME NEW outcome, Finish(r, outcome, "cleanup")
      PROVE  pc'[r] = "cleanup" /\ result'[r] = outcome /\ UNCHANGED <<job, alive>>
  BY <1>1, <1>2 DEF Finish, TypeOK
<1>3. CASE Raise(r)
  BY <1>1, <1>3, FailedStep
<1>4. CASE Verify(r) /\ ~Raise(r)
  <2>1. CASE job[r].rebind
    <3>1. pc'[r] = "bind" /\ UNCHANGED job
      BY <1>1, <1>4, <2>1 DEF Verify, Look, Goto, TypeOK
    <3> QED
      BY <2>1, <3>1, SilentStep DEF Reporting
  <2>2. CASE ~job[r].rebind
    <3>1. Finish(r, "deployed", "cleanup")
      BY <1>4, <2>2 DEF Verify, Look
    <3> QED
      BY <1>1, <1>2, <2>2, <3>1 DEF ReportInv
  <2> QED
    BY <2>1, <2>2
<1>5. CASE Rollback(r) /\ ~Raise(r)
  <2>1. /\ pc[r] = "rollback" /\ alive[r] /\ Finish(r, "rolled_back", "cleanup")
        /\ BindTrustpoint(job[r].prev) \/ UNCHANGED gateway
    BY <1>5 DEF Rollback, Call
  <2>2. bound' = job[r].prev
    BY <1>1, <2>1 DEF RunInv, BindTrustpoint, gateway, running
  <2> QED
    BY <1>1, <1>2, <2>1, <2>2 DEF ReportInv
<1>6. CASE Save(r) /\ ~Raise(r)
  <2>1. /\ pc[r] = "save" /\ alive[r] /\ Finish(r, "deployed", "cleanup")
        /\ SaveConfig \/ "save" \in Refusals
    BY <1>6 DEF Save, Call
  <2>2. bound = job[r].goal /\ GoalHolds(r)
    BY <1>1, <2>1 DEF RunInv
  <2>3. pc'[r] = "cleanup" /\ result'[r] = "deployed" /\ UNCHANGED job
    BY <1>2, <2>1
  <2>4. SaveConfig => Durable(r)'
    <3> SUFFICES ASSUME SaveConfig PROVE Durable(r)'
      OBVIOUS
    <3>1. saved' = RunningConfig /\ UNCHANGED <<tp, bound>>
      BY DEF SaveConfig, running
    <3>2. saved'.bound = bound /\ saved'.tp = tp
      BY <3>1 DEF RunningConfig
    <3> QED
      BY <2>2, <2>3, <3>1, <3>2 DEF Durable, GoalHolds
  <2> QED
    BY <1>1, <2>1, <2>3, <2>4 DEF ReportInv
<1> QED
  BY <1>3, <1>4, <1>5, <1>6

\* The clean-up and the two halves of the transaction
LEMMA RecordStep ==
    ASSUME LedgerInv, NEW r \in Runs, Cleanup(r) \/ Settle(r) \/ Commit(r)
    PROVE  ReportInv(r)'
<1>1. TypeOK /\ ReportInv(r) /\ pc[r] \in InFlight
  BY DEF LedgerInv, Inv, Cleanup, Settle, Commit, InFlight, Calls
<1>2. CASE Raise(r)
  BY <1>1, <1>2, FailedStep
<1>3. CASE Cleanup(r) /\ ~Raise(r)
  <2>1. /\ pc[r] = "cleanup" /\ pc'[r] = "settle"
        /\ UNCHANGED <<job, result, alive, tp, bound, saved>>
    BY <1>1, <1>3 DEF Cleanup, Goto, DeleteFile, gateway, running, TypeOK
  <2> QED
    BY <1>1, <2>1 DEF ReportInv, Reporting, Durable, GoalHolds, InFlight
<1>4. CASE Settle(r)
  <2>1. /\ pc[r] = "settle" /\ UNCHANGED <<job, result, alive, tp, bound, saved, status>>
        /\ Recordable(r) => pc'[r] = "commit" /\ stale'[r] = DeployedOthers(r)
        /\ ~Recordable(r) => pc'[r] = "done"
    BY <1>1, <1>4 DEF Settle, gateway, running, datastore, TypeOK, DeployedOthers
  <2>2. CASE Recordable(r)
    <3>1. Recordable(r)' /\ DeployedOthers(r)' = DeployedOthers(r)
      BY <2>1, <2>2 DEF Recordable, ActiveResult, DeployedOthers
    <3> QED
      BY <1>1, <2>1, <2>2, <3>1 DEF ReportInv, Reporting, Durable, GoalHolds, InFlight
  <2>3. CASE ~Recordable(r)
    BY <2>1, <2>3, SilentStep DEF Reporting, InFlight, Calls
  <2> QED
    BY <2>2, <2>3
<1>5. CASE Commit(r)
  <2>1. pc'[r] = "done"
    BY <1>1, <1>5 DEF Commit, TypeOK
  <2> QED
    BY <2>1, SilentStep DEF Reporting, InFlight, Calls
<1> QED
  BY <1>2, <1>3, <1>4, <1>5

\* A run keeps what its session has loaded until its transaction.
LEMMA LoadedStep ==
    ASSUME LedgerInv, NEW r \in Runs, Begin(r) \/ Step(r) \/ Kill(r)
    PROVE  LoadedInv(r)'
<1>1. TypeOK /\ LoadedInv(r)
  BY DEF LedgerInv, Inv
<1>2. CASE Begin(r)
  <2>1. UNCHANGED <<status, active>>
    BY <1>2 DEF Begin, datastore
  <2>2. CASE \E opening \in Openings : job' = [job EXCEPT ![r] = opening]
    <3>1. job'[r] \in Openings
      BY <1>1, <2>2 DEF TypeOK
    <3>2. /\ job'[r].cert = issued /\ job'[r].loaded \in Loaded(active, past)
          /\ job'[r].known \in Loaded(status[issued] = "deployed", {FALSE})
      BY <3>1 DEF Openings
    <3> QED
      BY <2>1, <3>2 DEF LoadedInv, Loaded
  <2>3. CASE pc' = [pc EXCEPT ![r] = "done"]
    BY <1>1, <2>3 DEF LoadedInv, TypeOK, InFlight, Calls
  <2> QED
    BY <1>2, <2>2, <2>3 DEF Begin
<1>3. CASE Commit(r) \/ Kill(r)
  <2>1. pc'[r] \in {"done", "killed"}
    BY <1>1, <1>3 DEF Commit, Kill, TypeOK
  <2> QED
    BY <2>1 DEF LoadedInv, InFlight, Calls
<1>4. CASE Step(r) /\ ~Commit(r)
  <2>1. UNCHANGED <<status, active>>
    BY <1>4, RecordUntouched
  <2>2. pc[r] \in InFlight
    BY <1>4 DEF Step, Connect, ReadState, Upload, PrepareDerived, PrepareTrustpoint,
       PrepareKey, Import, ImportBreaks, Reconnect, SetRevocation, Verify, Bind, Confirm,
       Rollback, Save, Cleanup, Settle, Call, Look, InFlight, Calls
  <2>3. \/ UNCHANGED job
        \/ job' = [job EXCEPT ![r].prev = bound, ![r].goal = GoalFor(r)]
    BY <1>4 DEF Step, Connect, ReadState, Upload, PrepareDerived, PrepareTrustpoint,
       PrepareKey, Import, ImportBreaks, Reconnect, SetRevocation, Verify, Bind, Confirm,
       Rollback, Save, Cleanup, Settle, Call, Look, Goto, Finish, Raise
  <2>4. /\ job'[r].cert = job[r].cert /\ job'[r].loaded = job[r].loaded
        /\ job'[r].known = job[r].known
    BY <1>1, <2>3 DEF TypeOK, Jobs
  <2> QED
    BY <1>1, <2>1, <2>2, <2>4 DEF LoadedInv
<1> QED
  BY <1>2, <1>3, <1>4

LEMMA RunReport ==
    ASSUME Serialised, A # B, LedgerInv, NEW r \in Runs, Begin(r) \/ Step(r) \/ Kill(r)
    PROVE  LedgerInv'
<1>1. Inv /\ TypeOK /\ ReportInv(r) /\ OneDeployed
  BY DEF LedgerInv, Inv
<1>2. Inv'
  BY <1>1, RunStepInv
<1>3. ASSUME NEW q \in Runs \ {r} PROVE ReportInv(q)' /\ LoadedInv(q)'
  <2>1. pc'[q] \notin InFlight
    BY <1>1, OthersKeep
  <2> QED
    BY <2>1 DEF ReportInv, LoadedInv, Reporting, InFlight, Calls
<1>4. ReportInv(r)'
  <2>1. CASE Begin(r)
    <3>1. pc'[r] \in {"connect", "done"}
      BY <1>1, <2>1 DEF Begin, TypeOK
    <3>2. ~Staging /\ pc'[r] = "connect" => job'[r].rebind
      <4>1. CASE UNCHANGED job /\ pc' = [pc EXCEPT ![r] = "done"]
        BY <1>1, <4>1 DEF TypeOK
      <4>2. CASE \E opening \in Openings : job' = [job EXCEPT ![r] = opening]
        <5>1. job'[r] \in Openings
          BY <1>1, <4>2 DEF TypeOK
        <5> QED
          BY <5>1 DEF Openings
      <4> QED
        BY <2>1, <4>1, <4>2 DEF Begin
    <3> QED
      BY <3>1, <3>2, SilentStep DEF Reporting, InFlight, Calls, LedgerInv
  <2>2. CASE Kill(r)
    <3>1. pc'[r] = "killed"
      BY <1>1, <2>2 DEF Kill, TypeOK
    <3> QED
      BY <3>1, SilentStep DEF Reporting, InFlight, Calls
  <2>3. CASE Step(r)
    BY <2>3, CallStep, OutcomeStep, RecordStep DEF Step
  <2> QED
    BY <2>1, <2>2, <2>3
<1>5. OneDeployed'
  <2>1. CASE Commit(r)
    <3>1. DeployedOthers(r) \subseteq stale[r]
      BY <1>1, <2>1 DEF Commit, ReportInv
    <3>2. \A c \in Certs : status'[c] = "deployed" =>
             c = job[r].cert \/ (c \notin stale[r] /\ status[c] = "deployed")
      BY <2>1 DEF Commit
    <3> QED
      BY <3>1, <3>2 DEF OneDeployed, DeployedOthers
  <2>2. CASE ~Commit(r)
    <3>1. UNCHANGED status
      BY <2>2, RecordUntouched
    <3> QED
      BY <1>1, <3>1 DEF OneDeployed
  <2> QED
    BY <2>1, <2>2
<1> QED
  BY <1>2, <1>3, <1>4, <1>5, LoadedStep DEF LedgerInv

LEMMA LedgerInductive ==
    ASSUME Serialised, A # B
    PROVE  LedgerInv /\ [Next]_vars => LedgerInv'
<1> SUFFICES ASSUME LedgerInv, [Next]_vars PROVE LedgerInv'
  OBVIOUS
<1>1. Inv /\ TypeOK /\ OneDeployed /\ \A r \in Runs : ReportInv(r) /\ LoadedInv(r)
  BY DEF LedgerInv, Inv
<1>2. Inv'
  BY <1>1, InvInductive
<1>3. CASE Issue
  <2>1. /\ UNCHANGED <<tp, bound, saved, pc, job, result, alive, stale, active>>
        /\ \A c \in Certs : status'[c] = "deployed" => status[c] = "deployed"
        /\ \A c \in Certs : c \in 1 .. issued => status'[c] = status[c]
    BY <1>1, <1>3 DEF Issue, gateway, running, runs, TypeOK, Certs
  <2>2. OneDeployed' /\ \A r \in Runs : DeployedOthers(r)' \subseteq DeployedOthers(r)
    BY <1>1, <2>1 DEF OneDeployed, DeployedOthers
  <2>3. \A r \in Runs : ReportInv(r)'
    BY <1>1, <2>1, <2>2
       DEF ReportInv, Reporting, Durable, GoalHolds, Recordable, ActiveResult
  <2>4. \A r \in Runs : LoadedInv(r)'
    BY <1>1, <2>1 DEF LoadedInv, Inv, RunInv, TypeOK, Jobs
  <2> QED
    BY <1>2, <2>2, <2>3, <2>4 DEF LedgerInv
<1>4. CASE Reload
  <2>1. /\ UNCHANGED <<pc, job, result, stale, status, active, saved>>
        /\ tp' = saved.tp /\ bound' = saved.bound
        /\ \A r \in Runs : ~alive'[r]
    BY <1>4 DEF Reload, ReloadConfig, datastore
  <2>2. OneDeployed'
    BY <1>1, <2>1 DEF OneDeployed
  <2>3. ASSUME NEW r \in Runs PROVE ReportInv(r)'
    <3>1. Durable(r) => Durable(r)'
      BY <2>1 DEF Durable, GoalHolds
    <3> QED
      BY <1>1, <2>1, <3>1
         DEF ReportInv, Reporting, Recordable, ActiveResult, DeployedOthers
  <2>4. \A r \in Runs : LoadedInv(r)'
    BY <1>1, <2>1 DEF LoadedInv
  <2> QED
    BY <1>2, <2>2, <2>3, <2>4 DEF LedgerInv
<1>5. CASE \E r \in Runs : Begin(r) \/ Step(r) \/ Kill(r)
  BY <1>5, RunReport
<1>6. CASE UNCHANGED vars
  <2>1. UNCHANGED <<tp, bound, saved, pc, job, result, alive, stale, status, active>>
    BY <1>6 DEF vars, gateway, running, runs, datastore
  <2> QED
    BY <1>1, <1>2, <2>1
       DEF LedgerInv, OneDeployed, ReportInv, LoadedInv, Reporting, Durable, GoalHolds,
           Recordable, ActiveResult, DeployedOthers
<1> QED
  BY <1>3, <1>4, <1>5, <1>6 DEF Next

LEMMA LedgerHolds ==
    ASSUME Serialised, A # B
    PROVE  Spec => []LedgerInv
<1>1. Init => LedgerInv
  <2> SUFFICES ASSUME Init PROVE LedgerInv
    OBVIOUS
  <2>1. OneDeployed
    BY DEF Init, OneDeployed
  <2>2. \A r \in Runs : ReportInv(r) /\ LoadedInv(r)
    BY DEF Init, ReportInv, LoadedInv, Reporting, InFlight, Calls
  <2> QED
    BY <2>1, <2>2, InitInv DEF LedgerInv
<1>2. LedgerInv /\ [Next]_vars => LedgerInv'
  BY LedgerInductive
<1> QED
  BY <1>1, <1>2, PTL DEF Spec

(***************************************************************************)
(* A run that reports "deployed" with rebind left its certificate bound,   *)
(* and a reload keeps it, whatever else fails, if a save that is answered  *)
(* is carried out.                                                         *)
(***************************************************************************)
THEOREM DeployedLasts ==
    ASSUME Serialised, A # B, "save" \notin Refusals
    PROVE  Spec => []DeployedIsDurable
<1>1. LedgerInv => DeployedIsDurable
  <2> SUFFICES ASSUME LedgerInv, NEW r \in Runs, Reporting(r), result[r] = "deployed",
                      job[r].rebind
               PROVE  Serving = job[r].cert /\ Presented(saved) = job[r].cert
    BY DEF DeployedIsDurable
  <2>1. Durable(r) /\ job[r].goal # NoLabel
    BY GoalNamed DEF LedgerInv, ReportInv
  <2> QED
    BY <2>1 DEF Durable, GoalHolds, Serving, Presented, RunningConfig
<1> QED
  BY <1>1, LedgerHolds, PTL

(***************************************************************************)
(* A run that reports "rolled_back" left the gateway on what it found      *)
(* bound, even if the gateway refuses the commands that bind.              *)
(***************************************************************************)
THEOREM RollbackRestores ==
    ASSUME Serialised, A # B
    PROVE  Spec => []RolledBackRestores
<1>1. LedgerInv => RolledBackRestores
  BY DEF LedgerInv, ReportInv, RolledBackRestores
<1> QED
  BY <1>1, LedgerHolds, PTL

(***************************************************************************)
(* One certificate at most is recorded as deployed.                        *)
(***************************************************************************)
THEOREM OneOnRecord ==
    ASSUME Serialised, A # B
    PROVE  Spec => []OneDeployed
<1>1. LedgerInv => OneDeployed
  BY DEF LedgerInv
<1> QED
  BY <1>1, LedgerHolds, PTL

(***************************************************************************)
(* A certificate is recorded as deployed only while the gateway serves it, *)
(* as long as nothing is staged, and under the label recorded, unless the  *)
(* session of the run loaded that label and it has been replaced on record *)
(* since (app/deployment.py:337 then writes nothing).                      *)
(***************************************************************************)
THEOREM RecordedIsServed ==
    ASSUME Serialised, A # B, ~Staging, "save" \notin Refusals
    PROVE  Spec => LedgerTruthful
<1> DEFINE Truthful ==
      \A c \in Certs : status'[c] = "deployed" /\ status[c] # "deployed" =>
          /\ Serving = c
          /\ \/ bound = active'
             \/ \E r \in Runs : pc[r] = "commit" /\ job[r].cert = c /\ Outdated(r)
<1>1. LedgerInv /\ [Next]_vars => [Truthful]_vars
  <2> SUFFICES ASSUME LedgerInv, Next, NEW c \in Certs,
                      status'[c] = "deployed", status[c] # "deployed"
               PROVE  /\ Serving = c
                      /\ \/ bound = active'
                         \/ \E r \in Runs : /\ pc[r] = "commit" /\ job[r].cert = c
                                            /\ Outdated(r)
    OBVIOUS
  <2>1. status' # status
    OBVIOUS
  <2>2. ~Issue
    BY DEF Issue, LedgerInv, Inv, TypeOK
  <2>3. PICK r \in Runs : Commit(r)
    <3>1. Reload => UNCHANGED status
      BY DEF Reload, datastore
    <3> QED
      BY <2>1, <2>2, <3>1, RecordUntouched DEF Next
  <2>4. /\ pc[r] = "commit" /\ c = job[r].cert
        /\ active' = IF job[r].idle = job[r].loaded THEN active ELSE job[r].idle
    BY <2>3 DEF Commit, RecordActive, Written
  <2>5. Reporting(r) /\ pc[r] \in InFlight
    BY <2>4 DEF Reporting, InFlight
  <2>6. ReportInv(r) /\ job[r].goal # NoLabel
    BY GoalNamed DEF LedgerInv
  <2>7. job[r].rebind /\ result[r] = "deployed" /\ job[r].goal = job[r].idle
    BY <2>4, <2>5, <2>6 DEF ReportInv, Recordable, ActiveResult
  <2>8. Durable(r)
    BY <2>5, <2>6, <2>7 DEF ReportInv
  <2>9. Serving = c
    BY <2>4, <2>6, <2>7, <2>8 DEF Durable, GoalHolds, Serving, Presented, RunningConfig
  <2>10. bound = active' \/ Outdated(r)
    BY <2>4, <2>7, <2>8 DEF Durable, Outdated
  <2> QED
    BY <2>4, <2>9, <2>10
<1> QED
  BY <1>1, LedgerHolds, PTL DEF Spec, LedgerTruthful

-----------------------------------------------------------------------------
(* When the record follows the gateway                                     *)

Ended == {r \in Runs : pc[r] \in {"done", "killed"}}

\* The run has cut over to the label its certificate was destined for, and the
\* session had not loaded the device with that label on record.
AsPlanned(r) ==
    /\ pc[r] = "done" /\ result[r] = "deployed"
    /\ job[r].rebind /\ job[r].goal = job[r].idle
    /\ Lagging => job[r].loaded # job[r].idle

\* The phases of a run in which the binding is still the one it found
BeforeBinding == BeforeCutover \cup {"connect", "read"}

\* Certificate c is served, also after a reload, and is on record as deployed
\* under the label that is bound.
OnRecord(c) ==
    /\ c \in 1 .. issued /\ status[c] = "deployed"
    /\ bound \in Labels /\ active = bound /\ saved.bound = bound
    /\ tp[bound] = c /\ saved.tp[bound] = c

\* Runs that are over went as planned, and the one in flight has not bound
\* anything yet.
Settled ==
    /\ Ended # {} /\ \A r \in Ended : AsPlanned(r)
    /\ \A r \in Runs : pc[r] \in InFlight => pc[r] \in BeforeBinding

FollowInv == Settled => \E c \in Certs : OnRecord(c)

\* A step that leaves a run before its binding leaves the record as it is.
LEMMA EarlyFollows ==
    ASSUME LedgerInv, NEW r \in Runs, Step(r), pc'[r] \in BeforeBinding
    PROVE  /\ pc[r] \in BeforeBinding
           /\ \A c \in Certs : OnRecord(c) => OnRecord(c)'
<1>1. Inv /\ TypeOK
  BY DEF LedgerInv, Inv
<1>2. ~Raise(r)
  BY <1>1 DEF Raise, Finish, TypeOK, BeforeBinding, BeforeCutover
<1>3. ASSUME NEW phase, Goto(r, phase) PROVE pc'[r] = phase /\ UNCHANGED datastore
  BY <1>1, <1>3 DEF Goto, TypeOK
<1>4. ASSUME NEW outcome PROVE ~Finish(r, outcome, "cleanup")
  BY <1>1 DEF Finish, TypeOK, BeforeBinding, BeforeCutover
<1>5. CASE \/ Upload(r) \/ PrepareDerived(r) \/ PrepareTrustpoint(r) \/ PrepareKey(r)
           \/ Import(r) \/ ImportBreaks(r) \/ SetRevocation(r)
  <2>1. bound' = bound /\ saved' = saved /\ (bound \in Labels => tp'[bound] = tp[bound])
    BY <1>1, <1>5, BeforeKeeps
  <2>2. pc[r] \in BeforeBinding /\ UNCHANGED datastore
    BY <1>2, <1>3, <1>5
       DEF Upload, PrepareDerived, PrepareTrustpoint, PrepareKey, Import, ImportBreaks,
           SetRevocation, Call, BeforeBinding, BeforeCutover
  <2> QED
    BY <2>1, <2>2 DEF OnRecord, datastore
<1>6. CASE Connect(r) \/ ReadState(r) \/ Reconnect(r) \/ Verify(r)
  <2>1. UNCHANGED gateway /\ UNCHANGED datastore /\ pc[r] \in BeforeBinding
    BY <1>2, <1>3, <1>4, <1>6
       DEF Connect, ReadState, Reconnect, Verify, Look, BeforeBinding, BeforeCutover
  <2> QED
    BY <2>1 DEF OnRecord, datastore, gateway, running
<1>7. ASSUME \/ Bind(r) \/ Confirm(r) \/ Rollback(r) \/ Save(r) \/ Cleanup(r) \/ Settle(r)
             \/ Commit(r)
      PROVE  FALSE
  <2>1. pc'[r] \in {"confirm", "save", "rollback", "settle", "commit", "done"}
    BY <1>1, <1>2, <1>3, <1>4, <1>7
       DEF Bind, Confirm, Rollback, Save, Cleanup, Settle, Commit, Call, Look, TypeOK
  <2> QED
    BY <2>1 DEF BeforeBinding, BeforeCutover
<1> QED
  BY <1>5, <1>6, <1>7 DEF Step

\* A run that ends as planned has brought the record up to date.
LEMMA LastFollows ==
    ASSUME "save" \notin Refusals, LedgerInv, NEW r \in Runs, Step(r), AsPlanned(r)'
    PROVE  \E c \in Certs : OnRecord(c)'
<1>1. /\ Inv /\ TypeOK /\ TypeOK' /\ ReportInv(r) /\ LoadedInv(r) /\ RunInv(r)
      /\ job[r].goal \in Labels
  BY StepType DEF LedgerInv, Inv, TypeOK, Jobs, Next
<1>2. pc'[r] = "done"
  BY DEF AsPlanned
<1>3. Settle(r) \/ Commit(r)
  BY <1>1, <1>2
     DEF Step, Connect, ReadState, Upload, PrepareDerived, PrepareTrustpoint, PrepareKey,
         Import, ImportBreaks, Reconnect, SetRevocation, Verify, Bind, Confirm, Rollback, Save,
         Cleanup, Call, Look, Goto, Finish, Raise, TypeOK
<1>4. UNCHANGED <<job, result, tp, bound, saved>>
  BY <1>3 DEF Settle, Commit, gateway, running
<1>5. ~Settle(r)
  <2>1. ASSUME Settle(r) PROVE Recordable(r)
    BY <1>4 DEF AsPlanned, Recordable, ActiveResult
  <2> QED
    BY <1>1, <1>2, <2>1 DEF Settle, TypeOK
<1>6. Commit(r) /\ pc[r] = "commit"
  BY <1>3, <1>5 DEF Commit
<1>7. Durable(r) /\ job[r].cert \in 1 .. issued
  BY <1>1, <1>4, <1>6 DEF ReportInv, Reporting, AsPlanned, RunInv, InFlight
<1>8. /\ ~Lagging => job[r].loaded = active
      /\ job[r].known => status[job[r].cert] = "deployed"
  BY <1>1, <1>6 DEF LoadedInv, InFlight
<1>9. /\ status'[job[r].cert] = "deployed" /\ issued' = issued
      /\ job[r].cert \in Certs
  BY <1>1, <1>6, <1>8 DEF Commit, TypeOK, Jobs
<1>10. active' = job[r].idle
  BY <1>4, <1>6, <1>8 DEF Commit, RecordActive, Written, AsPlanned
<1> QED
  BY <1>1, <1>4, <1>7, <1>9, <1>10 DEF OnRecord, Durable, GoalHolds, AsPlanned

LEMMA FollowStep ==
    ASSUME Serialised, A # B, "save" \notin Refusals
    PROVE  LedgerInv /\ FollowInv /\ [Next]_vars => FollowInv'
<1> SUFFICES ASSUME LedgerInv, FollowInv, [Next]_vars, Settled'
             PROVE  \E c \in Certs : OnRecord(c)'
  BY DEF FollowInv
<1>1. Inv /\ TypeOK /\ OneInFlight
  BY DEF LedgerInv, Inv
<1>2. CASE Issue
  <2>1. /\ UNCHANGED <<tp, bound, saved, active, pc, job, result>>
        /\ issued \in Nat /\ issued' = issued + 1
        /\ \A c \in Certs : c <= issued => status'[c] = status[c]
    BY <1>1, <1>2 DEF Issue, gateway, running, runs, TypeOK, Certs
  <2>2. Settled
    BY <2>1 DEF Settled, Ended, AsPlanned
  <2>3. PICK c \in Certs : OnRecord(c)
    BY <2>2 DEF FollowInv
  <2>4. c \in 1 .. issued' /\ c <= issued
    BY <2>1, <2>3 DEF OnRecord
  <2> QED
    BY <2>1, <2>3, <2>4 DEF OnRecord
<1>3. CASE Reload
  <2>1. /\ UNCHANGED <<saved, active, status, issued, pc, job, result>>
        /\ tp' = saved.tp /\ bound' = saved.bound
    BY <1>3 DEF Reload, ReloadConfig, datastore
  <2>2. Settled
    BY <2>1 DEF Settled, Ended, AsPlanned
  <2> QED
    BY <2>1, <2>2 DEF FollowInv, OnRecord
<1>4. ASSUME NEW r \in Runs, Begin(r) \/ Step(r) \/ Kill(r)
      PROVE  \E c \in Certs : OnRecord(c)'
  <2>1. \A q \in Runs \ {r} : pc'[q] = pc[q] /\ job'[q] = job[q] /\ result'[q] = result[q]
    BY <1>1, <1>4 DEF TypeOK, Begin, Step, Kill, Connect, ReadState, Upload, PrepareDerived,
       PrepareTrustpoint, PrepareKey, Import, ImportBreaks, Reconnect, SetRevocation, Verify,
       Bind, Confirm, Rollback, Save, Cleanup, Settle, Commit, Call, Look, Goto, Finish, Raise
  <2>2. \A q \in Runs \ {r} : /\ q \in Ended' <=> q \in Ended
                              /\ AsPlanned(q)' <=> AsPlanned(q)
    BY <2>1 DEF Ended, AsPlanned
  <2>3. r \notin Ended
    <3>1. pc[r] \in {"ready"} \cup InFlight
      BY <1>4 DEF Begin, Step, Kill, Connect, ReadState, Upload, PrepareDerived,
         PrepareTrustpoint, PrepareKey, Import, ImportBreaks, Reconnect, SetRevocation, Verify,
         Bind, Confirm, Rollback, Save, Cleanup, Settle, Commit, Call, Look, InFlight, Calls
    <3> QED
      BY <3>1 DEF Ended, InFlight, Calls
  <2>4. CASE r \in Ended'
    <3>1. AsPlanned(r)'
      BY <2>4 DEF Settled
    <3>2. ~Begin(r) /\ ~Kill(r)
      BY <1>1, <3>1 DEF AsPlanned, Begin, Kill, TypeOK
    <3> QED
      BY <1>4, <3>1, <3>2, LastFollows
  <2>5. CASE r \notin Ended'
    <3>1. Ended' = Ended
      <4>1. Ended' \subseteq Runs /\ Ended \subseteq Runs
        BY DEF Ended
      <4> QED
        BY <2>2, <2>3, <2>5, <4>1
    <3>2. Ended # {} /\ \A q \in Ended : AsPlanned(q)
      <4>1. Ended' # {} /\ \A q \in Ended' : AsPlanned(q)'
        BY DEF Settled
      <4>2. r \notin Ended /\ Ended \subseteq Runs
        BY <2>3 DEF Ended
      <4> QED
        BY <2>2, <3>1, <4>1, <4>2
    <3>3. \A q \in Runs \ {r} : pc[q] \notin InFlight
      <4>1. \A q \in Runs \ {r} : pc'[q] \notin InFlight
        BY <1>1, <1>4, OthersKeep
      <4> QED
        BY <2>1, <4>1
    <3>4. CASE Begin(r)
      <4>1. Settled /\ UNCHANGED <<gateway, datastore>>
        BY <3>2, <3>3, <3>4 DEF Settled, Begin, InFlight, Calls
      <4> QED
        BY <4>1 DEF FollowInv, OnRecord, gateway, running, datastore
    <3>5. CASE Step(r)
      <4>1. pc'[r] \in InFlight
        <5>1. pc'[r] \in Phases /\ pc'[r] # "ready"
          <6>1. TypeOK'
            BY <1>1, <1>4, StepType DEF Next
          <6>2. pc'[r] # "ready"
            BY <1>1, <3>5
               DEF Step, Connect, ReadState, Upload, PrepareDerived, PrepareTrustpoint, PrepareKey,
                   Import, ImportBreaks, Reconnect, SetRevocation, Verify, Bind, Confirm, Rollback,
                   Save, Cleanup, Settle, Commit, Call, Look, Goto, Finish, Raise, TypeOK
          <6> QED
            BY <6>1, <6>2 DEF TypeOK
        <5> QED
          BY <2>5, <5>1 DEF Ended, Phases
      <4>2. pc'[r] \in BeforeBinding
        BY <4>1 DEF Settled
      <4>3. pc[r] \in BeforeBinding /\ \A c \in Certs : OnRecord(c) => OnRecord(c)'
        BY <3>5, <4>2, EarlyFollows
      <4>4. Settled
        BY <3>2, <3>3, <4>3 DEF Settled
      <4> QED
        BY <4>3, <4>4 DEF FollowInv
    <3>6. ~Kill(r)
      BY <1>1, <2>5 DEF Kill, Ended, TypeOK
    <3> QED
      BY <1>4, <3>4, <3>5, <3>6
  <2> QED
    BY <2>4, <2>5
<1>5. CASE UNCHANGED vars
  <2>1. UNCHANGED <<tp, bound, saved, active, status, issued, pc, job, result>>
    BY <1>5 DEF vars, gateway, running, datastore, runs
  <2>2. Settled
    BY <2>1 DEF Settled, Ended, AsPlanned
  <2> QED
    BY <2>1, <2>2 DEF FollowInv, OnRecord
<1> QED
  BY <1>2, <1>3, <1>4, <1>5 DEF Next

LEMMA FollowHolds ==
    ASSUME Serialised, A # B, "save" \notin Refusals
    PROVE  Spec => []FollowInv
<1>1. Init => FollowInv
  BY DEF Init, FollowInv, Settled, Ended
<1>2. LedgerInv /\ FollowInv /\ [Next]_vars => FollowInv'
  BY FollowStep
<1> QED
  BY <1>1, <1>2, LedgerHolds, PTL DEF Spec

\* No run that is over has cut over to the other label than its certificate
\* was destined for.
NoneSwapped == \A r \in Runs : pc[r] = "done" => job[r].goal = job[r].idle

\* Nor has it left out the label because its session had loaded it before.
NoneOmitted ==
    Lagging => \A r \in Runs : pc[r] = "done" => job[r].loaded # job[r].idle

(***************************************************************************)
(* After runs that all deployed, the label on record as active is the one  *)
(* bound, whatever calls failed on the way and however often the gateway   *)
(* reloaded, with two exceptions that the code has: the swap of the run    *)
(* deploy_swap_unrecorded (app/deployment.py:335), and a session of a      *)
(* cycle or of the CLI that loaded the label it assigns before others      *)
(* changed the record (app/deployment.py:337).                             *)
(***************************************************************************)
THEOREM RecordFollows ==
    ASSUME Serialised, A # B, "save" \notin Refusals
    PROVE  Spec => [](NoneSwapped /\ NoneOmitted => LedgerFollowsCutover)
<1>1. FollowInv => (NoneSwapped /\ NoneOmitted => LedgerFollowsCutover)
  <2> SUFFICES ASSUME FollowInv, NoneSwapped, NoneOmitted,
                      \A r \in Runs : /\ pc[r] \in {"ready", "done"}
                                      /\ pc[r] = "done" => result[r] = "deployed" /\ job[r].rebind,
                      \E r \in Runs : pc[r] = "done"
               PROVE  active = bound
    BY DEF LedgerFollowsCutover
  <2>1. Settled
    BY DEF Settled, Ended, AsPlanned, NoneSwapped, NoneOmitted, InFlight, Calls
  <2> QED
    BY <2>1 DEF FollowInv, OnRecord
<1> QED
  BY <1>1, FollowHolds, PTL

(***************************************************************************)
(* Under the same conditions the certificate that is served is the one on  *)
(* record as deployed, and a reload does not change that (deployment.py:   *)
(* 335-341), from the first run that went as planned until the next one    *)
(* binds.                                                                  *)
(***************************************************************************)
THEOREM ServedIsRecorded ==
    ASSUME Serialised, A # B, "save" \notin Refusals
    PROVE  Spec => [](Settled => status[Serving] = "deployed" /\ Presented(saved) = Serving)
<1>1. FollowInv => (Settled => status[Serving] = "deployed" /\ Presented(saved) = Serving)
  <2> SUFFICES ASSUME FollowInv, Settled
               PROVE  status[Serving] = "deployed" /\ Presented(saved) = Serving
    OBVIOUS
  <2>1. PICK c \in Certs : OnRecord(c)
    BY DEF FollowInv
  <2>2. bound # NoLabel
    BY <2>1 DEF OnRecord
  <2> QED
    BY <2>1, <2>2 DEF OnRecord, Serving, Presented, RunningConfig
<1> QED
  BY <1>1, FollowHolds, PTL

-----------------------------------------------------------------------------
(* What is left on flash                                                   *)

\* A bundle on flash has a run that has yet to remove it.
FlashOwned == flash # NoFile => \E r \in Runs : pc[r] \in InTry \cup {"cleanup"}

\* A run that cannot be interrupted, and whose upload and removal of the
\* bundle do not fail, once begun
Undisturbed ==
    /\ ~Crashes /\ MaxReloads = 0
    /\ "upload" \notin LateErrors /\ "cleanup" \notin Errors \cup Refusals

FlashInv == TypeOK /\ FlashOwned /\ \A r \in Runs : alive[r]

LEMMA FlashStep ==
    ASSUME Undisturbed, FlashInv, NEW r \in Runs, Begin(r) \/ Step(r) \/ Kill(r)
    PROVE  FlashOwned' /\ \A q \in Runs : alive'[q]
<1> DEFINE Owing == InTry \cup {"cleanup"}
<1>1. TypeOK /\ alive[r]
  BY DEF FlashInv
<1>2. \A q \in Runs : alive'[q]
  <2>1. CASE Connect(r)
    BY <2>1 DEF Connect, Raise, Finish, FlashInv, TypeOK
  <2>2. CASE ~Connect(r)
    <3>1. UNCHANGED alive
      BY <2>2 DEF Begin, Kill, Step, ReadState, Upload, PrepareDerived, PrepareTrustpoint,
         PrepareKey, Import, ImportBreaks, Reconnect, SetRevocation, Verify, Bind, Confirm,
         Rollback, Save, Cleanup, Settle, Commit, Call, Look, Goto, Finish, Raise
    <3> QED
      BY <3>1 DEF FlashInv
  <2> QED
    BY <2>1, <2>2
<1>3. \A q \in Runs \ {r} : pc'[q] = pc[q]
  BY <1>1 DEF TypeOK, Begin, Kill, Step, Connect, ReadState, Upload, PrepareDerived,
     PrepareTrustpoint, PrepareKey, Import, ImportBreaks, Reconnect, SetRevocation, Verify,
     Bind, Confirm, Rollback, Save, Cleanup, Settle, Commit, Call, Look, Goto, Finish, Raise
<1>4. \/ flash' = NoFile
      \/ flash' = flash /\ (pc[r] \in Owing => pc'[r] \in Owing)
      \/ pc'[r] \in Owing
  <2>1. ASSUME NEW phase, Goto(r, phase) \/ \E outcome : Finish(r, outcome, phase)
        PROVE  pc'[r] = phase
    BY <1>1, <2>1 DEF Goto, Finish, TypeOK
  <2>2. pc[r] \in InTry /\ Raise(r) => pc'[r] \in Owing
    BY <2>1 DEF Raise
  <2>3. CASE Begin(r) \/ Connect(r) \/ ReadState(r) \/ Settle(r) \/ Commit(r)
    <3>1. UNCHANGED gateway
      BY <2>3 DEF Begin, Connect, ReadState, Settle, Commit
    <3>2. pc[r] \notin Owing
      BY <2>3 DEF Begin, Connect, ReadState, Settle, Commit, InTry, Calls
    <3> QED
      BY <3>1, <3>2 DEF gateway
  <2>4. CASE Upload(r)
    <3>1. pc[r] = "upload" /\ (UNCHANGED gateway \/ Goto(r, "derived"))
      BY <2>4 DEF Upload, Call, Undisturbed
    <3>2. pc[r] \notin Owing /\ "derived" \in Owing
      BY <3>1 DEF InTry, Calls
    <3> QED
      BY <2>1, <3>1, <3>2 DEF gateway
  <2>5. CASE Cleanup(r)
    BY <1>1, <2>5 DEF Cleanup, Breaks, Undisturbed, DeleteFile
  <2>6. CASE \/ PrepareDerived(r) \/ PrepareTrustpoint(r) \/ PrepareKey(r)
             \/ Import(r) \/ ImportBreaks(r) \/ Reconnect(r) \/ SetRevocation(r)
    <3>1. pc[r] \in InTry
      BY <2>6 DEF PrepareDerived, PrepareTrustpoint, PrepareKey, Import, ImportBreaks,
         Reconnect, SetRevocation, Call, Look, InTry, Calls
    <3>2. Raise(r) \/ \E phase \in InTry : Goto(r, phase)
      BY <2>6 DEF PrepareDerived, PrepareTrustpoint, PrepareKey, Import, ImportBreaks,
         Reconnect, SetRevocation, Call, Look, InTry, Calls
    <3> QED
      BY <2>1, <2>2, <3>1, <3>2
  <2>7. CASE Verify(r) \/ Bind(r) \/ Confirm(r) \/ Rollback(r) \/ Save(r)
    <3>1. pc[r] \in InTry
      BY <2>7 DEF Verify, Bind, Confirm, Rollback, Save, Call, Look, InTry, Calls
    <3>2. \/ Raise(r) \/ \E phase \in InTry : Goto(r, phase)
          \/ \E outcome : Finish(r, outcome, "cleanup")
      BY <2>7 DEF Verify, Bind, Confirm, Rollback, Save, Call, Look, InTry, Calls
    <3> QED
      BY <2>1, <2>2, <3>1, <3>2
  <2>8. ~Kill(r)
    BY DEF Kill, Undisturbed
  <2> QED
    BY <2>3, <2>4, <2>5, <2>6, <2>7, <2>8 DEF Step
<1> QED
  BY <1>2, <1>3, <1>4 DEF FlashInv, FlashOwned

(***************************************************************************)
(* When nothing interrupts a run, and neither its upload nor its removal   *)
(* of the bundle fails, no bundle stays on flash: whatever other calls     *)
(* fail, and however runs overlap.                                         *)
(***************************************************************************)
THEOREM BundleRemoved ==
    ASSUME Undisturbed
    PROVE  Spec => []BundleGone
<1>1. Init => FlashInv
  BY InitType DEF Init, GatewayInit, FlashInv, FlashOwned
<1>2. FlashInv /\ [Next]_vars => FlashInv'
  <2> SUFFICES ASSUME FlashInv, [Next]_vars PROVE FlashInv'
    OBVIOUS
  <2>1. TypeOK'
    BY StepType DEF FlashInv
  <2>2. ~Reload
    BY DEF Reload, Undisturbed, FlashInv, TypeOK
  <2>3. CASE Issue \/ UNCHANGED vars
    <3>1. UNCHANGED <<flash, pc, alive>>
      BY <2>3 DEF Issue, vars, gateway, runs
    <3> QED
      BY <2>1, <3>1 DEF FlashInv, FlashOwned
  <2>4. CASE \E r \in Runs : Begin(r) \/ Step(r) \/ Kill(r)
    BY <2>1, <2>4, FlashStep DEF FlashInv
  <2> QED
    BY <2>2, <2>3, <2>4 DEF Next
<1>3. FlashInv => BundleGone
  BY DEF FlashInv, FlashOwned, BundleGone, InFlight, InTry, Calls
<1> QED
  BY <1>1, <1>2, <1>3, PTL DEF Spec

=============================================================================
