------------------------- MODULE RenewalCycleProofs -------------------------
(***************************************************************************)
(* Theorems about module RenewalCycle, for any fleet, any lifetime and     *)
(* thresholds, and any number of operators.                                *)
(***************************************************************************)
EXTENDS RenewalCycle, FiniteSets, FiniteSetTheorems, TLAPS

USE ValidityAssumption, ThresholdAssumption, TroubleAssumption,
    CyclesAssumption, RenewalFlagsAssumption, NullsAssumption

-----------------------------------------------------------------------------
(* Type correctness                                                        *)

LEMMA RenewalInitType == Init => TypeOK
<1> SUFFICES ASSUME Init PROVE TypeOK
  OBVIOUS
<1> USE DEF Init
<1>1. /\ enabled \subseteq enrolled /\ enrolled \subseteq Devices /\ passed \subseteq Devices
      /\ newest \in [Devices -> Days \cup {NoCert}]
      /\ served \in [Devices -> Days \cup {Foreign}]
      /\ fired \in BOOLEAN
  OBVIOUS
<1>2. /\ ordered \in [Devices -> 0 .. 2]
      /\ failing \in [Devices -> 0 .. MaxTrouble]
  OBVIOUS
<1>3. /\ pc \in [Cycles -> Phases]
      /\ todo \in [Cycles -> SUBSET Devices]
      /\ got \in [Cycles -> SUBSET Devices]
  BY DEF Phases
<1>4. at \in [Cycles -> Devices]
  OBVIOUS
<1>5. pick \in [Cycles -> Days]
  BY DEF Days
<1>6. mode \in [Cycles -> Modes]
  BY DEF Modes, Automatic
<1> QED
  BY <1>1, <1>2, <1>3, <1>4, <1>5, <1>6 DEF TypeOK

\* The variables of a cycle
CycleTypeOK ==
    /\ fired \in BOOLEAN
    /\ pc \in [Cycles -> Phases]
    /\ todo \in [Cycles -> SUBSET Devices]
    /\ at \in [Cycles -> Devices]
    /\ got \in [Cycles -> SUBSET Devices]
    /\ pick \in [Cycles -> Days]
    /\ mode \in [Cycles -> Modes]

\* The variables of the fleet
FleetTypeOK ==
    /\ enabled \subseteq enrolled /\ enrolled \subseteq Devices
    /\ passed \subseteq Devices
    /\ newest \in [Devices -> Days \cup {NoCert}]
    /\ served \in [Devices -> Days \cup {Foreign}]
    /\ ordered \in [Devices -> 0 .. 2]
    /\ failing \in [Devices -> 0 .. MaxTrouble]

LEMMA TypeParts ==
    /\ TypeOK <=> CycleTypeOK /\ FleetTypeOK
    /\ TypeOK' <=> CycleTypeOK' /\ FleetTypeOK'
  BY DEF TypeOK, CycleTypeOK, FleetTypeOK

LEMMA EndType ==
    ASSUME CycleTypeOK, NEW k \in Cycles, End(k)
    PROVE  CycleTypeOK'
  BY DEF CycleTypeOK, End, Phases, Days, Modes, Automatic

LEMMA RecordType ==
    ASSUME CycleTypeOK, NEW k \in Cycles, NEW phase \in Phases, Record(k, phase)
    PROVE  CycleTypeOK'
  BY EndType DEF CycleTypeOK, Record, Proceed

LEMMA BeginType ==
    ASSUME CycleTypeOK, NEW k \in Cycles,
           NEW work \in SUBSET Devices, NEW deploy \in BOOLEAN,
           NEW force \in BOOLEAN, fired' \in BOOLEAN, Begin(k, work, deploy, force)
    PROVE  CycleTypeOK'
<1>3. UNCHANGED <<at, got, pick>>
  BY DEF Begin
<1>4. CASE work = {}
  <2>1. UNCHANGED <<pc, todo, mode>>
    BY <1>4 DEF Begin
  <2> QED
    BY <1>3, <2>1 DEF CycleTypeOK
<1>5. CASE work # {}
  <2>1. [deploy |-> deploy, force |-> force] \in Modes /\ "check" \in Phases
    BY DEF Modes, Phases
  <2>2. pc' \in [Cycles -> Phases] /\ todo' \in [Cycles -> SUBSET Devices]
    BY <1>5, <2>1 DEF CycleTypeOK, Begin
  <2>3. mode' \in [Cycles -> Modes]
    BY <1>5, <2>1 DEF CycleTypeOK, Begin
  <2> QED
    BY <1>3, <2>2, <2>3 DEF CycleTypeOK
<1> QED
  BY <1>4, <1>5

LEMMA StepType ==
    ASSUME TypeOK, NEW k \in Cycles, Step(k)
    PROVE  TypeOK'
<1>1. CycleTypeOK /\ FleetTypeOK /\ at[k] \in Devices
  BY TypeParts DEF CycleTypeOK
<1> USE <1>1
<1>2. ASSUME UNCHANGED devices PROVE FleetTypeOK'
  BY <1>2 DEF FleetTypeOK, devices
<1>3. CASE Check(k)
  <2>1. CycleTypeOK'
    BY <1>3 DEF Check, CycleTypeOK, Phases
  <2> QED
    BY <2>1, <1>2, <1>3, TypeParts DEF Check
<1>4. CASE OrderSucceeds(k)
  <2>1. FleetTypeOK'
    BY <1>4 DEF OrderSucceeds, FleetTypeOK, Days
  <2>2. CycleTypeOK'
    BY <1>4 DEF OrderSucceeds, CycleTypeOK, Phases
  <2> QED
    BY <2>1, <2>2, TypeParts
<1>5. CASE LogIssued(k)
  <2>1. CycleTypeOK'
    BY <1>5, RecordType DEF LogIssued, Phases
  <2> QED
    BY <2>1, <1>2, <1>5, TypeParts DEF LogIssued
<1>6. CASE OrderFails(k)
  <2>1. CycleTypeOK'
    BY <1>6, RecordType DEF OrderFails, Phases
  <2>2. FleetTypeOK'
    BY <1>6 DEF OrderFails, FleetTypeOK
  <2> QED
    BY <2>1, <2>2, TypeParts
<1>7. CASE IssuesDone(k) \/ Close(k) \/ PushRaises(k)
  <2>1. CycleTypeOK'
    BY <1>7, EndType DEF IssuesDone, Close, PushRaises, CycleTypeOK, Phases
  <2> QED
    BY <2>1, <1>2, <1>7, TypeParts DEF IssuesDone, Close, PushRaises
<1>8. CASE Fetch(k)
  <2>1. ASSUME NEW d \in Devices, newest[d] # NoCert PROVE newest[d] \in Days
    BY <2>1 DEF FleetTypeOK
  <2>2. CycleTypeOK'
    BY <1>8, <2>1 DEF Fetch, CycleTypeOK, Phases
  <2> QED
    BY <2>2, <1>2, <1>8, TypeParts DEF Fetch
<1>9. CASE Push(k)
  <2>1. CycleTypeOK'
    BY <1>9, RecordType DEF Push, Phases
  <2>2. FleetTypeOK'
    BY <1>9 DEF Push, FleetTypeOK, CycleTypeOK
  <2> QED
    BY <2>1, <2>2, TypeParts
<1> QED
  BY <1>3, <1>4, <1>5, <1>6, <1>7, <1>8, <1>9 DEF Step

\* Every variable keeps its type: the fleet's and those of the cycles that
\* run over it.
THEOREM RenewalTypeCorrect == Spec => []TypeOK
<1>1. Init => TypeOK
  BY RenewalInitType
<1>2. TypeOK /\ [Next]_vars => TypeOK'
  <2> SUFFICES ASSUME TypeOK, [Next]_vars PROVE TypeOK'
    OBVIOUS
  <2>1. CycleTypeOK /\ FleetTypeOK
    BY TypeParts
  <2> USE <2>1
  <2>2. DueDevices \in SUBSET Devices /\ PassedOver \in SUBSET Devices /\ Sched \in Cycles
    BY DEF DueDevices, PassedOver, FleetTypeOK, Cycles
  <2>3. CASE Fire
    <3>1. CycleTypeOK'
      BY <2>2, <2>3, BeginType DEF Fire
    <3>2. FleetTypeOK'
      BY <2>2, <2>3 DEF Fire, FleetTypeOK
    <3> QED
      BY <3>1, <3>2, TypeParts
  <2>4. ASSUME NEW k \in Manual, Trigger(k) PROVE TypeOK'
    <3>1. PICK deploy \in BOOLEAN : Begin(k, DueDevices, deploy, FALSE)
      BY <2>4 DEF Trigger
    <3>2. k \in Cycles /\ fired' \in BOOLEAN
      BY <2>4 DEF Trigger, Cycles, CycleTypeOK
    <3>3. FleetTypeOK'
      BY <2>4 DEF Trigger, FleetTypeOK, devices
    <3> QED
      BY <2>2, <3>1, <3>2, <3>3, BeginType, TypeParts
  <2>5. ASSUME NEW k \in Manual, IssueRun(k) PROVE TypeOK'
    <3>1. PICK work \in SUBSET Devices, force \in BOOLEAN : Begin(k, work, FALSE, force)
      BY <2>5 DEF IssueRun, FleetTypeOK
    <3>2. k \in Cycles /\ fired' \in BOOLEAN
      BY <2>5 DEF IssueRun, Cycles, CycleTypeOK
    <3>3. FleetTypeOK'
      BY <2>5 DEF IssueRun, FleetTypeOK, devices
    <3> QED
      BY <3>1, <3>2, <3>3, BeginType, TypeParts
  <2>6. CASE \E k \in Cycles : Step(k)
    BY <2>6, StepType
  <2>7. ASSUME NEW left \in SUBSET Devices, Trouble(left)
        PROVE  failing' \in [Devices -> 0 .. MaxTrouble]
    BY <2>7 DEF Trouble, FleetTypeOK
  <2>8. CASE Miss
    <3>1. failing' \in [Devices -> 0 .. MaxTrouble]
      BY <2>8, <2>2, <2>7 DEF Miss
    <3> QED
      BY <3>1, <2>2, <2>8, TypeParts DEF Miss, FleetTypeOK, CycleTypeOK, cycles
  <2>9. ASSUME NEW k \in Cycles, CutShort(k) PROVE TypeOK'
    <3>1. {d \in todo[k] \cap enrolled : Due(d)} \in SUBSET Devices
      BY DEF CycleTypeOK
    <3>2. failing' \in [Devices -> 0 .. MaxTrouble]
      BY <2>9, <3>1, <2>7 DEF CutShort
    <3>3. CycleTypeOK'
      BY <2>9, EndType DEF CutShort
    <3> QED
      BY <2>9, <3>2, <3>3, TypeParts DEF CutShort, FleetTypeOK
  <2>10. ASSUME NEW d \in Devices, Delete(d) PROVE TypeOK'
    BY <2>10, TypeParts DEF Delete, FleetTypeOK, CycleTypeOK, cycles
  <2>11. CASE Tick
    <3>1. ASSUME NEW n \in Days, n # 0 PROVE n - 1 \in Days
      BY <3>1 DEF Days
    <3>2. newest' \in [Devices -> Days \cup {NoCert}]
      BY <2>11, <3>1 DEF Tick, FleetTypeOK
    <3>3. served' \in [Devices -> Days \cup {Foreign}]
      BY <2>11, <3>1 DEF Tick, FleetTypeOK
    <3>4. ordered' \in [Devices -> 0 .. 2]
      BY <2>11 DEF Tick
    <3>5. FleetTypeOK'
      BY <2>11, <3>2, <3>3, <3>4 DEF Tick, FleetTypeOK
    <3>6. CycleTypeOK'
      BY <2>11 DEF Tick, CycleTypeOK, cycles
    <3> QED
      BY <3>5, <3>6, TypeParts
  <2>12. CASE UNCHANGED vars
    BY <2>12, TypeParts DEF vars, devices, cycles, FleetTypeOK, CycleTypeOK
  <2>13. ASSUME NEW d \in Devices, Switch(d) PROVE TypeOK'
    BY <2>13, TypeParts DEF Switch, FleetTypeOK, CycleTypeOK, cycles
  <2> QED
    BY <2>3, <2>4, <2>5, <2>6, <2>8, <2>9, <2>10, <2>11, <2>12, <2>13 DEF Next
<1> QED
  BY <1>1, <1>2, PTL DEF Spec

-----------------------------------------------------------------------------
(* Nothing expires                                                         *)

\* Deployments work and the trouble stays below every device's margin.
Quiet ==
    /\ ~DeployFaults /\ ~VaultFaults /\ ~Deletes /\ ~Crashes /\ ~IssueOnly
    /\ \A d \in Devices : MaxTrouble < Threshold[d] /\ Threshold[d] < Validity

Ordering == {"check", "order", "log"}
Deploying == {"fetch", "push"}

\* A cycle deploys what it has obtained, which is as fresh as can be.
CycleInv(k) ==
    /\ mode[k] = Automatic
    /\ pc[k] = "idle" => todo[k] = {} /\ got[k] = {}
    /\ pc[k] \in {"order", "log", "push"} => at[k] \in todo[k]
    /\ pc[k] = "log" => at[k] \in got[k]
    /\ pc[k] \in Deploying => todo[k] \subseteq got[k]
    /\ pc[k] = "push" => pick[k] = Validity
    /\ \A d \in got[k] : newest[d] = Validity

\* Some cycle has still to deploy what it has obtained for d.
Undelivered(d) ==
    \E k \in Cycles : d \in got[k] /\ (pc[k] \in Deploying => d \in todo[k])

\* The scheduler's cycle of the day has still to look at d.
Waiting(d) == ~fired \/ (pc[Sched] \in Ordering /\ d \in todo[Sched])

\* What is left of the margin is eaten up by trouble only, unless the device
\* is disabled.
MarginInv(d) ==
    d \notin passed /\ newest[d] # NoCert =>
        /\ newest[d] + failing[d] >= Threshold[d]
        /\ ~Waiting(d) => newest[d] + failing[d] > Threshold[d]

\* What the gateway serves is what is on record, or about to be.
ServedInv(d) ==
    /\ newest[d] = NoCert => served[d] = Foreign
    /\ newest[d] # NoCert => served[d] = newest[d] \/ Undelivered(d)

RenewalInv ==
    /\ TypeOK
    /\ enrolled = Devices
    /\ \A k \in Cycles : CycleInv(k)
    /\ \A d \in Devices : MarginInv(d) /\ ServedInv(d)

\* What a step of cycle k leaves alone: the other cycles' variables
Apart(k) ==
    \A j \in Cycles \ {k} :
        /\ pc'[j] = pc[j] /\ todo'[j] = todo[j] /\ at'[j] = at[j]
        /\ got'[j] = got[j] /\ pick'[j] = pick[j] /\ mode'[j] = mode[j]

Renewing == \A d \in Devices : newest'[d] = newest[d] \/ newest'[d] = Validity

\* How the pieces of the invariant are put together again after a step of k
LEMMA Assemble ==
    ASSUME RenewalInv, TypeOK', NEW k \in Cycles, enrolled' = enrolled,
           Apart(k), Renewing, CycleInv(k)',
           \A d \in Devices : MarginInv(d)' /\ ServedInv(d)'
    PROVE  RenewalInv'
<1>1. ASSUME NEW j \in Cycles, j # k PROVE CycleInv(j)'
  <2>1. CycleInv(j) /\ got[j] \subseteq Devices
    BY DEF RenewalInv, TypeOK
  <2>2. /\ pc'[j] = pc[j] /\ todo'[j] = todo[j] /\ at'[j] = at[j]
        /\ got'[j] = got[j] /\ pick'[j] = pick[j] /\ mode'[j] = mode[j]
    BY <1>1 DEF Apart
  <2>3. \A d \in got[j] : newest'[d] = Validity
    BY <2>1 DEF Renewing, CycleInv
  <2> QED
    BY <2>1, <2>2, <2>3 DEF CycleInv
<1> QED
  BY <1>1 DEF RenewalInv

\* d is still undelivered if k has not lost it.
LEMMA StillUndelivered ==
    ASSUME NEW d, NEW k \in Cycles, Apart(k), Undelivered(d),
           \/ d \notin got[k]
           \/ pc[k] \in Deploying /\ d \notin todo[k]
           \/ d \in got'[k] /\ (pc'[k] \in Deploying => d \in todo'[k])
    PROVE  Undelivered(d)'
<1>1. PICK j \in Cycles : d \in got[j] /\ (pc[j] \in Deploying => d \in todo[j])
  BY DEF Undelivered
<1>2. CASE j = k
  BY <1>1, <1>2 DEF Undelivered
<1>3. CASE j # k
  BY <1>1, <1>3 DEF Undelivered, Apart
<1> QED
  BY <1>2, <1>3

\* Arithmetic that every case needs
LEMMA MarginFacts ==
    ASSUME RenewalInv, Quiet, NEW d \in Devices
    PROVE  /\ Threshold[d] \in Nat /\ Threshold[d] < Validity /\ Validity \in Days
           /\ failing[d] \in Nat /\ failing[d] < Threshold[d]
           /\ newest[d] \in Days \cup {NoCert} /\ Days \subseteq Nat
           /\ ~Due(d) => newest[d] # NoCert /\ newest[d] > Threshold[d]
           /\ MarginInv(d) /\ ServedInv(d)
<1>1. newest[d] \in Days \cup {NoCert} /\ failing[d] \in 0 .. MaxTrouble
  BY DEF RenewalInv, TypeOK
<1>2. /\ Threshold[d] \in Nat /\ Threshold[d] < Validity /\ MaxTrouble < Threshold[d]
  BY DEF Quiet
<1>3. MarginInv(d) /\ ServedInv(d)
  BY DEF RenewalInv
<1> QED
  BY <1>1, <1>2, <1>3 DEF Days, Due

\* A step that changes no device: what has to be shown of it
LEMMA CycleOnly ==
    ASSUME RenewalInv, Quiet, TypeOK', NEW k \in Cycles,
           UNCHANGED <<enrolled, newest, served, failing>>, passed \subseteq passed',
           Apart(k), CycleInv(k)', fired => fired',
           \A d \in Devices \ passed' :
               Waiting(d) /\ ~Waiting(d)' => newest[d] = NoCert \/ newest[d] > Threshold[d],
           \A d \in got[k] :
               \/ pc[k] \in Deploying /\ d \notin todo[k]
               \/ d \in got'[k] /\ (pc'[k] \in Deploying => d \in todo'[k])
    PROVE  RenewalInv'
<1>1. /\ enrolled' = enrolled /\ newest' = newest /\ served' = served
      /\ failing' = failing
  OBVIOUS
<1>2. ASSUME NEW d \in Devices PROVE MarginInv(d)' /\ ServedInv(d)'
  <2>1. /\ MarginInv(d) /\ ServedInv(d) /\ Threshold[d] \in Nat /\ failing[d] \in Nat
        /\ newest[d] \in Days \cup {NoCert} /\ Days \subseteq Nat
    BY MarginFacts
  <2>2. MarginInv(d)'
    <3> SUFFICES ASSUME d \notin passed', d \notin passed, newest[d] # NoCert
                 PROVE  /\ newest[d] + failing[d] >= Threshold[d]
                        /\ ~Waiting(d)' => newest[d] + failing[d] > Threshold[d]
      BY <1>1 DEF MarginInv
    <3>1. CASE Waiting(d) /\ ~Waiting(d)'
      <4>1. newest[d] > Threshold[d]
        BY <3>1
      <4>2. newest[d] \in Nat
        BY <2>1
      <4>3. newest[d] + failing[d] > Threshold[d]
        BY <2>1, <4>1, <4>2
      <4> QED
        BY <2>1, <4>2, <4>3
    <3>2. CASE ~Waiting(d) \/ Waiting(d)'
      BY <2>1, <3>2 DEF MarginInv
    <3> QED
      BY <3>1, <3>2
  <2>3. Undelivered(d) => Undelivered(d)'
    BY StillUndelivered
  <2> QED
    BY <1>1, <2>1, <2>2, <2>3 DEF ServedInv
<1>3. Renewing
  BY <1>1 DEF Renewing
<1> QED
  BY <1>1, <1>2, <1>3, Assemble

\* A device that a step of k takes off the day's work was k's to look at.
LEMMA StoppedWaiting ==
    ASSUME NEW k \in Cycles, Apart(k), fired' = fired,
           NEW d \in Devices, Waiting(d), ~Waiting(d)'
    PROVE  /\ pc[k] \in Ordering /\ d \in todo[k]
           /\ ~(pc'[k] \in Ordering /\ d \in todo'[k])
<1>1. /\ pc[Sched] \in Ordering /\ d \in todo[Sched]
      /\ ~(pc'[Sched] \in Ordering /\ d \in todo'[Sched])
  BY DEF Waiting
<1>2. Sched \in Cycles
  BY DEF Cycles
<1>3. k = Sched
  BY <1>1, <1>2 DEF Apart
<1> QED
  BY <1>1, <1>3

\* The steps of a cycle that change no device
LEMMA CycleOnlySteps ==
    ASSUME RenewalInv, Quiet, TypeOK', NEW k \in Cycles,
           Check(k) \/ LogIssued(k) \/ IssuesDone(k) \/ Fetch(k) \/ Close(k)
    PROVE  RenewalInv'
<1>1. /\ TypeOK /\ enrolled = Devices /\ CycleInv(k) /\ mode[k].deploy /\ ~mode[k].force
  BY DEF RenewalInv, CycleInv, Automatic
<1>2. /\ UNCHANGED devices /\ fired' = fired
      /\ UNCHANGED <<enrolled, newest, served, failing>> /\ passed \subseteq passed'
  BY DEF Check, LogIssued, IssuesDone, Fetch, Close, Record, Proceed, End, devices
<1>3. CASE Check(k)
  <2>1. PICK d \in todo[k] :
            /\ at' = [at EXCEPT ![k] = d] /\ UNCHANGED <<got, pick, mode>>
            /\ \/ pc' = [pc EXCEPT ![k] = "order"] /\ UNCHANGED todo
               \/ ~Due(d) /\ todo' = [todo EXCEPT ![k] = @ \ {d}] /\ UNCHANGED pc
    BY <1>3, <1>1 DEF Check
  <2>2. pc[k] = "check" /\ d \in Devices /\ (~Due(d) => newest[d] > Threshold[d])
    BY <1>3, <1>1, MarginFacts DEF Check, TypeOK
  <2>3. Apart(k)
    BY <1>1, <2>1 DEF Apart, TypeOK
  <2>4. CycleInv(k)'
    BY <1>1, <1>2, <2>1, <2>2 DEF CycleInv, TypeOK, Deploying, devices
  <2>5. ASSUME NEW e \in Devices, Waiting(e), ~Waiting(e)'
        PROVE  newest[e] > Threshold[e]
    <3>1. e = d /\ ~Due(d)
      <4>1. /\ e \in todo[k] /\ pc[k] \in Ordering
            /\ ~(pc'[k] \in Ordering /\ e \in todo'[k])
        BY <1>2, <2>3, <2>5, StoppedWaiting
      <4> QED
        BY <4>1, <1>1, <2>1, <2>2 DEF TypeOK, Ordering
    <3> QED
      BY <2>2, <3>1
  <2>6. \A e \in got[k] : e \in got'[k] /\ pc'[k] \notin Deploying
    BY <1>1, <2>1, <2>2 DEF TypeOK, Deploying
  <2> QED
    BY <1>2, <2>3, <2>4, <2>5, <2>6, CycleOnly
<1>4. CASE LogIssued(k)
  <2>1. /\ pc[k] = "log" /\ at[k] \in got[k] /\ at[k] \in Devices
        /\ pc' = [pc EXCEPT ![k] = "check"] /\ todo' = [todo EXCEPT ![k] = @ \ {at[k]}]
        /\ UNCHANGED <<at, got, pick, mode>>
    BY <1>4, <1>1 DEF LogIssued, Record, Proceed, CycleInv, TypeOK
  <2>2. newest[at[k]] = Validity /\ newest[at[k]] > Threshold[at[k]]
    BY <1>1, <2>1, MarginFacts DEF CycleInv, Days
  <2>3. Apart(k)
    BY <1>1, <2>1 DEF Apart, TypeOK
  <2>4. CycleInv(k)'
    BY <1>1, <1>2, <2>1 DEF CycleInv, TypeOK, Deploying, devices
  <2>5. ASSUME NEW e \in Devices, Waiting(e), ~Waiting(e)'
        PROVE  newest[e] > Threshold[e]
    <3>1. e = at[k]
      <4>1. /\ e \in todo[k] /\ ~(pc'[k] \in Ordering /\ e \in todo'[k])
        BY <1>2, <2>3, <2>5, StoppedWaiting
      <4> QED
        BY <4>1, <1>1, <2>1 DEF TypeOK, Ordering
    <3> QED
      BY <2>2, <3>1
  <2>6. \A e \in got[k] : e \in got'[k] /\ pc'[k] \notin Deploying
    BY <1>1, <2>1 DEF TypeOK, Deploying
  <2> QED
    BY <1>2, <2>3, <2>4, <2>5, <2>6, CycleOnly
<1>5. CASE IssuesDone(k) \/ Close(k)
  <2>1. /\ pc[k] \in {"check", "fetch"} /\ todo[k] = {}
        /\ \/ /\ pc[k] = "check" /\ pc' = [pc EXCEPT ![k] = "fetch"]
              /\ todo' = [todo EXCEPT ![k] = got[k]]
              /\ UNCHANGED <<at, got, pick, mode>>
           \/ /\ pc[k] = "fetch" \/ got[k] = {}
              /\ End(k)
    BY <1>5, <1>1 DEF IssuesDone, Close
  <2>2. Apart(k)
    BY <1>1, <2>1 DEF Apart, End, TypeOK
  <2>3. CycleInv(k)'
    BY <1>1, <1>2, <2>1 DEF CycleInv, End, TypeOK, Deploying, devices
  <2>4. ASSUME NEW e \in Devices, Waiting(e), ~Waiting(e)'
        PROVE  FALSE
    BY <1>2, <2>1, <2>2, <2>4, StoppedWaiting DEF Ordering
  <2>5. ASSUME NEW e \in got[k]
        PROVE  \/ pc[k] \in Deploying /\ e \notin todo[k]
               \/ e \in got'[k] /\ (pc'[k] \in Deploying => e \in todo'[k])
    BY <1>1, <2>1, <2>5 DEF TypeOK, Deploying
  <2> QED
    BY <1>2, <2>2, <2>3, <2>4, <2>5, CycleOnly
<1>6. CASE Fetch(k)
  <2>1. PICK d \in todo[k] :
            /\ at' = [at EXCEPT ![k] = d] /\ UNCHANGED <<got, mode>>
            /\ \/ /\ pc' = [pc EXCEPT ![k] = "push"]
                  /\ pick' = [pick EXCEPT ![k] = newest[d]] /\ UNCHANGED todo
               \/ newest[d] = NoCert
    BY <1>6 DEF Fetch
  <2>2. pc[k] = "fetch" /\ d \in Devices /\ newest[d] = Validity /\ newest[d] # NoCert
    BY <1>6, <1>1 DEF Fetch, CycleInv, TypeOK, Deploying
  <2>3. Apart(k)
    BY <1>1, <2>1, <2>2 DEF Apart, TypeOK
  <2>4. CycleInv(k)'
    BY <1>1, <1>2, <2>1, <2>2 DEF CycleInv, TypeOK, Deploying, devices
  <2>5. ASSUME NEW e \in Devices, Waiting(e), ~Waiting(e)' PROVE FALSE
    BY <1>2, <2>2, <2>3, <2>5, StoppedWaiting DEF Ordering
  <2>6. ASSUME NEW e \in got[k]
        PROVE  \/ pc[k] \in Deploying /\ e \notin todo[k]
               \/ e \in got'[k] /\ (pc'[k] \in Deploying => e \in todo'[k])
    BY <1>1, <2>1, <2>2, <2>6 DEF TypeOK, Deploying
  <2> QED
    BY <1>2, <2>3, <2>4, <2>5, <2>6, CycleOnly
<1> QED
  BY <1>3, <1>4, <1>5, <1>6

\* The steps of a cycle that change a device
LEMMA DeviceSteps ==
    ASSUME RenewalInv, Quiet, TypeOK', NEW k \in Cycles,
           OrderSucceeds(k) \/ OrderFails(k) \/ Push(k)
    PROVE  RenewalInv'
<1> PICK d \in Devices : d = at[k]
  BY DEF RenewalInv, TypeOK
<1>1. TypeOK /\ enrolled = Devices /\ CycleInv(k)
  BY DEF RenewalInv
<1>2. /\ Threshold[d] \in Nat /\ Threshold[d] < Validity /\ Validity \in Nat
      /\ failing[d] \in Nat /\ newest[d] \in Nat \cup {NoCert}
      /\ MarginInv(d) /\ ServedInv(d)
  BY <1>1, MarginFacts
<1>3. /\ fired' = fired /\ enrolled' = enrolled
      /\ \A e \in Devices : e # d => (e \in passed' <=> e \in passed)
  BY DEF OrderSucceeds, OrderFails, Push, Record, Proceed, End
<1>4. ASSUME NEW e \in Devices, e # d PROVE MarginInv(e) /\ ServedInv(e)
  BY MarginFacts
<1>5. CASE OrderSucceeds(k)
  <2>1. /\ pc[k] = "order" /\ newest' = [newest EXCEPT ![d] = Validity]
        /\ failing' = [failing EXCEPT ![d] = 0] /\ served' = served
        /\ got' = [got EXCEPT ![k] = @ \cup {d}] /\ pc' = [pc EXCEPT ![k] = "log"]
        /\ UNCHANGED <<todo, at, pick, mode>>
    BY <1>5 DEF OrderSucceeds
  <2>2. Apart(k) /\ Renewing
    BY <1>1, <2>1 DEF Apart, Renewing, TypeOK
  <2>3. CycleInv(k)'
    BY <1>1, <2>1 DEF CycleInv, TypeOK, Deploying
  <2>4. \A e \in Devices : Waiting(e)' <=> Waiting(e)
    BY <1>1, <1>3, <2>1 DEF Waiting, TypeOK, Ordering
  <2>5. MarginInv(d)' /\ ServedInv(d)'
    <3>1. newest'[d] = Validity /\ failing'[d] = 0 /\ Validity # NoCert
      BY <1>1, <1>2, <2>1 DEF TypeOK
    <3>2. Undelivered(d)'
      BY <1>1, <2>1 DEF Undelivered, TypeOK, Deploying
    <3>3. MarginInv(d)'
      BY <1>2, <3>1 DEF MarginInv
    <3> QED
      BY <1>2, <2>1, <3>1, <3>2, <3>3 DEF ServedInv
  <2>6. ASSUME NEW e \in Devices, e # d PROVE MarginInv(e)' /\ ServedInv(e)'
    <3>1. newest'[e] = newest[e] /\ failing'[e] = failing[e] /\ served'[e] = served[e]
      BY <1>1, <2>1, <2>6 DEF TypeOK
    <3>2. Undelivered(e) => Undelivered(e)'
      BY <1>1, <2>1, <2>2, StillUndelivered DEF TypeOK, Deploying
    <3>3. MarginInv(e)'
      BY <1>3, <1>4, <2>4, <2>6, <3>1 DEF MarginInv
    <3> QED
      BY <1>4, <2>6, <3>1, <3>2, <3>3 DEF ServedInv
  <2> QED
    BY <1>3, <2>2, <2>3, <2>5, <2>6, Assemble
<1>6. CASE OrderFails(k)
  <2>1. /\ pc[k] = "order" /\ newest' = newest /\ served' = served
        /\ failing' = [failing EXCEPT ![d] = @ + 1] /\ passed' = passed
        /\ pc' = [pc EXCEPT ![k] = "check"] /\ todo' = [todo EXCEPT ![k] = @ \ {d}]
        /\ UNCHANGED <<at, got, pick, mode>>
    BY <1>6, <1>1 DEF OrderFails, Record, Proceed
  <2>2. Apart(k) /\ Renewing
    BY <1>1, <2>1 DEF Apart, Renewing, TypeOK
  <2>3. CycleInv(k)'
    BY <1>1, <2>1 DEF CycleInv, TypeOK, Deploying
  <2>4. \A e \in Devices : e # d => (Waiting(e)' <=> Waiting(e))
    BY <1>1, <1>3, <2>1 DEF Waiting, TypeOK, Ordering
  <2>5. \A e \in Devices : Undelivered(e) => Undelivered(e)'
    BY <1>1, <2>1, <2>2, StillUndelivered DEF TypeOK, Deploying
  <2>6. MarginInv(d)'
    <3>1. newest'[d] = newest[d] /\ failing'[d] = failing[d] + 1
      BY <1>1, <2>1 DEF TypeOK
    <3>2. d \notin passed /\ newest[d] # NoCert => newest[d] + (failing[d] + 1) > Threshold[d]
      BY <1>2 DEF MarginInv
    <3>3. d \notin passed /\ newest[d] # NoCert => newest[d] + (failing[d] + 1) >= Threshold[d]
      BY <1>2, <3>2
    <3> QED
      BY <2>1, <3>1, <3>2, <3>3 DEF MarginInv
  <2>7. ASSUME NEW e \in Devices, e # d PROVE MarginInv(e)'
    <3>1. newest'[e] = newest[e] /\ failing'[e] = failing[e]
      BY <1>1, <2>1, <2>7 DEF TypeOK
    <3> QED
      BY <1>3, <1>4, <2>4, <2>7, <3>1 DEF MarginInv
  <2>8. ASSUME NEW e \in Devices PROVE ServedInv(e)'
    BY <1>2, <1>4, <2>1, <2>5 DEF ServedInv
  <2> QED
    BY <1>3, <2>2, <2>3, <2>6, <2>7, <2>8, Assemble
<1>7. CASE Push(k)
  <2>1. /\ pc[k] = "push" /\ d \in got[k] /\ newest[d] = Validity
        /\ newest' = newest /\ failing' = failing /\ passed' = passed
        /\ served' = [served EXCEPT ![d] = Validity]
        /\ pc' = [pc EXCEPT ![k] = "fetch"] /\ todo' = [todo EXCEPT ![k] = @ \ {d}]
        /\ UNCHANGED <<at, got, pick, mode>>
    BY <1>7, <1>1 DEF Push, Record, Proceed, Quiet, CycleInv, Deploying
  <2>2. Apart(k) /\ Renewing
    BY <1>1, <2>1 DEF Apart, Renewing, TypeOK
  <2>3. CycleInv(k)'
    BY <1>1, <2>1 DEF CycleInv, TypeOK, Deploying
  <2>4. \A e \in Devices : Waiting(e)' <=> Waiting(e)
    BY <1>1, <1>3, <2>1 DEF Waiting, TypeOK, Ordering
  <2>5. \A e \in Devices : MarginInv(e)'
    BY <1>2, <1>4, <2>1, <2>4 DEF MarginInv
  <2>6. ServedInv(d)'
    BY <1>1, <1>2, <2>1 DEF ServedInv, TypeOK
  <2>7. ASSUME NEW e \in Devices, e # d PROVE ServedInv(e)'
    <3>1. newest'[e] = newest[e] /\ served'[e] = served[e]
      BY <1>1, <2>1, <2>7 DEF TypeOK
    <3>2. Undelivered(e) => Undelivered(e)'
      BY <1>1, <2>1, <2>2, <2>7, StillUndelivered DEF TypeOK, Deploying
    <3> QED
      BY <1>4, <2>7, <3>1, <3>2 DEF ServedInv
  <2> QED
    BY <1>3, <2>2, <2>3, <2>5, <2>6, <2>7, Assemble
<1> QED
  BY <1>5, <1>6, <1>7

\* A cycle starts: what it is to look at is still to be looked at.
LEMMA BeginStep ==
    ASSUME RenewalInv, Quiet, TypeOK', NEW k \in Cycles, NEW deploy \in {TRUE},
           Begin(k, DueDevices, deploy, FALSE),
           UNCHANGED <<enrolled, newest, served, failing>>,
           \/ fired' = fired /\ passed' = passed
           \/ k = Sched /\ fired' /\ passed' = passed \cup PassedOver
    PROVE  RenewalInv'
<1>1. /\ TypeOK /\ enrolled = Devices /\ CycleInv(k) /\ pc[k] = "idle"
      /\ todo[k] = {} /\ got[k] = {}
  BY DEF RenewalInv, Begin, Idle, CycleInv
<1>2. /\ passed \subseteq passed' /\ UNCHANGED <<at, got, pick>>
      /\ \/ DueDevices = {} /\ UNCHANGED <<pc, todo, mode>>
         \/ /\ pc' = [pc EXCEPT ![k] = "check"]
            /\ todo' = [todo EXCEPT ![k] = DueDevices]
            /\ mode' = [mode EXCEPT ![k] = Automatic]
  BY DEF Begin, Automatic
<1>3. Apart(k)
  BY <1>1, <1>2 DEF Apart, TypeOK
<1>4. CycleInv(k)'
  BY <1>1, <1>2 DEF CycleInv, TypeOK, Deploying
<1>5. ASSUME NEW d \in Devices, d \notin passed', Waiting(d), ~Waiting(d)'
      PROVE  newest[d] = NoCert \/ newest[d] > Threshold[d]
  <2>1. Due(d) => d \in DueDevices \/ d \in PassedOver
    BY <1>1 DEF DueDevices, PassedOver
  <2>2. ~Due(d) => newest[d] > Threshold[d]
    BY MarginFacts
  <2>3. CASE fired' = fired
    BY <1>1, <1>3, <1>5, <2>3, StoppedWaiting DEF Ordering
  <2>4. CASE k = Sched /\ fired' /\ passed' = passed \cup PassedOver
    <3>1. ~Due(d)
      BY <1>1, <1>2, <1>5, <2>1, <2>4 DEF Waiting, TypeOK, Ordering
    <3> QED
      BY <2>2, <3>1
  <2> QED
    BY <2>3, <2>4
<1>6. fired => fired'
  OBVIOUS
<1> QED
  BY <1>1, <1>2, <1>3, <1>4, <1>5, <1>6, CycleOnly

\* A day on which the program was down
LEMMA MissStep ==
    ASSUME RenewalInv, Quiet, TypeOK', Miss
    PROVE  RenewalInv'
<1>1. /\ TypeOK /\ enrolled = Devices
  BY DEF RenewalInv
<1>2. /\ enrolled' = enrolled /\ newest' = newest /\ served' = served /\ fired'
      /\ passed' = passed \cup PassedOver
      /\ failing' = [d \in Devices |-> IF d \in DueDevices THEN failing[d] + 1 ELSE failing[d]]
      /\ UNCHANGED <<pc, todo, at, got, pick, mode>>
  BY DEF Miss, Trouble, cycles
<1>3. \A k \in Cycles : CycleInv(k)'
  <2> SUFFICES ASSUME NEW k \in Cycles PROVE CycleInv(k)'
    OBVIOUS
  <2>1. CycleInv(k)
    BY DEF RenewalInv
  <2> QED
    BY <1>2, <2>1 DEF CycleInv
<1>4. ASSUME NEW d \in Devices PROVE MarginInv(d)'
  <2>1. /\ Threshold[d] \in Nat /\ failing[d] \in Nat /\ MarginInv(d)
        /\ newest[d] \in Nat \cup {NoCert}
        /\ (~Due(d) => newest[d] # NoCert /\ newest[d] > Threshold[d])
    BY MarginFacts
  <2>2. CASE Due(d) /\ d \in enabled /\ d \notin passed
    <3>1. failing'[d] = failing[d] + 1
      BY <1>1, <1>2, <2>2 DEF DueDevices
    <3>2. newest[d] # NoCert => newest[d] + (failing[d] + 1) > Threshold[d]
      BY <2>1, <2>2 DEF MarginInv
    <3>3. newest[d] # NoCert => newest[d] + (failing[d] + 1) >= Threshold[d]
      BY <2>1, <3>2
    <3> QED
      BY <1>2, <3>1, <3>2, <3>3 DEF MarginInv
  <2>3. CASE ~Due(d)
    <3>1. failing'[d] = failing[d]
      BY <1>2, <2>3 DEF DueDevices
    <3>2. newest[d] + failing[d] > Threshold[d]
      BY <2>1, <2>3
    <3>3. newest[d] + failing[d] >= Threshold[d]
      BY <2>1, <2>3
    <3> QED
      BY <1>2, <3>1, <3>2, <3>3 DEF MarginInv
  <2>4. CASE d \in passed'
    BY <2>4 DEF MarginInv
  <2>5. d \in passed' \/ (d \notin passed /\ (Due(d) => d \in enabled))
    BY <1>1, <1>2 DEF PassedOver
  <2> QED
    BY <2>2, <2>3, <2>4, <2>5
<1>5. ASSUME NEW d \in Devices PROVE ServedInv(d)'
  <2>1. ServedInv(d)
    BY MarginFacts
  <2>2. Undelivered(d)' <=> Undelivered(d)
    BY <1>2 DEF Undelivered
  <2> QED
    BY <1>2, <2>1, <2>2 DEF ServedInv
<1> QED
  BY <1>1, <1>2, <1>3, <1>4, <1>5 DEF RenewalInv

\* A day goes by: nothing is under way, and no certificate is at its end.
LEMMA TickStep ==
    ASSUME RenewalInv, Quiet, TypeOK', Tick
    PROVE  RenewalInv'
<1>1. /\ TypeOK /\ enrolled = Devices
  BY DEF RenewalInv
<1>2. /\ fired /\ ~fired' /\ enrolled' = enrolled /\ failing' = failing /\ passed' = passed
      /\ \A k \in Cycles : pc[k] = "idle"
      /\ UNCHANGED <<pc, todo, at, got, pick, mode>>
  BY DEF Tick, Idle, cycles
<1>3. \A k \in Cycles : got[k] = {}
  BY <1>2 DEF RenewalInv, CycleInv
<1>4. \A k \in Cycles : CycleInv(k)'
  <2> SUFFICES ASSUME NEW k \in Cycles PROVE CycleInv(k)'
    OBVIOUS
  <2>1. CycleInv(k) /\ got[k] = {}
    BY <1>3 DEF RenewalInv
  <2> QED
    BY <1>2, <2>1 DEF CycleInv
<1>5. ASSUME NEW d \in Devices PROVE MarginInv(d)' /\ ServedInv(d)'
  <2>1. /\ Threshold[d] \in Nat /\ failing[d] \in Nat /\ failing[d] < Threshold[d]
        /\ newest[d] \in Nat \cup {NoCert} /\ MarginInv(d) /\ ServedInv(d)
    BY MarginFacts
  <2>2. ~Waiting(d) /\ Waiting(d)'
    BY <1>2 DEF Waiting, Ordering, Cycles
  <2>3. ~Undelivered(d)
    BY <1>3 DEF Undelivered
  <2>4. /\ newest'[d] = IF newest[d] \in {NoCert, 0} THEN newest[d] ELSE newest[d] - 1
        /\ served'[d] = IF served[d] \in {Foreign, 0} THEN served[d] ELSE served[d] - 1
    BY DEF Tick
  <2>5. CASE newest[d] = NoCert
    BY <2>1, <2>4, <2>5 DEF MarginInv, ServedInv
  <2>6. ServedInv(d)'
    BY <2>1, <2>3, <2>4 DEF ServedInv
  <2>7. CASE d \in passed
    BY <1>2, <2>6, <2>7 DEF MarginInv
  <2>8. CASE d \notin passed /\ newest[d] # NoCert
    <3>1. newest[d] \in Nat /\ newest[d] + failing[d] > Threshold[d]
      BY <2>1, <2>2, <2>8 DEF MarginInv
    <3>2. newest[d] > 1 \/ (newest[d] = 1 /\ failing[d] >= Threshold[d])
      BY <2>1, <3>1
    <3>3. newest[d] > 1
      BY <2>1, <3>2
    <3>5. newest'[d] = newest[d] - 1
      BY <2>4, <2>8, <3>1, <3>3
    <3>6. newest'[d] + failing'[d] >= Threshold[d]
      BY <1>2, <2>1, <3>1, <3>5
    <3> QED
      BY <2>2, <2>6, <3>6 DEF MarginInv
  <2> QED
    BY <2>5, <2>7, <2>8
<1> QED
  BY <1>1, <1>2, <1>4, <1>5 DEF RenewalInv

LEMMA RenewalInit ==
    ASSUME Init, Quiet
    PROVE  RenewalInv
<1>1. TypeOK
  BY RenewalInitType
<1>2. enrolled = Devices
  BY DEF Init
<1>3. ASSUME NEW k \in Cycles PROVE CycleInv(k)
  BY DEF Init, CycleInv, Deploying
<1>4. ASSUME NEW d \in Devices PROVE MarginInv(d) /\ ServedInv(d)
  BY DEF Init, MarginInv, ServedInv
<1> QED
  BY <1>1, <1>2, <1>3, <1>4 DEF RenewalInv

LEMMA RenewalStep ==
    ASSUME RenewalInv, Quiet, TypeOK', [Next]_vars
    PROVE  RenewalInv'
<1>1. CASE Fire
  <2>1. Sched \in Cycles
    BY DEF Cycles
  <2> QED
    BY <1>1, <2>1, BeginStep DEF Fire
<1>2. ASSUME NEW k \in Manual, Trigger(k) PROVE RenewalInv'
  <2>1. /\ Begin(k, DueDevices, TRUE, FALSE) /\ fired' = fired /\ k \in Cycles
        /\ UNCHANGED <<enrolled, newest, served, failing>> /\ passed' = passed
    BY <1>2 DEF Trigger, Quiet, Cycles, devices
  <2> QED
    BY <2>1, BeginStep
<1>3. ASSUME NEW k \in Cycles, Step(k) PROVE RenewalInv'
  <2>1. ~PushRaises(k)
    BY DEF PushRaises, Quiet
  <2> QED
    BY <1>3, <2>1, CycleOnlySteps, DeviceSteps DEF Step
<1>4. CASE Miss
  BY <1>4, MissStep
<1>5. CASE Tick
  BY <1>5, TickStep
<1>6. /\ \A k \in Manual : ~IssueRun(k)
      /\ \A k \in Cycles : ~CutShort(k)
      /\ \A d \in Devices : ~Delete(d)
  BY DEF IssueRun, CutShort, Delete, Quiet
<1>7. CASE UNCHANGED vars \/ \E d \in Devices : Switch(d)
  <2>1. UNCHANGED <<enrolled, passed, newest, served, failing, fired, pc, todo, at, got, pick, mode>>
    BY <1>7 DEF Switch, vars, devices, cycles
  <2>2. ASSUME NEW k \in Cycles PROVE CycleInv(k)'
    BY <2>1 DEF RenewalInv, CycleInv
  <2>3. ASSUME NEW d \in Devices PROVE MarginInv(d)' /\ ServedInv(d)'
    BY <2>1 DEF RenewalInv, MarginInv, ServedInv, Waiting, Undelivered
  <2> QED
    BY <2>1, <2>2, <2>3 DEF RenewalInv
<1> QED
  BY <1>1, <1>2, <1>3, <1>4, <1>5, <1>6, <1>7 DEF Next

(***************************************************************************)
(* NoExpiry for every fleet: as long as deployments work (Quiet) and the   *)
(* days in a row on which orders fail or the daily cycle is missed are     *)
(* fewer than the threshold of every device, run_renewal_cycle keeps the   *)
(* certificate of every gateway from expiring, however many operators run  *)
(* cycles at the same time, however their steps interleave and whatever is *)
(* disabled and enabled meanwhile.  A gateway that a daily cycle has left  *)
(* out when it was due, because it or its tenant was disabled, is excepted *)
(* until a renewal of it is delivered.                                     *)
(***************************************************************************)
THEOREM NeverExpired ==
    ASSUME Quiet
    PROVE  Spec => []NoExpiry
<1>1. Init => RenewalInv
  BY RenewalInit
<1>2. RenewalInv /\ TypeOK' /\ [Next]_vars => RenewalInv'
  BY RenewalStep
<1>3. RenewalInv => NoExpiry
  <2> SUFFICES ASSUME RenewalInv, NEW d \in Devices \ passed
               PROVE  served[d] # 0 \/ UnderWay(d)
    BY DEF NoExpiry, RenewalInv
  <2>1. /\ failing[d] \in Nat /\ failing[d] < Threshold[d] /\ Threshold[d] \in Nat
        /\ newest[d] \in Nat \cup {NoCert} /\ MarginInv(d) /\ ServedInv(d)
    BY MarginFacts
  <2>2. newest[d] # 0
    BY <2>1 DEF MarginInv
  <2> QED
    BY <2>1, <2>2 DEF ServedInv, Undelivered, UnderWay
<1> QED
  BY <1>1, <1>2, <1>3, RenewalTypeCorrect, PTL DEF Spec

-----------------------------------------------------------------------------
(* No device is left out                                                   *)

\* As long as nothing is deleted, every device is on record.
LEMMA StillEnrolled ==
    ASSUME ~Deletes, enrolled = Devices, [Next]_vars
    PROVE  enrolled' = Devices
<1>1. CASE Fire \/ Miss \/ Tick \/ UNCHANGED vars
  BY <1>1 DEF Fire, Miss, Tick, vars, devices
<1>2. ASSUME NEW k \in Manual, Trigger(k) \/ IssueRun(k) PROVE enrolled' = Devices
  BY <1>2 DEF Trigger, IssueRun, devices
<1>3. ASSUME NEW k \in Cycles, Step(k) \/ CutShort(k) PROVE enrolled' = Devices
  BY <1>3 DEF Step, CutShort, Check, OrderSucceeds, LogIssued, OrderFails, IssuesDone,
              Fetch, Push, PushRaises, Close, devices
<1> QED
  BY <1>1, <1>2, <1>3 DEF Next, Delete, Switch

\* The phase of a cycle after a step: the end comes when nothing is left.
LEMMA EndsWhenDone ==
    ASSUME TypeOK, enrolled = Devices, ~VaultFaults, NEW k \in Cycles, Step(k),
           NEW j \in Cycles, pc[j] # "idle", pc'[j] = "idle"
    PROVE  todo[j] = {}
<1>1. at[k] \in enrolled
  BY DEF TypeOK
<1>2. ASSUME Check(k) \/ OrderSucceeds(k) \/ LogIssued(k) \/ OrderFails(k)
                \/ Fetch(k) \/ Push(k)
      PROVE  FALSE
  BY <1>1, <1>2 DEF Check, OrderSucceeds, LogIssued, OrderFails, Fetch, Push,
                    Record, Proceed, TypeOK
<1>3. IssuesDone(k) \/ Close(k)
  BY <1>2 DEF Step, PushRaises
<1>4. /\ todo[k] = {}
      /\ pc' = [pc EXCEPT ![k] = "idle"] \/ pc' = [pc EXCEPT ![k] = "fetch"]
  BY <1>3 DEF IssuesDone, Close, End
<1> QED
  BY <1>4 DEF TypeOK

(***************************************************************************)
(* While no device is deleted, no bundle fails to open and no run is cut   *)
(* short, neither IssuanceService.run nor the deployments of               *)
(* run_renewal_cycle leave a device out, whatever fails for another one    *)
(* and whatever other cycles do: a run that ends has nothing left to do.   *)
(***************************************************************************)
THEOREM EveryTurn ==
    ASSUME ~Deletes, ~VaultFaults, ~Crashes
    PROVE  Spec => [][\A k \in Cycles :
                          pc[k] # "idle" /\ pc'[k] = "idle" => todo[k] = {}]_vars
<1> DEFINE Whole == TypeOK /\ enrolled = Devices
           Turns == \A k \in Cycles : pc[k] # "idle" /\ pc'[k] = "idle" => todo[k] = {}
<1>1. Init => enrolled = Devices
  BY DEF Init
<1>2. enrolled = Devices /\ [Next]_vars => (enrolled = Devices)'
  BY StillEnrolled
<1>3. Whole /\ [Next]_vars => Turns
  <2> SUFFICES ASSUME Whole, [Next]_vars, NEW j \in Cycles, pc[j] # "idle", pc'[j] = "idle"
               PROVE  todo[j] = {}
    OBVIOUS
  <2>1. CASE \E k \in Cycles : Step(k)
    BY <2>1, EndsWhenDone
  <2>2. ASSUME NEW k \in Cycles, NEW work \in SUBSET Devices, NEW deploy, NEW force,
               Begin(k, work, deploy, force)
        PROVE  FALSE
    BY <2>2 DEF Begin, TypeOK
  <2>3. DueDevices \in SUBSET Devices /\ Sched \in Cycles /\ Manual \subseteq Cycles
    BY DEF DueDevices, Cycles, TypeOK
  <2>4. ~Fire
    BY <2>2, <2>3 DEF Fire
  <2>5. ASSUME NEW k \in Manual PROVE ~Trigger(k) /\ ~IssueRun(k)
    BY <2>2, <2>3 DEF Trigger, IssueRun
  <2>6. ~Miss /\ ~Tick /\ vars' # vars
    BY DEF Miss, Tick, vars, cycles
  <2>7. /\ \A k \in Cycles : ~CutShort(k)
        /\ \A d \in Devices : ~Delete(d) /\ ~Switch(d)
    BY DEF CutShort, Delete, Switch, cycles
  <2> QED
    BY <2>1, <2>4, <2>5, <2>6, <2>7 DEF Next
<1>4. Whole /\ [Next]_vars => [Turns]_vars
  BY <1>3
<1> HIDE DEF Turns
<1>5. Spec => [][Turns]_vars
  BY <1>1, <1>2, <1>4, RenewalTypeCorrect, PTL DEF Spec
<1> QED
  BY <1>5 DEF Turns

-----------------------------------------------------------------------------
(* No device is served twice                                               *)

\* Runs do not overlap, and what has just been renewed is not due.
Orderly == ~Overlap /\ \A d \in Devices : Threshold[d] < Validity

\* Only one cycle is under way, it orders without force only what is due, and
\* what was ordered today is new.
OnceInv ==
    /\ \A j, k \in Cycles : Idle(j) \/ Idle(k) \/ j = k
    /\ \A k \in Cycles :
          pc[k] = "order" /\ ~mode[k].force /\ at[k] \in enrolled => Due(at[k])
    /\ \A d \in Devices :
          \/ ordered[d] = 0
          \/ ordered[d] = 1 /\ (d \in enrolled => newest[d] = Validity)

\* A step of k while no other cycle is under way
LEMMA OnceStep ==
    ASSUME TypeOK, OnceInv, Orderly, NEW k \in Cycles,
           \A j \in Cycles \ {k} : Idle(j), Step(k) \/ CutShort(k)
    PROVE  OnceInv'
<1>0. \A d \in Devices :
          ordered[d] = 0 \/ (ordered[d] = 1 /\ (d \in enrolled => newest[d] = Validity))
  BY DEF OnceInv
<1>1. ASSUME NEW j \in Cycles, j # k PROVE Idle(j)'
  BY <1>1 DEF Idle, Step, CutShort, Check, OrderSucceeds, LogIssued, OrderFails, IssuesDone,
              Fetch, Push, PushRaises, Close, Record, Proceed, End, TypeOK
<1>2. \A i, j \in Cycles : Idle(i)' \/ Idle(j)' \/ i = j
  BY <1>1
<1>3. CASE OrderSucceeds(k)
  <2> PICK d \in Devices : d = at[k]
    BY DEF TypeOK
  <2>1. /\ pc[k] = "order" /\ d \in enrolled /\ enrolled' = enrolled
        /\ newest' = [newest EXCEPT ![d] = Validity]
        /\ ordered' = [ordered EXCEPT ![d] = IF mode[k].force \/ @ = 2 THEN @ ELSE @ + 1]
        /\ pc' = [pc EXCEPT ![k] = "log"]
    BY <1>3 DEF OrderSucceeds
  <2>2. ~mode[k].force => ordered[d] = 0
    <3> SUFFICES ASSUME ~mode[k].force, newest[d] = Validity PROVE FALSE
      BY <2>1 DEF OnceInv
    <3>1. Validity \in {NoCert} \cup 0 .. Threshold[d]
      BY <2>1 DEF OnceInv, Due
    <3>2. Threshold[d] \in Nat /\ Threshold[d] < Validity
      BY DEF Orderly
    <3> QED
      BY <3>1, <3>2
  <2>3. ASSUME NEW e \in Devices
        PROVE  ordered'[e] = 0 \/ (ordered'[e] = 1 /\ (e \in enrolled' => newest'[e] = Validity))
    <3>1. CASE e = d
      <4>1. newest'[e] = Validity /\ ordered[d] \in {0, 1}
        BY <2>1, <3>1 DEF TypeOK, OnceInv
      <4>2. ordered'[e] = IF mode[k].force \/ ordered[d] = 2 THEN ordered[d] ELSE ordered[d] + 1
        BY <2>1, <3>1 DEF TypeOK
      <4> QED
        BY <2>2, <4>1, <4>2
    <3>2. CASE e # d
      <4>1. newest'[e] = newest[e] /\ ordered'[e] = ordered[e]
        BY <2>1, <3>2 DEF TypeOK
      <4>2. ordered[e] = 0 \/ (ordered[e] = 1 /\ (e \in enrolled => newest[e] = Validity))
        BY <1>0
      <4> QED
        BY <2>1, <4>1, <4>2
    <3> QED
      BY <3>1, <3>2
  <2>4. ASSUME NEW j \in Cycles PROVE pc'[j] # "order"
    BY <1>1, <2>1 DEF TypeOK, Idle
  <2> QED
    BY <1>2, <2>3, <2>4 DEF OnceInv
<1>4. CASE ~OrderSucceeds(k)
  <2>1. /\ UNCHANGED <<enrolled, newest, ordered>>
        /\ \/ Check(k)
           \/ pc'[k] # "order"
    BY <1>4 DEF Step, CutShort, LogIssued, OrderFails, IssuesDone, Check,
                Fetch, Push, PushRaises, Close, Record, Proceed, End, TypeOK, devices
  <2>2. ASSUME pc'[k] = "order", ~mode'[k].force, at'[k] \in enrolled' PROVE Due(at[k])'
    <3>1. PICK d \in todo[k] :
             /\ at' = [at EXCEPT ![k] = d] /\ UNCHANGED mode
             /\ (Due(d) \/ mode[k].force) \/ UNCHANGED pc
      BY <2>1, <2>2 DEF Check
    <3>2. Due(d) /\ at'[k] = d
      BY <2>1, <2>2, <3>1 DEF Check, TypeOK
    <3> QED
      BY <2>1, <3>2 DEF Due
  <2>3. ASSUME NEW j \in Cycles, pc'[j] = "order" PROVE j = k
    BY <1>1, <2>3 DEF Idle
  <2> QED
    BY <1>2, <2>1, <2>2, <2>3 DEF OnceInv
<1> QED
  BY <1>3, <1>4

(***************************************************************************)
(* OnePerDay for every fleet: if no two runs are under way at once (the    *)
(* promise of app/scheduler.py:169, for all runs), and a new certificate   *)
(* outlasts the threshold, needs_renewal keeps every run from ordering a   *)
(* second certificate on one day, whatever fails, is deleted, or is cut    *)
(* short between the commit of the certificate and the log entry.          *)
(***************************************************************************)
THEOREM NeverTwice ==
    ASSUME Orderly
    PROVE  Spec => []OnePerDay
<1>1. Init => OnceInv
  BY DEF Init, OnceInv, Idle
<1>2. TypeOK /\ OnceInv /\ [Next]_vars => OnceInv'
  <2> SUFFICES ASSUME TypeOK, OnceInv, [Next]_vars PROVE OnceInv'
    OBVIOUS
  <2>1. ASSUME NEW k \in Cycles, Step(k) \/ CutShort(k) PROVE OnceInv'
    <3>1. ~Idle(k)
      BY <2>1 DEF Idle, Step, CutShort, Check, OrderSucceeds, LogIssued, OrderFails,
                  IssuesDone, Fetch, Push, PushRaises, Close
    <3>2. \A j \in Cycles \ {k} : Idle(j)
      BY <3>1 DEF OnceInv
    <3> QED
      BY <2>1, <3>2, OnceStep
  <2>2. ASSUME NEW k \in Cycles, NEW work, NEW deploy, NEW force, Begin(k, work, deploy, force),
               UNCHANGED <<enrolled, newest, ordered>>
        PROVE  OnceInv'
    <3>1. \A j \in Cycles : pc[j] = "idle"
      BY <2>2 DEF Begin, Orderly, Idle
    <3>2. \A j \in Cycles : pc'[j] # "order" /\ (j # k => pc'[j] = "idle")
      BY <2>2, <3>1 DEF Begin, TypeOK
    <3> QED
      BY <2>2, <3>1, <3>2 DEF OnceInv, Idle
  <2>3. Sched \in Cycles /\ Manual \subseteq Cycles
    BY DEF Cycles
  <2>4. CASE Fire
    BY <2>2, <2>3, <2>4 DEF Fire
  <2>5. ASSUME NEW k \in Manual, Trigger(k) \/ IssueRun(k) PROVE OnceInv'
    BY <2>2, <2>3, <2>5 DEF Trigger, IssueRun, devices
  <2>6. CASE Miss \/ (\E d \in Devices : Switch(d)) \/ UNCHANGED vars
    BY <2>6 DEF Miss, Switch, vars, devices, cycles, OnceInv, Idle, Due
  <2>7. CASE Tick
    BY <2>7 DEF Tick, cycles, OnceInv, Idle
  <2>8. ASSUME NEW d \in Devices, Delete(d) PROVE OnceInv'
    <3>1. /\ enrolled' = enrolled \ {d} /\ newest' = [newest EXCEPT ![d] = NoCert]
          /\ UNCHANGED <<ordered, pc, at, mode>>
      BY <2>8 DEF Delete, cycles
    <3>2. \A e \in Devices \ {d} : newest'[e] = newest[e]
      BY <3>1 DEF TypeOK
    <3> QED
      BY <3>1, <3>2 DEF OnceInv, Idle, Due, TypeOK
  <2> QED
    BY <2>1, <2>4, <2>5, <2>6, <2>7, <2>8 DEF Next
<1>3. OnceInv => OnePerDay
  <2> SUFFICES ASSUME OnceInv, NEW d \in Devices PROVE ordered[d] <= 1
    BY DEF OnePerDay
  <2>1. ordered[d] = 0 \/ ordered[d] = 1
    BY DEF OnceInv
  <2> QED
    BY <2>1
<1> QED
  BY <1>1, <1>2, <1>3, RenewalTypeCorrect, PTL DEF Spec

-----------------------------------------------------------------------------
(* How long a cycle takes                                                  *)

\* The most steps that are left to a cycle: a device that is still to be
\* issued for takes three, to be deployed two, and either loop one to end.
StepsLeft(k) ==
    LET t == Cardinality(todo[k])
        g == Cardinality(got[k])
    IN  CASE pc[k] = "check" -> 5 * t + 2 * g + 2
          [] pc[k] = "order" -> 5 * t + 2 * g + 1
          [] pc[k] = "log"   -> 5 * t + 2 * g - 2
          [] pc[k] = "fetch" -> 2 * t + 1
          [] pc[k] = "push"  -> 2 * t
          [] OTHER           -> 0

\* The device a cycle handles is one of those it has still to handle.
InHand(k) ==
    /\ pc[k] \in {"order", "log", "push"} => at[k] \in todo[k]
    /\ pc[k] = "idle" => got[k] = {}

\* What a step of the system may do to the steps that are left to a cycle
Shortens(k) ==
    /\ pc[k] = "idle" /\ pc'[k] # "idle" => StepsLeft(k)' = 5 * Cardinality(todo'[k]) + 2
    /\ pc[k] # "idle" => StepsLeft(k)' <= StepsLeft(k)
    /\ Step(k) => StepsLeft(k)' < StepsLeft(k)

\* The sizes of what a cycle has still to handle and of what it has obtained
LEMMA Counts ==
    ASSUME IsFiniteSet(Devices), NEW S \in SUBSET Devices
    PROVE  /\ IsFiniteSet(S) /\ Cardinality(S) \in Nat
           /\ Cardinality(S) = 0 <=> S = {}
           /\ \A d \in S : Cardinality(S \ {d}) = Cardinality(S) - 1 /\ Cardinality(S) # 0
           /\ \A d \in Devices : Cardinality(S \cup {d}) \in {Cardinality(S), Cardinality(S) + 1}
<1>1. IsFiniteSet(S) /\ Cardinality(S) \in Nat
  BY FS_Subset, FS_CardinalityType
<1> QED
  BY <1>1, FS_EmptySet, FS_AddElement, FS_RemoveElement

LEMMA StepsLeftType ==
    ASSUME IsFiniteSet(Devices), TypeOK, NEW k \in Cycles, InHand(k)
    PROVE  StepsLeft(k) \in Nat
<1>1. todo[k] \in SUBSET Devices /\ got[k] \in SUBSET Devices
  BY DEF TypeOK
<1>2. Cardinality(todo[k]) \in Nat /\ Cardinality(got[k]) \in Nat
  BY <1>1, Counts
<1>3. pc[k] = "log" => Cardinality(todo[k]) # 0
  BY <1>1, Counts DEF InHand
<1> QED
  <2> DEFINE t == Cardinality(todo[k])
             g == Cardinality(got[k])
  <2>1. /\ pc[k] = "check" => StepsLeft(k) = 5 * t + 2 * g + 2
        /\ pc[k] = "order" => StepsLeft(k) = 5 * t + 2 * g + 1
        /\ pc[k] = "log"   => StepsLeft(k) = 5 * t + 2 * g - 2
        /\ pc[k] = "fetch" => StepsLeft(k) = 2 * t + 1
        /\ pc[k] = "push"  => StepsLeft(k) = 2 * t
        /\ pc[k] = "idle"  => StepsLeft(k) = 0
    BY DEF StepsLeft
  <2>2. pc[k] \in Phases
    BY DEF TypeOK
  <2> HIDE DEF t, g
  <2>3. t \in Nat /\ g \in Nat /\ (pc[k] = "log" => t # 0)
    BY <1>2, <1>3 DEF t, g
  <2> QED
    BY <2>1, <2>2, <2>3 DEF Phases

\* Only the cycle's own steps, and what starts it or cuts it short, change it.
CycleSame(k) ==
    pc'[k] = pc[k] /\ todo'[k] = todo[k] /\ at'[k] = at[k] /\ got'[k] = got[k]

\* How a run is over, or goes on with the next device
LEMMA EndFields ==
    ASSUME TypeOK, NEW k \in Cycles, End(k)
    PROVE  /\ pc'[k] = "idle" /\ todo'[k] = {} /\ got'[k] = {}
           /\ \A j \in Cycles \ {k} : CycleSame(j)
BY DEF TypeOK, End, CycleSame

LEMMA RecordFields ==
    ASSUME TypeOK, NEW k \in Cycles, NEW phase, Record(k, phase)
    PROVE  /\ \A j \in Cycles \ {k} : CycleSame(j)
           /\ \/ pc'[k] = "idle" /\ got'[k] = {}
              \/ /\ pc'[k] = phase /\ todo'[k] = todo[k] \ {at[k]} /\ got'[k] = got[k]
BY EndFields DEF TypeOK, Record, Proceed, CycleSame

LEMMA CycleShortens ==
    ASSUME IsFiniteSet(Devices), TypeOK, NEW k \in Cycles, InHand(k), Step(k)
    PROVE  /\ InHand(k)' /\ pc[k] # "idle" /\ StepsLeft(k)' < StepsLeft(k)
           /\ \A j \in Cycles \ {k} : CycleSame(j)
<1> DEFINE t == Cardinality(todo[k])
           g == Cardinality(got[k])
           Goal == /\ InHand(k)' /\ pc[k] # "idle" /\ StepsLeft(k)' < StepsLeft(k)
                   /\ \A j \in Cycles \ {k} : CycleSame(j)
<1>0. /\ todo[k] \in SUBSET Devices /\ got[k] \in SUBSET Devices /\ at[k] \in Devices
      /\ pc \in [Cycles -> Phases] /\ todo \in [Cycles -> SUBSET Devices]
      /\ at \in [Cycles -> Devices] /\ got \in [Cycles -> SUBSET Devices]
  BY DEF TypeOK
<1>1. t \in Nat /\ g \in Nat /\ (todo[k] = {} <=> t = 0)
  BY <1>0, Counts
<1>2. /\ \A d \in todo[k] : Cardinality(todo[k] \ {d}) = t - 1 /\ t # 0
      /\ \A d \in Devices : Cardinality(got[k] \cup {d}) \in {g, g + 1}
  BY <1>0, Counts
<1>3. StepsLeft(k) \in Nat
  BY StepsLeftType
<1>4. ASSUME pc[k] # "idle", 0 < StepsLeft(k), pc'[k] = "idle", got'[k] = {},
             \A j \in Cycles \ {k} : CycleSame(j)
      PROVE  Goal
  BY <1>4 DEF StepsLeft, InHand
<1>5. CASE Check(k)
  <2>1. PICK d \in todo[k] :
           /\ pc[k] = "check" /\ at' = [at EXCEPT ![k] = d] /\ got' = got
           /\ \/ pc' = [pc EXCEPT ![k] = "order"] /\ todo' = todo
              \/ todo' = [todo EXCEPT ![k] = @ \ {d}] /\ pc' = pc
    BY <1>5 DEF Check
  <2>2. InHand(k)' /\ \A j \in Cycles \ {k} : CycleSame(j)
    BY <1>0, <2>1 DEF InHand, CycleSame
  <2>3. \/ pc'[k] = "order" /\ Cardinality(todo'[k]) = t /\ Cardinality(got'[k]) = g
        \/ pc'[k] = "check" /\ Cardinality(todo'[k]) = t - 1 /\ Cardinality(got'[k]) = g
    BY <1>0, <1>2, <2>1
  <2> QED
    BY <1>1, <2>1, <2>2, <2>3 DEF StepsLeft
<1>6. CASE OrderSucceeds(k)
  <2>1. /\ pc[k] = "order" /\ pc'[k] = "log" /\ todo'[k] = todo[k] /\ at'[k] = at[k]
        /\ got'[k] = got[k] \cup {at[k]} /\ \A j \in Cycles \ {k} : CycleSame(j)
    BY <1>0, <1>6 DEF OrderSucceeds, CycleSame
  <2>2. Cardinality(got'[k]) \in {g, g + 1}
    BY <1>0, <1>2, <2>1
  <2> QED
    BY <1>1, <2>1, <2>2 DEF StepsLeft, InHand
<1>7. ASSUME NEW phase, Record(k, phase),
             \/ pc[k] \in {"order", "log"} /\ phase = "check"
             \/ pc[k] = "push" /\ phase = "fetch"
      PROVE  Goal
  <2>1. t # 0 /\ Cardinality(todo[k] \ {at[k]}) = t - 1
    BY <1>2, <1>7 DEF InHand
  <2>2. 0 < StepsLeft(k)
    <3>1. /\ pc[k] = "order" => StepsLeft(k) = 5 * t + 2 * g + 1
          /\ pc[k] = "log"   => StepsLeft(k) = 5 * t + 2 * g - 2
          /\ pc[k] = "push"  => StepsLeft(k) = 2 * t
      BY DEF StepsLeft
    <3> HIDE DEF t, g
    <3> QED
      BY <1>1, <1>7, <2>1, <3>1
  <2>3. CASE pc'[k] = "idle" /\ got'[k] = {}
    BY <1>4, <1>7, <2>2, <2>3, RecordFields
  <2>4. CASE pc'[k] = phase /\ todo'[k] = todo[k] \ {at[k]} /\ got'[k] = got[k]
    BY <1>1, <1>7, <2>1, <2>4, RecordFields DEF StepsLeft, InHand
  <2> QED
    BY <1>7, <2>3, <2>4, RecordFields
<1>8. CASE LogIssued(k)
  <2>1. Record(k, "check") /\ pc[k] = "log"
    BY <1>8 DEF LogIssued
  <2> QED
    BY <1>7, <2>1
<1>9. CASE OrderFails(k)
  <2>1. Record(k, "check") /\ pc[k] = "order"
    BY <1>9 DEF OrderFails
  <2> QED
    BY <1>7, <2>1
<1>10. CASE Push(k)
  BY <1>7, <1>10 DEF Push
<1>11. CASE IssuesDone(k)
  <2>1. pc[k] = "check" /\ todo[k] = {}
    BY <1>11 DEF IssuesDone
  <2>2. CASE End(k)
    BY <1>1, <1>4, <2>1, <2>2, EndFields DEF StepsLeft
  <2>3. CASE /\ pc' = [pc EXCEPT ![k] = "fetch"] /\ todo' = [todo EXCEPT ![k] = got[k]]
             /\ UNCHANGED <<at, got>>
    <3>1. /\ pc'[k] = "fetch" /\ Cardinality(todo'[k]) = g
          /\ \A j \in Cycles \ {k} : CycleSame(j)
      BY <1>0, <2>3 DEF CycleSame
    <3> QED
      BY <1>1, <2>1, <3>1 DEF StepsLeft, InHand
  <2> QED
    BY <1>11, <2>2, <2>3 DEF IssuesDone
<1>12. CASE Fetch(k)
  <2>1. PICK d \in todo[k] :
           /\ pc[k] = "fetch" /\ at' = [at EXCEPT ![k] = d] /\ got' = got
           /\ \/ pc' = [pc EXCEPT ![k] = "push"] /\ todo' = todo
              \/ todo' = [todo EXCEPT ![k] = @ \ {d}] /\ pc' = pc
    BY <1>12 DEF Fetch
  <2>2. InHand(k)' /\ \A j \in Cycles \ {k} : CycleSame(j)
    BY <1>0, <2>1 DEF InHand, CycleSame
  <2>3. \/ pc'[k] = "push" /\ Cardinality(todo'[k]) = t
        \/ pc'[k] = "fetch" /\ Cardinality(todo'[k]) = t - 1
    BY <1>0, <1>2, <2>1
  <2> QED
    BY <1>1, <2>1, <2>2, <2>3 DEF StepsLeft
<1>13. CASE PushRaises(k) \/ Close(k)
  <2>1. pc[k] \in {"push", "fetch"} /\ End(k)
    BY <1>13 DEF PushRaises, Close
  <2>2. pc[k] = "push" => t # 0
    BY <1>2 DEF InHand
  <2> QED
    BY <1>1, <1>4, <2>1, <2>2, EndFields DEF StepsLeft
<1> QED
  BY <1>5, <1>6, <1>8, <1>9, <1>10, <1>11, <1>12, <1>13 DEF Step

LEMMA BeginFields ==
    ASSUME TypeOK, NEW k \in Cycles, NEW work, NEW deploy, NEW force, Begin(k, work, deploy, force)
    PROVE  /\ pc[k] = "idle" /\ \A j \in Cycles \ {k} : CycleSame(j)
           /\ CycleSame(k) \/ (pc'[k] = "check" /\ got'[k] = got[k])
BY DEF TypeOK, Begin, Idle, CycleSame

\* A step leaves a cycle alone, is its own, starts it, or cuts it short.
LEMMA WhatHappens ==
    ASSUME IsFiniteSet(Devices), TypeOK, \A k \in Cycles : InHand(k), [Next]_vars,
           NEW k \in Cycles
    PROVE  \/ Step(k)
           \/ /\ ~Step(k)
              /\ \/ CycleSame(k)
                 \/ pc[k] = "idle" /\ pc'[k] = "check" /\ got'[k] = got[k]
                 \/ pc[k] # "idle" /\ pc'[k] = "idle" /\ got'[k] = {}
<1> SUFFICES ASSUME ~Step(k)
             PROVE  \/ CycleSame(k)
                    \/ pc[k] = "idle" /\ pc'[k] = "check" /\ got'[k] = got[k]
                    \/ pc[k] # "idle" /\ pc'[k] = "idle" /\ got'[k] = {}
  OBVIOUS
<1>1. ASSUME NEW j \in Cycles, Step(j) PROVE CycleSame(k)
  BY <1>1, CycleShortens
<1>2. ASSUME NEW j \in Cycles, CutShort(j)
      PROVE  CycleSame(k) \/ (pc[k] # "idle" /\ pc'[k] = "idle" /\ got'[k] = {})
  BY <1>2, EndFields DEF CutShort, Idle
<1>3. ASSUME NEW j \in Cycles, NEW work, NEW deploy, NEW force, Begin(j, work, deploy, force)
      PROVE  CycleSame(k) \/ (pc[k] = "idle" /\ pc'[k] = "check" /\ got'[k] = got[k])
  BY <1>3, BeginFields
<1>4. CASE Fire
  BY <1>3, <1>4 DEF Fire, Cycles
<1>5. ASSUME NEW j \in Manual, Trigger(j) \/ IssueRun(j)
      PROVE  CycleSame(k) \/ (pc[k] = "idle" /\ pc'[k] = "check" /\ got'[k] = got[k])
  BY <1>3, <1>5 DEF Trigger, IssueRun, Cycles
<1>6. CASE Miss \/ Tick \/ (\E d \in Devices : Delete(d) \/ Switch(d)) \/ UNCHANGED vars
  BY <1>6 DEF Miss, Tick, Delete, Switch, vars, cycles, CycleSame
<1> QED
  BY <1>1, <1>2, <1>4, <1>5, <1>6 DEF Next

LEMMA InHandStep ==
    ASSUME IsFiniteSet(Devices), TypeOK, TypeOK', \A k \in Cycles : InHand(k), [Next]_vars,
           NEW k \in Cycles
    PROVE  InHand(k)' /\ (StepsLeft(k)' \in Nat => Shortens(k))
<1>1. StepsLeft(k) \in Nat
  BY StepsLeftType
<1>2. CASE Step(k)
  BY <1>1, <1>2, CycleShortens DEF Shortens
<1>3. CASE ~Step(k) /\ CycleSame(k)
  <2>1. InHand(k)' /\ StepsLeft(k)' = StepsLeft(k)
    BY <1>3 DEF CycleSame, InHand, StepsLeft
  <2> QED
    BY <1>1, <1>3, <2>1 DEF Shortens, CycleSame
<1>4. CASE ~Step(k) /\ pc[k] = "idle" /\ pc'[k] = "check" /\ got'[k] = got[k]
  <2>1. InHand(k)' /\ got'[k] = {}
    BY <1>4 DEF InHand
  <2>2. IsFiniteSet({}) /\ Cardinality({}) = 0
    BY FS_EmptySet
  <2>3. StepsLeft(k)' = 5 * Cardinality(todo'[k]) + 2 * 0 + 2
    BY <1>4, <2>1, <2>2 DEF StepsLeft
  <2>4. todo'[k] \in SUBSET Devices
    BY DEF TypeOK
  <2>5. Cardinality(todo'[k]) \in Nat
    BY <2>4, FS_Subset, FS_CardinalityType
  <2> QED
    BY <1>1, <1>4, <2>1, <2>3, <2>5 DEF Shortens
<1>5. CASE ~Step(k) /\ pc[k] # "idle" /\ pc'[k] = "idle" /\ got'[k] = {}
  <2>1. InHand(k)' /\ StepsLeft(k)' = 0
    BY <1>5 DEF InHand, StepsLeft
  <2> QED
    BY <1>1, <1>5, <2>1 DEF Shortens
<1> QED
  BY <1>2, <1>3, <1>4, <1>5, WhatHappens

(***************************************************************************)
(* A cycle or an issuance run over n devices takes at most 5n+2 steps:     *)
(* each of its own brings it nearer its end, in the loop of                *)
(* IssuanceService.run and in that of the deployments, and nothing that    *)
(* other runs, operators who delete devices or the calendar do sets it     *)
(* back.  Renewed needs besides that every call returns.                   *)
(***************************************************************************)
THEOREM CycleTakesSoManySteps ==
    ASSUME IsFiniteSet(Devices)
    PROVE  Spec => /\ [](\A k \in Cycles : StepsLeft(k) \in Nat)
                   /\ [][\A k \in Cycles : Shortens(k)]_vars
<1> DEFINE Counted == TypeOK /\ \A k \in Cycles : InHand(k)
           Known == \A k \in Cycles : StepsLeft(k) \in Nat
           Shorter == \A k \in Cycles : Shortens(k)
<1>1. Init => Counted
  BY RenewalInitType DEF Init, InHand
<1>2. Counted /\ TypeOK' /\ [Next]_vars => Counted'
  BY InHandStep
<1>3. Counted => Known
  BY StepsLeftType
<1>4. Counted /\ TypeOK' /\ Known' /\ [Next]_vars => [Shorter]_vars
  BY InHandStep
<1> HIDE DEF Counted, Known, Shorter
<1>5. Spec => []Known /\ [][Shorter]_vars
  BY <1>1, <1>2, <1>3, <1>4, RenewalTypeCorrect, PTL DEF Spec
<1> QED
  BY <1>5 DEF Known, Shorter

-----------------------------------------------------------------------------
(* What one device costs the others                                        *)

LEMMA EndsWhenThrough ==
    ASSUME TypeOK, [Next]_vars, NEW k \in Cycles, pc[k] # "idle", pc'[k] = "idle",
           at[k] \in enrolled, ~CutShort(k), ~PushRaises(k)
    PROVE  todo[k] = {}
<1>1. ASSUME NEW j \in Cycles, Step(j) \/ CutShort(j) PROVE j = k
  <2>1. ASSUME j # k PROVE pc'[k] = pc[k]
    BY <1>1, <2>1 DEF TypeOK, Step, CutShort, End, Check, OrderSucceeds, LogIssued, OrderFails,
       IssuesDone, Fetch, Push, PushRaises, Close, Record, Proceed
  <2> QED
    BY <2>1
<1>2. CASE Step(k)
  <2>1. ASSUME Check(k) \/ OrderSucceeds(k) \/ LogIssued(k) \/ OrderFails(k)
                  \/ Fetch(k) \/ Push(k)
        PROVE  FALSE
    BY <2>1 DEF Check, OrderSucceeds, LogIssued, OrderFails, Fetch, Push,
                Record, Proceed, TypeOK
  <2> QED
    BY <1>2, <2>1 DEF Step, IssuesDone, Close
<1>3. ASSUME NEW j \in Cycles, NEW work, NEW deploy, NEW force, Begin(j, work, deploy, force)
      PROVE  FALSE
  BY <1>3, BeginFields DEF CycleSame
<1>4. ~Fire /\ \A j \in Manual : ~Trigger(j) /\ ~IssueRun(j)
  BY <1>3 DEF Fire, Trigger, IssueRun, Cycles
<1>5. ~Miss /\ ~Tick /\ (\A d \in Devices : ~Delete(d) /\ ~Switch(d)) /\ vars' # vars
  BY DEF Miss, Tick, Delete, Switch, vars, cycles
<1> QED
  BY <1>1, <1>2, <1>4, <1>5 DEF Next

(***************************************************************************)
(* FleetAttempted for every fleet, without any assumption: what goes wrong *)
(* with the order or the deployment of one device, and what other runs do  *)
(* to it, costs no other device its turn, in the loop of                   *)
(* IssuanceService.run (app/issuance.py:291) and in that of the            *)
(* deployments (app/scheduler.py:109-128).  It does not say that nothing   *)
(* ends a run early: what CutShort and PushRaises stand for does, and so   *)
(* does a device that is deleted while it is handled.                      *)
(***************************************************************************)
THEOREM FailuresAreContained == Spec => FleetAttempted
<1> DEFINE Contained ==
        \A k \in Cycles :
            pc[k] # "idle" /\ pc'[k] = "idle" =>
                \/ todo[k] \cap enrolled = {}
                \/ CutShort(k) \/ PushRaises(k) \/ at[k] \notin enrolled
<1>1. TypeOK /\ [Next]_vars => [Contained]_vars
  BY EndsWhenThrough
<1> HIDE DEF Contained
<1>2. Spec => [][Contained]_vars
  BY <1>1, RenewalTypeCorrect, PTL DEF Spec
<1> QED
  BY <1>2 DEF Contained, FleetAttempted

-----------------------------------------------------------------------------
(* The certificate on record stays valid, whatever becomes of deployments  *)

\* Nothing is deleted, and the trouble stays below every device's margin.
Tended == ~Deletes /\ \A d \in Devices : MaxTrouble < Threshold[d] /\ MaxTrouble < Validity - 1

\* The days left at which a device is due: the very next day if its threshold
\* is no less than what a certificate lasts
Margin(d) == IF Threshold[d] < Validity THEN Threshold[d] ELSE Validity - 1

\* MarginInv without assuming that a new certificate is outside the margin
Above(d) ==
    d \notin passed /\ newest[d] # NoCert =>
        /\ newest[d] + failing[d] >= Margin(d)
        /\ ~Waiting(d) => newest[d] + failing[d] > Margin(d)

JustObtained(k) == pc[k] = "log" => newest[at[k]] = Validity

RecordInv ==
    /\ enrolled = Devices
    /\ \A k \in Cycles : JustObtained(k)
    /\ \A d \in Devices : Above(d)

LEMMA MarginBounds ==
    ASSUME Tended, TypeOK, NEW d \in Devices
    PROVE  /\ Margin(d) \in Nat /\ Margin(d) < Validity /\ MaxTrouble < Margin(d)
           /\ failing[d] \in Nat /\ failing[d] < Margin(d)
           /\ newest[d] \in Nat \cup {NoCert}
           /\ ~Due(d) => newest[d] \in Nat /\ newest[d] > Margin(d)
<1>1. /\ Threshold[d] \in Nat /\ Validity \in Nat /\ MaxTrouble \in Nat
      /\ MaxTrouble < Threshold[d] /\ MaxTrouble < Validity - 1
  BY ThresholdAssumption, ValidityAssumption, TroubleAssumption DEF Tended
<1>2. /\ Margin(d) \in Nat /\ Margin(d) < Validity /\ MaxTrouble < Margin(d)
      /\ Margin(d) <= Threshold[d]
  BY <1>1 DEF Margin
<1>3. failing[d] \in 0 .. MaxTrouble /\ newest[d] \in 0 .. Validity \cup {NoCert}
  BY DEF TypeOK, Days
<1>4. failing[d] \in Nat /\ failing[d] < Margin(d) /\ newest[d] \in Nat \cup {NoCert}
  BY <1>1, <1>2, <1>3
<1>5. ASSUME ~Due(d) PROVE newest[d] \in Nat /\ newest[d] > Threshold[d]
  BY <1>1, <1>3, <1>5 DEF Due
<1> QED
  BY <1>1, <1>2, <1>4, <1>5

\* A device that is no longer waited for is safe or had its trouble counted.
LEMMA StaysAbove ==
    ASSUME Tended, TypeOK, TypeOK', RecordInv, NEW d \in Devices, newest'[d] = newest[d],
           failing'[d] >= failing[d], d \in passed => d \in passed',
           d \notin passed' /\ Waiting(d) /\ ~Waiting(d)' =>
               newest[d] = NoCert \/ newest[d] > Margin(d) \/ failing'[d] > failing[d]
    PROVE  Above(d)'
<1>1. Above(d)
  BY DEF RecordInv
<1>2. /\ Margin(d) \in Nat /\ failing[d] \in Nat /\ newest[d] \in Nat \cup {NoCert}
  BY MarginBounds
<1>3. failing'[d] \in Nat
  BY TroubleAssumption DEF TypeOK
<1>4. CASE d \in passed' \/ newest[d] = NoCert
  BY <1>4 DEF Above
<1>5. CASE d \notin passed' /\ d \notin passed /\ newest[d] # NoCert
  <2>1. newest[d] \in Nat /\ newest[d] + failing[d] >= Margin(d)
    BY <1>1, <1>2, <1>5 DEF Above
  <2>2. newest[d] + failing'[d] >= Margin(d)
    BY <1>2, <1>3, <2>1
  <2>3. ASSUME ~Waiting(d)' PROVE newest[d] + failing'[d] > Margin(d)
    <3>1. CASE Waiting(d)
      BY <1>2, <1>3, <1>5, <2>1, <2>3, <3>1
    <3>2. CASE ~Waiting(d)
      <4>1. newest[d] + failing[d] > Margin(d)
        BY <1>1, <1>5, <3>2 DEF Above
      <4> QED
        BY <1>2, <1>3, <2>1, <4>1
    <3> QED
      BY <3>1, <3>2
  <2>4. (Margin(d))' = Margin(d)
    BY DEF Margin
  <2> QED
    BY <2>2, <2>3 DEF Above, Margin
<1> QED
  BY <1>4, <1>5

LEMMA StepPassed ==
    ASSUME NEW k \in Cycles, Step(k)
    PROVE  \A d \in passed : d \in passed' \/ (OrderSucceeds(k) /\ d = at[k])
BY DEF Step, Check, OrderSucceeds, LogIssued, OrderFails, IssuesDone, Fetch, Push,
       PushRaises, Close, devices

LEMMA StepApart ==
    ASSUME TypeOK, NEW k \in Cycles, Step(k)
    PROVE  Apart(k) /\ fired' = fired /\ enrolled' = enrolled
BY DEF TypeOK, Apart, Step, Check, OrderSucceeds, LogIssued, OrderFails, IssuesDone, Fetch, Push,
       PushRaises, Close, Record, Proceed, End, devices

\* A cycle's step takes a device off its list only when it may.
LEMMA StepAbove ==
    ASSUME Tended, TypeOK, TypeOK', RecordInv, NEW k \in Cycles, Step(k)
    PROVE  RecordInv'
<1>1. Apart(k) /\ fired' = fired /\ enrolled' = enrolled /\ enrolled = Devices /\ at[k] \in Devices
  BY StepApart DEF RecordInv, TypeOK
<1>0. \A d \in passed : d \in passed' \/ (OrderSucceeds(k) /\ d = at[k])
  BY StepPassed
<1>2. ASSUME NEW d \in Devices, Waiting(d), ~Waiting(d)'
      PROVE  /\ pc[k] \in Ordering /\ d \in todo[k]
             /\ ~(pc'[k] \in Ordering /\ d \in todo'[k])
  BY <1>1, <1>2, StoppedWaiting
<1>3. CASE OrderSucceeds(k)
  <2>1. /\ newest' = [newest EXCEPT ![at[k]] = Validity] /\ failing' = [failing EXCEPT ![at[k]] = 0]
        /\ pc[k] = "order" /\ pc'[k] = "log" /\ todo'[k] = todo[k] /\ at'[k] = at[k]
    BY <1>3 DEF OrderSucceeds, TypeOK
  <2>2. ASSUME NEW d \in Devices, d = at[k] PROVE Above(d)'
    <3>1. Margin(d) \in Nat /\ Margin(d) < Validity
      BY MarginBounds
    <3>2. newest'[d] = Validity /\ failing'[d] = 0 /\ Validity \in Nat
      BY <2>1, <2>2, ValidityAssumption DEF TypeOK
    <3>3. newest'[d] + failing'[d] > Margin(d) /\ newest'[d] + failing'[d] >= Margin(d)
      BY <3>1, <3>2
    <3> QED
      BY <3>3 DEF Above, Margin
  <2>3. ASSUME NEW d \in Devices, d # at[k] PROVE Above(d)'
    <3>1. newest'[d] = newest[d] /\ failing'[d] = failing[d] /\ failing[d] \in Nat
      BY <1>1, <2>1, <2>3, MarginBounds DEF TypeOK
    <3>2. ~(Waiting(d) /\ ~Waiting(d)')
      BY <1>2, <2>1 DEF Ordering
    <3> QED
      BY <1>0, <2>3, <3>1, <3>2, StaysAbove
  <2>4. ASSUME NEW j \in Cycles PROVE JustObtained(j)'
    <3>1. JustObtained(j) /\ at[j] \in Devices
      BY DEF RecordInv, TypeOK
    <3>2. CASE j = k
      BY <1>1, <2>1, <3>2 DEF JustObtained, TypeOK
    <3>3. CASE j # k
      BY <1>1, <2>1, <3>1, <3>3 DEF JustObtained, TypeOK, Apart
    <3> QED
      BY <3>2, <3>3
  <2>5. \A d \in Devices : Above(d)'
    BY <2>2, <2>3
  <2> QED
    BY <1>1, <2>4, <2>5 DEF RecordInv
<1>4. CASE ~OrderSucceeds(k)
  <2>1. newest' = newest /\ pc'[k] # "log"
    BY <1>4 DEF Step, Check, LogIssued, OrderFails, IssuesDone, Fetch, Push, PushRaises, Close,
                Record, Proceed, End, TypeOK, devices
  <2>2. ASSUME NEW j \in Cycles PROVE JustObtained(j)'
    BY <1>1, <2>1 DEF RecordInv, JustObtained, Apart
  <2>3. ASSUME NEW d \in Devices PROVE Above(d)'
    <3>1. failing[d] \in Nat /\ (~Due(d) => newest[d] > Margin(d))
      BY MarginBounds
    <3>2. CASE OrderFails(k)
      <4>1. /\ failing' = [failing EXCEPT ![at[k]] = @ + 1] /\ pc'[k] = "check"
            /\ todo'[k] = todo[k] \ {at[k]}
        BY <1>1, <3>2 DEF OrderFails, Record, Proceed, TypeOK
      <4>2. /\ failing'[d] = (IF d = at[k] THEN failing[d] + 1 ELSE failing[d])
        BY <4>1 DEF TypeOK
      <4>3. Waiting(d) /\ ~Waiting(d)' => d = at[k]
        BY <1>2, <4>1 DEF Ordering
      <4>4. failing'[d] >= failing[d] /\ (d = at[k] => failing'[d] > failing[d])
        BY <3>1, <4>2
      <4> QED
        BY <1>0, <1>4, <2>1, <4>3, <4>4, StaysAbove
    <3>3. CASE ~OrderFails(k)
      <4>1. failing' = failing
        BY <1>4, <3>3 DEF Step, Check, LogIssued, IssuesDone, Fetch, Push, PushRaises, Close, devices
      <4>2. ASSUME Waiting(d), ~Waiting(d)'
            PROVE  newest[d] > Margin(d)
        <5>1. /\ pc[k] \in Ordering /\ d \in todo[k]
              /\ ~(pc'[k] \in Ordering /\ d \in todo'[k])
          BY <1>2, <4>2
        <5>2. CASE Check(k)
          <6>1. ~Due(d)
            BY <5>1, <5>2 DEF Check, TypeOK, Ordering
          <6> QED
            BY <3>1, <6>1
        <5>3. CASE LogIssued(k)
          <6>1. pc[k] = "log" /\ d = at[k]
            BY <1>1, <5>1, <5>3 DEF LogIssued, Record, Proceed, TypeOK, Ordering
          <6>2. newest[d] = Validity
            BY <6>1 DEF RecordInv, JustObtained
          <6> QED
            BY <6>2, MarginBounds, ValidityAssumption
        <5> QED
          BY <1>4, <3>3, <5>1, <5>2, <5>3
             DEF Step, IssuesDone, Fetch, Push, PushRaises, Close, Ordering
      <4>3. failing'[d] >= failing[d]
        BY <3>1, <4>1
      <4> QED
        BY <1>0, <1>4, <2>1, <4>2, <4>3, StaysAbove
    <3> QED
      BY <3>2, <3>3
  <2> QED
    BY <1>1, <2>2, <2>3 DEF RecordInv
<1> QED
  BY <1>3, <1>4

\* A cycle begins: what is not on its list was not due.
LEMMA BeginAbove ==
    ASSUME Tended, TypeOK, TypeOK', RecordInv, NEW k \in Cycles, NEW work \in SUBSET Devices,
           NEW deploy, NEW force, Begin(k, work, deploy, force),
           UNCHANGED <<enrolled, newest, failing>>,
           \/ k # Sched /\ fired' = fired /\ passed' = passed
           \/ k = Sched /\ fired' /\ work = DueDevices /\ passed' = passed \cup PassedOver
    PROVE  RecordInv'
<1>1. /\ enrolled' = enrolled /\ newest' = newest /\ failing' = failing /\ at' = at
      /\ \A j \in Cycles : pc'[j] = "log" => pc[j] = "log"
      /\ \A j \in Cycles \ {k} : CycleSame(j)
  BY BeginFields DEF Begin, CycleSame, TypeOK
<1>2. ASSUME NEW j \in Cycles PROVE JustObtained(j)'
  BY <1>1 DEF RecordInv, JustObtained
<1>3. ASSUME NEW d \in Devices PROVE Above(d)'
  <2>1. failing[d] \in Nat /\ (~Due(d) => newest[d] > Margin(d)) /\ Sched \in Cycles
    BY MarginBounds DEF Cycles
  <2>2. ASSUME d \notin passed', Waiting(d), ~Waiting(d)' PROVE ~Due(d)
    <3>1. k = Sched /\ work = DueDevices /\ passed' = passed \cup PassedOver
      BY <1>1, <2>1, <2>2 DEF Waiting, CycleSame
    <3>2. ASSUME Due(d) PROVE FALSE
      <4>1. d \in work
        BY <2>2, <3>1, <3>2 DEF DueDevices, PassedOver, RecordInv
      <4>2. pc'[Sched] = "check" /\ d \in todo'[Sched]
        BY <2>1, <3>1, <4>1 DEF Begin, TypeOK
      <4> QED
        BY <2>2, <4>2 DEF Waiting, Ordering
    <3> QED
      BY <3>2
  <2>3. failing'[d] >= failing[d]
    BY <1>1, <2>1
  <2> QED
    BY <1>1, <2>1, <2>2, <2>3, StaysAbove
<1> QED
  BY <1>1, <1>2, <1>3 DEF RecordInv

\* The scheduler's cycle is missed or cut short: a day of trouble for what is
\* due
LEMMA TroubleAbove ==
    ASSUME Tended, TypeOK, TypeOK', RecordInv, NEW left \in SUBSET Devices, Trouble(left),
           enrolled' = enrolled, newest' = newest, passed \subseteq passed',
           \A d \in Devices \ passed' : Waiting(d) /\ ~Waiting(d)' /\ Due(d) => d \in left
    PROVE  \A d \in Devices : Above(d)'
<1> SUFFICES ASSUME NEW d \in Devices PROVE Above(d)'
  OBVIOUS
<1>1. failing[d] \in Nat /\ (~Due(d) => newest[d] > Margin(d))
  BY MarginBounds
<1>2. failing'[d] = IF d \in left THEN failing[d] + 1 ELSE failing[d]
  BY DEF Trouble
<1>3. failing'[d] >= failing[d] /\ (d \in left => failing'[d] > failing[d])
  BY <1>1, <1>2
<1> QED
  BY <1>1, <1>3, StaysAbove

LEMMA TickAbove ==
    ASSUME Tended, TypeOK, RecordInv, Tick
    PROVE  RecordInv'
<1>1. /\ fired /\ ~fired' /\ enrolled' = enrolled /\ failing' = failing /\ passed' = passed
      /\ \A k \in Cycles : pc'[k] = "idle" /\ pc[k] = "idle"
  BY DEF Tick, Idle, cycles
<1>2. ASSUME NEW d \in Devices PROVE Above(d)'
  <2>1. /\ Margin(d) \in Nat /\ failing[d] \in Nat /\ failing[d] < Margin(d)
        /\ newest[d] \in Nat \cup {NoCert} /\ Above(d)
    BY MarginBounds DEF RecordInv
  <2>2. ~Waiting(d) /\ Waiting(d)'
    BY <1>1 DEF Waiting, Ordering, Cycles
  <2>3. newest'[d] = IF newest[d] \in {NoCert, 0} THEN newest[d] ELSE newest[d] - 1
    BY DEF Tick
  <2>4. CASE newest[d] = NoCert
    BY <2>3, <2>4 DEF Above
  <2>6. CASE d \in passed
    BY <1>1, <2>6 DEF Above
  <2>5. CASE d \notin passed /\ newest[d] # NoCert
    <3>1. newest[d] \in Nat /\ newest[d] + failing[d] > Margin(d)
      BY <2>1, <2>2, <2>5 DEF Above
    <3>2. newest[d] # 0
      BY <2>1, <3>1
    <3>3. newest'[d] = newest[d] - 1
      BY <2>3, <2>5, <3>2
    <3>4. newest'[d] + failing'[d] >= Margin(d)
      BY <1>1, <2>1, <3>1, <3>3
    <3> QED
      BY <2>2, <3>4 DEF Above, Margin
  <2> QED
    BY <2>4, <2>5, <2>6
<1> QED
  BY <1>1, <1>2 DEF RecordInv, JustObtained

LEMMA RecordStays ==
    ASSUME Tended, TypeOK, TypeOK', RecordInv, [Next]_vars
    PROVE  RecordInv'
<1>1. CASE Fire
  <2>1. Sched \in Cycles /\ DueDevices \in SUBSET Devices
    BY DEF Cycles, DueDevices, TypeOK
  <2> QED
    BY <1>1, <2>1, BeginAbove DEF Fire
<1>2. ASSUME NEW k \in Manual, Trigger(k) \/ IssueRun(k) PROVE RecordInv'
  <2>1. k \in Cycles /\ k # Sched
    BY CyclesAssumption DEF Cycles
  <2>3. fired' = fired /\ passed' = passed /\ UNCHANGED <<enrolled, newest, failing>>
    BY <1>2 DEF Trigger, IssueRun, devices
  <2>2. \E work \in SUBSET Devices, deploy, force \in BOOLEAN : Begin(k, work, deploy, force)
    <3>1. CASE Trigger(k)
      <4>1. DueDevices \in SUBSET Devices
        BY DEF DueDevices, TypeOK
      <4>2. \E deploy \in BOOLEAN : Begin(k, DueDevices, deploy, FALSE)
        BY <3>1, RenewalFlagsAssumption DEF Trigger
      <4> QED
        BY <4>1, <4>2
    <3>2. CASE IssueRun(k)
      BY <3>2 DEF IssueRun, TypeOK
    <3> QED
      BY <1>2, <3>1, <3>2
  <2> QED
    BY <2>1, <2>2, <2>3, BeginAbove
<1>3. ASSUME NEW k \in Cycles, Step(k) PROVE RecordInv'
  BY <1>3, StepAbove
<1>4. CASE Miss
  <2>1. /\ Trouble(DueDevices) /\ enrolled' = enrolled /\ newest' = newest
        /\ pc' = pc /\ at' = at /\ enrolled = Devices /\ DueDevices \in SUBSET Devices
        /\ passed' = passed \cup PassedOver
    BY <1>4 DEF Miss, cycles, RecordInv, DueDevices, TypeOK
  <2>3. \A d \in Devices \ passed' : Due(d) => d \in DueDevices
    BY <2>1 DEF DueDevices, PassedOver
  <2>2. \A d \in Devices : Above(d)'
    BY <2>1, <2>3, TroubleAbove
  <2> QED
    BY <2>1, <2>2 DEF RecordInv, JustObtained
<1>5. ASSUME NEW k \in Cycles, CutShort(k) PROVE RecordInv'
  <2> DEFINE left == IF k = Sched /\ pc[k] \in {"check", "order", "log"}
                     THEN {d \in todo[k] \cap enrolled : Due(d)} ELSE {}
  <2>1. /\ Trouble(left) /\ left \in SUBSET Devices /\ enrolled' = enrolled /\ newest' = newest
        /\ fired' = fired /\ at' = at /\ enrolled = Devices /\ passed' = passed
    BY <1>5 DEF CutShort, End, RecordInv, TypeOK
  <2>2. /\ pc'[k] = "idle" /\ \A j \in Cycles \ {k} : CycleSame(j)
    BY <1>5, EndFields DEF CutShort
  <2>3. ASSUME NEW d \in Devices, Waiting(d), ~Waiting(d)', Due(d) PROVE d \in left
    <3>1. fired /\ pc[Sched] \in Ordering /\ d \in todo[Sched] /\ Sched \in Cycles
      BY <2>1, <2>3 DEF Waiting, Cycles
    <3>2. k = Sched
      BY <2>2, <2>3, <3>1 DEF Waiting, CycleSame
    <3> QED
      BY <2>1, <2>3, <3>1, <3>2 DEF Ordering
  <2> HIDE DEF left
  <2>4. \A d \in Devices : Above(d)'
    BY <2>1, <2>3, TroubleAbove
  <2>5. ASSUME NEW j \in Cycles PROVE JustObtained(j)'
    BY <2>1, <2>2 DEF RecordInv, JustObtained, CycleSame
  <2> QED
    BY <2>1, <2>4, <2>5 DEF RecordInv
<1>6. CASE Tick
  BY <1>6, TickAbove
<1>7. \A d \in Devices : ~Delete(d)
  BY DEF Delete, Tended
<1>8. CASE UNCHANGED vars \/ \E d \in Devices : Switch(d)
  <2>1. UNCHANGED <<enrolled, passed, newest, failing, fired, pc, todo, at>>
    BY <1>8 DEF Switch, vars, devices, cycles
  <2>2. ASSUME NEW d \in Devices PROVE Above(d)'
    BY <2>1 DEF RecordInv, Above, Waiting, Margin
  <2> QED
    BY <2>1, <2>2 DEF RecordInv, JustObtained
<1> QED
  BY <1>1, <1>2, <1>3, <1>4, <1>5, <1>6, <1>7, <1>8 DEF Next

(***************************************************************************)
(* Issuing does not hang on delivery.  Whatever becomes of deployments, of *)
(* stored bundles and of the processes that run the cycles, whoever issues *)
(* besides, forced or not, and whatever overlaps, the certificate on       *)
(* record for a device never expires while fewer days in a row are lost to *)
(* its orders than its margin has and nothing is deleted (needs_renewal,   *)
(* app/issuance.py:291, app/scheduler.py:3-5), unless the daily cycle has  *)
(* left the device out when it was due, because it or its tenant was       *)
(* disabled, and it has not been renewed since.  What NeverExpired has to  *)
(* assume in addition concerns the way from the record to the gateway.     *)
(***************************************************************************)
THEOREM NewestStaysValid ==
    ASSUME Tended
    PROVE  Spec => [](\A d \in Devices \ passed : newest[d] # 0)
<1> DEFINE Valid == \A d \in Devices \ passed : newest[d] # 0
<1>1. Init => RecordInv
  BY DEF Init, RecordInv, JustObtained, Above
<1>2. RecordInv /\ TypeOK /\ TypeOK' /\ [Next]_vars => RecordInv'
  BY RecordStays
<1>3. RecordInv /\ TypeOK => Valid
  <2> SUFFICES ASSUME RecordInv, TypeOK, NEW d \in Devices \ passed PROVE newest[d] # 0
    OBVIOUS
  <2>1. Above(d) /\ failing[d] \in Nat /\ Margin(d) \in Nat /\ failing[d] < Margin(d)
    BY MarginBounds DEF RecordInv
  <2>2. ASSUME newest[d] = 0 PROVE FALSE
    <3>1. 0 + failing[d] >= Margin(d)
      BY <2>1, <2>2, NullsAssumption DEF Above
    <3> QED
      BY <2>1, <3>1
  <2> QED
    BY <2>2
<1> HIDE DEF Valid
<1>4. Spec => []Valid
  BY <1>1, <1>2, <1>3, RenewalTypeCorrect, PTL DEF Spec
<1> QED
  BY <1>4 DEF Valid

=============================================================================
