--------------------------- MODULE ProviderProofs ---------------------------
(***************************************************************************)
(* AcmeOrder implements CertProvider: every step of an order is a step of  *)
(* a call that keeps its promises, for any orders, names, nameservers and  *)
(* directories and any faults.                                             *)
(***************************************************************************)
EXTENDS AcmeOrderProofs

-----------------------------------------------------------------------------
(* What the callers see                                                    *)

Stage(o) == IF pc[o] = "idle" THEN "new" ELSE IF pc[o] \in Over THEN pc[o] ELSE "open"
AllStages == [o \in Orders |-> Stage(o)]
Littered == {o \in Orders : \E r \in zone : r.order = o}

\* Only records of o come and go.
OwnZone(o) == \A r \in Records : r.order # o => (r \in zone' <=> r \in zone)

\* What o holds was issued to it, and its records and its certificate are
\* where the theorems about AcmeOrder say.
PromiseInv ==
    /\ RecordInv
    /\ CertInv
    /\ \A o \in Orders : job[o].has => o \in certified

LEMMA SeenStages ==
    ASSUME TypeOK, TypeOK', NEW o \in Orders, Only(o)
    PROVE  /\ Stage(o)' = Stage(o) => AllStages' = AllStages
           /\ AllStages' = [AllStages EXCEPT ![o] = Stage(o)']
BY DEF Only, AllStages, Stage

LEMMA SeenRecords ==
    ASSUME TypeOK, TypeOK', NEW o \in Orders, OwnZone(o)
    PROVE  /\ Littered' \in {Littered, Littered \cup {o}, Littered \ {o}}
           /\ zone' \subseteq zone => Littered' \in {Littered, Littered \ {o}}
<1>1. zone \subseteq Records /\ zone' \subseteq Records
  BY DEF TypeOK
<1>2. \A p \in Orders \ {o} : p \in Littered' <=> p \in Littered
  BY <1>1 DEF OwnZone, Littered
<1>3. Littered \subseteq Orders /\ Littered' \subseteq Orders
  BY DEF Littered
<1>4. zone' \subseteq zone => Littered' \subseteq Littered
  BY DEF Littered
<1> QED
  BY <1>2, <1>3, <1>4

\* A step of an order that goes on
LEMMA WorkStep ==
    ASSUME TypeOK, TypeOK', NEW o \in Orders, Only(o), OwnZone(o),
           pc[o] \notin Over \cup {"idle"}, pc'[o] \notin Over \cup {"idle"},
           certified' \in {certified, certified \cup {o}},
           broken' \in {broken, broken \cup {o}}
    PROVE  Provider!Work(o)
<1>1. Stage(o) = "open" /\ Stage(o)' = "open"
  BY DEF Stage, Over
<1>2. AllStages' = AllStages /\ AllStages[o] = "open"
  BY <1>1, SeenStages DEF AllStages
<1> QED
  BY <1>2, SeenRecords DEF Provider!Work, AllStages, Stage, Littered

\* A step by which an order ends without a certificate
LEMMA RaiseStep ==
    ASSUME TypeOK, TypeOK', NEW o \in Orders, Only(o), OwnZone(o), zone' \subseteq zone,
           pc[o] \notin Over \cup {"idle"}, pc'[o] = "failed", certified' = certified,
           broken' \in {broken, broken \cup {o}},
           o \in certified \cup Littered' => o \in broken'
    PROVE  Provider!Raise(o)
<1>1. Stage(o) = "open" /\ Stage(o)' = "failed"
  BY DEF Stage, Over
<1>2. AllStages' = [AllStages EXCEPT ![o] = "failed"] /\ AllStages[o] = "open"
  BY <1>1, SeenStages DEF AllStages
<1>3. Provider!Move(o, "open", "failed")
  BY <1>2 DEF Provider!Move, AllStages, Stage
<1> QED
  BY <1>3, SeenRecords DEF Provider!Raise, Littered

\* Before its challenges and after an error that broke nothing, an order has
\* no certificate and no records.
LEMMA NothingToLose ==
    ASSUME PromiseInv, NEW o \in Orders, o \notin broken
    PROVE  /\ ~job[o].has /\ pc[o] # "issued" => o \notin certified
           /\ job[o].made = {} => o \notin Littered
BY DEF PromiseInv, RecordInv, KnownInv, CertInv, HeldInv, Littered

\* What an order holds was issued to it: no step but finalize_order's gives
\* it a certificate, and none takes back what the CA has issued.
LEMMA HoldsIssued ==
    ASSUME TypeOK, [Next]_vars, \A o \in Orders : job[o].has => o \in certified
    PROVE  \A o \in Orders : job'[o].has => o \in certified'
<1>1. certified \subseteq certified'
  <2>1. ASSUME NEW o \in Orders, Finalize(o) PROVE certified \subseteq certified'
    BY <2>1 DEF Finalize
  <2>2. ASSUME NEW o \in Orders,
               \/ Start(o) \/ AccountKey(o) \/ Register(o) \/ KeepUri(o) \/ NewOrder(o)
               \/ GiveUp(o) \/ CreateRecord(o) \/ Poll(o) \/ Answer(o) \/ Fail(o)
               \/ Cleanup(o) \/ Validate(o) \/ Kill(o)
        PROVE  certified' = certified
    BY <2>2 DEF Start, AccountKey, Register, KeepUri, NewOrder, GiveUp, CreateRecord, Poll,
       Answer, Fail, Cleanup, Validate, Kill, ca
  <2>3. Sweep \/ Move \/ (\E s \in Servers : Propagate(s)) \/ UNCHANGED vars
            => certified' = certified
    BY DEF Sweep, Move, Propagate, vars, ca
  <2> QED
    BY <2>1, <2>2, <2>3 DEF Next, Step
<1>2. ASSUME NEW o \in Orders, Only(o), job'[o].has => job[o].has \/ o \in certified'
      PROVE  \A p \in Orders : job'[p].has => p \in certified'
  BY <1>1, <1>2 DEF Only
<1>3. ASSUME NEW o \in Orders, Start(o) \/ AccountKey(o) \/ Register(o) \/ KeepUri(o)
      PROVE  \A p \in Orders : job'[p].has => p \in certified'
  <2>1. Only(o) /\ (job'[o].has => job[o].has)
    BY <1>3, StartEffect, AccountKeyEffect, RegisterEffect, KeepUriEffect, BlankFacts
  <2> QED
    BY <1>2, <2>1
<1>4. ASSUME NEW o \in Orders, NewOrder(o) \/ GiveUp(o) \/ Kill(o) \/ Cleanup(o) \/ Finalize(o)
      PROVE  \A p \in Orders : job'[p].has => p \in certified'
  <2>1. Only(o) /\ (job'[o].has => job[o].has \/ o \in certified')
    BY <1>4, NewOrderEffect, ReturnEffect, CleanupEffect, FinalizeEffect, BlankFacts
       DEF GiveUp, Kill
  <2> QED
    BY <1>2, <2>1
<1>5. ASSUME NEW o \in Orders, Poll(o) \/ Answer(o) \/ Validate(o) \/ Fail(o) \/ CreateRecord(o)
      PROVE  \A p \in Orders : job'[p].has => p \in certified'
  <2>1. CASE Poll(o)
    BY <1>2, <2>1, PollEffect
  <2>2. CASE Answer(o)
    BY <1>2, <2>2, AnswerEffect
  <2>3. CASE Validate(o)
    BY <1>2, <2>3, ValidateEffect
  <2>4. CASE Fail(o)
    BY <1>1, <2>4 DEF Fail
  <2>5. CASE CreateRecord(o)
    BY <1>2, <2>5, CreateEffect
  <2> QED
    BY <1>5, <2>1, <2>2, <2>3, <2>4, <2>5
<1>6. CASE Sweep
  BY <1>2, <1>6, SweepEffect
<1>7. CASE Move \/ (\E s \in Servers : Propagate(s)) \/ UNCHANGED vars
  BY <1>1, <1>7 DEF Move, Propagate, vars
<1> QED
  BY <1>3, <1>4, <1>5, <1>6, <1>7 DEF Next, Step

LEMMA PromiseHolds == Spec => []PromiseInv
<1>1. Init => PromiseInv
  <2> SUFFICES ASSUME Init PROVE PromiseInv
    OBVIOUS
  <2>1. TypeOK /\ RecordInv
    BY InitType, RecordInit DEF TypeInv
  <2> QED
    BY <2>1, BlankFacts DEF Init, PromiseInv, CertInv, HeldInv
<1>2. PromiseInv /\ TypeOK' /\ [Next]_vars => PromiseInv'
  <2> SUFFICES ASSUME PromiseInv, TypeOK', [Next]_vars PROVE PromiseInv'
    OBVIOUS
  <2>1. TypeOK /\ RecordInv /\ CertInv
    BY DEF PromiseInv, RecordInv
  <2> QED
    BY <2>1, RecordStep, CertStep, HoldsIssued DEF PromiseInv
<1>3. TypeInv => TypeOK
  BY DEF TypeInv
<1> QED
  BY <1>1, <1>2, <1>3, InitType, StepType, PTL DEF Spec

-----------------------------------------------------------------------------
(* Step by step                                                            *)

LEMMA InitRefines == Init => Provider!Init
<1> SUFFICES ASSUME Init PROVE Provider!Init
  OBVIOUS
<1>1. \A o \in Orders : pc[o] = "idle"
  BY DEF Init
<1> QED
  BY <1>1 DEF Init, Provider!Init

\* The account, the order, the challenges and finalize_order
LEMMA InsideRefines ==
    ASSUME PromiseInv, TypeOK', NEW o \in Orders,
           \/ AccountKey(o) \/ KeepUri(o) \/ NewOrder(o) \/ CreateRecord(o) \/ Poll(o)
           \/ Answer(o) \/ Finalize(o) \/ Fail(o)
    PROVE  Provider!Work(o)
<1>0. TypeOK
  BY DEF PromiseInv, RecordInv
<1>1. CASE AccountKey(o)
  <2>1. Only(o) /\ pc[o] = "key" /\ pc'[o] \in {"register", "order"} /\ UNCHANGED <<ca, dns, broken>>
    BY <1>0, <1>1, AccountKeyEffect
  <2> QED
    BY <1>0, <2>1, WorkStep DEF OwnZone, ca, dns, Over
<1>2. CASE KeepUri(o)
  <2>1. Only(o) /\ pc[o] = "keep" /\ pc'[o] = "order" /\ UNCHANGED <<ca, dns, broken>>
    BY <1>0, <1>2, KeepUriEffect
  <2> QED
    BY <1>0, <2>1, WorkStep DEF OwnZone, ca, dns, Over
<1>3. CASE NewOrder(o)
  <2>1. Only(o) /\ pc[o] = "order" /\ pc'[o] = "create" /\ UNCHANGED <<ca, dns, broken>>
    BY <1>0, <1>3, NewOrderEffect
  <2> QED
    BY <1>0, <2>1, WorkStep DEF OwnZone, ca, dns, Over
<1>4. CASE CreateRecord(o)
  <2>1. PICK n \in Names :
           /\ Only(o) /\ zone' = zone \cup {Rec(o, n)} /\ UNCHANGED <<profile, ca, seen>>
           /\ pc[o] = "create" /\ pc'[o] \in {"wait", "cleanup"}
           /\ broken' \in {broken, broken \cup {o}}
    BY <1>0, <1>4, CreateEffect
  <2>2. OwnZone(o)
    BY <2>1, RecordFacts DEF OwnZone
  <2> QED
    BY <1>0, <2>1, <2>2, WorkStep DEF ca, Over
<1>5. CASE Poll(o)
  <2>1. /\ Only(o) /\ pc[o] = "wait" /\ pc'[o] \in {"wait", "answer"}
        /\ UNCHANGED <<ca, dns, broken>>
    BY <1>0, <1>5, PollEffect
  <2> QED
    BY <1>0, <2>1, WorkStep DEF OwnZone, ca, dns, Over
<1>6. CASE Answer(o)
  <2>1. /\ Only(o) /\ pc[o] = "answer" /\ pc'[o] \in {"create", "finalize", "cleanup"}
        /\ UNCHANGED <<ca, dns>>
    BY <1>0, <1>6, AnswerEffect
  <2>2. broken' \in {broken, broken \cup {o}}
    BY <1>6 DEF Answer, Break
  <2> QED
    BY <1>0, <2>1, <2>2, WorkStep DEF OwnZone, ca, dns, Over
<1>7. CASE Finalize(o)
  <2>1. /\ Only(o) /\ pc[o] = "finalize" /\ pc'[o] = "cleanup"
        /\ certified' = certified \cup {o} /\ UNCHANGED dns
    BY <1>0, <1>7, FinalizeEffect
  <2>2. broken' \in {broken, broken \cup {o}}
    BY <1>7 DEF Finalize, Break
  <2> QED
    BY <1>0, <2>1, <2>2, WorkStep DEF OwnZone, dns, Over
<1>8. CASE Fail(o)
  <2>1. /\ Only(o) /\ pc[o] \in Solving /\ pc'[o] = "cleanup" /\ UNCHANGED <<ca, dns, broken>>
    BY <1>0, <1>8 DEF Fail, Goto, Only, TypeOK
  <2> QED
    BY <1>0, <2>1, WorkStep DEF OwnZone, ca, dns, Over, Solving
<1> QED
  BY <1>1, <1>2, <1>3, <1>4, <1>5, <1>6, <1>7, <1>8

\* A lost answer to the registration, a call that is given up, a kill
LEMMA FailureRefines ==
    ASSUME PromiseInv, TypeOK', NEW o \in Orders, Register(o) \/ GiveUp(o) \/ Kill(o)
    PROVE  Provider!Work(o) \/ Provider!Raise(o)
<1>0. TypeOK /\ \A p \in Orders : OwnInv(p) /\ HeldInv(p)
  BY DEF PromiseInv, RecordInv, CertInv
<1>1. CASE Register(o)
  <2>1. /\ Only(o) /\ pc[o] = "register" /\ UNCHANGED <<certified, dns>>
        /\ \/ pc'[o] = "keep" /\ UNCHANGED broken
           \/ pc'[o] = "failed" /\ broken' = broken \cup {o}
    BY <1>0, <1>1, RegisterEffect
  <2> QED
    BY <1>0, <2>1, WorkStep, RaiseStep DEF OwnZone, dns, Over
<1>2. CASE GiveUp(o)
  <2>1. /\ Only(o) /\ pc[o] \in {"key", "register", "order"} /\ pc'[o] = "failed"
        /\ UNCHANGED <<ca, dns, broken>>
    BY <1>0, <1>2, ReturnEffect DEF GiveUp
  <2>2. ~job[o].has /\ job[o].made = {}
    BY <1>0, <2>1 DEF OwnInv, HeldInv, Solving
  <2>3. o \in certified \cup Littered' => o \in broken
    BY <2>1, <2>2, NothingToLose DEF Littered, dns
  <2> QED
    BY <1>0, <2>1, <2>3, RaiseStep DEF OwnZone, ca, dns, Over
<1>3. CASE Kill(o)
  <2>1. /\ Only(o) /\ pc[o] \notin Over \cup {"idle"} /\ pc'[o] = "failed"
        /\ broken' = broken \cup {o} /\ UNCHANGED <<ca, dns>>
    BY <1>0, <1>3, ReturnEffect DEF Kill, Break
  <2> QED
    BY <1>0, <2>1, RaiseStep DEF OwnZone, ca, dns
<1> QED
  BY <1>1, <1>2, <1>3

\* The finally clause, and the return behind it
LEMMA CleanupRefines ==
    ASSUME PromiseInv, TypeOK', NEW o \in Orders, Cleanup(o)
    PROVE  Provider!Work(o) \/ Provider!Return(o) \/ Provider!Raise(o)
<1>0. TypeOK /\ OwnInv(o) /\ HeldInv(o) /\ (job[o].has => o \in certified)
  BY DEF PromiseInv, RecordInv, CertInv
<1>1. /\ Only(o) /\ pc[o] = "cleanup" /\ certified' = certified /\ zone' \subseteq zone
      /\ zone \ job[o].made \subseteq zone'
  BY <1>0, CleanupEffect DEF ca
<1>2. OwnZone(o)
  BY <1>0, <1>1 DEF OwnZone, OwnInv
<1>3. broken' \in {broken, broken \cup {o}}
  BY DEF Cleanup, Break
<1>4. CASE pc'[o] = "cleanup"
  BY <1>0, <1>1, <1>2, <1>3, <1>4, WorkStep DEF Over
<1>5. CASE /\ job[o].made = {} /\ Return(o, IF job[o].has THEN "issued" ELSE "failed")
           /\ UNCHANGED <<zone, broken>>
  <2>1. pc'[o] = IF job[o].has THEN "issued" ELSE "failed"
    BY <1>0, <1>5, ReturnEffect
  <2>2. o \in Littered => o \in broken
    BY <1>5, NothingToLose
  <2>3. Littered' = Littered
    BY <1>5 DEF Littered
  <2>4. CASE ~job[o].has
    <3>1. o \in certified => o \in broken
      BY <1>1, <2>4, NothingToLose
    <3> QED
      BY <1>0, <1>1, <1>2, <1>3, <1>5, <2>1, <2>2, <2>3, <2>4, <3>1, RaiseStep DEF Over
  <2>5. CASE job[o].has
    <3>1. Stage(o) = "open" /\ Stage(o)' = "issued"
      BY <1>1, <2>1, <2>5 DEF Stage, Over
    <3>2. AllStages' = [AllStages EXCEPT ![o] = "issued"] /\ AllStages[o] = "open"
      BY <1>0, <1>1, <3>1, SeenStages DEF AllStages
    <3>3. Provider!Move(o, "open", "issued")
      BY <3>2 DEF Provider!Move, AllStages, Stage
    <3> QED
      BY <1>0, <1>1, <1>5, <2>2, <2>3, <2>5, <3>3 DEF Provider!Return, Littered
  <2> QED
    BY <2>4, <2>5
<1>6. CASE Break(o) /\ Return(o, "failed")
  <2>1. pc'[o] = "failed" /\ o \in broken'
    BY <1>0, <1>6, ReturnEffect DEF Break
  <2> QED
    BY <1>0, <1>1, <1>2, <1>3, <2>1, RaiseStep DEF Over
<1>7. CASE UNCHANGED pc
  BY <1>1, <1>4, <1>7
<1> QED
  BY <1>5, <1>6, <1>7 DEF Cleanup

\* An operator may clear one record of an order that has another one.
LEMMA SweepRefines ==
    ASSUME PromiseInv, TypeOK', Sweep
    PROVE  Provider!Clear \/ UNCHANGED Provider!calls
<1>0. TypeOK
  BY DEF PromiseInv, RecordInv
<1>1. PICK o \in Orders :
         /\ Only(o) /\ UNCHANGED <<profile, ca, seen, pc, broken>>
         /\ zone' \subseteq zone /\ \A r \in zone \ zone' : r.order = o
  BY <1>0, SweepEffect
<1>2. OwnZone(o)
  BY <1>1 DEF OwnZone
<1>3. Littered' \in {Littered, Littered \ {o}}
  BY <1>0, <1>1, <1>2, SeenRecords
<1>4. AllStages' = AllStages
  BY <1>1 DEF AllStages, Stage
<1>5. CASE Littered' = Littered
  BY <1>1, <1>4, <1>5 DEF Provider!calls, AllStages, Stage, Littered, ca
<1>6. CASE Littered' = Littered \ {o} /\ o \in Littered
  BY <1>1, <1>4, <1>6 DEF Provider!Clear, AllStages, Stage, Littered, ca
<1> QED
  BY <1>3, <1>5, <1>6

LEMMA StepRefines ==
    ASSUME PromiseInv, TypeOK', [Next]_vars
    PROVE  [Provider!Next]_(Provider!calls)
<1>0. TypeOK
  BY DEF PromiseInv, RecordInv
<1>1. ASSUME NEW o \in Orders, Step(o) \/ Kill(o) PROVE Provider!Next
  BY <1>1, InsideRefines, FailureRefines, CleanupRefines DEF Step, Provider!Next
<1>2. ASSUME NEW o \in Orders, Start(o) PROVE Provider!Next
  <2>1. Only(o) /\ pc[o] = "idle" /\ pc'[o] = "key" /\ UNCHANGED <<ca, dns, broken>>
    BY <1>0, <1>2, StartEffect DEF Start
  <2>2. Stage(o) = "new" /\ Stage(o)' = "open"
    BY <2>1 DEF Stage, Over
  <2>3. AllStages' = [AllStages EXCEPT ![o] = "open"] /\ AllStages[o] = "new"
    BY <1>0, <2>1, <2>2, SeenStages DEF AllStages
  <2>4. Provider!Move(o, "new", "open")
    BY <2>3 DEF Provider!Move, AllStages, Stage
  <2>5. Provider!Begin(o)
    BY <2>1, <2>4 DEF Provider!Begin, ca, dns
  <2> QED
    BY <2>5 DEF Provider!Next
<1>3. ASSUME UNCHANGED <<pc, certified, zone, broken>> PROVE UNCHANGED Provider!calls
  BY <1>3 DEF Provider!calls
<1>4. ASSUME NEW o \in Orders, Validate(o) PROVE UNCHANGED Provider!calls
  BY <1>3, <1>4 DEF Validate, ca, dns
<1>5. CASE Move \/ (\E s \in Servers : Propagate(s)) \/ UNCHANGED vars
  BY <1>3, <1>5 DEF Move, Propagate, vars, ca, dns
<1>6. CASE Sweep
  BY <1>6, SweepRefines DEF Provider!Next
<1> QED
  BY <1>1, <1>2, <1>4, <1>5, <1>6 DEF Next

(***************************************************************************)
(* AcmeProvider.issue implements CertProvider, for any number of calls     *)
(* that run at once and any faults: each ends once, returns only what the  *)
(* CA has issued for it, after an error that broke nothing has neither a   *)
(* certificate nor records, and never takes away the records of another    *)
(* call.                                                                   *)
(***************************************************************************)
THEOREM ImplementsProvider == Spec => PromisesKept
<1>1. PromiseInv /\ TypeOK' /\ [Next]_vars => [Provider!Next]_(Provider!calls)
  BY StepRefines
<1>2. TypeInv => TypeOK
  BY DEF TypeInv
<1> QED
  BY <1>1, <1>2, InitType, StepType, InitRefines, PromiseHolds, PTL
     DEF Spec, Provider!Spec, PromisesKept

=============================================================================
