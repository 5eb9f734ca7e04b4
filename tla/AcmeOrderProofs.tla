-------------------------- MODULE AcmeOrderProofs --------------------------
(***************************************************************************)
(* Theorems about AcmeOrder, for any orders, names, nameservers and        *)
(* directories and any faults.                                             *)
(***************************************************************************)
EXTENDS AcmeOrder, Integers, FiniteSets, FiniteSetTheorems, TLAPS

-----------------------------------------------------------------------------
(* Types                                                                   *)

LEMMA BlankType == Blank \in Jobs
BY DEF Blank, Jobs, Stages

LEMMA RecordFacts ==
    ASSUME NEW o \in Orders, NEW n
    PROVE  /\ Rec(o, n).order = o /\ Rec(o, n).name = n
           /\ n \in Names => Rec(o, n) \in Records
BY DEF Rec, Records

\* An order that signs anything has a directory and a key to sign with.
Signed(o) ==
    /\ pc[o] \notin Over \cup {"idle"} => job[o].dir # NoDir
    /\ pc[o] \notin Over \cup {"idle", "key"} => job[o].key # NoKey

TypeInv == TypeOK /\ \A o \in Orders : Signed(o)

LEMMA JobFacts ==
    ASSUME TypeOK, NEW o \in Orders
    PROVE  /\ job[o] \in Jobs /\ pc[o] \in Phases
           /\ job[o].dir \in Directories \cup {NoDir} /\ job[o].key \in Orders \cup {NoKey}
           /\ job[o].uri \in Accounts \cup {NoUri} /\ job[o].todo \subseteq Names
           /\ job[o].at \in Names \cup {NoName} /\ job[o].made \subseteq Records
           /\ job[o].left \subseteq Servers /\ job[o].has \in BOOLEAN
           /\ job[o].authz \in [Names -> Stages] /\ job[o].swept \in BOOLEAN
BY DEF TypeOK, Jobs

\* A step of o, whose next phase is phase and whose locals become j, while
\* all else that it may change keeps its type
LEMMA LocalTypes ==
    ASSUME TypeInv, NEW o \in Orders, NEW phase \in Phases, NEW j \in Jobs,
           pc' = [pc EXCEPT ![o] = phase], job' = [job EXCEPT ![o] = j],
           phase \notin Over \cup {"idle"} => j.dir # NoDir,
           phase \notin Over \cup {"idle", "key"} => j.key # NoKey,
           dir' \in Directories, key' \in Orders \cup {NoKey}, uri' \in Accounts \cup {NoUri},
           accounts' \subseteq Accounts, certified' \subseteq Orders,
           zone' \subseteq Records, seen' = seen, broken' \subseteq Orders
    PROVE  TypeInv'
<1>1. TypeOK'
  BY DEF TypeInv, TypeOK
<1>2. ASSUME NEW p \in Orders PROVE Signed(p)'
  <2>1. /\ p = o => pc'[p] = phase /\ job'[p] = j
        /\ p # o => pc'[p] = pc[p] /\ job'[p] = job[p]
    BY DEF TypeInv, TypeOK
  <2> QED
    BY <2>1 DEF TypeInv, Signed
<1> QED
  BY <1>1, <1>2 DEF TypeInv

\* The same when the locals stay.
LEMMA PhaseTypes ==
    ASSUME TypeInv, NEW o \in Orders, NEW phase \in Phases,
           pc' = [pc EXCEPT ![o] = phase], job' = job,
           pc[o] \notin Over \cup {"idle"},
           pc[o] # "key" \/ phase \in Over \cup {"idle", "key"} \/ job[o].key # NoKey,
           dir' \in Directories, key' \in Orders \cup {NoKey}, uri' \in Accounts \cup {NoUri},
           accounts' \subseteq Accounts, certified' \subseteq Orders,
           zone' \subseteq Records, seen' = seen, broken' \subseteq Orders
    PROVE  TypeInv'
<1>1. job[o] \in Jobs /\ job' = [job EXCEPT ![o] = job[o]]
  BY JobFacts DEF TypeInv, TypeOK
<1>2. /\ job[o].dir # NoDir
      /\ phase \notin Over \cup {"idle", "key"} => job[o].key # NoKey
  BY DEF TypeInv, Signed
<1> QED
  BY <1>1, <1>2, LocalTypes

LEMMA InitType == Init => TypeInv
BY BlankType DEF Init, TypeInv, TypeOK, Signed, Phases, Over

LEMMA ReturnTypes ==
    ASSUME TypeInv, NEW o \in Orders, NEW phase \in Over, Return(o, phase),
           UNCHANGED <<profile, certified, seen>>, accounts' \subseteq Accounts,
           zone' \subseteq Records, broken' \subseteq Orders
    PROVE  TypeInv'
<1>1. /\ pc' = [pc EXCEPT ![o] = phase] /\ job' = [job EXCEPT ![o] = Blank]
      /\ phase \in Phases
  BY DEF Return, Goto, Over, Phases
<1> QED
  BY <1>1, BlankType, LocalTypes DEF TypeInv, TypeOK, profile

LEMMA StepType == TypeInv /\ [Next]_vars => TypeInv'
<1> SUFFICES ASSUME TypeInv, [Next]_vars PROVE TypeInv'
  OBVIOUS
<1>0. /\ dir \in Directories /\ key \in Orders \cup {NoKey} /\ uri \in Accounts \cup {NoUri}
      /\ accounts \subseteq Accounts /\ certified \subseteq Orders
      /\ zone \subseteq Records /\ seen \in [Servers -> SUBSET Records] /\ broken \subseteq Orders
      /\ job \in [Orders -> Jobs] /\ pc \in [Orders -> Phases] /\ TypeOK /\ NoDir \notin Directories /\ NoKey \notin Orders
  BY AcmeNullAssumption DEF TypeInv, TypeOK
<1>1. CASE UNCHANGED vars
  BY <1>1 DEF vars, profile, ca, dns, TypeInv, TypeOK, Signed
<1>2. ASSUME NEW o \in Orders, Start(o) PROVE TypeInv'
  <2>1. [Blank EXCEPT !.dir = dir, !.key = key, !.uri = uri] \in Jobs
    BY <1>0, BlankType DEF Jobs
  <2>2. [Blank EXCEPT !.dir = dir, !.key = key, !.uri = uri].dir = dir
    BY DEF Blank
  <2> QED
    BY <1>0, <1>2, <2>1, <2>2, LocalTypes DEF Start, Goto, Phases, ca, dns, profile
<1>3. ASSUME NEW o \in Orders, AccountKey(o) PROVE TypeInv'
  <2>1. CASE job[o].key # NoKey
    BY <1>0, <1>3, <2>1, PhaseTypes DEF AccountKey, Goto, Phases, Over, ca, dns
  <2>2. CASE job[o].key = NoKey
    <3>1. PICK known \in {job[o].uri, uri} :
              /\ job' = [job EXCEPT ![o].key = o, ![o].uri = known]
              /\ Goto(o, IF known = NoUri THEN "register" ELSE "order")
      BY <1>3, <2>2 DEF AccountKey
    <3> DEFINE j == [job[o] EXCEPT !.key = o, !.uri = known]
    <3>2. /\ j \in Jobs /\ j.key = o /\ j.dir = job[o].dir
          /\ job' = [job EXCEPT ![o] = j]
      <4>1. job[o] \in Jobs /\ known \in Accounts \cup {NoUri}
        BY <1>0, JobFacts
      <4>2. j \in Jobs /\ j.key = o /\ j.dir = job[o].dir
        BY <4>1 DEF Jobs
      <4>3. job' = [job EXCEPT ![o] = j]
        BY <1>0, <3>1
      <4> QED
        BY <4>2, <4>3
    <3>3. pc[o] = "key" /\ j.dir # NoDir
      BY <1>3, <3>2 DEF AccountKey, TypeInv, Signed, Over
    <3>4. key' \in Orders \cup {NoKey} /\ UNCHANGED <<dir, uri, ca, dns, broken>>
      BY <1>3, <2>2 DEF AccountKey
    <3>5. PICK phase \in {"register", "order"} : Goto(o, phase)
      BY <3>1
    <3> HIDE DEF j
    <3> QED
      BY <1>0, <3>2, <3>3, <3>4, <3>5, LocalTypes DEF Goto, Phases, ca, dns
  <2> QED
    BY <2>1, <2>2
<1>4. ASSUME NEW o \in Orders, Register(o) PROVE TypeInv'
  <2>1. Own(o) \in Accounts
    BY <1>0, <1>4, JobFacts DEF Register, TypeInv, Signed, Own, Accounts, Over
  <2>2. CASE Goto(o, "keep") /\ UNCHANGED <<job, broken>>
    BY <1>0, <1>4, <2>1, <2>2, PhaseTypes DEF Register, Goto, Phases, Over, profile, dns
  <2>3. CASE Return(o, "failed") /\ Break(o)
    BY <1>0, <1>4, <2>1, <2>3, ReturnTypes DEF Register, Break, Over, dns
  <2> QED
    BY <1>4, <2>2, <2>3 DEF Register
<1>5. ASSUME NEW o \in Orders, KeepUri(o) PROVE TypeInv'
  <2>1. Own(o) \in Accounts
    BY <1>0, <1>5, JobFacts DEF KeepUri, TypeInv, Signed, Own, Accounts, Over
  <2> DEFINE j == [job[o] EXCEPT !.uri = Own(o)]
  <2>2. /\ j \in Jobs /\ j.key = job[o].key /\ j.dir = job[o].dir
        /\ job' = [job EXCEPT ![o] = j]
    <3>1. job[o] \in Jobs
      BY <1>0
    <3>2. j \in Jobs /\ j.key = job[o].key /\ j.dir = job[o].dir
      BY <1>0, <1>5, <2>1, <3>1 DEF Jobs
    <3>3. job' = [job EXCEPT ![o] = j]
      BY <1>0, <1>5, <2>1 DEF KeepUri
    <3> QED
      BY <3>2, <3>3
  <2>3. j.dir # NoDir /\ j.key # NoKey
    BY <1>5, <2>2 DEF KeepUri, TypeInv, Signed, Over
  <2> HIDE DEF j
  <2> QED
    BY <1>0, <1>5, <2>1, <2>2, <2>3, LocalTypes DEF KeepUri, Goto, Phases, ca, dns
<1>6. ASSUME NEW o \in Orders, NewOrder(o) PROVE TypeInv'
  <2> DEFINE j == [job[o] EXCEPT !.todo = NamesOf[o], !.authz =
                    [n \in Names |-> IF n \in NamesOf[o] THEN "pending" ELSE "none"]]
  <2>1. NamesOf[o] \subseteq Names
    BY AcmeAssumption
  <2>2. /\ j \in Jobs /\ j.key = job[o].key /\ j.dir = job[o].dir
        /\ job' = [job EXCEPT ![o] = j]
    <3>1. job[o] \in Jobs
      BY <1>0
    <3>2. j \in Jobs /\ j.key = job[o].key /\ j.dir = job[o].dir
      BY <1>0, <1>6, <2>1, <3>1 DEF Jobs, Stages
    <3>3. job' = [job EXCEPT ![o] = j]
      BY <1>0, <1>6, <2>1 DEF NewOrder
    <3> QED
      BY <3>2, <3>3
  <2>3. j.dir # NoDir /\ j.key # NoKey
    BY <1>6, <2>2 DEF NewOrder, TypeInv, Signed, Over
  <2> HIDE DEF j
  <2> QED
    BY <1>0, <1>6, <2>2, <2>3, LocalTypes DEF NewOrder, Goto, Phases, ca, dns, profile
<1>7. ASSUME NEW o \in Orders, GiveUp(o) PROVE TypeInv'
  BY <1>0, <1>7, ReturnTypes DEF GiveUp, Over, ca, dns
<1>8. ASSUME NEW o \in Orders, CreateRecord(o) PROVE TypeInv'
  <2>1. PICK n \in job[o].todo :
           /\ zone' = zone \cup {Rec(o, n)}
           /\ \/ /\ Goto(o, "wait")
                 /\ \E left \in SUBSET Servers :
                       /\ Servers \ Hidden \subseteq left /\ left # {}
                       /\ job' = [job EXCEPT ![o].at = n, ![o].left = left,
                                             ![o].made = @ \cup {Rec(o, n)}]
                 /\ UNCHANGED broken
              \/ /\ "unanswered" \in Faults
                 /\ Goto(o, "cleanup")
                 /\ Break(o)
                 /\ UNCHANGED job
    BY <1>8 DEF CreateRecord
  <2>2. n \in Names /\ Rec(o, n) \in Records
    BY <1>0, <2>1, JobFacts, RecordFacts
  <2>3. CASE Goto(o, "cleanup") /\ Break(o) /\ UNCHANGED job
    <3>1. /\ pc[o] = "create" /\ pc' = [pc EXCEPT ![o] = "cleanup"] /\ UNCHANGED job
          /\ zone' \subseteq Records /\ broken' \subseteq Orders
          /\ UNCHANGED <<profile, ca, seen>>
      BY <1>0, <1>8, <2>1, <2>2, <2>3 DEF CreateRecord, Goto, Break
    <3> QED
      BY <1>0, <3>1, PhaseTypes DEF Phases, Over, profile, ca
  <2>4. CASE Goto(o, "wait") /\ UNCHANGED broken
    <3>1. PICK left \in SUBSET Servers :
               job' = [job EXCEPT ![o].at = n, ![o].left = left,
                                  ![o].made = @ \cup {Rec(o, n)}]
      BY <2>1, <2>4 DEF Goto, TypeInv, TypeOK
    <3> DEFINE j == [job[o] EXCEPT !.at = n, !.left = left, !.made = @ \cup {Rec(o, n)}]
    <3>2. /\ j \in Jobs /\ j.key = job[o].key /\ j.dir = job[o].dir
          /\ job' = [job EXCEPT ![o] = j]
      <4>1. job[o] \in Jobs
        BY <1>0
      <4>2. j \in Jobs /\ j.key = job[o].key /\ j.dir = job[o].dir
        BY <1>0, <2>2, <3>1, <4>1 DEF Jobs
      <4>3. job' = [job EXCEPT ![o] = j]
        BY <1>0, <2>2, <3>1
      <4> QED
        BY <4>2, <4>3
    <3>3. j.dir # NoDir /\ j.key # NoKey
      BY <1>8, <3>2 DEF CreateRecord, TypeInv, Signed, Over
    <3>4. zone' \subseteq Records /\ UNCHANGED <<profile, ca, seen, broken>>
      BY <1>0, <1>8, <2>1, <2>2, <2>4 DEF CreateRecord
    <3> HIDE DEF j
    <3> QED
      BY <1>0, <2>4, <3>2, <3>3, <3>4, LocalTypes DEF Goto, Phases, ca, profile
  <2> QED
    BY <2>1, <2>3, <2>4
<1>9. ASSUME NEW o \in Orders, Poll(o) PROVE TypeInv'
  <2>1. PICK s \in job[o].left :
           /\ job' = [job EXCEPT ![o].left = @ \ {s}]
           /\ Goto(o, IF job[o].left = {s} THEN "answer" ELSE "wait")
    BY <1>9 DEF Poll
  <2> DEFINE j == [job[o] EXCEPT !.left = @ \ {s}]
  <2>2. /\ j \in Jobs /\ j.key = job[o].key /\ j.dir = job[o].dir
        /\ job' = [job EXCEPT ![o] = j]
    <3>1. job[o] \in Jobs
      BY <1>0
    <3>2. j \in Jobs /\ j.key = job[o].key /\ j.dir = job[o].dir
      BY <1>0, <2>1, <3>1 DEF Jobs
    <3>3. job' = [job EXCEPT ![o] = j]
      BY <1>0, <2>1
    <3> QED
      BY <3>2, <3>3
  <2>3. j.dir # NoDir /\ j.key # NoKey
    BY <1>9, <2>2 DEF Poll, TypeInv, Signed, Over
  <2> HIDE DEF j
  <2> QED
    BY <1>0, <1>9, <2>1, <2>2, <2>3, LocalTypes DEF Poll, Goto, Phases, ca, dns, profile
<1>10. ASSUME NEW o \in Orders, Answer(o) PROVE TypeInv'
  <2> DEFINE rest == job[o].todo \ {job[o].at}
             j == [job[o] EXCEPT !.todo = rest, !.authz = [@ EXCEPT ![job[o].at] = "answered"]]
  <2>1. /\ j \in Jobs /\ j.key = job[o].key /\ j.dir = job[o].dir
        /\ job' = [job EXCEPT ![o] = j]
    <3>1. job[o] \in Jobs
      BY <1>0
    <3>2. j \in Jobs /\ j.key = job[o].key /\ j.dir = job[o].dir
      BY <1>0, <1>10, <3>1 DEF Jobs, Stages
    <3>3. job' = [job EXCEPT ![o] = j]
      BY <1>0, <1>10 DEF Answer
    <3> QED
      BY <3>2, <3>3
  <2>2. j.dir # NoDir /\ j.key # NoKey
    BY <1>10, <2>1 DEF Answer, TypeInv, Signed, Over
  <2>3. \E phase \in {"finalize", "create", "cleanup"} : Goto(o, phase)
    BY <1>10 DEF Answer
  <2>4. broken' \subseteq Orders /\ UNCHANGED <<profile, ca, dns>>
    BY <1>0, <1>10 DEF Answer, Break
  <2> HIDE DEF j
  <2> QED
    BY <1>0, <2>1, <2>2, <2>3, <2>4, LocalTypes DEF Goto, Phases, ca, dns, profile
<1>11. ASSUME NEW o \in Orders, Finalize(o) PROVE TypeInv'
  <2>1. /\ certified' \subseteq Orders /\ broken' \subseteq Orders
        /\ UNCHANGED <<profile, accounts, dns>>
        /\ pc' = [pc EXCEPT ![o] = "cleanup"]
        /\ pc[o] = "finalize"
    BY <1>0, <1>11 DEF Finalize, Break, Goto
  <2>2. CASE UNCHANGED job
    BY <1>0, <2>1, <2>2, PhaseTypes DEF Phases, Over, profile, dns
  <2>3. CASE job' = [job EXCEPT ![o].has = TRUE]
    <3> DEFINE j == [job[o] EXCEPT !.has = TRUE]
    <3>1. job[o] \in Jobs
      BY <1>0
    <3>2. j \in Jobs /\ j.key = job[o].key /\ j.dir = job[o].dir
      BY <3>1 DEF Jobs
    <3>3. job' = [job EXCEPT ![o] = j]
      BY <1>0, <2>3
    <3>4. j.dir # NoDir /\ j.key # NoKey
      BY <2>1, <3>2 DEF TypeInv, Signed, Over
    <3> HIDE DEF j
    <3> QED
      BY <1>0, <2>1, <3>2, <3>3, <3>4, LocalTypes DEF Phases, profile, dns
  <2> QED
    BY <1>11, <2>2, <2>3 DEF Finalize
<1>12. ASSUME NEW o \in Orders, Fail(o) PROVE TypeInv'
  BY <1>0, <1>12, PhaseTypes DEF Fail, Solving, Goto, Phases, Over, ca, dns, profile
<1>13. ASSUME NEW o \in Orders, Cleanup(o) PROVE TypeInv'
  <2>1. /\ pc[o] = "cleanup" /\ broken' \subseteq Orders /\ zone' \subseteq Records
        /\ UNCHANGED <<profile, ca, seen>>
    BY <1>0, <1>13 DEF Cleanup, Break
  <2>2. CASE \E phase \in Over : Return(o, phase)
    BY <1>0, <2>1, <2>2, ReturnTypes DEF ca
  <2>3. CASE \E r \in job[o].made :
                 job' = [job EXCEPT ![o].made = @ \ {r}] /\ UNCHANGED pc
    <3>1. PICK r \in job[o].made : job' = [job EXCEPT ![o].made = @ \ {r}] /\ UNCHANGED pc
      BY <2>3
    <3> DEFINE j == [job[o] EXCEPT !.made = @ \ {r}]
    <3>2. /\ j \in Jobs /\ j.key = job[o].key /\ j.dir = job[o].dir
          /\ job' = [job EXCEPT ![o] = j] /\ pc' = [pc EXCEPT ![o] = pc[o]]
      <4>1. job[o] \in Jobs
        BY <1>0
      <4>2. j \in Jobs /\ j.key = job[o].key /\ j.dir = job[o].dir
        BY <1>0, <3>1, <4>1 DEF Jobs
      <4>3. job' = [job EXCEPT ![o] = j] /\ pc' = [pc EXCEPT ![o] = pc[o]]
        BY <1>0, <3>1
      <4> QED
        BY <4>2, <4>3
    <3>3. j.dir # NoDir /\ j.key # NoKey
      BY <2>1, <3>2 DEF TypeInv, Signed, Over
    <3> HIDE DEF j
    <3> QED
      BY <1>0, <2>1, <3>2, <3>3, LocalTypes DEF Phases, ca, dns, profile
  <2> QED
    BY <1>13, <2>2, <2>3 DEF Cleanup, Over
<1>14. ASSUME NEW s \in Servers, Propagate(s) PROVE TypeInv'
  BY <1>0, <1>14 DEF Propagate, profile, ca, TypeInv, TypeOK, Signed
<1>15. ASSUME NEW o \in Orders, Validate(o) PROVE TypeInv'
  <2>1. PICK n \in Names, s \in Servers :
           job' = [job EXCEPT ![o].authz[n] = IF Rec(o, n) \in seen[s] THEN "valid" ELSE "invalid"]
    BY <1>15 DEF Validate
  <2> DEFINE j == [job[o] EXCEPT !.authz =
                     [@ EXCEPT ![n] = IF Rec(o, n) \in seen[s] THEN "valid" ELSE "invalid"]]
  <2>2. /\ j \in Jobs /\ j.key = job[o].key /\ j.dir = job[o].dir
        /\ job' = [job EXCEPT ![o] = j] /\ pc' = [pc EXCEPT ![o] = pc[o]]
    <3>1. job[o] \in Jobs
      BY <1>0
    <3>2. j \in Jobs /\ j.key = job[o].key /\ j.dir = job[o].dir
      BY <1>0, <1>15, <2>1, <3>1 DEF Jobs, Stages
    <3>3. job' = [job EXCEPT ![o] = j] /\ pc' = [pc EXCEPT ![o] = pc[o]]
      BY <1>0, <1>15, <2>1 DEF Validate
    <3> QED
      BY <3>2, <3>3
  <2>3. j.dir # NoDir /\ j.key # NoKey
    BY <1>15, <2>2 DEF Validate, Solving, TypeInv, Signed, Over
  <2>4. pc[o] \in Phases
    BY <1>0, JobFacts
  <2> HIDE DEF j
  <2> QED
    BY <1>0, <1>15, <2>2, <2>3, <2>4, LocalTypes DEF Validate, ca, dns, profile
<1>16. ASSUME NEW o \in Orders, Kill(o) PROVE TypeInv'
  BY <1>0, <1>16, ReturnTypes DEF Kill, Break, Over, ca, dns
<1>17. CASE Sweep
  <2>1. PICK r \in zone :
          /\ zone' = zone \ {r}
          /\ \/ job' = [job EXCEPT ![r.order].swept = TRUE]
             \/ UNCHANGED job
    BY <1>17 DEF Sweep
  <2>2. /\ r.order \in Orders /\ UNCHANGED <<profile, ca, seen, pc, broken>>
        /\ zone' \subseteq Records
    BY <1>0, <1>17, <2>1 DEF Sweep, Records
  <2>3. CASE UNCHANGED job
    BY <1>0, <2>2, <2>3 DEF TypeInv, TypeOK, Signed, profile, ca
  <2>4. CASE job' = [job EXCEPT ![r.order].swept = TRUE]
    <3>1. PICK o \in Orders : o = r.order
      BY <2>2
    <3> DEFINE j == [job[o] EXCEPT !.swept = TRUE]
    <3>2. j \in Jobs /\ j.key = job[o].key /\ j.dir = job[o].dir
      <4>1. job[o] \in Jobs
        BY <1>0
      <4> QED
        BY <4>1 DEF Jobs
    <3>3. job' = [job EXCEPT ![o] = j] /\ pc' = [pc EXCEPT ![o] = pc[o]] /\ pc[o] \in Phases
      BY <1>0, <2>2, <2>4, <3>1
    <3>4. /\ pc[o] \notin Over \cup {"idle"} => j.dir # NoDir
          /\ pc[o] \notin Over \cup {"idle", "key"} => j.key # NoKey
      BY <3>2 DEF TypeInv, Signed
    <3> HIDE DEF j
    <3> QED
      BY <1>0, <2>2, <3>2, <3>3, <3>4, LocalTypes DEF profile, ca
  <2> QED
    BY <2>1, <2>3, <2>4
<1>18. CASE Move
  BY <1>0, <1>18 DEF Move, ca, dns, TypeInv, TypeOK, Signed
<1> QED
  BY <1>1, <1>2, <1>3, <1>4, <1>5, <1>6, <1>7, <1>8, <1>9, <1>10, <1>11, <1>12,
     <1>13, <1>14, <1>15, <1>16, <1>17, <1>18 DEF Next, Step

\* Every variable keeps its type: the profile, the CA, the zone, what the
\* nameservers serve and the locals of every order.
THEOREM AcmeTypeCorrect == Spec => []TypeOK
<1>1. TypeInv => TypeOK
  BY DEF TypeInv
<1> QED
  BY InitType, StepType, <1>1, PTL DEF Spec

-----------------------------------------------------------------------------
(* What each action does, field by field                                   *)

\* Only the phase and the locals of o may change.
Only(o) == \A p \in Orders \ {o} : pc'[p] = pc[p] /\ job'[p] = job[p]

LEMMA BlankFacts ==
  /\ Blank.made = {} /\ Blank.authz = [n \in Names |-> "none"] /\ ~Blank.has /\ ~Blank.swept
  /\ Blank.dir = NoDir /\ Blank.key = NoKey /\ Blank.uri = NoUri
BY DEF Blank

LEMMA ReturnEffect ==
    ASSUME TypeOK, NEW o \in Orders, NEW phase, Return(o, phase)
    PROVE  Only(o) /\ pc'[o] = phase /\ job'[o] = Blank
BY DEF TypeOK, Return, Goto, Only

LEMMA StartEffect ==
    ASSUME TypeOK, NEW o \in Orders, Start(o)
    PROVE  /\ Only(o) /\ pc'[o] = "key"
           /\ job'[o].dir = dir /\ job'[o].key = key /\ job'[o].uri = uri
           /\ job'[o].made = {} /\ job'[o].authz = [n \in Names |-> "none"] /\ ~job'[o].has
<1>1. Only(o) /\ pc'[o] = "key" /\ job'[o] = [Blank EXCEPT !.dir = dir, !.key = key, !.uri = uri]
  BY DEF TypeOK, Start, Goto, Only
<1> QED
  BY <1>1 DEF Blank

LEMMA AccountKeyEffect ==
    ASSUME TypeOK, NEW o \in Orders, AccountKey(o)
    PROVE  /\ Only(o) /\ pc[o] = "key" /\ UNCHANGED <<dir, uri, ca, dns, broken>>
           /\ job'[o].made = job[o].made /\ job'[o].authz = job[o].authz
           /\ job'[o].has = job[o].has /\ job'[o].dir = job[o].dir
           /\ pc'[o] \in {"register", "order"}
           /\ pc'[o] = "register" => job'[o].uri = NoUri
           /\ \/ /\ job[o].key # NoKey /\ job'[o].key = job[o].key /\ key' = key
                 /\ job'[o].uri = job[o].uri
              \/ /\ job[o].key = NoKey /\ job'[o].key = o /\ key' = o
                 /\ job'[o].uri \in {job[o].uri, uri}
<1>1. job[o] \in Jobs /\ job \in [Orders -> Jobs] /\ pc \in [Orders -> Phases]
  BY DEF TypeOK
<1> QED
  BY <1>1 DEF AccountKey, Goto, Only, Jobs

LEMMA RegisterEffect ==
    ASSUME TypeOK, NEW o \in Orders, Register(o)
    PROVE  /\ Only(o) /\ pc[o] = "register" /\ UNCHANGED <<profile, certified, dns>>
           /\ accounts' = accounts \cup {Own(o)}
           /\ \/ pc'[o] = "keep" /\ UNCHANGED <<job, broken>>
              \/ pc'[o] = "failed" /\ job'[o] = Blank /\ broken' = broken \cup {o}
BY DEF TypeOK, Register, Return, Goto, Break, Only

LEMMA KeepUriEffect ==
    ASSUME TypeOK, NEW o \in Orders, KeepUri(o)
    PROVE  /\ Only(o) /\ pc[o] = "keep" /\ pc'[o] = "order" /\ uri' = Own(o)
           /\ UNCHANGED <<dir, key, ca, dns, broken>>
           /\ job'[o].made = job[o].made /\ job'[o].authz = job[o].authz
           /\ job'[o].has = job[o].has /\ job'[o].key = job[o].key
<1>1. job[o] \in Jobs /\ job \in [Orders -> Jobs] /\ pc \in [Orders -> Phases]
  BY DEF TypeOK
<1> QED
  BY <1>1 DEF KeepUri, Goto, Only, Jobs

LEMMA NewOrderEffect ==
    ASSUME TypeOK, NEW o \in Orders, NewOrder(o)
    PROVE  /\ Only(o) /\ pc[o] = "order" /\ pc'[o] = "create"
           /\ UNCHANGED <<profile, ca, dns, broken>>
           /\ job'[o].made = job[o].made /\ job'[o].has = job[o].has
           /\ job'[o].key = job[o].key
           /\ \A n \in Names : job'[o].authz[n] \in {"none", "pending"}
<1>1. job[o] \in Jobs /\ job \in [Orders -> Jobs] /\ pc \in [Orders -> Phases]
  BY DEF TypeOK
<1> QED
  BY <1>1 DEF NewOrder, Goto, Only, Jobs

LEMMA CreateEffect ==
    ASSUME TypeOK, NEW o \in Orders, CreateRecord(o)
    PROVE  \E n \in Names :
              /\ Only(o) /\ zone' = zone \cup {Rec(o, n)} /\ UNCHANGED <<profile, ca, seen>>
              /\ pc[o] = "create"
              /\ job'[o].authz = job[o].authz /\ job'[o].swept = job[o].swept
              /\ job'[o].has = job[o].has /\ job'[o].key = job[o].key
              /\ \/ /\ pc'[o] = "wait" /\ broken' = broken
                    /\ job'[o].made = job[o].made \cup {Rec(o, n)}
                    /\ job'[o].at = n /\ Servers \ Hidden \subseteq job'[o].left
                 \/ /\ pc'[o] = "cleanup" /\ broken' = broken \cup {o}
                    /\ job'[o].made = job[o].made
<1>1. job[o] \in Jobs /\ job \in [Orders -> Jobs] /\ pc \in [Orders -> Phases]
  BY DEF TypeOK
<1>2. PICK n \in job[o].todo :
           /\ zone' = zone \cup {Rec(o, n)}
           /\ \/ /\ Goto(o, "wait")
                 /\ \E left \in SUBSET Servers :
                       /\ Servers \ Hidden \subseteq left /\ left # {}
                       /\ job' = [job EXCEPT ![o].at = n, ![o].left = left,
                                             ![o].made = @ \cup {Rec(o, n)}]
                 /\ UNCHANGED broken
              \/ /\ "unanswered" \in Faults
                 /\ Goto(o, "cleanup")
                 /\ Break(o)
                 /\ UNCHANGED job
  BY DEF CreateRecord
<1>3. n \in Names /\ pc[o] = "create" /\ UNCHANGED <<profile, ca, seen>>
  BY <1>1, <1>2 DEF CreateRecord, Jobs
<1>4. CASE Goto(o, "cleanup") /\ Break(o) /\ UNCHANGED job
  BY <1>1, <1>2, <1>3, <1>4 DEF Goto, Only, Break
<1>5. CASE /\ Goto(o, "wait") /\ UNCHANGED broken
           /\ \E left \in SUBSET Servers :
                 /\ Servers \ Hidden \subseteq left /\ left # {}
                 /\ job' = [job EXCEPT ![o].at = n, ![o].left = left,
                                       ![o].made = @ \cup {Rec(o, n)}]
  <2>1. PICK left \in SUBSET Servers :
           /\ Servers \ Hidden \subseteq left
           /\ job' = [job EXCEPT ![o].at = n, ![o].left = left,
                                 ![o].made = @ \cup {Rec(o, n)}]
    BY <1>5
  <2>2. /\ job'[o].authz = job[o].authz /\ job'[o].swept = job[o].swept
        /\ job'[o].has = job[o].has /\ job'[o].key = job[o].key
        /\ job'[o].made = job[o].made \cup {Rec(o, n)}
        /\ job'[o].at = n /\ job'[o].left = left
    BY <1>1, <2>1 DEF Jobs
  <2>3. Only(o) /\ pc'[o] = "wait"
    BY <1>1, <1>5, <2>1 DEF Goto, Only
  <2> QED
    BY <1>2, <1>3, <1>5, <2>1, <2>2, <2>3
<1> QED
  BY <1>2, <1>4, <1>5

LEMMA PollEffect ==
    ASSUME TypeOK, NEW o \in Orders, Poll(o)
    PROVE  \E s \in Servers :
              /\ Only(o) /\ pc[o] = "wait" /\ UNCHANGED <<profile, ca, dns, broken>>
              /\ Rec(o, job[o].at) \in seen[s]
              /\ job'[o].left = job[o].left \ {s} /\ job'[o].at = job[o].at
              /\ job'[o].made = job[o].made /\ job'[o].authz = job[o].authz
              /\ job'[o].swept = job[o].swept /\ job'[o].has = job[o].has
              /\ job'[o].key = job[o].key
              /\ pc'[o] \in {"wait", "answer"}
              /\ pc'[o] = "answer" => job'[o].left = {}
<1>1. job[o] \in Jobs /\ job \in [Orders -> Jobs] /\ pc \in [Orders -> Phases]
  BY DEF TypeOK
<1>2. PICK s \in job[o].left :
           /\ Rec(o, job[o].at) \in seen[s]
           /\ job' = [job EXCEPT ![o].left = @ \ {s}]
           /\ Goto(o, IF job[o].left = {s} THEN "answer" ELSE "wait")
  BY DEF Poll
<1>3. s \in Servers /\ pc[o] = "wait" /\ UNCHANGED <<profile, ca, dns, broken>>
  BY <1>1, <1>2 DEF Poll, Jobs
<1>4. /\ job'[o].left = job[o].left \ {s} /\ job'[o].at = job[o].at
      /\ job'[o].made = job[o].made /\ job'[o].authz = job[o].authz
      /\ job'[o].swept = job[o].swept /\ job'[o].has = job[o].has
      /\ job'[o].key = job[o].key
  BY <1>1, <1>2 DEF Jobs
<1> QED
  BY <1>1, <1>2, <1>3, <1>4 DEF Goto, Only

LEMMA AnswerEffect ==
    ASSUME TypeOK, NEW o \in Orders, Answer(o)
    PROVE  /\ Only(o) /\ pc[o] = "answer" /\ UNCHANGED <<profile, ca, dns>>
           /\ pc'[o] \in {"create", "finalize", "cleanup"}
           /\ broken \subseteq broken'
           /\ job'[o].made = job[o].made /\ job'[o].swept = job[o].swept
           /\ job'[o].has = job[o].has /\ job'[o].key = job[o].key
           /\ \A n \in Names : job'[o].authz[n] = job[o].authz[n] \/ n = job[o].at
<1>1. job[o] \in Jobs /\ job \in [Orders -> Jobs] /\ pc \in [Orders -> Phases]
  BY DEF TypeOK
<1> QED
  BY <1>1 DEF Answer, Goto, Only, Jobs, Break

LEMMA FinalizeEffect ==
    ASSUME TypeOK, NEW o \in Orders, Finalize(o)
    PROVE  /\ Only(o) /\ pc[o] = "finalize" /\ pc'[o] = "cleanup"
           /\ UNCHANGED <<profile, accounts, dns>>
           /\ certified' = certified \cup {o} /\ broken \subseteq broken'
           /\ o \in broken' \/ job'[o].has
           /\ job'[o].made = job[o].made /\ job'[o].key = job[o].key
<1>1. job[o] \in Jobs /\ job \in [Orders -> Jobs] /\ pc \in [Orders -> Phases]
  BY DEF TypeOK
<1> QED
  BY <1>1 DEF Finalize, Goto, Only, Jobs, Break

LEMMA CleanupEffect ==
    ASSUME TypeOK, NEW o \in Orders, Cleanup(o)
    PROVE  /\ Only(o) /\ pc[o] = "cleanup" /\ UNCHANGED <<profile, ca, seen>>
           /\ zone' \subseteq zone /\ zone \ job[o].made \subseteq zone'
           /\ broken \subseteq broken'
           /\ \/ /\ pc'[o] = "cleanup" /\ job'[o].made \subseteq job[o].made
                 /\ job'[o].has = job[o].has /\ job'[o].key = job[o].key
                 /\ \A r \in job[o].made \cap zone' : r \in job'[o].made \/ o \in broken'
              \/ /\ pc'[o] \in Over /\ job'[o] = Blank
                 /\ o \in broken' \/ job[o].made = {}
                 /\ o \in broken' \/ (job[o].has => pc'[o] = "issued")
<1>1. job[o] \in Jobs /\ job \in [Orders -> Jobs] /\ pc \in [Orders -> Phases]
  BY DEF TypeOK
<1>2. CASE \E phase \in Over : Return(o, phase)
  BY <1>1, <1>2, ReturnEffect DEF Cleanup, Break, Over
<1>3. CASE \E r \in job[o].made :
              /\ job' = [job EXCEPT ![o].made = @ \ {r}] /\ UNCHANGED pc
              /\ \/ zone' = zone \ {r} /\ UNCHANGED broken
                 \/ zone' = zone /\ Break(o)
  <2>1. PICK r \in job[o].made :
           /\ job' = [job EXCEPT ![o].made = @ \ {r}] /\ UNCHANGED pc
           /\ \/ zone' = zone \ {r} /\ UNCHANGED broken
              \/ zone' = zone /\ Break(o)
    BY <1>3
  <2>2. /\ job'[o].made = job[o].made \ {r} /\ job'[o].has = job[o].has
        /\ job'[o].key = job[o].key /\ Only(o)
    BY <1>1, <2>1 DEF Jobs, Only
  <2>3. pc[o] = "cleanup" /\ UNCHANGED <<profile, ca, seen>>
    BY DEF Cleanup
  <2> QED
    BY <2>1, <2>2, <2>3 DEF Break
<1> QED
  BY <1>2, <1>3 DEF Cleanup, Over

LEMMA ValidateEffect ==
    ASSUME TypeOK, NEW o \in Orders, Validate(o)
    PROVE  /\ Only(o) /\ pc[o] \in Solving /\ UNCHANGED <<profile, ca, dns, pc, broken>>
           /\ job'[o].made = job[o].made /\ job'[o].swept = job[o].swept
           /\ job'[o].left = job[o].left /\ job'[o].at = job[o].at
           /\ job'[o].has = job[o].has /\ job'[o].key = job[o].key
           /\ \A n \in Names : job'[o].authz[n] = "answered" => job[o].authz[n] = "answered"
<1>1. job[o] \in Jobs /\ job \in [Orders -> Jobs]
  BY DEF TypeOK
<1> QED
  BY <1>1 DEF Validate, Only, Jobs

LEMMA SweepEffect ==
    ASSUME TypeOK, Sweep
    PROVE  \E o \in Orders :
              /\ Only(o) /\ UNCHANGED <<profile, ca, seen, pc, broken>>
              /\ zone' \subseteq zone /\ \A r \in zone \ zone' : r.order = o
              /\ job'[o].made = job[o].made /\ job'[o].authz = job[o].authz
              /\ job'[o].has = job[o].has /\ job'[o].key = job[o].key
              /\ job'[o].uri = job[o].uri /\ job'[o].dir = job[o].dir
              /\ job'[o].left = job[o].left /\ job'[o].at = job[o].at
              /\ pc[o] \in Solving => job'[o].swept
<1>1. job \in [Orders -> Jobs] /\ zone \subseteq Records
  BY DEF TypeOK
<1>2. PICK r \in zone :
        /\ zone' = zone \ {r}
        /\ IF pc[r.order] \in Solving THEN job' = [job EXCEPT ![r.order].swept = TRUE]
           ELSE UNCHANGED job
  BY DEF Sweep
<1>3. PICK o \in Orders : o = r.order
  BY <1>1, <1>2 DEF Records
<1>4. job[o] \in Jobs
  BY <1>1
<1> QED
  BY <1>1, <1>2, <1>3, <1>4 DEF Sweep, Only, Jobs

-----------------------------------------------------------------------------
(* The records of an order                                                 *)

\* What an order has made is its own, and it makes nothing before its
\* challenges and keeps nothing after them.
OwnInv(o) ==
    /\ \A r \in job[o].made : r.order = o
    /\ pc[o] \notin Solving \cup {"cleanup"} =>
           job[o].made = {} /\ \A n \in Names : job[o].authz[n] = "none"

\* The order of each record knows of it, or was broken.
KnownInv == \A r \in zone : r.order \in broken \/ r \in job[r.order].made

RecordInv ==
    /\ TypeOK
    /\ \A o \in Orders : OwnInv(o)
    /\ KnownInv

LEMMA RecordLocal ==
    ASSUME RecordInv, TypeOK', NEW o \in Orders, Only(o), OwnInv(o)',
           broken \subseteq broken',
           \A r \in zone' : IF r.order = o THEN o \in broken' \/ r \in job'[o].made
                            ELSE r \in zone
    PROVE  RecordInv'
<1>1. ASSUME NEW p \in Orders PROVE OwnInv(p)'
  BY <1>1 DEF RecordInv, Only, OwnInv
<1>2. KnownInv'
  <2>1. zone' \subseteq Records /\ \A r \in Records : r.order \in Orders
    BY DEF TypeOK, Records
  <2> QED
    BY <2>1 DEF RecordInv, KnownInv, Only
<1> QED
  BY <1>1, <1>2 DEF RecordInv

\* The same for a step that creates and removes no record
LEMMA RecordQuiet ==
    ASSUME RecordInv, TypeOK', NEW o \in Orders, Only(o), OwnInv(o)', zone' = zone,
           broken \subseteq broken', o \in broken' \/ job[o].made \subseteq job'[o].made
    PROVE  RecordInv'
BY RecordLocal DEF RecordInv, KnownInv

LEMMA RecordStep == RecordInv /\ TypeOK' /\ [Next]_vars => RecordInv'
<1> SUFFICES ASSUME RecordInv, TypeOK', [Next]_vars PROVE RecordInv'
  OBVIOUS
<1>0. TypeOK /\ \A o \in Orders : OwnInv(o)
  BY DEF RecordInv
<1>1. CASE UNCHANGED vars
  BY <1>1 DEF vars, dns, RecordInv, OwnInv, KnownInv
<1>2. ASSUME NEW o \in Orders, Start(o) PROVE RecordInv'
  <2>1. /\ Only(o) /\ pc'[o] = "key" /\ job'[o].made = {}
        /\ job'[o].authz = [n \in Names |-> "none"]
    BY <1>0, <1>2, StartEffect
  <2>2. pc[o] = "idle" /\ UNCHANGED <<zone, broken>>
    BY <1>2 DEF Start, dns
  <2>3. OwnInv(o)' /\ job[o].made = {}
    BY <1>0, <2>1, <2>2 DEF OwnInv, Solving
  <2> QED
    BY <2>1, <2>2, <2>3, RecordQuiet
<1>3. ASSUME NEW o \in Orders, AccountKey(o) PROVE RecordInv'
  <2>1. /\ Only(o) /\ pc[o] = "key" /\ pc'[o] \in {"register", "order"}
        /\ job'[o].made = job[o].made /\ job'[o].authz = job[o].authz
        /\ UNCHANGED <<zone, broken>>
    BY <1>0, <1>3, AccountKeyEffect DEF dns
  <2> QED
    BY <1>0, <2>1, RecordQuiet DEF OwnInv, Solving
<1>4. ASSUME NEW o \in Orders, Register(o) PROVE RecordInv'
  BY <1>0, <1>4, RegisterEffect, BlankFacts, RecordQuiet DEF OwnInv, Solving, dns
<1>5. ASSUME NEW o \in Orders, KeepUri(o) PROVE RecordInv'
  BY <1>0, <1>5, KeepUriEffect, RecordQuiet DEF OwnInv, Solving, dns
<1>6. ASSUME NEW o \in Orders, NewOrder(o) PROVE RecordInv'
  BY <1>0, <1>6, NewOrderEffect, RecordQuiet DEF OwnInv, Solving, dns
<1>7. ASSUME NEW o \in Orders, GiveUp(o) PROVE RecordInv'
  BY <1>0, <1>7, ReturnEffect, BlankFacts, RecordQuiet DEF GiveUp, OwnInv, Solving, dns
<1>8. ASSUME NEW o \in Orders, CreateRecord(o) PROVE RecordInv'
  <2>1. PICK n \in Names :
           /\ Only(o) /\ zone' = zone \cup {Rec(o, n)} /\ broken \subseteq broken'
           /\ pc'[o] \in {"wait", "cleanup"}
           /\ \/ job'[o].made = job[o].made \cup {Rec(o, n)}
              \/ o \in broken' /\ job'[o].made = job[o].made
    BY <1>0, <1>8, CreateEffect
  <2>2. Rec(o, n).order = o
    BY RecordFacts
  <2>3. OwnInv(o)'
    BY <1>0, <2>1, <2>2 DEF OwnInv, Solving
  <2> QED
    BY <2>1, <2>2, <2>3, RecordLocal DEF RecordInv, KnownInv
<1>9. ASSUME NEW o \in Orders, Poll(o) PROVE RecordInv'
  BY <1>0, <1>9, PollEffect, RecordQuiet DEF OwnInv, Solving, dns
<1>10. ASSUME NEW o \in Orders, Answer(o) PROVE RecordInv'
  BY <1>0, <1>10, AnswerEffect, RecordQuiet DEF OwnInv, Solving, dns
<1>11. ASSUME NEW o \in Orders, Finalize(o) PROVE RecordInv'
  BY <1>0, <1>11, FinalizeEffect, RecordQuiet DEF OwnInv, Solving, dns
<1>12. ASSUME NEW o \in Orders, Fail(o) PROVE RecordInv'
  <2>1. Only(o) /\ pc'[o] = "cleanup" /\ UNCHANGED <<zone, broken, job>>
    BY <1>0, <1>12 DEF Fail, Goto, Only, TypeOK, dns
  <2> QED
    BY <1>0, <2>1, RecordQuiet DEF OwnInv, Solving
<1>13. ASSUME NEW o \in Orders, Cleanup(o) PROVE RecordInv'
  <2>1. Only(o) /\ zone' \subseteq zone /\ broken \subseteq broken'
    BY <1>0, <1>13, CleanupEffect
  <2>2. OwnInv(o)'
    BY <1>0, <1>13, CleanupEffect, BlankFacts DEF OwnInv, Solving, Over
  <2>3. \A r \in zone' : r.order = o => o \in broken' \/ r \in job'[o].made
    <3> SUFFICES ASSUME NEW r \in zone', r.order = o, o \notin broken'
                 PROVE  r \in job'[o].made
      OBVIOUS
    <3>1. r \in job[o].made
      BY <2>1 DEF RecordInv, KnownInv
    <3> QED
      BY <1>0, <1>13, <3>1, CleanupEffect
  <2> QED
    BY <2>1, <2>2, <2>3, RecordLocal
<1>14. ASSUME NEW s \in Servers, Propagate(s) PROVE RecordInv'
  BY <1>14 DEF Propagate, RecordInv, OwnInv, KnownInv
<1>15. ASSUME NEW o \in Orders, Validate(o) PROVE RecordInv'
  BY <1>0, <1>15, ValidateEffect, RecordQuiet DEF OwnInv, Solving, dns
<1>16. ASSUME NEW o \in Orders, Kill(o) PROVE RecordInv'
  BY <1>0, <1>16, ReturnEffect, BlankFacts, RecordQuiet DEF Kill, Break, OwnInv, Solving, dns
<1>17. CASE Sweep
  <2>1. PICK o \in Orders :
           /\ Only(o) /\ UNCHANGED <<pc, broken>> /\ zone' \subseteq zone
           /\ job'[o].made = job[o].made /\ job'[o].authz = job[o].authz
    BY <1>0, <1>17, SweepEffect
  <2>2. OwnInv(o)'
    BY <1>0, <2>1 DEF OwnInv
  <2> QED
    BY <2>1, <2>2, RecordLocal DEF RecordInv, KnownInv
<1>18. CASE Move
  BY <1>18 DEF Move, dns, RecordInv, OwnInv, KnownInv
<1> QED
  BY <1>1, <1>2, <1>3, <1>4, <1>5, <1>6, <1>7, <1>8, <1>9, <1>10, <1>11, <1>12,
     <1>13, <1>14, <1>15, <1>16, <1>17, <1>18 DEF Next, Step

LEMMA RecordInit == Init => RecordInv
<1> SUFFICES ASSUME Init PROVE RecordInv
  OBVIOUS
<1>1. TypeOK
  BY InitType DEF TypeInv
<1>2. \A o \in Orders : job[o] = Blank
  BY DEF Init
<1> QED
  BY <1>1, <1>2, BlankFacts DEF Init, RecordInv, OwnInv, KnownInv

LEMMA RecordInvHolds == Spec => []RecordInv
<1>1. TypeInv => TypeOK
  BY DEF TypeInv
<1> QED
  BY InitType, StepType, <1>1, RecordInit, RecordStep, PTL DEF Spec

(***************************************************************************)
(* NoLeftovers for any number of orders: whatever fails, is refused or     *)
(* comes too late, the finally clause of issue leaves a record in the zone *)
(* only if the process is killed, the answer of a creation is lost or a    *)
(* removal fails.                                                          *)
(***************************************************************************)
THEOREM NothingLeftBehind == Spec => []NoLeftovers
<1>1. RecordInv => NoLeftovers
  <2> SUFFICES ASSUME RecordInv, NEW r \in zone, pc[r.order] \in Over
               PROVE  r.order \in broken
    BY DEF NoLeftovers
  <2>1. PICK o \in Orders : o = r.order
    BY DEF RecordInv, TypeOK, Records
  <2>2. job[o].made = {}
    BY <2>1 DEF RecordInv, OwnInv, Solving, Over
  <2> QED
    BY <2>1, <2>2 DEF RecordInv, KnownInv
<1> QED
  BY RecordInvHolds, <1>1, PTL

-----------------------------------------------------------------------------
(* The challenges                                                          *)

\* Until the challenges are through, the records stay in the zone, and every
\* nameserver that has agreed serves the one it was asked for, unless a sweep
\* has interfered.
StandInv(o) ==
    pc[o] \in Solving =>
        /\ pc[o] \in {"wait", "answer"} => Rec(o, job[o].at) \in job[o].made
        /\ pc[o] = "answer" => job[o].left = {}
        /\ ~job[o].swept =>
               /\ job[o].made \subseteq zone
               /\ pc[o] \in {"wait", "answer"} =>
                      \A s \in (Servers \ Hidden) \ job[o].left : Rec(o, job[o].at) \in seen[s]
               /\ \A n \in Names :
                      job[o].authz[n] = "answered" =>
                          /\ Rec(o, n) \in job[o].made
                          /\ \A s \in Servers \ Hidden : Rec(o, n) \in seen[s]

ChallengeInv == RecordInv /\ \A o \in Orders : StandInv(o)

\* Nobody but the order itself and a sweep takes its records away.
LEMMA StandLocal ==
    ASSUME ChallengeInv, RecordInv', NEW o \in Orders, Only(o), StandInv(o)', seen' = seen,
           \A r \in zone \ zone' : r.order = o
    PROVE  ChallengeInv'
<1>1. ASSUME NEW p \in Orders, p # o PROVE StandInv(p)'
  <2>1. /\ StandInv(p) /\ OwnInv(p) /\ pc'[p] = pc[p] /\ job'[p] = job[p]
    BY <1>1 DEF ChallengeInv, RecordInv, Only
  <2>2. job[p].made \subseteq zone => job[p].made \subseteq zone'
    BY <1>1, <2>1 DEF OwnInv
  <2> QED
    BY <2>1, <2>2 DEF StandInv
<1> QED
  BY <1>1 DEF ChallengeInv

LEMMA ChallengeStep == ChallengeInv /\ RecordInv' /\ [Next]_vars => ChallengeInv'
<1> SUFFICES ASSUME ChallengeInv, RecordInv', [Next]_vars PROVE ChallengeInv'
  OBVIOUS
<1>0. TypeOK /\ \A o \in Orders : OwnInv(o) /\ StandInv(o)
  BY DEF ChallengeInv, RecordInv
<1>1. CASE UNCHANGED vars
  BY <1>1 DEF vars, dns, ChallengeInv, StandInv
<1>2. ASSUME NEW o \in Orders, Start(o) PROVE ChallengeInv'
  BY <1>0, <1>2, StartEffect, StandLocal DEF Start, StandInv, Solving, dns
<1>3. ASSUME NEW o \in Orders, AccountKey(o) PROVE ChallengeInv'
  <2>1. Only(o) /\ pc'[o] \in {"register", "order"} /\ UNCHANGED <<zone, seen>>
    BY <1>0, <1>3, AccountKeyEffect DEF dns
  <2> QED
    BY <2>1, StandLocal DEF StandInv, Solving
<1>4. ASSUME NEW o \in Orders, Register(o) PROVE ChallengeInv'
  BY <1>0, <1>4, RegisterEffect, StandLocal DEF StandInv, Solving, dns
<1>5. ASSUME NEW o \in Orders, KeepUri(o) PROVE ChallengeInv'
  BY <1>0, <1>5, KeepUriEffect, StandLocal DEF StandInv, Solving, dns
<1>6. ASSUME NEW o \in Orders, NewOrder(o) PROVE ChallengeInv'
  <2>1. /\ Only(o) /\ pc[o] = "order" /\ pc'[o] = "create" /\ UNCHANGED <<zone, seen>>
        /\ job'[o].made = job[o].made
        /\ \A n \in Names : job'[o].authz[n] \in {"none", "pending"}
    BY <1>0, <1>6, NewOrderEffect DEF dns
  <2>2. job[o].made = {}
    BY <1>0, <2>1 DEF OwnInv, Solving
  <2> QED
    BY <2>1, <2>2, StandLocal DEF StandInv
<1>7. ASSUME NEW o \in Orders, GiveUp(o) PROVE ChallengeInv'
  BY <1>0, <1>7, ReturnEffect, StandLocal DEF GiveUp, StandInv, Solving, dns
<1>8. ASSUME NEW o \in Orders, CreateRecord(o) PROVE ChallengeInv'
  <2>1. PICK n \in Names :
           /\ Only(o) /\ zone' = zone \cup {Rec(o, n)} /\ seen' = seen /\ pc[o] = "create"
           /\ job'[o].authz = job[o].authz /\ job'[o].swept = job[o].swept
           /\ \/ /\ pc'[o] = "wait" /\ job'[o].made = job[o].made \cup {Rec(o, n)}
                 /\ job'[o].at = n /\ Servers \ Hidden \subseteq job'[o].left
              \/ pc'[o] = "cleanup"
    BY <1>0, <1>8, CreateEffect
  <2>2. StandInv(o)'
    BY <1>0, <2>1 DEF StandInv, Solving
  <2> QED
    BY <2>1, <2>2, StandLocal
<1>9. ASSUME NEW o \in Orders, Poll(o) PROVE ChallengeInv'
  <2>1. PICK s \in Servers :
           /\ Only(o) /\ pc[o] = "wait" /\ UNCHANGED <<zone, seen>>
           /\ Rec(o, job[o].at) \in seen[s]
           /\ job'[o].left = job[o].left \ {s} /\ job'[o].at = job[o].at
           /\ job'[o].made = job[o].made /\ job'[o].authz = job[o].authz
           /\ job'[o].swept = job[o].swept
           /\ pc'[o] \in {"wait", "answer"}
           /\ pc'[o] = "answer" => job'[o].left = {}
    BY <1>0, <1>9, PollEffect DEF dns
  <2>2. StandInv(o)'
    BY <1>0, <2>1 DEF StandInv, Solving
  <2> QED
    BY <2>1, <2>2, StandLocal
<1>10. ASSUME NEW o \in Orders, Answer(o) PROVE ChallengeInv'
  <2>1. /\ Only(o) /\ pc[o] = "answer" /\ UNCHANGED <<zone, seen>>
        /\ pc'[o] \in {"create", "finalize", "cleanup"}
        /\ job'[o].made = job[o].made /\ job'[o].swept = job[o].swept
        /\ \A n \in Names : job'[o].authz[n] = job[o].authz[n] \/ n = job[o].at
    BY <1>0, <1>10, AnswerEffect DEF dns
  <2>2. StandInv(o)'
    BY <1>0, <2>1 DEF StandInv, Solving
  <2> QED
    BY <2>1, <2>2, StandLocal
<1>11. ASSUME NEW o \in Orders, Finalize(o) PROVE ChallengeInv'
  BY <1>0, <1>11, FinalizeEffect, StandLocal DEF StandInv, Solving, dns
<1>12. ASSUME NEW o \in Orders, Fail(o) PROVE ChallengeInv'
  <2>1. Only(o) /\ pc'[o] = "cleanup" /\ UNCHANGED <<zone, seen>>
    BY <1>0, <1>12 DEF Fail, Goto, Only, TypeOK, dns
  <2> QED
    BY <2>1, StandLocal DEF StandInv, Solving
<1>13. ASSUME NEW o \in Orders, Cleanup(o) PROVE ChallengeInv'
  <2>1. /\ Only(o) /\ seen' = seen /\ zone \ job[o].made \subseteq zone'
        /\ pc'[o] \in {"cleanup"} \cup Over
    BY <1>0, <1>13, CleanupEffect
  <2> QED
    BY <1>0, <2>1, StandLocal DEF OwnInv, StandInv, Solving, Over
<1>14. ASSUME NEW s \in Servers, Propagate(s) PROVE ChallengeInv'
  <2>1. /\ UNCHANGED <<zone, pc, job>> /\ seen' = [seen EXCEPT ![s] = zone]
        /\ seen \in [Servers -> SUBSET Records]
    BY <1>0, <1>14 DEF Propagate, TypeOK
  <2>2. ASSUME NEW o \in Orders PROVE StandInv(o)'
    BY <1>0, <2>1 DEF StandInv
  <2> QED
    BY <2>2 DEF ChallengeInv
<1>15. ASSUME NEW o \in Orders, Validate(o) PROVE ChallengeInv'
  <2>1. /\ Only(o) /\ UNCHANGED <<zone, seen, pc>>
        /\ job'[o].made = job[o].made /\ job'[o].swept = job[o].swept
        /\ job'[o].left = job[o].left /\ job'[o].at = job[o].at
        /\ \A n \in Names : job'[o].authz[n] = "answered" => job[o].authz[n] = "answered"
    BY <1>0, <1>15, ValidateEffect DEF dns
  <2>2. StandInv(o)'
    BY <1>0, <2>1 DEF StandInv
  <2> QED
    BY <2>1, <2>2, StandLocal
<1>16. ASSUME NEW o \in Orders, Kill(o) PROVE ChallengeInv'
  BY <1>0, <1>16, ReturnEffect, StandLocal DEF Kill, StandInv, Solving, dns
<1>17. CASE Sweep
  <2>1. PICK o \in Orders :
           /\ Only(o) /\ UNCHANGED <<pc, seen>> /\ \A r \in zone \ zone' : r.order = o
           /\ job'[o].made = job[o].made /\ job'[o].left = job[o].left
           /\ job'[o].at = job[o].at /\ (pc[o] \in Solving => job'[o].swept)
    BY <1>0, <1>17, SweepEffect
  <2>2. StandInv(o)'
    BY <1>0, <2>1 DEF StandInv
  <2> QED
    BY <2>1, <2>2, StandLocal
<1>18. CASE Move
  BY <1>18 DEF Move, dns, ChallengeInv, StandInv
<1> QED
  BY <1>1, <1>2, <1>3, <1>4, <1>5, <1>6, <1>7, <1>8, <1>9, <1>10, <1>11, <1>12,
     <1>13, <1>14, <1>15, <1>16, <1>17, <1>18 DEF Next, Step

(***************************************************************************)
(* ChallengesStand for any number of orders for the same or other names:   *)
(* once wait_for_txt has let an order answer a challenge, each nameserver  *)
(* that can be reached serves the record until the order is through, for   *)
(* issue removes nothing earlier and never a record of another order.      *)
(***************************************************************************)
THEOREM AnsweredStaysServed == Spec => []ChallengesStand
<1>1. Init => ChallengeInv
  <2> SUFFICES ASSUME Init PROVE ChallengeInv
    OBVIOUS
  <2>1. \A o \in Orders : pc[o] = "idle"
    BY DEF Init
  <2> QED
    BY <2>1, RecordInit DEF ChallengeInv, StandInv, Solving
<1>2. ChallengeInv => ChallengesStand
  BY DEF ChallengeInv, StandInv, ChallengesStand
<1> QED
  BY <1>1, <1>2, RecordInvHolds, ChallengeStep, PTL DEF Spec

-----------------------------------------------------------------------------
(* The certificate                                                         *)

\* A certificate that was issued is in hand, has been returned, or the order
\* was broken.
HeldInv(o) ==
    /\ job[o].has => pc[o] = "cleanup"
    /\ o \in certified => o \in broken \/ job[o].has \/ pc[o] = "issued"

CertInv == TypeOK /\ \A o \in Orders : HeldInv(o)

LEMMA CertLocal ==
    ASSUME CertInv, TypeOK', NEW o \in Orders, Only(o), HeldInv(o)', broken \subseteq broken',
           certified' \subseteq certified \cup {o}
    PROVE  CertInv'
<1>1. ASSUME NEW p \in Orders PROVE HeldInv(p)'
  BY <1>1 DEF CertInv, Only, HeldInv
<1> QED
  BY <1>1 DEF CertInv

LEMMA CertStep == CertInv /\ TypeOK' /\ [Next]_vars => CertInv'
<1> SUFFICES ASSUME CertInv, TypeOK', [Next]_vars PROVE CertInv'
  OBVIOUS
<1>0. TypeOK /\ \A o \in Orders : HeldInv(o)
  BY DEF CertInv
<1>1. CASE UNCHANGED vars
  BY <1>1 DEF vars, ca, CertInv, HeldInv
<1>2. ASSUME NEW o \in Orders, Start(o) PROVE CertInv'
  BY <1>0, <1>2, StartEffect, CertLocal DEF Start, HeldInv, ca
<1>3. ASSUME NEW o \in Orders, AccountKey(o) PROVE CertInv'
  <2>1. /\ Only(o) /\ pc[o] = "key" /\ job'[o].has = job[o].has
        /\ UNCHANGED <<certified, broken>>
    BY <1>0, <1>3, AccountKeyEffect DEF ca
  <2> QED
    BY <1>0, <2>1, CertLocal DEF HeldInv
<1>4. ASSUME NEW o \in Orders, Register(o) PROVE CertInv'
  BY <1>0, <1>4, RegisterEffect, BlankFacts, CertLocal DEF HeldInv
<1>5. ASSUME NEW o \in Orders, KeepUri(o) PROVE CertInv'
  BY <1>0, <1>5, KeepUriEffect, CertLocal DEF HeldInv, ca
<1>6. ASSUME NEW o \in Orders, NewOrder(o) PROVE CertInv'
  BY <1>0, <1>6, NewOrderEffect, CertLocal DEF HeldInv, ca
<1>7. ASSUME NEW o \in Orders, GiveUp(o) PROVE CertInv'
  BY <1>0, <1>7, ReturnEffect, BlankFacts, CertLocal DEF GiveUp, HeldInv, ca
<1>8. ASSUME NEW o \in Orders, CreateRecord(o) PROVE CertInv'
  <2>1. /\ Only(o) /\ pc[o] = "create" /\ job'[o].has = job[o].has
        /\ certified' = certified /\ broken \subseteq broken'
    BY <1>0, <1>8, CreateEffect DEF ca
  <2> QED
    BY <1>0, <2>1, CertLocal DEF HeldInv
<1>9. ASSUME NEW o \in Orders, Poll(o) PROVE CertInv'
  <2>1. /\ Only(o) /\ pc[o] = "wait" /\ job'[o].has = job[o].has
        /\ UNCHANGED <<certified, broken>>
    BY <1>0, <1>9, PollEffect DEF ca
  <2> QED
    BY <1>0, <2>1, CertLocal DEF HeldInv
<1>10. ASSUME NEW o \in Orders, Answer(o) PROVE CertInv'
  BY <1>0, <1>10, AnswerEffect, CertLocal DEF HeldInv, ca
<1>11. ASSUME NEW o \in Orders, Finalize(o) PROVE CertInv'
  BY <1>0, <1>11, FinalizeEffect, CertLocal DEF HeldInv
<1>12. ASSUME NEW o \in Orders, Fail(o) PROVE CertInv'
  <2>1. /\ Only(o) /\ pc[o] \in Solving /\ pc'[o] = "cleanup"
        /\ UNCHANGED <<certified, broken, job>>
    BY <1>0, <1>12 DEF Fail, Goto, Only, TypeOK, ca
  <2> QED
    BY <1>0, <2>1, CertLocal DEF HeldInv, Solving
<1>13. ASSUME NEW o \in Orders, Cleanup(o) PROVE CertInv'
  <2>1. /\ Only(o) /\ pc[o] = "cleanup" /\ certified' = certified /\ broken \subseteq broken'
        /\ \/ pc'[o] = "cleanup" /\ job'[o].has = job[o].has
           \/ job'[o] = Blank /\ (o \in broken' \/ (job[o].has => pc'[o] = "issued"))
    BY <1>0, <1>13, CleanupEffect DEF ca
  <2> QED
    BY <1>0, <2>1, BlankFacts, CertLocal DEF HeldInv
<1>14. ASSUME NEW s \in Servers, Propagate(s) PROVE CertInv'
  BY <1>14 DEF Propagate, ca, CertInv, HeldInv
<1>15. ASSUME NEW o \in Orders, Validate(o) PROVE CertInv'
  BY <1>0, <1>15, ValidateEffect, CertLocal DEF HeldInv, ca
<1>16. ASSUME NEW o \in Orders, Kill(o) PROVE CertInv'
  BY <1>0, <1>16, ReturnEffect, BlankFacts, CertLocal DEF Kill, Break, HeldInv, ca
<1>17. CASE Sweep
  <2>1. PICK o \in Orders :
           Only(o) /\ UNCHANGED <<pc, broken, certified>> /\ job'[o].has = job[o].has
    BY <1>0, <1>17, SweepEffect DEF ca
  <2> QED
    BY <1>0, <2>1, CertLocal DEF HeldInv
<1>18. CASE Move
  BY <1>18 DEF Move, ca, CertInv, HeldInv
<1> QED
  BY <1>1, <1>2, <1>3, <1>4, <1>5, <1>6, <1>7, <1>8, <1>9, <1>10, <1>11, <1>12,
     <1>13, <1>14, <1>15, <1>16, <1>17, <1>18 DEF Next, Step

(***************************************************************************)
(* IssuedKept for any number of orders: the clean-up of issue, a refused   *)
(* removal in it included, loses no certificate that the CA has issued,    *)
(* unless the process is killed, an answer is lost or a removal raises.    *)
(***************************************************************************)
THEOREM IssuedReturned == Spec => []IssuedKept
<1>1. Init => CertInv
  <2> SUFFICES ASSUME Init PROVE CertInv
    OBVIOUS
  <2>1. TypeOK /\ \A o \in Orders : job[o] = Blank
    BY InitType DEF TypeInv, Init
  <2> QED
    BY <2>1, BlankFacts DEF Init, CertInv, HeldInv
<1>2. CertInv => IssuedKept
  BY DEF CertInv, HeldInv, IssuedKept, TypeOK
<1>3. TypeInv => TypeOK
  BY DEF TypeInv
<1> QED
  BY <1>1, <1>2, <1>3, InitType, StepType, CertStep, PTL DEF Spec

-----------------------------------------------------------------------------
(* The account                                                             *)

\* While an order opens its account, it knows the profile as it is.
JoinInv(o) ==
    pc[o] \in Joining =>
        /\ job[o].key = key
        /\ pc[o] = "key" => job[o].uri = uri
        /\ pc[o] \in {"register", "keep"} => uri = NoUri
        /\ pc[o] = "keep" => Own(o) \in accounts

AccountInv ==
    /\ TypeOK
    /\ AccountSound
    /\ \A o, p \in Orders : pc[o] \in Joining /\ pc[p] \in Joining => o = p
    /\ \A o \in Orders : JoinInv(o)

\* Nobody but the order that opens its account touches it.
LEMMA AccountAlone ==
    ASSUME AccountInv, TypeOK', NEW o \in Orders, Only(o), pc[o] \in Joining,
           AccountSound', JoinInv(o)'
    PROVE  AccountInv'
<1>1. \A p \in Orders : pc'[p] \in Joining => p = o
  BY DEF AccountInv, Only
<1> QED
  BY <1>1 DEF AccountInv, JoinInv

LEMMA AccountApart ==
    ASSUME AccountInv, TypeOK', NEW o \in Orders, Only(o), pc[o] \notin Joining,
           pc'[o] \notin Joining, key' = key, uri' = uri, accounts' = accounts
    PROVE  AccountInv'
<1>1. ASSUME NEW p \in Orders PROVE JoinInv(p)'
  <2>1. CASE p = o
    BY <2>1 DEF JoinInv
  <2>2. CASE p # o
    BY <2>2 DEF AccountInv, Only, JoinInv, Own
  <2> QED
    BY <2>1, <2>2
<1> QED
  BY <1>1 DEF AccountInv, AccountSound, Only

LEMMA AccountStep == Exclusive /\ AccountInv /\ TypeOK' /\ [Next]_vars => AccountInv'
<1> SUFFICES ASSUME Exclusive, AccountInv, TypeOK', [Next]_vars PROVE AccountInv'
  OBVIOUS
<1>0. TypeOK /\ AccountSound /\ \A o \in Orders : JoinInv(o)
  BY DEF AccountInv
<1>1. CASE UNCHANGED vars
  BY <1>1 DEF vars, profile, ca, AccountInv, AccountSound, JoinInv, Own
<1>2. ASSUME NEW o \in Orders, Start(o) PROVE AccountInv'
  <2>1. /\ Only(o) /\ pc'[o] = "key" /\ job'[o].key = key /\ job'[o].uri = uri
    BY <1>0, <1>2, StartEffect
  <2>2. /\ \A p \in Orders : pc[p] \notin Joining
        /\ UNCHANGED <<key, uri, accounts>>
    BY <1>2 DEF Start, profile, ca
  <2>3. JoinInv(o)'
    BY <2>1, <2>2 DEF JoinInv
  <2> QED
    BY <1>0, <2>1, <2>2, <2>3 DEF AccountInv, AccountSound, JoinInv, Only
<1>3. ASSUME NEW o \in Orders, AccountKey(o) PROVE AccountInv'
  <2>1. /\ Only(o) /\ pc[o] = "key" /\ uri' = uri /\ accounts' = accounts
        /\ pc'[o] \in {"register", "order"} /\ (pc'[o] = "register" => job'[o].uri = NoUri)
    BY <1>0, <1>3, AccountKeyEffect DEF ca
  <2>2. job[o].key = key /\ job[o].uri = uri
    BY <1>0, <2>1 DEF JoinInv, Joining
  <2>3. CASE key # NoKey
    <3>1. job'[o].key = key' /\ key' = key /\ job'[o].uri = uri
      BY <1>0, <1>3, <2>2, <2>3, AccountKeyEffect
    <3> QED
      BY <1>0, <2>1, <3>1, AccountAlone DEF AccountSound, JoinInv, Joining
  <2>4. CASE key = NoKey
    <3>1. job'[o].key = key' /\ key' = o /\ job'[o].uri = uri
      BY <1>0, <1>3, <2>2, <2>4, AccountKeyEffect
    <3>2. uri = NoUri
      BY <1>0, <2>4, AcmeNullAssumption DEF AccountSound, TypeOK, Accounts
    <3> QED
      BY <1>0, <2>1, <3>1, <3>2, AccountAlone DEF AccountSound, JoinInv, Joining
  <2> QED
    BY <2>3, <2>4
<1>4. ASSUME NEW o \in Orders, Register(o) PROVE AccountInv'
  <2>1. /\ Only(o) /\ pc[o] = "register" /\ UNCHANGED <<key, uri>>
        /\ accounts' = accounts \cup {Own(o)}
        /\ \/ pc'[o] = "keep" /\ UNCHANGED job
           \/ pc'[o] = "failed"
    BY <1>0, <1>4, RegisterEffect DEF profile
  <2>2. AccountSound' /\ JoinInv(o)'
    BY <1>0, <2>1 DEF AccountSound, JoinInv, Joining, Own
  <2> QED
    BY <2>1, <2>2, AccountAlone DEF Joining
<1>5. ASSUME NEW o \in Orders, KeepUri(o) PROVE AccountInv'
  <2>1. /\ Only(o) /\ pc[o] = "keep" /\ pc'[o] = "order" /\ uri' = Own(o)
        /\ UNCHANGED <<key, accounts>>
    BY <1>0, <1>5, KeepUriEffect DEF ca
  <2>2. AccountSound' /\ JoinInv(o)'
    BY <1>0, <2>1 DEF AccountSound, JoinInv, Joining, Own
  <2> QED
    BY <2>1, <2>2, AccountAlone DEF Joining
<1>6. ASSUME NEW o \in Orders, NewOrder(o) PROVE AccountInv'
  BY <1>0, <1>6, NewOrderEffect, AccountApart DEF Joining, profile, ca
<1>7. ASSUME NEW o \in Orders, GiveUp(o) PROVE AccountInv'
  <2>1. /\ Only(o) /\ pc'[o] = "failed" /\ UNCHANGED <<key, uri, accounts>>
    BY <1>0, <1>7, ReturnEffect DEF GiveUp, profile, ca
  <2>2. JoinInv(o)' /\ AccountSound'
    BY <1>0, <2>1 DEF JoinInv, Joining, AccountSound
  <2> QED
    BY <2>1, <2>2, AccountAlone, AccountApart DEF Joining
<1>8. ASSUME NEW o \in Orders, CreateRecord(o) PROVE AccountInv'
  <2>1. /\ Only(o) /\ pc[o] = "create" /\ pc'[o] \in {"wait", "cleanup"}
        /\ UNCHANGED <<key, uri, accounts>>
    BY <1>0, <1>8, CreateEffect DEF profile, ca
  <2> QED
    BY <2>1, AccountApart DEF Joining
<1>9. ASSUME NEW o \in Orders, Poll(o) PROVE AccountInv'
  <2>1. /\ Only(o) /\ pc[o] = "wait" /\ pc'[o] \in {"wait", "answer"}
        /\ UNCHANGED <<key, uri, accounts>>
    BY <1>0, <1>9, PollEffect DEF profile, ca
  <2> QED
    BY <2>1, AccountApart DEF Joining
<1>10. ASSUME NEW o \in Orders, Answer(o) PROVE AccountInv'
  BY <1>0, <1>10, AnswerEffect, AccountApart DEF Joining, profile, ca
<1>11. ASSUME NEW o \in Orders, Finalize(o) PROVE AccountInv'
  BY <1>0, <1>11, FinalizeEffect, AccountApart DEF Joining, profile
<1>12. ASSUME NEW o \in Orders, Fail(o) PROVE AccountInv'
  <2>1. /\ Only(o) /\ pc[o] \in Solving /\ pc'[o] = "cleanup"
        /\ UNCHANGED <<key, uri, accounts>>
    BY <1>0, <1>12 DEF Fail, Goto, Only, TypeOK, profile, ca
  <2> QED
    BY <2>1, AccountApart DEF Joining, Solving
<1>13. ASSUME NEW o \in Orders, Cleanup(o) PROVE AccountInv'
  <2>1. /\ Only(o) /\ pc[o] = "cleanup" /\ pc'[o] \in {"cleanup"} \cup Over
        /\ UNCHANGED <<key, uri, accounts>>
    BY <1>0, <1>13, CleanupEffect DEF profile, ca
  <2> QED
    BY <2>1, AccountApart DEF Joining, Over
<1>14. ASSUME NEW s \in Servers, Propagate(s) PROVE AccountInv'
  BY <1>14 DEF Propagate, profile, ca, AccountInv, AccountSound, JoinInv, Own
<1>15. ASSUME NEW o \in Orders, Validate(o) PROVE AccountInv'
  <2>1. Only(o) /\ pc[o] \in Solving /\ UNCHANGED <<key, uri, accounts, pc>>
    BY <1>0, <1>15, ValidateEffect DEF profile, ca
  <2> QED
    BY <2>1, AccountApart DEF Joining, Solving
<1>16. ASSUME NEW o \in Orders, Kill(o) PROVE AccountInv'
  <2>1. /\ Only(o) /\ pc'[o] = "failed" /\ UNCHANGED <<key, uri, accounts>>
    BY <1>0, <1>16, ReturnEffect DEF Kill, profile, ca
  <2>2. JoinInv(o)' /\ AccountSound'
    BY <1>0, <2>1 DEF JoinInv, Joining, AccountSound
  <2> QED
    BY <2>1, <2>2, AccountAlone, AccountApart DEF Joining
<1>17. CASE Sweep
  <2>1. PICK o \in Orders :
           /\ Only(o) /\ UNCHANGED <<pc, key, uri, accounts>>
           /\ job'[o].key = job[o].key /\ job'[o].uri = job[o].uri /\ job'[o].dir = job[o].dir
    BY <1>0, <1>17, SweepEffect DEF profile, ca
  <2>2. \A p \in Orders :
           job'[p].key = job[p].key /\ job'[p].uri = job[p].uri /\ job'[p].dir = job[p].dir
    BY <2>1 DEF Only
  <2> QED
    BY <2>1, <2>2 DEF AccountInv, AccountSound, JoinInv, Own
<1>18. CASE Move
  BY <1>18 DEF Move, ca, AccountInv, AccountSound, JoinInv, Own
<1> QED
  BY <1>1, <1>2, <1>3, <1>4, <1>5, <1>6, <1>7, <1>8, <1>9, <1>10, <1>11, <1>12,
     <1>13, <1>14, <1>15, <1>16, <1>17, <1>18 DEF Next, Step

(***************************************************************************)
(* AccountSound for any number of orders and any faults, as long as no two *)
(* orders open the account of the profile at once (Exclusive): the two     *)
(* commits of DbAccountStore keep the account and the key on record        *)
(* together, wherever a process is killed between them.                    *)
(***************************************************************************)
THEOREM AccountStaysSound ==
    ASSUME Exclusive
    PROVE  Spec => []AccountSound
<1>1. Init => AccountInv
  <2> SUFFICES ASSUME Init PROVE AccountInv
    OBVIOUS
  <2>1. TypeOK /\ \A o \in Orders : pc[o] = "idle"
    BY InitType DEF TypeInv, Init
  <2> QED
    BY <2>1 DEF Init, AccountInv, AccountSound, JoinInv, Joining
<1>2. AccountInv /\ TypeOK' /\ [Next]_vars => AccountInv'
  BY AccountStep
<1>3. AccountInv => AccountSound
  BY DEF AccountInv
<1>4. TypeInv => TypeOK
  BY DEF TypeInv
<1> QED
  BY <1>1, <1>2, <1>3, <1>4, InitType, StepType, PTL DEF Spec

\* The orders that have made or found their key
Keyed == {o \in Orders : pc[o] \notin {"idle", "key"}}

\* Whatever bears a key, its order is past making it.
KeptInv ==
    /\ TypeInv
    /\ key \in Keyed \cup {NoKey}
    /\ \A o \in Orders : job[o].key \in Keyed \cup {NoKey}
    /\ \A a \in accounts : a.key \in Keyed
    /\ AccountKept

LEMMA KeptLocal ==
    ASSUME KeptInv, TypeInv', NEW o \in Orders, Only(o),
           pc[o] \notin {"idle", "key"} => pc'[o] \notin {"idle", "key"},
           key' = key, uri' = uri, accounts' = accounts, broken \subseteq broken',
           pc[o] = "keep" => pc'[o] = "keep" \/ o \in broken',
           job'[o].key \in {NoKey, job[o].key, key}
    PROVE  KeptInv'
<1>1. Keyed \subseteq Keyed'
  BY DEF Keyed, Only
<1>2. AccountKept'
  BY DEF KeptInv, AccountKept, Only
<1> QED
  BY <1>1, <1>2 DEF KeptInv, Only

LEMMA KeptStep == KeptInv /\ TypeInv' /\ [Next]_vars => KeptInv'
<1> SUFFICES ASSUME KeptInv, TypeInv', [Next]_vars PROVE KeptInv'
  OBVIOUS
<1>0. TypeInv /\ TypeOK
  BY DEF KeptInv, TypeInv
<1>1. CASE UNCHANGED vars
  BY <1>1 DEF vars, profile, ca, KeptInv, AccountKept, Keyed
<1>2. ASSUME NEW o \in Orders, Start(o) PROVE KeptInv'
  BY <1>0, <1>2, StartEffect, KeptLocal DEF Start, profile, ca
<1>3. ASSUME NEW o \in Orders, AccountKey(o) PROVE KeptInv'
  <2>1. /\ Only(o) /\ pc[o] = "key" /\ pc'[o] \in {"register", "order"}
        /\ UNCHANGED <<uri, accounts, broken>>
    BY <1>0, <1>3, AccountKeyEffect DEF ca
  <2>2. CASE job[o].key # NoKey
    <3>1. job'[o].key = job[o].key /\ key' = key
      BY <1>0, <1>3, <2>2, AccountKeyEffect
    <3> QED
      BY <2>1, <3>1, KeptLocal
  <2>3. CASE job[o].key = NoKey
    <3>1. job'[o].key = o /\ key' = o
      BY <1>0, <1>3, <2>3, AccountKeyEffect
    <3>2. Keyed \subseteq Keyed' /\ o \in Keyed' /\ o \notin Keyed
      BY <2>1 DEF Keyed, Only
    <3>3. \A d \in Directories : [dir |-> d, key |-> o] \notin accounts
      BY <3>2 DEF KeptInv
    <3>4. AccountKept'
      BY <2>1, <3>1, <3>3 DEF AccountKept
    <3> QED
      BY <2>1, <3>1, <3>2, <3>4 DEF KeptInv, Only
  <2> QED
    BY <2>2, <2>3
<1>4. ASSUME NEW o \in Orders, Register(o) PROVE KeptInv'
  <2>1. /\ Only(o) /\ pc[o] = "register" /\ UNCHANGED <<key, uri>>
        /\ accounts' = accounts \cup {Own(o)}
        /\ \/ pc'[o] = "keep" /\ job'[o].key = job[o].key
           \/ pc'[o] = "failed" /\ job'[o].key = NoKey /\ o \in broken'
    BY <1>0, <1>4, RegisterEffect, BlankFacts DEF profile
  <2>2. Keyed \subseteq Keyed'
    BY <2>1 DEF Keyed, Only
  <2>3. Own(o).key \in Keyed
    <3>1. Own(o) \in Accounts
      BY <2>1 DEF TypeInv, TypeOK
    <3> QED
      BY <3>1, AcmeNullAssumption DEF KeptInv, Own, Accounts
  <2>4. AccountKept'
    BY <2>1 DEF AccountKept
  <2> QED
    BY <2>1, <2>2, <2>3, <2>4 DEF KeptInv, Only
<1>5. ASSUME NEW o \in Orders, KeepUri(o) PROVE KeptInv'
  <2>1. /\ Only(o) /\ pc[o] = "keep" /\ pc'[o] = "order" /\ uri' = Own(o)
        /\ UNCHANGED <<key, accounts, broken>> /\ job'[o].key = job[o].key
    BY <1>0, <1>5, KeepUriEffect DEF ca
  <2>2. Keyed \subseteq Keyed'
    BY <2>1 DEF Keyed, Only
  <2>3. uri' # NoUri
    <3>1. job[o].dir \in Directories /\ job[o].key \in Orders
      BY <1>0, <2>1, JobFacts DEF TypeInv, Signed, Over
    <3> QED
      BY <2>1, <3>1, AcmeNullAssumption DEF Own, Accounts
  <2> QED
    BY <2>1, <2>2, <2>3 DEF KeptInv, AccountKept, Only
<1>6. ASSUME NEW o \in Orders, NewOrder(o) PROVE KeptInv'
  BY <1>0, <1>6, NewOrderEffect, KeptLocal DEF profile, ca
<1>7. ASSUME NEW o \in Orders, GiveUp(o) PROVE KeptInv'
  BY <1>0, <1>7, ReturnEffect, BlankFacts, KeptLocal DEF GiveUp, profile, ca
<1>8. ASSUME NEW o \in Orders, CreateRecord(o) PROVE KeptInv'
  <2>1. /\ Only(o) /\ pc[o] = "create" /\ pc'[o] \in {"wait", "cleanup"}
        /\ UNCHANGED <<key, uri, accounts>> /\ broken \subseteq broken'
        /\ job'[o].key = job[o].key
    BY <1>0, <1>8, CreateEffect DEF profile, ca
  <2> QED
    BY <2>1, KeptLocal
<1>9. ASSUME NEW o \in Orders, Poll(o) PROVE KeptInv'
  <2>1. /\ Only(o) /\ pc[o] = "wait" /\ pc'[o] \in {"wait", "answer"}
        /\ UNCHANGED <<key, uri, accounts, broken>> /\ job'[o].key = job[o].key
    BY <1>0, <1>9, PollEffect DEF profile, ca
  <2> QED
    BY <2>1, KeptLocal
<1>10. ASSUME NEW o \in Orders, Answer(o) PROVE KeptInv'
  BY <1>0, <1>10, AnswerEffect, KeptLocal DEF profile, ca
<1>11. ASSUME NEW o \in Orders, Finalize(o) PROVE KeptInv'
  BY <1>0, <1>11, FinalizeEffect, KeptLocal DEF profile
<1>12. ASSUME NEW o \in Orders, Fail(o) PROVE KeptInv'
  <2>1. /\ Only(o) /\ pc[o] \in Solving /\ pc'[o] = "cleanup"
        /\ UNCHANGED <<key, uri, accounts, broken, job>>
    BY <1>0, <1>12 DEF Fail, Goto, Only, TypeOK, profile, ca
  <2> QED
    BY <2>1, KeptLocal DEF Solving
<1>13. ASSUME NEW o \in Orders, Cleanup(o) PROVE KeptInv'
  <2>1. /\ Only(o) /\ pc[o] = "cleanup" /\ pc'[o] \in {"cleanup"} \cup Over
        /\ UNCHANGED <<key, uri, accounts>> /\ broken \subseteq broken'
        /\ job'[o].key \in {job[o].key, NoKey}
    BY <1>0, <1>13, CleanupEffect, BlankFacts DEF profile, ca
  <2> QED
    BY <2>1, KeptLocal DEF Over
<1>14. ASSUME NEW s \in Servers, Propagate(s) PROVE KeptInv'
  BY <1>14 DEF Propagate, profile, ca, KeptInv, AccountKept, Keyed
<1>15. ASSUME NEW o \in Orders, Validate(o) PROVE KeptInv'
  BY <1>0, <1>15, ValidateEffect, KeptLocal DEF profile, ca
<1>16. ASSUME NEW o \in Orders, Kill(o) PROVE KeptInv'
  BY <1>0, <1>16, ReturnEffect, BlankFacts, KeptLocal DEF Kill, Break, profile, ca
<1>17. CASE Sweep
  <2>1. PICK o \in Orders :
           Only(o) /\ UNCHANGED <<pc, key, uri, accounts, broken>> /\ job'[o].key = job[o].key
    BY <1>0, <1>17, SweepEffect DEF profile, ca
  <2> QED
    BY <2>1, KeptLocal
<1>18. CASE Move
  BY <1>18 DEF Move, ca, KeptInv, AccountKept, Keyed
<1> QED
  BY <1>1, <1>2, <1>3, <1>4, <1>5, <1>6, <1>7, <1>8, <1>9, <1>10, <1>11, <1>12,
     <1>13, <1>14, <1>15, <1>16, <1>17, <1>18 DEF Next, Step

(***************************************************************************)
(* AccountKept for any number of orders, also of overlapping first orders: *)
(* between new_account and save_account_uri only a kill or a lost answer   *)
(* leaves a registered key without its account on record.                  *)
(***************************************************************************)
THEOREM RegisteredIsRecorded == Spec => []AccountKept
<1>1. Init => KeptInv
  <2> SUFFICES ASSUME Init PROVE KeptInv
    OBVIOUS
  <2>1. TypeInv /\ \A o \in Orders : job[o] = Blank
    BY InitType DEF Init
  <2> QED
    BY <2>1, BlankFacts DEF Init, KeptInv, AccountKept
<1>2. KeptInv => AccountKept
  BY DEF KeptInv
<1> QED
  BY <1>1, <1>2, InitType, StepType, KeptStep, PTL DEF Spec

-----------------------------------------------------------------------------
(* When the directory stays                                                *)

\* What an order of the account reads and writes of the directory
PlacedInv ==
    /\ TypeInv
    /\ AccountAtDirectory
    /\ \A o \in Orders : pc[o] \in Joining \cup {"order"} => job[o].dir = dir

\* The steps after the order is taken, and those that end a call, leave the
\* account alone.
LEMMA AfterTheAccount ==
    ASSUME TypeOK, NEW o \in Orders,
           \/ NewOrder(o) \/ GiveUp(o) \/ CreateRecord(o) \/ Poll(o) \/ Answer(o)
           \/ Finalize(o) \/ Fail(o) \/ Cleanup(o) \/ Validate(o) \/ Kill(o)
    PROVE  /\ Only(o) /\ pc'[o] \notin Joining \cup {"order"}
           /\ UNCHANGED <<profile, accounts>> /\ broken \subseteq broken'
<1>1. CASE NewOrder(o)
  BY <1>1, NewOrderEffect DEF Joining, ca
<1>2. CASE GiveUp(o)
  BY <1>2, ReturnEffect DEF GiveUp, Joining, ca
<1>3. CASE CreateRecord(o)
  <2>1. /\ Only(o) /\ pc'[o] \in {"wait", "cleanup"}
        /\ UNCHANGED <<profile, ca>> /\ broken \subseteq broken'
    BY <1>3, CreateEffect
  <2> QED
    BY <2>1 DEF Joining, ca
<1>4. CASE Poll(o)
  <2>1. Only(o) /\ pc'[o] \in {"wait", "answer"} /\ UNCHANGED <<profile, ca, broken>>
    BY <1>4, PollEffect
  <2> QED
    BY <2>1 DEF Joining, ca
<1>5. CASE Answer(o)
  BY <1>5, AnswerEffect DEF Joining, ca
<1>6. CASE Finalize(o)
  BY <1>6, FinalizeEffect DEF Joining, ca
<1>7. CASE Fail(o)
  BY <1>7 DEF Fail, Goto, Only, TypeOK, Joining, ca
<1>8. CASE Cleanup(o)
  BY <1>8, CleanupEffect DEF Joining, Over, ca
<1>9. CASE Validate(o)
  BY <1>9, ValidateEffect DEF Joining, Solving, ca
<1>10. CASE Kill(o)
  BY <1>10, ReturnEffect DEF Kill, Joining, ca, Break
<1> QED
  BY <1>1, <1>2, <1>3, <1>4, <1>5, <1>6, <1>7, <1>8, <1>9, <1>10

LEMMA PlacedStep == "move" \notin Faults /\ PlacedInv /\ TypeInv' /\ [Next]_vars => PlacedInv'
<1> SUFFICES ASSUME "move" \notin Faults, PlacedInv, TypeInv', [Next]_vars PROVE PlacedInv'
  OBVIOUS
<1>0. TypeOK
  BY DEF PlacedInv, TypeInv
<1>1. CASE UNCHANGED vars
  BY <1>1 DEF vars, profile, PlacedInv, AccountAtDirectory
<1>2. ASSUME NEW o \in Orders, Start(o) PROVE PlacedInv'
  <2>1. Only(o) /\ job'[o].dir = dir /\ UNCHANGED <<dir, uri>>
    BY <1>0, <1>2, StartEffect DEF Start, profile
  <2> QED
    BY <2>1 DEF PlacedInv, AccountAtDirectory, Only
<1>3. ASSUME NEW o \in Orders, AccountKey(o) PROVE PlacedInv'
  <2>1. Only(o) /\ pc[o] = "key" /\ job'[o].dir = job[o].dir /\ UNCHANGED <<dir, uri>>
    BY <1>0, <1>3, AccountKeyEffect
  <2> QED
    BY <2>1 DEF PlacedInv, AccountAtDirectory, Only, Joining
<1>4. ASSUME NEW o \in Orders, Register(o) PROVE PlacedInv'
  <2>1. /\ Only(o) /\ pc[o] = "register" /\ UNCHANGED <<dir, uri>>
        /\ UNCHANGED job \/ pc'[o] = "failed"
    BY <1>0, <1>4, RegisterEffect DEF profile
  <2> QED
    BY <2>1 DEF PlacedInv, AccountAtDirectory, Only, Joining
<1>5. ASSUME NEW o \in Orders, KeepUri(o) PROVE PlacedInv'
  <2>1. Only(o) /\ pc[o] = "keep" /\ uri' = Own(o) /\ dir' = dir
    BY <1>0, <1>5, KeepUriEffect
  <2>2. job'[o].dir = job[o].dir
    BY <1>0, <1>5 DEF KeepUri, TypeOK, Jobs
  <2>3. Own(o).dir = dir
    BY <2>1 DEF PlacedInv, Own, Joining
  <2> QED
    BY <2>1, <2>2, <2>3 DEF PlacedInv, AccountAtDirectory, Only, Joining
<1>6. ASSUME NEW o \in Orders, NEW p \in Orders,
             Only(o), pc'[o] \notin Joining \cup {"order"}, UNCHANGED profile
      PROVE  pc'[p] \in Joining \cup {"order"} => job'[p].dir = dir'
  BY <1>6 DEF PlacedInv, Only, profile
<1>7. ASSUME NEW o \in Orders,
             \/ NewOrder(o) \/ GiveUp(o) \/ CreateRecord(o) \/ Poll(o) \/ Answer(o)
             \/ Finalize(o) \/ Fail(o) \/ Cleanup(o) \/ Validate(o) \/ Kill(o)
      PROVE  PlacedInv'
  <2>1. Only(o) /\ pc'[o] \notin Joining \cup {"order"} /\ UNCHANGED profile
    BY <1>0, <1>7, AfterTheAccount
  <2> QED
    BY <1>6, <2>1 DEF PlacedInv, AccountAtDirectory, profile
<1>8. ASSUME NEW s \in Servers, Propagate(s) PROVE PlacedInv'
  BY <1>8 DEF Propagate, profile, PlacedInv, AccountAtDirectory
<1>9. CASE Sweep
  <2>1. PICK o \in Orders :
           Only(o) /\ UNCHANGED <<pc, dir, uri>> /\ job'[o].dir = job[o].dir
    BY <1>0, <1>9, SweepEffect DEF profile
  <2> QED
    BY <2>1 DEF PlacedInv, AccountAtDirectory, Only
<1>10. ~Move
  BY DEF Move
<1> QED
  BY <1>1, <1>2, <1>3, <1>4, <1>5, <1>7, <1>8, <1>9, <1>10 DEF Next, Step

LEMMA PlacedHolds ==
    ASSUME "move" \notin Faults
    PROVE  Spec => []PlacedInv
<1>1. Init => PlacedInv
  <2> SUFFICES ASSUME Init PROVE PlacedInv
    OBVIOUS
  <2> QED
    BY InitType DEF Init, PlacedInv, AccountAtDirectory, Joining
<1> QED
  BY <1>1, InitType, StepType, PlacedStep, PTL DEF Spec

(***************************************************************************)
(* AccountAtDirectory as long as nobody changes the directory of the       *)
(* profile, also of overlapping orders and whichever calls fail: the edit  *)
(* of update_ca_profile is the only cause of an account that belongs to    *)
(* another directory than the one on record (app/db/models.py:114).        *)
(***************************************************************************)
THEOREM AccountStaysHome ==
    ASSUME "move" \notin Faults
    PROVE  Spec => []AccountAtDirectory
<1>1. PlacedInv => AccountAtDirectory
  BY DEF PlacedInv
<1> QED
  BY <1>1, PlacedHolds, PTL

\* The CA takes what the order is about to send: a registration of a key that
\* it does not know, an order under an account that it does.
Welcome(o) ==
    /\ pc[o] = "register" /\ Own(o) \in accounts => broken # {}
    /\ pc[o] = "order" => job[o].uri = Own(o) /\ Own(o) \in accounts

WelcomeInv == AccountInv /\ KeptInv /\ PlacedInv /\ \A o \in Orders : Welcome(o)

LEMMA WelcomeStep ==
    ASSUME WelcomeInv, AccountInv', KeptInv', PlacedInv', [Next]_vars
    PROVE  WelcomeInv'
<1>0. TypeOK /\ TypeInv /\ TypeOK' /\ TypeInv'
  BY DEF WelcomeInv, AccountInv, KeptInv
<1>1. ASSUME NEW o \in Orders, pc'[o] = "register", Own(o)' \in accounts' PROVE broken' # {}
  <2>1. key' = job'[o].key /\ uri' = NoUri
    BY <1>1 DEF AccountInv, JoinInv, Joining
  <2>2. job'[o].key # NoKey /\ job'[o].dir \in Directories
    BY <1>0, <1>1 DEF TypeInv, Signed, Over, TypeOK, Jobs
  <2>3. \E p \in Orders : pc'[p] = "keep" \/ p \in broken'
    BY <1>1, <2>1, <2>2 DEF KeptInv, AccountKept, Own
  <2>4. \A p \in Orders : pc'[p] # "keep"
    BY <1>1 DEF AccountInv, Joining
  <2> QED
    BY <2>3, <2>4
<1> DEFINE Taken(o) == job[o].uri = Own(o) /\ Own(o) \in accounts
<1>2. SUFFICES ASSUME NEW o \in Orders, pc'[o] = "order" PROVE Taken(o)'
  BY <1>1, <1>2 DEF WelcomeInv, Welcome
<1>3. accounts \subseteq accounts'
  <2>1. ASSUME NEW p \in Orders, Register(p) PROVE accounts \subseteq accounts'
    BY <2>1 DEF Register
  <2>2. ASSUME NEW p \in Orders, ~Register(p), Step(p) \/ Validate(p) \/ Kill(p) \/ Start(p)
        PROVE  accounts' = accounts
    BY <1>0, <2>2, AfterTheAccount DEF Step, AccountKey, KeepUri, Start, ca
  <2>3. Sweep \/ Move \/ (\E s \in Servers : Propagate(s)) \/ UNCHANGED vars => accounts' = accounts
    BY DEF Sweep, Move, Propagate, vars, ca
  <2> QED
    BY <2>1, <2>2, <2>3 DEF Next
<1>4. CASE pc[o] = "order" /\ job'[o].dir = job[o].dir /\ job'[o].key = job[o].key
           /\ job'[o].uri = job[o].uri
  BY <1>3, <1>4 DEF WelcomeInv, Welcome, Own
<1>5. ASSUME AccountKey(o) PROVE Taken(o)'
  <2>1. /\ pc[o] = "key" /\ job'[o].dir = job[o].dir /\ uri' = uri /\ ca' = ca /\ dir' = dir
        /\ \/ job[o].key # NoKey /\ job'[o].key = job[o].key /\ job'[o].uri = job[o].uri
           \/ job[o].key = NoKey /\ job'[o].uri \in {job[o].uri, uri}
    BY <1>0, <1>5, AccountKeyEffect
  <2>2. job[o].key = key /\ job[o].uri = uri /\ job[o].dir = dir
    BY <2>1 DEF WelcomeInv, AccountInv, PlacedInv, JoinInv, Joining
  <2>3. job'[o].uri = uri /\ uri # NoUri
    BY <1>2, <1>5, <2>1, <2>2, <1>0 DEF AccountKey, Goto, TypeOK
  <2>4. uri \in accounts /\ uri.key = key /\ uri.dir = dir /\ key # NoKey
    BY <2>3, <1>0, AcmeNullAssumption
    DEF WelcomeInv, AccountInv, AccountSound, PlacedInv, AccountAtDirectory, TypeOK, Accounts
  <2>5. job'[o].key = key
    BY <2>1, <2>2, <2>4
  <2>6. uri = [dir |-> dir, key |-> key]
    BY <2>4, <1>0 DEF TypeOK, Accounts
  <2> QED
    BY <1>3, <2>1, <2>2, <2>3, <2>4, <2>5, <2>6 DEF Own
<1>6. ASSUME KeepUri(o) PROVE Taken(o)'
  <2>1. job'[o].uri = Own(o) /\ job'[o].dir = job[o].dir /\ job'[o].key = job[o].key
    BY <1>0, <1>6 DEF KeepUri, TypeOK, Jobs
  <2>2. Own(o) \in accounts
    BY <1>6 DEF KeepUri, WelcomeInv, AccountInv, JoinInv, Joining
  <2> QED
    BY <1>3, <2>1, <2>2 DEF Own
<1>7. ASSUME NEW p \in Orders, p # o, Step(p) \/ Validate(p) \/ Kill(p) \/ Start(p)
      PROVE  Taken(o)'
  <2>1. Only(p)
    BY <1>0, <1>7, AfterTheAccount, StartEffect, AccountKeyEffect, RegisterEffect,
       KeepUriEffect DEF Step
  <2> QED
    BY <1>2, <1>4, <1>7, <2>1 DEF Only
<1>8. CASE Register(o)
  BY <1>0, <1>2, <1>8, RegisterEffect
<1>9. CASE Start(o)
  BY <1>0, <1>2, <1>9, StartEffect
<1>10. CASE Sweep
  <2>1. PICK p \in Orders :
           /\ Only(p) /\ UNCHANGED pc
           /\ job'[p].key = job[p].key /\ job'[p].uri = job[p].uri /\ job'[p].dir = job[p].dir
    BY <1>0, <1>10, SweepEffect
  <2> QED
    BY <1>2, <1>4, <2>1 DEF Only
<1>11. CASE Move \/ (\E s \in Servers : Propagate(s)) \/ UNCHANGED vars
  BY <1>2, <1>4, <1>11 DEF Move, Propagate, vars
<1> QED
  BY <1>0, <1>2, <1>5, <1>6, <1>7, <1>8, <1>9, <1>10, <1>11, AfterTheAccount DEF Next, Step

LEMMA WelcomeInit ==
    ASSUME Init
    PROVE  AccountInv /\ KeptInv /\ PlacedInv /\ \A o \in Orders : Welcome(o)
<1>1. TypeInv /\ TypeOK /\ \A o \in Orders : pc[o] = "idle" /\ job[o] = Blank
  BY InitType DEF TypeInv, Init
<1>2. AccountInv /\ PlacedInv
  BY <1>1 DEF Init, AccountInv, AccountSound, JoinInv, Joining, PlacedInv, AccountAtDirectory
<1>3. KeptInv
  BY <1>1, BlankFacts DEF Init, KeptInv, AccountKept
<1> QED
  BY <1>1, <1>2, <1>3 DEF Welcome

(***************************************************************************)
(* No order is turned away for its account, as long as no two orders open  *)
(* it at once and its directory stays: each finds the account on record,   *)
(* in the CA's hands and under the key it signs with, however the orders   *)
(* before it ended; and a key is registered twice only once a process was  *)
(* killed or an answer lost (_load_or_create_account_key, load_account_uri *)
(* and save_account_uri of app/ca/acme_provider.py:182-239).               *)
(***************************************************************************)
THEOREM OrdersAreWelcome ==
    ASSUME Exclusive, "move" \notin Faults
    PROVE  Spec => [](\A o \in Orders : Welcome(o))
<1>1. Init => WelcomeInv
  BY WelcomeInit DEF WelcomeInv
<1>2. AccountInv /\ TypeOK' /\ [Next]_vars => AccountInv'
  BY AccountStep
<1>3. WelcomeInv /\ TypeInv' /\ [Next]_vars => WelcomeInv'
  <2>1. TypeInv' => TypeOK'
    BY DEF TypeInv
  <2>2. WelcomeInv => AccountInv /\ KeptInv /\ PlacedInv
    BY DEF WelcomeInv
  <2> QED
    BY <1>2, <2>1, <2>2, KeptStep, PlacedStep, WelcomeStep
<1>4. WelcomeInv => \A o \in Orders : Welcome(o)
  BY DEF WelcomeInv
<1> QED
  BY <1>1, <1>3, <1>4, InitType, StepType, PTL DEF Spec

-----------------------------------------------------------------------------
(* How long an order takes                                                 *)

\* A certificate names finitely many names, a zone finitely many nameservers.
Bounded == IsFiniteSet(Servers) /\ \A o \in Orders : IsFiniteSet(NamesOf[o])

\* A name takes the creation of its record, the answer of every nameserver,
\* the answer to its challenge and the removal of its record.
PerName == Cardinality(Servers) + 3

Whole(o) == Cardinality(NamesOf[o]) * PerName

\* The names after the one in hand, and the records to remove
Rest(o) == (Cardinality(job[o].todo) - 1) * PerName + Cardinality(job[o].made)

\* The most steps that are left to the order
CallsLeft(o) ==
    CASE pc[o] = "key"      -> Whole(o) + 6
      [] pc[o] = "register" -> Whole(o) + 5
      [] pc[o] = "keep"     -> Whole(o) + 4
      [] pc[o] = "order"    -> Whole(o) + 3
      [] pc[o] = "create"   -> Rest(o) + PerName + 2
      [] pc[o] = "wait"     -> Rest(o) + Cardinality(job[o].left) + 3
      [] pc[o] = "answer"   -> Rest(o) + 3
      [] pc[o] = "finalize" -> Cardinality(job[o].made) + 2
      [] pc[o] = "cleanup"  -> Cardinality(job[o].made) + 1
      [] OTHER              -> 0

\* The name in hand is not answered yet, and what is to be removed is finite.
CountInv(o) ==
    /\ IsFiniteSet(job[o].todo) /\ IsFiniteSet(job[o].made)
    /\ pc[o] \in {"wait", "answer"} => job[o].at \in job[o].todo
    /\ pc[o] \notin Solving \cup {"cleanup"} => job[o].made = {}

LEMMA OneLess == \A t, w \in Int : t * w = (t - 1) * w + w
OBVIOUS

LEMMA Sizes ==
    ASSUME Bounded, TypeOK, NEW o \in Orders, CountInv(o)
    PROVE  /\ Cardinality(job[o].todo) \in Nat /\ Cardinality(job[o].made) \in Nat
           /\ Cardinality(job[o].left) \in Nat
           /\ Cardinality(job[o].left) <= Cardinality(Servers)
           /\ PerName \in Nat /\ PerName = Cardinality(Servers) + 3
           /\ Cardinality(Servers) \in Nat
           /\ Whole(o) \in Nat /\ Rest(o) \in Int
           /\ Rest(o) + PerName
                = Cardinality(job[o].todo) * PerName + Cardinality(job[o].made)
           /\ job[o].todo # {} => Rest(o) \in Nat
           /\ Cardinality(job[o].todo) = 1 => Rest(o) = Cardinality(job[o].made)
           /\ Rest(o) + PerName \in Nat
<1> DEFINE t == Cardinality(job[o].todo)
           m == Cardinality(job[o].made)
           s == Cardinality(Servers)
           n == Cardinality(NamesOf[o])
<1>1. t \in Nat /\ m \in Nat /\ s \in Nat /\ n \in Nat
  BY FS_CardinalityType DEF Bounded, CountInv
<1>2. IsFiniteSet(job[o].left) /\ Cardinality(job[o].left) <= s
  BY JobFacts, FS_Subset DEF Bounded
<1>3. Cardinality(job[o].left) \in Nat
  BY <1>2, FS_CardinalityType
<1>4. job[o].todo # {} => t # 0
  BY FS_EmptySet DEF CountInv
<1>5. PerName \in Nat /\ PerName = s + 3 /\ Whole(o) = n * PerName
      /\ Rest(o) = (t - 1) * PerName + m
  BY <1>1 DEF PerName, Whole, Rest
<1> HIDE DEF t, m, s, n
<1>6. Whole(o) \in Nat /\ Rest(o) \in Int
  BY <1>1, <1>5
<1>7. Rest(o) + PerName = t * PerName + m
  BY <1>1, <1>5, OneLess
<1>8. t * PerName \in Nat /\ (t # 0 => (t - 1) * PerName \in Nat)
  BY <1>1, <1>5
<1>9. Rest(o) + PerName \in Nat /\ (t # 0 => Rest(o) \in Nat) /\ (t = 1 => Rest(o) = m)
  BY <1>1, <1>5, <1>7, <1>8
<1> QED
  BY <1>1, <1>2, <1>3, <1>4, <1>5, <1>6, <1>7, <1>9 DEF t, m, s

LEMMA CallsLeftType ==
    ASSUME Bounded, TypeOK, NEW o \in Orders, CountInv(o)
    PROVE  CallsLeft(o) \in Nat
<1>1. pc[o] \in {"wait", "answer"} => Rest(o) \in Nat
  BY Sizes DEF CountInv
<1> QED
  BY <1>1, Sizes DEF CallsLeft

\* The same of the order as a step leaves it
LEMMA SizesThen ==
    ASSUME Bounded, TypeOK', NEW o \in Orders, CountInv(o)'
    PROVE  /\ Cardinality(job'[o].todo) \in Nat /\ Cardinality(job'[o].made) \in Nat
           /\ Cardinality(job'[o].left) \in Nat
           /\ Cardinality(job'[o].left) <= Cardinality(Servers)
           /\ PerName' = PerName /\ Whole(o)' = Whole(o)
           /\ Rest(o)' = (Cardinality(job'[o].todo) - 1) * PerName + Cardinality(job'[o].made)
<1>1. job'[o].left \subseteq Servers
  BY DEF TypeOK, Jobs
<1> QED
  BY <1>1, FS_CardinalityType, FS_Subset DEF Bounded, CountInv, PerName, Whole, Rest

LEMMA CallShortens ==
    ASSUME Bounded, TypeOK, TypeOK', NEW o \in Orders, CountInv(o), Step(o)
    PROVE  CountInv(o)' /\ CallsLeft(o)' < CallsLeft(o)
<1> DEFINE t == Cardinality(job[o].todo)
           m == Cardinality(job[o].made)
           l == Cardinality(job[o].left)
           s == Cardinality(Servers)
<1>0. job \in [Orders -> Jobs] /\ pc \in [Orders -> Phases] /\ job[o] \in Jobs
  BY DEF TypeOK
<1>1. /\ t \in Nat /\ m \in Nat /\ l \in Nat /\ s \in Nat /\ l <= s
      /\ PerName \in Nat /\ PerName = s + 3 /\ Whole(o) \in Nat /\ Rest(o) \in Int
      /\ Rest(o) = (t - 1) * PerName + m
      /\ Rest(o) + PerName = t * PerName + m /\ Rest(o) + PerName \in Nat
      /\ job[o].todo # {} => Rest(o) \in Nat
  BY Sizes DEF Rest
<1>2. IsFiniteSet({}) /\ Cardinality({}) = 0
  BY FS_EmptySet
<1>3. CASE AccountKey(o)
  <2>1. pc[o] = "key" /\ pc'[o] \in {"register", "order"} /\ job'[o].made = job[o].made
    BY <1>3, AccountKeyEffect
  <2>2. job'[o].todo = job[o].todo
    BY <1>0, <1>3 DEF AccountKey, Jobs
  <2>3. CountInv(o)'
    BY <2>1, <2>2 DEF CountInv, Solving
  <2> QED
    BY <1>1, <2>1, <2>3, SizesThen DEF CallsLeft
<1>4. CASE Register(o)
  <2>1. /\ pc[o] = "register"
        /\ \/ pc'[o] = "keep" /\ job' = job
           \/ pc'[o] = "failed" /\ job'[o] = Blank
    BY <1>4, RegisterEffect
  <2>2. CountInv(o)'
    BY <1>2, <2>1 DEF CountInv, Solving, Blank
  <2> QED
    BY <1>1, <2>1, <2>2, SizesThen DEF CallsLeft
<1>5. CASE KeepUri(o)
  <2>1. pc[o] = "keep" /\ pc'[o] = "order" /\ job'[o].made = job[o].made
    BY <1>5, KeepUriEffect
  <2>2. job'[o].todo = job[o].todo
    BY <1>0, <1>5 DEF KeepUri, Jobs
  <2>3. CountInv(o)'
    BY <2>1, <2>2 DEF CountInv, Solving
  <2> QED
    BY <1>1, <2>1, <2>3, SizesThen DEF CallsLeft
<1>6. CASE NewOrder(o)
  <2>1. pc[o] = "order" /\ pc'[o] = "create" /\ job'[o].made = job[o].made
    BY <1>6, NewOrderEffect
  <2>2. job'[o].todo = NamesOf[o] /\ job[o].made = {}
    BY <1>0, <1>6, <2>1 DEF NewOrder, Jobs, CountInv, Solving
  <2>3. CountInv(o)'
    BY <1>2, <2>1, <2>2 DEF CountInv, Solving, Bounded
  <2> DEFINE n == Cardinality(NamesOf[o])
  <2>4. Rest(o)' + PerName = Whole(o)
    <3>1. n \in Nat
      BY FS_CardinalityType DEF Bounded
    <3>2. Rest(o)' = (n - 1) * PerName + 0
      BY <1>2, <2>1, <2>2, <2>3, SizesThen
    <3>3. Whole(o) = n * PerName
      BY DEF Whole
    <3> HIDE DEF n
    <3> QED
      BY <1>1, <3>1, <3>2, <3>3, OneLess
  <2>5. CallsLeft(o)' = Rest(o)' + PerName + 2 /\ CallsLeft(o) = Whole(o) + 3
    BY <2>1, <2>3, SizesThen DEF CallsLeft
  <2> QED
    BY <1>1, <2>3, <2>4, <2>5
<1>7. CASE GiveUp(o)
  <2>1. pc'[o] = "failed" /\ job'[o] = Blank /\ pc[o] \in {"key", "register", "order"}
    BY <1>7, ReturnEffect DEF GiveUp
  <2>2. CountInv(o)'
    BY <1>2, <2>1 DEF CountInv, Solving, Blank
  <2> QED
    BY <1>1, <2>1, <2>2 DEF CallsLeft
<1>8. CASE CreateRecord(o)
  <2>1. PICK n \in Names :
           /\ pc[o] = "create"
           /\ \/ /\ pc'[o] = "wait" /\ job'[o].made = job[o].made \cup {Rec(o, n)}
                 /\ job'[o].at = n
              \/ pc'[o] = "cleanup" /\ job'[o].made = job[o].made
    BY <1>8, CreateEffect
  <2>2. job'[o].todo = job[o].todo /\ (pc'[o] = "wait" => job'[o].at \in job[o].todo)
    <3>1. CASE pc'[o] = "cleanup"
      BY <1>0, <1>8, <3>1 DEF CreateRecord, Goto
    <3>2. CASE pc'[o] = "wait"
      <4>1. PICK q \in job[o].todo : \E left \in SUBSET Servers :
               job' = [job EXCEPT ![o].at = q, ![o].left = left, ![o].made = @ \cup {Rec(o, q)}]
        BY <1>0, <1>8, <3>2 DEF CreateRecord, Goto
      <4>2. PICK left \in SUBSET Servers :
               job' = [job EXCEPT ![o].at = q, ![o].left = left, ![o].made = @ \cup {Rec(o, q)}]
        BY <4>1
      <4>3. job'[o].todo = job[o].todo /\ job'[o].at = q
        BY <1>0, <4>2 DEF Jobs
      <4> QED
        BY <4>3
    <3> QED
      BY <2>1, <3>1, <3>2
  <2>3. CountInv(o)'
    BY <2>1, <2>2, FS_AddElement DEF CountInv, Solving
  <2>4. Cardinality(job'[o].made) <= m + 1
    <3>1. Cardinality(job[o].made \cup {Rec(o, n)}) \in {m, m + 1}
      BY FS_AddElement DEF CountInv
    <3>2. CASE job'[o].made = job[o].made
      BY <1>1, <3>2
    <3>3. CASE job'[o].made = job[o].made \cup {Rec(o, n)}
      BY <1>1, <3>1, <3>3
    <3> QED
      BY <2>1, <3>2, <3>3
  <2>5. /\ Rest(o)' = (t - 1) * PerName + Cardinality(job'[o].made)
        /\ Cardinality(job'[o].made) \in Nat /\ Cardinality(job'[o].left) \in Nat
        /\ Cardinality(job'[o].left) <= s
    BY <2>2, <2>3, SizesThen
  <2>6. (t - 1) * PerName \in Int
    BY <1>1
  <2>7. Rest(o)' <= Rest(o) + 1 /\ Rest(o)' \in Int
    BY <1>1, <2>4, <2>5, <2>6
  <2> QED
    BY <1>1, <2>1, <2>3, <2>4, <2>5, <2>7 DEF CallsLeft
<1>9. CASE Poll(o)
  <2>1. /\ pc[o] = "wait" /\ pc'[o] \in {"wait", "answer"} /\ job'[o].made = job[o].made
        /\ job'[o].at = job[o].at
    BY <1>9, PollEffect
  <2>2. PICK v \in job[o].left : job' = [job EXCEPT ![o].left = @ \ {v}]
    BY <1>9 DEF Poll
  <2>3. job'[o].todo = job[o].todo /\ job'[o].left = job[o].left \ {v}
    BY <1>0, <2>2 DEF Jobs
  <2>4. CountInv(o)'
    BY <2>1, <2>3 DEF CountInv, Solving
  <2>5. IsFiniteSet(job[o].left)
    BY FS_Subset, JobFacts DEF Bounded
  <2>6. Cardinality(job'[o].left) = l - 1
    BY <2>2, <2>3, <2>5, FS_RemoveElement
  <2>7. Rest(o)' = Rest(o) /\ l - 1 \in Nat
    BY <1>1, <2>1, <2>3, <2>4, <2>6, SizesThen
  <2>8. CallsLeft(o) = Rest(o) + l + 3
    BY <2>1 DEF CallsLeft
  <2>9. /\ pc'[o] = "wait" => CallsLeft(o)' = Rest(o)' + Cardinality(job'[o].left) + 3
        /\ pc'[o] = "answer" => CallsLeft(o)' = Rest(o)' + 3
    BY DEF CallsLeft
  <2> HIDE DEF l
  <2> QED
    BY <1>1, <2>1, <2>4, <2>6, <2>7, <2>8, <2>9
<1>10. CASE Answer(o)
  <2>1. /\ pc[o] = "answer" /\ pc'[o] \in {"create", "finalize", "cleanup"}
        /\ job'[o].made = job[o].made
    BY <1>10, AnswerEffect
  <2>2. job'[o].todo = job[o].todo \ {job[o].at}
    BY <1>0, <1>10 DEF Answer, Jobs
  <2>3. CountInv(o)'
    BY <2>1, <2>2, FS_RemoveElement DEF CountInv, Solving
  <2>4. Cardinality(job'[o].todo) = t - 1 /\ job[o].todo # {}
    BY <2>1, <2>2, FS_RemoveElement DEF CountInv
  <2>5. Rest(o)' + PerName = Rest(o)
    BY <1>1, <2>1, <2>3, <2>4, SizesThen, OneLess
  <2> QED
    BY <1>1, <2>1, <2>3, <2>4, <2>5, SizesThen DEF CallsLeft
<1>11. CASE Finalize(o)
  <2>1. pc[o] = "finalize" /\ pc'[o] = "cleanup" /\ job'[o].made = job[o].made
    BY <1>11, FinalizeEffect
  <2>2. job'[o].todo = job[o].todo
    BY <1>0, <1>11 DEF Finalize, Jobs
  <2>3. CountInv(o)'
    BY <2>1, <2>2 DEF CountInv, Solving
  <2> QED
    BY <1>1, <2>1, <2>3 DEF CallsLeft
<1>12. CASE Fail(o)
  <2>1. pc[o] \in Solving /\ pc'[o] = "cleanup" /\ job' = job
    BY <1>0, <1>12 DEF Fail, Goto
  <2>2. CountInv(o)'
    BY <2>1 DEF CountInv, Solving
  <2>3. pc[o] \in {"wait", "answer"} => t # 0
    BY FS_EmptySet DEF CountInv
  <2>4. pc[o] \in {"wait", "answer"} => m <= Rest(o)
    <3>1. t # 0 => t - 1 \in Nat
      <4>1. \A a \in Nat : a # 0 => a - 1 \in Nat
        OBVIOUS
      <4>2. t \in Nat
        BY <1>1
      <4> HIDE DEF t
      <4> QED
        BY <4>1, <4>2
    <3>2. \A a, b \in Nat : a * b \in Nat
      OBVIOUS
    <3>3. t # 0 => (t - 1) * PerName \in Nat
      BY <1>1, <3>1, <3>2
    <3> DEFINE c == (t - 1) * PerName
    <3>4. Rest(o) = c + m
      BY <1>1
    <3> HIDE DEF c
    <3> QED
      BY <1>1, <2>3, <3>3, <3>4 DEF c
  <2>5. m <= Rest(o) + PerName
    BY <1>1
  <2> QED
    BY <1>1, <2>1, <2>2, <2>4, <2>5 DEF CallsLeft, Solving
<1>13. CASE Cleanup(o)
  <2>1. CASE pc'[o] \in Over /\ job'[o] = Blank
    <3>1. pc[o] = "cleanup" /\ CountInv(o)'
      BY <1>2, <1>13, <2>1 DEF Cleanup, CountInv, Over, Solving, Blank
    <3> QED
      BY <1>1, <2>1, <3>1 DEF CallsLeft, Over
  <2>2. CASE pc'[o] = "cleanup"
    <3>1. PICK r \in job[o].made : job' = [job EXCEPT ![o].made = @ \ {r}]
      BY <1>0, <1>13, <2>2 DEF Cleanup, Return, Goto
    <3>2. job'[o].made = job[o].made \ {r} /\ job'[o].todo = job[o].todo
      BY <1>0, <3>1 DEF Jobs
    <3>3. CountInv(o)' /\ Cardinality(job'[o].made) = m - 1
      BY <2>2, <3>1, <3>2, FS_RemoveElement DEF CountInv
    <3>4. pc[o] = "cleanup"
      BY <1>13 DEF Cleanup
    <3> QED
      BY <1>1, <2>2, <3>3, <3>4 DEF CallsLeft
  <2> QED
    BY <1>13, <2>1, <2>2, CleanupEffect
<1> QED
  BY <1>3, <1>4, <1>5, <1>6, <1>7, <1>8, <1>9, <1>10, <1>11, <1>12, <1>13 DEF Step

LEMMA BlankCounts ==
    ASSUME NEW o \in Orders, job'[o].todo = {}, job'[o].made = {},
           pc'[o] \notin {"wait", "answer"}
    PROVE  CountInv(o)'
BY FS_EmptySet DEF CountInv

\* Whatever else happens to an order, it ends it or leaves what it counts.
LEMMA ElseWaits ==
    ASSUME TypeOK, [Next]_vars, NEW o \in Orders, ~Step(o), ~Start(o)
    PROVE  \/ pc[o] # "idle" /\ pc'[o] = "failed" /\ job'[o] = Blank
           \/ /\ pc'[o] = pc[o] /\ job'[o].todo = job[o].todo /\ job'[o].made = job[o].made
              /\ job'[o].left = job[o].left /\ job'[o].at = job[o].at
<1>0. job \in [Orders -> Jobs] /\ job[o] \in Jobs
  BY DEF TypeOK
<1>1. CASE Kill(o)
  BY <1>1, ReturnEffect DEF Kill, Over
<1>2. CASE Validate(o)
  BY <1>0, <1>2 DEF Validate, Jobs
<1>3. ASSUME NEW p \in Orders, p # o, Step(p) \/ Validate(p) \/ Kill(p) \/ Start(p)
      PROVE  pc'[o] = pc[o] /\ job'[o] = job[o]
  <2>1. Only(p)
    BY <1>3, AfterTheAccount, StartEffect, AccountKeyEffect, RegisterEffect,
       KeepUriEffect DEF Step
  <2> QED
    BY <1>3, <2>1 DEF Only
<1>4. CASE Sweep
  <2>1. PICK r \in zone : IF pc[r.order] \in Solving
                          THEN job' = [job EXCEPT ![r.order].swept = TRUE] ELSE UNCHANGED job
    BY <1>4 DEF Sweep
  <2>2. r.order \in Orders
    BY DEF TypeOK, Records
  <2> QED
    BY <1>0, <1>4, <2>1, <2>2 DEF Sweep, Jobs
<1>5. CASE Move \/ (\E s \in Servers : Propagate(s)) \/ UNCHANGED vars
  BY <1>5 DEF Move, Propagate, vars
<1> QED
  BY <1>1, <1>2, <1>3, <1>4, <1>5 DEF Next

\* What a step of the system may do to the steps that are left to an order
Shortens(o) ==
    /\ pc[o] = "idle" => CallsLeft(o)' \in {0, Whole(o) + 6}
    /\ pc[o] # "idle" => CallsLeft(o)' <= CallsLeft(o)
    /\ Step(o) => CallsLeft(o)' < CallsLeft(o)

LEMMA CountStep ==
    ASSUME Bounded, TypeOK, TypeOK', [Next]_vars, NEW o \in Orders, CountInv(o)
    PROVE  CountInv(o)' /\ (CallsLeft(o)' \in Nat => Shortens(o))
<1>0. PerName' = PerName /\ Whole(o)' = Whole(o)
  BY DEF PerName, Whole
<1>1. CallsLeft(o) \in Nat
  BY CallsLeftType
<1>2. CASE Step(o)
  <2>1. CountInv(o)' /\ CallsLeft(o)' < CallsLeft(o)
    BY <1>2, CallShortens
  <2>2. pc[o] # "idle"
    BY <1>2 DEF Step, AccountKey, Register, KeepUri, NewOrder, GiveUp, CreateRecord, Poll,
       Answer, Finalize, Fail, Cleanup, Solving
  <2> QED
    BY <1>1, <1>2, <2>1, <2>2 DEF Shortens
<1>3. CASE ~Step(o) /\ ~Start(o)
  <2>1. CASE pc[o] # "idle" /\ pc'[o] = "failed" /\ job'[o] = Blank
    <3>1. CountInv(o)'
      BY <2>1, BlankCounts DEF Blank
    <3> QED
      BY <1>1, <1>3, <2>1, <3>1 DEF Shortens, CallsLeft
  <2>2. CASE /\ pc'[o] = pc[o] /\ job'[o].todo = job[o].todo /\ job'[o].made = job[o].made
             /\ job'[o].left = job[o].left /\ job'[o].at = job[o].at
    <3>1. CountInv(o)'
      BY <2>2 DEF CountInv
    <3>2. CallsLeft(o)' = CallsLeft(o)
      BY <1>0, <2>2 DEF CallsLeft, Rest
    <3>3. pc[o] = "idle" => CallsLeft(o) = 0
      BY DEF CallsLeft
    <3> QED
      BY <1>1, <1>3, <3>1, <3>2, <3>3 DEF Shortens
  <2> QED
    BY <1>3, <2>1, <2>2, ElseWaits
<1>4. CASE Start(o)
  <2>1. pc[o] = "idle" /\ pc'[o] = "key"
    BY <1>4, StartEffect DEF Start
  <2>2. job'[o] = [Blank EXCEPT !.dir = dir, !.key = key, !.uri = uri]
    BY <1>4 DEF Start, TypeOK
  <2>3. CountInv(o)'
    BY <2>1, <2>2, BlankCounts DEF Blank
  <2>4. CallsLeft(o)' = Whole(o) + 6
    BY <1>0, <2>1 DEF CallsLeft
  <2>5. ~Step(o)
    BY <2>1 DEF Step, AccountKey, Register, KeepUri, NewOrder, GiveUp, CreateRecord, Poll,
       Answer, Finalize, Fail, Cleanup, Solving
  <2> QED
    BY <2>1, <2>3, <2>4, <2>5 DEF Shortens
<1> QED
  BY <1>2, <1>3, <1>4

(***************************************************************************)
(* An order of n names in a zone of s nameservers takes at most n(s+3)+6   *)
(* steps once it is begun: each of its own steps brings it nearer its end, *)
(* and nothing that other orders, the CA, the nameservers, a sweep or an   *)
(* edit of the profile do sets it back.  What OrdersEnd needs besides is   *)
(* that every call returns.                                                *)
(***************************************************************************)
THEOREM OrderTakesSoManyCalls ==
    ASSUME Bounded
    PROVE  Spec => /\ [](\A o \in Orders : CallsLeft(o) \in Nat)
                   /\ [][\A o \in Orders : Shortens(o)]_vars
<1> DEFINE Counted == TypeOK /\ \A o \in Orders : CountInv(o)
           Known == \A o \in Orders : CallsLeft(o) \in Nat
           Shorter == \A o \in Orders : Shortens(o)
<1>1. Init => Counted
  <2> SUFFICES ASSUME Init PROVE Counted
    OBVIOUS
  <2>1. TypeOK /\ \A o \in Orders : pc[o] = "idle" /\ job[o] = Blank
    BY InitType DEF TypeInv, Init
  <2> QED
    BY <2>1, FS_EmptySet DEF CountInv, Blank
<1>2. Counted /\ TypeOK' /\ [Next]_vars => Counted'
  BY CountStep
<1>3. Counted => Known
  BY CallsLeftType
<1>4. Counted /\ TypeOK' /\ Known' /\ [Next]_vars => [Shorter]_vars
  BY CountStep
<1>5. TypeInv => TypeOK
  BY DEF TypeInv
<1> HIDE DEF Counted, Known, Shorter
<1>6. Spec => []Known /\ [][Shorter]_vars
  BY <1>1, <1>2, <1>3, <1>4, <1>5, InitType, StepType, PTL DEF Spec
<1> QED
  BY <1>6 DEF Known, Shorter

====
