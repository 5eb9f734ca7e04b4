---------------------------- MODULE AccessProofs ----------------------------
(***************************************************************************)
(* Theorems about Access, for any requests, people, browsers and roles,    *)
(* any bootstrap list and default role, any bounds and any stored state.   *)
(***************************************************************************)
EXTENDS Access, TLAPS

\* What the fields of a request in progress hold
Kind(w) ==
    /\ w.op \in {"set_grant", "drop_grant"} => w.id \in Ids /\ w.name \in People
    /\ w.op = "seen" => w.id \in Ids /\ w.writes = Untouched
    /\ w.op = "new_grant" => w.name \in People /\ w.asks \in Grants
    /\ w.op \in {"callback", "refresh", "store", "use"} => w.name \in People /\ w.access = w.name
    /\ w.op \in {"callback", "logout"} => w.name \in People /\ w.browser \in Browsers
    /\ w.op = "store" => w.renewable

\* A request that is to change or remove a grant holds the row of its person.
Held(w) ==
    w.op \in {"set_grant", "drop_grant"} /\ operator[w.id] # NoRow => operator[w.id].name = w.name

\* If no other decision overlaps with it, the row is as it was read.
Current(w) ==
    /\ w.op \in {"set_grant", "drop_grant"} => operator[w.id] # NoRow
    /\ w.op = "set_grant" => Amended(operator[w.id], w.writes) = Amended(operator[w.id], w.asks)

Alone(r) ==
    work[r].op \in Deciding =>
        \A q \in Requests \ {r} :
            work[q].op \in Deciding /\ work[q].name = work[r].name => work[r].name \in overlapping

\* If a sign-out is under way, it has the row of the token.
Forgettable(p) ==
    \/ Named(token, p) = {}
    \/ \E r \in Requests : /\ work[r].op = "logout" /\ work[r].name = p
                           /\ Named(token, p) \subseteq {work[r].id}

Kinds == \A r \in Requests : Kind(work[r])

GrantInv ==
    /\ \A r \in Requests : Alone(r)
    /\ reissued \/ \A r \in Requests : /\ Held(work[r])
                                       /\ work[r].name \notin overlapping => Current(work[r])
    /\ GrantsAsDecided

TokenInv == \A p \in signedOut : ~Refreshing(p) /\ Forgettable(p)

IInv == TypeOK /\ Kinds /\ GrantInv /\ TokenInv

-----------------------------------------------------------------------------
(* What is on record for a person                                          *)

\* Recorded, of any table
Rec(t, p) ==
    IF Named(t, p) = {} THEN None
    ELSE LET g == t[CHOOSE i \in Named(t, p) : TRUE] IN [role |-> g.role, enabled |-> g.enabled]

LEMMA RecRow ==
    ASSUME NEW t, Unique(t), NEW i \in Ids, t[i] # NoRow
    PROVE  Rec(t, t[i].name) = [role |-> t[i].role, enabled |-> t[i].enabled]
<1>1. i \in Named(t, t[i].name)
  BY DEF Named, Rows
<1>2. (CHOOSE j \in Named(t, t[i].name) : TRUE) \in Named(t, t[i].name)
  BY <1>1
<1>3. (CHOOSE j \in Named(t, t[i].name) : TRUE) = i
  BY <1>1, <1>2 DEF Named, Unique
<1> QED
  BY <1>1, <1>3 DEF Rec

LEMMA RecNone ==
    ASSUME NEW t, NEW p, \A i \in Ids : t[i] # NoRow => t[i].name # p
    PROVE  Rec(t, p) = None
BY DEF Rec, Named, Rows

\* What is on record for p depends on the rows with the name p.
LEMMA RecSame ==
    ASSUME NEW t, NEW u, Unique(t), Unique(u), NEW p,
           \A i \in Ids : t[i] # NoRow /\ t[i].name = p =>
              u[i] # NoRow /\ u[i].name = p /\ u[i].role = t[i].role /\ u[i].enabled = t[i].enabled,
           \A i \in Ids : u[i] # NoRow /\ u[i].name = p => t[i] # NoRow /\ t[i].name = p
    PROVE  Rec(t, p) = Rec(u, p)
<1>1. CASE \E i \in Ids : t[i] # NoRow /\ t[i].name = p
  <2>1. PICK i \in Ids : t[i] # NoRow /\ t[i].name = p
    BY <1>1
  <2>2. Rec(t, p) = [role |-> t[i].role, enabled |-> t[i].enabled]
    BY <2>1, RecRow
  <2>3. u[i] # NoRow /\ u[i].name = p /\ u[i].role = t[i].role /\ u[i].enabled = t[i].enabled
    BY <2>1
  <2>4. Rec(u, p) = [role |-> u[i].role, enabled |-> u[i].enabled]
    BY <2>3, RecRow
  <2> QED
    BY <2>2, <2>3, <2>4
<1>2. CASE \A i \in Ids : t[i] # NoRow => t[i].name # p
  <2>1. \A i \in Ids : u[i] # NoRow => u[i].name # p
    BY <1>2
  <2> QED
    BY <1>2, <2>1, RecNone
<1> QED
  BY <1>1, <1>2

LEMMA RecordedRec ==
    /\ \A p : Recorded(p) = Rec(operator, p)
    /\ \A p : Recorded(p)' = Rec(operator', p)
BY DEF Recorded, Rec, Named, Rows

LEMMA RecType ==
    ASSUME NEW t \in [Ids -> OperatorRows \cup {NoRow}], Unique(t), NEW p
    PROVE  Rec(t, p) \in Grants \cup {None}
<1>1. CASE \E i \in Ids : t[i] # NoRow /\ t[i].name = p
  <2>1. PICK i \in Ids : t[i] # NoRow /\ t[i].name = p
    BY <1>1
  <2>2. t[i] \in OperatorRows
    BY <2>1
  <2> QED
    <3>1. Rec(t, p) = [role |-> t[i].role, enabled |-> t[i].enabled]
      BY <2>1, RecRow
    <3>2. [role |-> t[i].role, enabled |-> t[i].enabled] \in Grants
      BY <2>2 DEF OperatorRows, Grants
    <3> QED
      BY <3>1, <3>2
<1>2. CASE \A i \in Ids : t[i] # NoRow => t[i].name # p
  BY <1>2, RecNone
<1> QED
  BY <1>1, <1>2

LEMMA AmendedRow ==
    /\ \A g \in OperatorRows, c \in Columns :
          LET h == Amended(g, c)
          IN  /\ h \in OperatorRows /\ h.name = g.name
              /\ h.role = Written(c.role, g.role) /\ h.enabled = Written(c.enabled, g.enabled)
    /\ \A g \in Grants, c \in Columns :
          LET h == Amended(g, c)
          IN  /\ h \in Grants
              /\ h.role = Written(c.role, g.role) /\ h.enabled = Written(c.enabled, g.enabled)
    /\ Untouched \in Columns
    /\ \A g \in OperatorRows : Amended(g, Untouched) = g
<1>1. ASSUME NEW g \in OperatorRows, NEW c \in Columns
      PROVE  LET h == Amended(g, c)
             IN  /\ h \in OperatorRows /\ h.name = g.name
                 /\ h.role = Written(c.role, g.role) /\ h.enabled = Written(c.enabled, g.enabled)
  <2>1. Written(c.role, g.role) \in Roles /\ Written(c.enabled, g.enabled) \in BOOLEAN
    BY DEF Columns, OperatorRows, Written
  <2> QED
    BY <2>1 DEF Amended, OperatorRows
<1>2. ASSUME NEW g \in Grants, NEW c \in Columns
      PROVE  LET h == Amended(g, c)
             IN  /\ h \in Grants
                 /\ h.role = Written(c.role, g.role) /\ h.enabled = Written(c.enabled, g.enabled)
  <2>1. Written(c.role, g.role) \in Roles /\ Written(c.enabled, g.enabled) \in BOOLEAN
    BY DEF Columns, Grants, Written
  <2> QED
    BY <2>1 DEF Amended, Grants
<1>3. Untouched \in Columns
  BY DEF Untouched, Columns
<1>4. \A g \in OperatorRows : Amended(g, Untouched) = g
  BY DEF Amended, Untouched, Written, OperatorRows
<1> QED
  BY <1>1, <1>2, <1>3, <1>4

LEMMA Rest ==
    /\ Idle \in Works /\ Idle.op = "idle" /\ Kind(Idle)
    /\ \A o \in {"refresh", "store", "use", "logout", "callback", "seen", "idle"} : o \notin Deciding
<1>1. Idle \in Works
  BY DEF Idle, Works, Ops, Columns, Untouched, Ids
<1>2. Idle.op = "idle"
  BY DEF Idle
<1> QED
  BY <1>1, <1>2 DEF Deciding, Kind

-----------------------------------------------------------------------------
(* Steps that leave the operators or the tokens alone                      *)

LEMMA WorkSet ==
    ASSUME TypeOK, Kinds, NEW r \in Requests, NEW w \in Works, Kind(w),
           work' = [work EXCEPT ![r] = w]
    PROVE  /\ work' \in [Requests -> Works] /\ work'[r] = w
           /\ \A q \in Requests \ {r} : work'[q] = work[q]
           /\ Kinds'
<1>1. /\ work' \in [Requests -> Works] /\ work'[r] = w
      /\ \A q \in Requests \ {r} : work'[q] = work[q]
  BY DEF TypeOK
<1>2. Kinds'
  <2> SUFFICES ASSUME NEW q \in Requests PROVE Kind(work'[q])
    BY DEF Kinds, Kind
  <2> QED
    BY <1>1 DEF Kinds
<1> QED
  BY <1>1, <1>2

LEMMA AloneStays ==
    ASSUME IInv, NEW r \in Requests, NEW w \in Works, w.op \notin Deciding,
           work' = [work EXCEPT ![r] = w], overlapping \subseteq overlapping'
    PROVE  \A q \in Requests : Alone(q)'
<1>1. work'[r] = w /\ \A q \in Requests \ {r} : work'[q] = work[q]
  BY DEF IInv, TypeOK
<1> SUFFICES ASSUME NEW q \in Requests, NEW s \in Requests \ {q},
                    work'[q].op \in Deciding, work'[s].op \in Deciding,
                    work'[s].name = work'[q].name
             PROVE  work'[q].name \in overlapping'
  BY DEF Alone
<1>2. q # r /\ s # r
  BY <1>1
<1> QED
  BY <1>1, <1>2 DEF IInv, GrantInv, Alone

\* A step that does not change the operators, nor makes a decision
LEMMA GrantsStay ==
    ASSUME IInv, NEW r \in Requests, NEW w \in Works, w.op \notin Deciding,
           work' = [work EXCEPT ![r] = w], overlapping \subseteq overlapping',
           UNCHANGED <<operator, decided, reissued>>
    PROVE  GrantInv'
<1>1. work'[r] = w /\ \A q \in Requests \ {r} : work'[q] = work[q]
  BY DEF IInv, TypeOK
<1>2. \A q \in Requests : Alone(q)'
  BY AloneStays
<1>3. \A q \in Requests : Held(work[q]) => Held(work[q])'
  <2> SUFFICES ASSUME NEW q \in Requests, Held(work[q]) PROVE Held(work[q])'
    OBVIOUS
  <2>1. CASE q = r
    BY <1>1, <2>1 DEF Held, Deciding
  <2>2. CASE q # r
    BY <1>1, <2>2 DEF Held
  <2> QED
    BY <2>1, <2>2
<1>4. \A q \in Requests : (work[q].name \notin overlapping => Current(work[q]))
                             => (work[q].name \notin overlapping => Current(work[q]))'
  <2> SUFFICES ASSUME NEW q \in Requests,
                      work[q].name \notin overlapping => Current(work[q]),
                      work'[q].name \notin overlapping'
               PROVE  Current(work[q])'
    OBVIOUS
  <2>1. CASE q = r
    BY <1>1, <2>1 DEF Current, Deciding
  <2>2. CASE q # r
    BY <1>1, <2>2 DEF Current
  <2> QED
    BY <2>1, <2>2
<1>5. GrantsAsDecided'
  BY RecordedRec DEF IInv, GrantInv, GrantsAsDecided
<1> QED
  BY <1>2, <1>3, <1>4, <1>5 DEF IInv, GrantInv

\* A step that gives no token to one who is to stay signed out, nor begins a
\* refresh or ends a sign-out for them
LEMMA TokensMove ==
    ASSUME IInv, NEW r \in Requests, NEW w \in Works,
           work' = [work EXCEPT ![r] = w], signedOut' \subseteq signedOut,
           \A p \in signedOut' : Named(token', p) \subseteq Named(token, p),
           w.op \in {"refresh", "store"} => w.name \notin signedOut',
           work[r].op = "logout" => work[r].name \notin signedOut'
    PROVE  TokenInv'
<1>1. work'[r] = w /\ \A q \in Requests \ {r} : work'[q] = work[q]
  BY DEF IInv, TypeOK
<1> SUFFICES ASSUME NEW p \in signedOut' PROVE ~Refreshing(p)' /\ Forgettable(p)'
  BY DEF TokenInv
<1>2. p \in signedOut /\ ~Refreshing(p) /\ Forgettable(p)
  BY DEF IInv, TokenInv
<1>3. ~Refreshing(p)'
  <2> SUFFICES ASSUME NEW q \in Requests, work'[q].op \in {"refresh", "store"},
                      work'[q].name = p
               PROVE  FALSE
    BY DEF Refreshing
  <2>1. q # r
    BY <1>1
  <2> QED
    BY <1>1, <1>2, <2>1 DEF Refreshing
<1>4. Named(token, p)' = Named(token', p)
  BY DEF Named, Rows
<1>5. Forgettable(p)'
  <2>1. CASE Named(token, p) = {}
    BY <1>4, <2>1 DEF Forgettable
  <2>2. CASE Named(token, p) # {}
    <3>1. PICK s \in Requests : /\ work[s].op = "logout" /\ work[s].name = p
                                /\ Named(token, p) \subseteq {work[s].id}
      BY <1>2, <2>2 DEF Forgettable
    <3>2. work'[s] = work[s]
      BY <1>1, <3>1
    <3>3. Named(token', p) \subseteq {work[s].id}
      BY <3>1
    <3> QED
      BY <1>4, <3>1, <3>2, <3>3 DEF Forgettable
  <2> QED
    BY <2>1, <2>2
<1> QED
  BY <1>3, <1>5

LEMMA TokensStay ==
    ASSUME IInv, NEW r \in Requests, NEW w \in Works, UNCHANGED token,
           work' = [work EXCEPT ![r] = w], signedOut' \subseteq signedOut,
           w.op \in {"refresh", "store"} => w.name \notin signedOut',
           work[r].op = "logout" => work[r].name \notin signedOut'
    PROVE  TokenInv'
<1>1. \A p \in signedOut' : Named(token', p) \subseteq Named(token, p)
  BY DEF Named, Rows
<1> QED
  BY <1>1, TokensMove

LEMMA BeginType ==
    ASSUME IInv, NEW r \in Requests, NEW w \in Works, Begin(r, w),
           overlapping' \subseteq People, signedOut' \subseteq People
    PROVE  TypeOK'
<1>1. /\ UNCHANGED <<operator, token, cookie, decided, reissued>>
      /\ served < MaxServed /\ served' = served + 1 /\ work' = [work EXCEPT ![r] = w]
  BY DEF Begin, tables
<1>2. served' \in 0..MaxServed /\ work' \in [Requests -> Works]
  BY <1>1, AccessAssumption DEF IInv, TypeOK
<1> QED
  BY <1>1, <1>2 DEF IInv, TypeOK, Unique, Rows

-----------------------------------------------------------------------------
(* Decisions                                                               *)

LEMMA DecideKeeps ==
    ASSUME IInv, NEW r \in Requests, NEW n \in People, NEW w \in Works, Kind(w),
           w.op \in Deciding, w.name = n, Held(w), Current(w), Decide(r, n, w)
    PROVE  IInv'
<1>1. /\ UNCHANGED <<operator, token, cookie, decided, reissued, signedOut>>
      /\ Begin(r, w) /\ work' = [work EXCEPT ![r] = w] /\ work[r].op = "idle"
      /\ overlapping' = overlapping \cup
            {p \in {n} : \E q \in Requests : work[q].op \in Deciding /\ work[q].name = p}
  BY DEF Decide, Begin, tables
<1>2. /\ work' \in [Requests -> Works] /\ work'[r] = w
      /\ \A q \in Requests \ {r} : work'[q] = work[q]
      /\ Kinds'
  BY <1>1, WorkSet DEF IInv
<1>3. TypeOK'
  BY <1>1, BeginType DEF IInv, TypeOK
<1>4. \A q \in Requests : Alone(q)'
  <2> SUFFICES ASSUME NEW q \in Requests, NEW s \in Requests \ {q},
                      work'[q].op \in Deciding, work'[s].op \in Deciding,
                      work'[s].name = work'[q].name
               PROVE  work'[q].name \in overlapping'
    BY DEF Alone
  <2>1. CASE q = r
    BY <1>1, <1>2, <2>1
  <2>2. CASE s = r
    BY <1>1, <1>2, <2>2
  <2>3. CASE q # r /\ s # r
    BY <1>1, <1>2, <2>3 DEF IInv, GrantInv, Alone
  <2> QED
    BY <2>1, <2>2, <2>3
<1>5. ASSUME ~reissued, NEW q \in Requests
      PROVE  /\ Held(work[q])'
             /\ (work[q].name \notin overlapping => Current(work[q]))'
  <2>1. CASE q = r
    BY <1>1, <1>2, <2>1 DEF Held, Current
  <2>2. CASE q # r
    <3>1. Held(work[q]) /\ (work[q].name \notin overlapping => Current(work[q]))
      BY <1>5 DEF IInv, GrantInv
    <3> QED
      BY <1>1, <1>2, <2>2, <3>1 DEF Held, Current
  <2> QED
    BY <2>1, <2>2
<1>6. GrantsAsDecided'
  BY <1>1, RecordedRec DEF IInv, GrantInv, GrantsAsDecided
<1>7. TokenInv'
  <2>1. w.op \notin {"refresh", "store"}
    BY DEF Deciding
  <2> QED
    BY <1>1, <2>1, TokensStay
<1> QED
  BY <1>1, <1>2, <1>3, <1>4, <1>5, <1>6, <1>7 DEF IInv, GrantInv

LEMMA ChangeFacts ==
    ASSUME IInv, NEW i \in Rows(operator), NEW role \in Roles \cup {Keep},
           NEW enabled \in BOOLEAN \cup {Keep}
    PROVE  LET w == Change(i, role, enabled)
           IN  /\ w \in Works /\ Kind(w) /\ w.op \in Deciding /\ w.name = operator[i].name
               /\ w.name \in People /\ Held(w) /\ Current(w)
<1> DEFINE w == Change(i, role, enabled)
           g == operator[i]
           asks == [role |-> role, enabled |-> enabled]
           writes == [role |-> Assigned(role, g.role), enabled |-> Assigned(enabled, g.enabled)]
<1>1. i \in Ids /\ g \in OperatorRows /\ g # NoRow
  BY DEF Rows, IInv, TypeOK
<1>2. asks \in Columns /\ writes \in Columns
  BY DEF Columns, Assigned
<1>3. w = [Idle EXCEPT !.op = "set_grant", !.id = i, !.name = g.name, !.asks = asks,
                      !.writes = writes]
  BY DEF Change
<1>4. g.name \in People
  BY <1>1 DEF OperatorRows
<1>5. Amended(g, writes) = Amended(g, asks)
  <2>1. /\ Written(writes.role, g.role) = Written(asks.role, g.role)
        /\ Written(writes.enabled, g.enabled) = Written(asks.enabled, g.enabled)
    BY DEF Written, Assigned
  <2> QED
    BY <2>1 DEF Amended
<1> HIDE DEF asks, writes
<1>6. w \in Works /\ w.op = "set_grant" /\ w.id = i /\ w.name = g.name
      /\ w.asks = asks /\ w.writes = writes
  BY <1>1, <1>2, <1>3, <1>4 DEF Idle, Works, Ops, Untouched
<1> HIDE DEF w
<1>7. Kind(w) /\ Held(w) /\ Current(w) /\ w.op \in Deciding
  BY <1>1, <1>4, <1>5, <1>6 DEF Kind, Held, Current, Deciding
<1> QED
  BY <1>4, <1>6, <1>7 DEF w

LEMMA DecidersKeep ==
    ASSUME IInv, NEW r \in Requests, Deciders(r)
    PROVE  IInv'
<1>1. ASSUME NEW i \in Rows(operator), NEW role \in Roles \cup {Keep},
             NEW enabled \in BOOLEAN \cup {Keep},
             Decide(r, operator[i].name, Change(i, role, enabled))
      PROVE  IInv'
  BY <1>1, ChangeFacts, DecideKeeps
<1>2. ASSUME NEW n \in People, NEW role \in Roles, Decide(r, n, New(n, role)) PROVE IInv'
  <2> DEFINE w == New(n, role)
  <2>1. w \in Works /\ w.op = "new_grant" /\ w.name = n
        /\ w.asks = [role |-> role, enabled |-> TRUE]
    BY DEF New, Idle, Works, Ops, Columns, Untouched, Ids
  <2> HIDE DEF w
  <2>2. w.asks \in Grants
    BY <2>1 DEF Grants
  <2>3. Kind(w) /\ Held(w) /\ Current(w) /\ w.op \in Deciding
    BY <2>1, <2>2 DEF Kind, Held, Current, Deciding
  <2> QED
    BY <1>2, <2>1, <2>3, DecideKeeps DEF w
<1>3. ASSUME NEW i \in Rows(operator),
             Decide(r, operator[i].name,
                    [Idle EXCEPT !.op = "drop_grant", !.id = i, !.name = operator[i].name])
      PROVE  IInv'
  <2> DEFINE w == [Idle EXCEPT !.op = "drop_grant", !.id = i, !.name = operator[i].name]
  <2>1. i \in Ids /\ operator[i] # NoRow /\ operator[i].name \in People
    BY DEF Rows, IInv, TypeOK, OperatorRows
  <2>2. w \in Works /\ w.op = "drop_grant" /\ w.id = i /\ w.name = operator[i].name
    BY <2>1 DEF Idle, Works, Ops, Columns, Untouched
  <2> HIDE DEF w
  <2>3. Kind(w) /\ Held(w) /\ Current(w) /\ w.op \in Deciding
    BY <2>1, <2>2 DEF Kind, Held, Current, Deciding
  <2> QED
    BY <1>3, <2>1, <2>2, <2>3, DecideKeeps DEF w
<1>4. CASE Grant(r)
  <2>1. PICK n \in People, role \in Roles :
           \/ Named(operator, n) = {} /\ Decide(r, n, New(n, role))
           \/ \E i \in Named(operator, n) : Decide(r, n, Change(i, role, TRUE))
    BY <1>4 DEF Grant
  <2>2. ASSUME NEW i \in Named(operator, n), Decide(r, n, Change(i, role, TRUE)) PROVE IInv'
    <3>1. i \in Rows(operator) /\ operator[i].name = n
      BY DEF Named
    <3> QED
      BY <1>1, <2>2, <3>1
  <2> QED
    BY <1>2, <2>1, <2>2
<1>5. CASE UpdateGrant(r)
  BY <1>1, <1>5 DEF UpdateGrant
<1>6. CASE DisableGrant(r)
  BY <1>1, <1>6 DEF DisableGrant
<1>7. CASE DeleteGrant(r)
  BY <1>3, <1>7 DEF DeleteGrant
<1> QED
  BY <1>4, <1>5, <1>6, <1>7 DEF Deciders

\* A decision is written, and only the row of its person changes, or one that
\* nobody holds.
LEMMA DecisionWritten ==
    ASSUME IInv, NEW r \in Requests, Finish(r), work[r].op \in Deciding,
           UNCHANGED <<token, cookie, served, overlapping, signedOut>>,
           operator' \in [Ids -> OperatorRows \cup {NoRow}], Unique(operator)',
           decided' \in [People -> Grants \cup {None}], reissued' \in BOOLEAN,
           reissued => reissued',
           \A j \in Ids :
              \/ operator'[j] = operator[j]
              \/ reissued'
              \/ \A q \in Requests \ {r} :
                    ~(work[q].op \in {"set_grant", "drop_grant"} /\ work[q].id = j)
              \/ /\ operator[j] # NoRow /\ operator[j].name = work[r].name
                 /\ operator'[j] = NoRow \/ operator'[j].name = operator[j].name,
           GrantsAsDecided'
    PROVE  IInv'
<1>1. /\ work' = [work EXCEPT ![r] = Idle]
      /\ work' \in [Requests -> Works] /\ work'[r] = Idle
      /\ \A q \in Requests \ {r} : work'[q] = work[q]
      /\ Kinds'
  BY Rest, WorkSet DEF IInv, Finish
<1>2. TypeOK'
  BY <1>1 DEF IInv, TypeOK, Unique, Rows
<1>3. \A q \in Requests : Alone(q)'
  <2>1. Idle.op \notin Deciding /\ Idle \in Works
    BY Rest
  <2> HIDE DEF Idle
  <2> QED
    BY <1>1, <2>1, AloneStays
<1>4. ASSUME ~reissued', NEW q \in Requests
      PROVE  /\ Held(work[q])'
             /\ (work[q].name \notin overlapping => Current(work[q]))'
  <2>1. CASE q = r
    BY <1>1, <2>1, Rest DEF Held, Current
  <2>2. CASE q # r
    <3> DEFINE j == work[q].id
    <3>1. /\ work'[q] = work[q] /\ Held(work[q]) /\ Kind(work[q])
          /\ work[q].name \notin overlapping => Current(work[q])
      BY <1>1, <1>4, <2>2 DEF IInv, GrantInv, Kinds
    <3>2. CASE work[q].op \notin {"set_grant", "drop_grant"}
      BY <3>1, <3>2 DEF Held, Current
    <3>3. CASE work[q].op \in {"set_grant", "drop_grant"}
      <4>1. j \in Ids /\ work[q].op \in Deciding
        BY <3>1, <3>3 DEF Kind, Deciding
      <4>2. CASE operator'[j] = operator[j]
        BY <3>1, <4>2 DEF Held, Current
      <4>3. CASE /\ operator[j] # NoRow /\ operator[j].name = work[r].name
                 /\ operator'[j] = NoRow \/ operator'[j].name = operator[j].name
        <5>1. work[q].name = work[r].name
          BY <3>1, <3>3, <4>3 DEF Held
        <5>2. work[q].name \in overlapping
          BY <2>2, <4>1, <5>1 DEF IInv, GrantInv, Alone
        <5> QED
          BY <3>1, <3>3, <4>3, <5>2 DEF Held
      <4> QED
        BY <1>4, <2>2, <3>3, <4>1, <4>2, <4>3
    <3> QED
      BY <3>2, <3>3
  <2> QED
    BY <2>1, <2>2
<1>5. TokenInv'
  BY <1>1, Rest, TokensStay
<1> QED
  BY <1>1, <1>2, <1>3, <1>4, <1>5 DEF IInv, GrantInv

LEMMA InsertGrantKeeps ==
    ASSUME IInv, NEW r \in Requests, InsertGrant(r)
    PROVE  IInv'
<1> DEFINE n == work[r].name
           asks == work[r].asks
           row == [name |-> n, role |-> asks.role, enabled |-> asks.enabled]
<1>1. PICK i \in Ids :
         /\ Fresh(operator, i)
         /\ operator' = [operator EXCEPT ![i] = row]
         /\ reissued' = (reissued \/ \E q \in Requests :
               work[q].op \in {"set_grant", "drop_grant"} /\ work[q].id = i)
  BY DEF InsertGrant
<1>2. /\ work[r].op = "new_grant" /\ Named(operator, n) = {} /\ Finish(r)
      /\ decided' = [decided EXCEPT ![n] = asks]
      /\ UNCHANGED <<token, cookie, served, overlapping, signedOut>>
  BY DEF InsertGrant
<1>3. n \in People /\ asks \in Grants
  BY <1>2 DEF IInv, Kinds, Kind
<1>4. row \in OperatorRows /\ row # NoRow
  <2>1. row \in OperatorRows
    BY <1>3 DEF OperatorRows, Grants
  <2> QED
    BY <2>1, StoredAssumption
<1>5. row.name = n /\ asks = [role |-> row.role, enabled |-> row.enabled]
  BY <1>3 DEF Grants
<1> HIDE DEF row
<1>6. /\ operator[i] = NoRow /\ operator'[i] = row
      /\ \A k \in Ids \ {i} : operator'[k] = operator[k]
      /\ operator' \in [Ids -> OperatorRows \cup {NoRow}]
  <2>1. operator[i] = NoRow
    BY <1>1, AccessAssumption DEF Fresh, Rows, Ids
  <2> QED
    BY <1>1, <1>4, <2>1 DEF IInv, TypeOK
<1>7. \A k \in Ids : operator[k] # NoRow => operator[k].name # n
  BY <1>2 DEF Named, Rows
<1>8. Unique(operator)'
  BY <1>5, <1>6, <1>7 DEF IInv, TypeOK, Unique, Rows
<1>9. /\ decided' \in [People -> Grants \cup {None}] /\ decided'[n] = asks
      /\ \A p \in People \ {n} : decided'[p] = decided[p]
      /\ reissued' \in BOOLEAN /\ (reissued => reissued')
  BY <1>1, <1>2, <1>3 DEF IInv, TypeOK
<1>10. GrantsAsDecided'
  <2> SUFFICES ASSUME ~reissued', NEW p \in People \ overlapping
               PROVE  Rec(operator', p) = decided'[p]
    BY <1>2, RecordedRec DEF GrantsAsDecided
  <2>1. CASE p = n
    <3>1. Rec(operator', n) = [role |-> row.role, enabled |-> row.enabled]
      BY <1>4, <1>5, <1>6, <1>8, RecRow DEF Unique, Rows
    <3> QED
      BY <1>5, <1>9, <2>1, <3>1
  <2>2. CASE p # n
    <3>1. Rec(operator, p) = Rec(operator', p)
      <4>1. Unique(operator) /\ Unique(operator')
        BY <1>8 DEF IInv, TypeOK, Unique, Rows
      <4> QED
        BY <1>5, <1>6, <2>2, <4>1, RecSame
    <3>2. Rec(operator, p) = decided[p]
      BY <1>9, RecordedRec DEF IInv, GrantInv, GrantsAsDecided
    <3> QED
      BY <1>9, <2>2, <3>1, <3>2
  <2> QED
    BY <2>1, <2>2
<1>11. \A j \in Ids :
          \/ operator'[j] = operator[j]
          \/ reissued'
          \/ \A q \in Requests \ {r} :
                ~(work[q].op \in {"set_grant", "drop_grant"} /\ work[q].id = j)
  BY <1>1, <1>6
<1> QED
  BY <1>2, <1>6, <1>8, <1>9, <1>10, <1>11, DecisionWritten DEF Deciding

LEMMA UpdateGrantKeeps ==
    ASSUME IInv, NEW r \in Requests, UpdateGrantRow(r)
    PROVE  IInv'
<1> DEFINE w == work[r]
           n == w.name
           i == w.id
           g == operator[i]
           row == Amended(g, w.writes)
<1>1. /\ w.op = "set_grant" /\ g # NoRow /\ Finish(r)
      /\ operator' = [operator EXCEPT ![i] = row]
      /\ decided' = [decided EXCEPT ![n] = IF @ = None THEN None ELSE Amended(@, w.asks)]
      /\ UNCHANGED <<token, cookie, served, overlapping, reissued, signedOut>>
  BY DEF UpdateGrantRow
<1>2. /\ n \in People /\ i \in Ids /\ w \in Works /\ w.asks \in Columns /\ w.writes \in Columns
      /\ reissued \/ g.name = n
      /\ reissued \/ n \in overlapping \/ row = Amended(g, w.asks)
  BY <1>1 DEF IInv, TypeOK, Kinds, Kind, GrantInv, Held, Current, Works
<1>3. g \in OperatorRows
  BY <1>1, <1>2 DEF IInv, TypeOK
<1>4. /\ row \in OperatorRows /\ row # NoRow /\ row.name = g.name
      /\ row.role = Written(w.writes.role, g.role)
      /\ row.enabled = Written(w.writes.enabled, g.enabled)
  BY <1>2, <1>3, AmendedRow, StoredAssumption
<1>5. reissued \/ n \in overlapping \/ /\ row.role = Written(w.asks.role, g.role)
                                       /\ row.enabled = Written(w.asks.enabled, g.enabled)
  BY <1>2, <1>3, AmendedRow
<1> HIDE DEF row
<1>6. /\ operator'[i] = row
      /\ \A k \in Ids \ {i} : operator'[k] = operator[k]
      /\ operator' \in [Ids -> OperatorRows \cup {NoRow}]
  BY <1>1, <1>2, <1>4 DEF IInv, TypeOK
<1>7. Unique(operator)'
  BY <1>1, <1>2, <1>4, <1>6 DEF IInv, TypeOK, Unique, Rows
<1>8. /\ decided' \in [People -> Grants \cup {None}]
      /\ decided'[n] = IF decided[n] = None THEN None ELSE Amended(decided[n], w.asks)
      /\ \A p \in People \ {n} : decided'[p] = decided[p]
  <2>1. (IF decided[n] = None THEN None ELSE Amended(decided[n], w.asks)) \in Grants \cup {None}
    BY <1>2, AmendedRow DEF IInv, TypeOK
  <2> QED
    BY <1>1, <1>2, <2>1 DEF IInv, TypeOK
<1>9. GrantsAsDecided'
  <2> SUFFICES ASSUME ~reissued, NEW p \in People \ overlapping
               PROVE  Rec(operator', p) = decided'[p]
    BY <1>1, RecordedRec DEF GrantsAsDecided
  <2>1. Rec(operator, p) = decided[p]
    BY RecordedRec DEF IInv, GrantInv, GrantsAsDecided
  <2>2. CASE p = n
    <3>1. Rec(operator, n) = [role |-> g.role, enabled |-> g.enabled]
      BY <1>1, <1>2, RecRow DEF IInv, TypeOK
    <3>2. Rec(operator', n) = [role |-> row.role, enabled |-> row.enabled]
      BY <1>2, <1>4, <1>6, <1>7, RecRow DEF Unique, Rows
    <3>3. [role |-> g.role, enabled |-> g.enabled] \in Grants
      BY <1>3 DEF OperatorRows, Grants
    <3>4. [role |-> g.role, enabled |-> g.enabled] # None
      BY <3>3, AccessAssumption
    <3>5. Amended([role |-> g.role, enabled |-> g.enabled], w.asks)
             = [role |-> row.role, enabled |-> row.enabled]
      <4>1. row.role = Written(w.asks.role, g.role) /\ row.enabled = Written(w.asks.enabled, g.enabled)
        BY <1>5, <2>2
      <4> DEFINE f == [role |-> g.role, enabled |-> g.enabled]
                 h == Amended(f, w.asks)
      <4>2. f.role = g.role /\ f.enabled = g.enabled
        OBVIOUS
      <4> HIDE DEF f
      <4>3. h \in Grants /\ h.role = row.role /\ h.enabled = row.enabled
        BY <1>2, <3>3, <4>1, <4>2, AmendedRow DEF f
      <4>4. h = [role |-> h.role, enabled |-> h.enabled]
        BY <4>3 DEF Grants
      <4> QED
        BY <4>3, <4>4 DEF f
    <3> QED
      BY <1>8, <2>1, <2>2, <3>1, <3>2, <3>4, <3>5
  <2>3. CASE p # n
    <3>1. Rec(operator, p) = Rec(operator', p)
      <4>1. Unique(operator) /\ Unique(operator')
        BY <1>7 DEF IInv, TypeOK, Unique, Rows
      <4>2. g.name = n
        BY <1>2
      <4>3. row.name = n
        BY <1>4, <4>2
      <4>4. \A k \in Ids : operator[k] # NoRow /\ operator[k].name = p => k # i
        BY <2>3, <4>2
      <4>5. \A k \in Ids : operator'[k] # NoRow /\ operator'[k].name = p => k # i
        BY <1>6, <2>3, <4>3
      <4>6. \A k \in Ids : operator[k] # NoRow /\ operator[k].name = p =>
               operator'[k] # NoRow /\ operator'[k].name = p
               /\ operator'[k].role = operator[k].role /\ operator'[k].enabled = operator[k].enabled
        BY <1>6, <4>4
      <4>7. \A k \in Ids : operator'[k] # NoRow /\ operator'[k].name = p =>
               operator[k] # NoRow /\ operator[k].name = p
        BY <1>6, <4>5
      <4> QED
        BY <4>1, <4>6, <4>7, RecSame
    <3> QED
      BY <1>8, <2>1, <2>3, <3>1
  <2> QED
    BY <2>2, <2>3
<1>10. \A j \in Ids :
          \/ operator'[j] = operator[j]
          \/ reissued'
          \/ /\ operator[j] # NoRow /\ operator[j].name = n
             /\ operator'[j] = NoRow \/ operator'[j].name = operator[j].name
  BY <1>1, <1>2, <1>4, <1>6
<1>11. reissued' \in BOOLEAN /\ (reissued => reissued')
  BY <1>1 DEF IInv, TypeOK
<1> QED
  BY <1>1, <1>6, <1>7, <1>8, <1>9, <1>10, <1>11, DecisionWritten DEF Deciding

LEMMA RemoveGrantKeeps ==
    ASSUME IInv, NEW r \in Requests, RemoveGrant(r)
    PROVE  IInv'
<1> DEFINE w == work[r]
           n == w.name
           i == w.id
<1>1. /\ w.op = "drop_grant" /\ Finish(r)
      /\ operator' = [operator EXCEPT ![i] = NoRow]
      /\ decided' = [decided EXCEPT ![n] = None]
      /\ UNCHANGED <<token, cookie, served, overlapping, reissued, signedOut>>
  BY DEF RemoveGrant
<1>2. /\ n \in People /\ i \in Ids
      /\ reissued \/ operator[i] = NoRow \/ operator[i].name = n
      /\ reissued \/ n \in overlapping \/ operator[i] # NoRow
  BY <1>1 DEF IInv, Kinds, Kind, GrantInv, Held, Current
<1>3. /\ operator'[i] = NoRow
      /\ \A k \in Ids \ {i} : operator'[k] = operator[k]
      /\ operator' \in [Ids -> OperatorRows \cup {NoRow}]
  BY <1>1, <1>2 DEF IInv, TypeOK
<1>4. Unique(operator) /\ Unique(operator') /\ Unique(operator)'
  BY <1>3 DEF IInv, TypeOK, Unique, Rows
<1>5. /\ decided' \in [People -> Grants \cup {None}] /\ decided'[n] = None
      /\ \A p \in People \ {n} : decided'[p] = decided[p]
      /\ reissued' \in BOOLEAN /\ (reissued => reissued')
  BY <1>1, <1>2 DEF IInv, TypeOK
<1>6. GrantsAsDecided'
  <2> SUFFICES ASSUME ~reissued, NEW p \in People \ overlapping
               PROVE  Rec(operator', p) = decided'[p]
    BY <1>1, RecordedRec DEF GrantsAsDecided
  <2>1. CASE p = n
    <3>1. operator[i] # NoRow /\ operator[i].name = n
      BY <1>2, <2>1
    <3>2. \A k \in Ids : operator'[k] # NoRow => operator'[k].name # n
      BY <1>2, <1>3, <1>4, <3>1 DEF Unique, Rows
    <3> QED
      BY <1>5, <2>1, <3>2, RecNone
  <2>2. CASE p # n
    <3>1. \A k \in Ids : operator[k] # NoRow /\ operator[k].name = p => k # i
      BY <1>2, <2>2
    <3>2. \A k \in Ids : operator[k] # NoRow /\ operator[k].name = p =>
             operator'[k] # NoRow /\ operator'[k].name = p
             /\ operator'[k].role = operator[k].role /\ operator'[k].enabled = operator[k].enabled
      BY <1>3, <3>1
    <3>3. \A k \in Ids : operator'[k] # NoRow /\ operator'[k].name = p =>
             operator[k] # NoRow /\ operator[k].name = p
      BY <1>3
    <3>4. Rec(operator, p) = Rec(operator', p)
      BY <1>4, <3>2, <3>3, RecSame
    <3>5. Rec(operator, p) = decided[p]
      BY RecordedRec DEF IInv, GrantInv, GrantsAsDecided
    <3> QED
      BY <1>5, <2>2, <3>4, <3>5
  <2> QED
    BY <2>1, <2>2
<1>7. \A j \in Ids :
         \/ operator'[j] = operator[j]
         \/ reissued'
         \/ /\ operator[j] # NoRow /\ operator[j].name = n
            /\ operator'[j] = NoRow \/ operator'[j].name = operator[j].name
  BY <1>1, <1>2, <1>3
<1> QED
  BY <1>1, <1>3, <1>4, <1>5, <1>6, <1>7, DecisionWritten DEF Deciding

-----------------------------------------------------------------------------
(* Visits, sessions and tokens                                             *)

\* A request begins that decides nothing.
LEMMA BeginKeeps ==
    ASSUME IInv, NEW r \in Requests, NEW w \in Works, Kind(w), w.op \notin Deciding,
           Begin(r, w), UNCHANGED overlapping, signedOut' \subseteq signedOut,
           w.op \in {"refresh", "store"} => w.name \notin signedOut'
    PROVE  IInv'
<1>1. /\ UNCHANGED <<operator, token, cookie, decided, reissued>>
      /\ work' = [work EXCEPT ![r] = w] /\ work[r].op = "idle"
  BY DEF Begin, tables
<1>2. TypeOK'
  BY BeginType DEF IInv, TypeOK
<1>3. Kinds'
  BY <1>1, WorkSet DEF IInv
<1>4. GrantInv'
  BY <1>1, GrantsStay
<1>5. TokenInv'
  BY <1>1, TokensStay
<1> QED
  BY <1>2, <1>3, <1>4, <1>5 DEF IInv

LEMMA VisitKeeps ==
    ASSUME IInv, NEW r \in Requests, Me(r)
    PROVE  IInv'
<1>1. PICK i \in Ids : /\ Begin(r, [Idle EXCEPT !.op = "seen", !.id = i])
                       /\ UNCHANGED <<overlapping, signedOut>>
  BY DEF Me, Named, Rows
<1> DEFINE w == [Idle EXCEPT !.op = "seen", !.id = i]
<1>2. w \in Works /\ w.op = "seen" /\ w.id = i /\ w.writes = Untouched
  BY DEF Idle, Works, Ops, Columns, Untouched
<1> HIDE DEF w
<1>3. Kind(w) /\ w.op \notin Deciding
  BY <1>2 DEF Kind, Deciding
<1> QED
  BY <1>1, <1>2, <1>3, BeginKeeps DEF w

\* A request ends, and neither table is changed but for sealed tokens.
LEMMA FinishKeeps ==
    ASSUME IInv, NEW r \in Requests, Finish(r), UNCHANGED <<operator, token, served, decided>>,
           UNCHANGED <<overlapping, reissued>>, cookie' \in [Browsers -> Cookies],
           signedOut' \subseteq signedOut,
           work[r].op = "logout" => work[r].name \notin signedOut'
    PROVE  IInv'
<1>1. Idle \in Works /\ Idle.op = "idle" /\ Kind(Idle) /\ Idle.op \notin Deciding
  BY Rest
<1>2. work' = [work EXCEPT ![r] = Idle]
  BY DEF Finish
<1> HIDE DEF Idle
<1>3. Kinds' /\ work' \in [Requests -> Works]
  BY <1>1, <1>2, WorkSet DEF IInv
<1>4. TypeOK'
  BY <1>3 DEF IInv, TypeOK, Unique, Rows
<1>5. GrantInv'
  BY <1>1, <1>2, GrantsStay
<1>6. TokenInv'
  BY <1>1, <1>2, TokensStay
<1> QED
  BY <1>3, <1>4, <1>5, <1>6 DEF IInv

LEMMA TouchKeeps ==
    ASSUME IInv, NEW r \in Requests, TouchLastSeen(r)
    PROVE  IInv'
<1>1. /\ work[r].op = "seen" /\ operator[work[r].id] # NoRow /\ Finish(r)
      /\ operator' = [operator EXCEPT ![work[r].id] = Amended(operator[work[r].id], work[r].writes)]
      /\ UNCHANGED <<token, cookie, served, decided, overlapping, reissued, signedOut>>
  BY DEF TouchLastSeen, ghosts
<1>2. work[r].id \in Ids /\ work[r].writes = Untouched
  BY <1>1 DEF IInv, Kinds, Kind
<1>3. operator[work[r].id] \in OperatorRows
  BY <1>1, <1>2 DEF IInv, TypeOK
<1>4. Amended(operator[work[r].id], work[r].writes) = operator[work[r].id]
  BY <1>2, <1>3, AmendedRow
<1>5. operator' = operator
  BY <1>1, <1>2, <1>4 DEF IInv, TypeOK
<1> QED
  BY <1>1, <1>5, FinishKeeps DEF IInv, TypeOK

LEMMA AbandonKeeps ==
    ASSUME IInv, NEW r \in Requests, Abandon(r)
    PROVE  IInv'
<1>1. /\ Finish(r) /\ UNCHANGED <<operator, token, cookie, served, decided, overlapping, reissued>>
      /\ signedOut' = IF work[r].op = "logout" THEN signedOut \ {work[r].name} ELSE signedOut
  BY DEF Abandon, tables
<1> QED
  BY <1>1, FinishKeeps DEF IInv, TypeOK

LEMMA TargetFacts ==
    ASSUME IInv, NEW p
    PROVE  Target(p) \in Ids \cup {0} /\ Named(token, p) \subseteq {Target(p)}
<1>1. CASE Named(token, p) = {}
  BY <1>1 DEF Target
<1>2. CASE Named(token, p) # {}
  <2>1. Target(p) \in Named(token, p)
    BY <1>2 DEF Target
  <2>2. \A i, j \in Named(token, p) : i = j
    BY DEF Named, IInv, TypeOK, Unique
  <2> QED
    BY <2>1, <2>2 DEF Named, Rows
<1> QED
  BY <1>1, <1>2

LEMMA CallbackKeeps ==
    ASSUME IInv, NEW r \in Requests, Callback(r)
    PROVE  IInv'
<1>1. PICK b \in Browsers, p \in Allowed, renewable \in BOOLEAN :
         Begin(r, [Idle EXCEPT !.op = "callback", !.id = Target(p), !.name = p, !.browser = b,
                               !.access = p, !.renewable = renewable])
  BY DEF Callback
<1> DEFINE w == [Idle EXCEPT !.op = "callback", !.id = Target(p), !.name = p, !.browser = b,
                             !.access = p, !.renewable = renewable]
<1>2. p \in People
  BY AccessAssumption
<1>3. w \in Works /\ w.op = "callback" /\ w.name = p /\ w.browser = b /\ w.access = p
  BY <1>2, TargetFacts DEF Idle, Works, Ops, Columns, Untouched
<1> HIDE DEF w
<1>4. Kind(w) /\ w.op \notin Deciding
  BY <1>2, <1>3 DEF Kind, Deciding
<1>5. Begin(r, w) /\ UNCHANGED <<overlapping, signedOut>>
  BY <1>1 DEF Callback, w
<1> QED
  BY <1>3, <1>4, <1>5, BeginKeeps

\* What storing a token does: its own row, or the one it holds, gets it.
LEMMA StoreFacts ==
    ASSUME IInv, NEW w \in Works, w.name \in People, w.access = w.name, StoreToken(w)
    PROVE  /\ token' \in [Ids -> TokenRows \cup {NoRow}] /\ Unique(token)'
           /\ \A j \in Ids : token'[j] = NoRow => token[j] = NoRow
           /\ \A j \in Ids : \/ token'[j] = token[j]
                             \/ token[j] = NoRow /\ token'[j].name = w.name
                             \/ token[j] # NoRow /\ token'[j].name = token[j].name
           /\ w.renewable => \A j \in Ids : token'[j] = token[j] \/ token'[j].refresh # None
<1> DEFINE refresh == IF w.renewable THEN w.name ELSE None
           Row(n) == [name |-> n, access |-> w.access, refresh |-> refresh, expired |-> FALSE]
<1>1. refresh \in People \cup {None} /\ (w.renewable => refresh # None)
  BY AccessAssumption
<1> HIDE DEF refresh
<1>2. \A n \in People : /\ Row(n) \in TokenRows /\ Row(n).name = n /\ Row(n).refresh = refresh
  BY <1>1 DEF TokenRows
<1>3. \A n \in People : Row(n) # NoRow
  BY <1>2, StoredAssumption
<1>4. CASE w.id = 0
  <2>1. Named(token, w.name) = {}
    BY <1>4 DEF StoreToken
  <2>2. PICK i \in Ids : Fresh(token, i) /\ token' = [token EXCEPT ![i] = Row(w.name)]
    BY <1>4 DEF StoreToken, refresh
  <2> HIDE DEF Row
  <2>3. token[i] = NoRow
    BY <2>2 DEF Fresh, Rows, Ids
  <2>4. token'[i] = Row(w.name) /\ \A j \in Ids \ {i} : token'[j] = token[j]
    BY <2>2 DEF IInv, TypeOK
  <2>5. token' \in [Ids -> TokenRows \cup {NoRow}]
    BY <1>2, <2>2 DEF IInv, TypeOK
  <2>6. \A j \in Ids : token[j] # NoRow => token[j].name # w.name
    BY <2>1 DEF Named, Rows
  <2>7. Unique(token)'
    BY <1>2, <2>4, <2>6 DEF IInv, TypeOK, Unique, Rows
  <2> QED
    BY <1>1, <1>2, <1>3, <2>3, <2>4, <2>5, <2>7
<1>5. CASE w.id # 0
  <2> DEFINE i == w.id
  <2>1. i \in Ids /\ token[i] # NoRow /\ token' = [token EXCEPT ![i] = Row(token[i].name)]
    BY <1>5 DEF StoreToken, refresh, Works
  <2> HIDE DEF Row
  <2>2. token[i].name \in People
    BY <2>1 DEF IInv, TypeOK, TokenRows
  <2>3. token'[i] = Row(token[i].name) /\ \A j \in Ids \ {i} : token'[j] = token[j]
    BY <2>1 DEF IInv, TypeOK
  <2>4. token' \in [Ids -> TokenRows \cup {NoRow}]
    BY <1>2, <2>1, <2>2 DEF IInv, TypeOK
  <2>5. token'[i] # NoRow /\ token'[i].name = token[i].name
    BY <1>2, <1>3, <2>2, <2>3
  <2>6. Unique(token)'
    BY <2>1, <2>3, <2>5 DEF IInv, TypeOK, Unique, Rows
  <2> QED
    BY <1>1, <1>2, <2>1, <2>2, <2>3, <2>4, <2>5, <2>6
<1> QED
  BY <1>4, <1>5

LEMMA SignInKeeps ==
    ASSUME IInv, NEW r \in Requests, SignIn(r)
    PROVE  IInv'
<1> DEFINE w == work[r]
<1>1. /\ w.op = "callback" /\ Finish(r) /\ signedOut' = signedOut \ {w.name}
      /\ cookie' = [cookie EXCEPT ![w.browser] = [name |-> w.name, live |-> TRUE]]
      /\ StoreToken(w) \/ UNCHANGED token
      /\ UNCHANGED <<operator, served, decided, overlapping, reissued>>
  BY DEF SignIn
<1>2. w \in Works /\ w.name \in People /\ w.access = w.name /\ w.browser \in Browsers
  BY <1>1 DEF IInv, TypeOK, Kinds, Kind
<1>3. cookie' \in [Browsers -> Cookies]
  BY <1>1, <1>2 DEF IInv, TypeOK, Cookies
<1>4. Idle \in Works /\ Idle.op = "idle" /\ Kind(Idle) /\ Idle.op \notin Deciding
      /\ work' = [work EXCEPT ![r] = Idle]
  BY <1>1, Rest DEF Finish
<1> HIDE DEF Idle
<1>5. Kinds' /\ work' \in [Requests -> Works]
  BY <1>4, WorkSet DEF IInv
<1>6. /\ token' \in [Ids -> TokenRows \cup {NoRow}] /\ Unique(token)'
      /\ \A p \in signedOut' : Named(token', p) \subseteq Named(token, p)
  <2>1. CASE UNCHANGED token
    BY <2>1 DEF IInv, TypeOK, Unique, Named, Rows
  <2>2. CASE StoreToken(w)
    <3>1. /\ token' \in [Ids -> TokenRows \cup {NoRow}] /\ Unique(token)'
          /\ \A j \in Ids : \/ token'[j] = token[j]
                            \/ token[j] = NoRow /\ token'[j].name = w.name
                            \/ token[j] # NoRow /\ token'[j].name = token[j].name
      BY <1>2, <2>2, StoreFacts
    <3> QED
      BY <1>1, <3>1 DEF Named, Rows
  <2> QED
    BY <1>1, <2>1, <2>2
<1>7. TypeOK'
  BY <1>1, <1>3, <1>5, <1>6 DEF IInv, TypeOK, Unique, Rows
<1>8. GrantInv'
  BY <1>1, <1>4, GrantsStay
<1>9. TokenInv'
  BY <1>1, <1>4, <1>6, TokensMove
<1> QED
  BY <1>5, <1>7, <1>8, <1>9 DEF IInv

LEMMA LogoutKeeps ==
    ASSUME IInv, NEW r \in Requests, Logout(r)
    PROVE  IInv'
<1>1. PICK b \in Browsers :
         LET p == Session(b)
         IN  /\ p # None
             /\ Begin(r, [Idle EXCEPT !.op = "logout", !.id = Target(p), !.name = p,
                                      !.browser = b])
             /\ signedOut' = IF Refreshing(p) THEN signedOut ELSE signedOut \cup {p}
             /\ UNCHANGED overlapping
  BY DEF Logout
<1> DEFINE p == Session(b)
           w == [Idle EXCEPT !.op = "logout", !.id = Target(p), !.name = p, !.browser = b]
<1>2. p \in People
  BY <1>1 DEF Session, IInv, TypeOK, Cookies
<1>3. w \in Works /\ w.op = "logout" /\ w.id = Target(p) /\ w.name = p /\ w.browser = b
  <2>1. Target(p) \in Ids \cup {0}
    BY TargetFacts
  <2> HIDE DEF p
  <2> QED
    BY <1>2, <2>1 DEF Idle, Works, Ops, Columns, Untouched
<1>4. /\ Begin(r, w) /\ UNCHANGED overlapping
      /\ signedOut' = IF Refreshing(p) THEN signedOut ELSE signedOut \cup {p}
  BY <1>1
<1> HIDE DEF w, p
<1>5. Kind(w) /\ w.op \notin Deciding
  BY <1>2, <1>3 DEF Kind, Deciding
<1>6. /\ UNCHANGED <<operator, token, cookie, decided, reissued>>
      /\ work' = [work EXCEPT ![r] = w] /\ work[r].op = "idle"
  BY <1>4 DEF Begin, tables
<1>7. Kinds' /\ work'[r] = w /\ \A q \in Requests \ {r} : work'[q] = work[q]
  BY <1>3, <1>5, <1>6, WorkSet DEF IInv
<1>8. TypeOK'
  BY <1>2, <1>3, <1>4, BeginType DEF IInv, TypeOK
<1>9. GrantInv'
  BY <1>3, <1>4, <1>5, <1>6, GrantsStay
<1>10. TokenInv'
  <2> SUFFICES ASSUME NEW q \in signedOut' PROVE ~Refreshing(q)' /\ Forgettable(q)'
    BY DEF TokenInv
  <2>1. ~Refreshing(q)
    BY <1>4 DEF IInv, TokenInv
  <2>2. ~Refreshing(q)'
    <3> SUFFICES ASSUME NEW s \in Requests, work'[s].op \in {"refresh", "store"},
                        work'[s].name = q
                 PROVE  FALSE
      BY DEF Refreshing
    <3>1. s # r
      BY <1>3, <1>7
    <3> QED
      BY <1>7, <2>1, <3>1 DEF Refreshing
  <2>3. Named(token, q)' = Named(token, q)
    BY <1>6 DEF Named, Rows
  <2>4. CASE q = p
    <3>1. Named(token, p) \subseteq {w.id}
      BY <1>3, TargetFacts
    <3> QED
      BY <1>3, <1>7, <2>2, <2>3, <2>4, <3>1 DEF Forgettable
  <2>5. CASE q # p
    <3>1. Forgettable(q)
      BY <1>4, <2>5 DEF IInv, TokenInv
    <3>2. CASE Named(token, q) = {}
      BY <2>2, <2>3, <3>2 DEF Forgettable
    <3>3. CASE Named(token, q) # {}
      <4>1. PICK s \in Requests : /\ work[s].op = "logout" /\ work[s].name = q
                                  /\ Named(token, q) \subseteq {work[s].id}
        BY <3>1, <3>3 DEF Forgettable
      <4>2. work'[s] = work[s]
        BY <1>6, <1>7, <4>1
      <4> QED
        BY <2>2, <2>3, <4>1, <4>2 DEF Forgettable
    <3> QED
      BY <3>2, <3>3
  <2> QED
    BY <2>4, <2>5
<1> QED
  BY <1>7, <1>8, <1>9, <1>10 DEF IInv

LEMMA ForgetKeeps ==
    ASSUME IInv, NEW r \in Requests, ForgetToken(r)
    PROVE  IInv'
<1> DEFINE w == work[r]
<1>1. /\ w.op = "logout" /\ Finish(r)
      /\ token' = IF w.id = 0 THEN token ELSE [token EXCEPT ![w.id] = NoRow]
      /\ cookie' = [cookie EXCEPT ![w.browser] = None]
      /\ UNCHANGED <<operator, served, decided, overlapping, reissued, signedOut>>
  BY DEF ForgetToken, ghosts
<1>2. w \in Works /\ w.browser \in Browsers /\ w.id \in Ids \cup {0}
  BY <1>1 DEF IInv, TypeOK, Kinds, Kind, Works
<1>3. Idle \in Works /\ Idle.op = "idle" /\ Kind(Idle) /\ Idle.op \notin Deciding
      /\ work' = [work EXCEPT ![r] = Idle]
  BY <1>1, Rest DEF Finish
<1> HIDE DEF Idle
<1>4. Kinds' /\ work' \in [Requests -> Works] /\ work'[r] = Idle
      /\ \A q \in Requests \ {r} : work'[q] = work[q]
  BY <1>3, WorkSet DEF IInv
<1>5. /\ token' \in [Ids -> TokenRows \cup {NoRow}]
      /\ \A j \in Ids : token'[j] = token[j] \/ token'[j] = NoRow
      /\ w.id \in Ids => token'[w.id] = NoRow
  BY <1>1, <1>2 DEF IInv, TypeOK, Ids
<1>6. TypeOK'
  <2>1. cookie' \in [Browsers -> Cookies]
    BY <1>1, <1>2 DEF IInv, TypeOK, Cookies
  <2>2. Unique(token)'
    BY <1>5 DEF IInv, TypeOK, Unique, Rows
  <2> QED
    BY <1>1, <1>4, <1>5, <2>1, <2>2 DEF IInv, TypeOK, Unique, Rows
<1>7. GrantInv'
  BY <1>1, <1>3, GrantsStay
<1>8. TokenInv'
  <2> SUFFICES ASSUME NEW q \in signedOut PROVE ~Refreshing(q)' /\ Forgettable(q)'
    BY <1>1 DEF TokenInv
  <2>1. ~Refreshing(q) /\ Forgettable(q)
    BY DEF IInv, TokenInv
  <2>2. ~Refreshing(q)'
    <3> SUFFICES ASSUME NEW s \in Requests, work'[s].op \in {"refresh", "store"},
                        work'[s].name = q
                 PROVE  FALSE
      BY DEF Refreshing
    <3>1. s # r
      BY <1>3, <1>4
    <3> QED
      BY <1>4, <2>1, <3>1 DEF Refreshing
  <2>3. Named(token, q)' = Named(token', q) /\ Named(token', q) \subseteq Named(token, q)
    BY <1>5 DEF Named, Rows
  <2>4. CASE Named(token, q) = {}
    BY <2>2, <2>3, <2>4 DEF Forgettable
  <2>5. CASE Named(token, q) # {}
    <3>1. PICK s \in Requests : /\ work[s].op = "logout" /\ work[s].name = q
                                /\ Named(token, q) \subseteq {work[s].id}
      BY <2>1, <2>5 DEF Forgettable
    <3>2. CASE s = r
      <4>1. Named(token', q) = {}
        BY <1>5, <2>3, <3>1, <3>2 DEF Named, Rows
      <4> QED
        BY <2>2, <2>3, <4>1 DEF Forgettable
    <3>3. CASE s # r
      <4>1. work'[s] = work[s]
        BY <1>4, <3>3
      <4> QED
        BY <2>2, <2>3, <3>1, <4>1 DEF Forgettable
    <3> QED
      BY <3>2, <3>3
  <2> QED
    BY <2>4, <2>5
<1> QED
  BY <1>4, <1>6, <1>7, <1>8 DEF IInv

LEMMA LoadKeeps ==
    ASSUME IInv, NEW r \in Requests, LoadToken(r)
    PROVE  IInv'
<1>1. PICK b \in Browsers, i \in Ids :
         /\ token[i] # NoRow /\ token[i].name = Session(b)
         /\ Opens(token[i].access, Session(b))
         /\ \/ /\ Begin(r, [Idle EXCEPT !.op = "use", !.name = Session(b),
                                        !.access = token[i].access])
               /\ UNCHANGED signedOut
            \/ /\ Opens(token[i].refresh, Session(b))
               /\ Begin(r, [Idle EXCEPT !.op = "refresh", !.name = Session(b),
                                        !.access = token[i].refresh])
               /\ signedOut' = signedOut \ {Session(b)}
         /\ UNCHANGED overlapping
  BY DEF LoadToken, Named, Rows
<1> DEFINE p == Session(b)
           u == [Idle EXCEPT !.op = "use", !.name = p, !.access = p]
           v == [Idle EXCEPT !.op = "refresh", !.name = p, !.access = p]
<1>2. p \in People
  BY <1>1 DEF IInv, TypeOK, TokenRows
<1>3. /\ \/ Begin(r, u) /\ UNCHANGED signedOut
         \/ Begin(r, v) /\ signedOut' = signedOut \ {p}
      /\ UNCHANGED overlapping
  BY <1>1 DEF Opens
<1> HIDE DEF p
<1>4. /\ u \in Works /\ u.op = "use" /\ u.name = p /\ u.access = p
      /\ v \in Works /\ v.op = "refresh" /\ v.name = p /\ v.access = p
  BY <1>2 DEF Idle, Works, Ops, Columns, Untouched
<1> HIDE DEF u, v
<1>5. Kind(u) /\ Kind(v) /\ u.op \notin Deciding /\ v.op \notin Deciding
  BY <1>2, <1>4 DEF Kind, Deciding
<1>6. CASE Begin(r, u) /\ UNCHANGED signedOut
  BY <1>3, <1>4, <1>5, <1>6, BeginKeeps
<1>7. CASE Begin(r, v) /\ signedOut' = signedOut \ {p}
  BY <1>3, <1>4, <1>5, <1>7, BeginKeeps
<1> QED
  BY <1>3, <1>6, <1>7

LEMMA RefreshKeeps ==
    ASSUME IInv, NEW r \in Requests, Refresh(r)
    PROVE  IInv'
<1> DEFINE w == [work[r] EXCEPT !.op = "store", !.id = Target(work[r].name), !.renewable = TRUE]
<1>1. /\ work[r].op = "refresh" /\ work' = [work EXCEPT ![r] = w]
      /\ UNCHANGED <<operator, token, cookie, served, decided, overlapping, reissued, signedOut>>
  BY DEF Refresh, tables, ghosts
<1>2. work[r] \in Works /\ work[r].name \in People /\ work[r].access = work[r].name
  BY <1>1 DEF IInv, TypeOK, Kinds, Kind
<1>3. w \in Works /\ w.op = "store" /\ w.name = work[r].name /\ w.access = work[r].access
      /\ w.renewable
  <2>1. Target(work[r].name) \in Ids \cup {0}
    BY TargetFacts
  <2> QED
    BY <1>2, <2>1 DEF Works, Ops
<1> HIDE DEF w
<1>4. Kind(w) /\ w.op \notin Deciding
  BY <1>2, <1>3 DEF Kind, Deciding
<1>5. Kinds' /\ work' \in [Requests -> Works]
  BY <1>1, <1>3, <1>4, WorkSet DEF IInv
<1>6. TypeOK'
  BY <1>1, <1>5 DEF IInv, TypeOK, Unique, Rows
<1>7. GrantInv'
  BY <1>1, <1>3, <1>4, GrantsStay
<1>8. TokenInv'
  <2>1. w.name \notin signedOut
    BY <1>1, <1>3 DEF IInv, TokenInv, Refreshing
  <2> QED
    BY <1>1, <1>3, <2>1, TokensStay
<1> QED
  BY <1>5, <1>6, <1>7, <1>8 DEF IInv

LEMMA RefreshedKeeps ==
    ASSUME IInv, NEW r \in Requests, Refreshed(r)
    PROVE  IInv'
<1> DEFINE w == [work[r] EXCEPT !.op = "use"]
<1>1. /\ work[r].op = "store" /\ work' = [work EXCEPT ![r] = w] /\ StoreToken(work[r])
      /\ UNCHANGED <<operator, cookie, served, decided, overlapping, reissued, signedOut>>
  BY DEF Refreshed, ghosts
<1>2. work[r] \in Works /\ work[r].name \in People /\ work[r].access = work[r].name
  BY <1>1 DEF IInv, TypeOK, Kinds, Kind
<1>3. w \in Works /\ w.op = "use" /\ w.name = work[r].name /\ w.access = work[r].access
  BY <1>2 DEF Works, Ops
<1> HIDE DEF w
<1>4. Kind(w) /\ w.op \notin Deciding
  BY <1>2, <1>3 DEF Kind, Deciding
<1>5. Kinds' /\ work' \in [Requests -> Works]
  BY <1>1, <1>3, <1>4, WorkSet DEF IInv
<1>6. /\ token' \in [Ids -> TokenRows \cup {NoRow}] /\ Unique(token)'
      /\ \A j \in Ids : \/ token'[j] = token[j]
                        \/ token[j] = NoRow /\ token'[j].name = work[r].name
                        \/ token[j] # NoRow /\ token'[j].name = token[j].name
  BY <1>1, <1>2, StoreFacts
<1>7. TypeOK'
  BY <1>1, <1>5, <1>6 DEF IInv, TypeOK, Unique, Rows
<1>8. GrantInv'
  BY <1>1, <1>3, <1>4, GrantsStay
<1>9. TokenInv'
  <2>1. work[r].name \notin signedOut
    BY <1>1 DEF IInv, TokenInv, Refreshing
  <2>2. \A p \in signedOut' : Named(token', p) \subseteq Named(token, p)
    BY <1>1, <1>6, <2>1 DEF Named, Rows
  <2> QED
    BY <1>1, <1>3, <2>2, TokensMove
<1> QED
  BY <1>5, <1>7, <1>8, <1>9 DEF IInv

\* Time passes, or nothing happens.
LEMMA TimeKeeps ==
    ASSUME IInv, UNCHANGED <<operator, work, served, ghosts>>,
           cookie' \in [Browsers -> Cookies], token' \in [Ids -> TokenRows \cup {NoRow}],
           \A j \in Ids : /\ token'[j] = NoRow <=> token[j] = NoRow
                          /\ token'[j].name = token[j].name
    PROVE  IInv'
<1>1. UNCHANGED <<operator, work, served, decided, overlapping, reissued, signedOut>>
  BY DEF ghosts
<1>2. \A p : Named(token, p)' = Named(token, p)
  BY DEF Named, Rows
<1>3. TypeOK'
  BY <1>1 DEF IInv, TypeOK, Unique, Rows
<1>4. Kinds'
  BY <1>1 DEF IInv, Kinds, Kind
<1>5. GrantInv'
  <2>1. \A r \in Requests : Alone(r)'
    BY <1>1 DEF IInv, GrantInv, Alone
  <2>2. \A r \in Requests : /\ Held(work[r]) => Held(work[r])'
                            /\ Current(work[r]) => Current(work[r])'
    BY <1>1 DEF Held, Current
  <2>3. GrantsAsDecided'
    BY <1>1, RecordedRec DEF IInv, GrantInv, GrantsAsDecided
  <2> QED
    BY <1>1, <2>1, <2>2, <2>3 DEF IInv, GrantInv
<1>6. TokenInv'
  BY <1>1, <1>2 DEF IInv, TokenInv, Refreshing, Forgettable
<1> QED
  BY <1>3, <1>4, <1>5, <1>6 DEF IInv

LEMMA ClockKeeps ==
    ASSUME IInv,
           (\E b \in Browsers : LogoutExpired(b)) \/ CookieExpires \/ TokenExpires
              \/ UNCHANGED vars
    PROVE  IInv'
<1>0. /\ cookie \in [Browsers -> Cookies] /\ token \in [Ids -> TokenRows \cup {NoRow}]
      /\ NoRow \notin TokenRows
  BY StoredAssumption DEF IInv, TypeOK
<1>1. ASSUME NEW b \in Browsers, LogoutExpired(b) PROVE IInv'
  <2>1. cookie' \in [Browsers -> Cookies]
    BY <1>0, <1>1 DEF LogoutExpired, Cookies
  <2> QED
    BY <1>0, <1>1, <2>1, TimeKeeps DEF LogoutExpired, tables
<1>2. CASE CookieExpires
  <2>1. PICK b \in Browsers : Session(b) # None /\ cookie' = [cookie EXCEPT ![b].live = FALSE]
    BY <1>2 DEF CookieExpires
  <2>2. cookie[b] \in [name : People, live : BOOLEAN]
    BY <1>0, <2>1 DEF Session, Cookies
  <2>3. cookie' \in [Browsers -> Cookies]
    BY <1>0, <2>1, <2>2 DEF Cookies
  <2> QED
    BY <1>0, <1>2, <2>3, TimeKeeps DEF CookieExpires, tables
<1>3. CASE TokenExpires
  <2>1. PICK i \in Rows(token) : token' = [token EXCEPT ![i].expired = TRUE]
    BY <1>3 DEF TokenExpires
  <2>2. i \in Ids /\ token[i] # NoRow /\ token[i] \in TokenRows
    BY <1>0 DEF Rows
  <2> DEFINE row == [token[i] EXCEPT !.expired = TRUE]
  <2>3. row \in TokenRows /\ row.name = token[i].name
    BY <2>2 DEF TokenRows
  <2>4. token' = [token EXCEPT ![i] = row]
    BY <2>1
  <2> HIDE DEF row
  <2>5. /\ token' \in [Ids -> TokenRows \cup {NoRow}]
        /\ \A j \in Ids : /\ token'[j] = NoRow <=> token[j] = NoRow
                          /\ token'[j].name = token[j].name
    BY <1>0, <2>2, <2>3, <2>4
  <2> QED
    BY <1>0, <1>3, <2>5, TimeKeeps DEF TokenExpires
<1>4. CASE UNCHANGED vars
  BY <1>0, <1>4, TimeKeeps DEF vars, tables, ghosts
<1> QED
  BY <1>1, <1>2, <1>3, <1>4

LEMMA StepKeeps == IInv /\ [Next]_vars => IInv'
<1> SUFFICES ASSUME IInv, [Next]_vars PROVE IInv'
  OBVIOUS
<1>1. ASSUME NEW r \in Requests, Decisions(r) PROVE IInv'
  BY <1>1, InsertGrantKeeps, UpdateGrantKeeps, RemoveGrantKeeps DEF Decisions
<1>2. ASSUME NEW r \in Requests, Sessions(r) PROVE IInv'
  BY <1>2, CallbackKeeps, SignInKeeps, VisitKeeps, TouchKeeps, LogoutKeeps, ForgetKeeps
     DEF Sessions
<1>3. ASSUME NEW r \in Requests, Tokens(r) PROVE IInv'
  BY <1>3, LoadKeeps, RefreshKeeps, RefreshedKeeps DEF Tokens
<1> QED
  BY <1>1, <1>2, <1>3, DecidersKeep, AbandonKeeps, ClockKeeps DEF Next

LEMMA InitHolds == Init => IInv
<1> SUFFICES ASSUME Init PROVE IInv
  OBVIOUS
<1>1. PICK s \in Stored : operator = s.operator /\ token = s.token /\ cookie = s.cookie
  BY DEF Init
<1>2. /\ operator \in [Ids -> OperatorRows \cup {NoRow}] /\ Unique(operator)
      /\ token \in [Ids -> TokenRows \cup {NoRow}] /\ Unique(token)
      /\ cookie \in [Browsers -> Cookies]
  BY <1>1, StoredAssumption
<1>3. /\ work = [r \in Requests |-> Idle] /\ served = 0 /\ overlapping = {}
      /\ decided = [p \in People |-> Recorded(p)] /\ reissued = FALSE /\ signedOut = {}
  BY DEF Init
<1>4. decided \in [People -> Grants \cup {None}]
  BY <1>2, <1>3, RecordedRec, RecType
<1>5. \A r \in Requests : work[r] = Idle
  BY <1>3
<1>6. TypeOK
  <2>1. 0 \in 0..MaxServed
    BY AccessAssumption
  <2>2. work \in [Requests -> Works]
    BY <1>3, Rest
  <2> QED
    BY <1>2, <1>3, <1>4, <2>1, <2>2 DEF TypeOK
<1>7. Kinds
  BY <1>5, Rest DEF Kinds
<1>8. GrantInv
  <2>1. \A r \in Requests : work[r].op = "idle"
    BY <1>5, Rest
  <2>2. GrantsAsDecided
    BY <1>3 DEF GrantsAsDecided
  <2> QED
    BY <2>1, <2>2 DEF GrantInv, Alone, Held, Current, Deciding
<1> QED
  BY <1>3, <1>6, <1>7, <1>8 DEF IInv, TokenInv

LEMMA AccessInvariant == Spec => []IInv
BY InitHolds, StepKeeps, PTL DEF Spec

-----------------------------------------------------------------------------
(* The theorems                                                            *)

\* The tables keep to the schema, and what a request is about is of its kind.
THEOREM AccessTypeCorrect == Spec => []TypeOK
<1>1. IInv => TypeOK
  BY DEF IInv
<1> QED
  BY <1>1, AccessInvariant, PTL

\* The access on record for a person is what was decided, however visits and
\* decisions interleave.
THEOREM AccessGrants == Spec => []GrantsAsDecided
<1>1. IInv => GrantsAsDecided
  BY DEF IInv, GrantInv
<1> QED
  BY <1>1, AccessInvariant, PTL

\* One whose access was disabled has none, whatever the default role is.
THEOREM AccessDisabled == Spec => []DisabledStaysOut
<1>1. IInv => DisabledStaysOut
  BY DEF IInv, GrantInv, GrantsAsDecided, DisabledStaysOut, RoleOf
<1> QED
  BY <1>1, AccessInvariant, PTL

\* Control Hub is read with the caller's own token.
THEOREM AccessOwnToken == Spec => []UsesOwnToken
<1>1. IInv => UsesOwnToken
  BY DEF IInv, Kinds, Kind, UsesOwnToken
<1> QED
  BY <1>1, AccessInvariant, PTL

\* After a sign-out the token is gone until the next sign-in.
THEOREM AccessSignedOut == Spec => []SignedOutForgotten
<1>1. IInv => SignedOutForgotten
  BY DEF IInv, TokenInv, Forgettable, SignedOutForgotten
<1> QED
  BY <1>1, AccessInvariant, PTL

\* Only signing in again takes the refresh token from a stored token.
THEOREM AccessRefreshable == Spec => StillRefreshable
<1> DEFINE Still ==
      \A i \in Ids :
         token[i] # NoRow /\ token'[i] # NoRow /\ token[i].refresh # None /\ token'[i].refresh = None
            => \E r \in Requests : work[r].op = "callback" /\ work'[r].op = "idle"
<1>1. IInv /\ [Next]_vars => [Still]_vars
  <2> SUFFICES ASSUME IInv, Next, NEW i \in Ids,
                      token[i] # NoRow, token'[i] # NoRow,
                      token[i].refresh # None, token'[i].refresh = None
               PROVE  \E r \in Requests : work[r].op = "callback" /\ work'[r].op = "idle"
    OBVIOUS
  <2>1. token' # token
    OBVIOUS
  <2>2. ASSUME NEW r \in Requests, SignIn(r)
        PROVE  work[r].op = "callback" /\ work'[r].op = "idle"
    BY <2>2, Rest DEF SignIn, Finish, IInv, TypeOK
  <2>3. ASSUME NEW r \in Requests, Refreshed(r) PROVE FALSE
    <3>1. /\ work[r].op = "store" /\ StoreToken(work[r]) /\ work[r] \in Works
          /\ work[r].name \in People /\ work[r].access = work[r].name /\ work[r].renewable
      BY <2>3 DEF Refreshed, IInv, TypeOK, Kinds, Kind
    <3>2. \A j \in Ids : token'[j] = token[j] \/ token'[j].refresh # None
      BY <3>1, StoreFacts
    <3> QED
      BY <3>2
  <2>4. ASSUME NEW r \in Requests, ForgetToken(r) PROVE FALSE
    BY <2>4 DEF ForgetToken, IInv, TypeOK
  <2>5. TokenExpires => FALSE
    <3> SUFFICES ASSUME NEW j \in Rows(token), token' = [token EXCEPT ![j].expired = TRUE]
                 PROVE  FALSE
      BY DEF TokenExpires
    <3>1. token[i] \in TokenRows /\ j \in Ids
      BY DEF IInv, TypeOK, Rows
    <3>2. token'[i].refresh = token[i].refresh
      BY <3>1 DEF IInv, TypeOK, TokenRows
    <3> QED
      BY <3>2
  <2>6. ASSUME NEW r \in Requests,
               \/ Deciders(r) \/ Decisions(r) \/ Abandon(r) \/ LoadToken(r) \/ Refresh(r)
               \/ Callback(r) \/ Me(r) \/ TouchLastSeen(r) \/ Logout(r)
        PROVE  FALSE
    <3>1. CASE Deciders(r)
      BY <2>1, <3>1 DEF Deciders, Grant, UpdateGrant, DisableGrant, DeleteGrant, Decide, Begin, tables
    <3>2. CASE Decisions(r)
      BY <2>1, <3>2 DEF Decisions, InsertGrant, UpdateGrantRow, RemoveGrant
    <3>3. CASE Abandon(r) \/ LoadToken(r) \/ Refresh(r)
      BY <2>1, <3>3 DEF Abandon, LoadToken, Refresh, Begin, tables
    <3>4. CASE Callback(r) \/ Me(r) \/ TouchLastSeen(r) \/ Logout(r)
      BY <2>1, <3>4 DEF Callback, Me, TouchLastSeen, Logout, Begin, tables
    <3> QED
      BY <2>6, <3>1, <3>2, <3>3, <3>4
  <2>7. (CookieExpires \/ \E b \in Browsers : LogoutExpired(b)) => FALSE
    BY <2>1 DEF CookieExpires, LogoutExpired, tables
  <2> QED
    BY <2>2, <2>3, <2>4, <2>5, <2>6, <2>7 DEF Next, Sessions, Tokens
<1> QED
  BY <1>1, AccessInvariant, PTL DEF Spec, StillRefreshable

=============================================================================
