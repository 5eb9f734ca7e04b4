------------------------------- MODULE Access -------------------------------
(***************************************************************************)
(* Who may use the console: Webex sign-in and its signed cookies           *)
(* (app/auth.py, app/api/auth_routes.py), the operator table that gives    *)
(* roles (app/roles.py, app/inventory.py, app/cli.py) and the Webex tokens *)
(* stored for those signed in (app/webex_session.py).  As in Inventory, a  *)
(* request reads, keeps row ids, and writes by id later, and the id of a   *)
(* deleted row may be reissued.                                            *)
(***************************************************************************)
EXTENDS Naturals

CONSTANTS
    Requests,    \* what serves requests: threads and CLI processes
    People,      \* Webex users, by email address
    Browsers,    \* each with a cookie jar
    Roles,       \* the roles in use, "admin" among them
    Bootstrap,   \* bootstrap_admins
    Allowed,     \* those is_authorised lets in
    DefaultRole, \* webex_default_role
    ApiToken,    \* an API token is configured
    MaxRows,     \* bound on the row ids of a table
    MaxServed,   \* bound on the requests served
    Stored,      \* the datastores and cookies to start from
    None, NoRow, Keep

Grants == [role : Roles, enabled : BOOLEAN]

ASSUME AccessAssumption ==
    /\ MaxRows \in Nat /\ MaxServed \in Nat
    /\ "admin" \in Roles
    /\ Bootstrap \subseteq People /\ Allowed \subseteq People
    /\ DefaultRole \in Roles \cup {None}
    /\ ApiToken \in BOOLEAN
    /\ None \notin People /\ None \notin Roles /\ None \notin Grants
    /\ Keep \notin Roles /\ Keep \notin BOOLEAN

Ids == 1..MaxRows

\* A sealed token is written as the person it is bound to (its AAD), who is
\* also the one that Webex gave it to.
OperatorRows == [name : People, role : Roles, enabled : BOOLEAN]
TokenRows == [name : People, access : People, refresh : People \cup {None}, expired : BOOLEAN]

Rows(table) == {i \in Ids : table[i] # NoRow}
Named(table, n) == {i \in Rows(table) : table[i].name = n}
Unique(table) == \A i, j \in Rows(table) : table[i].name = table[j].name => i = j

Cookies == [name : People, live : BOOLEAN] \cup {None}

ASSUME StoredAssumption ==
    /\ NoRow \notin OperatorRows \cup TokenRows
    /\ \A s \in Stored :
          /\ s.operator \in [Ids -> OperatorRows \cup {NoRow}] /\ Unique(s.operator)
          /\ s.token \in [Ids -> TokenRows \cup {NoRow}] /\ Unique(s.token)
          /\ \A i \in Rows(s.token) :
                {s.token[i].access, s.token[i].refresh} \subseteq {s.token[i].name, None}
          /\ s.cookie \in [Browsers -> Cookies]

VARIABLES
    operator, token, \* the tables: row ids to rows
    cookie,          \* what each browser has: a person's session, live or expired
    work,            \* what each request has read and is about to do
    served,          \* the requests begun
    decided,         \* the access last decided for each person
    overlapping,     \* those for whom two decisions were under way at once
    reissued,        \* a new grant got an id that an open request holds
    signedOut        \* those who signed out, no refresh being under way

tables == <<operator, token>>
ghosts == <<decided, overlapping, reissued, signedOut>>
vars == <<tables, cookie, work, served, ghosts>>

Ops == {"idle", "seen", "new_grant", "set_grant", "drop_grant",
        "callback", "refresh", "store", "use", "logout"}

\* id: the row to write (0: a new one); name: whose; browser: whose cookie is
\* set or deleted at the end; asks: the role and the state asked for; writes:
\* the columns of these that are written (Keep: not this one); access,
\* renewable: the token to store, and whether with a refresh token
Columns == [role : Roles \cup {Keep}, enabled : BOOLEAN \cup {Keep}]

Works == [op : Ops, id : Ids \cup {0}, name : People \cup {None},
          browser : Browsers \cup {None}, asks : Columns, writes : Columns,
          access : People \cup {None}, renewable : BOOLEAN]

Untouched == [role |-> Keep, enabled |-> Keep]

Idle == [op |-> "idle", id |-> 0, name |-> None, browser |-> None, asks |-> Untouched,
         writes |-> Untouched, access |-> None, renewable |-> FALSE]

TypeOK ==
    /\ operator \in [Ids -> OperatorRows \cup {NoRow}] /\ Unique(operator)
    /\ token \in [Ids -> TokenRows \cup {NoRow}] /\ Unique(token)
    /\ cookie \in [Browsers -> Cookies]
    /\ work \in [Requests -> Works]
    /\ served \in 0..MaxServed
    /\ decided \in [People -> Grants \cup {None}]
    /\ overlapping \subseteq People
    /\ reissued \in BOOLEAN
    /\ signedOut \subseteq People

\* The grant on record for a person
Recorded(p) ==
    IF Named(operator, p) = {} THEN None
    ELSE LET g == operator[CHOOSE i \in Named(operator, p) : TRUE]
         IN [role |-> g.role, enabled |-> g.enabled]

Init ==
    /\ \E s \in Stored : operator = s.operator /\ token = s.token /\ cookie = s.cookie
    /\ work = [r \in Requests |-> Idle]
    /\ served = 0
    /\ decided = [p \in People |-> Recorded(p)]
    /\ overlapping = {}
    /\ reissued = FALSE
    /\ signedOut = {}

-----------------------------------------------------------------------------
(* Roles                                                                   *)

\* Mutant: a disabled grant counts for nothing, and the default applies.
RoleOf_Skips(p) ==
    IF p \in Bootstrap THEN "admin"
    ELSE IF Recorded(p) # None /\ Recorded(p).enabled THEN Recorded(p).role
    ELSE DefaultRole

\* resolve_role
RoleOf(p) ==
    IF p \in Bootstrap THEN "admin"
    ELSE IF Recorded(p) = None THEN DefaultRole
    ELSE IF Recorded(p).enabled THEN Recorded(p).role ELSE None

\* verify_session: the person whose valid cookie a browser sends
Session(b) == IF cookie[b] # None /\ cookie[b].live THEN cookie[b].name ELSE None

\* require_viewer, which every role passes, and require_admin
Viewer(b) == Session(b) # None /\ RoleOf(Session(b)) # None
Admin == ApiToken \/ \E b \in Browsers : Session(b) # None /\ RoleOf(Session(b)) = "admin"

Begin(r, w) ==
    /\ work[r].op = "idle"
    /\ served < MaxServed
    /\ served' = served + 1
    /\ work' = [work EXCEPT ![r] = w]
    /\ UNCHANGED <<tables, cookie, decided, reissued>>

Finish(r) == work' = [work EXCEPT ![r] = Idle]

\* A column that is assigned the value it had when it was read is not written.
Assigned(new, read) == IF new = read THEN Keep ELSE new
Written(new, old) == IF new = Keep THEN old ELSE new

Deciding == {"new_grant", "set_grant", "drop_grant"}

\* A request looks at the operator table and decides on the access of n.
Decide(r, n, w) ==
    /\ Begin(r, w)
    /\ overlapping' = overlapping \cup
          {p \in {n} : \E q \in Requests : work[q].op \in Deciding /\ work[q].name = p}
    /\ UNCHANGED signedOut

\* The grant in row i gets what is asked for.
Change(i, role, enabled) ==
    [Idle EXCEPT !.op = "set_grant", !.id = i, !.name = operator[i].name,
                 !.asks = [role |-> role, enabled |-> enabled],
                 !.writes = [role |-> Assigned(role, operator[i].role),
                             enabled |-> Assigned(enabled, operator[i].enabled)]]

New(n, role) ==
    [Idle EXCEPT !.op = "new_grant", !.name = n, !.asks = [role |-> role, enabled |-> TRUE]]

\* Mutant: a grant that is there gets the role but is not enabled again.
Grant_KeepsDisabled(r) ==
    \E n \in People, role \in Roles :
        \/ Named(operator, n) = {} /\ Decide(r, n, New(n, role))
        \/ \E i \in Named(operator, n) : Decide(r, n, Change(i, role, Keep))

\* upsert_operator, operator add: a grant is made, or changed and enabled.
Grant(r) ==
    \E n \in People, role \in Roles :
        \/ Named(operator, n) = {} /\ Decide(r, n, New(n, role))
        \/ \E i \in Named(operator, n) : Decide(r, n, Change(i, role, TRUE))

\* update_operator
UpdateGrant(r) ==
    /\ Admin
    /\ \E i \in Rows(operator), role \in Roles \cup {Keep}, enabled \in BOOLEAN \cup {Keep} :
          Decide(r, operator[i].name, Change(i, role, enabled))

\* operator remove --disable
DisableGrant(r) ==
    \E i \in Rows(operator) : Decide(r, operator[i].name, Change(i, Keep, FALSE))

\* delete_operator, operator remove
DeleteGrant(r) ==
    \E i \in Rows(operator) :
        Decide(r, operator[i].name,
               [Idle EXCEPT !.op = "drop_grant", !.id = i, !.name = operator[i].name])

\* The ids of new rows: the one after the largest in use.
Fresh(table, i) ==
    /\ \A j \in Rows(table) : j < i
    /\ \A k \in 1..(i - 1) : \E j \in Rows(table) : k <= j

\* Mutant: the column of the emails is not unique.
InsertGrant_Twice(r) ==
    LET w == work[r]
    IN  /\ w.op = "new_grant"
        /\ \E i \in Ids :
              /\ Fresh(operator, i)
              /\ operator' = [operator EXCEPT ![i] = [name |-> w.name, role |-> w.asks.role,
                                                      enabled |-> w.asks.enabled]]
              /\ reissued' = (reissued \/ \E q \in Requests :
                    work[q].op \in {"set_grant", "drop_grant"} /\ work[q].id = i)
        /\ decided' = [decided EXCEPT ![w.name] = w.asks]
        /\ Finish(r)
        /\ UNCHANGED <<token, cookie, served, overlapping, signedOut>>

InsertGrant(r) ==
    LET w == work[r]
    IN  /\ w.op = "new_grant"
        /\ Named(operator, w.name) = {}
        /\ \E i \in Ids :
              /\ Fresh(operator, i)
              /\ operator' = [operator EXCEPT ![i] = [name |-> w.name, role |-> w.asks.role,
                                                      enabled |-> w.asks.enabled]]
              /\ reissued' = (reissued \/ \E q \in Requests :
                    work[q].op \in {"set_grant", "drop_grant"} /\ work[q].id = i)
        /\ decided' = [decided EXCEPT ![w.name] = w.asks]
        /\ Finish(r)
        /\ UNCHANGED <<token, cookie, served, overlapping, signedOut>>

Amended(g, c) == [g EXCEPT !.role = Written(c.role, @), !.enabled = Written(c.enabled, @)]

UpdateGrantRow(r) ==
    LET w == work[r]
    IN  /\ w.op = "set_grant"
        /\ operator[w.id] # NoRow
        /\ operator' = [operator EXCEPT ![w.id] = Amended(@, w.writes)]
        /\ decided' = [decided EXCEPT ![w.name] = IF @ = None THEN None ELSE Amended(@, w.asks)]
        /\ Finish(r)
        /\ UNCHANGED <<token, cookie, served, overlapping, reissued, signedOut>>

RemoveGrant(r) ==
    LET w == work[r]
    IN  /\ w.op = "drop_grant"
        /\ operator' = [operator EXCEPT ![w.id] = NoRow]
        /\ decided' = [decided EXCEPT ![w.name] = None]
        /\ Finish(r)
        /\ UNCHANGED <<token, cookie, served, overlapping, reissued, signedOut>>

\* Mutant: the grant is written back as it was read.
Me_Saves(r) ==
    \E b \in Browsers :
        /\ Viewer(b)
        /\ \E i \in Named(operator, Session(b)) :
              Begin(r, [Idle EXCEPT !.op = "seen", !.id = i,
                                    !.writes = [role |-> operator[i].role,
                                                enabled |-> operator[i].enabled]])
        /\ UNCHANGED <<overlapping, signedOut>>

\* me: when a grant was last used (touch_last_seen) is noted in its row.
Me(r) ==
    \E b \in Browsers :
        /\ Viewer(b)
        /\ \E i \in Named(operator, Session(b)) : Begin(r, [Idle EXCEPT !.op = "seen", !.id = i])
        /\ UNCHANGED <<overlapping, signedOut>>

TouchLastSeen(r) ==
    /\ work[r].op = "seen"
    /\ operator[work[r].id] # NoRow
    /\ operator' = [operator EXCEPT ![work[r].id] = Amended(@, work[r].writes)]
    /\ Finish(r)
    /\ UNCHANGED <<token, cookie, served, ghosts>>

-----------------------------------------------------------------------------
(* Signing in and out, and the tokens                                      *)

\* Mutant: a sealed token is not bound to a person.
Opens_Anywhere(v, p) == v # None

\* SecretBox.open(v) with the AAD of p's tokens
Opens(v, p) == v = p

\* The row in which store_token is to put p's token, 0 for a new one
Target(p) == IF Named(token, p) = {} THEN 0 ELSE CHOOSE i \in Named(token, p) : TRUE

\* callback: Webex says who it is and gives a token, with a refresh token or
\* without, which is to be stored.
Callback(r) ==
    /\ \E b \in Browsers, p \in Allowed, renewable \in BOOLEAN :
          Begin(r, [Idle EXCEPT !.op = "callback", !.id = Target(p), !.name = p, !.browser = b,
                                !.access = p, !.renewable = renewable])
    /\ UNCHANGED <<overlapping, signedOut>>

\* store_token: an update leaves the email as it is.
StoreToken(w) ==
    LET sealed == [access |-> w.access, expired |-> FALSE,
                   refresh |-> IF w.renewable THEN w.name ELSE None]
        Row(n) == [name |-> n, access |-> sealed.access, refresh |-> sealed.refresh,
                   expired |-> sealed.expired]
    IN  IF w.id = 0
        THEN /\ Named(token, w.name) = {}
             /\ \E i \in Ids : Fresh(token, i) /\ token' = [token EXCEPT ![i] = Row(w.name)]
        ELSE /\ token[w.id] # NoRow
             /\ token' = [token EXCEPT ![w.id] = Row(@.name)]

\* The cookie is set, whether the token could be stored or not.
SignIn(r) ==
    /\ work[r].op = "callback"
    /\ StoreToken(work[r]) \/ UNCHANGED token
    /\ cookie' = [cookie EXCEPT ![work[r].browser] = [name |-> work[r].name, live |-> TRUE]]
    /\ signedOut' = signedOut \ {work[r].name}
    /\ Finish(r)
    /\ UNCHANGED <<operator, served, decided, overlapping, reissued>>

Refreshing(p) == \E q \in Requests : work[q].op \in {"refresh", "store"} /\ work[q].name = p

\* logout, with a cookie that is valid
Logout(r) ==
    \E b \in Browsers :
        LET p == Session(b)
        IN  /\ p # None
            /\ Begin(r, [Idle EXCEPT !.op = "logout", !.id = Target(p), !.name = p,
                                     !.browser = b])
            /\ signedOut' = IF Refreshing(p) THEN signedOut ELSE signedOut \cup {p}
            /\ UNCHANGED overlapping

\* logout with an expired cookie forgets no token.
LogoutExpired(b) ==
    /\ cookie[b] # None /\ ~cookie[b].live
    /\ cookie' = [cookie EXCEPT ![b] = None]
    /\ UNCHANGED <<tables, work, served, ghosts>>

\* Mutant: the token stays.
ForgetToken_Keeps(r) ==
    /\ work[r].op = "logout"
    /\ cookie' = [cookie EXCEPT ![work[r].browser] = None]
    /\ Finish(r)
    /\ UNCHANGED <<operator, token, served, ghosts>>

\* forget_token, and the cookie is deleted
ForgetToken(r) ==
    /\ work[r].op = "logout"
    /\ token' = IF work[r].id = 0 THEN token ELSE [token EXCEPT ![work[r].id] = NoRow]
    /\ cookie' = [cookie EXCEPT ![work[r].browser] = None]
    /\ Finish(r)
    /\ UNCHANGED <<operator, served, ghosts>>

\* load_token, for a request that reads Control Hub: a token that has expired
\* is refreshed.
LoadToken(r) ==
    \E b \in Browsers :
        LET p == Session(b)
        IN  /\ Viewer(b)
            /\ \E i \in Named(token, p) :
                  /\ Opens(token[i].access, p)
                  /\ \/ /\ ~token[i].expired
                        /\ Begin(r, [Idle EXCEPT !.op = "use", !.name = p,
                                                 !.access = token[i].access])
                        /\ UNCHANGED signedOut
                     \/ /\ token[i].expired
                        /\ token[i].refresh # None /\ Opens(token[i].refresh, p)
                        /\ Begin(r, [Idle EXCEPT !.op = "refresh", !.name = p,
                                                 !.access = token[i].refresh])
                        /\ signedOut' = signedOut \ {p}
            /\ UNCHANGED overlapping

\* Mutant: without a new refresh token the old one is not kept.
Refresh_Drops(r) ==
    /\ work[r].op = "refresh"
    /\ \E renewed \in BOOLEAN :
          work' = [work EXCEPT ![r] = [@ EXCEPT !.op = "store", !.id = Target(work[r].name),
                                                !.renewable = renewed]]
    /\ UNCHANGED <<tables, cookie, served, ghosts>>

\* WebexOAuth.refresh answered, with a new refresh token or without.
Refresh(r) ==
    /\ work[r].op = "refresh"
    /\ work' = [work EXCEPT ![r] = [@ EXCEPT !.op = "store", !.id = Target(work[r].name),
                                             !.renewable = TRUE]]
    /\ UNCHANGED <<tables, cookie, served, ghosts>>

Refreshed(r) ==
    /\ work[r].op = "store"
    /\ StoreToken(work[r])
    /\ work' = [work EXCEPT ![r] = [@ EXCEPT !.op = "use"]]
    /\ UNCHANGED <<operator, cookie, served, ghosts>>

\* The request ends without a write: Control Hub has answered, the write is
\* refused or the database is locked, or its process is killed.
Abandon(r) ==
    /\ work[r].op # "idle"
    /\ Finish(r)
    /\ signedOut' = IF work[r].op = "logout" THEN signedOut \ {work[r].name} ELSE signedOut
    /\ UNCHANGED <<tables, cookie, served, decided, overlapping, reissued>>

\* Time passes.
CookieExpires ==
    /\ \E b \in Browsers : Session(b) # None /\ cookie' = [cookie EXCEPT ![b].live = FALSE]
    /\ UNCHANGED <<tables, work, served, ghosts>>

TokenExpires ==
    /\ \E i \in Rows(token) : ~token[i].expired /\ token' = [token EXCEPT ![i].expired = TRUE]
    /\ UNCHANGED <<operator, cookie, work, served, ghosts>>

-----------------------------------------------------------------------------

Deciders(r) == Grant(r) \/ UpdateGrant(r) \/ DisableGrant(r) \/ DeleteGrant(r)
Decisions(r) == InsertGrant(r) \/ UpdateGrantRow(r) \/ RemoveGrant(r)
Sessions(r) == Callback(r) \/ SignIn(r) \/ Me(r) \/ TouchLastSeen(r) \/ Logout(r) \/ ForgetToken(r)
Tokens(r) == LoadToken(r) \/ Refresh(r) \/ Refreshed(r)

Next ==
    \/ \E r \in Requests : Deciders(r) \/ Decisions(r) \/ Sessions(r) \/ Tokens(r) \/ Abandon(r)
    \/ \E b \in Browsers : LogoutExpired(b)
    \/ CookieExpires \/ TokenExpires

Spec == Init /\ [][Next]_vars

-----------------------------------------------------------------------------
(* Properties                                                              *)

\* The access on record for a person is what the decisions about that person
\* amount to, in the order in which they were written, whatever the requests
\* that only note a visit write in between (touch_last_seen, app/roles.py:68);
\* unless two decisions about one person overlapped (each writes only the
\* columns it changed) or an id was reissued.
GrantsAsDecided ==
    reissued \/ \A p \in People \ overlapping : Recorded(p) = decided[p]

\* One whose access was disabled has none until it is granted again or the
\* grant removed, whatever the default role is (app/roles.py:54), unless
\* decisions overlapped.
DisabledStaysOut ==
    reissued \/ \A p \in People \ (overlapping \cup Bootstrap) :
        decided[p] # None /\ ~decided[p].enabled => RoleOf(p) = None

\* Control Hub is read with the caller's own token, even if the row of a token
\* was reissued while another was being stored (app/webex_session.py:41-48).
UsesOwnToken ==
    \A r \in Requests : work[r].op = "use" => work[r].access = work[r].name

\* "signing out should not leave an admin-scoped credential sitting in the
\* datastore" (app/api/auth_routes.py:160): once a sign-out with a valid cookie
\* is through, the token is gone until the next sign-in, unless it was being
\* refreshed during the sign-out.
SignedOutForgotten ==
    \A p \in signedOut :
        \/ Named(token, p) = {}
        \/ \E r \in Requests : work[r].op = "logout" /\ work[r].name = p

\* What can be refreshed stays so until it is forgotten or its owner signs in
\* again: Webex may leave the refresh token out when it refreshes
\* (app/auth.py:229).
StillRefreshable ==
    [][\A i \in Ids :
          token[i] # NoRow /\ token'[i] # NoRow /\ token[i].refresh # None /\ token'[i].refresh = None
             => \E r \in Requests : work[r].op = "callback" /\ work'[r].op = "idle"]_vars

=============================================================================
