----------------------------- MODULE AcmeOrder -----------------------------
(***************************************************************************)
(* Orders at an ACME CA: app/ca/acme_provider.py with the account of one   *)
(* CA profile (DbAccountStore), the TXT records of its DNS-01 challenges   *)
(* (app/dns/cloudflare.py) and the wait until the nameservers serve them   *)
(* (app/dns/propagation.py).  An order is one call of AcmeProvider.issue;  *)
(* orders of the scheduler, the API and the CLI run at the same time and   *)
(* may be for the same names.  The CA, the DNS provider and its            *)
(* nameservers are external.                                               *)
(***************************************************************************)

CONSTANTS
    Orders,      \* the calls of issue
    Names,       \* the names that certificates are ordered for
    NamesOf,     \* the names of each order
    Servers,     \* the authoritative nameservers of the zone
    Hidden,      \* those that this host may be unable to reach
    Directories, \* the ACME directories
    Faults,      \* what may go wrong, besides calls that fail without effect
    Exclusive,   \* no order starts while another one opens its account
    NoDir, NoKey, NoUri, NoName

Phases == {"idle", "key", "register", "keep", "order",
           "create", "wait", "answer", "finalize", "cleanup", "issued", "failed"}

Joining == {"key", "register", "keep"}
Solving == {"create", "wait", "answer", "finalize"}
Over == {"issued", "failed"}

ASSUME AcmeAssumption ==
    /\ NamesOf \in [Orders -> (SUBSET Names) \ {{}}]
    /\ Hidden \subseteq Servers
    /\ Faults \subseteq {"kill", "unanswered", "undeleted", "sweep", "move"}
    /\ Exclusive \in BOOLEAN

\* An order generates at most one account key, which bears its name here, and
\* an account is a key registered in a directory.
Accounts == [dir : Directories, key : Orders]

ASSUME AcmeNullAssumption ==
    /\ NoKey \notin Orders /\ NoUri \notin Accounts /\ NoName \notin Names
    /\ NoDir \notin Directories

\* The challenge of an order for a name has a value of its own.
Records == [order : Orders, name : Names]

VARIABLES
    dir, key, uri, \* the CA profile: directory, account key and account
    accounts,      \* the accounts the CA knows
    certified,     \* the orders the CA has issued a certificate for
    zone,          \* the TXT records the DNS provider holds
    seen,          \* those each nameserver serves
    pc, job,       \* what each order does next, and its locals
    broken         \* the orders that were killed, whose call took effect and
                   \* went unanswered, or whose removal of a record failed

profile == <<dir, key, uri>>
ca == <<accounts, certified>>
dns == <<zone, seen>>
vars == <<profile, ca, dns, pc, job, broken>>

Stages == {"none", "pending", "answered", "valid", "invalid"}

\* dir, key, uri: the profile as loaded; todo: names not yet answered; at: the
\* name in hand; made: created; left: the servers to agree; has: it has got
\* the certificate; authz: its authorisations, at the CA; swept: a sweep has
\* taken a record from it
Jobs == [dir : Directories \cup {NoDir}, key : Orders \cup {NoKey},
         uri : Accounts \cup {NoUri}, todo : SUBSET Names, at : Names \cup {NoName},
         made : SUBSET Records, left : SUBSET Servers, has : BOOLEAN,
         authz : [Names -> Stages], swept : BOOLEAN]

Blank == [dir |-> NoDir, key |-> NoKey, uri |-> NoUri, todo |-> {}, at |-> NoName,
          made |-> {}, left |-> {}, has |-> FALSE,
          authz |-> [n \in Names |-> "none"], swept |-> FALSE]

TypeOK ==
    /\ dir \in Directories
    /\ key \in Orders \cup {NoKey}
    /\ uri \in Accounts \cup {NoUri}
    /\ accounts \subseteq Accounts
    /\ certified \subseteq Orders
    /\ zone \subseteq Records
    /\ seen \in [Servers -> SUBSET Records]
    /\ pc \in [Orders -> Phases]
    /\ job \in [Orders -> Jobs]
    /\ broken \subseteq Orders

Init ==
    /\ dir \in Directories
    /\ key = NoKey
    /\ uri = NoUri
    /\ accounts = {}
    /\ certified = {}
    /\ zone = {}
    /\ seen = [s \in Servers |-> {}]
    /\ pc = [o \in Orders |-> "idle"]
    /\ job = [o \in Orders |-> Blank]
    /\ broken = {}

-----------------------------------------------------------------------------

Rec(o, n) == [order |-> o, name |-> n]

Goto(o, phase) == pc' = [pc EXCEPT ![o] = phase]

\* The call returns or raises: its locals are gone.
Return(o, phase) ==
    /\ Goto(o, phase)
    /\ job' = [job EXCEPT ![o] = Blank]

Break(o) == broken' = broken \cup {o}

-----------------------------------------------------------------------------
(* The account                                                             *)

\* _ca_profile_for, _provider
Start(o) ==
    /\ pc[o] = "idle"
    /\ Exclusive => \A p \in Orders : pc[p] \notin Joining
    /\ job' = [job EXCEPT ![o] = [Blank EXCEPT !.dir = dir, !.key = key, !.uri = uri]]
    /\ Goto(o, "key")
    /\ UNCHANGED <<profile, ca, dns, broken>>

\* Mutant: a new account key is stored and not used.
AccountKey_Unused(o) ==
    /\ pc[o] = "key"
    /\ key' = IF job[o].key = NoKey THEN o ELSE key
    /\ Goto(o, IF job[o].uri = NoUri THEN "register" ELSE "order")
    /\ UNCHANGED <<dir, uri, ca, dns, job, broken>>

\* Mutant: a new account key is used and not stored.
AccountKey_Unsaved(o) ==
    /\ pc[o] = "key"
    /\ job' = [job EXCEPT ![o].key = IF @ = NoKey THEN o ELSE @]
    /\ Goto(o, IF job[o].uri = NoUri THEN "register" ELSE "order")
    /\ UNCHANGED <<profile, ca, dns, broken>>

\* _load_or_create_account_key and load_account_uri.  The first one's commit makes the sessions of the API, but
\* not those of the cycle and the CLI, read the profile again.
AccountKey(o) ==
    /\ pc[o] = "key"
    /\ \/ /\ job[o].key # NoKey
          /\ Goto(o, IF job[o].uri = NoUri THEN "register" ELSE "order")
          /\ UNCHANGED <<key, job>>
       \/ /\ job[o].key = NoKey
          /\ key' = o
          /\ \E known \in {job[o].uri, uri} :
                /\ job' = [job EXCEPT ![o].key = o, ![o].uri = known]
                /\ Goto(o, IF known = NoUri THEN "register" ELSE "order")
    /\ UNCHANGED <<dir, uri, ca, dns, broken>>

Own(o) == [dir |-> job[o].dir, key |-> job[o].key]

\* new_account.  A key that is registered already is a conflict, which is an
\* error to the code: then only GiveUp is left.
Register(o) ==
    /\ pc[o] = "register"
    /\ Own(o) \notin accounts
    /\ accounts' = accounts \cup {Own(o)}
    /\ \/ Goto(o, "keep") /\ UNCHANGED <<job, broken>>
       \/ /\ "unanswered" \in Faults
          /\ Return(o, "failed") /\ Break(o)
    /\ UNCHANGED <<profile, certified, dns>>

\* Mutant: the account is attached and not stored.
KeepUri_Unsaved(o) ==
    /\ pc[o] = "keep"
    /\ job' = [job EXCEPT ![o].uri = Own(o)]
    /\ Goto(o, "order")
    /\ UNCHANGED <<profile, ca, dns, broken>>

\* save_account_uri
KeepUri(o) ==
    /\ pc[o] = "keep"
    /\ uri' = Own(o)
    /\ job' = [job EXCEPT ![o].uri = Own(o)]
    /\ Goto(o, "order")
    /\ UNCHANGED <<dir, key, ca, dns, broken>>

\* new_order: the CA takes an order that is signed with the key of an account
\* of its own; else only GiveUp is left.
NewOrder(o) ==
    /\ pc[o] = "order"
    /\ job[o].uri = Own(o) /\ Own(o) \in accounts
    /\ job' = [job EXCEPT ![o].todo = NamesOf[o], ![o].authz =
                    [n \in Names |-> IF n \in NamesOf[o] THEN "pending" ELSE "none"]]
    /\ Goto(o, "create")
    /\ UNCHANGED <<profile, ca, dns, broken>>

\* A call up to the order fails or is refused.
GiveUp(o) ==
    /\ pc[o] \in {"key", "register", "order"}
    /\ Return(o, "failed")
    /\ UNCHANGED <<profile, ca, dns, broken>>

-----------------------------------------------------------------------------
(* The challenges                                                          *)

\* create_txt, and _resolve_ns_addresses for the wait
CreateRecord(o) ==
    /\ pc[o] = "create"
    /\ \E n \in job[o].todo :
          /\ zone' = zone \cup {Rec(o, n)}
          /\ \/ /\ Goto(o, "wait")
                /\ \E left \in SUBSET Servers :
                      /\ Servers \ Hidden \subseteq left /\ left # {}
                      /\ job' = [job EXCEPT ![o].at = n, ![o].left = left,
                                            ![o].made = @ \cup {Rec(o, n)}]
                /\ UNCHANGED broken
             \/ /\ "unanswered" \in Faults
                /\ Goto(o, "cleanup")
                /\ Break(o)
                /\ UNCHANGED job
    /\ UNCHANGED <<profile, ca, seen>>

\* wait_for_txt: one more nameserver serves the record.
Poll(o) ==
    /\ pc[o] = "wait"
    /\ \E s \in job[o].left :
          /\ Rec(o, job[o].at) \in seen[s]
          /\ job' = [job EXCEPT ![o].left = @ \ {s}]
          /\ Goto(o, IF job[o].left = {s} THEN "answer" ELSE "wait")
    /\ UNCHANGED <<profile, ca, dns, broken>>

\* answer_challenge
Answer(o) ==
    LET rest == job[o].todo \ {job[o].at}
    IN  /\ pc[o] = "answer"
        /\ job' = [job EXCEPT ![o].todo = rest, ![o].authz[job[o].at] = "answered"]
        /\ \/ Goto(o, IF rest = {} THEN "finalize" ELSE "create") /\ UNCHANGED broken
           \/ "unanswered" \in Faults /\ Goto(o, "cleanup") /\ Break(o)
        /\ UNCHANGED <<profile, ca, dns>>

\* finalize_order
Finalize(o) ==
    /\ pc[o] = "finalize"
    /\ \A n \in Names : job[o].authz[n] \in {"none", "valid"}
    /\ certified' = certified \cup {o}
    /\ \/ job' = [job EXCEPT ![o].has = TRUE] /\ UNCHANGED broken
       \/ "unanswered" \in Faults /\ Break(o) /\ UNCHANGED job
    /\ Goto(o, "cleanup")
    /\ UNCHANGED <<profile, accounts, dns>>

\* Mutant: a record that is not served in time is waited for without end.
Fail_Patient(o) ==
    /\ pc[o] \in Solving \ {"wait"}
    /\ Goto(o, "cleanup")
    /\ UNCHANGED <<profile, ca, dns, job, broken>>

\* A call within the try fails without effect, a deadline passes, the name is
\* delegated or its validation failed.
Fail(o) ==
    /\ pc[o] \in Solving
    /\ Goto(o, "cleanup")
    /\ UNCHANGED <<profile, ca, dns, job, broken>>

\* Mutant: the records are removed when the order has succeeded.
Cleanup_Success(o) ==
    /\ pc[o] = "cleanup"
    /\ \/ /\ ~job[o].has \/ job[o].made = {}
          /\ Return(o, IF job[o].has THEN "issued" ELSE "failed")
          /\ UNCHANGED <<zone, broken>>
       \/ \E r \in job[o].made :
             /\ job[o].has
             /\ job' = [job EXCEPT ![o].made = @ \ {r}]
             /\ zone' = zone \ {r}
             /\ UNCHANGED <<pc, broken>>
    /\ UNCHANGED <<profile, ca, seen>>

\* Mutant: all records of the name are removed.
Cleanup_ByName(o) ==
    /\ pc[o] = "cleanup"
    /\ \/ /\ job[o].made = {}
          /\ Return(o, IF job[o].has THEN "issued" ELSE "failed")
          /\ UNCHANGED <<zone, broken>>
       \/ \E r \in job[o].made :
             /\ job' = [job EXCEPT ![o].made = @ \ {r}]
             /\ zone' = {q \in zone : q.name # r.name}
             /\ UNCHANGED <<pc, broken>>
    /\ UNCHANGED <<profile, ca, seen>>

\* Mutant: a refused removal raises.
Cleanup_Raises(o) ==
    /\ pc[o] = "cleanup"
    /\ \/ /\ job[o].made = {}
          /\ Return(o, IF job[o].has THEN "issued" ELSE "failed")
          /\ UNCHANGED <<zone, broken>>
       \/ \E r \in job[o].made :
             \/ /\ r \in zone
                /\ job' = [job EXCEPT ![o].made = @ \ {r}]
                /\ zone' = zone \ {r}
                /\ UNCHANGED <<pc, broken>>
             \/ r \notin zone /\ Return(o, "failed") /\ UNCHANGED <<zone, broken>>
    /\ UNCHANGED <<profile, ca, seen>>

\* The finally clause: delete_txt for each record.  The answer that a record
\* is gone, or any other refusal, is logged; an error of the connection is
\* raised, and neither the other records nor the certificate are looked at.
Cleanup(o) ==
    /\ pc[o] = "cleanup"
    /\ \/ /\ job[o].made = {}
          /\ Return(o, IF job[o].has THEN "issued" ELSE "failed")
          /\ UNCHANGED <<zone, broken>>
       \/ \E r \in job[o].made :
             \/ /\ job' = [job EXCEPT ![o].made = @ \ {r}]
                /\ zone' = zone \ {r}
                /\ UNCHANGED <<pc, broken>>
             \/ /\ "undeleted" \in Faults
                /\ job' = [job EXCEPT ![o].made = @ \ {r}]
                /\ Break(o)
                /\ UNCHANGED <<pc, zone>>
             \/ /\ "undeleted" \in Faults
                /\ zone' \in {zone, zone \ {r}}
                /\ Break(o)
                /\ Return(o, "failed")
    /\ UNCHANGED <<profile, ca, seen>>

-----------------------------------------------------------------------------
(* The rest of the world                                                   *)

\* A nameserver comes up to date.
Propagate(s) ==
    /\ seen' = [seen EXCEPT ![s] = zone]
    /\ UNCHANGED <<profile, ca, zone, pc, job, broken>>

\* The CA asks one of the nameservers.
Validate(o) ==
    /\ pc[o] \in Solving
    /\ \E n \in Names, s \in Servers :
          /\ job[o].authz[n] = "answered"
          /\ job' = [job EXCEPT ![o].authz[n] =
                         IF Rec(o, n) \in seen[s] THEN "valid" ELSE "invalid"]
    /\ UNCHANGED <<profile, ca, dns, pc, broken>>

Kill(o) ==
    /\ "kill" \in Faults
    /\ pc[o] \notin Over \cup {"idle"}
    /\ Return(o, "failed")
    /\ Break(o)
    /\ UNCHANGED <<profile, ca, dns>>

\* The console and the CLI list the challenge records of the zone and delete
\* them one by one, those of orders under way included.
Sweep ==
    /\ "sweep" \in Faults
    /\ \E r \in zone :
          /\ zone' = zone \ {r}
          /\ IF pc[r.order] \in Solving THEN job' = [job EXCEPT ![r.order].swept = TRUE]
             ELSE UNCHANGED job
    /\ UNCHANGED <<profile, ca, seen, pc, broken>>

\* update_ca_profile with another directory: key and account stay.
Move ==
    /\ "move" \in Faults
    /\ dir' \in Directories \ {dir}
    /\ UNCHANGED <<key, uri, ca, dns, pc, job, broken>>

-----------------------------------------------------------------------------

Step(o) ==
    \/ AccountKey(o) \/ Register(o) \/ KeepUri(o) \/ NewOrder(o)
    \/ GiveUp(o) \/ CreateRecord(o) \/ Poll(o) \/ Answer(o) \/ Finalize(o)
    \/ Fail(o) \/ Cleanup(o)

Next ==
    \/ \E o \in Orders : Start(o) \/ Step(o) \/ Validate(o) \/ Kill(o)
    \/ \E s \in Servers : Propagate(s)
    \/ Sweep \/ Move

Spec == Init /\ [][Next]_vars

\* Every call of an order ends, if only by its timeout.
FairSpec == Spec /\ \A o \in Orders : WF_vars(Step(o))

-----------------------------------------------------------------------------
(* Properties                                                              *)

(***************************************************************************)
(* Once a challenge has been answered, every nameserver that can be asked  *)
(* serves its record for as long as the CA may ask (wait_for_txt before    *)
(* answer_challenge, deletion only in the finally clause), although other  *)
(* orders for the same name create and delete records; unless a sweep has  *)
(* taken the record away.                                                  *)
(***************************************************************************)
ChallengesStand ==
    \A o \in Orders, n \in Names, s \in Servers \ Hidden :
        pc[o] \in Solving /\ job[o].authz[n] = "answered" /\ ~job[o].swept
            => Rec(o, n) \in seen[s]

(***************************************************************************)
(* An order that is over has left no record in the zone, however it ended  *)
(* (app/ca/acme_provider.py:314-316): only a killed process, a creation    *)
(* whose answer was lost and a failed deletion leave one.                  *)
(***************************************************************************)
NoLeftovers ==
    \A r \in zone :
        pc[r.order] \in Over => r.order \in broken

(***************************************************************************)
(* A certificate that the CA has issued reaches the caller: removing the   *)
(* records in between does not lose it (app/dns/cloudflare.py:108-109)     *)
(* unless the process is killed, an answer is lost or a removal raises.    *)
(***************************************************************************)
IssuedKept ==
    \A o \in certified :
        pc[o] = "failed" => o \in broken

(***************************************************************************)
(* Seen by its callers, issue keeps the promises of CertProvider: it       *)
(* returns a certificate that the CA has issued for this very call, and    *)
(* what the CA has issued is not lost in the clean-up (app/ca/             *)
(* acme_provider.py:314-318, app/dns/cloudflare.py:108-109), which takes   *)
(* away no other call's records.                                           *)
(***************************************************************************)
Provider == INSTANCE CertProvider WITH
                Calls <- Orders,
                stage <- [o \in Orders |-> IF pc[o] = "idle" THEN "new"
                                           ELSE IF pc[o] \in Over THEN pc[o] ELSE "open"],
                littered <- {o \in Orders : \E r \in zone : r.order = o}
PromisesKept == Provider!Spec

(***************************************************************************)
(* The account on record exists at the CA and belongs to the account key   *)
(* on record (DbAccountStore), also after kills between their two commits; *)
(* else every later order is refused.                                      *)
(***************************************************************************)
AccountSound == uri # NoUri => uri \in accounts /\ uri.key = key

(***************************************************************************)
(* A key that has been registered is never left without its account on     *)
(* record, for it cannot be registered again (app/ca/acme_provider.py:     *)
(* 231-239); only a kill or a lost answer right after it can do that.      *)
(***************************************************************************)
AccountKept ==
    key # NoKey /\ uri = NoUri /\ (\E d \in Directories : [dir |-> d, key |-> key] \in accounts)
        => \E o \in Orders : pc[o] = "keep" \/ o \in broken

(***************************************************************************)
(* The account on record is one of the directory on record (app/db/        *)
(* models.py:114: "An ACME account against a specific CA directory").      *)
(***************************************************************************)
AccountAtDirectory == uri # NoUri => uri.dir = dir

(***************************************************************************)
(* An order that has been started ends, whatever the DNS and the CA do.    *)
(***************************************************************************)
OrdersEnd == \A o \in Orders : pc[o] # "idle" ~> pc[o] \in Over

=============================================================================
