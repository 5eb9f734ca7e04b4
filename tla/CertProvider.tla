---------------------------- MODULE CertProvider ----------------------------
(***************************************************************************)
(* What a certificate provider promises to those who call its issue        *)
(* (app/ca/base.py:25, app/dns/base.py:26), whatever goes on inside: a     *)
(* call ends once, with a certificate that the CA has issued for it or     *)
(* with an error; after an error it has neither obtained a certificate nor *)
(* left traces in the zone unless it broke down, and no call clears the    *)
(* traces of another one.                                                  *)
(***************************************************************************)

CONSTANTS Calls        \* the calls of issue

VARIABLES stage,       \* how far each call is
          certified,   \* the calls the CA has issued a certificate for
          littered,    \* the calls that have challenge records in the zone
          broken       \* the calls in which something broke down

calls == <<stage, certified, littered, broken>>

Init ==
    /\ stage = [c \in Calls |-> "new"]
    /\ certified = {}
    /\ littered = {}
    /\ broken = {}

Move(c, from, to) == stage[c] = from /\ stage' = [stage EXCEPT ![c] = to]

Begin(c) ==
    /\ Move(c, "new", "open")
    /\ UNCHANGED <<certified, littered, broken>>

\* Records come and go, and the certificate may be issued.
Work(c) ==
    /\ stage[c] = "open"
    /\ certified' \in {certified, certified \cup {c}}
    /\ littered' \in {littered, littered \cup {c}, littered \ {c}}
    /\ broken' \in {broken, broken \cup {c}}
    /\ UNCHANGED stage

Return(c) ==
    /\ Move(c, "open", "issued")
    /\ c \in certified
    /\ c \in littered => c \in broken
    /\ UNCHANGED <<certified, littered, broken>>

Raise(c) ==
    /\ Move(c, "open", "failed")
    /\ littered' \in {littered, littered \ {c}}
    /\ broken' \in {broken, broken \cup {c}}
    /\ c \in certified \cup littered' => c \in broken'
    /\ UNCHANGED certified

\* An operator clears the zone.
Clear ==
    /\ \E c \in littered : littered' = littered \ {c}
    /\ UNCHANGED <<stage, certified, broken>>

Next ==
    \/ \E c \in Calls : Begin(c) \/ Work(c) \/ Return(c) \/ Raise(c)
    \/ Clear

Spec == Init /\ [][Next]_calls

=============================================================================
