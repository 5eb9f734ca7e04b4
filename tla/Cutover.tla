------------------------------ MODULE Cutover ------------------------------
(***************************************************************************)
(* What a blue/green deployment promises, seen from a SIP peer of the      *)
(* gateway (the docstring of app/deployment.py, lines 3 to 18): the        *)
(* certificate presented changes in one step, from the old one to one that *)
(* was issued for this device, and in between nothing that is presented is *)
(* ever taken away.  Only a reload goes back, to what was last saved.      *)
(***************************************************************************)
EXTENDS Naturals

CONSTANTS Offerable,   \* the certificates that may ever be issued
          Nothing      \* no certificate is presented

VARIABLES offered,     \* the newest certificate issued
          serving,     \* the certificate presented, or Nothing
          startup      \* what is presented after a reload

view == <<offered, serving, startup>>

Init ==
    /\ offered = 0
    /\ serving \in {0, Nothing}
    /\ startup = serving

Offer ==
    /\ offered' = offered + 1
    /\ offered' \in Offerable
    /\ UNCHANGED <<serving, startup>>

Switch ==
    /\ serving' \in {c \in Offerable : 0 < c /\ c <= offered}
    /\ UNCHANGED <<offered, startup>>

Persist ==
    /\ startup' = serving
    /\ UNCHANGED <<offered, serving>>

Restart ==
    /\ serving' = startup
    /\ UNCHANGED <<offered, startup>>

Next == Offer \/ Switch \/ Persist \/ Restart

Spec == Init /\ [][Next]_view

=============================================================================
