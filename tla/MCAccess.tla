------------------------------ MODULE MCAccess ------------------------------
(* Access with one bootstrap admin and one person with a grant.            *)
EXTENDS Access, TLC

CONSTANTS p1, p2, b1

Empty == [i \in Ids |-> NoRow]

Grantee == [name |-> p2, role |-> "admin", enabled |-> TRUE]
Renewable == [name |-> p2, access |-> p2, refresh |-> p2, expired |-> FALSE]

OneGrant == {[operator |-> [Empty EXCEPT ![1] = Grantee],
              token |-> [Empty EXCEPT ![1] = Renewable],
              cookie |-> [[b \in Browsers |-> None] EXCEPT ![b1] = [name |-> p2, live |-> TRUE]]]}

Servers == Permutations(Requests)

=============================================================================
