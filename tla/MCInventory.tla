---------------------------- MODULE MCInventory ----------------------------
(* Inventory from a few small datastores.                                  *)
EXTENDS Inventory, TLC

CONSTANTS c1, c2, t1, t2, d1, d2, o1

Empty == [i \in Ids |-> NoRow]

Profile(n) == [name |-> n, eab |-> None]
Client(n, org) == [name |-> n, ca |-> 1, org |-> org, cred |-> n]
Gateway(n, own) == [name |-> n, tenant |-> 1, enabled |-> TRUE, key |-> None,
                    cred |-> IF own THEN n ELSE None]
Certificate(i, n) == [device |-> i, ca |-> 1, subject |-> n, sealed |-> n]

\* Two clients, one of them linked, and a second CA to move to
Clients == [ca |-> [Empty EXCEPT ![1] = Profile(c1), ![2] = Profile(c2)],
            tenant |-> [Empty EXCEPT ![1] = Client(t1, o1), ![2] = Client(t2, None)],
            device |-> Empty, cert |-> Empty]

\* One client with a gateway that has a certificate
Fleet == [ca |-> [Empty EXCEPT ![1] = [Profile(c1) EXCEPT !.eab = c1], ![2] = Profile(c2)],
          tenant |-> [Empty EXCEPT ![1] = Client(t1, None)],
          device |-> [Empty EXCEPT ![1] = Gateway(d1, TRUE)],
          cert |-> [Empty EXCEPT ![1] = Certificate(1, d1)]]

SmallStores == {Clients, Fleet}

Servers == Permutations(Requests)

=============================================================================
