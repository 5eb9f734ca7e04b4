---------------------------- MODULE MCAcmeOrder ----------------------------
(* AcmeOrder on a few orders, names and nameservers.                       *)
EXTENDS AcmeOrder

\* One order has one more name than the others.
Mixed == [o \in Orders |-> IF o = CHOOSE p \in Orders : TRUE THEN Names
                           ELSE {CHOOSE n \in Names : TRUE}]

=============================================================================
