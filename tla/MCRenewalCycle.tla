-------------------------- MODULE MCRenewalCycle --------------------------
(* RenewalCycle on small fleets with short-lived certificates.             *)
EXTENDS RenewalCycle, TLC

\* renewal_threshold spreads the fleet: one device is due a day before the
\* others.
SpreadFrom(days) ==
    [d \in Devices |-> IF d = CHOOSE e \in Devices : TRUE THEN days ELSE days + 1]

From0 == SpreadFrom(0)
From2 == SpreadFrom(2)

=============================================================================
