------------------------------ MODULE Gateway ------------------------------
(***************************************************************************)
(* One voice gateway as app/devices/ssh.py drives it: its trustpoints, its *)
(* RSA key pairs, the trustpoint that sip-ua is bound to, the startup      *)
(* configuration and the one bundle file on flash.  Each operator below is *)
(* what one transport operation does to the gateway when it takes effect;  *)
(* whether it takes effect, fails or is refused is decided by the caller   *)
(* (module Deployment).  IOS-XE itself is external: its behaviour is the   *)
(* one the transport's code and docstrings rely on.                        *)
(***************************************************************************)
EXTENDS Naturals

CONSTANTS
    Labels,     \* the trustpoint labels that can exist on the gateway
    Leftovers,  \* the labels on which an earlier attempt may have left remains
    MaxIssued,  \* bound: how many certificates the CA issues for the device
    NoLabel,    \* sip-ua is bound to nothing
    Absent,     \* the label is not a trustpoint of running-config
    Empty,      \* the trustpoint is defined and holds no certificate
    NoFile      \* no bundle on flash

\* Certificate 0 is the one the gateway held before it was enrolled;
\* 1..MaxIssued are issued in this order, each outliving the one before.
Certs == 0 .. MaxIssued

ASSUME MaxIssuedAssumption == MaxIssued \in Nat
ASSUME LeftoversAssumption == Leftovers \subseteq Labels
ASSUME NullAssumption ==
    /\ NoLabel \notin Labels
    /\ Absent \notin Certs /\ Empty \notin Certs /\ NoFile \notin Certs
    /\ Absent # Empty

VARIABLES
    tp,      \* what each label's trustpoint holds
    key,     \* the labels that have an RSA key pair
    derived, \* the labels whose import left -rrrN CA trustpoints
    bound,   \* crypto signaling default trustpoint
    saved,   \* the startup configuration: the four above at the last save
    flash    \* whose bundle is in htautocert.p12

running == <<tp, key, derived, bound>>
gateway == <<tp, key, derived, bound, saved, flash>>

-----------------------------------------------------------------------------

Holdings == Certs \cup {Absent, Empty}

Configs == [tp : [Labels -> Holdings], key : SUBSET Labels,
            derived : SUBSET Labels, bound : Labels \cup {NoLabel}]

RunningConfig == [tp |-> tp, key |-> key, derived |-> derived, bound |-> bound]

GatewayTypeOK ==
    /\ tp \in [Labels -> Holdings]
    /\ key \subseteq Labels
    /\ derived \subseteq Labels
    /\ bound \in Labels \cup {NoLabel}
    /\ saved \in Configs
    /\ flash \in Certs \cup {NoFile}

\* A gateway before enrolment: some trustpoints hold certificate 0 with their
\* keys, and what is bound does hold it.  Labels in Leftovers may also carry
\* what a failed import leaves: an empty trustpoint, a key pair, or both.
GatewayInit ==
    /\ tp \in [Labels -> {Absent, Empty, 0}]
    /\ \A l \in Labels \ Leftovers : tp[l] # Empty
    /\ bound \in {l \in Labels : tp[l] = 0} \cup {NoLabel}
    /\ \E orphans \in SUBSET Leftovers :
          key = {l \in Labels : tp[l] = 0} \cup orphans
    /\ derived = {}
    /\ saved = RunningConfig
    /\ flash = NoFile

-----------------------------------------------------------------------------
(* The transport's operations                                              *)

UploadFile(c) ==
    /\ flash' = c
    /\ UNCHANGED <<running, saved>>

DeleteFile ==
    /\ flash' = NoFile
    /\ UNCHANGED <<running, saved>>

\* delete_trustpoint over every label-rrrN that derived_trustpoints lists
ClearDerived(l) ==
    /\ derived' = derived \ {l}
    /\ UNCHANGED <<tp, key, bound, saved, flash>>

DeleteTrustpoint(l) ==
    /\ tp' = [tp EXCEPT ![l] = Absent]
    /\ UNCHANGED <<key, derived, bound, saved, flash>>

ZeroizeKey(l) ==
    /\ key' = key \ {l}
    /\ UNCHANGED <<tp, derived, bound, saved, flash>>

\* The import goes through: the bundle on flash opens with the password of
\* certificate c, the label is free and no key pair of its name is left.
CanImport(l, c) == tp[l] = Absent /\ l \notin key /\ flash = c

ImportPkcs12(l, c) ==
    /\ tp' = [tp EXCEPT ![l] = c]
    /\ key' = key \cup {l}
    /\ derived' = derived \cup {l}
    /\ UNCHANGED <<bound, saved, flash>>

\* A partially-completed import leaves the trustpoint defined but empty.
ImportPartly(l) ==
    /\ tp' = [tp EXCEPT ![l] = Empty]
    /\ key' \in {key, key \cup {l}}
    /\ UNCHANGED <<derived, bound, saved, flash>>

\* Entering "crypto pki trustpoint <label>" defines a trustpoint that is not
\* there yet.
SetRevocationCheck(l) ==
    /\ tp' = [tp EXCEPT ![l] = IF @ = Absent THEN Empty ELSE @]
    /\ UNCHANGED <<key, derived, bound, saved, flash>>

BindTrustpoint(l) ==
    /\ bound' = l
    /\ UNCHANGED <<tp, key, derived, saved, flash>>

\* Mutant: the startup configuration is left as it is.
SaveConfig_Skipped == UNCHANGED gateway

SaveConfig ==
    /\ saved' = RunningConfig
    /\ UNCHANGED <<running, flash>>

\* Back to the startup configuration; flash survives.
ReloadConfig ==
    /\ tp' = saved.tp
    /\ key' = saved.key
    /\ derived' = saved.derived
    /\ bound' = saved.bound
    /\ UNCHANGED <<saved, flash>>

-----------------------------------------------------------------------------

\* The certificate a configuration presents on sip-ua, if any.
Presented(config) ==
    IF config.bound = NoLabel THEN Empty ELSE config.tp[config.bound]

Serving == Presented(RunningConfig)

=============================================================================
