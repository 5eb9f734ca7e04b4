---------------------------- MODULE RenewalCycle ----------------------------
(***************************************************************************)
(* app/scheduler.py and app/issuance.py: the renewal of a fleet, day after *)
(* day.  A cycle selects the devices whose newest certificate is near its  *)
(* end, has a certificate issued for each of them in turn, and deploys     *)
(* what was issued.  The scheduler runs one cycle a day; operators start   *)
(* cycles and issuance runs of their own through the API and the CLI, in   *)
(* other threads and processes, on the same datastore.  A deployment is    *)
(* one step here: module Deployment has the detail.                        *)
(***************************************************************************)
EXTENDS Integers

CONSTANTS
    Devices,      \* the gateways
    Validity,     \* days a new certificate lasts
    Threshold,    \* renewal_threshold of each device
    Sched,        \* the cycle of the scheduler
    Manual,       \* the cycles and issuance runs of operators
    Overlap,      \* an operator's run may overlap another one
    IssueOnly,    \* operators also make runs that do not deploy
    MaxTrouble,   \* bound: days in a row a due device is left without success
    DeployFaults, \* a deployment may fail
    VaultFaults,  \* a stored bundle may fail to open
    Deletes,      \* devices may be deleted
    Switched,     \* the devices that operators disable and enable
    Crashes,      \* a cycle may be cut short
    NoCert,       \* no certificate on record
    Foreign       \* the gateway serves a certificate this program did not issue

Cycles == {Sched} \cup Manual
Days == 0 .. Validity

ASSUME ValidityAssumption == Validity \in Nat \ {0}
ASSUME ThresholdAssumption == Threshold \in [Devices -> Nat]
ASSUME TroubleAssumption == MaxTrouble \in Nat
ASSUME CyclesAssumption == Sched \notin Manual
ASSUME SwitchedAssumption == Switched \subseteq Devices
ASSUME RenewalFlagsAssumption ==
    /\ Overlap \in BOOLEAN /\ IssueOnly \in BOOLEAN /\ DeployFaults \in BOOLEAN
    /\ VaultFaults \in BOOLEAN /\ Deletes \in BOOLEAN /\ Crashes \in BOOLEAN
ASSUME NullsAssumption == NoCert \notin Int /\ Foreign \notin Int /\ NoCert # Foreign

VARIABLES
    enrolled, \* the devices on record
    enabled,  \* those that are enabled and whose tenant is
    passed,   \* those the daily cycle left out when due, and not renewed since
    newest,   \* days left of latest_certificate, per device
    served,   \* days left of what the gateway serves, 0 once it has expired
    fired,    \* the scheduler's cycle of the day has been started or missed
    ordered,  \* unforced orders fulfilled today, per device; counted up to 2
    failing,  \* days in a row without success, per device
    pc,       \* what each cycle does next
    todo,     \* the devices its present loop has still to handle
    at,       \* the device it handles now
    got,      \* the devices it has obtained a certificate for
    pick,     \* days left of the certificate it is about to deploy
    mode      \* deploy: it deploys; force: it issues whether due or not

devices == <<enrolled, enabled, passed, newest, served, ordered, failing>>
cycles == <<pc, todo, at, got, pick, mode>>
vars == <<devices, fired, cycles>>

Phases == {"idle", "check", "order", "log", "fetch", "push"}
Modes == [deploy : BOOLEAN, force : BOOLEAN]

Automatic == [deploy |-> TRUE, force |-> FALSE]

TypeOK ==
    /\ enabled \subseteq enrolled /\ enrolled \subseteq Devices
    /\ passed \subseteq Devices
    /\ newest \in [Devices -> Days \cup {NoCert}]
    /\ served \in [Devices -> Days \cup {Foreign}]
    /\ fired \in BOOLEAN
    /\ ordered \in [Devices -> 0 .. 2]
    /\ failing \in [Devices -> 0 .. MaxTrouble]
    /\ pc \in [Cycles -> Phases]
    /\ todo \in [Cycles -> SUBSET Devices]
    /\ at \in [Cycles -> Devices]
    /\ got \in [Cycles -> SUBSET Devices]
    /\ pick \in [Cycles -> Days]
    /\ mode \in [Cycles -> Modes]

\* A fleet that has just been enrolled: nothing issued yet, and some devices
\* are not enabled.
Init ==
    /\ enrolled = Devices
    /\ \E off \in SUBSET Switched : enabled = Devices \ off
    /\ passed = {}
    /\ newest = [d \in Devices |-> NoCert]
    /\ served = [d \in Devices |-> Foreign]
    /\ fired = FALSE
    /\ ordered = [d \in Devices |-> 0]
    /\ failing = [d \in Devices |-> 0]
    /\ pc = [k \in Cycles |-> "idle"]
    /\ todo = [k \in Cycles |-> {}]
    /\ \E d \in Devices : at = [k \in Cycles |-> d]
    /\ got = [k \in Cycles |-> {}]
    /\ pick = [k \in Cycles |-> 0]
    /\ mode = [k \in Cycles |-> Automatic]

-----------------------------------------------------------------------------

\* Mutant: the last day of the margin does not count.
Due_Strict(d) == newest[d] \in {NoCert} \cup 0 .. (Threshold[d] - 1)

\* Mutant: a device with nothing on record is not due.
Due_Recorded(d) == newest[d] \in 0 .. Threshold[d]

\* needs_renewal
Due(d) == newest[d] \in {NoCert} \cup 0 .. Threshold[d]

Idle(k) == pc[k] = "idle"

\* The run is over, by a return or an exception, and its locals are gone.
End(k) ==
    /\ pc' = [pc EXCEPT ![k] = "idle"]
    /\ todo' = [todo EXCEPT ![k] = {}]
    /\ got' = [got EXCEPT ![k] = {}]
    /\ pick' = [pick EXCEPT ![k] = 0]
    /\ mode' = [mode EXCEPT ![k] = Automatic]
    /\ UNCHANGED <<fired, at>>

\* On to the next device of the present loop
Proceed(k, phase) ==
    /\ pc' = [pc EXCEPT ![k] = phase]
    /\ todo' = [todo EXCEPT ![k] = @ \ {at[k]}]
    /\ UNCHANGED <<fired, at, pick, mode>>

\* Every row written for a device refers to it, so a write fails once the
\* device is gone, and so does the handler that tries to record the failure.
Record(k, phase) ==
    \/ at[k] \in enrolled /\ Proceed(k, phase) /\ UNCHANGED got
    \/ at[k] \notin enrolled /\ End(k)

-----------------------------------------------------------------------------
(* A cycle                                                                 *)

Begin(k, work, deploy, force) ==
    /\ Idle(k)
    /\ ~Overlap => \A j \in Cycles : Idle(j)
    /\ IF work = {} THEN UNCHANGED <<pc, todo, mode>>
       ELSE /\ pc' = [pc EXCEPT ![k] = "check"]
            /\ todo' = [todo EXCEPT ![k] = work]
            /\ mode' = [mode EXCEPT ![k] = [deploy |-> deploy, force |-> force]]
    /\ UNCHANGED <<at, got, pick>>

\* The selection of run_renewal_cycle
DueDevices == {d \in enabled : Due(d)}

PassedOver == {d \in enrolled \ enabled : Due(d)}

\* run_renewal_cycle, fired once a day
Fire ==
    /\ ~fired
    /\ fired' = TRUE
    /\ passed' = passed \cup PassedOver
    /\ UNCHANGED <<enrolled, enabled, newest, served, ordered, failing>>
    /\ Begin(Sched, DueDevices, TRUE, FALSE)

\* POST /cycle
Trigger(k) ==
    /\ \E deploy \in IF IssueOnly THEN BOOLEAN ELSE {TRUE} :
          Begin(k, DueDevices, deploy, FALSE)
    /\ UNCHANGED <<devices, fired>>

\* POST /devices/{fqdn}/issue, and the CLI's issue over a part of the fleet
IssueRun(k) ==
    /\ IssueOnly
    /\ \E work \in SUBSET enrolled, force \in BOOLEAN : Begin(k, work, FALSE, force)
    /\ UNCHANGED <<devices, fired>>

\* IssuanceService.run decides anew: another run may have renewed the device,
\* which is then logged as skipped.  (A device that is gone is always due.)
Check(k) ==
    /\ pc[k] = "check"
    /\ UNCHANGED devices
    /\ \E d \in todo[k] :
          /\ at' = [at EXCEPT ![k] = d]
          /\ UNCHANGED <<fired, got, pick, mode>>
          /\ \/ /\ Due(d) \/ mode[k].force
                /\ pc' = [pc EXCEPT ![k] = "order"]
                /\ UNCHANGED todo
             \/ /\ ~(Due(d) \/ mode[k].force)
                /\ todo' = [todo EXCEPT ![k] = @ \ {d}]
                /\ UNCHANGED pc

\* Mutant: the first certificate of a device stays the one looked at.
OrderSucceeds_Oldest(k) ==
    LET d == at[k]
    IN  /\ pc[k] = "order"
        /\ d \in enrolled
        /\ newest' = [newest EXCEPT ![d] = IF @ = NoCert THEN Validity ELSE @]
        /\ ordered' = [ordered EXCEPT ![d] =
                          IF mode[k].force \/ @ = 2 THEN @ ELSE @ + 1]
        /\ failing' = [failing EXCEPT ![d] = 0]
        /\ passed' = passed \ {d}
        /\ got' = [got EXCEPT ![k] = @ \cup {d}]
        /\ pc' = [pc EXCEPT ![k] = "log"]
        /\ UNCHANGED <<enrolled, enabled, served, fired, todo, at, pick, mode>>

\* _issue_one: the certificate is obtained and committed
OrderSucceeds(k) ==
    LET d == at[k]
    IN  /\ pc[k] = "order"
        /\ d \in enrolled
        /\ newest' = [newest EXCEPT ![d] = Validity]
        /\ ordered' = [ordered EXCEPT ![d] =
                          IF mode[k].force \/ @ = 2 THEN @ ELSE @ + 1]
        /\ failing' = [failing EXCEPT ![d] = 0]
        /\ passed' = passed \ {d}
        /\ got' = [got EXCEPT ![k] = @ \cup {d}]
        /\ pc' = [pc EXCEPT ![k] = "log"]
        /\ UNCHANGED <<enrolled, enabled, served, fired, todo, at, pick, mode>>

LogIssued(k) ==
    /\ pc[k] = "log"
    /\ UNCHANGED devices
    /\ Record(k, "check")

\* Mutant: the failure of one device is not caught.
OrderFails_Stops(k) ==
    /\ pc[k] = "order"
    /\ failing[at[k]] < MaxTrouble
    /\ failing' = [failing EXCEPT ![at[k]] = @ + 1]
    /\ UNCHANGED <<enrolled, enabled, passed, newest, served, ordered>>
    /\ End(k)

\* The CA, the DNS or the CA profile fails the order, and that is recorded.
OrderFails(k) ==
    /\ pc[k] = "order"
    /\ at[k] \in enrolled => failing[at[k]] < MaxTrouble
    /\ failing' = [failing EXCEPT ![at[k]] = IF at[k] \in enrolled THEN @ + 1 ELSE @]
    /\ UNCHANGED <<enrolled, enabled, passed, newest, served, ordered>>
    /\ Record(k, "check")

\* The loop over the devices is through: deploy what was issued, if anything.
IssuesDone(k) ==
    /\ pc[k] = "check" /\ todo[k] = {}
    /\ UNCHANGED devices
    /\ \/ /\ mode[k].deploy /\ got[k] # {}
          /\ pc' = [pc EXCEPT ![k] = "fetch"]
          /\ todo' = [todo EXCEPT ![k] = got[k]]
          /\ UNCHANGED <<fired, at, got, pick, mode>>
       \/ ~(mode[k].deploy /\ got[k] # {}) /\ End(k)

\* Mutant: a device without a certificate on record is not passed over.
Fetch_Unchecked(k) ==
    /\ pc[k] = "fetch"
    /\ UNCHANGED <<devices, fired, got, mode>>
    /\ \E d \in todo[k] :
          /\ at' = [at EXCEPT ![k] = d]
          /\ pc' = [pc EXCEPT ![k] = "push"]
          /\ pick' = [pick EXCEPT ![k] = newest[d]]
          /\ UNCHANGED todo

\* latest_certificate; a device deleted meanwhile has none and is passed over.
Fetch(k) ==
    /\ pc[k] = "fetch"
    /\ UNCHANGED <<devices, fired, got, mode>>
    /\ \E d \in todo[k] :
          /\ at' = [at EXCEPT ![k] = d]
          /\ \/ /\ newest[d] # NoCert
                /\ pc' = [pc EXCEPT ![k] = "push"]
                /\ pick' = [pick EXCEPT ![k] = newest[d]]
                /\ UNCHANGED todo
             \/ /\ newest[d] = NoCert
                /\ todo' = [todo EXCEPT ![k] = @ \ {d}]
                /\ UNCHANGED <<pc, pick>>

\* deploy_device: the gateway takes the certificate, or the deployment fails
\* and its failure is recorded.
Push(k) ==
    LET d == at[k]
    IN  /\ pc[k] = "push"
        /\ UNCHANGED <<enrolled, enabled, passed, newest, ordered, failing>>
        /\ \/ served' = [served EXCEPT ![d] = pick[k]]
           \/ DeployFaults /\ UNCHANGED served
        /\ Record(k, "fetch")

\* The bundle cannot be opened: the one exception that deploy_device does not
\* catch.
PushRaises(k) ==
    /\ VaultFaults
    /\ pc[k] = "push"
    /\ UNCHANGED devices
    /\ End(k)

\* The cycle's own run log entry
Close(k) ==
    /\ pc[k] = "fetch" /\ todo[k] = {}
    /\ UNCHANGED devices
    /\ End(k)

-----------------------------------------------------------------------------
(* The rest of the world                                                   *)

\* A day on which the due devices left get nothing counts for each of them.
Trouble(left) ==
    /\ \A d \in left : failing[d] < MaxTrouble
    /\ failing' = [d \in Devices |-> IF d \in left THEN failing[d] + 1 ELSE failing[d]]

\* The program is down when the scheduler should fire.  Its job store is in
\* memory, so the run is lost.
Miss ==
    /\ ~fired /\ Idle(Sched)
    /\ fired' = TRUE
    /\ Trouble(DueDevices)
    /\ passed' = passed \cup PassedOver
    /\ UNCHANGED <<enrolled, enabled, newest, served, ordered, cycles>>

\* The process that runs the cycle is killed, or an exception that no handler
\* keeps to one device ends it: there is no Cloudflare token, or a commit
\* fails, after which the handler's own cannot succeed.
CutShort(k) ==
    /\ Crashes
    /\ ~Idle(k)
    /\ Trouble(IF k = Sched /\ pc[k] \in {"check", "order", "log"}
               THEN {d \in todo[k] \cap enrolled : Due(d)} ELSE {})
    /\ UNCHANGED <<enrolled, enabled, passed, newest, served, ordered>>
    /\ End(k)

\* delete_device: its certificates go with it; the gateway is left as it is.
Delete(d) ==
    /\ Deletes
    /\ d \in enrolled
    /\ enrolled' = enrolled \ {d}
    /\ enabled' = enabled \ {d}
    /\ newest' = [newest EXCEPT ![d] = NoCert]
    /\ UNCHANGED <<passed, served, ordered, failing, fired, cycles>>

\* update_device and update_tenant
Switch(d) ==
    /\ d \in Switched \cap enrolled
    /\ enabled' = IF d \in enabled THEN enabled \ {d} ELSE enabled \cup {d}
    /\ UNCHANGED <<enrolled, passed, newest, served, ordered, failing, fired, cycles>>

\* The next day.  A cycle takes minutes, so none is under way at midnight.
Tick ==
    /\ fired
    /\ \A k \in Cycles : Idle(k)
    /\ fired' = FALSE
    /\ newest' = [d \in Devices |-> IF newest[d] \in {NoCert, 0} THEN newest[d]
                                    ELSE newest[d] - 1]
    /\ served' = [d \in Devices |-> IF served[d] \in {Foreign, 0} THEN served[d]
                                    ELSE served[d] - 1]
    /\ ordered' = [d \in Devices |-> 0]
    /\ UNCHANGED <<enrolled, enabled, passed, failing, cycles>>

-----------------------------------------------------------------------------

Step(k) ==
    \/ Check(k) \/ OrderSucceeds(k) \/ LogIssued(k) \/ OrderFails(k)
    \/ IssuesDone(k) \/ Fetch(k) \/ Push(k) \/ PushRaises(k) \/ Close(k)

Next ==
    \/ Fire \/ Miss \/ Tick
    \/ \E k \in Manual : Trigger(k) \/ IssueRun(k)
    \/ \E k \in Cycles : Step(k) \/ CutShort(k)
    \/ \E d \in Devices : Delete(d) \/ Switch(d)

Spec == Init /\ [][Next]_vars

\* Every call a cycle makes ends, the scheduler fires every day unless the
\* program is down, and days go by whatever operators do.
FairSpec ==
    /\ Spec
    /\ \A k \in Cycles : WF_vars(Step(k))
    /\ SF_vars(Fire \/ Miss) /\ SF_vars(Tick)

-----------------------------------------------------------------------------
(* Properties                                                              *)

(***************************************************************************)
(* A gateway that has been given a certificate never serves an expired     *)
(* one: the daily cycle renews within the margin (app/scheduler.py:3-5)    *)
(* even if orders fail and days are missed up to MaxTrouble times in a     *)
(* row.  Not meant are gateways that the cycle left out when they were     *)
(* due, because they or their tenant were disabled (app/scheduler.py:      *)
(* 57-64), until they are renewed and that renewal is delivered.           *)
(***************************************************************************)
UnderWay(d) == \E k \in Cycles : d \in got[k]
NoExpiry == \A d \in enrolled \ passed : served[d] # 0 \/ UnderWay(d)

(***************************************************************************)
(* No device is ordered a second certificate on one day unless an operator *)
(* forces it (needs_renewal, asked once by the cycle and once more by      *)
(* IssuanceService.run; app/scheduler.py:169: "never overlap runs").       *)
(***************************************************************************)
OnePerDay == \A d \in Devices : ordered[d] <= 1

(***************************************************************************)
(* One device must not stop the fleet (app/issuance.py:291): an order that *)
(* fails, a deployment that fails and a device that has been renewed in    *)
(* the meantime cost no other device its turn.  A run ends with devices on *)
(* record left to handle only if it is cut short, cannot open a bundle, or *)
(* is at a device that was deleted under it.                               *)
(***************************************************************************)
FleetAttempted ==
    [][\A k \in Cycles :
           pc[k] # "idle" /\ pc'[k] = "idle" =>
               \/ todo[k] \cap enrolled = {}
               \/ CutShort(k) \/ PushRaises(k) \/ at[k] \notin enrolled]_vars

(***************************************************************************)
(* A device whose newest certificate on record has entered its margin, or  *)
(* that has none, gets a new one unless it is disabled or deleted before,  *)
(* whatever becomes of other devices and whatever is cut short, missed or  *)
(* started besides.                                                        *)
(***************************************************************************)
Renewed ==
    \A d \in Devices :
        newest[d] \in {NoCert} \cup 0 .. Threshold[d]
            ~> newest[d] \in (Threshold[d] + 1) .. Validity \/ d \notin enabled

=============================================================================
