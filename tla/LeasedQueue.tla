---------------------------- MODULE LeasedQueue ----------------------------
(***************************************************************************)
(* What the durable job queue promises, without rows, workers, leases or   *)
(* clocks: a job waits, is held by its latest claim, or has reached a      *)
(* final phase.  Claims may overlap, because the hold of a claim may lapse *)
(* while it is still working, but only the claim that holds the job ever   *)
(* decides what becomes of it; every other one just stops.                 *)
(***************************************************************************)
EXTENDS Naturals

CONSTANTS
    Jobs,
    Reopenable    \* jobs that an operator may put back after they have failed

VARIABLES
    phase,    \* phase[j]: where job j is in its life
    holder,   \* holder[j]: the number of the latest claim of j, 0 before the first
    working   \* working[j]: the claims of j that have not stopped

vars == <<phase, holder, working>>

Final  == {"succeeded", "dead_letter", "cancelled", "reconciliation_required"}
Phases == {"absent", "waiting", "held"} \cup Final

Init ==
    /\ phase = [j \in Jobs |-> "absent"]
    /\ holder = [j \in Jobs |-> 0]
    /\ working = [j \in Jobs |-> {}]

Add(j) ==
    /\ phase[j] = "absent" /\ phase'[j] = "waiting"
    /\ holder'[j] = holder[j] /\ working'[j] = working[j]

Claim(j) ==
    /\ phase[j] = "waiting" /\ phase'[j] = "held"
    /\ holder'[j] = holder[j] + 1
    /\ working'[j] = working[j] \cup {holder[j] + 1}

(* The holder gives its verdict; only an uncertain one leaves work to do. *)
Conclude(j) ==
    /\ phase[j] = "held" /\ holder[j] \in working[j]
    /\ phase'[j] \in (Final \ {"cancelled"}) \cup {"waiting"}
    /\ holder'[j] = holder[j]
    /\ \/ working'[j] = working[j] \ {holder[j]}
       \/ phase'[j] = "reconciliation_required" /\ working'[j] = working[j]

(* The hold lapses and the job waits again, whether or not its claim works. *)
Lapse(j) ==
    /\ phase[j] = "held" /\ phase'[j] = "waiting"
    /\ holder'[j] = holder[j] /\ working'[j] = working[j]

Withdraw(j) ==
    /\ phase[j] \in {"waiting", "reconciliation_required"} /\ phase'[j] = "cancelled"
    /\ holder'[j] = holder[j] /\ working'[j] = working[j]

Reopen(j) ==
    /\ j \in Reopenable /\ phase[j] = "dead_letter" /\ phase'[j] = "waiting"
    /\ holder'[j] = holder[j] /\ working'[j] = working[j]

(* Claims stop without a word: overtaken ones, and those of a dead worker. *)
Stop(j) ==
    /\ phase'[j] = phase[j] /\ holder'[j] = holder[j]
    /\ working'[j] \subseteq working[j]

(* Jobs are independent: one step may lapse, or stop, several at once. *)
Next ==
    /\ phase' \in [Jobs -> Phases]
    /\ \A j \in Jobs : Add(j) \/ Claim(j) \/ Conclude(j) \/ Lapse(j) \/ Withdraw(j) \/ Reopen(j) \/ Stop(j)

Spec == Init /\ [][Next]_vars
=============================================================================
