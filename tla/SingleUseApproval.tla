------------------------- MODULE SingleUseApproval -------------------------
(***************************************************************************)
(* What an approval promises, without requests, tool runs or transactions: *)
(* the user grants or denies it once, while it is open; a granted one is   *)
(* used at most once; both only while it is valid, which it ceases to be   *)
(* for good; and the action takes effect only after that use and at most   *)
(* once.  A use may be lost, which is never made up for.                   *)
(***************************************************************************)
CONSTANT Actions

VARIABLES
    phase,    \* phase[a]: where the approval of a is in its life
    valid,    \* valid[a]: it was asked for and its time has not run out
    effects   \* effects[a]: how often a has taken effect

vars == <<phase, valid, effects>>

Phases == {"none", "open", "denied", "granted", "used"}

Init ==
    /\ phase = [a \in Actions |-> "none"]
    /\ valid = [a \in Actions |-> FALSE]
    /\ effects = [a \in Actions |-> 0]

(* The life of an approval goes one way, and no further once its time is out. *)
Onward(p, q, v) ==
    \/ p = q
    \/ p = "none" /\ q = "open"
    \/ v /\ p = "open" /\ q \in {"denied", "granted"}
    \/ v /\ p = "granted" /\ q = "used"

(* Only asking makes an approval valid; being used takes nothing from that. *)
StaysValid(p, q, v, w) == w => v \/ (p = "none" /\ q = "open")

TakesEffect(a) ==
    /\ phase[a] = "used" /\ effects[a] = 0
    /\ effects'[a] = 1

Next ==
    /\ phase' \in [Actions -> Phases]
    /\ valid' \in [Actions -> BOOLEAN]
    /\ effects' \in [Actions -> {0, 1}]
    /\ \A a \in Actions :
          /\ Onward(phase[a], phase'[a], valid[a])
          /\ StaysValid(phase[a], phase'[a], valid[a], valid'[a])
          /\ effects'[a] = effects[a] \/ TakesEffect(a)

Spec == Init /\ [][Next]_vars
=============================================================================
