-------------------------- MODULE ApprovedActionsMC -------------------------
(* Small instances of ApprovedActions for TLC. *)
EXTENDS ApprovedActions, TLC

(* Continuing turns differ only by name. *)
TurnSymmetry == Permutations(Turns)
=============================================================================
