------------------------ MODULE ConnectedAccountsMC ------------------------
(* Small instances of ConnectedAccounts for TLC. *)
EXTENDS ConnectedAccounts, TLC

(* Requests differ only by name. *)
RequestSymmetry == Permutations(Requests)
=============================================================================
