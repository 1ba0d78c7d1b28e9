---------------------------- MODULE DataRightsMC ---------------------------
(* Small instances of DataRights for TLC. *)
EXTENDS DataRights, TLC
=============================================================================
