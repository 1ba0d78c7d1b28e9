--------------------------- MODULE BookingSyncMC ---------------------------
(* Small instances of BookingSync for TLC. *)
EXTENDS BookingSync, TLC

MCJobs == {"webhook", "reconciliation"} \X (1..2)
=============================================================================
