--------------------------- MODULE FinanceSyncMC ---------------------------
(* Small instances of FinanceSync for TLC. *)
EXTENDS FinanceSync, TLC

MCJobs == {"webhook", "reconciliation"} \X Events
=============================================================================
