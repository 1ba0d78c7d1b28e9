-------------------------- MODULE LifeTransitions --------------------------
(* The states of a LifeTransaction row and the moves lifeTransactionService.ts *)
(* allows between them, shared by the components that move such rows.          *)

States == {"draft", "validated", "awaiting_approval", "executing", "confirmed", "failed",
           "uncertain", "reconciliation_required", "cancelled", "expired"}

(* allowedTransitions *)
Allowed ==
    [draft                   |-> {"validated", "failed", "expired"},
     validated               |-> {"awaiting_approval", "executing", "failed", "expired"},
     awaiting_approval       |-> {"executing", "cancelled", "expired"},
     executing               |-> {"confirmed", "failed", "uncertain"},
     uncertain               |-> {"confirmed", "failed", "reconciliation_required"},
     reconciliation_required |-> {"confirmed", "failed", "cancelled"},
     confirmed               |-> {"cancelled", "reconciliation_required"},
     failed                  |-> {},
     cancelled               |-> {},
     expired                 |-> {}]

(* transitionLifeAction, for a row whose approvalRequired is TRUE. *)
MayMove(from, to) ==
    /\ from # "absent" /\ to \in Allowed[from]
    /\ to = "executing" => from = "awaiting_approval"
=============================================================================
