---------------------------- MODULE WorkflowRuns ---------------------------
(***************************************************************************)
(* One outside workflow of a user (workflowConnectionService): agents may  *)
(* use it while it is active; a test, or the user, makes it active; a new  *)
(* endpoint makes it a draft.  A run, of a test or of an agent, reads the  *)
(* row, calls the endpoint it has read, and writes the outcome by id.      *)
(***************************************************************************)
EXTENDS Naturals

CONSTANTS
    Runs,            \* runs in flight
    MaxEndpoints     \* bound: endpoints the workflow has in its life

ASSUME MaxEndpointsAssumption == MaxEndpoints \in Nat \ {0}

VARIABLES
    workflow,    \* the WorkflowConnection row
    runs,        \* runs[r]: who runs, and the endpoint that was read; 0 for idle
    vetted,      \* endpoints that answered a run, or were made active by the user
    overtaken    \* the endpoint changed under a run

workflowVars == <<workflow, runs, vetted, overtaken>>

WorkflowStatuses == {"draft", "active", "failed", "disabled", "deleted"}
NoRun == [by |-> "nobody", endpoint |-> 0]

WorkflowInit ==
    /\ workflow = [status |-> "draft", endpoint |-> 1]
    /\ runs = [r \in Runs |-> NoRun]
    /\ vetted = {} /\ overtaken = FALSE

Calling(r) == runs[r] # NoRun

BadChangeEndpoint ==
    /\ workflow.status # "deleted" /\ workflow.endpoint < MaxEndpoints
    /\ workflow' = [workflow EXCEPT !.endpoint = @ + 1]
    /\ overtaken' = (overtaken \/ \E r \in Runs : Calling(r))
    /\ UNCHANGED <<runs, vetted>>

(* updateWorkflowConnection with an endpoint ... *)
ChangeEndpoint ==
    /\ workflow.status # "deleted" /\ workflow.endpoint < MaxEndpoints
    /\ workflow' = [status |-> "draft", endpoint |-> workflow.endpoint + 1]
    /\ overtaken' = (overtaken \/ \E r \in Runs : Calling(r))
    /\ UNCHANGED <<runs, vetted>>

(* ... and with a status. *)
ChangeStatus(s) ==
    /\ workflow.status # "deleted"
    /\ workflow' = [workflow EXCEPT !.status = s]
    /\ vetted' = IF s = "active" THEN vetted \cup {workflow.endpoint} ELSE vetted
    /\ UNCHANGED <<runs, overtaken>>

DeleteWorkflow ==
    /\ workflow.status # "deleted"
    /\ workflow' = [workflow EXCEPT !.status = "deleted"]
    /\ UNCHANGED <<runs, vetted, overtaken>>

(* executeWorkflowConnection: an agent's run needs an active workflow, a test   *)
(* one that is not disabled.                                                    *)
BeginRun(r, by) ==
    /\ ~Calling(r)
    /\ workflow.status \in (IF by = "agent" THEN {"active"} ELSE {"draft", "active", "failed"})
    /\ runs' = [runs EXCEPT ![r] = [by |-> by, endpoint |-> workflow.endpoint]]
    /\ UNCHANGED <<workflow, vetted, overtaken>>

(* markWorkflowResult, whatever the row says by now. *)
Mark(status) == workflow' = [workflow EXCEPT !.status = IF @ = "deleted" THEN @ ELSE status]
Done(r) == Calling(r) /\ runs' = [runs EXCEPT ![r] = NoRun]

Respond(r) ==
    /\ Done(r) /\ Mark("active")
    /\ vetted' = vetted \cup {runs[r].endpoint}
    /\ UNCHANGED overtaken

FailRun(r) == Done(r) /\ Mark("failed") /\ UNCHANGED <<vetted, overtaken>>

(* The process dies. *)
LoseRun(r) == Done(r) /\ UNCHANGED <<workflow, vetted, overtaken>>

WorkflowNext ==
    \/ ChangeEndpoint \/ DeleteWorkflow
    \/ \E s \in {"draft", "active", "failed", "disabled"} : ChangeStatus(s)
    \/ \E r \in Runs, by \in {"agent", "test"} : BeginRun(r, by)
    \/ \E r \in Runs : Respond(r) \/ FailRun(r) \/ LoseRun(r)

WorkflowSpec == WorkflowInit /\ [][WorkflowNext]_workflowVars

-----------------------------------------------------------------------------
(* Properties. *)

(* An agent calls no endpoint that neither answered before nor was made active  *)
(* by the user, unless the endpoint changed under an earlier run, whose success *)
(* then speaks for the new one.                                                 *)
AgentsCallVettedEndpoints ==
    \A r \in Runs : runs[r].by = "agent" => runs[r].endpoint \in vetted \/ overtaken
=============================================================================
