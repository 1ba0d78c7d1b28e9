------------------------------ MODULE JobRuns ------------------------------
(***************************************************************************)
(* The durable job queue as the handlers see it: the steps of LeasedQueue, *)
(* one job at a time and with numbered claims, for modules that compose a  *)
(* handler with the queue.  DurableJobs shows that the queue takes no      *)
(* other steps; JobRunsProofs shows that these are steps of LeasedQueue.   *)
(***************************************************************************)
EXTENDS Naturals

CONSTANTS
    Jobs,
    MaxClaims    \* bound: claims of one job

ASSUME MaxClaimsAssumption == MaxClaims \in Nat

VARIABLES phase, holder, working     \* as in LeasedQueue

queue == <<phase, holder, working>>

Claims     == 1..MaxClaims
SettledJob == {"succeeded", "dead_letter", "cancelled", "reconciliation_required"}
Phases     == {"absent", "waiting", "held"} \cup SettledJob

QueueInit ==
    /\ phase = [j \in Jobs |-> "absent"]
    /\ holder = [j \in Jobs |-> 0]
    /\ working = [j \in Jobs |-> {}]

QueueTypeOK ==
    /\ phase \in [Jobs -> Phases]
    /\ holder \in [Jobs -> 0..MaxClaims]
    /\ working \in [Jobs -> SUBSET Claims]

(* enqueueDurableJob: a key that exists is left as it is. *)
EnqueueJob(j) ==
    /\ phase' = IF phase[j] = "absent" THEN [phase EXCEPT ![j] = "waiting"] ELSE phase
    /\ UNCHANGED <<holder, working>>

(* claimDurableJobs: the claim starts an execution, numbered holder'[j]. *)
ClaimJob(j) ==
    /\ phase[j] = "waiting" /\ holder[j] < MaxClaims
    /\ phase' = [phase EXCEPT ![j] = "held"]
    /\ holder' = [holder EXCEPT ![j] = @ + 1]
    /\ working' = [working EXCEPT ![j] = @ \cup {holder[j] + 1}]

(* recoverExpiredDurableJobLeases, also while the execution goes on. *)
LapseJob(j) ==
    /\ phase[j] = "held"
    /\ phase' = [phase EXCEPT ![j] = "waiting"]
    /\ UNCHANGED <<holder, working>>

(* finalizeClaim: only the claim that holds the job decides. *)
ConcludeJob(j, n, verdict) ==
    /\ n \in working[j]
    /\ phase' = IF phase[j] = "held" /\ holder[j] = n THEN [phase EXCEPT ![j] = verdict] ELSE phase
    /\ working' = [working EXCEPT ![j] = @ \ {n}]
    /\ UNCHANGED holder

(* A failed attempt is retried or, out of attempts, dead. *)
FailJob(j, n) == \E verdict \in {"waiting", "dead_letter"} : ConcludeJob(j, n, verdict)

(* The worker dies with the execution. *)
StopJob(j, n) ==
    /\ n \in working[j]
    /\ working' = [working EXCEPT ![j] = @ \ {n}]
    /\ UNCHANGED <<phase, holder>>

(* Those who cancel a job reach it while it waits. *)
WithdrawJob(j) ==
    /\ phase' = IF phase[j] = "waiting" THEN [phase EXCEPT ![j] = "cancelled"] ELSE phase
    /\ UNCHANGED <<holder, working>>

(* What the queue does in the end: an orphan's lease is recovered, and a job   *)
(* that waits is claimed (OrphanLeaseIsRecovered, PendingSettles).             *)
Orphan(j) == phase[j] = "held" /\ holder[j] \notin working[j]
=============================================================================
