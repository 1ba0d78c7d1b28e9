---------------------------- MODULE DurableJobs ----------------------------
(***************************************************************************)
(* The durable job queue: backend-core/src/services/durableJobService.ts,  *)
(* the worker loop of backend-core/src/worker.ts and the moderator         *)
(* endpoints of backend-core/src/routes/durableJobRoutes.ts.               *)
(*                                                                         *)
(* A job is one row of the DurableJob table, named by its dedupeKey (which *)
(* the table keeps unique).  Every database call is one step; between two  *)
(* awaited calls any other process may run, and a worker process may die.  *)
(* One claim of a job is an EXECUTION, named by the job and by how many    *)
(* times the job had been claimed: execution n of job j is exec[j][n].     *)
(***************************************************************************)
EXTENDS Integers, FiniteSets

CONSTANTS
    Sources,      \* dedupe keys that web requests, handlers and operators enqueue
    Handled,      \* sources whose type, version and payload the registry accepts
    Retryable,    \* sources whose handler has a canRetryDeadLetter that says yes
    Workers,      \* one workerId per worker process; a restarted one has a new id
    Operators,    \* moderator requests that can be in flight at the same time
    MaxAttempts,  \* DurableJob.maxAttempts
    LeaseTicks,   \* DURABLE_JOB_LEASE_MS in clock ticks
    Batch,        \* DURABLE_JOB_BATCH_SIZE
    DbFaults,     \* whether a database call may reject
    MaxClaims,    \* BOUND: how often one job is claimed in the model
    None          \* the null of leaseOwner and of an operator without a request

ASSUME ConstantsAssumption ==
    /\ Handled \subseteq Sources /\ Retryable \subseteq Handled
    /\ MaxAttempts \in Nat \ {0} /\ LeaseTicks \in Nat \ {0}
    /\ Batch \in Nat \ {0} /\ MaxClaims \in Nat \ {0}
    /\ DbFaults \in BOOLEAN
    /\ None \notin Workers

(* The key `${dedupeKey}:reconcile` of the job that settles an uncertain s. *)
Reconcile(s) == <<"reconcile", s>>
Keys == Sources \cup {Reconcile(s) : s \in Sources}

ASSUME KeysAssumption ==
    /\ None \notin Keys
    /\ \A s \in Sources : Reconcile(s) \notin Sources

VARIABLES
    row,      \* row[j]: the DurableJob record of key j
    claims,   \* claims[j]: how many claims of j have succeeded (history)
    exec,     \* exec[j][n]: what the worker that made claim n of j is doing
    pc,       \* pc[w]: where worker w is in its poll loop
    cands,    \* cands[w]: candidates its claim loop has not tried yet
    request   \* request[o]: the job operator o found dead-lettered

vars == <<row, claims, exec, pc, cands, request>>

Pending == {"queued", "retry_scheduled"}
Settled == {"succeeded", "dead_letter", "cancelled", "reconciliation_required"}
Stages  == {"free", "won", "ready", "running", "returned", "enqueuing", "caught", "done"}
Outcomes == {"succeeded", "retry", "uncertain", "permanent"}

(* lease is leaseExpiresAt as the ticks that are left, 0 once it has passed; *)
(* due says that scheduledAt has passed (read only while the row is pending). *)
Rows == [status : {"absent", "leased"} \cup Pending \cup Settled, owner : Workers \cup {None},
         lease : 0..LeaseTicks, due : BOOLEAN, attempts : Nat]

(* seen is attemptCount as the claim loop read it back, awaited says that    *)
(* the Promise.all of the worker's current batch waits for the execution.    *)
Execs == [worker : Workers \cup {None}, stage : Stages, seen : Nat,
          outcome : Outcomes \cup {"none"}, awaited : BOOLEAN]

NoRow  == [status |-> "absent", owner |-> None, lease |-> 0, due |-> FALSE, attempts |-> 0]
NoExec == [worker |-> None, stage |-> "free", seen |-> 0, outcome |-> "none", awaited |-> FALSE]

Init ==
    /\ row = [j \in Keys |-> NoRow]
    /\ claims = [j \in Keys |-> 0]
    /\ exec = [j \in Keys |-> [n \in 1..MaxClaims |-> NoExec]]
    /\ pc = [w \in Workers |-> "idle"]
    /\ cands = [w \in Workers |-> {}]
    /\ request = [o \in Operators |-> None]

-----------------------------------------------------------------------------
(* What the steps write. *)

Released(r, status) == [r EXCEPT !.status = status, !.owner = None, !.lease = 0, !.due = FALSE]
Finished(e) == [e EXCEPT !.stage = "done", !.seen = 0, !.outcome = "none", !.awaited = FALSE]
Active(e) == e.stage \notin {"free", "done"}

(* The executions e with P(e) become F(e), the others stay as they are. *)
EachExec(P(_), F(_)) ==
    exec' = [j \in Keys |-> [n \in 1..MaxClaims |->
                IF P(exec[j][n]) THEN F(exec[j][n]) ELSE exec[j][n]]]

SetExec(j, n, e) == exec' = [exec EXCEPT ![j][n] = e]

(* A row claimDurableJobs may take. MaxClaims is the model's bound.  The code *)
(* compares scheduledAt with the instant its poll began; a row that became    *)
(* due since then is taken by the next poll, here possibly by this one.       *)
Claimable(j) == row[j].status \in Pending /\ row[j].due /\ claims[j] < MaxClaims

(* The `ownership` filter of finalizeClaim: it names the worker, not the claim. *)
Owns(j, n) == row[j].status = "leased" /\ row[j].owner = exec[j][n].worker

(* Definitions named Bad... are the faulty variants the project's mutants     *)
(* put in place of the definition that follows them.                          *)
BadFailureRow(j, n, outcome) ==
    Released(row[j], IF outcome = "permanent" \/ exec[j][n].seen > MaxAttempts
                     THEN "dead_letter" ELSE "retry_scheduled")

(* The row finalizeClaim writes when its result is a retry or permanent. *)
FailureRow(j, n, outcome) ==
    Released(row[j], IF outcome = "permanent" \/ exec[j][n].seen >= MaxAttempts
                     THEN "dead_letter" ELSE "retry_scheduled")

BadWriteIfOwner(j, n, r) == row' = [row EXCEPT ![j] = r]

(* An updateMany under the ownership filter: r if a row matched. *)
WriteIfOwner(j, n, r) == row' = IF Owns(j, n) THEN [row EXCEPT ![j] = r] ELSE row

-----------------------------------------------------------------------------
(* The web process and the operators. *)

(* enqueueDurableJob: a second call with the same key finds the first row, *)
(* by the read or, when two calls race, by the unique constraint.           *)
InsertIfAbsent(j, due) ==
    row' = IF row[j].status = "absent"
           THEN [row EXCEPT ![j] = [NoRow EXCEPT !.status = "queued", !.due = due]]
           ELSE row

Enqueue(s) ==
    /\ \E due \in BOOLEAN : InsertIfAbsent(s, due)
    /\ UNCHANGED <<claims, exec, pc, cands, request>>

CancelJob(j) ==
    /\ Operators # {}
    /\ row[j].status \in Pending \cup {"reconciliation_required"}
    /\ row' = [row EXCEPT ![j] = Released(row[j], "cancelled")]
    /\ UNCHANGED <<claims, exec, pc, cands, request>>

RescheduleJob(j) ==
    /\ Operators # {}
    /\ row[j].status \in Pending
    /\ \E due \in BOOLEAN :
           row' = [row EXCEPT ![j] = [@ EXCEPT !.status = "retry_scheduled", !.due = due]]
    /\ UNCHANGED <<claims, exec, pc, cands, request>>

(* retryDeadLetterDurableJob reads the row and asks the validator ... *)
RetryDeadLetterRead(o, j) ==
    /\ request[o] = None
    /\ row[j].status = "dead_letter" /\ j \in Retryable
    /\ request' = [request EXCEPT ![o] = j]
    /\ UNCHANGED <<row, claims, exec, pc, cands>>

(* ... and then updates by id alone, whatever the row has become, and      *)
(* leaves leaseOwner and leaseExpiresAt as they are.                        *)
RetryDeadLetterWrite(o) ==
    /\ request[o] # None
    /\ row' = [row EXCEPT ![request[o]] =
                 [@ EXCEPT !.status = "retry_scheduled", !.due = TRUE, !.attempts = 0]]
    /\ request' = [request EXCEPT ![o] = None]
    /\ UNCHANGED <<claims, exec, pc, cands>>

-----------------------------------------------------------------------------
(* The poll of a worker: claimDurableJobs. *)

BadLapsed(j) == row[j].status = "leased" /\ row[j].lease > 0
Lapsed(j) == row[j].status = "leased" /\ row[j].lease = 0

(* recoverExpiredDurableJobLeases: one updateMany over every lapsed lease. *)
RecoverLeases(w) ==
    /\ pc[w] = "idle"
    /\ row' = [j \in Keys |->
                 IF Lapsed(j) THEN [Released(row[j], "retry_scheduled") EXCEPT !.due = TRUE]
                 ELSE row[j]]
    /\ pc' = [pc EXCEPT ![w] = "scanning"]
    /\ UNCHANGED <<claims, exec, cands, request>>

(* findMany with take: limit * 3; the order inside a page is not modelled. *)
ScanCandidates(w) ==
    /\ pc[w] = "scanning"
    /\ LET claimable == {j \in Keys : Claimable(j)}
       IN  \E page \in SUBSET claimable :
             /\ \/ page = claimable /\ Cardinality(claimable) <= 3 * Batch
                \/ Cardinality(page) = 3 * Batch
             /\ cands' = [cands EXCEPT ![w] = page]
    /\ pc' = [pc EXCEPT ![w] = "claiming"]
    /\ UNCHANGED <<row, claims, exec, request>>

Won(w)   == {x \in Keys \X (1..MaxClaims) :
                exec[x[1]][x[2]].worker = w /\ exec[x[1]][x[2]].stage = "won"}
Ready(w) == {x \in Keys \X (1..MaxClaims) :
                exec[x[1]][x[2]].worker = w /\ exec[x[1]][x[2]].stage = "ready"}

(* The compare-and-set claim.  leaseExpiresAt counts from the instant the   *)
(* poll began, so part of the lease, or all of it, may have run already.    *)
ClaimCandidate(w, j) ==
    /\ pc[w] = "claiming" /\ j \in cands[w]
    /\ Won(w) = {} /\ Cardinality(Ready(w)) < Batch
    /\ Claimable(j)
    /\ \E left \in 0..LeaseTicks :
         row' = [row EXCEPT ![j] = [status |-> "leased", owner |-> w, lease |-> left,
                                    due |-> FALSE, attempts |-> row[j].attempts + 1]]
    /\ claims' = [claims EXCEPT ![j] = claims[j] + 1]
    /\ SetExec(j, claims[j] + 1, [NoExec EXCEPT !.worker = w, !.stage = "won"])
    /\ cands' = [cands EXCEPT ![w] = cands[w] \ {j}]
    /\ UNCHANGED <<pc, request>>

(* The updateMany matched no row: somebody else was faster. *)
MissCandidate(w, j) ==
    /\ pc[w] = "claiming" /\ j \in cands[w]
    /\ Won(w) = {} /\ Cardinality(Ready(w)) < Batch
    /\ ~Claimable(j)
    /\ cands' = [cands EXCEPT ![w] = cands[w] \ {j}]
    /\ UNCHANGED <<row, claims, exec, pc, request>>

(* findUniqueOrThrow after the claim: a second read, of whatever is there. *)
ReadClaimedRow(j, n) ==
    /\ exec[j][n].stage = "won"
    /\ SetExec(j, n, [exec[j][n] EXCEPT !.stage = "ready", !.seen = row[j].attempts])
    /\ UNCHANGED <<row, claims, pc, cands, request>>

(* The claim loop is over; Promise.all starts every claimed job. *)
StartBatch(w) ==
    /\ pc[w] = "claiming" /\ Won(w) = {}
    /\ cands[w] = {} \/ Cardinality(Ready(w)) >= Batch
    /\ LET IsReady(e) == e.worker = w /\ e.stage = "ready"
           Started(e) == [e EXCEPT !.stage = "running", !.awaited = TRUE]
       IN  EachExec(IsReady, Started)
    /\ pc' = [pc EXCEPT ![w] = IF Ready(w) = {} THEN "idle" ELSE "batch"]
    /\ cands' = [cands EXCEPT ![w] = {}]
    /\ UNCHANGED <<row, claims, request>>

BadFinishBatch(w) ==
    /\ pc[w] = "batch"
    /\ pc' = [pc EXCEPT ![w] = "idle"]
    /\ UNCHANGED <<row, claims, exec, cands, request>>

(* Every execution of the batch has settled; the loop polls again. *)
FinishBatch(w) ==
    /\ pc[w] = "batch"
    /\ \A j \in Keys, n \in 1..MaxClaims : ~(exec[j][n].worker = w /\ exec[j][n].awaited)
    /\ pc' = [pc EXCEPT ![w] = "idle"]
    /\ UNCHANGED <<row, claims, exec, cands, request>>

-----------------------------------------------------------------------------
(* One execution: executeClaimedDurableJob and finalizeClaim. *)

(* The handler answers.  A job whose type, version or payload the registry  *)
(* refuses is permanently failed without running anything.                  *)
HandlerReturns(j, n) ==
    /\ exec[j][n].stage = "running"
    /\ \E outcome \in IF j \in Handled THEN Outcomes ELSE {"permanent"} :
         SetExec(j, n, [exec[j][n] EXCEPT !.stage = "returned", !.outcome = outcome])
    /\ UNCHANGED <<row, claims, pc, cands, request>>

(* The catch branch: a handler that throws, or a finalizeClaim that did. *)
Catch(j, n) == SetExec(j, n, [exec[j][n] EXCEPT !.stage = "caught", !.outcome = "retry"])

HandlerThrows(j, n) ==
    /\ exec[j][n].stage = "running" /\ j \in Handled
    /\ Catch(j, n)
    /\ UNCHANGED <<row, claims, pc, cands, request>>

(* The heartbeat interval runs from before the handler until after finalizeClaim. *)
Heartbeat(j, n) ==
    /\ exec[j][n].stage \in {"running", "returned", "enqueuing", "caught"} /\ j \in Handled
    /\ Owns(j, n) /\ row[j].lease \in 1..(LeaseTicks - 1)
    /\ row' = [row EXCEPT ![j].lease = LeaseTicks]
    /\ UNCHANGED <<claims, exec, pc, cands, request>>

FinalizeSucceeded(j, n) ==
    /\ exec[j][n].stage = "returned" /\ exec[j][n].outcome = "succeeded"
    /\ WriteIfOwner(j, n, Released(row[j], "succeeded"))
    /\ SetExec(j, n, Finished(exec[j][n]))
    /\ UNCHANGED <<claims, pc, cands, request>>

(* Only the execution whose update matched goes on to enqueue the reconciliation. *)
FinalizeUncertain(j, n) ==
    /\ exec[j][n].stage = "returned" /\ exec[j][n].outcome = "uncertain"
    /\ WriteIfOwner(j, n, Released(row[j], "reconciliation_required"))
    /\ SetExec(j, n, IF Owns(j, n) THEN [exec[j][n] EXCEPT !.stage = "enqueuing"]
                                   ELSE Finished(exec[j][n]))
    /\ UNCHANGED <<claims, pc, cands, request>>

EnqueueReconciliation(j, n) ==
    /\ exec[j][n].stage = "enqueuing"
    /\ InsertIfAbsent(Reconcile(j), TRUE)
    /\ SetExec(j, n, Finished(exec[j][n]))
    /\ UNCHANGED <<claims, pc, cands, request>>

FinalizeFailure(j, n) ==
    /\ \/ exec[j][n].stage = "returned" /\ exec[j][n].outcome \in {"retry", "permanent"}
       \/ exec[j][n].stage = "caught"
    /\ WriteIfOwner(j, n, FailureRow(j, n, exec[j][n].outcome))
    /\ SetExec(j, n, Finished(exec[j][n]))
    /\ UNCHANGED <<claims, pc, cands, request>>

-----------------------------------------------------------------------------
(* Rejected database calls. *)

(* finalizeClaim rejects inside the try: the catch branch tries a retry.    *)
FinalizeFault(j, n) ==
    /\ DbFaults
    /\ exec[j][n].stage \in {"returned", "enqueuing"} /\ j \in Handled
    /\ Catch(j, n)
    /\ UNCHANGED <<row, claims, pc, cands, request>>

(* finalizeClaim rejects outside the try: the execution is over, its        *)
(* heartbeat stops, Promise.all rejects and the worker polls again while    *)
(* the other executions of the batch go on.                                 *)
ExecutionFault(j, n) ==
    /\ DbFaults
    /\ exec[j][n].stage = "caught" \/ (exec[j][n].stage = "returned" /\ j \notin Handled)
    /\ LET w == exec[j][n].worker
           aborts == exec[j][n].awaited
       IN  /\ exec' = [i \in Keys |-> [m \in 1..MaxClaims |->
                        IF i = j /\ m = n THEN Finished(exec[j][n])
                        ELSE IF aborts /\ exec[i][m].worker = w
                             THEN [exec[i][m] EXCEPT !.awaited = FALSE]
                             ELSE exec[i][m]]]
           /\ pc' = IF aborts THEN [pc EXCEPT ![w] = "idle"] ELSE pc
    /\ UNCHANGED <<row, claims, cands, request>>

(* A call of claimDurableJobs rejects: what it had claimed stays leased. *)
ClaimFault(w) ==
    /\ DbFaults
    /\ pc[w] \in {"scanning", "claiming"}
    /\ LET Claimed(e) == e.worker = w /\ e.stage \in {"won", "ready"}
       IN  EachExec(Claimed, Finished)
    /\ pc' = [pc EXCEPT ![w] = "idle"]
    /\ cands' = [cands EXCEPT ![w] = {}]
    /\ UNCHANGED <<row, claims, request>>

-----------------------------------------------------------------------------
(* Time and crashes. *)

(* The clock moves: every lease that is not renewed runs down. *)
LeaseRuns(r) == r.status = "leased" /\ r.lease > 0

Tick ==
    /\ \E j \in Keys : LeaseRuns(row[j])
    /\ row' = [j \in Keys |-> IF LeaseRuns(row[j]) THEN [row[j] EXCEPT !.lease = row[j].lease - 1]
                              ELSE row[j]]
    /\ UNCHANGED <<claims, exec, pc, cands, request>>

BecomesDue(j) ==
    /\ row[j].status \in Pending /\ ~row[j].due
    /\ row' = [row EXCEPT ![j].due = TRUE]
    /\ UNCHANGED <<claims, exec, pc, cands, request>>

(* The process dies with everything it held in memory.  One worker stays    *)
(* up: a restarted process is a worker with another id.                     *)
Crash(w) ==
    /\ pc[w] # "down"
    /\ \E v \in Workers \ {w} : pc[v] # "down"
    /\ LET InMemory(e) == e.worker = w /\ Active(e)
       IN  EachExec(InMemory, Finished)
    /\ pc' = [pc EXCEPT ![w] = "down"]
    /\ cands' = [cands EXCEPT ![w] = {}]
    /\ UNCHANGED <<row, claims, request>>

-----------------------------------------------------------------------------
Poll(w) ==
    \/ RecoverLeases(w)
    \/ ScanCandidates(w)
    \/ \E j \in Keys : ClaimCandidate(w, j) \/ MissCandidate(w, j)
    \/ StartBatch(w)
    \/ FinishBatch(w)

Execute(j, n) ==
    \/ ReadClaimedRow(j, n)
    \/ HandlerReturns(j, n)
    \/ FinalizeSucceeded(j, n)
    \/ FinalizeUncertain(j, n)
    \/ EnqueueReconciliation(j, n)
    \/ FinalizeFailure(j, n)

Operate ==
    \/ \E s \in Sources : Enqueue(s)
    \/ \E j \in Keys : CancelJob(j) \/ RescheduleJob(j)
    \/ \E o \in Operators : \/ RetryDeadLetterWrite(o)
                            \/ \E j \in Keys : RetryDeadLetterRead(o, j)

Fault ==
    \/ \E w \in Workers : ClaimFault(w) \/ Crash(w)
    \/ \E j \in Keys, n \in 1..MaxClaims :
           FinalizeFault(j, n) \/ ExecutionFault(j, n)

Next ==
    \/ Operate
    \/ \E w \in Workers : Poll(w)
    \/ \E j \in Keys, n \in 1..MaxClaims :
           Execute(j, n) \/ HandlerThrows(j, n) \/ Heartbeat(j, n)
    \/ Fault
    \/ Tick
    \/ \E j \in Keys : BecomesDue(j)

Spec == Init /\ [][Next]_vars

(* Live processes keep running: the poll loop never stops, handlers answer   *)
(* (every provider call they make has a timeout) and the clock moves on.  A   *)
(* call of the claim loop that every poll makes again succeeds in the end.    *)
Fairness ==
    /\ \A w \in Workers :
          /\ WF_vars(Poll(w))
          /\ SF_vars(ScanCandidates(w))
          /\ SF_vars(\E j \in Keys : ClaimCandidate(w, j) \/ MissCandidate(w, j))
    /\ \A j \in Keys, n \in 1..MaxClaims : WF_vars(Execute(j, n))
    /\ \A j \in Keys : WF_vars(BecomesDue(j))
    /\ WF_vars(Tick)

FairSpec == Spec /\ Fairness

-----------------------------------------------------------------------------
(* Properties. *)

(* Every variable holds values of its kind. *)
TypeOK ==
    /\ row \in [Keys -> Rows]
    /\ claims \in [Keys -> 0..MaxClaims]
    /\ exec \in [Keys -> [1..MaxClaims -> Execs]]
    /\ pc \in [Workers -> {"idle", "scanning", "claiming", "batch", "down"}]
    /\ cands \in [Workers -> SUBSET Keys]
    /\ request \in [Operators -> Keys \cup {None}]

(* The worker of e is still at it, or waits for it.  Where Promise.all has    *)
(* rejected, the other executions of the batch go on without anyone waiting.  *)
Attended(e) == e.stage \in {"won", "ready"} \/ (Active(e) /\ e.awaited)

(* An execution that a later claim of its job has overtaken does not pass   *)
(* the ownership filter of finalizeClaim and heartbeatDurableJob any more,  *)
(* although that filter compares workers and not claims: a worker never     *)
(* claims a job again while it waits for an execution of it.                *)
OnlyLatestClaimOwns ==
    \A j \in Keys, n \in 1..MaxClaims :
        Attended(exec[j][n]) /\ Owns(j, n) => n = claims[j]

(* Why: a worker's unstarted claims belong to the poll it is in, which has    *)
(* dropped them from its candidates, and those it waits for to its batch.     *)
ClaimsBelongToTheRound ==
    \A j \in Keys, n \in 1..MaxClaims :
        LET e == exec[j][n]
        IN  /\ Active(e) => e.worker \in Workers /\ n <= claims[j]
            /\ e.stage \in {"won", "ready"} =>
                  pc[e.worker] = "claiming" /\ j \notin cands[e.worker]
            /\ e.stage \in {"running", "returned", "enqueuing", "caught"} /\ e.awaited =>
                  pc[e.worker] = "batch"

Fenced == ClaimsBelongToTheRound /\ OnlyLatestClaimOwns

(* The lease of a row names the worker whose claim was the last to succeed: *)
(* no release, recovery or operator step leaves an older owner leased.      *)
LeaseNamesLatestClaim ==
    \A j \in Keys : row[j].status = "leased" =>
        /\ claims[j] # 0
        /\ row[j].owner = exec[j][claims[j]].worker

(* Neither a worker with an old candidate list, nor one whose lease lapsed   *)
(* while its handler ran, reopens a settled job.  Only operators change it:   *)
(* they retry a dead letter whose handler agrees and cancel what is uncertain, *)
(* which is never run again.                                                  *)
SettledIsFinal ==
    [][\A j \in Keys : row[j].status \in Settled =>
          \/ row'[j] = row[j]
          \/ row[j].status = "reconciliation_required" /\ row'[j].status = "cancelled"
          \/ /\ row[j].status = "dead_letter" /\ row'[j].status = "retry_scheduled"
             /\ \E o \in Operators : request[o] = j /\ request'[o] = None]_vars

(* finalizeClaim decides between retry and dead letter on the attemptCount  *)
(* its claim loop read back, yet an execution that is waited for never       *)
(* reschedules a job whose attempts are used up by then.                     *)
AttemptBudget ==
    [][\A j \in Keys, n \in 1..MaxClaims :
          /\ exec[j][n].awaited /\ exec[j][n].stage \in {"returned", "caught"} /\ exec'[j][n].stage = "done"
          /\ row[j].status = "leased" /\ row'[j].status = "retry_scheduled"
          => row[j].attempts < MaxAttempts]_vars

(* A row left leased by an execution that ended without finalizing it (its  *)
(* worker died, or a database call rejected) is recovered by some poll.     *)
OrphanLeaseIsRecovered ==
    \A j \in Keys : \A n \in 1..MaxClaims :
        (row[j].status = "leased" /\ claims[j] = n /\ ~Active(exec[j][n]))
            ~> (row[j].status # "leased" \/ claims[j] # n)

(* Why: nobody renews such a lease.  A heartbeat asks for the owner's name     *)
(* only, and the owner may be at work, even on an older claim of the same job; *)
(* it renews another claim's lease only where a rejected call has left an       *)
(* execution nobody waits for, whose own end then settles the row.              *)
OrphanLeaseRunsDown ==
    [][\A j \in Keys :
          /\ row[j].status = "leased" /\ ~Active(exec[j][claims[j]])
          /\ row'[j].status = "leased" /\ claims'[j] = claims[j]
          => \/ row'[j].lease <= row[j].lease
             \/ \E n \in 1..MaxClaims :
                    Active(exec[j][n]) /\ ~Attended(exec[j][n]) /\ Owns(j, n)]_vars

-----------------------------------------------------------------------------
(* The queue implements LeasedQueue: a job is held while its row is leased,  *)
(* its holder is its latest claim, and a claim works until its execution     *)
(* has ended.                                                                *)
Phase(status) == CASE status = "leased" -> "held"
                   [] status \in Pending -> "waiting"
                   [] OTHER -> status

Queue == INSTANCE LeasedQueue WITH
    Jobs <- Keys,
    Reopenable <- Retryable,
    phase <- [j \in Keys |-> Phase(row[j].status)],
    holder <- claims,
    working <- [j \in Keys |-> {n \in 1..MaxClaims : Active(exec[j][n])}]

(* Only the claim that holds a job decides what becomes of it: overtaken     *)
(* executions, crashes and operators never do (see LeasedQueue).             *)
ImplementsLeasedQueue == Queue!Spec

=============================================================================
