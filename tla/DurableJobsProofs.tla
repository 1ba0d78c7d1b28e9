------------------------- MODULE DurableJobsProofs -------------------------
(* Theorems about DurableJobs, for every set of jobs, workers and operators, *)
(* every attempt limit, lease length and batch size.                         *)
EXTENDS DurableJobs, TLAPS

LEMMA Ticks == 0 \in 0..LeaseTicks /\ LeaseTicks \in 0..LeaseTicks
BY ConstantsAssumption

-----------------------------------------------------------------------------
(* The building blocks of the steps keep the types. *)

LEMMA ReleasedType ==
    ASSUME NEW r \in Rows, NEW status \in Pending \cup Settled
    PROVE  Released(r, status) \in Rows
BY Ticks DEF Released, Rows

LEMMA FinishedType ==
    ASSUME NEW e \in Execs
    PROVE  Finished(e) \in Execs
BY DEF Finished, Execs, Stages, Outcomes

LEMMA FailureRowType ==
    ASSUME TypeOK, NEW j \in Keys, NEW n \in 1..MaxClaims, NEW outcome \in Outcomes
    PROVE  FailureRow(j, n, outcome) \in Rows
<1>1. row[j] \in Rows
    BY DEF TypeOK
<1> QED
    BY <1>1, ReleasedType DEF FailureRow, Pending, Settled

(* A step that replaces one execution. *)
LEMMA SetExecType ==
    ASSUME TypeOK, NEW j \in Keys, NEW n \in 1..MaxClaims, NEW e \in Execs, SetExec(j, n, e)
    PROVE  exec' \in [Keys -> [1..MaxClaims -> Execs]]
BY DEF TypeOK, SetExec

LEMMA WriteIfOwnerType ==
    ASSUME TypeOK, NEW j \in Keys, NEW n \in 1..MaxClaims, NEW r \in Rows, WriteIfOwner(j, n, r)
    PROVE  row' \in [Keys -> Rows]
BY DEF TypeOK, WriteIfOwner

LEMMA InsertType ==
    ASSUME TypeOK, NEW j \in Keys, NEW due \in BOOLEAN, InsertIfAbsent(j, due)
    PROVE  row' \in [Keys -> Rows]
<1>1. [NoRow EXCEPT !.status = "queued", !.due = due] \in Rows
    BY Ticks DEF NoRow, Rows, Pending
<1> QED
    BY <1>1 DEF TypeOK, InsertIfAbsent

LEMMA ExecTyped ==
    ASSUME TypeOK, NEW j \in Keys, NEW n \in 1..MaxClaims
    PROVE  /\ exec[j][n] \in Execs /\ row[j] \in Rows
           /\ claims[j] \in 0..MaxClaims
BY DEF TypeOK

LEMMA InitType == Init => TypeOK
<1>1. NoRow \in Rows /\ NoExec \in Execs
    BY Ticks DEF NoRow, Rows, NoExec, Execs, Stages
<1>2. 0 \in 0..MaxClaims
    BY ConstantsAssumption
<1> QED
    BY <1>1, <1>2 DEF Init, TypeOK

-----------------------------------------------------------------------------
(* Type correctness: one lemma for each group of actions. *)

LEMMA OperateType == TypeOK /\ Operate => TypeOK'
<1> SUFFICES ASSUME TypeOK, Operate PROVE TypeOK'
    OBVIOUS
<1>1. ASSUME NEW s \in Sources, Enqueue(s) PROVE TypeOK'
    <2>1. s \in Keys
        BY DEF Keys
    <2> QED
        BY <1>1, <2>1, InsertType DEF Enqueue, TypeOK
<1>2. ASSUME NEW j \in Keys, CancelJob(j) PROVE TypeOK'
    <2>1. Released(row[j], "cancelled") \in Rows
        BY ExecTyped, ReleasedType DEF Settled, TypeOK
    <2> QED
        BY <1>2, <2>1 DEF CancelJob, TypeOK
<1>3. ASSUME NEW j \in Keys, RescheduleJob(j) PROVE TypeOK'
    <2>1. PICK due \in BOOLEAN : row' = [row EXCEPT ![j] =
              [row[j] EXCEPT !.status = "retry_scheduled", !.due = due]]
        BY <1>3 DEF RescheduleJob
    <2>2. [row[j] EXCEPT !.status = "retry_scheduled", !.due = due] \in Rows
        BY ExecTyped DEF TypeOK, Rows, Pending
    <2> QED
        BY <1>3, <2>1, <2>2 DEF RescheduleJob, TypeOK
<1>4. ASSUME NEW o \in Operators, RetryDeadLetterWrite(o) PROVE TypeOK'
    <2>1. request[o] \in Keys /\ row[request[o]] \in Rows
        BY <1>4 DEF RetryDeadLetterWrite, TypeOK
    <2>2. \A r \in Rows :
              [r EXCEPT !.status = "retry_scheduled", !.due = TRUE, !.attempts = 0] \in Rows
        BY DEF Rows, Pending
    <2>3. row' \in [Keys -> Rows]
        BY <1>4, <2>1, <2>2 DEF RetryDeadLetterWrite, TypeOK
    <2>4. request' \in [Operators -> Keys \cup {None}]
        BY <1>4 DEF RetryDeadLetterWrite, TypeOK
    <2> QED
        BY <1>4, <2>3, <2>4 DEF RetryDeadLetterWrite, TypeOK
<1>5. ASSUME NEW o \in Operators, NEW j \in Keys, RetryDeadLetterRead(o, j) PROVE TypeOK'
    BY <1>5 DEF RetryDeadLetterRead, TypeOK
<1> QED
    BY <1>1, <1>2, <1>3, <1>4, <1>5 DEF Operate

LEMMA PollType == ASSUME TypeOK, NEW w \in Workers, Poll(w) PROVE TypeOK'
<1>1. CASE RecoverLeases(w)
    <2>1. \A j \in Keys : [Released(row[j], "retry_scheduled") EXCEPT !.due = TRUE] \in Rows
        <3>1. \A r \in Rows : [r EXCEPT !.due = TRUE] \in Rows
            BY DEF Rows
        <3> QED
            BY <3>1, ReleasedType DEF TypeOK, Pending
    <2> QED
        BY <1>1, <2>1 DEF RecoverLeases, TypeOK
<1>2. CASE ScanCandidates(w)
    BY <1>2 DEF ScanCandidates, TypeOK
<1>3. ASSUME NEW j \in Keys, ClaimCandidate(w, j) PROVE TypeOK'
    <2>1. claims[j] + 1 \in 1..MaxClaims
        BY <1>3, ExecTyped, ConstantsAssumption DEF ClaimCandidate, Claimable
    <2>2. [NoExec EXCEPT !.worker = w, !.stage = "won"] \in Execs
        BY DEF NoExec, Execs, Stages
    <2>3. exec' \in [Keys -> [1..MaxClaims -> Execs]]
        BY <1>3, <2>1, <2>2, SetExecType DEF ClaimCandidate
    <2>4. row' \in [Keys -> Rows]
        BY <1>3 DEF ClaimCandidate, TypeOK, Rows
    <2>5. claims' \in [Keys -> 0..MaxClaims]
        BY <1>3, <2>1 DEF ClaimCandidate, TypeOK
    <2> QED
        BY <1>3, <2>3, <2>4, <2>5 DEF ClaimCandidate, TypeOK
<1>4. ASSUME NEW j \in Keys, MissCandidate(w, j) PROVE TypeOK'
    BY <1>4 DEF MissCandidate, TypeOK
<1>5. CASE StartBatch(w)
    <2>1. exec' \in [Keys -> [1..MaxClaims -> Execs]]
        <3>1. \A e \in Execs : [e EXCEPT !.stage = "running", !.awaited = TRUE] \in Execs
            BY DEF Execs, Stages
        <3> QED
            BY <1>5, <3>1 DEF StartBatch, EachExec, TypeOK
    <2> QED
        BY <1>5, <2>1 DEF StartBatch, TypeOK
<1>6. CASE FinishBatch(w)
    BY <1>6 DEF FinishBatch, TypeOK
<1> QED
    BY <1>1, <1>2, <1>3, <1>4, <1>5, <1>6 DEF Poll

LEMMA ExecuteType ==
    ASSUME TypeOK, NEW j \in Keys, NEW n \in 1..MaxClaims,
           Execute(j, n) \/ HandlerThrows(j, n) \/ Heartbeat(j, n)
    PROVE  TypeOK'
<1> USE ExecTyped
<1>1. CASE ReadClaimedRow(j, n)
    <2>1. [exec[j][n] EXCEPT !.stage = "ready", !.seen = row[j].attempts] \in Execs
        BY DEF Execs, Stages, Rows
    <2> QED
        BY <1>1, <2>1, SetExecType DEF ReadClaimedRow, TypeOK
<1>2. CASE HandlerReturns(j, n)
    <2>1. \A outcome \in Outcomes :
              [exec[j][n] EXCEPT !.stage = "returned", !.outcome = outcome] \in Execs
        BY DEF Execs, Stages, Outcomes
    <2> QED
        BY <1>2, <2>1, SetExecType DEF HandlerReturns, TypeOK, Outcomes
<1>3. CASE FinalizeSucceeded(j, n)
    <2>1. Released(row[j], "succeeded") \in Rows /\ Finished(exec[j][n]) \in Execs
        BY ReleasedType, FinishedType DEF Settled
    <2> QED
        BY <1>3, <2>1, SetExecType, WriteIfOwnerType DEF FinalizeSucceeded, TypeOK
<1>4. CASE FinalizeUncertain(j, n)
    <2>1. Released(row[j], "reconciliation_required") \in Rows
        BY ReleasedType DEF Settled
    <2>2. [exec[j][n] EXCEPT !.stage = "enqueuing"] \in Execs
        BY DEF Execs, Stages
    <2>3. Finished(exec[j][n]) \in Execs
        BY FinishedType
    <2> QED
        BY <1>4, <2>1, <2>2, <2>3, SetExecType, WriteIfOwnerType DEF FinalizeUncertain, TypeOK
<1>5. CASE EnqueueReconciliation(j, n)
    <2>1. row' \in [Keys -> Rows]
        <3>1. CASE Reconcile(j) \in Keys
            BY <1>5, <3>1, InsertType DEF EnqueueReconciliation
        <3>2. CASE Reconcile(j) \notin Keys
            BY <1>5, <3>2 DEF EnqueueReconciliation, InsertIfAbsent, TypeOK
        <3> QED
            BY <3>1, <3>2
    <2>2. Finished(exec[j][n]) \in Execs
        BY FinishedType
    <2> QED
        BY <1>5, <2>1, <2>2, SetExecType DEF EnqueueReconciliation, TypeOK
<1>6. CASE FinalizeFailure(j, n)
    <2>1. Finished(exec[j][n]) \in Execs
        BY FinishedType
    <2>2. FailureRow(j, n, exec[j][n].outcome) \in Rows
        BY ReleasedType DEF FailureRow, Pending, Settled
    <2> QED
        BY <1>6, <2>1, <2>2, SetExecType, WriteIfOwnerType DEF FinalizeFailure, TypeOK
<1>7. CASE HandlerThrows(j, n)
    <2>1. [exec[j][n] EXCEPT !.stage = "caught", !.outcome = "retry"] \in Execs
        BY DEF Execs, Stages, Outcomes
    <2> QED
        BY <1>7, <2>1, SetExecType DEF HandlerThrows, Catch, TypeOK
<1>8. CASE Heartbeat(j, n)
    BY <1>8, Ticks DEF Heartbeat, TypeOK, Rows
<1> QED
    BY <1>1, <1>2, <1>3, <1>4, <1>5, <1>6, <1>7, <1>8 DEF Execute

LEMMA FaultType == TypeOK /\ Fault => TypeOK'
<1> SUFFICES ASSUME TypeOK, Fault PROVE TypeOK'
    OBVIOUS
<1>1. ASSUME NEW w \in Workers, ClaimFault(w) PROVE TypeOK'
    <2>1. exec' \in [Keys -> [1..MaxClaims -> Execs]]
        BY <1>1, FinishedType DEF ClaimFault, EachExec, TypeOK
    <2> QED
        BY <1>1, <2>1 DEF ClaimFault, TypeOK
<1>2. ASSUME NEW w \in Workers, Crash(w) PROVE TypeOK'
    <2>1. exec' \in [Keys -> [1..MaxClaims -> Execs]]
        BY <1>2, FinishedType DEF Crash, EachExec, TypeOK
    <2> QED
        BY <1>2, <2>1 DEF Crash, TypeOK
<1>3. ASSUME NEW j \in Keys, NEW n \in 1..MaxClaims, FinalizeFault(j, n) PROVE TypeOK'
    <2>1. [exec[j][n] EXCEPT !.stage = "caught", !.outcome = "retry"] \in Execs
        BY ExecTyped DEF Execs, Stages, Outcomes
    <2> QED
        BY <1>3, <2>1, SetExecType DEF FinalizeFault, Catch, TypeOK
<1>4. ASSUME NEW j \in Keys, NEW n \in 1..MaxClaims, ExecutionFault(j, n) PROVE TypeOK'
    <2>1. \A e \in Execs : [e EXCEPT !.awaited = FALSE] \in Execs
        BY DEF Execs
    <2>2. exec' \in [Keys -> [1..MaxClaims -> Execs]]
        BY <1>4, <2>1, FinishedType DEF ExecutionFault, TypeOK
    <2>3. pc' \in [Workers -> {"idle", "scanning", "claiming", "batch", "down"}]
        BY <1>4 DEF ExecutionFault, TypeOK
    <2> QED
        BY <1>4, <2>2, <2>3 DEF ExecutionFault, TypeOK
<1> QED
    BY <1>1, <1>2, <1>3, <1>4 DEF Fault

LEMMA TimeType ==
    ASSUME TypeOK, Tick \/ \E j \in Keys : BecomesDue(j)
    PROVE  TypeOK'
<1>1. CASE Tick
    <2>1. \A r \in Rows : LeaseRuns(r) => [r EXCEPT !.lease = r.lease - 1] \in Rows
        BY ConstantsAssumption DEF Rows, LeaseRuns
    <2> QED
        BY <1>1, <2>1 DEF Tick, TypeOK
<1>2. ASSUME NEW j \in Keys, BecomesDue(j) PROVE TypeOK'
    <2>1. \A r \in Rows : [r EXCEPT !.due = TRUE] \in Rows
        BY DEF Rows
    <2> QED
        BY <1>2, <2>1 DEF BecomesDue, TypeOK
<1> QED
    BY <1>1, <1>2

LEMMA NextType == TypeOK /\ [Next]_vars => TypeOK'
<1> SUFFICES ASSUME TypeOK, [Next]_vars PROVE TypeOK'
    OBVIOUS
<1>1. CASE UNCHANGED vars
    BY <1>1 DEF vars, TypeOK
<1>2. CASE Next
    BY <1>2, OperateType, PollType, ExecuteType, FaultType, TimeType DEF Next
<1> QED
    BY <1>1, <1>2

(* Every variable keeps its kind, whatever faults, crashes and operators do. *)
THEOREM TypeCorrect == Spec => []TypeOK
BY InitType, NextType, PTL DEF Spec

-----------------------------------------------------------------------------
(* Every step but a claim is quiet: it makes no claim, starts no execution,  *)
(* gives none to another worker, leases no row, counts no attempt of a       *)
(* leased one, and lets an execution see no other count than the row's.      *)
Sees(j, n, e) ==
    \/ ~Active(e) \/ e.stage = "won"
    \/ (exec[j][n].stage # "won" /\ e.seen = exec[j][n].seen)
    \/ e.seen = row[j].attempts

Quiet ==
    /\ claims' = claims
    /\ \A j \in Keys, n \in 1..MaxClaims :
          /\ exec'[j][n].worker = exec[j][n].worker
          /\ Active(exec'[j][n]) => Active(exec[j][n])
          /\ Attended(exec'[j][n]) => Attended(exec[j][n])
          /\ Sees(j, n, exec'[j][n])
    /\ \A j \in Keys : row'[j].status = "leased" =>
          /\ row[j].status = "leased" /\ row'[j].owner = row[j].owner
          /\ row'[j].attempts = row[j].attempts

QuietExec(j, n, e) ==
    /\ e.worker = exec[j][n].worker /\ (Active(e) => Active(exec[j][n]))
    /\ (Attended(e) => Attended(exec[j][n])) /\ Sees(j, n, e)
QuietRow(j, r) ==
    r.status = "leased" =>
        row[j].status = "leased" /\ r.owner = row[j].owner /\ r.attempts = row[j].attempts

LEMMA QuietSetExec ==
    ASSUME TypeOK, NEW j \in Keys, NEW n \in 1..MaxClaims, NEW e \in Execs,
           QuietExec(j, n, e), SetExec(j, n, e)
    PROVE  \A i \in Keys, m \in 1..MaxClaims : QuietExec(i, m, exec'[i][m])
BY DEF TypeOK, SetExec, QuietExec, Sees

LEMMA QuietOneRow ==
    ASSUME TypeOK, NEW j \in Keys, NEW r, QuietRow(j, r),
           row' = [row EXCEPT ![j] = r] \/ row' = row
    PROVE  \A i \in Keys : QuietRow(i, row'[i])
BY DEF TypeOK, QuietRow

LEMMA QuietWrite ==
    ASSUME TypeOK, NEW j \in Keys, NEW n \in 1..MaxClaims, NEW r, QuietRow(j, r),
           WriteIfOwner(j, n, r)
    PROVE  \A i \in Keys : QuietRow(i, row'[i])
<1>1. row' = [row EXCEPT ![j] = r] \/ row' = row
    BY DEF WriteIfOwner
<1> QED
    BY <1>1, QuietOneRow

LEMMA QuietInsert ==
    ASSUME TypeOK, NEW j, NEW due \in BOOLEAN, InsertIfAbsent(j, due)
    PROVE  \A i \in Keys : QuietRow(i, row'[i])
<1>1. [NoRow EXCEPT !.status = "queued", !.due = due].status = "queued"
    BY DEF NoRow
<1> QED
    BY <1>1 DEF InsertIfAbsent, QuietRow, TypeOK

LEMMA QuietReleased ==
    ASSUME TypeOK, NEW j \in Keys, NEW status \in Pending \cup Settled
    PROVE  /\ QuietRow(j, Released(row[j], status))
           /\ Released(row[j], status).status = status
BY ExecTyped DEF QuietRow, Released, Rows, Pending, Settled

LEMMA QuietFinished ==
    ASSUME TypeOK, NEW j \in Keys, NEW n \in 1..MaxClaims
    PROVE  /\ QuietExec(j, n, Finished(exec[j][n]))
           /\ Finished(exec[j][n]) \in Execs
           /\ ~Active(Finished(exec[j][n]))
BY ExecTyped, FinishedType DEF QuietExec, Sees, Finished, Execs, Active, Attended

LEMMA QuietParts ==
    ASSUME claims' = claims,
           \A j \in Keys, n \in 1..MaxClaims : QuietExec(j, n, exec'[j][n]),
           \A j \in Keys : QuietRow(j, row'[j])
    PROVE  Quiet
BY DEF Quiet, QuietExec, Sees, QuietRow

LEMMA QuietSame ==
    /\ exec' = exec => \A j \in Keys, n \in 1..MaxClaims : QuietExec(j, n, exec'[j][n])
    /\ row' = row => \A j \in Keys : QuietRow(j, row'[j])
BY DEF QuietExec, Sees, QuietRow

LEMMA OperateQuiet == TypeOK /\ Operate => Quiet
<1> SUFFICES ASSUME TypeOK, Operate PROVE Quiet
    OBVIOUS
<1> SUFFICES \A i \in Keys : QuietRow(i, row'[i])
    <2> DEFINE Same == claims' = claims /\ exec' = exec
    <2>1. \A s \in Sources : Enqueue(s) => Same
        BY DEF Enqueue
    <2>2. \A j \in Keys : CancelJob(j) \/ RescheduleJob(j) => Same
        BY DEF CancelJob, RescheduleJob
    <2>3. \A o \in Operators : RetryDeadLetterWrite(o) => Same
        BY DEF RetryDeadLetterWrite
    <2>4. \A o \in Operators, j \in Keys : RetryDeadLetterRead(o, j) => Same
        BY DEF RetryDeadLetterRead
    <2>5. Same
        BY <2>1, <2>2, <2>3, <2>4 DEF Operate
    <2> QED
        BY <2>5, QuietSame, QuietParts
<1>1. ASSUME NEW s \in Sources, Enqueue(s) PROVE \A i \in Keys : QuietRow(i, row'[i])
    BY <1>1, QuietInsert DEF Enqueue
<1>2. ASSUME NEW j \in Keys, CancelJob(j) PROVE \A i \in Keys : QuietRow(i, row'[i])
    BY <1>2, QuietReleased, QuietOneRow DEF CancelJob, Settled
<1>3. ASSUME NEW j \in Keys, RescheduleJob(j) PROVE \A i \in Keys : QuietRow(i, row'[i])
    <2>1. PICK due \in BOOLEAN : row' = [row EXCEPT ![j] =
              [row[j] EXCEPT !.status = "retry_scheduled", !.due = due]]
        BY <1>3 DEF RescheduleJob
    <2>2. QuietRow(j, [row[j] EXCEPT !.status = "retry_scheduled", !.due = due])
        BY ExecTyped DEF QuietRow, Rows
    <2> QED
        BY <2>1, <2>2, QuietOneRow
<1>4. ASSUME NEW o \in Operators, RetryDeadLetterWrite(o) PROVE \A i \in Keys : QuietRow(i, row'[i])
    <2> DEFINE j == request[o]
               r == [row[j] EXCEPT !.status = "retry_scheduled", !.due = TRUE, !.attempts = 0]
    <2>1. j \in Keys
        BY <1>4 DEF RetryDeadLetterWrite, TypeOK
    <2>2. QuietRow(j, r)
        BY <2>1, ExecTyped DEF QuietRow, Rows
    <2>3. row' = [row EXCEPT ![j] = r]
        BY <1>4 DEF RetryDeadLetterWrite
    <2> HIDE DEF r
    <2> QED
        BY <2>1, <2>2, <2>3, QuietOneRow
<1>5. ASSUME NEW o \in Operators, NEW j \in Keys, RetryDeadLetterRead(o, j)
      PROVE  \A i \in Keys : QuietRow(i, row'[i])
    BY <1>5, QuietSame DEF RetryDeadLetterRead
<1> QED
    BY <1>1, <1>2, <1>3, <1>4, <1>5 DEF Operate

LEMMA ExecuteQuiet ==
    ASSUME TypeOK, NEW j \in Keys, NEW n \in 1..MaxClaims,
           Execute(j, n) \/ HandlerThrows(j, n) \/ Heartbeat(j, n)
    PROVE  Quiet
<1> DEFINE RowsQuiet == \A i \in Keys : QuietRow(i, row'[i])
           ExecsQuiet == \A i \in Keys, m \in 1..MaxClaims : QuietExec(i, m, exec'[i][m])
<1> SUFFICES RowsQuiet /\ ExecsQuiet
    <2>1. claims' = claims
        BY DEF Execute, HandlerThrows, Heartbeat, ReadClaimedRow, HandlerReturns, FinalizeSucceeded,
               FinalizeUncertain, EnqueueReconciliation, FinalizeFailure
    <2> QED
        BY <2>1, QuietParts
<1>0. exec[j][n] \in Execs /\ row[j] \in Rows
    BY ExecTyped
<1>1. CASE ReadClaimedRow(j, n)
    <2> DEFINE e == [exec[j][n] EXCEPT !.stage = "ready", !.seen = row[j].attempts]
    <2>1. e \in Execs /\ QuietExec(j, n, e)
        BY <1>0, <1>1 DEF ReadClaimedRow, Execs, Stages, Rows, QuietExec, Sees, Active, Attended
    <2> QED
        BY <1>1, <2>1, QuietSetExec, QuietSame DEF ReadClaimedRow
<1>2. CASE HandlerReturns(j, n)
    <2>1. PICK outcome \in Outcomes :
              SetExec(j, n, [exec[j][n] EXCEPT !.stage = "returned", !.outcome = outcome])
        BY <1>2 DEF HandlerReturns, Outcomes
    <2> DEFINE e == [exec[j][n] EXCEPT !.stage = "returned", !.outcome = outcome]
    <2>2. e \in Execs /\ QuietExec(j, n, e)
        BY <1>0, <1>2 DEF HandlerReturns, Execs, Stages, Outcomes, QuietExec, Sees, Active, Attended
    <2> QED
        BY <1>2, <2>1, <2>2, QuietSetExec, QuietSame DEF HandlerReturns
<1>3. CASE FinalizeSucceeded(j, n)
    BY <1>3, QuietReleased, QuietWrite, QuietFinished, QuietSetExec DEF FinalizeSucceeded, Settled
<1>4. CASE FinalizeUncertain(j, n)
    <2> DEFINE e == [exec[j][n] EXCEPT !.stage = "enqueuing"]
    <2>1. e \in Execs /\ QuietExec(j, n, e)
        BY <1>0, <1>4 DEF FinalizeUncertain, Execs, Stages, QuietExec, Sees, Active, Attended
    <2>2. ExecsQuiet
        BY <1>4, <2>1, QuietFinished, QuietSetExec DEF FinalizeUncertain
    <2> QED
        BY <1>4, <2>2, QuietReleased, QuietWrite DEF FinalizeUncertain, Settled
<1>5. CASE EnqueueReconciliation(j, n)
    BY <1>5, QuietInsert, QuietFinished, QuietSetExec DEF EnqueueReconciliation
<1>6. CASE FinalizeFailure(j, n)
    <2>1. QuietRow(j, FailureRow(j, n, exec[j][n].outcome))
        BY QuietReleased DEF FailureRow, Pending, Settled
    <2> QED
        BY <1>6, <2>1, QuietWrite, QuietFinished, QuietSetExec DEF FinalizeFailure
<1>7. CASE HandlerThrows(j, n)
    <2> DEFINE e == [exec[j][n] EXCEPT !.stage = "caught", !.outcome = "retry"]
    <2>1. e \in Execs /\ QuietExec(j, n, e)
        BY <1>0, <1>7 DEF HandlerThrows, Execs, Stages, Outcomes, QuietExec, Sees, Active, Attended
    <2> QED
        BY <1>7, <2>1, QuietSetExec, QuietSame DEF HandlerThrows, Catch
<1>8. CASE Heartbeat(j, n)
    <2> DEFINE r == [row[j] EXCEPT !.lease = LeaseTicks]
    <2>1. QuietRow(j, r)
        BY <1>0, <1>8 DEF Heartbeat, Owns, Rows, QuietRow
    <2>2. row' = [row EXCEPT ![j] = r]
        BY <1>8 DEF Heartbeat
    <2> HIDE DEF r
    <2> QED
        BY <1>8, <2>1, <2>2, QuietOneRow, QuietSame DEF Heartbeat
<1> QED
    BY <1>1, <1>2, <1>3, <1>4, <1>5, <1>6, <1>7, <1>8 DEF Execute

LEMMA PollQuiet ==
    ASSUME TypeOK, NEW w \in Workers, Poll(w)
    PROVE  Quiet \/ \E j \in Keys : ClaimCandidate(w, j)
<1>1. CASE RecoverLeases(w)
    <2>1. ASSUME NEW j \in Keys PROVE QuietRow(j, row'[j])
        <3>1. [Released(row[j], "retry_scheduled") EXCEPT !.due = TRUE].status = "retry_scheduled"
            BY ExecTyped DEF Released, Rows
        <3> QED
            BY <1>1, <3>1 DEF RecoverLeases, QuietRow
    <2> QED
        BY <1>1, <2>1, QuietSame, QuietParts DEF RecoverLeases
<1>2. CASE ScanCandidates(w)
    BY <1>2, QuietSame, QuietParts DEF ScanCandidates
<1>3. ASSUME NEW j \in Keys, MissCandidate(w, j) PROVE Quiet
    BY <1>3, QuietSame, QuietParts DEF MissCandidate
<1>4. CASE StartBatch(w)
    <2>1. ASSUME NEW j \in Keys, NEW n \in 1..MaxClaims PROVE QuietExec(j, n, exec'[j][n])
        <3>1. exec[j][n].stage = "ready" =>
                  QuietExec(j, n, [exec[j][n] EXCEPT !.stage = "running", !.awaited = TRUE])
            BY ExecTyped DEF Execs, QuietExec, Sees, Active, Attended
        <3>2. QuietExec(j, n, exec[j][n])
            BY DEF QuietExec, Sees
        <3> QED
            BY <1>4, <3>1, <3>2 DEF StartBatch, EachExec
    <2> QED
        BY <1>4, <2>1, QuietSame, QuietParts DEF StartBatch
<1>5. CASE FinishBatch(w)
    BY <1>5, QuietSame, QuietParts DEF FinishBatch
<1> QED
    BY <1>1, <1>2, <1>3, <1>4, <1>5 DEF Poll

LEMMA FaultQuiet == TypeOK /\ Fault => Quiet
<1> SUFFICES ASSUME TypeOK, Fault PROVE Quiet
    OBVIOUS
<1>1. ASSUME NEW w \in Workers, ClaimFault(w) PROVE Quiet
    <2>1. ASSUME NEW j \in Keys, NEW n \in 1..MaxClaims PROVE QuietExec(j, n, exec'[j][n])
        BY <1>1, QuietFinished DEF ClaimFault, EachExec, QuietExec, Sees
    <2> QED
        BY <1>1, <2>1, QuietSame, QuietParts DEF ClaimFault
<1>2. ASSUME NEW w \in Workers, Crash(w) PROVE Quiet
    <2>1. ASSUME NEW j \in Keys, NEW n \in 1..MaxClaims PROVE QuietExec(j, n, exec'[j][n])
        BY <1>2, QuietFinished DEF Crash, EachExec, QuietExec, Sees
    <2> QED
        BY <1>2, <2>1, QuietSame, QuietParts DEF Crash
<1>3. ASSUME NEW j \in Keys, NEW n \in 1..MaxClaims, FinalizeFault(j, n) PROVE Quiet
    <2> DEFINE e == [exec[j][n] EXCEPT !.stage = "caught", !.outcome = "retry"]
    <2>1. e \in Execs /\ QuietExec(j, n, e)
        BY <1>3, ExecTyped DEF FinalizeFault, Execs, Stages, Outcomes, QuietExec, Sees, Active, Attended
    <2> QED
        BY <1>3, <2>1, QuietSetExec, QuietSame, QuietParts DEF FinalizeFault, Catch
<1>4. ASSUME NEW j \in Keys, NEW n \in 1..MaxClaims, ExecutionFault(j, n) PROVE Quiet
    <2>1. ASSUME NEW i \in Keys, NEW m \in 1..MaxClaims PROVE QuietExec(i, m, exec'[i][m])
        <3>1. QuietExec(i, m, [exec[i][m] EXCEPT !.awaited = FALSE])
            BY ExecTyped DEF Execs, QuietExec, Sees, Active, Attended
        <3>2. QuietExec(i, m, exec[i][m])
            BY DEF QuietExec, Sees
        <3> QED
            BY <1>4, <3>1, <3>2, QuietFinished DEF ExecutionFault
    <2> QED
        BY <1>4, <2>1, QuietSame, QuietParts DEF ExecutionFault
<1> QED
    BY <1>1, <1>2, <1>3, <1>4 DEF Fault

LEMMA TimeQuiet ==
    ASSUME TypeOK, Tick \/ \E j \in Keys : BecomesDue(j)
    PROVE  Quiet
<1>1. CASE Tick
    <2>1. ASSUME NEW j \in Keys PROVE QuietRow(j, row'[j])
        <3>1. QuietRow(j, row[j])
            BY DEF QuietRow
        <3>2. LeaseRuns(row[j]) => QuietRow(j, [row[j] EXCEPT !.lease = row[j].lease - 1])
            BY ExecTyped DEF Rows, QuietRow, LeaseRuns
        <3> QED
            BY <1>1, <3>1, <3>2 DEF Tick
    <2> QED
        BY <1>1, <2>1, QuietSame, QuietParts DEF Tick
<1>2. ASSUME NEW j \in Keys, BecomesDue(j) PROVE Quiet
    <2> DEFINE r == [row[j] EXCEPT !.due = TRUE]
    <2>1. QuietRow(j, r)
        BY ExecTyped DEF Rows, QuietRow
    <2>2. row' = [row EXCEPT ![j] = r]
        BY <1>2 DEF BecomesDue
    <2> HIDE DEF r
    <2> QED
        BY <1>2, <2>1, <2>2, QuietOneRow, QuietSame, QuietParts DEF BecomesDue
<1> QED
    BY <1>1, <1>2

(* A step claims one job for one worker, or it is quiet. *)
LEMMA StepQuietOrClaims ==
    ASSUME TypeOK, [Next]_vars
    PROVE  Quiet \/ \E w \in Workers, j \in Keys : ClaimCandidate(w, j)
<1>1. CASE UNCHANGED vars
    BY <1>1, QuietSame, QuietParts DEF vars
<1>2. CASE Next
    BY <1>2, OperateQuiet, PollQuiet, ExecuteQuiet, FaultQuiet, TimeQuiet DEF Next
<1> QED
    BY <1>1, <1>2

(* What a claim writes. *)
LEMMA ClaimWrites ==
    ASSUME TypeOK, NEW w \in Workers, NEW j \in Keys, ClaimCandidate(w, j)
    PROVE  /\ claims[j] + 1 \in 1..MaxClaims
           /\ claims' = [claims EXCEPT ![j] = claims[j] + 1]
           /\ exec'[j][claims[j] + 1].worker = w
           /\ exec'[j][claims[j] + 1].stage = "won"
           /\ \A i \in Keys, m \in 1..MaxClaims :
                 i # j \/ m # claims[j] + 1 => exec'[i][m] = exec[i][m]
           /\ row'[j].status = "leased" /\ row'[j].owner = w
           /\ \A i \in Keys \ {j} : row'[i] = row[i]
<1>1. claims[j] + 1 \in 1..MaxClaims
    BY ExecTyped, ConstantsAssumption DEF ClaimCandidate, Claimable
<1> DEFINE e == [NoExec EXCEPT !.worker = w, !.stage = "won"]
<1>2. e.worker = w /\ e.stage = "won"
    BY DEF NoExec
<1>3. exec' = [exec EXCEPT ![j][claims[j] + 1] = e]
    BY DEF ClaimCandidate, SetExec
<1> HIDE DEF e
<1>4. exec'[j][claims[j] + 1] = e
    BY <1>1, <1>3 DEF TypeOK
<1>5. \A i \in Keys, m \in 1..MaxClaims :
          i # j \/ m # claims[j] + 1 => exec'[i][m] = exec[i][m]
    BY <1>1, <1>3 DEF TypeOK
<1>6. row'[j].status = "leased" /\ row'[j].owner = w /\ \A i \in Keys \ {j} : row'[i] = row[i]
    BY DEF ClaimCandidate, TypeOK
<1> QED
    BY <1>1, <1>2, <1>4, <1>5, <1>6 DEF ClaimCandidate

-----------------------------------------------------------------------------
(* A leased row names the worker of the latest claim, with any database      *)
(* faults and any number of racing operators.                                *)
THEOREM LeaseNamesLatest == Spec => []LeaseNamesLatestClaim
<1>1. Init => LeaseNamesLatestClaim
    BY DEF Init, LeaseNamesLatestClaim, NoRow
<1>2. TypeOK /\ LeaseNamesLatestClaim /\ [Next]_vars => LeaseNamesLatestClaim'
    <2> SUFFICES ASSUME TypeOK, LeaseNamesLatestClaim, [Next]_vars,
                        NEW i \in Keys, row'[i].status = "leased"
                 PROVE  claims'[i] # 0 /\ row'[i].owner = exec'[i][claims'[i]].worker
        BY DEF LeaseNamesLatestClaim
    <2>1. claims[i] \in 0..MaxClaims /\ MaxClaims \in Nat
        BY ExecTyped, ConstantsAssumption
    <2>2. CASE Quiet
        <3>1. claims[i] \in 1..MaxClaims /\ row[i].owner = exec[i][claims[i]].worker
            BY <2>1, <2>2 DEF Quiet, LeaseNamesLatestClaim
        <3> QED
            BY <2>2, <3>1 DEF Quiet
    <2>3. ASSUME NEW w \in Workers, NEW j \in Keys, ClaimCandidate(w, j)
          PROVE  claims'[i] # 0 /\ row'[i].owner = exec'[i][claims'[i]].worker
        <3>1. CASE i = j
            BY <2>1, <2>3, <3>1, ClaimWrites DEF TypeOK
        <3>2. CASE i # j
            <4>1. row'[i] = row[i] /\ claims'[i] = claims[i]
                BY <2>3, <3>2, ClaimWrites DEF TypeOK
            <4>2. claims[i] \in 1..MaxClaims /\ row[i].owner = exec[i][claims[i]].worker
                BY <2>1, <4>1 DEF LeaseNamesLatestClaim
            <4> QED
                BY <2>3, <3>2, <4>1, <4>2, ClaimWrites
        <3> QED
            BY <3>1, <3>2
    <2> QED
        BY <2>2, <2>3, StepQuietOrClaims
<1> QED
    BY <1>1, <1>2, TypeCorrect, PTL DEF Spec

-----------------------------------------------------------------------------
(* Fencing.  Ownership is checked by worker, so it separates claims only     *)
(* because no worker claims a job while it waits for an execution of it: that *)
(* is the invariant Fenced.                                                   *)

Round(j, n, e) ==
    /\ Active(e) => e.worker \in Workers /\ n <= claims'[j]
    /\ e.stage \in {"won", "ready"} => pc'[e.worker] = "claiming" /\ j \notin cands'[e.worker]
    /\ e.stage \in {"running", "returned", "enqueuing", "caught"} /\ e.awaited =>
          pc'[e.worker] = "batch"

LEMMA RoundIsNext ==
    ASSUME \A j \in Keys, n \in 1..MaxClaims : Round(j, n, exec'[j][n])
    PROVE  ClaimsBelongToTheRound'
BY DEF ClaimsBelongToTheRound, Round

LEMMA RoundKept ==
    ASSUME ClaimsBelongToTheRound, claims' = claims, pc' = pc, cands' = cands,
           NEW j \in Keys, NEW n \in 1..MaxClaims
    PROVE  Round(j, n, exec[j][n])
BY DEF ClaimsBelongToTheRound, Round

LEMMA RoundFinished ==
    ASSUME TypeOK, NEW j \in Keys, NEW n \in 1..MaxClaims
    PROVE  Round(j, n, Finished(exec[j][n]))
BY ExecTyped DEF Round, Finished, Active, Execs

(* One execution takes a step. *)
LEMMA RoundSetExec ==
    ASSUME TypeOK, ClaimsBelongToTheRound, claims' = claims, pc' = pc, cands' = cands,
           NEW j \in Keys, NEW n \in 1..MaxClaims, NEW e, SetExec(j, n, e), Round(j, n, e)
    PROVE  ClaimsBelongToTheRound'
<1>1. ASSUME NEW i \in Keys, NEW m \in 1..MaxClaims PROVE Round(i, m, exec'[i][m])
    <2>1. CASE i = j /\ m = n
        BY <2>1 DEF SetExec, TypeOK
    <2>2. CASE ~(i = j /\ m = n)
        BY <2>2, RoundKept DEF SetExec, TypeOK
    <2> QED
        BY <2>1, <2>2
<1> QED
    BY <1>1, RoundIsNext

LEMMA ExecuteRound ==
    ASSUME TypeOK, ClaimsBelongToTheRound, NEW j \in Keys, NEW n \in 1..MaxClaims,
           Execute(j, n) \/ HandlerThrows(j, n) \/ Heartbeat(j, n)
    PROVE  ClaimsBelongToTheRound'
<1>0. exec[j][n] \in Execs
    BY ExecTyped
<1>1. CASE ReadClaimedRow(j, n)
    <2> DEFINE e == [exec[j][n] EXCEPT !.stage = "ready", !.seen = row[j].attempts]
    <2>1. Round(j, n, e)
        BY <1>0, <1>1 DEF ReadClaimedRow, ClaimsBelongToTheRound, Round, Execs, Active
    <2> HIDE DEF e
    <2>2. SetExec(j, n, e)
        BY <1>1 DEF ReadClaimedRow, e
    <2> QED
        BY <1>1, <2>1, <2>2, RoundSetExec DEF ReadClaimedRow
<1>2. CASE HandlerReturns(j, n)
    <2>1. PICK outcome \in Outcomes :
              SetExec(j, n, [exec[j][n] EXCEPT !.stage = "returned", !.outcome = outcome])
        BY <1>2 DEF HandlerReturns, Outcomes
    <2>2. Round(j, n, [exec[j][n] EXCEPT !.stage = "returned", !.outcome = outcome])
        BY <1>0, <1>2 DEF HandlerReturns, ClaimsBelongToTheRound, Round, Execs, Active
    <2> QED
        BY <1>2, <2>1, <2>2, RoundSetExec DEF HandlerReturns
<1>3. CASE FinalizeSucceeded(j, n)
    BY <1>3, RoundFinished, RoundSetExec DEF FinalizeSucceeded
<1>4. CASE FinalizeUncertain(j, n)
    <2>1. Round(j, n, [exec[j][n] EXCEPT !.stage = "enqueuing"])
        BY <1>0, <1>4 DEF FinalizeUncertain, ClaimsBelongToTheRound, Round, Execs, Active
    <2> QED
        BY <1>4, <2>1, RoundFinished, RoundSetExec DEF FinalizeUncertain
<1>5. CASE EnqueueReconciliation(j, n)
    BY <1>5, RoundFinished, RoundSetExec DEF EnqueueReconciliation
<1>6. CASE FinalizeFailure(j, n)
    BY <1>6, RoundFinished, RoundSetExec DEF FinalizeFailure
<1>7. CASE HandlerThrows(j, n)
    <2>1. Round(j, n, [exec[j][n] EXCEPT !.stage = "caught", !.outcome = "retry"])
        BY <1>0, <1>7 DEF HandlerThrows, ClaimsBelongToTheRound, Round, Execs, Active
    <2> QED
        BY <1>7, <2>1, RoundSetExec DEF HandlerThrows, Catch
<1>8. CASE Heartbeat(j, n)
    BY <1>8, RoundKept, RoundIsNext DEF Heartbeat
<1> QED
    BY <1>1, <1>2, <1>3, <1>4, <1>5, <1>6, <1>7, <1>8 DEF Execute

LEMMA PollRound ==
    ASSUME TypeOK, ClaimsBelongToTheRound, NEW w \in Workers, Poll(w)
    PROVE  ClaimsBelongToTheRound'
<1>1. CASE RecoverLeases(w) \/ ScanCandidates(w) \/ FinishBatch(w)
    <2>1. claims' = claims /\ exec' = exec
        BY <1>1 DEF RecoverLeases, ScanCandidates, FinishBatch
    <2>2. ASSUME NEW v \in Workers \ {w} PROVE pc'[v] = pc[v] /\ cands'[v] = cands[v]
        BY <1>1 DEF RecoverLeases, ScanCandidates, FinishBatch, TypeOK
    <2>3. ASSUME NEW j \in Keys, NEW n \in 1..MaxClaims, Attended(exec[j][n])
          PROVE  exec[j][n].worker # w
        BY <1>1, <2>3, ExecTyped
           DEF RecoverLeases, ScanCandidates, FinishBatch, ClaimsBelongToTheRound, Active, Attended, Execs, Stages
    <2>4. ASSUME NEW j \in Keys, NEW n \in 1..MaxClaims PROVE Round(j, n, exec[j][n])
        BY <2>1, <2>2, <2>3 DEF ClaimsBelongToTheRound, Round, Active, Attended
    <2> QED
        BY <2>1, <2>4, RoundIsNext
<1>2. ASSUME NEW j \in Keys, ClaimCandidate(w, j) PROVE ClaimsBelongToTheRound'
    <2>1. pc' = pc /\ pc[w] = "claiming" /\ cands' = [cands EXCEPT ![w] = cands[w] \ {j}]
        BY <1>2 DEF ClaimCandidate
    <2>2. \A i \in Keys : /\ claims[i] \in Nat /\ claims'[i] \in Nat
                          /\ claims[i] <= claims'[i]
        <3>1. claims' = [claims EXCEPT ![j] = claims[j] + 1]
            BY <1>2, ClaimWrites
        <3>2. \A i \in Keys : claims[i] \in Nat
            BY ConstantsAssumption DEF TypeOK
        <3>3. \A i \in Keys : claims'[i] = IF i = j THEN claims[j] + 1 ELSE claims[i]
            BY <3>1 DEF TypeOK
        <3> QED
            BY <3>2, <3>3
    <2>3. ASSUME NEW i \in Keys, NEW m \in 1..MaxClaims PROVE Round(i, m, exec'[i][m])
        <3>1. CASE i = j /\ m = claims[j] + 1
            BY <1>2, <2>1, <3>1, ClaimWrites, ConstantsAssumption DEF Round, TypeOK
        <3>2. CASE ~(i = j /\ m = claims[j] + 1)
            <4>1. exec'[i][m] = exec[i][m]
                BY <1>2, <3>2, ClaimWrites
            <4>2. m <= claims[i] => m <= claims'[i]
                <5>1. /\ claims[i] \in Nat /\ claims'[i] \in Nat
                      /\ claims[i] <= claims'[i]
                    BY <2>2
                <5>2. m \in Nat
                    BY ConstantsAssumption
                <5> QED
                    BY ONLY <5>1, <5>2
            <4>3. \A v \in Workers : i \notin cands[v] => i \notin cands'[v]
                BY <2>1 DEF TypeOK
            <4> QED
                BY <2>1, <4>1, <4>2, <4>3 DEF ClaimsBelongToTheRound, Round, Active
        <3> QED
            BY <3>1, <3>2
    <2> QED
        BY <2>3, RoundIsNext
<1>3. ASSUME NEW j \in Keys, MissCandidate(w, j) PROVE ClaimsBelongToTheRound'
    <2>1. \A v \in Workers : cands'[v] \subseteq cands[v]
        BY <1>3 DEF MissCandidate, TypeOK
    <2> QED
        BY <1>3, <2>1 DEF MissCandidate, ClaimsBelongToTheRound, Active
<1>4. CASE StartBatch(w)
    <2>1. ASSUME NEW v \in Workers \ {w} PROVE pc'[v] = pc[v] /\ cands'[v] = cands[v]
        BY <1>4 DEF StartBatch, TypeOK
    <2>2. ASSUME NEW j \in Keys, NEW n \in 1..MaxClaims PROVE Round(j, n, exec'[j][n])
        <3>1. CASE exec[j][n].worker = w /\ exec[j][n].stage = "ready"
            <4> DEFINE e == [exec[j][n] EXCEPT !.stage = "running", !.awaited = TRUE]
            <4>1. <<j, n>> \in Ready(w)
                BY <3>1 DEF Ready
            <4>2. pc'[w] = "batch"
                BY <1>4, <4>1 DEF StartBatch, TypeOK
            <4>3. Round(j, n, e)
                BY <1>4, <3>1, <4>2, ExecTyped
                   DEF StartBatch, ClaimsBelongToTheRound, Round, Execs, Active
            <4>4. exec'[j][n] = e
                BY <1>4, <3>1 DEF StartBatch, EachExec
            <4> QED
                BY <4>3, <4>4
        <3>2. CASE ~(exec[j][n].worker = w /\ exec[j][n].stage = "ready")
            <4>1. exec'[j][n] = exec[j][n]
                BY <1>4, <3>2 DEF StartBatch, EachExec
            <4>2. Attended(exec[j][n]) => exec[j][n].worker # w
                <5>1. <<j, n>> \notin Won(w)
                    BY <1>4 DEF StartBatch
                <5> QED
                    BY <1>4, <3>2, <5>1, ExecTyped
                       DEF StartBatch, Won, ClaimsBelongToTheRound, Active, Attended, Execs, Stages
            <4> QED
                BY <1>4, <2>1, <4>1, <4>2 DEF StartBatch, ClaimsBelongToTheRound, Round, Active, Attended
        <3> QED
            BY <3>1, <3>2
    <2> QED
        BY <2>2, RoundIsNext
<1> QED
    BY <1>1, <1>2, <1>3, <1>4 DEF Poll

(* A worker leaves its round: it forgets, at least, what it still attends to. *)
LEMMA RoundLeft ==
    ASSUME TypeOK, ClaimsBelongToTheRound, NEW w \in Workers, claims' = claims,
           \A v \in Workers \ {w} : pc'[v] = pc[v] /\ cands'[v] = cands[v],
           \A j \in Keys, n \in 1..MaxClaims :
               \/ exec'[j][n] = Finished(exec[j][n])
               \/ exec'[j][n] = exec[j][n] /\ (Attended(exec[j][n]) => exec[j][n].worker # w)
    PROVE  ClaimsBelongToTheRound'
<1>1. ASSUME NEW j \in Keys, NEW n \in 1..MaxClaims PROVE Round(j, n, exec'[j][n])
    <2>1. CASE exec'[j][n] = Finished(exec[j][n])
        BY <2>1, RoundFinished
    <2>2. CASE exec'[j][n] = exec[j][n] /\ (Attended(exec[j][n]) => exec[j][n].worker # w)
        BY <2>2 DEF ClaimsBelongToTheRound, Round, Active, Attended
    <2> QED
        BY <2>1, <2>2
<1> QED
    BY <1>1, RoundIsNext

LEMMA FaultRound ==
    ASSUME TypeOK, ClaimsBelongToTheRound, Fault
    PROVE  ClaimsBelongToTheRound'
<1>1. ASSUME NEW w \in Workers, Crash(w) PROVE ClaimsBelongToTheRound'
    <2>1. ASSUME NEW v \in Workers \ {w} PROVE pc'[v] = pc[v] /\ cands'[v] = cands[v]
        BY <1>1 DEF Crash, TypeOK
    <2>2. ASSUME NEW j \in Keys, NEW n \in 1..MaxClaims
          PROVE  \/ exec'[j][n] = Finished(exec[j][n])
                 \/ exec'[j][n] = exec[j][n] /\ (Attended(exec[j][n]) => exec[j][n].worker # w)
        <3>1. exec'[j][n] = IF exec[j][n].worker = w /\ Active(exec[j][n])
                            THEN Finished(exec[j][n]) ELSE exec[j][n]
            BY <1>1 DEF Crash, EachExec
        <3>2. Attended(exec[j][n]) => Active(exec[j][n])
            BY DEF Attended, Active
        <3> QED
            BY <3>1, <3>2
    <2> QED
        BY <1>1, <2>1, <2>2, RoundLeft DEF Crash
<1>2. ASSUME NEW w \in Workers, ClaimFault(w) PROVE ClaimsBelongToTheRound'
    <2>1. ASSUME NEW v \in Workers \ {w} PROVE pc'[v] = pc[v] /\ cands'[v] = cands[v]
        BY <1>2 DEF ClaimFault, TypeOK
    <2>2. ASSUME NEW j \in Keys, NEW n \in 1..MaxClaims
          PROVE  \/ exec'[j][n] = Finished(exec[j][n])
                 \/ exec'[j][n] = exec[j][n] /\ (Attended(exec[j][n]) => exec[j][n].worker # w)
        <3>1. exec'[j][n] = IF exec[j][n].worker = w /\ exec[j][n].stage \in {"won", "ready"}
                            THEN Finished(exec[j][n]) ELSE exec[j][n]
            BY <1>2 DEF ClaimFault, EachExec
        <3>2. Attended(exec[j][n]) /\ exec[j][n].stage \notin {"won", "ready"} =>
                  pc[exec[j][n].worker] = "batch"
            BY ExecTyped DEF Attended, Active, ClaimsBelongToTheRound, Execs, Stages
        <3>3. pc[w] # "batch"
            BY <1>2 DEF ClaimFault
        <3> QED
            BY <3>1, <3>2, <3>3
    <2> QED
        BY <1>2, <2>1, <2>2, RoundLeft DEF ClaimFault
<1>3. ASSUME NEW j \in Keys, NEW n \in 1..MaxClaims, FinalizeFault(j, n)
      PROVE  ClaimsBelongToTheRound'
    <2>1. Round(j, n, [exec[j][n] EXCEPT !.stage = "caught", !.outcome = "retry"])
        BY <1>3, ExecTyped DEF FinalizeFault, ClaimsBelongToTheRound, Round, Execs, Active
    <2> QED
        BY <1>3, <2>1, RoundSetExec DEF FinalizeFault, Catch
<1>4. ASSUME NEW j \in Keys, NEW n \in 1..MaxClaims, ExecutionFault(j, n)
      PROVE  ClaimsBelongToTheRound'
    <2> DEFINE w == exec[j][n].worker
               aborts == exec[j][n].awaited
    <2>1. claims' = claims /\ cands' = cands /\ w \in Workers
        BY <1>4 DEF ExecutionFault, ClaimsBelongToTheRound, Active
    <2>2. aborts => pc[w] = "batch"
        BY <1>4 DEF ExecutionFault, ClaimsBelongToTheRound
    <2>3. \A v \in Workers : (v = w /\ aborts) \/ pc'[v] = pc[v]
        BY <1>4, <2>1 DEF ExecutionFault, TypeOK
    <2>4. ASSUME NEW i \in Keys, NEW m \in 1..MaxClaims PROVE Round(i, m, exec'[i][m])
        <3>1. CASE i = j /\ m = n
            <4>1. exec'[i][m] = Finished(exec[i][m])
                BY <1>4, <3>1 DEF ExecutionFault
            <4> QED
                BY <4>1, RoundFinished
        <3>2. CASE ~(i = j /\ m = n) /\ aborts /\ exec[i][m].worker = w
            <4>1. exec'[i][m] = [exec[i][m] EXCEPT !.awaited = FALSE]
                BY <1>4, <3>2 DEF ExecutionFault
            <4>2. exec[i][m].stage \notin {"won", "ready"}
                BY <2>2, <3>2 DEF ClaimsBelongToTheRound
            <4> QED
                BY <2>1, <4>1, <4>2, ExecTyped DEF ClaimsBelongToTheRound, Round, Execs, Active
        <3>3. CASE ~(i = j /\ m = n) /\ ~(aborts /\ exec[i][m].worker = w)
            <4>1. exec'[i][m] = exec[i][m]
                BY <1>4, <3>3 DEF ExecutionFault
            <4> QED
                BY <2>1, <2>3, <3>3, <4>1 DEF ClaimsBelongToTheRound, Round, Active
        <3> QED
            BY <3>1, <3>2, <3>3
    <2> QED
        BY <2>4, RoundIsNext
<1> QED
    BY <1>1, <1>2, <1>3, <1>4 DEF Fault

LEMMA RoundStep ==
    ASSUME TypeOK, ClaimsBelongToTheRound, [Next]_vars
    PROVE  ClaimsBelongToTheRound'
<1>1. CASE UNCHANGED vars
    BY <1>1, RoundKept, RoundIsNext DEF vars
<1>2. CASE Operate \/ Tick \/ \E j \in Keys : BecomesDue(j)
    <2>1. claims' = claims /\ exec' = exec /\ pc' = pc /\ cands' = cands
        <3>1. CASE \E s \in Sources : Enqueue(s)
            BY <3>1 DEF Enqueue
        <3>2. CASE \E j \in Keys : CancelJob(j)
            BY <3>2 DEF CancelJob
        <3>3. CASE \E j \in Keys : RescheduleJob(j)
            BY <3>3 DEF RescheduleJob
        <3>4. CASE \E o \in Operators : RetryDeadLetterWrite(o)
            BY <3>4 DEF RetryDeadLetterWrite
        <3>5. CASE \E o \in Operators, j \in Keys : RetryDeadLetterRead(o, j)
            BY <3>5 DEF RetryDeadLetterRead
        <3>6. CASE Tick
            BY <3>6 DEF Tick
        <3>7. CASE \E j \in Keys : BecomesDue(j)
            BY <3>7 DEF BecomesDue
        <3> QED
            BY <1>2, <3>1, <3>2, <3>3, <3>4, <3>5, <3>6, <3>7 DEF Operate
    <2> QED
        BY <2>1, RoundKept, RoundIsNext
<1>3. CASE Next /\ ~(Operate \/ Tick \/ \E j \in Keys : BecomesDue(j))
    BY <1>3, PollRound, ExecuteRound, FaultRound DEF Next
<1> QED
    BY <1>1, <1>2, <1>3

(* A claim is won only by a worker that waits for no execution of that job. *)
LEMMA ClaimFindsNoOwnExecution ==
    ASSUME TypeOK, ClaimsBelongToTheRound, NEW w \in Workers, NEW j \in Keys, ClaimCandidate(w, j),
           NEW n \in 1..MaxClaims, Attended(exec[j][n])
    PROVE  exec[j][n].worker # w
BY ExecTyped DEF ClaimCandidate, ClaimsBelongToTheRound, Active, Attended, Execs, Stages

LEMMA OnlyLatestStep ==
    ASSUME TypeOK, Fenced, [Next]_vars
    PROVE  OnlyLatestClaimOwns'
<1> SUFFICES ASSUME NEW i \in Keys, NEW m \in 1..MaxClaims,
                    Attended(exec'[i][m]), row'[i].status = "leased", row'[i].owner = exec'[i][m].worker
             PROVE  m = claims'[i]
    BY DEF OnlyLatestClaimOwns, Owns, Active, Attended
<1>1. CASE Quiet
    BY <1>1 DEF Quiet, Fenced, OnlyLatestClaimOwns, Owns
<1>2. ASSUME NEW w \in Workers, NEW j \in Keys, ClaimCandidate(w, j) PROVE m = claims'[i]
    <2>1. CASE i = j /\ m = claims[j] + 1
        BY <1>2, <2>1, ClaimWrites DEF TypeOK
    <2>2. CASE i = j /\ m # claims[j] + 1
        BY <1>2, <2>2, ClaimWrites, ClaimFindsNoOwnExecution DEF Fenced
    <2>3. CASE i # j
        <3>1. exec'[i][m] = exec[i][m] /\ row'[i] = row[i] /\ claims'[i] = claims[i]
            BY <1>2, <2>3, ClaimWrites DEF TypeOK
        <3> QED
            BY <3>1 DEF Fenced, OnlyLatestClaimOwns, Owns
    <2> QED
        BY <2>1, <2>2, <2>3
<1> QED
    BY <1>1, <1>2, StepQuietOrClaims

LEMMA InitFenced == Init => Fenced
BY DEF Init, Fenced, ClaimsBelongToTheRound, OnlyLatestClaimOwns, NoExec, Active, Attended

(* OnlyLatestClaimOwns, rejected database calls included: an execution that  *)
(* its worker waits for and that has been overtaken never owns the row again, *)
(* so it can neither finalize the job nor keep its lease alive.               *)
THEOREM Fencing == Spec => []OnlyLatestClaimOwns
<1>1. Init => Fenced
    BY InitFenced
<1>2. TypeOK /\ Fenced /\ [Next]_vars => Fenced'
    BY RoundStep, OnlyLatestStep DEF Fenced
<1>3. Fenced => OnlyLatestClaimOwns
    BY DEF Fenced
<1> QED
    BY <1>1, <1>2, <1>3, TypeCorrect, PTL DEF Spec

-----------------------------------------------------------------------------
(* The attempt budget.  What finalizeClaim decides on was read once, after   *)
(* the claim; while the execution owns the row it is still what the row      *)
(* counts.                                                                   *)

SeenIsCurrent ==
    \A j \in Keys, n \in 1..MaxClaims :
        Attended(exec[j][n]) /\ exec[j][n].stage # "won" /\ Owns(j, n) =>
            exec[j][n].seen = row[j].attempts

LEMMA SeenStep ==
    ASSUME TypeOK, Fenced, SeenIsCurrent, [Next]_vars
    PROVE  SeenIsCurrent'
<1> SUFFICES ASSUME NEW i \in Keys, NEW m \in 1..MaxClaims,
                    Attended(exec'[i][m]), exec'[i][m].stage # "won",
                    row'[i].status = "leased", row'[i].owner = exec'[i][m].worker
             PROVE  exec'[i][m].seen = row'[i].attempts
    BY DEF SeenIsCurrent, Owns, Active, Attended
<1>1. CASE Quiet
    <2>1. Active(exec'[i][m])
        BY DEF Attended, Active
    <2> QED
        BY <1>1, <2>1 DEF Quiet, Sees, SeenIsCurrent, Owns
<1>2. ASSUME NEW w \in Workers, NEW j \in Keys, ClaimCandidate(w, j)
      PROVE  exec'[i][m].seen = row'[i].attempts
    <2>1. i # j \/ m # claims[j] + 1
        BY <1>2, ClaimWrites
    <2>2. exec'[i][m] = exec[i][m]
        BY <1>2, <2>1, ClaimWrites
    <2>3. i # j
        BY <1>2, <2>2, ClaimWrites, ClaimFindsNoOwnExecution DEF Fenced
    <2>4. row'[i] = row[i]
        BY <1>2, <2>3, ClaimWrites
    <2> QED
        BY <2>2, <2>4 DEF SeenIsCurrent, Owns
<1> QED
    BY <1>1, <1>2, StepQuietOrClaims

(* An execution ends and its job is rescheduled in one step: that step is    *)
(* its own finalizeClaim.                                                    *)
LEMMA ReschedulesItself ==
    ASSUME TypeOK, [Next]_vars, NEW j \in Keys, NEW n \in 1..MaxClaims,
           exec[j][n].stage \in {"returned", "caught"}, exec'[j][n].stage = "done",
           row[j].status = "leased", row'[j].status = "retry_scheduled"
    PROVE  FinalizeFailure(j, n) /\ Owns(j, n)
<1>1. row' # row /\ exec' # exec
    OBVIOUS
<1>2. ASSUME NEW i \in Keys, NEW m \in 1..MaxClaims, Execute(i, m)
      PROVE  FinalizeFailure(j, n) /\ Owns(j, n)
    <2>1. i = j /\ m = n
        <3>1. PICK e : SetExec(i, m, e)
            BY <1>2 DEF Execute, ReadClaimedRow, HandlerReturns, FinalizeSucceeded,
                  FinalizeUncertain, EnqueueReconciliation, FinalizeFailure
        <3> QED
            BY <3>1 DEF SetExec, TypeOK
    <2>2. CASE FinalizeSucceeded(j, n)
        <3>1. Released(row[j], "succeeded").status = "succeeded"
            BY QuietReleased DEF Settled
        <3> QED
            BY <1>1, <2>2, <3>1 DEF FinalizeSucceeded, WriteIfOwner, TypeOK
    <2>3. CASE FinalizeUncertain(j, n)
        <3>1. Released(row[j], "reconciliation_required").status = "reconciliation_required"
            BY QuietReleased DEF Settled
        <3> QED
            BY <1>1, <2>3, <3>1 DEF FinalizeUncertain, WriteIfOwner, TypeOK
    <2>4. CASE FinalizeFailure(j, n)
        BY <1>1, <2>4 DEF FinalizeFailure, WriteIfOwner
    <2>5. CASE ReadClaimedRow(j, n) \/ HandlerReturns(j, n) \/ EnqueueReconciliation(j, n)
        BY <1>1, <2>5 DEF ReadClaimedRow, HandlerReturns, EnqueueReconciliation
    <2> QED
        BY <1>2, <2>1, <2>2, <2>3, <2>4, <2>5 DEF Execute
<1>3. ASSUME NEW w \in Workers, Poll(w)
      PROVE  FALSE
    <2>1. ASSUME NEW i \in Keys, ClaimCandidate(w, i) PROVE FALSE
        BY <2>1, ClaimWrites
    <2> QED
        BY <1>1, <1>3, <2>1 DEF Poll, RecoverLeases, ScanCandidates, MissCandidate, StartBatch, FinishBatch
<1>4. ~UNCHANGED vars /\ ~Operate /\ ~Tick /\ ~(\E i \in Keys : BecomesDue(i))
      /\ ~(\E i \in Keys, m \in 1..MaxClaims : HandlerThrows(i, m) \/ Heartbeat(i, m))
    BY <1>1 DEF vars, Operate, Enqueue, CancelJob, RescheduleJob, RetryDeadLetterRead,
          RetryDeadLetterWrite, Tick, BecomesDue, HandlerThrows, Heartbeat
<1>5. ~Fault
    BY <1>1 DEF Fault, ClaimFault, Crash, FinalizeFault, ExecutionFault
<1> QED
    BY <1>2, <1>3, <1>4, <1>5 DEF Next

(* AttemptBudget, rejected database calls included: of an execution that is  *)
(* waited for, the count that finalizeClaim carries from its claim to its    *)
(* verdict is never stale.                                                   *)
THEOREM BudgetHolds == Spec => AttemptBudget
<1>1. Init => Fenced /\ SeenIsCurrent
    BY InitFenced DEF Init, SeenIsCurrent, NoExec, Active, Attended
<1>2. TypeOK /\ Fenced /\ SeenIsCurrent /\ [Next]_vars => Fenced' /\ SeenIsCurrent'
    BY RoundStep, OnlyLatestStep, SeenStep DEF Fenced
<1>3. TypeOK /\ Fenced /\ SeenIsCurrent /\ [Next]_vars =>
        \A j \in Keys, n \in 1..MaxClaims :
            /\ exec[j][n].awaited /\ exec[j][n].stage \in {"returned", "caught"} /\ exec'[j][n].stage = "done"
            /\ row[j].status = "leased" /\ row'[j].status = "retry_scheduled"
            => row[j].attempts < MaxAttempts
    <2> SUFFICES ASSUME TypeOK, Fenced, SeenIsCurrent, [Next]_vars, NEW j \in Keys, NEW n \in 1..MaxClaims,
                        exec[j][n].awaited, exec[j][n].stage \in {"returned", "caught"},
                        exec'[j][n].stage = "done", row[j].status = "leased", row'[j].status = "retry_scheduled"
                 PROVE  row[j].attempts < MaxAttempts
        OBVIOUS
    <2>1. FinalizeFailure(j, n) /\ Owns(j, n)
        BY ReschedulesItself
    <2>2. row'[j] = FailureRow(j, n, exec[j][n].outcome)
        BY <2>1 DEF FinalizeFailure, WriteIfOwner, TypeOK
    <2>3. Released(row[j], "dead_letter").status = "dead_letter"
        BY QuietReleased DEF Settled
    <2>4. ~(exec[j][n].seen >= MaxAttempts)
        BY <2>2, <2>3 DEF FailureRow
    <2>5. exec[j][n].seen = row[j].attempts
        BY <2>1 DEF SeenIsCurrent, Active, Attended
    <2> QED
        BY <2>4, <2>5, ExecTyped, ConstantsAssumption DEF Rows
<1> QED
    BY <1>1, <1>2, <1>3, TypeCorrect, PTL DEF Spec, AttemptBudget

-----------------------------------------------------------------------------
(* Finality.  Every write of a worker is guarded by status and owner, so a   *)
(* settled row is out of its reach; the one write by id alone is that of the *)
(* dead-letter retry, which needs a handler with a safety validator.  What it *)
(* read still stands when it writes, unless another operator, who read the    *)
(* same, wrote in between.                                                    *)

(* No two operators are retrying the same dead letter. *)
OneRetryPerJob == \A o, p \in Operators : request[o] # None /\ request[o] = request[p] => o = p

RetriesStand ==
    \A o \in Operators : request[o] # None =>
        request[o] \in Retryable /\ row[request[o]].status = "dead_letter"

Reopened(j) ==
    /\ row[j].status = "dead_letter" /\ row'[j].status = "retry_scheduled"
    /\ \E o \in Operators : request[o] = j /\ request'[o] = None

Kept(j) == row[j].status \in Settled =>
              \/ row'[j] = row[j]
              \/ row[j].status = "reconciliation_required" /\ row'[j].status = "cancelled"
              \/ Reopened(j)

LEMMA KeptByOwnerWrite ==
    ASSUME NEW j \in Keys, NEW n \in 1..MaxClaims, NEW r, WriteIfOwner(j, n, r),
           TypeOK, NEW i \in Keys
    PROVE  Kept(i)
BY DEF WriteIfOwner, Owns, Kept, TypeOK, Settled

LEMMA KeptByInsert ==
    ASSUME NEW j, NEW due \in BOOLEAN, InsertIfAbsent(j, due), TypeOK, NEW i \in Keys
    PROVE  Kept(i)
BY DEF InsertIfAbsent, Kept, TypeOK, Settled

LEMMA KeptByOneRow ==
    ASSUME TypeOK, NEW j \in Keys, row[j].status \notin Settled, NEW r,
           row' = [row EXCEPT ![j] = r], NEW i \in Keys
    PROVE  Kept(i)
BY DEF Kept, TypeOK

(* The write of an operator whose read stands. *)
LEMMA RetryWrites ==
    ASSUME TypeOK, RetriesStand, NEW o \in Operators, RetryDeadLetterWrite(o)
    PROVE  /\ request[o] \in Retryable /\ row[request[o]].status = "dead_letter"
           /\ row'[request[o]].status = "retry_scheduled"
           /\ \A i \in Keys : i # request[o] => row'[i] = row[i]
           /\ \A p \in Operators : request'[p] = IF p = o THEN None ELSE request[p]
           /\ UNCHANGED <<claims, exec>>
<1> DEFINE j == request[o]
           r == [row[j] EXCEPT !.status = "retry_scheduled", !.due = TRUE, !.attempts = 0]
<1>1. j \in Keys /\ j # None
    BY DEF RetryDeadLetterWrite, TypeOK
<1>2. row' = [row EXCEPT ![j] = r] /\ r.status = "retry_scheduled"
    BY <1>1, ExecTyped DEF RetryDeadLetterWrite, Rows
<1>3. j \in Retryable /\ row[j].status = "dead_letter"
    BY <1>1 DEF RetriesStand
<1>4. \A p \in Operators : request'[p] = IF p = o THEN None ELSE request[p]
    BY DEF RetryDeadLetterWrite, TypeOK
<1> HIDE DEF r
<1> QED
    BY <1>1, <1>2, <1>3, <1>4 DEF RetryDeadLetterWrite, TypeOK

LEMMA SettledStep ==
    ASSUME TypeOK, RetriesStand, [Next]_vars, NEW i \in Keys
    PROVE  Kept(i)
<1>0. ASSUME row' = row PROVE Kept(i)
    BY <1>0 DEF Kept
<1>1. CASE UNCHANGED vars
    BY <1>0, <1>1 DEF vars
<1>2. CASE Operate
    <2>1. ASSUME NEW s \in Sources, Enqueue(s) PROVE Kept(i)
        BY <2>1, KeptByInsert DEF Enqueue
    <2>2. ASSUME NEW j \in Keys, CancelJob(j) PROVE Kept(i)
        <3>1. Released(row[j], "cancelled").status = "cancelled"
            BY QuietReleased DEF Settled
        <3> QED
            BY <2>2, <3>1 DEF CancelJob, Kept, TypeOK, Settled, Pending
    <2>3. ASSUME NEW j \in Keys, RescheduleJob(j) PROVE Kept(i)
        <3>1. row[j].status \notin Settled
            BY <2>3 DEF RescheduleJob, Pending, Settled
        <3>2. PICK due \in BOOLEAN : row' = [row EXCEPT ![j] =
                  [row[j] EXCEPT !.status = "retry_scheduled", !.due = due]]
            BY <2>3 DEF RescheduleJob
        <3> QED
            BY <3>1, <3>2, KeptByOneRow
    <2>4. ASSUME NEW o \in Operators, RetryDeadLetterWrite(o) PROVE Kept(i)
        BY <2>4, RetryWrites DEF Kept, Reopened
    <2>5. ASSUME NEW o \in Operators, NEW j \in Keys, RetryDeadLetterRead(o, j) PROVE Kept(i)
        BY <1>0, <2>5 DEF RetryDeadLetterRead
    <2> QED
        BY <1>2, <2>1, <2>2, <2>3, <2>4, <2>5 DEF Operate
<1>3. ASSUME NEW w \in Workers, Poll(w) PROVE Kept(i)
    <2>1. CASE RecoverLeases(w)
        BY <2>1 DEF RecoverLeases, Lapsed, Kept, Settled
    <2>2. ASSUME NEW j \in Keys, ClaimCandidate(w, j) PROVE Kept(i)
        <3>1. row[j].status \notin Settled
            BY <2>2 DEF ClaimCandidate, Claimable, Pending, Settled
        <3>2. i # j => row'[i] = row[i]
            BY <2>2, ClaimWrites
        <3> QED
            BY <3>1, <3>2 DEF Kept
    <2>3. CASE ScanCandidates(w) \/ (\E j \in Keys : MissCandidate(w, j)) \/ StartBatch(w)
                 \/ FinishBatch(w)
        BY <1>0, <2>3 DEF ScanCandidates, MissCandidate, StartBatch, FinishBatch
    <2> QED
        BY <1>3, <2>1, <2>2, <2>3 DEF Poll
<1>4. ASSUME NEW j \in Keys, NEW n \in 1..MaxClaims,
             Execute(j, n) \/ HandlerThrows(j, n) \/ Heartbeat(j, n)
      PROVE  Kept(i)
    <2>1. CASE ReadClaimedRow(j, n) \/ HandlerReturns(j, n) \/ HandlerThrows(j, n)
        BY <1>0, <2>1 DEF ReadClaimedRow, HandlerReturns, HandlerThrows
    <2>2. CASE FinalizeSucceeded(j, n)
        BY <2>2, KeptByOwnerWrite DEF FinalizeSucceeded
    <2>3. CASE FinalizeUncertain(j, n)
        BY <2>3, KeptByOwnerWrite DEF FinalizeUncertain
    <2>4. CASE EnqueueReconciliation(j, n)
        BY <2>4, KeptByInsert DEF EnqueueReconciliation
    <2>5. CASE FinalizeFailure(j, n)
        BY <2>5, KeptByOwnerWrite DEF FinalizeFailure
    <2>6. CASE Heartbeat(j, n)
        <3>1. row[j].status \notin Settled
            BY <2>6 DEF Heartbeat, Owns, Settled
        <3>2. row' = [row EXCEPT ![j] = [row[j] EXCEPT !.lease = LeaseTicks]]
            BY <2>6 DEF Heartbeat
        <3> QED
            BY <3>1, <3>2, KeptByOneRow
    <2> QED
        BY <1>4, <2>1, <2>2, <2>3, <2>4, <2>5, <2>6 DEF Execute
<1>5. CASE Fault
    <2>1. row' = row
        BY <1>5 DEF Fault, ClaimFault, Crash, FinalizeFault, ExecutionFault
    <2> QED
        BY <1>0, <2>1
<1>6. CASE Tick
    BY <1>6 DEF Tick, LeaseRuns, Kept, Settled
<1>7. ASSUME NEW j \in Keys, BecomesDue(j) PROVE Kept(i)
    <2>1. row[j].status \notin Settled
        BY <1>7 DEF BecomesDue, Pending, Settled
    <2>2. row' = [row EXCEPT ![j] = [row[j] EXCEPT !.due = TRUE]]
        BY <1>7 DEF BecomesDue
    <2> QED
        BY <2>1, <2>2, KeptByOneRow
<1> QED
    BY <1>1, <1>2, <1>3, <1>4, <1>5, <1>6, <1>7 DEF Next

(* Only operators change what they hold, and a dead letter stays one until   *)
(* they write.                                                               *)
LEMMA RetriesStep ==
    ASSUME TypeOK, RetriesStand, OneRetryPerJob, [Next]_vars
    PROVE  RetriesStand'
<1>0. Retryable \subseteq Keys /\ None \notin Keys
    BY ConstantsAssumption, KeysAssumption DEF Keys
<1>1. CASE request' = request
    <2> SUFFICES ASSUME NEW o \in Operators, request[o] # None
                 PROVE  request[o] \in Retryable /\ row'[request[o]].status = "dead_letter"
        BY <1>1 DEF RetriesStand
    <2>1. request[o] \in Retryable /\ request[o] \in Keys /\ row[request[o]].status = "dead_letter"
        BY <1>0 DEF RetriesStand
    <2>2. Kept(request[o]) /\ ~Reopened(request[o])
        BY <1>0, <1>1, <2>1, SettledStep DEF Reopened
    <2> QED
        BY <2>1, <2>2 DEF Kept, Settled
<1>2. ASSUME NEW o \in Operators, RetryDeadLetterWrite(o) PROVE RetriesStand'
    <2> SUFFICES ASSUME NEW p \in Operators, request'[p] # None
                 PROVE  request'[p] \in Retryable /\ row'[request'[p]].status = "dead_letter"
        BY DEF RetriesStand
    <2>1. p # o /\ request'[p] = request[p] /\ request[p] \in Retryable
          /\ row[request[p]].status = "dead_letter"
        BY <1>2, RetryWrites DEF RetriesStand
    <2>2. request[p] # request[o] /\ request[p] \in Keys
        BY <1>0, <1>2, <2>1 DEF OneRetryPerJob, RetryDeadLetterWrite
    <2> QED
        BY <1>2, <2>1, <2>2, RetryWrites
<1>3. ASSUME NEW o \in Operators, NEW j \in Keys, RetryDeadLetterRead(o, j) PROVE RetriesStand'
    BY <1>3 DEF RetryDeadLetterRead, RetriesStand, TypeOK
<1>4. \/ request' = request
      \/ \E o \in Operators : RetryDeadLetterWrite(o)
      \/ \E o \in Operators, j \in Keys : RetryDeadLetterRead(o, j)
    <2>1. CASE UNCHANGED vars
        BY <2>1 DEF vars
    <2>2. CASE Operate
        BY <2>2 DEF Operate, Enqueue, CancelJob, RescheduleJob
    <2>3. CASE \E w \in Workers : Poll(w)
        BY <2>3 DEF Poll, RecoverLeases, ScanCandidates, ClaimCandidate, MissCandidate, StartBatch,
                    FinishBatch
    <2>4. CASE \E j \in Keys, n \in 1..MaxClaims :
                   Execute(j, n) \/ HandlerThrows(j, n) \/ Heartbeat(j, n)
        BY <2>4 DEF Execute, ReadClaimedRow, HandlerReturns, FinalizeSucceeded, FinalizeUncertain,
                    EnqueueReconciliation, FinalizeFailure, HandlerThrows, Heartbeat
    <2>5. CASE Fault
        BY <2>5 DEF Fault, ClaimFault, Crash, FinalizeFault, ExecutionFault
    <2>6. CASE Tick \/ \E j \in Keys : BecomesDue(j)
        BY <2>6 DEF Tick, BecomesDue
    <2> QED
        BY <2>1, <2>2, <2>3, <2>4, <2>5, <2>6 DEF Next
<1> QED
    BY <1>1, <1>2, <1>3, <1>4

LEMMA InitRetries == Init => RetriesStand
BY DEF Init, RetriesStand

(* Behaviours in which no two operators ever retry the same dead letter at   *)
(* once: those of a system whose handlers register no canRetryDeadLetter      *)
(* (none in worker.ts does), and those of one operator.                       *)
LEMMA NobodyRetriesTwice ==
    ASSUME Retryable = {} \/ \A o, p \in Operators : o = p
    PROVE  Spec => []OneRetryPerJob
<1>1. CASE \A o, p \in Operators : o = p
    <2>1. OneRetryPerJob
        BY <1>1 DEF OneRetryPerJob
    <2> QED
        BY <2>1, PTL
<1>2. CASE Retryable = {}
    <2>1. RetriesStand => OneRetryPerJob
        BY <1>2 DEF RetriesStand, OneRetryPerJob
    <2> QED
        BY <2>1, InitRetries, InitType, NextType, RetriesStep, PTL DEF Spec
<1> QED
    BY <1>1, <1>2

(* SettledIsFinal: faults included, no step of any process reopens a settled *)
(* job, short of two operators who retry the same dead letter at once.       *)
THEOREM SettledStaysSettled == Spec /\ []OneRetryPerJob => SettledIsFinal
<1>2. TypeOK /\ RetriesStand /\ [Next]_vars =>
          \A j \in Keys : row[j].status \in Settled =>
              \/ row'[j] = row[j]
              \/ row[j].status = "reconciliation_required" /\ row'[j].status = "cancelled"
              \/ /\ row[j].status = "dead_letter" /\ row'[j].status = "retry_scheduled"
                 /\ \E o \in Operators : request[o] = j /\ request'[o] = None
    BY SettledStep DEF Kept, Reopened
<1> QED
    BY <1>2, InitRetries, RetriesStep, TypeCorrect, PTL DEF Spec, SettledIsFinal

(* SettledIsFinal as worker.ts stands, where no handler registers             *)
(* canRetryDeadLetter, and with handlers that do and one operator.            *)
THEOREM Finality ==
    ASSUME Retryable = {} \/ \A o, p \in Operators : o = p
    PROVE  Spec => SettledIsFinal
BY NobodyRetriesTwice, SettledStaysSettled, PTL

-----------------------------------------------------------------------------
(* The queue implements LeasedQueue, while every execution is waited for.  *)
(* Step by step, for each job.                                              *)

(* No execution goes on after Promise.all has rejected. *)
NoOrphans == \A j \in Keys, n \in 1..MaxClaims : Active(exec[j][n]) => Attended(exec[j][n])

HolderDecides ==
    \A j \in Keys, n \in 1..MaxClaims : Active(exec[j][n]) /\ Owns(j, n) => n = claims[j]

LEMMA AttendedHold == OnlyLatestClaimOwns /\ NoOrphans => HolderDecides
BY DEF OnlyLatestClaimOwns, NoOrphans, HolderDecides

Working(j) == {n \in 1..MaxClaims : Active(exec[j][n])}

JobStep(j) ==
    \/ Queue!Add(j) \/ Queue!Claim(j) \/ Queue!Conclude(j) \/ Queue!Lapse(j)
    \/ Queue!Withdraw(j) \/ Queue!Reopen(j) \/ Queue!Stop(j)

LEMMA PhaseReads ==
    /\ Phase("absent") = "absent" /\ Phase("leased") = "held"
    /\ \A status \in Pending : Phase(status) = "waiting"
    /\ \A status \in Settled : Phase(status) = status
    /\ Settled = Queue!Final
BY DEF Phase, Pending, Settled, Queue!Final

(* Nothing is decided about j: at most some of its executions end. *)
LEMMA StopStep ==
    ASSUME Quiet, NEW j \in Keys, Phase(row'[j].status) = Phase(row[j].status)
    PROVE  JobStep(j)
BY DEF Quiet, JobStep, Queue!Stop

(* The row of j moves and no execution does. *)
LEMMA RowStep ==
    ASSUME exec' = exec, claims' = claims, NEW j \in Keys,
           \/ row[j].status = "absent" /\ row'[j].status \in Pending
           \/ row[j].status = "leased" /\ row'[j].status \in Pending
           \/ /\ j \in Retryable
              /\ row[j].status = "dead_letter" /\ row'[j].status \in Pending
           \/ /\ row[j].status \in Pending \cup {"reconciliation_required"}
              /\ row'[j].status = "cancelled"
    PROVE  JobStep(j)
<1>1. CASE row[j].status = "absent" /\ row'[j].status \in Pending
    BY <1>1, PhaseReads DEF JobStep, Queue!Add
<1>2. CASE row[j].status = "leased" /\ row'[j].status \in Pending
    BY <1>2, PhaseReads DEF JobStep, Queue!Lapse
<1>3. CASE /\ row[j].status \in Pending \cup {"reconciliation_required"}
           /\ row'[j].status = "cancelled"
    BY <1>3, PhaseReads DEF JobStep, Queue!Withdraw, Settled
<1>4. CASE /\ j \in Retryable
           /\ row[j].status = "dead_letter" /\ row'[j].status \in Pending
    BY <1>4, PhaseReads DEF JobStep, Queue!Reopen, Settled
<1> QED
    BY <1>1, <1>2, <1>3, <1>4

LEMMA ClaimStep ==
    ASSUME TypeOK, NEW w \in Workers, NEW j \in Keys, ClaimCandidate(w, j), NEW i \in Keys
    PROVE  JobStep(i)
<1>1. CASE i = j
    <2>1. claims'[j] = claims[j] + 1
        BY ClaimWrites DEF TypeOK
    <2>2. \A n \in 1..MaxClaims : Active(exec'[j][n]) <=> (Active(exec[j][n]) \/ n = claims[j] + 1)
        BY ClaimWrites DEF Active
    <2>3. Working(j)' = Working(j) \cup {claims[j] + 1}
        BY <2>2, ClaimWrites DEF Working
    <2>4. Phase(row[j].status) = "waiting" /\ Phase(row'[j].status) = "held"
        BY PhaseReads, ClaimWrites DEF ClaimCandidate, Claimable
    <2> QED
        BY <1>1, <2>1, <2>3, <2>4 DEF JobStep, Queue!Claim, Working
<1>2. CASE i # j
    <2>1. row'[i] = row[i] /\ claims'[i] = claims[i] /\ \A n \in 1..MaxClaims : exec'[i][n] = exec[i][n]
        BY <1>2, ClaimWrites DEF TypeOK
    <2> QED
        BY <2>1 DEF JobStep, Queue!Stop
<1> QED
    BY <1>1, <1>2

(* The verdict of an execution that owns its row, and of one that does not. *)
LEMMA VerdictStep ==
    ASSUME TypeOK, HolderDecides, Quiet, NEW j \in Keys, NEW n \in 1..MaxClaims,
           Active(exec[j][n]), NEW r, WriteIfOwner(j, n, r), NEW e, SetExec(j, n, e),
           r.status \in (Settled \ {"cancelled"}) \cup Pending,
           Active(e) => Owns(j, n) /\ r.status = "reconciliation_required",
           NEW i \in Keys
    PROVE  JobStep(i)
<1>1. CASE i = j /\ Owns(j, n)
    <2>1. n = claims[j] /\ n \in Working(j)
        BY <1>1 DEF HolderDecides, Working
    <2>2. row'[j] = r /\ row[j].status = "leased" /\ claims' = claims
        BY <1>1 DEF WriteIfOwner, Owns, TypeOK, Quiet
    <2>3. Phase(row'[j].status) \in (Queue!Final \ {"cancelled"}) \cup {"waiting"}
        BY <2>2, PhaseReads
    <2>4. \A m \in 1..MaxClaims : exec'[j][m] = IF m = n THEN e ELSE exec[j][m]
        BY DEF SetExec, TypeOK
    <2>5. CASE Active(e)
        <3>1. Working(j)' = Working(j)
            BY <2>4, <2>5 DEF Working
        <3>2. Phase(row'[j].status) = "reconciliation_required"
            BY <2>2, <2>5, PhaseReads DEF Settled
        <3> QED
            BY <1>1, <2>1, <2>2, <2>3, <3>1, <3>2, PhaseReads DEF JobStep, Queue!Conclude, Working
    <2>6. CASE ~Active(e)
        <3>1. Working(j)' = Working(j) \ {n}
            BY <2>4, <2>6 DEF Working
        <3> QED
            BY <1>1, <2>1, <2>2, <2>3, <3>1, PhaseReads DEF JobStep, Queue!Conclude, Working
    <2> QED
        BY <2>5, <2>6
<1>2. CASE ~(i = j /\ Owns(j, n))
    <2>1. row'[i] = row[i]
        BY <1>2 DEF WriteIfOwner, TypeOK
    <2> QED
        BY <2>1, StopStep
<1> QED
    BY <1>1, <1>2

(* The job that settles an uncertain one is another job. *)
LEMMA ReconcileIsAnother == \A j \in Keys : Reconcile(j) # j
BY KeysAssumption DEF Keys, Reconcile

LEMMA ExecuteImplements ==
    ASSUME TypeOK, HolderDecides, NEW j \in Keys, NEW n \in 1..MaxClaims,
           Execute(j, n) \/ HandlerThrows(j, n) \/ Heartbeat(j, n), NEW i \in Keys
    PROVE  JobStep(i)
<1>0. Quiet
    BY ExecuteQuiet
<1>1. CASE ReadClaimedRow(j, n) \/ HandlerReturns(j, n) \/ HandlerThrows(j, n)
    BY <1>0, <1>1, StopStep DEF ReadClaimedRow, HandlerReturns, HandlerThrows
<1>2. CASE Heartbeat(j, n)
    <2>1. row'[i].status = row[i].status
        BY <1>2, ExecTyped DEF Heartbeat, TypeOK, Rows
    <2> QED
        BY <1>0, <2>1, StopStep
<1>3. CASE FinalizeSucceeded(j, n)
    <2>1. Released(row[j], "succeeded").status = "succeeded"
        BY QuietReleased DEF Settled
    <2>2. Active(exec[j][n]) /\ ~Active(Finished(exec[j][n]))
        BY <1>3, QuietFinished DEF FinalizeSucceeded, Active
    <2> QED
        BY <1>0, <1>3, <2>1, <2>2, VerdictStep DEF FinalizeSucceeded, Settled
<1>4. CASE FinalizeUncertain(j, n)
    <2>1. Released(row[j], "reconciliation_required").status = "reconciliation_required"
        BY QuietReleased DEF Settled
    <2>2. Active(exec[j][n]) /\ ~Active(Finished(exec[j][n]))
        BY <1>4, QuietFinished DEF FinalizeUncertain, Active
    <2> DEFINE e == IF Owns(j, n) THEN [exec[j][n] EXCEPT !.stage = "enqueuing"] ELSE Finished(exec[j][n])
    <2>3. SetExec(j, n, e) /\ WriteIfOwner(j, n, Released(row[j], "reconciliation_required"))
        BY <1>4 DEF FinalizeUncertain
    <2>4. Active(e) => Owns(j, n)
        BY <2>2
    <2> HIDE DEF e
    <2> QED
        BY <1>0, <2>1, <2>2, <2>3, <2>4, VerdictStep DEF Settled
<1>5. CASE FinalizeFailure(j, n)
    <2> DEFINE r == FailureRow(j, n, exec[j][n].outcome)
    <2>1. r.status \in {"dead_letter", "retry_scheduled"}
        BY QuietReleased DEF FailureRow, Settled, Pending
    <2>2. Active(exec[j][n]) /\ ~Active(Finished(exec[j][n]))
        BY <1>5, QuietFinished DEF FinalizeFailure, Active
    <2>3. WriteIfOwner(j, n, r) /\ SetExec(j, n, Finished(exec[j][n]))
        BY <1>5 DEF FinalizeFailure
    <2> HIDE DEF r
    <2> QED
        BY <1>0, <2>1, <2>2, <2>3, VerdictStep DEF Settled, Pending
<1>6. CASE EnqueueReconciliation(j, n)
    <2>1. CASE row'[i] = row[i]
        BY <1>0, <2>1, StopStep
    <2>2. CASE row'[i] # row[i]
        <3>1. i = Reconcile(j) /\ row[i].status = "absent"
            BY <1>6, <2>2 DEF EnqueueReconciliation, InsertIfAbsent, TypeOK
        <3>2. row'[i] = [NoRow EXCEPT !.status = "queued", !.due = TRUE]
            BY <1>6, <3>1 DEF EnqueueReconciliation, InsertIfAbsent, TypeOK
        <3>3. row'[i].status = "queued"
            BY <3>2 DEF NoRow
        <3>4. i # j
            BY <3>1, ReconcileIsAnother
        <3>5. exec'[i] = exec[i] /\ claims' = claims
            BY <1>6, <3>4 DEF EnqueueReconciliation, SetExec, TypeOK
        <3>6. Phase(row[i].status) = "absent" /\ Phase(row'[i].status) = "waiting"
            BY <3>1, <3>3, PhaseReads DEF Pending
        <3> QED
            BY <3>5, <3>6 DEF JobStep, Queue!Add
    <2> QED
        BY <2>1, <2>2
<1> QED
    BY <1>1, <1>2, <1>3, <1>4, <1>5, <1>6 DEF Execute

LEMMA OperateImplements ==
    ASSUME TypeOK, RetriesStand, Operate, NEW i \in Keys
    PROVE  JobStep(i)
<1>0. Quiet
    BY OperateQuiet
<1>1. ASSUME row'[i].status = row[i].status PROVE JobStep(i)
    BY <1>0, <1>1, StopStep
<1>2. ASSUME NEW s \in Sources, Enqueue(s) PROVE JobStep(i)
    <2>1. PICK due \in BOOLEAN : InsertIfAbsent(s, due)
        BY <1>2 DEF Enqueue
    <2>2. [NoRow EXCEPT !.status = "queued", !.due = due].status = "queued"
        BY DEF NoRow
    <2>3. row'[i] = row[i] \/ (row[i].status = "absent" /\ row'[i].status \in Pending)
        BY <2>1, <2>2 DEF InsertIfAbsent, TypeOK, Pending
    <2> QED
        BY <1>1, <1>2, <2>3, RowStep DEF Enqueue
<1>3. ASSUME NEW j \in Keys, CancelJob(j) PROVE JobStep(i)
    <2>1. Released(row[j], "cancelled").status = "cancelled"
        BY QuietReleased DEF Settled
    <2>2. row'[i] = row[i] \/ (i = j /\ row'[i].status = "cancelled")
        BY <1>3, <2>1 DEF CancelJob, TypeOK
    <2> QED
        BY <1>1, <1>3, <2>2, RowStep DEF CancelJob
<1>4. ASSUME NEW j \in Keys, RescheduleJob(j) PROVE JobStep(i)
    <2>1. PICK due \in BOOLEAN : row' = [row EXCEPT ![j] =
              [row[j] EXCEPT !.status = "retry_scheduled", !.due = due]]
        BY <1>4 DEF RescheduleJob
    <2>2. row'[i] = row[i] \/ (row[i].status \in Pending /\ row'[i].status \in Pending)
        BY <1>4, <2>1, ExecTyped DEF RescheduleJob, TypeOK, Rows, Pending
    <2> QED
        BY <1>0, <2>2, StopStep, PhaseReads
<1>5. ASSUME NEW o \in Operators, RetryDeadLetterWrite(o) PROVE JobStep(i)
    <2>1. CASE i = request[o]
        BY <1>5, <2>1, RetryWrites, RowStep DEF Pending
    <2>2. CASE i # request[o]
        BY <1>1, <1>5, <2>2, RetryWrites
    <2> QED
        BY <2>1, <2>2
<1>6. ASSUME NEW o \in Operators, NEW j \in Keys, RetryDeadLetterRead(o, j) PROVE JobStep(i)
    BY <1>1, <1>6 DEF RetryDeadLetterRead
<1> QED
    BY <1>2, <1>3, <1>4, <1>5, <1>6 DEF Operate

LEMMA PollImplements ==
    ASSUME TypeOK, NEW w \in Workers, Poll(w), NEW i \in Keys
    PROVE  JobStep(i)
<1>1. CASE \E j \in Keys : ClaimCandidate(w, j)
    BY <1>1, ClaimStep
<1>2. CASE RecoverLeases(w)
    <2>1. CASE Lapsed(i)
        <3>1. [Released(row[i], "retry_scheduled") EXCEPT !.due = TRUE].status = "retry_scheduled"
            BY ExecTyped DEF Released, Rows
        <3>2. row'[i].status = "retry_scheduled"
            BY <1>2, <2>1, <3>1 DEF RecoverLeases
        <3> QED
            BY <1>2, <2>1, <3>2, RowStep DEF RecoverLeases, Lapsed, Pending
    <2>2. CASE ~Lapsed(i)
        BY <1>2, <2>2 DEF RecoverLeases, JobStep, Queue!Stop
    <2> QED
        BY <2>1, <2>2
<1>3. CASE ~(\E j \in Keys : ClaimCandidate(w, j)) /\ ~RecoverLeases(w)
    <2>1. Quiet
        BY <1>3, PollQuiet
    <2>2. row' = row
        BY <1>3 DEF Poll, ScanCandidates, MissCandidate, StartBatch, FinishBatch
    <2> QED
        BY <2>1, <2>2, StopStep
<1> QED
    BY <1>1, <1>2, <1>3

LEMMA TimeImplements ==
    ASSUME TypeOK, Tick \/ \E j \in Keys : BecomesDue(j), NEW i \in Keys
    PROVE  JobStep(i)
<1>1. Quiet
    BY TimeQuiet
<1>2. row'[i].status = row[i].status
    <2>0. row[i] \in Rows
        BY DEF TypeOK
    <2>1. CASE Tick
        <3>1. row'[i] = row[i] \/ row'[i] = [row[i] EXCEPT !.lease = row[i].lease - 1]
            BY <2>1 DEF Tick
        <3> QED
            BY <2>0, <3>1 DEF Rows
    <2>2. ASSUME NEW j \in Keys, BecomesDue(j) PROVE row'[i].status = row[i].status
        <3>1. row' = [row EXCEPT ![j] = [row[j] EXCEPT !.due = TRUE]]
            BY <2>2 DEF BecomesDue
        <3>2. row'[i] = row[i] \/ row'[i] = [row[i] EXCEPT !.due = TRUE]
            BY <3>1 DEF TypeOK
        <3> QED
            BY <2>0, <3>2 DEF Rows
    <2> QED
        BY <2>1, <2>2
<1> QED
    BY <1>1, <1>2, StopStep

LEMMA JobImplements ==
    ASSUME TypeOK, HolderDecides, RetriesStand, Next, NEW i \in Keys
    PROVE  JobStep(i)
<1>1. CASE Fault
    <2>1. Quiet
        BY <1>1, FaultQuiet
    <2>2. row' = row
        BY <1>1 DEF Fault, ClaimFault, Crash, FinalizeFault, ExecutionFault
    <2> QED
        BY <2>1, <2>2, StopStep
<1> QED
    BY <1>1, OperateImplements, PollImplements, ExecuteImplements, TimeImplements DEF Next

(* ImplementsLeasedQueue, for any jobs, workers, operators, crashes and       *)
(* rejected calls, short of two races: as long as no two operators retry the   *)
(* same dead letter at once, and a rejected call has left no execution to go   *)
(* on while its worker polls again.                                            *)
THEOREM QueueRefinesBarRaces ==
    Spec /\ []OneRetryPerJob /\ []NoOrphans => ImplementsLeasedQueue
<1> DEFINE Inv == TypeOK /\ Fenced /\ RetriesStand
<1>1. Init => Inv /\ Queue!Init
    <2> SUFFICES ASSUME Init PROVE Inv /\ Queue!Init
        OBVIOUS
    <2>1. TypeOK
        BY InitType
    <2>2. Fenced /\ RetriesStand
        BY InitFenced, InitRetries
    <2>3. \A j \in Keys : Phase(row[j].status) = "absent" /\ Working(j) = {}
        BY PhaseReads DEF Init, NoRow, NoExec, Active, Working
    <2>4. Queue!Init
        BY <2>3 DEF Queue!Init, Init, Working
    <2> QED
        BY <2>1, <2>2, <2>4
<1>2. Inv /\ OneRetryPerJob /\ [Next]_vars => Inv'
    <2>1. TypeOK /\ [Next]_vars => TypeOK'
        BY NextType
    <2> QED
        BY <2>1, RoundStep, OnlyLatestStep, RetriesStep DEF Fenced
<1>3. Inv /\ Inv' /\ NoOrphans /\ [Next]_vars => [Queue!Next]_(Queue!vars)
    <2> SUFFICES ASSUME Inv, Inv', NoOrphans, [Next]_vars PROVE [Queue!Next]_(Queue!vars)
        OBVIOUS
    <2>1. CASE UNCHANGED vars
        BY <2>1 DEF vars, Queue!vars
    <2>2. CASE Next
        <3>1. HolderDecides
            BY AttendedHold DEF Fenced
        <3>2. \A j \in Keys : JobStep(j)
            BY <2>2, <3>1, JobImplements
        <3>3. \A j \in Keys : Phase(row'[j].status) \in Queue!Phases
            <4>1. \A j \in Keys : row'[j].status \in {"absent", "leased"} \cup Pending \cup Settled
                BY DEF TypeOK, Rows
            <4> QED
                BY <4>1, PhaseReads DEF Queue!Phases
        <3> QED
            BY <3>2, <3>3 DEF Queue!Next, JobStep
    <2> QED
        BY <2>1, <2>2
<1> QED
    BY <1>1, <1>2, <1>3, PTL DEF Spec, ImplementsLeasedQueue, Queue!Spec

(* Without rejected calls a worker waits for everything it started. *)
Waited(e) == Active(e) => Attended(e)

LEMMA OrphansSetExec ==
    ASSUME TypeOK, NoOrphans, NEW j \in Keys, NEW n \in 1..MaxClaims, NEW e,
           SetExec(j, n, e), Waited(e)
    PROVE  NoOrphans'
BY DEF TypeOK, SetExec, NoOrphans, Waited, Active, Attended

LEMMA WaitedFinished ==
    ASSUME TypeOK, NEW j \in Keys, NEW n \in 1..MaxClaims
    PROVE  Waited(Finished(exec[j][n]))
BY ExecTyped DEF Waited, Finished, Active, Execs

LEMMA ExecuteOrphans ==
    ASSUME TypeOK, NoOrphans, NEW j \in Keys, NEW n \in 1..MaxClaims,
           Execute(j, n) \/ HandlerThrows(j, n) \/ Heartbeat(j, n)
    PROVE  NoOrphans'
<1> DEFINE e == exec[j][n]
<1>1. e \in Execs /\ Waited(e)
    BY ExecTyped DEF NoOrphans, Waited
<1>2. e.stage \in {"running", "returned", "enqueuing", "caught"} => e.awaited
    BY <1>1 DEF Waited, Active, Attended
<1>3. CASE ReadClaimedRow(j, n)
    <2>1. Waited([e EXCEPT !.stage = "ready", !.seen = row[j].attempts])
        BY <1>1 DEF Waited, Attended, Execs
    <2> QED
        BY <1>3, <2>1, OrphansSetExec DEF ReadClaimedRow
<1>4. CASE HandlerReturns(j, n)
    <2>1. PICK outcome : SetExec(j, n, [e EXCEPT !.stage = "returned", !.outcome = outcome])
        BY <1>4 DEF HandlerReturns
    <2>2. Waited([e EXCEPT !.stage = "returned", !.outcome = outcome])
        BY <1>1, <1>2, <1>4 DEF HandlerReturns, Waited, Attended, Active, Execs
    <2> QED
        BY <2>1, <2>2, OrphansSetExec
<1>5. CASE HandlerThrows(j, n)
    <2>1. Waited([e EXCEPT !.stage = "caught", !.outcome = "retry"])
        BY <1>1, <1>2, <1>5 DEF HandlerThrows, Waited, Attended, Active, Execs
    <2> QED
        BY <1>5, <2>1, OrphansSetExec DEF HandlerThrows, Catch
<1>6. CASE FinalizeUncertain(j, n)
    <2>1. Waited([e EXCEPT !.stage = "enqueuing"])
        BY <1>1, <1>2, <1>6 DEF FinalizeUncertain, Waited, Attended, Active, Execs
    <2>2. Waited(IF Owns(j, n) THEN [e EXCEPT !.stage = "enqueuing"] ELSE Finished(e))
        BY <2>1, WaitedFinished
    <2> QED
        BY <1>6, <2>2, OrphansSetExec DEF FinalizeUncertain
<1>7. CASE FinalizeSucceeded(j, n) \/ EnqueueReconciliation(j, n) \/ FinalizeFailure(j, n)
    <2>1. SetExec(j, n, Finished(e))
        BY <1>7 DEF FinalizeSucceeded, EnqueueReconciliation, FinalizeFailure
    <2> QED
        BY <2>1, WaitedFinished, OrphansSetExec
<1>8. CASE Heartbeat(j, n)
    BY <1>8 DEF Heartbeat, NoOrphans
<1> QED
    BY <1>3, <1>4, <1>5, <1>6, <1>7, <1>8 DEF Execute

LEMMA PollOrphans ==
    ASSUME TypeOK, NoOrphans, NEW w \in Workers, Poll(w)
    PROVE  NoOrphans'
<1>1. CASE RecoverLeases(w) \/ ScanCandidates(w) \/ FinishBatch(w)
    BY <1>1 DEF RecoverLeases, ScanCandidates, FinishBatch, NoOrphans
<1>2. ASSUME NEW j \in Keys, ClaimCandidate(w, j) PROVE NoOrphans'
    <2>1. Waited([NoExec EXCEPT !.worker = w, !.stage = "won"])
        BY DEF NoExec, Waited, Attended
    <2>2. claims[j] + 1 \in 1..MaxClaims
        BY <1>2, ConstantsAssumption DEF ClaimCandidate, Claimable, TypeOK
    <2> QED
        BY <1>2, <2>1, <2>2, OrphansSetExec DEF ClaimCandidate
<1>3. ASSUME NEW j \in Keys, MissCandidate(w, j) PROVE NoOrphans'
    BY <1>3 DEF MissCandidate, NoOrphans
<1>4. CASE StartBatch(w)
    <2>1. ASSUME NEW j \in Keys, NEW n \in 1..MaxClaims PROVE Waited(exec'[j][n])
        <3>1. exec'[j][n] = IF exec[j][n].worker = w /\ exec[j][n].stage = "ready"
                            THEN [exec[j][n] EXCEPT !.stage = "running", !.awaited = TRUE]
                            ELSE exec[j][n]
            BY <1>4 DEF StartBatch, EachExec
        <3>2. Waited([exec[j][n] EXCEPT !.stage = "running", !.awaited = TRUE])
            BY ExecTyped DEF Waited, Attended, Active, Execs
        <3>3. Waited(exec[j][n])
            BY DEF NoOrphans, Waited
        <3> QED
            BY <3>1, <3>2, <3>3
    <2> QED
        BY <2>1 DEF NoOrphans, Waited, Active, Attended
<1> QED
    BY <1>1, <1>2, <1>3, <1>4 DEF Poll

LEMMA NobodyIsOrphaned ==
    ASSUME DbFaults = FALSE
    PROVE  Spec => []NoOrphans
<1>1. Init => NoOrphans
    BY DEF Init, NoOrphans, NoExec, Active
<1>2. TypeOK /\ NoOrphans /\ [Next]_vars => NoOrphans'
    <2> SUFFICES ASSUME TypeOK, NoOrphans, [Next]_vars PROVE NoOrphans'
        OBVIOUS
    <2>1. CASE exec' = exec
        BY <2>1 DEF NoOrphans, Active, Attended
    <2>2. CASE Operate \/ Tick \/ \E j \in Keys : BecomesDue(j)
        <3>1. exec' = exec
            BY <2>2 DEF Operate, Enqueue, CancelJob, RescheduleJob, RetryDeadLetterRead,
                        RetryDeadLetterWrite, Tick, BecomesDue
        <3> QED
            BY <2>1, <3>1
    <2>3. ASSUME NEW w \in Workers, Crash(w) PROVE NoOrphans'
        <3>1. ASSUME NEW j \in Keys, NEW n \in 1..MaxClaims PROVE Waited(exec'[j][n])
            <4>1. exec'[j][n] = Finished(exec[j][n]) \/ exec'[j][n] = exec[j][n]
                BY <2>3 DEF Crash, EachExec
            <4>2. Waited(exec[j][n])
                BY DEF NoOrphans, Waited
            <4> QED
                BY <4>1, <4>2, WaitedFinished
        <3> QED
            BY <3>1 DEF NoOrphans, Waited, Active, Attended
    <2> QED
        BY <2>1, <2>2, <2>3, PollOrphans, ExecuteOrphans
           DEF Next, Fault, ClaimFault, FinalizeFault, ExecutionFault, vars
<1> QED
    BY <1>1, <1>2, InitType, NextType, PTL DEF Spec

(* ImplementsLeasedQueue as worker.ts stands while database calls do not      *)
(* reject, and with handlers that let one operator reopen their dead letters.  *)
THEOREM QueueRefines ==
    ASSUME DbFaults = FALSE, Retryable = {} \/ \A o, p \in Operators : o = p
    PROVE  Spec => ImplementsLeasedQueue
BY NobodyRetriesTwice, NobodyIsOrphaned, QueueRefinesBarRaces, PTL

-----------------------------------------------------------------------------
(* Leases: only a claim and a heartbeat lengthen one. *)
Shrinks(j, r) == r.status = "leased" => r.lease <= row[j].lease

LEMMA LeaseNat ==
    ASSUME TypeOK, NEW i \in Keys
    PROVE  row[i] \in Rows /\ row[i].lease \in Nat
<1>1. row[i] \in Rows
    BY DEF TypeOK
<1> QED
    BY <1>1, ConstantsAssumption DEF Rows

LEMMA ShrinksSame == ASSUME TypeOK, row' = row, NEW i \in Keys PROVE Shrinks(i, row'[i])
BY LeaseNat DEF Shrinks

LEMMA ShrinksOneRow ==
    ASSUME TypeOK, NEW j \in Keys, NEW r, Shrinks(j, r),
           row' = [row EXCEPT ![j] = r] \/ row' = row
    PROVE  \A i \in Keys : Shrinks(i, row'[i])
<1> SUFFICES ASSUME NEW i \in Keys PROVE Shrinks(i, row'[i])
    OBVIOUS
<1>1. CASE row'[i] = row[i]
    BY <1>1, LeaseNat DEF Shrinks
<1>2. CASE i = j /\ row'[i] = r
    BY <1>2
<1> QED
    BY <1>1, <1>2 DEF TypeOK

LEMMA ShrinksReleased ==
    ASSUME TypeOK, NEW j \in Keys, NEW n \in 1..MaxClaims, NEW status \in Pending \cup Settled,
           WriteIfOwner(j, n, Released(row[j], status))
    PROVE  \A i \in Keys : Shrinks(i, row'[i])
<1>1. status # "leased"
    BY DEF Pending, Settled
<1>2. Shrinks(j, Released(row[j], status))
    BY <1>1, QuietReleased DEF Shrinks
<1> QED
    BY <1>2, ShrinksOneRow DEF WriteIfOwner

LEMMA OperateShrinks ==
    ASSUME TypeOK, Operate
    PROVE  \A i \in Keys : Shrinks(i, row'[i])
<1>0. \A i \in Keys : row[i] \in Rows /\ row[i].lease \in Nat
    BY LeaseNat
<1>1. ASSUME NEW s \in Sources, Enqueue(s) PROVE \A i \in Keys : Shrinks(i, row'[i])
    <2>1. \A due : [NoRow EXCEPT !.status = "queued", !.due = due].status = "queued"
        BY DEF NoRow
    <2> QED
        BY <1>0, <1>1, <2>1 DEF Enqueue, InsertIfAbsent, Shrinks, TypeOK
<1>2. ASSUME NEW j \in Keys, CancelJob(j) PROVE \A i \in Keys : Shrinks(i, row'[i])
    <2>1. Shrinks(j, Released(row[j], "cancelled"))
        BY QuietReleased DEF Shrinks, Settled
    <2> QED
        BY <1>2, <2>1, ShrinksOneRow DEF CancelJob
<1>3. ASSUME NEW j \in Keys, RescheduleJob(j) PROVE \A i \in Keys : Shrinks(i, row'[i])
    <2>1. PICK due \in BOOLEAN : row' = [row EXCEPT ![j] =
              [row[j] EXCEPT !.status = "retry_scheduled", !.due = due]]
        BY <1>3 DEF RescheduleJob
    <2>2. Shrinks(j, [row[j] EXCEPT !.status = "retry_scheduled", !.due = due])
        BY <1>0 DEF Shrinks, Rows
    <2> QED
        BY <2>1, <2>2, ShrinksOneRow
<1>4. ASSUME NEW o \in Operators, RetryDeadLetterWrite(o) PROVE \A i \in Keys : Shrinks(i, row'[i])
    <2> DEFINE j == request[o]
               r == [row[j] EXCEPT !.status = "retry_scheduled", !.due = TRUE, !.attempts = 0]
    <2>1. j \in Keys
        BY <1>4 DEF RetryDeadLetterWrite, TypeOK
    <2>2. Shrinks(j, r)
        BY <1>0, <2>1 DEF Shrinks, Rows
    <2>3. row' = [row EXCEPT ![j] = r]
        BY <1>4 DEF RetryDeadLetterWrite
    <2> HIDE DEF r
    <2> QED
        BY <2>1, <2>2, <2>3, ShrinksOneRow
<1>5. ASSUME NEW o \in Operators, NEW j \in Keys, RetryDeadLetterRead(o, j)
      PROVE  \A i \in Keys : Shrinks(i, row'[i])
    BY <1>5, ShrinksSame DEF RetryDeadLetterRead
<1> QED
    BY <1>1, <1>2, <1>3, <1>4, <1>5 DEF Operate

LEMMA ExecuteShrinks ==
    ASSUME TypeOK, NEW j \in Keys, NEW n \in 1..MaxClaims, Execute(j, n) \/ HandlerThrows(j, n)
    PROVE  \A i \in Keys : Shrinks(i, row'[i])
<1>0. \A i \in Keys : row[i] \in Rows /\ row[i].lease \in Nat
    BY LeaseNat
<1>1. CASE ReadClaimedRow(j, n) \/ HandlerReturns(j, n) \/ HandlerThrows(j, n)
    <2>1. row' = row
        BY <1>1 DEF ReadClaimedRow, HandlerReturns, HandlerThrows
    <2> QED
        BY <2>1, ShrinksSame
<1>2. CASE FinalizeSucceeded(j, n) \/ FinalizeUncertain(j, n) \/ FinalizeFailure(j, n)
    <2>1. \E status \in Pending \cup Settled : WriteIfOwner(j, n, Released(row[j], status))
        BY <1>2 DEF FinalizeSucceeded, FinalizeUncertain, FinalizeFailure, FailureRow, Pending, Settled
    <2> QED
        BY <2>1, ShrinksReleased
<1>3. CASE EnqueueReconciliation(j, n)
    <2>1. [NoRow EXCEPT !.status = "queued", !.due = TRUE].status = "queued"
        BY DEF NoRow
    <2> QED
        BY <1>0, <1>3, <2>1 DEF EnqueueReconciliation, InsertIfAbsent, Shrinks, TypeOK
<1> QED
    BY <1>1, <1>2, <1>3 DEF Execute

LEMMA PollShrinks ==
    ASSUME TypeOK, NEW w \in Workers, Poll(w), NEW i \in Keys
    PROVE  Shrinks(i, row'[i]) \/ claims'[i] # claims[i]
<1>0. \A j \in Keys : row[j] \in Rows /\ row[j].lease \in Nat /\ claims[j] \in Nat
    BY LeaseNat, ConstantsAssumption DEF TypeOK
<1>1. CASE RecoverLeases(w)
    <2>1. [Released(row[i], "retry_scheduled") EXCEPT !.due = TRUE].status = "retry_scheduled"
        BY <1>0 DEF Released, Rows
    <2> QED
        BY <1>0, <1>1, <2>1 DEF RecoverLeases, Shrinks
<1>2. ASSUME NEW j \in Keys, ClaimCandidate(w, j)
      PROVE  Shrinks(i, row'[i]) \/ claims'[i] # claims[i]
    <2>1. CASE i = j
        BY <1>0, <1>2, <2>1 DEF ClaimCandidate, TypeOK
    <2>2. CASE i # j
        BY <1>0, <1>2, <2>2 DEF ClaimCandidate, TypeOK, Shrinks
    <2> QED
        BY <2>1, <2>2
<1>3. CASE row' = row
    BY <1>3, ShrinksSame
<1> QED
    BY <1>1, <1>2, <1>3 DEF Poll, ScanCandidates, MissCandidate, StartBatch, FinishBatch

LEMMA TimeShrinks ==
    ASSUME TypeOK, Tick \/ \E j \in Keys : BecomesDue(j), NEW i \in Keys
    PROVE  Shrinks(i, row'[i])
<1>0. row[i] \in Rows /\ row[i].lease \in Nat
    BY LeaseNat
<1>1. CASE Tick
    <2>1. row'[i] = row[i] \/ row'[i] = [row[i] EXCEPT !.lease = row[i].lease - 1]
        BY <1>1 DEF Tick
    <2> QED
        BY <1>0, <2>1 DEF Shrinks, Rows
<1>2. ASSUME NEW j \in Keys, BecomesDue(j) PROVE Shrinks(i, row'[i])
    <2>1. row' = [row EXCEPT ![j] = [row[j] EXCEPT !.due = TRUE]]
        BY <1>2 DEF BecomesDue
    <2>2. row'[i] = row[i] \/ row'[i] = [row[i] EXCEPT !.due = TRUE]
        BY <2>1 DEF TypeOK
    <2> QED
        BY <1>0, <2>2 DEF Shrinks, Rows
<1> QED
    BY <1>1, <1>2

(* OrphanLeaseRunsDown, the safety half of OrphanLeaseIsRecovered, for every   *)
(* value of the constants: the lease an execution left behind is not renewed,  *)
(* so that the clock runs it down and some poll may recover the row.           *)
THEOREM OrphanLeasesLapse == Spec => OrphanLeaseRunsDown
<1> DEFINE Step(j) == /\ row[j].status = "leased" /\ ~Active(exec[j][claims[j]])
                      /\ row'[j].status = "leased" /\ claims'[j] = claims[j]
                      => \/ row'[j].lease <= row[j].lease
                         \/ \E n \in 1..MaxClaims :
                                Active(exec[j][n]) /\ ~Attended(exec[j][n]) /\ Owns(j, n)
<1>1. TypeOK /\ OnlyLatestClaimOwns /\ [Next]_vars => [\A j \in Keys : Step(j)]_vars
    <2> SUFFICES ASSUME TypeOK, OnlyLatestClaimOwns, Next, NEW j \in Keys PROVE Step(j)
        OBVIOUS
    <2>1. CASE Shrinks(j, row'[j]) \/ claims'[j] # claims[j]
        BY <2>1 DEF Shrinks
    <2>2. ASSUME NEW i \in Keys, NEW n \in 1..MaxClaims, Heartbeat(i, n) PROVE Step(j)
        <3>1. CASE i = j
            <4>1. Active(exec[j][n]) /\ Owns(j, n)
                BY <2>2, <3>1 DEF Heartbeat, Active
            <4>2. Attended(exec[j][n]) => n = claims[j]
                BY <4>1 DEF OnlyLatestClaimOwns
            <4> QED
                BY <4>1, <4>2
        <3>2. CASE i # j
            <4>1. row'[j] = row[j] /\ row[j].lease \in Nat
                BY <2>2, <3>2, LeaseNat DEF Heartbeat, TypeOK
            <4> QED
                BY <4>1
        <3> QED
            BY <3>1, <3>2
    <2>3. CASE Fault
        <3>1. row' = row
            BY <2>3 DEF Fault, ClaimFault, Crash, FinalizeFault, ExecutionFault
        <3> QED
            BY <2>1, <3>1, ShrinksSame
    <2> QED
        BY <2>1, <2>2, <2>3, OperateShrinks, PollShrinks, ExecuteShrinks, TimeShrinks DEF Next
<1> QED
    BY <1>1, TypeCorrect, Fencing, PTL DEF Spec, OrphanLeaseRunsDown

=============================================================================
