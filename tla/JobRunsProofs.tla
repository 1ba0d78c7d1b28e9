--------------------------- MODULE JobRunsProofs ---------------------------
(* The steps of JobRuns keep their types and are steps of LeasedQueue, for   *)
(* every set of jobs and every number of claims.                             *)
EXTENDS JobRuns, TLAPS

(* No handler allows operator retries, as in worker.ts. *)
Queue == INSTANCE LeasedQueue WITH Reopenable <- {}

(* What an execution may conclude. *)
Verdicts == {"waiting", "succeeded", "dead_letter", "reconciliation_required"}

(* One operation of the queue on job j. *)
Operation(j) ==
    \/ EnqueueJob(j) \/ ClaimJob(j) \/ LapseJob(j) \/ WithdrawJob(j)
    \/ \E n \in Claims : StopJob(j, n) \/ FailJob(j, n)
    \/ \E n \in Claims, verdict \in Verdicts : ConcludeJob(j, n, verdict)

QueueStep == (\E j \in Jobs : Operation(j)) \/ UNCHANGED queue

LEMMA QueueInitType == QueueInit => QueueTypeOK /\ Queue!Init
  BY MaxClaimsAssumption
     DEF QueueInit, QueueTypeOK, Queue!Init, Phases, SettledJob

LEMMA OperationType ==
    ASSUME QueueTypeOK, NEW j \in Jobs, Operation(j)
    PROVE  QueueTypeOK'
<1>1. CASE EnqueueJob(j) \/ LapseJob(j) \/ WithdrawJob(j)
  BY <1>1 DEF QueueTypeOK, EnqueueJob, LapseJob, WithdrawJob, Phases, SettledJob
<1>2. CASE ClaimJob(j)
  <2>1. holder[j] \in 0..MaxClaims /\ holder[j] + 1 \in Claims
    BY <1>2, MaxClaimsAssumption DEF QueueTypeOK, ClaimJob, Claims
  <2>2. phase' \in [Jobs -> Phases]
    BY <1>2 DEF QueueTypeOK, ClaimJob, Phases
  <2>3. holder' \in [Jobs -> 0..MaxClaims]
    BY <1>2, <2>1, MaxClaimsAssumption DEF QueueTypeOK, ClaimJob, Claims
  <2>4. working[j] \cup {holder[j] + 1} \in SUBSET Claims
    BY <2>1 DEF QueueTypeOK
  <2>5. working' \in [Jobs -> SUBSET Claims]
    BY <1>2, <2>4 DEF QueueTypeOK, ClaimJob
  <2> QED
    BY <2>2, <2>3, <2>5 DEF QueueTypeOK
<1>3. ASSUME NEW n \in Claims, StopJob(j, n)
      PROVE  QueueTypeOK'
  BY <1>3 DEF QueueTypeOK, StopJob
<1>4. ASSUME NEW n \in Claims, NEW verdict \in Phases, ConcludeJob(j, n, verdict)
      PROVE  QueueTypeOK'
  BY <1>4 DEF QueueTypeOK, ConcludeJob
<1> QED
  BY <1>1, <1>2, <1>3, <1>4 DEF Operation, FailJob, Verdicts, Phases, SettledJob

(* Claims are counted up, and no job disappears. *)
LEMMA QueueGrows ==
    ASSUME QueueTypeOK, QueueStep, NEW j \in Jobs
    PROVE  holder[j] <= holder'[j] /\ (phase[j] # "absent" => phase'[j] # "absent")
<1>1. holder[j] \in Nat
  BY MaxClaimsAssumption DEF QueueTypeOK
<1>2. ASSUME NEW k \in Jobs, EnqueueJob(k) \/ ClaimJob(k) \/ LapseJob(k) \/ WithdrawJob(k)
      PROVE  holder[j] <= holder'[j] /\ (phase[j] # "absent" => phase'[j] # "absent")
  BY <1>1, <1>2 DEF QueueTypeOK, EnqueueJob, ClaimJob, LapseJob, WithdrawJob
<1>3. ASSUME NEW k \in Jobs, NEW n \in Claims, StopJob(k, n)
      PROVE  holder'[j] = holder[j] /\ phase'[j] = phase[j]
  BY <1>3 DEF StopJob
<1>4. ASSUME NEW k \in Jobs, NEW n \in Claims, NEW verdict \in Verdicts, ConcludeJob(k, n, verdict)
      PROVE  holder'[j] = holder[j] /\ (phase[j] # "absent" => phase'[j] # "absent")
  BY <1>4 DEF QueueTypeOK, ConcludeJob, Verdicts
<1>5. CASE UNCHANGED queue
  BY <1>1, <1>5 DEF queue
<1> QED
  BY <1>1, <1>2, <1>3, <1>4, <1>5 DEF QueueStep, Operation, FailJob, Verdicts

(* Jobs come from enqueuing only. *)
LEMMA OnlyEnqueueCreates ==
    ASSUME QueueTypeOK, NEW j \in Jobs, NEW k \in Jobs, phase[k] = "absent",
           \/ ClaimJob(j) \/ LapseJob(j) \/ WithdrawJob(j)
           \/ \E n : StopJob(j, n) \/ FailJob(j, n)
           \/ \E n, verdict : ConcludeJob(j, n, verdict)
    PROVE  phase'[k] = "absent"
<1>1. CASE ClaimJob(j) \/ LapseJob(j) \/ WithdrawJob(j)
  BY <1>1 DEF QueueTypeOK, ClaimJob, LapseJob, WithdrawJob
<1>2. ASSUME NEW n, StopJob(j, n) PROVE phase'[k] = "absent"
  BY <1>2 DEF StopJob
<1>3. ASSUME NEW n, NEW verdict, ConcludeJob(j, n, verdict) PROVE phase'[k] = "absent"
  BY <1>3 DEF QueueTypeOK, ConcludeJob
<1> QED
  BY <1>1, <1>2, <1>3 DEF FailJob

(* What a step does to the job it is about. *)
LEMMA OperationRefines ==
    ASSUME QueueTypeOK, NEW j \in Jobs, Operation(j)
    PROVE  \/ Queue!Add(j) \/ Queue!Claim(j) \/ Queue!Conclude(j) \/ Queue!Lapse(j)
           \/ Queue!Withdraw(j) \/ Queue!Stop(j)
<1>1. CASE EnqueueJob(j) \/ LapseJob(j) \/ WithdrawJob(j)
  BY <1>1 DEF QueueTypeOK, EnqueueJob, LapseJob, WithdrawJob, Queue!Add, Queue!Lapse,
              Queue!Withdraw, Queue!Stop
<1>2. CASE ClaimJob(j)
  BY <1>2 DEF QueueTypeOK, ClaimJob, Queue!Claim
<1>3. ASSUME NEW n \in Claims, StopJob(j, n)
      PROVE  Queue!Stop(j)
  BY <1>3 DEF QueueTypeOK, StopJob, Queue!Stop
<1>4. ASSUME NEW n \in Claims, NEW verdict \in Verdicts, ConcludeJob(j, n, verdict)
      PROVE  Queue!Conclude(j) \/ Queue!Stop(j)
  BY <1>4 DEF QueueTypeOK, ConcludeJob, Verdicts, Queue!Conclude, Queue!Stop, Queue!Final
<1> QED
  BY <1>1, <1>2, <1>3, <1>4 DEF Operation, FailJob, Verdicts

(* The other jobs do not notice. *)
LEMMA OperationLocal ==
    ASSUME QueueTypeOK, NEW j \in Jobs, Operation(j), NEW k \in Jobs, k # j
    PROVE  phase'[k] = phase[k] /\ holder'[k] = holder[k] /\ working'[k] = working[k]
  BY DEF QueueTypeOK, Operation, EnqueueJob, ClaimJob, LapseJob, WithdrawJob, StopJob,
         FailJob, ConcludeJob

(* Every step of JobRuns, which the handlers' modules build their worker from, *)
(* keeps the types of the queue and is a step of the abstract queue or none.   *)
THEOREM QueueStepsRefine ==
    ASSUME QueueTypeOK, QueueStep
    PROVE  QueueTypeOK' /\ [Queue!Next]_(Queue!vars)
<1>1. CASE UNCHANGED queue
  BY <1>1 DEF queue, QueueTypeOK, Queue!vars
<1>2. ASSUME NEW j \in Jobs, Operation(j)
      PROVE  QueueTypeOK' /\ Queue!Next
  <2>1. QueueTypeOK'
    BY <1>2, OperationType
  <2>2. ASSUME NEW k \in Jobs
        PROVE  \/ Queue!Add(k) \/ Queue!Claim(k) \/ Queue!Conclude(k) \/ Queue!Lapse(k)
               \/ Queue!Withdraw(k) \/ Queue!Reopen(k) \/ Queue!Stop(k)
    <3>1. CASE k = j
      BY <1>2, <3>1, OperationRefines
    <3>2. CASE k # j
      BY <1>2, <3>2, OperationLocal DEF Queue!Stop
    <3> QED
      BY <3>1, <3>2
  <2>3. Phases = Queue!Phases
    BY DEF Phases, SettledJob, Queue!Phases, Queue!Final
  <2> QED
    BY <2>1, <2>2, <2>3 DEF Queue!Next, QueueTypeOK
<1> QED
  BY <1>1, <1>2 DEF QueueStep
=============================================================================
