-------------------------- MODULE DataRightsProofs --------------------------
(* Theorems about DataRights, for every set of requests and clients and      *)
(* every number of claims.                                                   *)
EXTENDS DataRights, JobRunsProofs

-----------------------------------------------------------------------------
(* Types, and the queue. *)

CallsNameRequests == \A c \in Clients : ~In(c, "idle") => client[c].req \in Jobs

TypeInv == TypeOK /\ CallsNameRequests

LEMMA IdleIsCall == Idle \in Calls
  BY DEF Idle, Calls

LEMMA InitType == Init => TypeInv /\ Queue!Init
<1> SUFFICES ASSUME Init PROVE TypeInv /\ Queue!Init
  OBVIOUS
<1>1. QueueTypeOK /\ Queue!Init
  BY QueueInitType DEF Init
<1>2. client \in [Clients -> Calls] /\ CallsNameRequests
  BY IdleIsCall DEF Init, CallsNameRequests, In, Idle
<1> QED
  BY <1>1, <1>2, MaxClaimsAssumption DEF Init, TypeInv, TypeOK, Statuses, ExecStages

(* The ways a client's call moves. *)
LEMMA ClientMoves ==
    ASSUME TypeInv, NEW c \in Clients,
           \/ client' = client
           \/ Return(c)
           \/ \E q \in Jobs, stage \in {"inserting", "enqueuing", "cancelling", "withdrawing"} :
                  Call(c, stage, q)
    PROVE  client' \in [Clients -> Calls] /\ CallsNameRequests'
<1>1. CASE client' = client
  BY <1>1 DEF TypeInv, TypeOK, CallsNameRequests, In
<1>2. CASE Return(c)
  BY <1>2, IdleIsCall DEF TypeInv, TypeOK, CallsNameRequests, In, Return, Idle
<1>3. ASSUME NEW q \in Jobs,
             NEW stage \in {"inserting", "enqueuing", "cancelling", "withdrawing"}, Call(c, stage, q)
      PROVE  client' \in [Clients -> Calls] /\ CallsNameRequests'
  <2>1. [stage |-> stage, req |-> q] \in Calls
    BY DEF Calls
  <2> QED
    BY <1>3, <2>1 DEF TypeInv, TypeOK, CallsNameRequests, In, Call
<1> QED
  BY <1>1, <1>2, <1>3

(* What clients do to the rows and to the queue. *)
LEMMA ClientStep ==
    ASSUME TypeInv, NEW c \in Clients,
           ClientProceeds(c) \/ ClientFails(c) \/ (\E q \in Jobs : FindOpen(c, q) \/ CancelRead(c, q))
    PROVE  TypeInv' /\ QueueStep
<1>1. QueueStep
  BY DEF ClientProceeds, ClientFails, FindOpen, CancelRead, Insert, EnqueueRequest, CancelWrite, CancelJob,
         QueueStep, Operation, queue, TypeInv, CallsNameRequests, In
<1>2. QueueTypeOK'
  BY <1>1, QueueStepsRefine DEF TypeInv, TypeOK
<1>3. client' \in [Clients -> Calls] /\ CallsNameRequests'
  <2>1. ~In(c, "idle") => client[c].req \in Jobs
    BY DEF TypeInv, CallsNameRequests
  <2> QED
    BY <2>1, ClientMoves
       DEF ClientProceeds, ClientFails, FindOpen, CancelRead, Insert, EnqueueRequest, CancelWrite, CancelJob, In
<1>4. status' \in [Jobs -> Statuses] /\ due' \in [Jobs -> BOOLEAN]
  BY DEF TypeInv, TypeOK, ClientProceeds, ClientFails, FindOpen, CancelRead, Insert, EnqueueRequest,
         CancelWrite, CancelJob, rows, Statuses
<1>5. cut' \subseteq Jobs
  BY DEF TypeInv, TypeOK, CallsNameRequests, ClientProceeds, ClientFails, FindOpen, CancelRead, Insert,
         EnqueueRequest, CancelWrite, CancelJob, rows, In
<1>6. kind' = kind /\ handled' = handled /\ ref' = ref /\ files' = files /\ at' = at
  BY DEF ClientProceeds, ClientFails, FindOpen, CancelRead, Insert, EnqueueRequest, CancelWrite,
         CancelJob, rows
<1> QED
  BY <1>1, <1>2, <1>3, <1>4, <1>5, <1>6 DEF TypeInv, TypeOK

LEMMA WorkerStep ==
    ASSUME TypeInv, NEW q \in Jobs,
           \/ BecomesDue(q) \/ StartJob(q) \/ LeaseLapses(q)
           \/ \E n \in Claims : Run(q, n) \/ ExecutionFails(q, n)
    PROVE  TypeInv' /\ QueueStep
<1>1. QueueStep
  BY DEF BecomesDue, StartJob, LeaseLapses, Run, ExecutionFails, ReadRequest, MarkProcessing, IndexRefuses,
         WriteArtifact, RecordArtifact, Succeed, Refuse, QueueStep, Operation, Verdicts, queue
<1>2. QueueTypeOK'
  BY <1>1, QueueStepsRefine DEF TypeInv, TypeOK
<1>3. client' = client /\ kind' = kind /\ handled' = handled
  BY DEF BecomesDue, StartJob, LeaseLapses, Run, ExecutionFails, ReadRequest, MarkProcessing, IndexRefuses,
         WriteArtifact, RecordArtifact, Succeed, Refuse, rows
<1>4. at' \in [Jobs -> [Claims -> ExecStages]]
  BY DEF TypeInv, TypeOK, BecomesDue, StartJob, LeaseLapses, Run, ExecutionFails, ReadRequest, MarkProcessing,
         IndexRefuses, WriteArtifact, RecordArtifact, Succeed, Refuse, Step, End, ExecStages
<1>5. status' \in [Jobs -> Statuses] /\ due' \in [Jobs -> BOOLEAN]
  BY DEF TypeInv, TypeOK, BecomesDue, StartJob, LeaseLapses, Run, ExecutionFails, ReadRequest, MarkProcessing,
         IndexRefuses, WriteArtifact, RecordArtifact, Succeed, Refuse, rows, Statuses
<1>6. ref' \in [Jobs -> 0..MaxClaims] /\ files' \in [Jobs -> SUBSET Claims]
  <2>1. Claims \subseteq 0..MaxClaims
    BY MaxClaimsAssumption DEF Claims
  <2> QED
    BY <2>1 DEF TypeInv, TypeOK, BecomesDue, StartJob, LeaseLapses, Run, ExecutionFails, ReadRequest,
           MarkProcessing, IndexRefuses, WriteArtifact, RecordArtifact, Succeed, Refuse, rows
<1>7. cut' \subseteq Jobs
  BY DEF TypeInv, TypeOK, BecomesDue, StartJob, LeaseLapses, Run, ExecutionFails, ReadRequest, MarkProcessing,
         IndexRefuses, WriteArtifact, RecordArtifact, Succeed, Refuse, rows
<1> QED
  BY <1>1, <1>2, <1>3, <1>4, <1>5, <1>6, <1>7 DEF TypeInv, TypeOK, CallsNameRequests, In

LEMMA NextType == TypeInv /\ [Next]_vars => TypeInv' /\ QueueStep
<1> SUFFICES ASSUME TypeInv, [Next]_vars PROVE TypeInv' /\ QueueStep
  OBVIOUS
<1>1. CASE UNCHANGED vars
  BY <1>1 DEF vars, TypeInv, TypeOK, QueueTypeOK, CallsNameRequests, In, QueueStep, queue
<1>2. CASE Next
  BY <1>2, ClientStep, WorkerStep DEF Next
<1> QED
  BY <1>1, <1>2

(* Every variable keeps its type. *)
THEOREM TypeCorrect == Spec => []TypeInv
<1> QED
  BY InitType, NextType, PTL DEF Spec

(* Whatever the clients and the export handler do, the jobs of the requests   *)
(* live as LeasedQueue promises: only the latest claim of a job decides it.   *)
THEOREM JobsImplementLeasedQueue == Spec => Queue!Spec
<1>1. TypeInv /\ [Next]_vars => [Queue!Next]_(Queue!vars)
  BY NextType, QueueStepsRefine DEF TypeInv, TypeOK
<1> QED
  BY <1>1, InitType, TypeCorrect, PTL DEF Spec, Queue!Spec

-----------------------------------------------------------------------------
(* One open request. *)

OpenKept == \A q \in Jobs : status'[q] \in Open => status[q] \in Open

LEMMA OneOpenStep == TypeInv /\ OneOpenRequest /\ [Next]_vars => OneOpenRequest'
<1> SUFFICES ASSUME TypeInv, OneOpenRequest, [Next]_vars PROVE OneOpenRequest'
  OBVIOUS
<1> USE DEF Open
<1>1. CASE OpenKept
  BY <1>1 DEF OneOpenRequest, OpenKept
<1>2. CASE UNCHANGED vars
  BY <1>1, <1>2 DEF vars, OpenKept
<1>3. ASSUME NEW c \in Clients, Insert(c) PROVE OneOpenRequest'
  <2>1. CASE OpenRequest
    BY <1>1, <1>3, <2>1 DEF Insert, OpenKept
  <2>2. CASE ~OpenRequest
    <3>1. status' = [status EXCEPT ![client[c].req] = "scheduled"]
      BY <1>3, <2>2 DEF Insert
    <3> QED
      BY <2>2, <3>1 DEF OpenRequest, OneOpenRequest, TypeInv, TypeOK
  <2> QED
    BY <2>1, <2>2
<1>4. ASSUME NEW c \in Clients, ClientProceeds(c) \/ ClientFails(c), ~Insert(c) PROVE OpenKept
  BY <1>4 DEF ClientProceeds, ClientFails, EnqueueRequest, CancelWrite, CancelJob, rows, OpenKept,
              TypeInv, TypeOK
<1>5. ASSUME NEW c \in Clients, NEW q \in Jobs, FindOpen(c, q) \/ CancelRead(c, q) PROVE OpenKept
  BY <1>5 DEF FindOpen, CancelRead, rows, OpenKept
<1>6. ASSUME NEW q \in Jobs, BecomesDue(q) \/ StartJob(q) \/ LeaseLapses(q) PROVE OpenKept
  BY <1>6 DEF BecomesDue, StartJob, LeaseLapses, rows, OpenKept
<1>7. ASSUME NEW q \in Jobs, NEW n \in Claims, MarkProcessing(q, n) PROVE OneOpenRequest'
  BY <1>7 DEF MarkProcessing, OtherOpen, OneOpenRequest, TypeInv, TypeOK
<1>8. ASSUME NEW q \in Jobs, NEW n \in Claims, Run(q, n) \/ ExecutionFails(q, n), ~MarkProcessing(q, n)
      PROVE  OpenKept
  BY <1>8 DEF Run, ExecutionFails, ReadRequest, IndexRefuses, WriteArtifact, RecordArtifact, Succeed,
              Refuse, rows, OpenKept, TypeInv, TypeOK
<1> QED
  BY <1>1, <1>2, <1>3, <1>4, <1>5, <1>6, <1>7, <1>8 DEF Next

(* The partial unique index and the checks around it leave a user with at most *)
(* one open request of a kind, for any number of racing calls and executions.  *)
THEOREM OneOpen == Spec => []OneOpenRequest
<1>1. Init => OneOpenRequest
  BY DEF Init, OneOpenRequest, Open
<1> QED
  BY <1>1, OneOpenStep, TypeCorrect, PTL DEF Spec

-----------------------------------------------------------------------------
(* Artifacts. *)

(* Why: an execution records what it wrote itself, and no file goes away. *)
RecordsWhatItWrote == \A q \in Jobs, n \in Claims : at[q][n] = "recording" => n \in files[q]

ArtifactInv == RecordsWhatItWrote /\ CompletedHasArtifact

LEMMA ArtifactStep == TypeInv /\ ArtifactInv /\ [Next]_vars => ArtifactInv'
<1> SUFFICES ASSUME TypeInv, ArtifactInv, [Next]_vars PROVE ArtifactInv'
  OBVIOUS
<1> DEFINE NoneCompleted == \A q \in Jobs : status'[q] = "completed" => status[q] = "completed"
<1>1. CASE at' = at /\ files' = files /\ ref' = ref /\ NoneCompleted
  BY <1>1 DEF ArtifactInv, RecordsWhatItWrote, CompletedHasArtifact
<1>2. CASE UNCHANGED vars
  BY <1>1, <1>2 DEF vars
<1>3. ASSUME NEW c \in Clients, ClientProceeds(c) \/ ClientFails(c) PROVE ArtifactInv'
  BY <1>1, <1>3 DEF ClientProceeds, ClientFails, Insert, EnqueueRequest, CancelWrite, CancelJob, rows,
                    TypeInv, TypeOK
<1>4. ASSUME NEW c \in Clients, NEW q \in Jobs, FindOpen(c, q) \/ CancelRead(c, q) PROVE ArtifactInv'
  BY <1>1, <1>4 DEF FindOpen, CancelRead, rows
<1>5. ASSUME NEW q \in Jobs, BecomesDue(q) \/ LeaseLapses(q) PROVE ArtifactInv'
  BY <1>1, <1>5 DEF BecomesDue, LeaseLapses, rows
<1>6. ASSUME NEW q \in Jobs, StartJob(q) PROVE ArtifactInv'
  BY <1>6 DEF StartJob, rows, ArtifactInv, RecordsWhatItWrote, CompletedHasArtifact, TypeInv, TypeOK
<1>7. ASSUME NEW q \in Jobs, NEW n \in Claims, WriteArtifact(q, n) PROVE ArtifactInv'
  BY <1>7 DEF WriteArtifact, Step, ArtifactInv, RecordsWhatItWrote, CompletedHasArtifact, TypeInv, TypeOK
<1>8. ASSUME NEW q \in Jobs, NEW n \in Claims, RecordArtifact(q, n) PROVE ArtifactInv'
  BY <1>8 DEF RecordArtifact, Step, ArtifactInv, RecordsWhatItWrote, CompletedHasArtifact, TypeInv, TypeOK
<1>9. ASSUME NEW q \in Jobs, NEW n \in Claims,
             \/ ReadRequest(q, n) \/ MarkProcessing(q, n) \/ IndexRefuses(q, n)
             \/ Succeed(q, n) \/ Refuse(q, n) \/ ExecutionFails(q, n)
      PROVE  ArtifactInv'
  <2>1. PICK stage \in ExecStages \ {"recording"} : at' = [at EXCEPT ![q][n] = stage]
    BY <1>9 DEF ReadRequest, MarkProcessing, IndexRefuses, Succeed, Refuse, ExecutionFails, Step, End, ExecStages
  <2>2. RecordsWhatItWrote' /\ files' = files /\ ref' = ref
    BY <1>9, <2>1 DEF ReadRequest, MarkProcessing, IndexRefuses, Succeed, Refuse, ExecutionFails, rows,
                      ArtifactInv, RecordsWhatItWrote, TypeInv, TypeOK
  <2>3. NoneCompleted
    BY <1>9 DEF ReadRequest, MarkProcessing, IndexRefuses, Succeed, Refuse, ExecutionFails, rows,
                TypeInv, TypeOK
  <2> QED
    BY <2>2, <2>3 DEF ArtifactInv, CompletedHasArtifact
<1> QED
  BY <1>2, <1>3, <1>4, <1>5, <1>6, <1>7, <1>8, <1>9 DEF Next, Run

(* A completed export names an artifact that was written, however often its   *)
(* job is executed and wherever the executions fail.                          *)
THEOREM CompletedExports == Spec => []CompletedHasArtifact
<1>1. Init => ArtifactInv
  BY DEF Init, ArtifactInv, RecordsWhatItWrote, CompletedHasArtifact
<1>2. Spec => []ArtifactInv
  BY <1>1, ArtifactStep, TypeCorrect, PTL DEF Spec
<1>3. ArtifactInv => CompletedHasArtifact
  BY DEF ArtifactInv
<1> QED
  BY <1>2, <1>3, PTL

-----------------------------------------------------------------------------
(* Open exports are worked on. *)

(* An id belongs to one call, which finds no row, and then no job, under it. *)
Creators ==
    /\ \A c \in Clients : client[c].stage \in {"idle", "inserting", "enqueuing"}
    /\ \A c \in Clients : In(c, "inserting") => status[client[c].req] = "absent"
    /\ \A c \in Clients : In(c, "enqueuing") =>
          phase[client[c].req] = "absent" /\ status[client[c].req] # "absent"
    /\ \A c, d \in Clients : ~In(c, "idle") /\ ~In(d, "idle") /\ client[c].req = client[d].req => c = d

NothingBefore ==
    \A q \in Jobs : status[q] = "absent" => phase[q] = "absent" /\ \A n \in Claims : at[q][n] = "none"

Executions ==
    \A q \in Jobs, n \in Claims :
        (at[q][n] # "none" => n \in working[q]) /\ (n \in working[q] => n <= holder[q])

(* Without a handler every execution is refused. *)
Unhandled == ~handled => \A q \in Jobs, n \in Claims : at[q][n] \in {"none", "refusing"}

(* A scheduled export waits, or was refused for want of a handler, and no        *)
(* execution has come past its mark ...                                          *)
Creating(q) == \E c \in Clients : In(c, "enqueuing") /\ client[c].req = q
ScheduledWaits ==
    \A q \in Jobs : status[q] = "scheduled" /\ q \notin cut =>
        /\ Creating(q) \/ phase[q] \in {"waiting", "held"} \/ (~handled /\ phase[q] = "dead_letter")
        /\ handled => \A n \in Claims : at[q][n] \in {"none", "reading", "marking"}

(* ... and one that is processing has an execution that writes. *)
Writes(q, n) == n \in working[q] /\ at[q][n] \in {"writing", "recording"}
ProcessingWrites ==
    \A q \in Jobs : status[q] = "processing" /\ q \notin cut => \E n \in Claims : Writes(q, n)

WorkInv == Creators /\ NothingBefore /\ Executions /\ Unhandled /\ ScheduledWaits /\ ProcessingWrites

LEMMA FindKeepsWork ==
    ASSUME TypeInv, kind = "export", WorkInv, NEW c \in Clients, NEW q \in Jobs,
           FindOpen(c, q) \/ CancelRead(c, q)
    PROVE  WorkInv'
<1>1. /\ In(c, "idle") /\ status[q] = "absent" /\ (\A d \in Clients : client[d].req # q)
      /\ client' = [client EXCEPT ![c] = [stage |-> "inserting", req |-> q]]
      /\ UNCHANGED <<phase, holder, working, handled, status, at, cut>>
  BY DEF FindOpen, CancelRead, Call, queue, rows
<1>2. /\ client'[c] = [stage |-> "inserting", req |-> q] /\ \A d \in Clients \ {c} : client'[d] = client[d]
  BY <1>1 DEF TypeInv, TypeOK
<1>3. Creators'
  BY <1>1, <1>2 DEF WorkInv, Creators, In
<1>4. \A p \in Jobs : Creating(p) => Creating(p)'
  BY <1>1, <1>2 DEF Creating, In
<1> QED
  BY <1>1, <1>3, <1>4 DEF WorkInv, NothingBefore, Executions, Unhandled, ScheduledWaits, ProcessingWrites, Writes

(* A call that ends without an effect, or fails. *)
LEMMA ReturnKeepsWork ==
    ASSUME TypeInv, WorkInv, NEW c \in Clients, Return(c),
           UNCHANGED <<phase, holder, working, handled, status, at>>, cut \subseteq cut',
           In(c, "enqueuing") => client[c].req \in cut'
    PROVE  WorkInv'
<1>1. client'[c] = Idle /\ Idle.stage = "idle" /\ \A d \in Clients \ {c} : client'[d] = client[d]
  BY DEF Return, Idle, TypeInv, TypeOK
<1>2. Creators'
  BY <1>1 DEF WorkInv, Creators, In
<1>3. \A p \in Jobs : Creating(p) /\ p \notin cut' => Creating(p)'
  BY <1>1 DEF Creating, In
<1> QED
  BY <1>1, <1>2, <1>3 DEF WorkInv, NothingBefore, Executions, Unhandled, ScheduledWaits, ProcessingWrites, Writes

LEMMA InsertKeepsWork ==
    ASSUME TypeInv, kind = "export", WorkInv, NEW c \in Clients, Insert(c)
    PROVE  WorkInv'
<1> DEFINE q == client[c].req
<1>1. In(c, "inserting") /\ q \in Jobs /\ UNCHANGED <<phase, holder, working, handled, at, cut>>
  BY DEF Insert, In, queue, TypeInv, CallsNameRequests
<1>2. CASE OpenRequest
  BY <1>1, <1>2, ReturnKeepsWork DEF Insert, In
<1>3. CASE ~OpenRequest
  <2>1. /\ status' = [status EXCEPT ![q] = "scheduled"]
        /\ client' = [client EXCEPT ![c] = [stage |-> "enqueuing", req |-> q]]
    BY <1>3 DEF Insert, Call
  <2>2. /\ client'[c] = [stage |-> "enqueuing", req |-> q] /\ \A d \in Clients \ {c} : client'[d] = client[d]
        /\ status'[q] = "scheduled" /\ \A p \in Jobs \ {q} : status'[p] = status[p]
    BY <1>1, <2>1 DEF TypeInv, TypeOK
  <2>3. status[q] = "absent" /\ phase[q] = "absent" /\ \A n \in Claims : at[q][n] = "none"
    BY <1>1 DEF WorkInv, Creators, NothingBefore
  <2>4. Creators'
    BY <1>1, <2>2, <2>3 DEF WorkInv, Creators, In, TypeInv, CallsNameRequests
  <2>5. NothingBefore' /\ Executions' /\ Unhandled' /\ ProcessingWrites'
    BY <1>1, <2>2 DEF WorkInv, NothingBefore, Executions, Unhandled, ProcessingWrites, Writes
  <2>6. Creating(q)' /\ \A p \in Jobs : Creating(p) => Creating(p)'
    BY <1>1, <2>2 DEF Creating, In
  <2>7. ScheduledWaits'
    BY <1>1, <2>2, <2>3, <2>6 DEF WorkInv, ScheduledWaits
  <2> QED
    BY <2>4, <2>5, <2>7 DEF WorkInv
<1> QED
  BY <1>2, <1>3

LEMMA EnqueueKeepsWork ==
    ASSUME TypeInv, WorkInv, NEW c \in Clients, EnqueueRequest(c)
    PROVE  WorkInv'
<1> DEFINE q == client[c].req
<1>1. /\ In(c, "enqueuing") /\ q \in Jobs /\ phase[q] = "absent" /\ status[q] # "absent"
      /\ UNCHANGED <<holder, working, handled, status, at, cut>>
  BY DEF EnqueueRequest, EnqueueJob, In, rows, TypeInv, CallsNameRequests, WorkInv, Creators
<1>2. phase'[q] = "waiting" /\ \A p \in Jobs \ {q} : phase'[p] = phase[p]
  BY <1>1 DEF EnqueueRequest, EnqueueJob, TypeInv, TypeOK, QueueTypeOK
<1>3. client'[c] = Idle /\ Idle.stage = "idle" /\ \A d \in Clients \ {c} : client'[d] = client[d]
  BY DEF EnqueueRequest, Return, Idle, TypeInv, TypeOK
<1>4. \A d \in Clients \ {c} : ~In(d, "idle") => client[d].req # q /\ client[d].req \in Jobs
  BY <1>1 DEF WorkInv, Creators, In, TypeInv, CallsNameRequests
<1>5. Creators'
  BY <1>1, <1>2, <1>3, <1>4 DEF WorkInv, Creators, In
<1>6. \A p \in Jobs \ {q} : Creating(p) => Creating(p)'
  BY <1>1, <1>3 DEF Creating, In
<1>7. ScheduledWaits'
  BY <1>1, <1>2, <1>6 DEF WorkInv, ScheduledWaits
<1> QED
  BY <1>1, <1>2, <1>5, <1>7 DEF WorkInv, NothingBefore, Executions, Unhandled, ProcessingWrites, Writes

LEMMA ClientKeepsWork ==
    ASSUME TypeInv, kind = "export", WorkInv, NEW c \in Clients,
           ClientProceeds(c) \/ ClientFails(c) \/ (\E q \in Jobs : FindOpen(c, q) \/ CancelRead(c, q))
    PROVE  WorkInv'
<1>1. ~CancelWrite(c) /\ ~CancelJob(c)
  BY DEF CancelWrite, CancelJob, In, WorkInv, Creators
<1>2. CASE ClientFails(c)
  BY <1>2, ReturnKeepsWork DEF ClientFails, queue, rows
<1> QED
  BY <1>1, <1>2, FindKeepsWork, InsertKeepsWork, EnqueueKeepsWork DEF ClientProceeds

(* The queue starts an execution, or takes a lease back. *)
LEMMA QueueKeepsWork ==
    ASSUME TypeInv, kind = "export", WorkInv, NEW q \in Jobs,
           BecomesDue(q) \/ StartJob(q) \/ LeaseLapses(q)
    PROVE  WorkInv'
<1>1. UNCHANGED <<client, handled, status, cut>>
  BY DEF BecomesDue, StartJob, LeaseLapses, rows
<1>2. CASE UNCHANGED <<phase, holder, working, at>>
  BY <1>1, <1>2 DEF WorkInv, Creators, NothingBefore, Executions, Unhandled, ScheduledWaits,
                    ProcessingWrites, Writes, Creating, In
<1>3. CASE LeaseLapses(q)
  <2>1. phase[q] = "held" /\ phase' = [phase EXCEPT ![q] = "waiting"] /\ UNCHANGED <<holder, working, at>>
    BY <1>3 DEF LeaseLapses, LapseJob
  <2>2. phase'[q] = "waiting" /\ \A p \in Jobs \ {q} : phase'[p] = phase[p]
    BY <2>1 DEF TypeInv, TypeOK, QueueTypeOK
  <2>3. Creators'
    BY <1>1, <2>1, <2>2 DEF WorkInv, Creators, In, TypeInv, CallsNameRequests
  <2>4. NothingBefore' /\ Executions' /\ Unhandled' /\ ProcessingWrites'
    BY <1>1, <2>1, <2>2 DEF WorkInv, NothingBefore, Executions, Unhandled, ProcessingWrites, Writes
  <2>5. ScheduledWaits'
    BY <1>1, <2>1, <2>2 DEF WorkInv, ScheduledWaits, Creating, In
  <2> QED
    BY <2>3, <2>4, <2>5 DEF WorkInv
<1>4. CASE StartJob(q)
  <2> DEFINE m == holder[q] + 1
             first == IF handled THEN "reading" ELSE "refusing"
  <2>1. m \in Claims /\ holder[q] \in Nat /\ phase[q] = "waiting"
    BY <1>4, MaxClaimsAssumption DEF StartJob, ClaimJob, Claims, TypeInv, TypeOK, QueueTypeOK
  <2>2. /\ phase' = [phase EXCEPT ![q] = "held"]
        /\ holder' = [holder EXCEPT ![q] = m]
        /\ working' = [working EXCEPT ![q] = @ \cup {m}]
        /\ at' = [at EXCEPT ![q][m] = first]
    BY <1>4 DEF StartJob, ClaimJob, HasHandler
  <2>3. /\ phase'[q] = "held" /\ \A p \in Jobs \ {q} : phase'[p] = phase[p]
        /\ holder'[q] = m /\ \A p \in Jobs \ {q} : holder'[p] = holder[p]
        /\ working'[q] = working[q] \cup {m} /\ \A p \in Jobs \ {q} : working'[p] = working[p]
    BY <2>2 DEF TypeInv, TypeOK, QueueTypeOK
  <2>4. /\ at'[q][m] = first /\ \A n \in Claims \ {m} : at'[q][n] = at[q][n]
        /\ \A p \in Jobs \ {q} : at'[p] = at[p]
    BY <2>1, <2>2 DEF TypeInv, TypeOK
  <2>5. m \notin working[q] /\ at[q][m] = "none"
    BY <2>1 DEF WorkInv, Executions
  <2>6. Creators'
    BY <1>1, <2>1, <2>3 DEF WorkInv, Creators, In, TypeInv, CallsNameRequests
  <2>7. NothingBefore'
    BY <1>1, <2>1, <2>3, <2>4 DEF WorkInv, NothingBefore
  <2>8. Executions'
    <3> SUFFICES ASSUME NEW p \in Jobs, NEW n \in Claims
                 PROVE  (at'[p][n] # "none" => n \in working'[p]) /\ (n \in working'[p] => n <= holder'[p])
      BY DEF Executions
    <3>1. CASE p # q
      BY <3>1, <2>3, <2>4 DEF WorkInv, Executions
    <3>2. CASE p = q
      <4>1. n \in Nat
        BY DEF Claims
      <4> QED
        BY <3>2, <4>1, <2>1, <2>3, <2>4 DEF WorkInv, Executions
    <3> QED
      BY <3>1, <3>2
  <2>9. ScheduledWaits'
    BY <1>1, <2>3, <2>4 DEF WorkInv, ScheduledWaits, Creating, In
  <2>10. ProcessingWrites'
    BY <1>1, <2>3, <2>4, <2>5 DEF WorkInv, ProcessingWrites, Writes
  <2>11. Unhandled'
    <3> SUFFICES ASSUME ~handled, NEW p \in Jobs, NEW n \in Claims PROVE at'[p][n] \in {"none", "refusing"}
      BY <1>1 DEF Unhandled
    <3> QED
      BY <2>4 DEF WorkInv, Unhandled
  <2> QED
    BY <2>6, <2>7, <2>8, <2>9, <2>10, <2>11 DEF WorkInv
<1> QED
  BY <1>2, <1>3, <1>4 DEF BecomesDue, queue

(* An execution goes on, and may write the status of its request. *)
LEMMA MoveKeepsWork ==
    ASSUME TypeInv, WorkInv, NEW q \in Jobs, NEW n \in Claims,
           \/ ReadRequest(q, n) \/ MarkProcessing(q, n)
           \/ WriteArtifact(q, n) \/ RecordArtifact(q, n)
    PROVE  WorkInv'
<1>1. /\ UNCHANGED <<phase, holder, working, client, handled, cut>>
      /\ at[q][n] \in {"reading", "marking", "writing", "recording"}
  BY DEF ReadRequest, MarkProcessing, WriteArtifact, RecordArtifact, Step, queue, rows
<1>0. handled
  BY <1>1 DEF WorkInv, Unhandled
<1>2. PICK s \in ExecStages : at' = [at EXCEPT ![q][n] = s]
  BY DEF ReadRequest, MarkProcessing, WriteArtifact, RecordArtifact, Step, ExecStages
<1>3. /\ at'[q][n] = s /\ \A m \in Claims \ {n} : at'[q][m] = at[q][m]
      /\ \A p \in Jobs \ {q} : at'[p] = at[p]
  BY <1>2 DEF TypeInv, TypeOK
<1>4. n \in working[q] /\ status[q] # "absent"
  BY <1>1 DEF WorkInv, Executions, NothingBefore
<1>5. /\ \A p \in Jobs \ {q} : status'[p] = status[p]
      /\ status'[q] # "absent" /\ (status'[q] = "scheduled" => status[q] = "scheduled")
  BY <1>4 DEF ReadRequest, MarkProcessing, WriteArtifact, RecordArtifact, rows, TypeInv, TypeOK
<1>6. Creators'
  BY <1>1, <1>4, <1>5 DEF WorkInv, Creators, In, TypeInv, CallsNameRequests
<1>7. NothingBefore' /\ Executions'
  BY <1>1, <1>3, <1>4, <1>5 DEF WorkInv, NothingBefore, Executions
<1>8. status'[q] = "scheduled" /\ q \notin cut => s \in {"none", "reading", "marking"}
  <2> SUFFICES ASSUME status'[q] = "scheduled", q \notin cut PROVE s \in {"none", "reading", "marking"}
    OBVIOUS
  <2>1. at[q][n] \in {"reading", "marking"}
    BY <1>0, <1>1, <1>5 DEF WorkInv, ScheduledWaits
  <2>2. ~MarkProcessing(q, n) /\ ~WriteArtifact(q, n) /\ ~RecordArtifact(q, n)
    BY <2>1 DEF MarkProcessing, WriteArtifact, RecordArtifact, Step, TypeInv, TypeOK
  <2>3. at'[q][n] = "marking"
    BY <1>5, <2>2 DEF ReadRequest, Step, Open, TypeInv, TypeOK
  <2> QED
    BY <1>3, <2>3
<1>9. ScheduledWaits'
  BY <1>1, <1>3, <1>5, <1>8 DEF WorkInv, ScheduledWaits, Creating, In
<1>10. status'[q] = "processing" /\ q \notin cut => \E m \in Claims : Writes(q, m)'
  <2> SUFFICES ASSUME status'[q] = "processing", q \notin cut PROVE \E m \in Claims : Writes(q, m)'
    OBVIOUS
  <2>1. CASE s \in {"writing", "recording"}
    BY <1>1, <1>3, <1>4, <2>1 DEF Writes
  <2>2. CASE s \notin {"writing", "recording"}
    <3>1. ~MarkProcessing(q, n) /\ ~WriteArtifact(q, n)
      BY <1>3, <2>2 DEF MarkProcessing, WriteArtifact, Step, TypeInv, TypeOK
    <3>2. ~RecordArtifact(q, n)
      BY DEF RecordArtifact, TypeInv, TypeOK
    <3>3. status[q] = "processing" /\ at[q][n] = "reading"
      BY <3>1, <3>2 DEF ReadRequest, Step, rows
    <3>4. PICK m \in Claims : Writes(q, m)
      BY <3>3 DEF WorkInv, ProcessingWrites
    <3> QED
      BY <1>1, <1>3, <3>3, <3>4 DEF Writes
  <2> QED
    BY <2>1, <2>2
<1>11. ProcessingWrites'
  BY <1>1, <1>3, <1>5, <1>10 DEF WorkInv, ProcessingWrites, Writes
<1> QED
  BY <1>0, <1>1, <1>6, <1>7, <1>9, <1>11 DEF WorkInv, Unhandled

(* An execution ends: of a request that is not open, in a fault, or after it has *)
(* written.                                                                      *)
LEMMA EndKeepsWork ==
    ASSUME TypeInv, OneOpenRequest, WorkInv, NEW q \in Jobs, NEW n \in Claims,
           IndexRefuses(q, n) \/ Succeed(q, n) \/ Refuse(q, n) \/ ExecutionFails(q, n)
    PROVE  WorkInv'
<1>1. UNCHANGED <<client, handled, status>> /\ cut \subseteq cut' /\ at[q][n] # "none"
  BY DEF IndexRefuses, Succeed, Refuse, ExecutionFails, End, Step, rows
<1>2. at' = [at EXCEPT ![q][n] = "none"]
  BY DEF IndexRefuses, Succeed, Refuse, ExecutionFails, End, Step
<1>3. /\ at'[q][n] = "none" /\ \A m \in Claims \ {n} : at'[q][m] = at[q][m]
      /\ \A p \in Jobs \ {q} : at'[p] = at[p]
  BY <1>2 DEF TypeInv, TypeOK
<1>4. holder' = holder /\ working' = [working EXCEPT ![q] = @ \ {n}]
  BY DEF IndexRefuses, Succeed, Refuse, ExecutionFails, FailJob, StopJob, ConcludeJob
<1>5. /\ \A p \in Jobs \ {q} : working'[p] = working[p] /\ phase'[p] = phase[p]
      /\ working'[q] = working[q] \ {n} /\ (phase[q] = "absent" => phase'[q] = "absent")
  BY <1>4 DEF IndexRefuses, Succeed, Refuse, ExecutionFails, FailJob, StopJob, ConcludeJob,
              TypeInv, TypeOK, QueueTypeOK
<1>6. status[q] \in Open => \/ q \in cut'
                            \/ at[q][n] \in {"succeeding", "refusing"}
  BY DEF IndexRefuses, Succeed, Refuse, ExecutionFails, End, Step, OtherOpen, OneOpenRequest
<1>7. Creators'
  BY <1>1, <1>5 DEF WorkInv, Creators, In, TypeInv, CallsNameRequests
<1>8. NothingBefore' /\ Executions' /\ Unhandled'
  BY <1>1, <1>3, <1>4, <1>5 DEF WorkInv, NothingBefore, Executions, Unhandled
<1>9. status[q] = "scheduled" => \/ q \in cut'
                                 \/ ~handled /\ (phase'[q] = phase[q] \/ phase'[q] = "dead_letter")
  <2>1. CASE handled
    BY <2>1, <1>1, <1>6 DEF WorkInv, ScheduledWaits, Open
  <2>2. CASE ~handled
    <3>1. ~IndexRefuses(q, n) /\ ~Succeed(q, n)
      BY <2>2 DEF WorkInv, Unhandled, IndexRefuses, Succeed, End, Step
    <3> QED
      BY <2>2, <3>1 DEF Refuse, ExecutionFails, ConcludeJob, TypeInv, TypeOK, QueueTypeOK
  <2> QED
    BY <2>1, <2>2
<1>10. ScheduledWaits'
  BY <1>1, <1>3, <1>5, <1>9 DEF WorkInv, ScheduledWaits, Creating, In
<1>11. status[q] = "processing" /\ q \notin cut' => \E m \in Claims : Writes(q, m)'
  <2> SUFFICES ASSUME status[q] = "processing", q \notin cut' PROVE \E m \in Claims : Writes(q, m)'
    OBVIOUS
  <2>1. at[q][n] \in {"succeeding", "refusing"}
    BY <1>6 DEF Open
  <2>2. PICK m \in Claims : Writes(q, m)
    BY <1>1 DEF WorkInv, ProcessingWrites
  <2> QED
    BY <1>3, <1>5, <2>1, <2>2 DEF Writes
<1>12. ProcessingWrites'
  BY <1>1, <1>3, <1>5, <1>11 DEF WorkInv, ProcessingWrites, Writes
<1> QED
  BY <1>7, <1>8, <1>10, <1>12 DEF WorkInv

LEMMA WorkStep ==
    TypeInv /\ OneOpenRequest /\ (kind = "export" => WorkInv) /\ [Next]_vars
        => (kind = "export" => WorkInv)'
<1> SUFFICES ASSUME TypeInv, OneOpenRequest, kind = "export" => WorkInv, [Next]_vars, kind' = "export"
             PROVE  WorkInv'
  OBVIOUS
<1>1. kind = "export"
  BY DEF vars, rows, Next, FindOpen, CancelRead, ClientProceeds, ClientFails, Insert, EnqueueRequest,
         CancelWrite, CancelJob, BecomesDue, StartJob, LeaseLapses, Run, ExecutionFails, ReadRequest,
         MarkProcessing, IndexRefuses, WriteArtifact, RecordArtifact, Succeed, Refuse
<1>2. CASE UNCHANGED vars
  BY <1>1, <1>2 DEF vars, WorkInv, Creators, NothingBefore, Executions, ScheduledWaits, ProcessingWrites,
                    Unhandled, Writes, Creating, In
<1>3. CASE Next
  BY <1>1, <1>3, ClientKeepsWork, QueueKeepsWork, MoveKeepsWork, EndKeepsWork DEF Next, Run
<1> QED
  BY <1>2, <1>3

(* An open export is being created, waits for a worker or is worked on, unless a *)
(* fault took its creator or an execution, or no handler is registered for its   *)
(* job, which is then a dead letter: nothing else leaves an export behind.       *)
THEOREM OpenExportsProceed == Spec => []OpenExportIsWorkedOn
<1>1. Init => (kind = "export" => WorkInv)
  <2> SUFFICES ASSUME Init PROVE WorkInv
    OBVIOUS
  <2>1. Creators
    BY DEF Init, Creators, In, Idle
  <2>2. NothingBefore /\ Executions /\ Unhandled
    BY DEF Init, QueueInit, NothingBefore, Executions, Unhandled
  <2>3. ScheduledWaits /\ ProcessingWrites
    BY DEF Init, ScheduledWaits, ProcessingWrites
  <2> QED
    BY <2>1, <2>2, <2>3 DEF WorkInv
<1>2. Spec => [](kind = "export" => WorkInv)
  BY <1>1, WorkStep, TypeCorrect, OneOpen, PTL DEF Spec
<1>3. TypeInv /\ (kind = "export" => WorkInv) => OpenExportIsWorkedOn
  <2> SUFFICES ASSUME TypeInv, WorkInv, NEW q \in Jobs, status[q] \in Open, q \notin cut
               PROVE  \/ \E c \in Clients : client[c] = [stage |-> "enqueuing", req |-> q]
                      \/ phase[q] \in {"waiting", "held"}
                      \/ \E n \in working[q] : at[q][n] \in {"writing", "recording"}
                      \/ ~handled /\ status[q] = "scheduled" /\ phase[q] = "dead_letter"
    BY DEF OpenExportIsWorkedOn
  <2>1. CASE status[q] = "processing"
    BY <2>1 DEF WorkInv, ProcessingWrites, Writes
  <2>2. CASE status[q] = "scheduled" /\ Creating(q)
    <3>1. PICK c \in Clients : client[c].stage = "enqueuing" /\ client[c].req = q
      BY <2>2 DEF Creating, In
    <3>2. client[c] \in Calls
      BY DEF TypeInv, TypeOK
    <3>3. client[c] = [stage |-> "enqueuing", req |-> q]
      BY <3>1, <3>2 DEF Calls
    <3> QED
      BY <3>3
  <2> QED
    BY <2>1, <2>2 DEF WorkInv, ScheduledWaits, Open
<1> QED
  BY <1>2, <1>3, TypeCorrect, PTL

=============================================================================
