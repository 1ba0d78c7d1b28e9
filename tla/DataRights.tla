---------------------------- MODULE DataRights -----------------------------
(***************************************************************************)
(* The data rights requests of one user (dataRightsService), and the       *)
(* export handler that the worker runs for them (privacyExportJobService), *)
(* over the durable job queue.  The job of a request has the dedupe key    *)
(* data-rights:<request>, so requests and jobs share their names.  Exports *)
(* and deletions never touch each other's rows: a behaviour is about one   *)
(* kind.                                                                   *)
(*                                                                         *)
(* Every database or file call is one step; leases lapse while an export   *)
(* is running, clients and workers die, calls are rejected.                *)
(***************************************************************************)
EXTENDS JobRuns, FiniteSets

CONSTANTS
    Clients,     \* HTTP requests in flight
    None

ASSUME NoneAssumption == None \notin Jobs

VARIABLES
    kind,      \* "export" or "deletion", fixed
    handled,   \* the export handler is registered (PRIVACY_EXPORT_EXECUTOR_ENABLED), fixed
    status,    \* status[q]: the DataRightsRequest row
    due,       \* due[q]: executeAfter has passed
    ref,       \* ref[q]: artifactRef, as the execution that made it; 0 for none
    files,     \* files[q]: the executions whose artifact is on disk
    at,        \* at[q][n]: where the n-th execution of q's job is
    client,    \* client[c]: where an HTTP request is
    cut        \* requests that lost their creator, or an execution, to a fault

vars == <<phase, holder, working, kind, handled, status, due, ref, files, at, client, cut>>
rows == <<kind, handled, status, due, ref, files>>

Statuses   == {"absent", "scheduled", "processing", "completed", "cancelled"}
Open       == {"scheduled", "processing"}
ExecStages == {"none", "reading", "marking", "writing", "recording", "succeeding", "refusing"}
Calls      == [stage : {"idle", "inserting", "enqueuing", "cancelling", "withdrawing"},
               req : Jobs \cup {None}]
Idle       == [stage |-> "idle", req |-> None]

Init ==
    /\ QueueInit
    /\ kind \in {"export", "deletion"}
    /\ handled \in BOOLEAN
    /\ status = [q \in Jobs |-> "absent"]
    /\ due = [q \in Jobs |-> FALSE]
    /\ ref = [q \in Jobs |-> 0]
    /\ files = [q \in Jobs |-> {}]
    /\ at = [q \in Jobs |-> [n \in Claims |-> "none"]]
    /\ client = [c \in Clients |-> Idle]
    /\ cut = {}

-----------------------------------------------------------------------------
(* createDataRightsRequest and cancelDeletionRequest. *)
Call(c, stage, q) == client' = [client EXCEPT ![c] = [stage |-> stage, req |-> q]]
Return(c) == client' = [client EXCEPT ![c] = Idle]
In(c, stage) == client[c].stage = stage

OpenRequest == \E q \in Jobs : status[q] \in Open

(* An open request of the kind would be returned as it is, even when nobody    *)
(* works on it.  q is the id the new row will get.                             *)
FindOpen(c, q) ==
    /\ In(c, "idle") /\ status[q] = "absent" /\ \A d \in Clients : client[d].req # q
    /\ ~OpenRequest
    /\ Call(c, "inserting", q)
    /\ UNCHANGED <<queue, rows, at, cut>>

BadInsert(c) ==
    /\ In(c, "inserting")
    /\ LET q == client[c].req
       IN  /\ status' = [status EXCEPT ![q] = "scheduled"]
           /\ due' = [due EXCEPT ![q] = kind = "export"]
           /\ Call(c, "enqueuing", q)
    /\ UNCHANGED <<queue, kind, handled, ref, files, at, cut>>

(* The partial unique index admits one open row of a kind; whoever comes second *)
(* returns the first one's.                                                     *)
Insert(c) ==
    /\ In(c, "inserting")
    /\ LET q == client[c].req
       IN  IF OpenRequest
           THEN Return(c) /\ UNCHANGED <<status, due>>
           ELSE /\ status' = [status EXCEPT ![q] = "scheduled"]
                /\ due' = [due EXCEPT ![q] = kind = "export"]
                /\ Call(c, "enqueuing", q)
    /\ UNCHANGED <<queue, kind, handled, ref, files, at, cut>>

EnqueueRequest(c) ==
    /\ In(c, "enqueuing")
    /\ EnqueueJob(client[c].req)
    /\ Return(c)
    /\ UNCHANGED <<rows, at, cut>>

(* The check of a cancellation, against the clock as it was then, ... *)
CancelRead(c, q) ==
    /\ In(c, "idle") /\ kind = "deletion" /\ status[q] = "scheduled" /\ ~due[q]
    /\ Call(c, "cancelling", q)
    /\ UNCHANGED <<queue, rows, at, cut>>

(* ... the compare-and-set, ... *)
CancelWrite(c) ==
    /\ In(c, "cancelling")
    /\ LET q == client[c].req
       IN  IF status[q] = "scheduled"
           THEN status' = [status EXCEPT ![q] = "cancelled"] /\ Call(c, "withdrawing", q)
           ELSE Return(c) /\ UNCHANGED status
    /\ UNCHANGED <<queue, kind, handled, due, ref, files, at, cut>>

(* ... and the job, which a worker may have claimed, or the creating call not   *)
(* have enqueued yet.                                                           *)
CancelJob(c) ==
    /\ In(c, "withdrawing")
    /\ WithdrawJob(client[c].req)
    /\ Return(c)
    /\ UNCHANGED <<rows, at, cut>>

(* A call throws, or the web process dies. *)
ClientFails(c) ==
    /\ ~In(c, "idle")
    /\ cut' = IF In(c, "enqueuing") THEN cut \cup {client[c].req} ELSE cut
    /\ Return(c)
    /\ UNCHANGED <<queue, rows, at>>

BecomesDue(q) ==
    /\ status[q] # "absent" /\ ~due[q]
    /\ due' = [due EXCEPT ![q] = TRUE]
    /\ UNCHANGED <<queue, kind, handled, status, ref, files, at, client, cut>>

-----------------------------------------------------------------------------
(* The worker.  A job without a handler is a dead letter before anything is    *)
(* read: a deletion always, an export unless its handler is enabled, which by  *)
(* default it is not.                                                          *)
HasHandler == kind = "export" /\ handled

StartJob(q) ==
    /\ due[q]
    /\ ClaimJob(q)
    /\ at' = [at EXCEPT ![q][holder[q] + 1] = IF HasHandler THEN "reading" ELSE "refusing"]
    /\ UNCHANGED <<rows, client, cut>>

LeaseLapses(q) ==
    /\ LapseJob(q)
    /\ UNCHANGED <<rows, at, client, cut>>

Step(q, n, from, to) == at[q][n] = from /\ at' = [at EXCEPT ![q][n] = to]
End(q, n, from) == Step(q, n, from, "none")

BadReadRequest(q, n) ==
    /\ Step(q, n, "reading", IF status[q] = "processing" THEN "marking" ELSE "refusing")
    /\ UNCHANGED <<queue, rows, client, cut>>

(* executePrivacyExport: the check, ... *)
ReadRequest(q, n) ==
    /\ Step(q, n, "reading", IF status[q] \in Open THEN "marking" ELSE "refusing")
    /\ UNCHANGED <<queue, rows, client, cut>>

OtherOpen(q) == \E p \in Jobs \ {q} : status[p] \in Open

(* ... processing, written by id, ... *)
MarkProcessing(q, n) ==
    /\ ~OtherOpen(q)
    /\ Step(q, n, "marking", "writing")
    /\ status' = [status EXCEPT ![q] = "processing"]
    /\ UNCHANGED <<queue, kind, handled, due, ref, files, client, cut>>

(* ... unless another export is open by now: the index makes the update throw, *)
(* and the attempt has failed; ...                                             *)
IndexRefuses(q, n) ==
    /\ OtherOpen(q)
    /\ End(q, n, "marking")
    /\ FailJob(q, n)
    /\ UNCHANGED <<rows, client, cut>>

BadWriteArtifact(q, n) ==
    /\ Step(q, n, "writing", "recording")
    /\ UNCHANGED <<queue, rows, client, cut>>

(* ... the reads and the file, under a fresh name for every execution, ... *)
WriteArtifact(q, n) ==
    /\ Step(q, n, "writing", "recording")
    /\ files' = [files EXCEPT ![q] = @ \cup {n}]
    /\ UNCHANGED <<queue, kind, handled, status, due, ref, client, cut>>

BadRecordArtifact(q, n) ==
    /\ Step(q, n, "recording", "succeeding")
    /\ ref' = [ref EXCEPT ![q] = n]
    /\ UNCHANGED <<queue, kind, handled, status, due, files, client, cut>>

(* ... the row, by id, ... *)
RecordArtifact(q, n) ==
    /\ Step(q, n, "recording", "succeeding")
    /\ status' = [status EXCEPT ![q] = "completed"]
    /\ ref' = [ref EXCEPT ![q] = n]
    /\ UNCHANGED <<queue, kind, handled, due, files, client, cut>>

(* ... and the verdict. *)
Succeed(q, n) ==
    /\ End(q, n, "succeeding")
    /\ ConcludeJob(q, n, "succeeded")
    /\ UNCHANGED <<rows, client, cut>>

(* Permanent: the request is not open any more, or nobody handles it. *)
Refuse(q, n) ==
    /\ End(q, n, "refusing")
    /\ ConcludeJob(q, n, "dead_letter")
    /\ UNCHANGED <<rows, client, cut>>

(* A call of the execution throws, which the queue takes for a transient        *)
(* failure, or its worker dies.                                                 *)
ExecutionFails(q, n) ==
    /\ at[q][n] # "none"
    /\ at' = [at EXCEPT ![q][n] = "none"]
    /\ FailJob(q, n) \/ StopJob(q, n)
    /\ cut' = cut \cup {q}
    /\ UNCHANGED <<rows, client>>

ClientProceeds(c) == Insert(c) \/ EnqueueRequest(c) \/ CancelWrite(c) \/ CancelJob(c)

Run(q, n) ==
    \/ ReadRequest(q, n) \/ MarkProcessing(q, n) \/ IndexRefuses(q, n) \/ WriteArtifact(q, n)
    \/ RecordArtifact(q, n) \/ Succeed(q, n) \/ Refuse(q, n)

Next ==
    \/ \E c \in Clients, q \in Jobs : FindOpen(c, q) \/ CancelRead(c, q)
    \/ \E c \in Clients : ClientProceeds(c) \/ ClientFails(c)
    \/ \E q \in Jobs : BecomesDue(q) \/ StartJob(q) \/ LeaseLapses(q)
    \/ \E q \in Jobs, n \in Claims : Run(q, n) \/ ExecutionFails(q, n)

Spec == Init /\ [][Next]_vars

(* Awaited calls return or throw, time passes, and the queue does its part. *)
Fairness ==
    /\ \A c \in Clients : WF_vars(ClientProceeds(c))
    /\ \A q \in Jobs :
          WF_vars(BecomesDue(q)) /\ WF_vars(StartJob(q)) /\ WF_vars(Orphan(q) /\ LeaseLapses(q))
    /\ \A q \in Jobs, n \in Claims : WF_vars(Run(q, n))

FairSpec == Spec /\ Fairness

-----------------------------------------------------------------------------
(* Properties. *)

(* Every variable holds values of its kind. *)
TypeOK ==
    /\ QueueTypeOK
    /\ kind \in {"export", "deletion"}
    /\ handled \in BOOLEAN
    /\ status \in [Jobs -> Statuses]
    /\ due \in [Jobs -> BOOLEAN]
    /\ ref \in [Jobs -> 0..MaxClaims]
    /\ files \in [Jobs -> SUBSET Claims]
    /\ at \in [Jobs -> [Claims -> ExecStages]]
    /\ client \in [Clients -> Calls]
    /\ cut \subseteq Jobs

(* A user has at most one open request of a kind, though two calls may both    *)
(* have found none, and an overtaken execution may mark an export as           *)
(* processing after it was completed and the next one requested.               *)
OneOpenRequest ==
    \A p, q \in Jobs : status[p] \in Open /\ status[q] \in Open => p = q

(* A completed export names an artifact that is on disk, whichever of several   *)
(* executions recorded theirs last.                                             *)
CompletedHasArtifact ==
    \A q \in Jobs : status[q] = "completed" => ref[q] \in files[q]

(* An open export is being created or worked on, waits for a worker, or lost    *)
(* its creator or an execution to a fault.  Only where no handler is registered *)
(* is one left open for good without a fault, its job a dead letter.            *)
OpenExportIsWorkedOn ==
    \A q \in Jobs : kind = "export" /\ status[q] \in Open =>
        \/ \E c \in Clients : client[c] = [stage |-> "enqueuing", req |-> q]
        \/ phase[q] \in {"waiting", "held"}
        \/ \E n \in working[q] : at[q][n] \in {"writing", "recording"}
        \/ q \in cut
        \/ ~handled /\ status[q] = "scheduled" /\ phase[q] = "dead_letter"

(* An export whose job is in the queue is completed, unless an execution fails  *)
(* and its job is out of attempts, or no handler is registered.                 *)
EnqueuedExportCompletes ==
    \A q \in Jobs :
        kind = "export" /\ phase[q] = "waiting" ~>
            \/ status[q] = "completed"
            \/ phase[q] = "dead_letter" /\ (q \in cut \/ ~handled)
            \/ holder[q] = MaxClaims

=============================================================================
