---------------------------- MODULE BookingSync ----------------------------
(***************************************************************************)
(* One booking made through Cal.com, and its three writers: the agent's    *)
(* call (calComProvider), the job of every lifecycle event the provider    *)
(* delivers, and the reconciliation job which that one enqueues            *)
(* (calComWebhookService), over the durable job queue.                     *)
(*                                                                         *)
(* A version is what the provider holds after a change: times, status and  *)
(* uid.  A reschedule may give the booking a new uid; the old one then     *)
(* names the superseded booking.  An event tells of one version; events    *)
(* are delivered late, in any order and several times, or never.  A row is *)
(* named by the version whose call made it (its idempotency key); events   *)
(* carry the key of the call that booked, which is 1.                      *)
(***************************************************************************)
EXTENDS JobRuns, FiniteSets

CONSTANTS
    LastVersion,
    MaxRunning,    \* bound: executions in progress
    MaxFaults      \* bound: calls cut short, leases lapsed on the living, connections lost

BookingVersions == 1..LastVersion

ASSUME BoundsAssumption == LastVersion \in Nat \ {0} /\ MaxRunning \in Nat /\ MaxFaults \in Nat
ASSUME JobsAssumption == Jobs = {"webhook", "reconciliation"} \X BookingVersions

VARIABLES
    truth,        \* the provider's version; 0 before the booking is made
    uid,          \* uid[v]: the uid of version v, named by the first version to bear it
    appointment,  \* appointment[k]: version in the Appointment row of key k; 0 for no row
    life,         \* life[k]: likewise the LifeTransaction row
    connected,    \* the Cal.com connection is active
    agent,        \* the agent's call in progress, with the version it was answered
    place,        \* place[j][n]: the n-th execution of j, with the row and the version to write
    raced,        \* two writers overlapped, or an event's job ran again
    astray,       \* none raced, and the last execution to start was about a replaced uid
    faults        \* faults so far

bookingVars == <<phase, holder, working, truth, uid, appointment, life, connected, agent, place,
                 raced, astray, faults>>
rows == <<appointment, life>>

Webhook(v)        == <<"webhook", v>>
Reconciliation(v) == <<"reconciliation", v>>
Event(j)          == j[2]

BookingStages == {"none", "finding", "enqueuing", "connecting", "fetching", "appointing",
                  "living", "succeeding"}
Places == [stage : BookingStages, row : 0..LastVersion, version : 0..LastVersion]
Place(stage, k, v) == [stage |-> stage, row |-> k, version |-> v]
Nowhere == Place("none", 0, 0)

Uids == {f \in [BookingVersions -> BookingVersions] :
            f[1] = 1 /\ \A v \in 2..LastVersion : f[v] \in {f[v - 1], v}}

Unbooked == [k \in BookingVersions |-> 0]

(* The rows that bear the uid of version v; and those an event of v reaches,   *)
(* by uid or by key.                                                           *)
Bearing(table, v)  == {k \in BookingVersions : table[k] # 0 /\ uid[table[k]] = uid[v]}
Reached(table, v) == {k \in BookingVersions : table[k] # 0 /\ (k = 1 \/ uid[table[k]] = uid[v])}
FirstOf(rowset)    == IF rowset = {} THEN {0} ELSE rowset     \* findFirst: any, 0 for none
Written(table, rowset, v) == [k \in BookingVersions |-> IF k \in rowset THEN v ELSE table[k]]

BookingInit ==
    /\ QueueInit
    /\ truth = 0 /\ uid \in Uids
    /\ appointment = Unbooked /\ life = Unbooked
    /\ connected = TRUE
    /\ agent = Nowhere
    /\ place = [j \in Jobs |-> [n \in Claims |-> Nowhere]]
    /\ raced = FALSE /\ astray = FALSE /\ faults = 0

Executing == {e \in Jobs \X Claims : e[2] \in working[e[1]]}
Busy      == agent # Nowhere \/ Executing # {}
Fault     == faults < MaxFaults /\ faults' = faults + 1

-----------------------------------------------------------------------------
(* The agent's approved call, and the provider. *)

(* The call books, or reschedules or cancels the booking of the current uid,   *)
(* and is answered.                                                            *)
Request ==
    /\ agent = Nowhere /\ connected /\ truth < LastVersion
    /\ truth' = truth + 1
    /\ agent' = Place("finding", 0, truth + 1)
    /\ raced' = (raced \/ Busy)
    /\ UNCHANGED <<queue, rows, connected, place, uid, astray, faults>>

Prior(table) == IF agent.version = 1 THEN {} ELSE Bearing(table, agent.version - 1)

(* syncBooking looks for the appointment by the uid it was called with, ...    *)
SyncFind ==
    /\ agent.stage = "finding"
    /\ \E k \in FirstOf(Prior(appointment)) : agent' = Place("appointing", k, agent.version)
    /\ UNCHANGED <<queue, truth, rows, connected, place, uid, raced, astray, faults>>

(* ... writes the answer to it, or makes the row of its own key, except that a *)
(* cancellation answered without times then ends here, ...                     *)
SyncAppointment ==
    LET k == IF agent.row = 0 THEN agent.version ELSE agent.row
    IN  /\ agent.stage = "appointing"
        /\ \/ /\ appointment' = Written(appointment, {k}, agent.version)
              /\ agent' = Place("living", 0, agent.version)
           \/ /\ agent.row = 0 /\ agent.version > 1
              /\ agent' = Nowhere /\ UNCHANGED appointment
        /\ UNCHANGED <<queue, truth, life, connected, place, uid, raced, astray, faults>>

(* ... and every life transaction of that uid, or makes one.                   *)
SyncLife ==
    LET those == IF Prior(life) = {} THEN {agent.version} ELSE Prior(life)
    IN  /\ agent.stage = "living"
        /\ life' = Written(life, those, agent.version)
        /\ agent' = Nowhere
        /\ UNCHANGED <<queue, truth, appointment, connected, place, uid, raced, astray, faults>>

(* The answer is lost, or a write throws, or the process dies. *)
AgentFails ==
    /\ agent # Nowhere /\ Fault
    /\ agent' = Nowhere
    /\ UNCHANGED <<queue, truth, rows, connected, place, uid, raced, astray>>

(* The user, or the host, changes the booking at Cal.com. *)
ProviderChanges ==
    /\ truth \in 1..(LastVersion - 1)
    /\ truth' = truth + 1
    /\ UNCHANGED <<queue, rows, connected, agent, place, uid, raced, astray, faults>>

ConnectionChanges ==
    /\ connected' = ~connected
    /\ IF connected THEN Fault ELSE UNCHANGED faults
    /\ UNCHANGED <<queue, truth, rows, agent, place, uid, raced, astray>>

(* acceptCalComWebhook: the key is the content's hash. *)
Deliver(v) ==
    /\ v <= truth
    /\ EnqueueJob(Webhook(v))
    /\ UNCHANGED <<truth, rows, connected, agent, place, uid, raced, astray, faults>>

-----------------------------------------------------------------------------
(* The worker. *)
StartJob(j) ==
    /\ ClaimJob(j) /\ Cardinality(Executing) < MaxRunning
    /\ place' = [place EXCEPT ![j][holder[j] + 1] = Place("finding", 0, 0)]
    /\ raced' = (raced \/ Busy
                   \/ (j = Webhook(Event(j)) /\ phase[Reconciliation(Event(j))] # "absent"))
    /\ astray' = (~raced' /\ uid[Event(j)] # uid[truth])
    /\ UNCHANGED <<truth, rows, connected, agent, uid, faults>>

LeaseLapses(j) ==
    /\ LapseJob(j)
    /\ IF Orphan(j) THEN UNCHANGED faults ELSE Fault
    /\ UNCHANGED <<truth, rows, connected, agent, place, uid, raced, astray>>

Moves(j, n, from, stage, k, v) ==
    /\ place[j][n].stage = from
    /\ place' = [place EXCEPT ![j][n] = Place(stage, k, v)]
Leaves(j, n, from) == Moves(j, n, from, "none", 0, 0)
Outside == <<truth, connected, agent, uid, raced, astray, faults>>

(* The handler of an event looks for the booking, ... *)
FindBooking(v, n) ==
    /\ \E k \in FirstOf(Reached(appointment, v)) :
           Moves(Webhook(v), n, "finding", "enqueuing", k, v)
    /\ UNCHANGED <<queue, rows, Outside>>

BadEnqueueReconciliation(v, n) ==
    LET found == place[Webhook(v)][n].row
        to    == IF found = 0 THEN "succeeding" ELSE "appointing"
    IN  /\ Moves(Webhook(v), n, "enqueuing", to, found, v)
        /\ IF found = 0 THEN EnqueueJob(Reconciliation(v)) ELSE UNCHANGED queue
        /\ UNCHANGED <<rows, Outside>>

(* ... enqueues the reconciliation, whether it was found or not, ... *)
EnqueueReconciliation(v, n) ==
    LET found == place[Webhook(v)][n].row
        to    == IF found = 0 THEN "succeeding" ELSE "appointing"
    IN  /\ Moves(Webhook(v), n, "enqueuing", to, found, v)
        /\ EnqueueJob(Reconciliation(v))
        /\ UNCHANGED <<rows, Outside>>

(* ... and then writes what the event says.  The reconciliation looks for the  *)
(* booking too, ...                                                            *)
FindCorrelation(v, n) ==
    LET j == Reconciliation(v)
    IN  /\ \/ /\ Reached(appointment, v) = {}
              /\ Leaves(j, n, "finding") /\ FailJob(j, n)
           \/ /\ \E k \in Reached(appointment, v) :
                     Moves(j, n, "finding", "connecting", k, 0)
              /\ UNCHANGED queue
        /\ UNCHANGED <<rows, Outside>>

(* ... needs the connection, ... *)
CheckConnection(v, n) ==
    LET j == Reconciliation(v)
    IN  /\ IF connected
           THEN Moves(j, n, "connecting", "fetching", place[j][n].row, 0) /\ UNCHANGED queue
           ELSE Leaves(j, n, "connecting") /\ FailJob(j, n)
        /\ UNCHANGED <<rows, Outside>>

BadFetch(v, n) ==
    /\ Moves(Reconciliation(v), n, "fetching", "appointing", place[Reconciliation(v)][n].row, v)
    /\ UNCHANGED <<queue, rows, Outside>>

(* ... and asks the provider for the booking of the event's uid: the current   *)
(* version if that uid is current, and else what has become of the superseded  *)
(* one, for which its last version stands.  (An error, or the kill switch,     *)
(* ends it as ExecutionFails does.)                                            *)
Fetch(v, n) ==
    /\ \E w \in v..truth :
           /\ uid[w] = uid[v] /\ \A u \in w..truth : uid[u] = uid[v] => u = w
           /\ Moves(Reconciliation(v), n, "fetching", "appointing", place[Reconciliation(v)][n].row, w)
    /\ UNCHANGED <<queue, rows, Outside>>

(* Both write the appointment they have found, whatever it holds by now, with  *)
(* the uid the version has, ...                                                *)
WriteAppointment(j, n) ==
    LET p == place[j][n]
    IN  /\ Moves(j, n, "appointing", "living", p.row, p.version)
        /\ appointment' = Written(appointment, {p.row}, p.version)
        /\ UNCHANGED <<queue, life, Outside>>

(* ... and every life transaction of the uid or the key. *)
WriteLife(j, n) ==
    /\ Moves(j, n, "living", "succeeding", 0, 0)
    /\ life' = Written(life, Reached(life, Event(j)), place[j][n].version)
    /\ UNCHANGED <<queue, appointment, Outside>>

Succeed(j, n) ==
    /\ Leaves(j, n, "succeeding")
    /\ ConcludeJob(j, n, "succeeded")
    /\ UNCHANGED <<rows, Outside>>

(* A call of the execution throws or asks for a retry, or its worker dies. *)
ExecutionFails(j, n) ==
    /\ place[j][n] # Nowhere /\ Fault
    /\ place' = [place EXCEPT ![j][n] = Nowhere]
    /\ FailJob(j, n) \/ StopJob(j, n)
    /\ UNCHANGED <<rows, truth, connected, agent, uid, raced, astray>>

Run(j, n) ==
    \/ j = Webhook(Event(j)) /\ (FindBooking(Event(j), n) \/ EnqueueReconciliation(Event(j), n))
    \/ /\ j = Reconciliation(Event(j))
       /\ FindCorrelation(Event(j), n) \/ CheckConnection(Event(j), n) \/ Fetch(Event(j), n)
    \/ WriteAppointment(j, n) \/ WriteLife(j, n) \/ Succeed(j, n)

BookingNext ==
    \/ Request \/ SyncFind \/ SyncAppointment \/ SyncLife \/ AgentFails
    \/ ProviderChanges \/ ConnectionChanges
    \/ \E v \in BookingVersions : Deliver(v)
    \/ \E j \in Jobs : StartJob(j) \/ LeaseLapses(j)
    \/ \E j \in Jobs, n \in Claims : Run(j, n) \/ ExecutionFails(j, n)

BookingSpec == BookingInit /\ [][BookingNext]_bookingVars

(* Awaited calls return or throw, and the queue does its part.  Nothing is     *)
(* asked of the provider: an event may never come.                             *)
BookingFairness ==
    /\ \A j \in Jobs : WF_bookingVars(StartJob(j)) /\ WF_bookingVars(Orphan(j) /\ LeaseLapses(j))
    /\ \A j \in Jobs, n \in Claims : WF_bookingVars(Run(j, n))

BookingFairSpec == BookingSpec /\ BookingFairness

-----------------------------------------------------------------------------
(* Properties. *)

(* Nobody is at work, and every version's event and reconciliation succeeded. *)
AllHandled == ~Busy /\ \A v \in 1..truth :
    phase[Webhook(v)] = "succeeded" /\ phase[Reconciliation(v)] = "succeeded"

(* An appointment row is the provider's booking, and so is every life          *)
(* transaction that bears its uid or its key.                                  *)
Agrees ==
    /\ \E k \in BookingVersions : appointment[k] = truth
    /\ \A k \in Reached(life, truth) : life[k] = truth

(* Events may come late, out of order and twice, about uids that have been     *)
(* replaced, and the agent's own call may have been cut short: once all events *)
(* are handled the booking shown is the provider's, unless two writers         *)
(* overlapped, an event's job ran again after it had enqueued the              *)
(* reconciliation that was to correct it, or the last job to run was about a   *)
(* uid that a reschedule had replaced.                                         *)
SerialRunsConverge == truth > 0 /\ AllHandled /\ ~raced /\ ~astray => Agrees

(* A delivered event ends in a reconciliation that has asked the provider,     *)
(* unless one of the two jobs runs out of attempts.                            *)
DeliveredIsReconciled ==
    \A v \in BookingVersions :
        phase[Webhook(v)] = "waiting" ~>
            \/ phase[Reconciliation(v)] = "succeeded"
            \/ \E j \in {Webhook(v), Reconciliation(v)} :
                   phase[j] = "dead_letter" \/ holder[j] = MaxClaims

(* No event is done with before its reconciliation is asked for, and what a    *)
(* reconciliation will write is never older than its event.                    *)
EventsAreFollowedUp ==
    \A v \in BookingVersions :
        /\ phase[Webhook(v)] = "succeeded" => phase[Reconciliation(v)] # "absent"
        /\ \A n \in Claims :
               place[Reconciliation(v)][n].stage \in {"appointing", "living"} =>
                   place[Reconciliation(v)][n].version \in v..truth
=============================================================================
