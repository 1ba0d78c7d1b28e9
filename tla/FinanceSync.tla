---------------------------- MODULE FinanceSync ----------------------------
(***************************************************************************)
(* One user's Plaid connection and what is kept of the account behind it:  *)
(* synchronisations (plaidProvider), run for an agent or by the            *)
(* reconciliation job of a webhook event, the events' own jobs             *)
(* (plaidWebhookService, the inbox of providerDeliveryService), and the    *)
(* user's validation, test, update and disconnect of the connection        *)
(* (providerConnectionService), over the durable job queue.                *)
(*                                                                         *)
(* The provider's transactions are a sequence of updates to one            *)
(* transaction; a cursor is the number of updates before it.  The status   *)
(* "error" stands for expired, revoked and disabled as well.               *)
(***************************************************************************)
EXTENDS JobRuns, FiniteSets

CONSTANTS
    Events,
    AgentSync,     \* the synchronisation an agent asks for
    MaxUpdates,    \* bound: updates at the provider
    MaxRunning,    \* bound: calls and executions in progress
    MaxFaults      \* bound: errors, deaths and leases lapsed on the living

ASSUME BoundsAssumption == MaxUpdates \in Nat /\ MaxRunning \in Nat /\ MaxFaults \in Nat
ASSUME JobsAssumption == Jobs = {"webhook", "reconciliation"} \X Events
ASSUME AgentSyncAssumption == AgentSync \notin Jobs \X Claims

VARIABLES
    truth,      \* updates at the provider
    status,     \* of the ProviderConnection; "gone" once deleted
    cursor,     \* syncCursor in its metadata
    account,    \* a FinancialAccount row exists
    stored,     \* the update the stored transaction is at
    inbox,      \* inbox[e]: the ProviderWebhookEvent row, and what it tells
    sync,       \* sync[x]: where a synchronisation is, its cursor, the update it fetched
    hook,       \* hook[e][n]: where an event's execution is, and the cursor it read
    check,      \* the validation or test in progress, with the status it read
    removal,    \* where the disconnect is
    broken,     \* somebody else wrote the status while a synchronisation had it locked
    wiped,      \* a disconnect has deleted the account
    dead,       \* a synchronisation died with the lock
    faults

vars == <<phase, holder, working, truth, status, cursor, account, stored, inbox, sync, hook, check,
          removal, broken, wiped, dead, faults>>
data == <<account, stored>>
ghosts == <<broken, wiped, dead>>

Webhook(e)        == <<"webhook", e>>
Reconciliation(e) == <<"reconciliation", e>>
Syncs == ({Reconciliation(e) : e \in Events} \X Claims) \cup {AgentSync}

Statuses  == {"active", "refreshing", "reconnect_required", "error", "gone"}
Cursors   == 0..MaxUpdates
Locked    == {"accounts", "paging", "storing", "finishing"}
Places    == [stage : {"none", "checking", "reading", "locking", "succeeding"} \cup Locked,
              base : Cursors, got : Cursors]
HookPlaces == [stage : {"none", "finding", "acting", "finishing", "succeeding"}, base : Cursors]
Inbox     == [status : {"absent", "received", "processed", "failed"},
              kind : {"updates", "login", "expiring"}, told : Cursors]
NoSync    == [stage |-> "none", base |-> 0, got |-> 0]
NoHook    == [stage |-> "none", base |-> 0]

Init ==
    /\ QueueInit
    /\ truth = 0 /\ status = "active" /\ cursor = 0
    /\ account = FALSE /\ stored = 0
    /\ inbox = [e \in Events |-> [status |-> "absent", kind |-> "updates", told |-> 0]]
    /\ sync = [x \in Syncs |-> NoSync]
    /\ hook = [e \in Events |-> [n \in Claims |-> NoHook]]
    /\ check = "none" /\ removal = "none"
    /\ broken = FALSE /\ wiped = FALSE /\ dead = FALSE
    /\ faults = 0

Holders == {x \in Syncs : sync[x].stage \in Locked}
InProgress ==
    Cardinality({x \in Syncs : sync[x] # NoSync})
        + Cardinality({h \in Events \X Claims : hook[h[1]][h[2]] # NoHook})
        + (IF check = "none" THEN 0 ELSE 1) + (IF removal = "none" THEN 0 ELSE 1)
Room  == InProgress < MaxRunning
Fault == faults < MaxFaults /\ faults' = faults + 1

(* A write of the status by anyone but a holder of the lock. *)
Override(s) ==
    /\ status' = s
    /\ broken' = (broken \/ Holders # {} \/ status = "refreshing" \/ s = "refreshing")

-----------------------------------------------------------------------------
(* plaidProvider.execute.  A synchronisation of a job ends with the job's verdict. *)
Conclude(x, verdict) ==
    IF x = AgentSync THEN UNCHANGED queue ELSE ConcludeJob(x[1], x[2], verdict)
Retry(x) == IF x = AgentSync THEN UNCHANGED queue ELSE FailJob(x[1], x[2])
At(x, stage) == sync[x].stage = stage
Goto(x, stage) == sync' = [sync EXCEPT ![x].stage = stage]
Leave(x) == sync' = [sync EXCEPT ![x] = NoSync]
Beside == <<truth, inbox, hook, check, removal, wiped>>

AgentSyncs ==
    /\ sync[AgentSync] = NoSync /\ Room
    /\ Goto(AgentSync, "reading")
    /\ UNCHANGED <<queue, status, cursor, data, Beside, broken, dead, faults>>

(* The connection and its metadata are read, ... *)
Read(x) ==
    /\ At(x, "reading")
    /\ IF status = "gone"
       THEN Leave(x) /\ Conclude(x, "dead_letter")
       ELSE sync' = [sync EXCEPT ![x] = [@ EXCEPT !.stage = "locking", !.base = cursor]]
            /\ UNCHANGED queue
    /\ UNCHANGED <<status, cursor, data, Beside, broken, dead, faults>>

BadLock(x) ==
    /\ At(x, "locking")
    /\ status' = "refreshing" /\ Goto(x, "accounts")
    /\ UNCHANGED <<queue, cursor, data, Beside, broken, dead, faults>>

BadLockBusy(x) ==
    /\ At(x, "locking")
    /\ IF status = "active"
       THEN status' = "refreshing" /\ Goto(x, "accounts") /\ UNCHANGED queue
       ELSE Leave(x) /\ Conclude(x, "succeeded") /\ UNCHANGED status
    /\ UNCHANGED <<cursor, data, Beside, broken, dead, faults>>

(* ... the lock is taken, ... *)
Lock(x) ==
    /\ At(x, "locking")
    /\ IF status = "active"
       THEN status' = "refreshing" /\ Goto(x, "accounts") /\ UNCHANGED queue
       ELSE Leave(x) /\ Retry(x) /\ UNCHANGED status
    /\ UNCHANGED <<cursor, data, Beside, broken, dead, faults>>

(* ... the accounts are fetched and upserted, ... *)
UpsertAccount(x) ==
    /\ At(x, "accounts") /\ Goto(x, "paging")
    /\ account' = TRUE
    /\ UNCHANGED <<queue, status, cursor, stored, Beside, broken, dead, faults>>

BadFetchPages(x) ==
    /\ At(x, "paging")
    /\ sync' = [sync EXCEPT ![x] = [@ EXCEPT !.stage = "storing", !.got = truth]]
    /\ cursor' = truth
    /\ UNCHANGED <<queue, status, data, Beside, broken, dead, faults>>

(* ... all pages after the cursor are fetched, from the start again if the      *)
(* provider changes in between, ...                                             *)
FetchPages(x) ==
    /\ At(x, "paging")
    /\ sync' = [sync EXCEPT ![x] = [@ EXCEPT !.stage = "storing", !.got = truth]]
    /\ UNCHANGED <<queue, status, cursor, data, Beside, broken, dead, faults>>

(* ... the transactions stored, which refer to their account, ... *)
Store(x) ==
    /\ At(x, "storing") /\ (sync[x].got > sync[x].base => account)
    /\ Goto(x, "finishing")
    /\ stored' = IF sync[x].got > sync[x].base THEN sync[x].got ELSE stored
    /\ UNCHANGED <<queue, status, cursor, account, Beside, broken, dead, faults>>

(* ... and the status and the whole metadata written, by id. *)
Finish(x) ==
    /\ At(x, "finishing") /\ status # "gone"
    /\ Goto(x, "succeeding")
    /\ status' = "active"
    /\ cursor' = sync[x].got
    /\ UNCHANGED <<queue, data, Beside, broken, dead, faults>>

Succeed(x) ==
    /\ At(x, "succeeding") /\ Leave(x)
    /\ Conclude(x, "succeeded")
    /\ UNCHANGED <<status, cursor, data, Beside, broken, dead, faults>>

(* The catch releases the lock, whoever has it. *)
Release(x) ==
    /\ status' = IF status = "refreshing" THEN "active" ELSE status
    /\ broken' = (broken \/ Holders \ {x} # {})

(* The account, or the connection, is gone under the synchronisation: it throws. *)
RowMissing(x) ==
    /\ \/ At(x, "storing") /\ sync[x].got > sync[x].base /\ ~account
       \/ At(x, "finishing") /\ status = "gone"
    /\ Release(x) /\ Leave(x) /\ Retry(x)
    /\ UNCHANGED <<cursor, data, Beside, dead, faults>>

BadSyncFails(x) ==
    /\ sync[x].stage \in Locked \cup {"reading", "locking"} /\ Fault
    /\ Leave(x) /\ Retry(x)
    /\ UNCHANGED <<status, cursor, data, Beside, broken, dead>>

(* Any call of it throws. *)
SyncFails(x) ==
    /\ sync[x].stage \in Locked \cup {"reading", "locking"} /\ Fault
    /\ Release(x) /\ Leave(x) /\ Retry(x)
    /\ UNCHANGED <<cursor, data, Beside, dead>>

(* Plaid asks for a new login: the status is overwritten, and nothing retried. *)
LoginRequired(x) ==
    /\ sync[x].stage \in {"accounts", "paging"} /\ Fault
    /\ status' = IF status = "gone" THEN "gone" ELSE "reconnect_required"
    /\ broken' = (broken \/ Holders \ {x} # {})
    /\ Leave(x) /\ Conclude(x, "dead_letter")
    /\ UNCHANGED <<cursor, data, Beside, dead>>

(* Nobody releases the lock of a synchronisation that dies. *)
SyncDies(x) ==
    /\ ~At(x, "none") /\ Fault
    /\ dead' = (dead \/ x \in Holders)
    /\ Leave(x)
    /\ IF x = AgentSync THEN UNCHANGED queue ELSE StopJob(x[1], x[2])
    /\ UNCHANGED <<status, cursor, data, Beside, broken>>

SyncStep(x) ==
    \/ Read(x) \/ Lock(x) \/ UpsertAccount(x) \/ FetchPages(x) \/ Store(x) \/ Finish(x)
    \/ Succeed(x) \/ RowMissing(x) \/ SyncFails(x) \/ LoginRequired(x) \/ SyncDies(x)

-----------------------------------------------------------------------------
(* acceptPlaidWebhook and the worker. *)
Rest == <<truth, data, check, removal, wiped, dead>>

ProviderUpdates ==
    /\ truth < MaxUpdates
    /\ truth' = truth + 1
    /\ UNCHANGED <<queue, status, cursor, data, inbox, sync, hook, check, removal, ghosts, faults>>

(* An event of a known item enters the inbox, ... *)
Receive(e, kind) ==
    /\ inbox[e].status = "absent" /\ status # "gone"
    /\ inbox' = [inbox EXCEPT ![e] = [status |-> "received", kind |-> kind, told |-> truth]]
    /\ UNCHANGED <<queue, status, cursor, sync, hook, Rest, broken, faults>>

(* ... and its job the queue: by this delivery or a later one, which goes this  *)
(* far though the inbox knows the event.                                        *)
EnqueueEvent(e) ==
    /\ inbox[e].status # "absent"
    /\ EnqueueJob(Webhook(e))
    /\ UNCHANGED <<status, cursor, inbox, sync, hook, Rest, broken, faults>>

StartWebhook(e) ==
    /\ Room /\ ClaimJob(Webhook(e))
    /\ hook' = [hook EXCEPT ![e][holder[Webhook(e)] + 1].stage = "finding"]
    /\ UNCHANGED <<status, cursor, inbox, sync, Rest, broken, faults>>

StartReconciliation(e) ==
    /\ Room /\ ClaimJob(Reconciliation(e))
    /\ sync' = [sync EXCEPT ![<<Reconciliation(e), holder[Reconciliation(e)] + 1>>].stage = "checking"]
    /\ UNCHANGED <<status, cursor, inbox, hook, Rest, broken, faults>>

LeaseLapses(j) ==
    /\ LapseJob(j)
    /\ IF Orphan(j) THEN UNCHANGED faults ELSE Fault
    /\ UNCHANGED <<status, cursor, inbox, sync, hook, Rest, broken>>

HookAt(e, n, stage) == hook[e][n].stage = stage
HookGoto(e, n, stage) == hook' = [hook EXCEPT ![e][n].stage = stage]
HookLeaves(e, n) == hook' = [hook EXCEPT ![e][n] = NoHook]
Settle(e, s) == inbox' = [inbox EXCEPT ![e].status = s]

FindConnection(e, n) ==
    /\ HookAt(e, n, "finding")
    /\ IF status = "gone"
       THEN HookLeaves(e, n) /\ Settle(e, "failed") /\ ConcludeJob(Webhook(e), n, "dead_letter")
       ELSE /\ hook' = [hook EXCEPT ![e][n] = [stage |-> "acting", base |-> cursor]]
            /\ UNCHANGED <<queue, inbox>>
    /\ UNCHANGED <<status, cursor, sync, Rest, broken, faults>>

(* What the event asks for, by id: the consent warning with the metadata as it *)
(* was read, the status, or a reconciliation.                                   *)
Act(e, n) ==
    /\ HookAt(e, n, "acting")
    /\ inbox[e].kind \in {"login", "expiring"} => status # "gone"
    /\ HookGoto(e, n, "finishing")
    /\ cursor' = IF inbox[e].kind = "expiring" THEN hook[e][n].base ELSE cursor
    /\ IF inbox[e].kind = "login" THEN Override("reconnect_required") ELSE UNCHANGED <<status, broken>>
    /\ IF inbox[e].kind = "updates" THEN EnqueueJob(Reconciliation(e)) ELSE UNCHANGED queue
    /\ UNCHANGED <<inbox, sync, Rest, faults>>

FinishEvent(e, n) ==
    /\ HookAt(e, n, "finishing") /\ HookGoto(e, n, "succeeding")
    /\ Settle(e, "processed")
    /\ UNCHANGED <<queue, status, cursor, sync, Rest, broken, faults>>

SucceedEvent(e, n) ==
    /\ HookAt(e, n, "succeeding") /\ HookLeaves(e, n)
    /\ ConcludeJob(Webhook(e), n, "succeeded")
    /\ UNCHANGED <<status, cursor, inbox, sync, Rest, broken, faults>>

(* The row it writes is gone, a call throws, or the worker dies. *)
EventFails(e, n) ==
    /\ hook[e][n] # NoHook
    /\ \/ Fault
       \/ HookAt(e, n, "acting") /\ status = "gone" /\ UNCHANGED faults
    /\ HookLeaves(e, n)
    /\ FailJob(Webhook(e), n) \/ StopJob(Webhook(e), n)
    /\ UNCHANGED <<status, cursor, inbox, sync, Rest, broken>>

(* The reconciliation first asks for an active connection. *)
CheckReady(e, n) ==
    LET x == <<Reconciliation(e), n>>
    IN  /\ At(x, "checking")
        /\ IF status = "active"
           THEN Goto(x, "reading") /\ UNCHANGED queue
           ELSE Leave(x) /\ Retry(x)
        /\ UNCHANGED <<status, cursor, inbox, hook, Rest, broken, faults>>

JobStep(e, n) ==
    \/ FindConnection(e, n) \/ Act(e, n) \/ FinishEvent(e, n) \/ SucceedEvent(e, n)
    \/ EventFails(e, n) \/ CheckReady(e, n)

-----------------------------------------------------------------------------
(* The user's calls. *)
Untouched == <<queue, truth, cursor, inbox, sync, hook, dead>>

(* Validation and test read the connection, ... *)
CheckRead ==
    /\ check = "none" /\ status # "gone" /\ Room
    /\ check' = status
    /\ UNCHANGED <<Untouched, status, data, removal, broken, wiped, faults>>

(* ... and write what they found: a validation takes every status but active    *)
(* for an error; a test writes such a status back, and asks the provider        *)
(* otherwise.                                                                   *)
CheckWrite ==
    /\ check # "none"
    /\ check' = "none"
    /\ \/ status = "gone" /\ UNCHANGED <<status, broken>>
       \/ status # "gone" /\ check = "active" /\ Override("active")
       \/ status # "gone" /\ Override("error")
       \/ status # "gone" /\ check = "active" /\ Override("reconnect_required")
       \/ status # "gone" /\ check # "active" /\ Override(check)
    /\ UNCHANGED <<Untouched, data, removal, wiped, faults>>

(* updateProviderConnection: new credentials make it active; a status is taken. *)
UpdateConnection ==
    /\ status # "gone"
    /\ Override("active") \/ Override("error")
    /\ UNCHANGED <<Untouched, data, check, removal, wiped, faults>>

(* deleteProviderConnection: the item is removed at the provider if it can be,   *)
Disconnect ==
    /\ removal = "none" /\ status # "gone" /\ Room
    /\ removal' = "wiping"
    /\ UNCHANGED <<Untouched, status, data, check, broken, wiped, faults>>

(* the accounts are deleted, with their transactions, ... *)
DeleteAccounts ==
    /\ removal = "wiping"
    /\ removal' = "deleting"
    /\ account' = FALSE /\ stored' = 0 /\ wiped' = TRUE
    /\ UNCHANGED <<Untouched, status, check, broken, faults>>

(* ... and then the connection. *)
DeleteConnection ==
    /\ removal = "deleting"
    /\ removal' = "none"
    /\ status' = "gone"
    /\ UNCHANGED <<Untouched, data, check, broken, wiped, faults>>

UserCallFails ==
    /\ Fault
    /\ \/ check # "none" /\ check' = "none" /\ UNCHANGED removal
       \/ removal # "none" /\ removal' = "none" /\ UNCHANGED check
    /\ UNCHANGED <<Untouched, status, data, broken, wiped>>

Next ==
    \/ AgentSyncs \/ ProviderUpdates
    \/ \E x \in Syncs : SyncStep(x)
    \/ \E e \in Events, kind \in {"updates", "login", "expiring"} : Receive(e, kind)
    \/ \E e \in Events : EnqueueEvent(e) \/ StartWebhook(e) \/ StartReconciliation(e)
    \/ \E j \in Jobs : LeaseLapses(j)
    \/ \E e \in Events, n \in Claims : JobStep(e, n)
    \/ CheckRead \/ CheckWrite \/ UpdateConnection
    \/ Disconnect \/ DeleteAccounts \/ DeleteConnection \/ UserCallFails

Spec == Init /\ [][Next]_vars

-----------------------------------------------------------------------------
(* Properties. *)

(* Every variable holds values of its kind. *)
TypeOK ==
    /\ QueueTypeOK
    /\ truth \in Cursors /\ cursor \in Cursors /\ stored \in Cursors
    /\ status \in Statuses
    /\ account \in BOOLEAN
    /\ inbox \in [Events -> Inbox]
    /\ sync \in [Syncs -> Places]
    /\ hook \in [Events -> [Claims -> HookPlaces]]
    /\ check \in Statuses \cup {"none"}
    /\ removal \in {"none", "wiping", "deleting"}
    /\ broken \in BOOLEAN /\ wiped \in BOOLEAN /\ dead \in BOOLEAN
    /\ faults \in 0..MaxFaults

(* One synchronisation at a time, until somebody else writes the status of a    *)
(* locked connection: a validation, a test, an update, a login event, or the    *)
(* catch of a synchronisation that never had the lock.                          *)
LockIsExclusive == ~broken => Cardinality(Holders) <= 1

(* The cursor is never ahead of what is stored, whatever fails in between: an   *)
(* update behind the cursor would not be fetched again.  (Short of a broken     *)
(* lock, or a disconnect that deleted the account and not the connection.)      *)
CursorCoversStored == ~broken /\ ~wiped => stored >= cursor

(* A reconciliation that succeeded has stored what its event told of. *)
ReconciledIsStored ==
    ~broken /\ ~wiped =>
        \A e \in Events : phase[Reconciliation(e)] = "succeeded" => stored >= inbox[e].told

(* A connection stays locked only if a synchronisation died with the lock, or   *)
(* somebody else wrote its status.                                              *)
LockedIsInUse == status = "refreshing" => Holders # {} \/ dead \/ broken

=============================================================================
