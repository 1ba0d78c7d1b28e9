------------------------- MODULE FinanceSyncProofs -------------------------
(* Theorems about FinanceSync, for every set of events and every bound.      *)
EXTENDS FinanceSync, JobRunsProofs, FiniteSetTheorems

-----------------------------------------------------------------------------
(* Types, and the queue. *)

LEMMA Names ==
    /\ \A e \in Events : Webhook(e) \in Jobs /\ Reconciliation(e) \in Jobs
    /\ AgentSync \in Syncs
    /\ \A e \in Events, n \in Claims : <<Reconciliation(e), n>> \in Syncs
    /\ \A x \in Syncs : x # AgentSync =>
          \E e \in Events, n \in Claims : x = <<Reconciliation(e), n>> /\ x[1] \in Jobs /\ x[2] \in Claims
  BY JobsAssumption DEF Syncs, Webhook, Reconciliation

LEMMA Records ==
    /\ NoSync \in Places /\ NoHook \in HookPlaces
    /\ \A p \in Places, s \in {"checking", "reading", "locking", "succeeding"} \cup Locked :
          [p EXCEPT !.stage = s] \in Places
    /\ \A p \in Places, s \in {"checking", "reading", "locking", "succeeding"} \cup Locked, k \in Cursors :
          /\ [p EXCEPT !.stage = s, !.base = k] \in Places
          /\ [p EXCEPT !.stage = s, !.got = k] \in Places
    /\ \A h \in HookPlaces, s \in {"finding", "acting", "finishing", "succeeding"} :
          [h EXCEPT !.stage = s] \in HookPlaces
<1>1. 0 \in Cursors
  BY BoundsAssumption DEF Cursors
<1>2. NoSync \in Places /\ NoHook \in HookPlaces
  BY <1>1 DEF NoSync, NoHook, Places, HookPlaces
<1>3. ASSUME NEW p \in Places, NEW s \in {"checking", "reading", "locking", "succeeding"} \cup Locked
      PROVE  [p EXCEPT !.stage = s] \in Places
  BY DEF Places
<1>4. ASSUME NEW p \in Places, NEW s \in {"checking", "reading", "locking", "succeeding"} \cup Locked,
             NEW k \in Cursors
      PROVE  /\ [p EXCEPT !.stage = s, !.base = k] \in Places
             /\ [p EXCEPT !.stage = s, !.got = k] \in Places
  BY <1>3 DEF Places
<1>5. ASSUME NEW h \in HookPlaces, NEW s \in {"finding", "acting", "finishing", "succeeding"}
      PROVE  [h EXCEPT !.stage = s] \in HookPlaces
  BY DEF HookPlaces
<1> QED
  BY <1>2, <1>3, <1>4, <1>5

LEMMA InitType == Init => TypeOK /\ Queue!Init
<1> SUFFICES ASSUME Init PROVE TypeOK /\ Queue!Init
  OBVIOUS
<1>1. QueueTypeOK /\ Queue!Init
  BY QueueInitType DEF Init
<1>2. 0 \in Cursors /\ 0 \in 0..MaxFaults
  BY BoundsAssumption DEF Cursors
<1>3. sync \in [Syncs -> Places] /\ hook \in [Events -> [Claims -> HookPlaces]]
  BY Records DEF Init
<1>4. inbox \in [Events -> Inbox]
  BY <1>2 DEF Init, Inbox
<1> QED
  BY <1>1, <1>2, <1>3, <1>4 DEF Init, TypeOK, Statuses

(* The verdicts of a synchronisation are operations of the queue. *)
LEMMA SyncVerdicts ==
    ASSUME NEW x \in Syncs,
           Retry(x) \/ (\E verdict \in Verdicts : Conclude(x, verdict)) \/ UNCHANGED queue
           \/ (x # AgentSync /\ StopJob(x[1], x[2]))
    PROVE  QueueStep
  BY Names DEF Retry, Conclude, QueueStep, Operation

LEMMA SyncType ==
    ASSUME TypeOK, NEW x \in Syncs, SyncStep(x)
    PROVE  TypeOK' /\ QueueStep
<1>1. QueueStep
  <2>1. CASE SyncDies(x)
    BY <2>1, SyncVerdicts DEF SyncDies
  <2>2. CASE Read(x) \/ Lock(x) \/ UpsertAccount(x) \/ FetchPages(x) \/ Store(x) \/ Finish(x)
             \/ Succeed(x) \/ RowMissing(x) \/ SyncFails(x) \/ LoginRequired(x)
    BY <2>2, SyncVerdicts
       DEF Read, Lock, UpsertAccount, FetchPages, Store, Finish, Succeed, RowMissing, SyncFails,
           LoginRequired, Verdicts
  <2> QED
    BY <2>1, <2>2 DEF SyncStep
<1>2. QueueTypeOK'
  BY <1>1, QueueStepsRefine DEF TypeOK
<1>3. sync' \in [Syncs -> Places]
  <2>1. sync[x] \in Places /\ truth \in Cursors /\ cursor \in Cursors
    BY DEF TypeOK
  <2>2. \/ \E p \in Places : sync' = [sync EXCEPT ![x] = p]
        \/ sync' = sync
    <3>1. CASE Read(x)
      BY <3>1, <2>1, Records DEF Read, Leave
    <3>2. CASE FetchPages(x)
      BY <3>2, <2>1, Records DEF FetchPages, Locked
    <3>3. CASE Lock(x) \/ UpsertAccount(x) \/ Store(x) \/ Finish(x)
      <4>1. Leave(x) \/ \E s \in {"accounts", "paging", "finishing", "succeeding"} : Goto(x, s)
        BY <3>3 DEF Lock, UpsertAccount, Store, Finish
      <4>2. \A s \in {"accounts", "paging", "finishing", "succeeding"} : [sync[x] EXCEPT !.stage = s] \in Places
        BY <2>1, Records DEF Locked
      <4> QED
        BY <4>1, <4>2, Records DEF Leave, Goto
    <3>4. CASE Succeed(x) \/ RowMissing(x) \/ SyncFails(x) \/ LoginRequired(x) \/ SyncDies(x)
      BY <3>4, Records DEF Succeed, RowMissing, SyncFails, LoginRequired, SyncDies, Leave
    <3> QED
      BY <3>1, <3>2, <3>3, <3>4 DEF SyncStep
  <2> QED
    BY <2>2 DEF TypeOK
<1>4. cursor' \in Cursors /\ stored' \in Cursors
  <2>1. sync[x].got \in Cursors
    BY DEF TypeOK, Places
  <2> QED
    BY <2>1 DEF TypeOK, SyncStep, Read, Lock, UpsertAccount, FetchPages, Store, Finish, Succeed, RowMissing,
           SyncFails, LoginRequired, SyncDies, data
<1>5. status' \in Statuses
  BY DEF TypeOK, Statuses, SyncStep, Read, Lock, UpsertAccount, FetchPages, Store, Finish, Succeed, RowMissing,
         SyncFails, LoginRequired, SyncDies, Release
<1>6. account' \in BOOLEAN
  BY DEF TypeOK, SyncStep, Read, Lock, UpsertAccount, FetchPages, Store, Finish, Succeed, RowMissing,
         SyncFails, LoginRequired, SyncDies, data
<1>7. broken' \in BOOLEAN
  BY DEF TypeOK, SyncStep, Read, Lock, UpsertAccount, FetchPages, Store, Finish, Succeed, RowMissing,
         SyncFails, LoginRequired, SyncDies, Release
<1>8. dead' \in BOOLEAN
  BY DEF TypeOK, SyncStep, Read, Lock, UpsertAccount, FetchPages, Store, Finish, Succeed, RowMissing,
         SyncFails, LoginRequired, SyncDies
<1>9. faults' \in 0..MaxFaults
  BY BoundsAssumption
     DEF TypeOK, SyncStep, Read, Lock, UpsertAccount, FetchPages, Store, Finish, Succeed, RowMissing,
         SyncFails, LoginRequired, SyncDies, Fault
<1>10. UNCHANGED Beside
  BY DEF SyncStep, Read, Lock, UpsertAccount, FetchPages, Store, Finish, Succeed, RowMissing,
         SyncFails, LoginRequired, SyncDies
<1> QED
  BY <1>1, <1>2, <1>3, <1>4, <1>5, <1>6, <1>7, <1>8, <1>9, <1>10 DEF TypeOK, Beside

(* One action of an event's delivery, of the worker that executes its jobs, ... *)
Deliver(e) ==
    \/ \E kind \in {"updates", "login", "expiring"} : Receive(e, kind)
    \/ EnqueueEvent(e) \/ StartWebhook(e) \/ StartReconciliation(e)
    \/ \E n \in Claims : JobStep(e, n)

(* ... and of the user's calls. *)
Use ==
    CheckRead \/ CheckWrite \/ UpdateConnection \/ Disconnect \/ DeleteAccounts \/ DeleteConnection \/ UserCallFails

LEMMA DeliverType ==
    ASSUME TypeOK, NEW e \in Events, Deliver(e)
    PROVE  TypeOK' /\ QueueStep
<1>0. Webhook(e) \in Jobs /\ Reconciliation(e) \in Jobs
  BY Names
<1>1. QueueStep
  <2>1. CASE \E kind \in {"updates", "login", "expiring"} : Receive(e, kind)
    BY <2>1 DEF Receive, QueueStep
  <2>2. CASE EnqueueEvent(e) \/ StartWebhook(e) \/ StartReconciliation(e)
    BY <1>0, <2>2 DEF EnqueueEvent, StartWebhook, StartReconciliation, QueueStep, Operation
  <2>3. ASSUME NEW n \in Claims, FindConnection(e, n) \/ SucceedEvent(e, n) \/ FinishEvent(e, n) \/ EventFails(e, n)
        PROVE  QueueStep
    BY <1>0, <2>3 DEF FindConnection, SucceedEvent, FinishEvent, EventFails, QueueStep, Operation, Verdicts
  <2>4. ASSUME NEW n \in Claims, Act(e, n)
        PROVE  QueueStep
    BY <1>0, <2>4 DEF Act, QueueStep, Operation
  <2>5. ASSUME NEW n \in Claims, CheckReady(e, n)
        PROVE  QueueStep
    BY <2>5, Names, SyncVerdicts DEF CheckReady, Leave, Goto
  <2> QED
    BY <2>1, <2>2, <2>3, <2>4, <2>5 DEF Deliver, JobStep
<1>2. QueueTypeOK'
  BY <1>1, QueueStepsRefine DEF TypeOK
<1>3. sync' \in [Syncs -> Places]
  <2>1. ASSUME NEW n \in Claims
        PROVE  /\ <<Reconciliation(e), n>> \in Syncs
               /\ \A s \in {"checking", "reading"} : [sync[<<Reconciliation(e), n>>] EXCEPT !.stage = s] \in Places
    BY Names, Records DEF TypeOK
  <2>2. CASE StartReconciliation(e)
    <3>1. holder[Reconciliation(e)] + 1 \in Claims
      BY <1>0, <2>2, MaxClaimsAssumption DEF TypeOK, QueueTypeOK, StartReconciliation, ClaimJob, Claims
    <3> QED
      BY <2>1, <2>2, <3>1 DEF StartReconciliation, TypeOK
  <2>3. ASSUME NEW n \in Claims, CheckReady(e, n)
        PROVE  sync' \in [Syncs -> Places]
    BY <2>1, <2>3, Records DEF CheckReady, Goto, Leave, TypeOK
  <2>4. CASE sync' = sync
    BY <2>4 DEF TypeOK
  <2> QED
    BY <2>2, <2>3, <2>4
       DEF Deliver, JobStep, Receive, EnqueueEvent, StartWebhook, FindConnection, Act, FinishEvent, SucceedEvent, EventFails
<1>4. hook' \in [Events -> [Claims -> HookPlaces]]
  <2>1. ASSUME NEW n \in Claims
        PROVE  \A s \in {"finding", "acting", "finishing", "succeeding"} : [hook[e][n] EXCEPT !.stage = s] \in HookPlaces
    BY Records DEF TypeOK
  <2>2. CASE StartWebhook(e)
    <3>1. holder[Webhook(e)] + 1 \in Claims
      BY <1>0, <2>2, MaxClaimsAssumption DEF TypeOK, QueueTypeOK, StartWebhook, ClaimJob, Claims
    <3> QED
      BY <2>1, <2>2, <3>1 DEF StartWebhook, TypeOK
  <2>3. ASSUME NEW n \in Claims, NEW h \in HookPlaces, hook' = [hook EXCEPT ![e] = [hook[e] EXCEPT ![n] = h]]
        PROVE  hook' \in [Events -> [Claims -> HookPlaces]]
    BY <2>3 DEF TypeOK
  <2>4. ASSUME NEW n \in Claims, FindConnection(e, n)
        PROVE  hook' \in [Events -> [Claims -> HookPlaces]]
    <3>1. [stage |-> "acting", base |-> cursor] \in HookPlaces
      BY DEF TypeOK, HookPlaces
    <3> QED
      BY <2>3, <2>4, <3>1, Records DEF FindConnection, HookLeaves
  <2>5. ASSUME NEW n \in Claims, Act(e, n) \/ FinishEvent(e, n)
        PROVE  hook' \in [Events -> [Claims -> HookPlaces]]
    <3>1. PICK s \in {"finishing", "succeeding"} : HookGoto(e, n, s)
      BY <2>5 DEF Act, FinishEvent
    <3>2. hook' = [hook EXCEPT ![e] = [hook[e] EXCEPT ![n] = [hook[e][n] EXCEPT !.stage = s]]]
      BY <3>1 DEF HookGoto
    <3> QED
      BY <2>1, <2>3, <3>2
  <2>6. ASSUME NEW n \in Claims, SucceedEvent(e, n) \/ EventFails(e, n)
        PROVE  hook' \in [Events -> [Claims -> HookPlaces]]
    BY <2>3, <2>6, Records DEF SucceedEvent, EventFails, HookLeaves
  <2>7. CASE hook' = hook
    BY <2>7 DEF TypeOK
  <2> QED
    BY <2>2, <2>4, <2>5, <2>6, <2>7
       DEF Deliver, JobStep, Receive, EnqueueEvent, StartReconciliation, CheckReady
<1>5. inbox' \in [Events -> Inbox]
  <2>1. ASSUME NEW kind \in {"updates", "login", "expiring"}, Receive(e, kind)
        PROVE  inbox' \in [Events -> Inbox]
    BY <2>1 DEF TypeOK, Inbox, Receive
  <2>2. ASSUME NEW s \in {"processed", "failed"}, Settle(e, s)
        PROVE  inbox' \in [Events -> Inbox]
    <3>1. [inbox[e] EXCEPT !.status = s] \in Inbox
      BY DEF TypeOK, Inbox
    <3> QED
      BY <2>2, <3>1 DEF Settle, TypeOK
  <2>3. CASE inbox' = inbox
    BY <2>3 DEF TypeOK
  <2> QED
    BY <2>1, <2>2, <2>3
       DEF Deliver, JobStep, EnqueueEvent, StartWebhook, StartReconciliation, FindConnection, Act, FinishEvent,
           SucceedEvent, EventFails, CheckReady
<1>6. cursor' \in Cursors
  <2>1. \A n \in Claims : hook[e][n].base \in Cursors
    BY DEF TypeOK, HookPlaces
  <2> QED
    BY <2>1 DEF TypeOK, Deliver, JobStep, Receive, EnqueueEvent, StartWebhook, StartReconciliation,
           FindConnection, Act, FinishEvent, SucceedEvent, EventFails, CheckReady
<1>7. status' \in Statuses /\ broken' \in BOOLEAN
  <2>1. CASE Override("reconnect_required")
    BY <2>1 DEF TypeOK, Statuses, Override
  <2>2. CASE status' = status /\ broken' = broken
    BY <2>2 DEF TypeOK
  <2> QED
    BY <2>1, <2>2 DEF Deliver, JobStep, Receive, EnqueueEvent, StartWebhook, StartReconciliation, FindConnection,
           Act, FinishEvent, SucceedEvent, EventFails, CheckReady
<1>8. faults' \in 0..MaxFaults
  <2>1. CASE Fault
    BY <2>1, BoundsAssumption DEF TypeOK, Fault
  <2>2. CASE faults' = faults
    BY <2>2 DEF TypeOK
  <2> QED
    BY <2>1, <2>2 DEF Deliver, JobStep, Receive, EnqueueEvent, StartWebhook, StartReconciliation,
           FindConnection, Act, FinishEvent, SucceedEvent, EventFails, CheckReady
<1>9. UNCHANGED Rest
  BY DEF Deliver, JobStep, Receive, EnqueueEvent, StartWebhook, StartReconciliation,
         FindConnection, Act, FinishEvent, SucceedEvent, EventFails, CheckReady
<1> QED
  BY <1>1, <1>2, <1>3, <1>4, <1>5, <1>6, <1>7, <1>8, <1>9 DEF TypeOK, Rest, data

LEMMA UseType ==
    ASSUME TypeOK, Use
    PROVE  TypeOK' /\ QueueStep
<1>1. UNCHANGED Untouched
  BY DEF Use, CheckRead, CheckWrite, UpdateConnection, Disconnect, DeleteAccounts, DeleteConnection, UserCallFails
<1>2. status' \in Statuses /\ broken' \in BOOLEAN /\ check' \in Statuses \cup {"none"}
  BY DEF TypeOK, Statuses, Override, Use, CheckRead, CheckWrite, UpdateConnection, Disconnect, DeleteAccounts,
         DeleteConnection, UserCallFails
<1>3. account' \in BOOLEAN /\ stored' \in Cursors /\ wiped' \in BOOLEAN /\ removal' \in {"none", "wiping", "deleting"}
  <2>1. 0 \in Cursors
    BY BoundsAssumption DEF Cursors
  <2> QED
    BY <2>1 DEF TypeOK, data, Use, CheckRead, CheckWrite, UpdateConnection, Disconnect, DeleteAccounts,
           DeleteConnection, UserCallFails
<1>4. faults' \in 0..MaxFaults
  BY BoundsAssumption DEF TypeOK, Fault, Use, CheckRead, CheckWrite, UpdateConnection, Disconnect, DeleteAccounts,
                          DeleteConnection, UserCallFails
<1>5. QueueStep
  BY <1>1 DEF Untouched, QueueStep, queue
<1> QED
  BY <1>1, <1>2, <1>3, <1>4, <1>5 DEF TypeOK, QueueTypeOK, Untouched, queue

LEMMA OthersType ==
    ASSUME TypeOK, AgentSyncs \/ ProviderUpdates \/ (\E j \in Jobs : LeaseLapses(j))
    PROVE  TypeOK' /\ QueueStep
<1>1. QueueStep
  BY DEF AgentSyncs, ProviderUpdates, LeaseLapses, QueueStep, Operation
<1>2. QueueTypeOK'
  BY <1>1, QueueStepsRefine DEF TypeOK
<1>3. sync' \in [Syncs -> Places]
  <2>1. [sync[AgentSync] EXCEPT !.stage = "reading"] \in Places
    BY Names, Records DEF TypeOK
  <2> QED
    BY <2>1 DEF TypeOK, AgentSyncs, ProviderUpdates, LeaseLapses, Goto
<1>4. truth' \in Cursors /\ faults' \in 0..MaxFaults
  BY BoundsAssumption DEF TypeOK, Cursors, AgentSyncs, ProviderUpdates, LeaseLapses, Fault, Beside, Rest
<1> QED
  BY <1>1, <1>2, <1>3, <1>4 DEF TypeOK, AgentSyncs, ProviderUpdates, LeaseLapses, Beside, Rest, data, ghosts

LEMMA NextSplits ==
    Next => \/ \E x \in Syncs : SyncStep(x)
            \/ \E e \in Events : Deliver(e)
            \/ Use
            \/ AgentSyncs \/ ProviderUpdates \/ \E j \in Jobs : LeaseLapses(j)
  BY DEF Next, Deliver, Use

LEMMA NextType == TypeOK /\ [Next]_vars => TypeOK' /\ QueueStep
<1> SUFFICES ASSUME TypeOK, [Next]_vars PROVE TypeOK' /\ QueueStep
  OBVIOUS
<1>1. CASE UNCHANGED vars
  BY <1>1 DEF vars, data, TypeOK, QueueTypeOK, QueueStep, queue
<1>2. CASE Next
  BY <1>2, NextSplits, SyncType, DeliverType, UseType, OthersType
<1> QED
  BY <1>1, <1>2

(* Every variable keeps its type. *)
THEOREM TypeCorrect == Spec => []TypeOK
<1> QED
  BY InitType, NextType, PTL DEF Spec

(* The event jobs and the reconciliations live as LeasedQueue promises. *)
THEOREM JobsImplementLeasedQueue == Spec => Queue!Spec
<1>1. TypeOK /\ [Next]_vars => [Queue!Next]_(Queue!vars)
  BY NextType, QueueStepsRefine DEF TypeOK
<1> QED
  BY <1>1, InitType, TypeCorrect, PTL DEF Spec, Queue!Spec

-----------------------------------------------------------------------------
(* The lock. *)

(* Why: as long as nobody else writes the status, a holder finds it as it      *)
(* wrote it, or the connection deleted.                                        *)
OneHolder ==
    ~broken =>
        /\ \A x, y \in Holders : x = y
        /\ Holders # {} => status \in {"refreshing", "gone"}

LockInv == OneHolder /\ LockedIsInUse

(* A synchronisation changes its own stage only. *)
LEMMA OthersStay ==
    ASSUME TypeOK, NEW x \in Syncs, SyncStep(x), NEW y \in Syncs, y # x
    PROVE  sync'[y] = sync[y]
  BY DEF TypeOK, SyncStep, Read, Lock, UpsertAccount, FetchPages, Store, Finish, Succeed, RowMissing, SyncFails,
         LoginRequired, SyncDies, Goto, Leave

(* Where each action finds a synchronisation and where it leaves it. *)
LEMMA SyncStages ==
    ASSUME TypeOK, NEW x \in Syncs
    PROVE  /\ Read(x) => At(x, "reading") /\ sync'[x].stage \in {"locking", "none"}
           /\ Lock(x) => At(x, "locking") /\ sync'[x].stage = IF status = "active" THEN "accounts" ELSE "none"
           /\ UpsertAccount(x) => At(x, "accounts") /\ At(x, "paging")'
           /\ FetchPages(x) => At(x, "paging") /\ At(x, "storing")'
           /\ Store(x) => At(x, "storing") /\ At(x, "finishing")'
           /\ Finish(x) => At(x, "finishing") /\ At(x, "succeeding")'
           /\ Succeed(x) => At(x, "succeeding") /\ At(x, "none")'
           /\ RowMissing(x) \/ SyncFails(x) \/ LoginRequired(x) \/ SyncDies(x)
                => ~At(x, "none") /\ At(x, "none")'
<1>1. DOMAIN sync = Syncs /\ sync[x] \in Places /\ NoSync.stage = "none"
  BY DEF TypeOK, NoSync
<1>2. /\ [sync[x] EXCEPT !.stage = "locking", !.base = cursor].stage = "locking"
      /\ [sync[x] EXCEPT !.stage = "storing", !.got = truth].stage = "storing"
      /\ \A s : [sync[x] EXCEPT !.stage = s].stage = s
  BY <1>1 DEF Places
<1>3. Leave(x) => At(x, "none")'
  BY <1>1 DEF Leave, At
<1>4. ASSUME NEW s, Goto(x, s) PROVE At(x, s)'
  BY <1>1, <1>2, <1>4 DEF Goto, At
<1>5. Read(x) => At(x, "reading") /\ sync'[x].stage \in {"locking", "none"}
  BY <1>1, <1>2, <1>3 DEF Read, At
<1>6. FetchPages(x) => At(x, "paging") /\ At(x, "storing")'
  BY <1>1, <1>2 DEF FetchPages, At
<1>7. /\ Lock(x) => At(x, "locking") /\ sync'[x].stage = IF status = "active" THEN "accounts" ELSE "none"
      /\ UpsertAccount(x) => At(x, "accounts") /\ At(x, "paging")'
      /\ Store(x) => At(x, "storing") /\ At(x, "finishing")'
      /\ Finish(x) => At(x, "finishing") /\ At(x, "succeeding")'
  BY <1>3, <1>4 DEF Lock, UpsertAccount, Store, Finish, At
<1>8. Succeed(x) => At(x, "succeeding") /\ At(x, "none")'
  BY <1>3 DEF Succeed
<1>9. RowMissing(x) \/ SyncFails(x) \/ LoginRequired(x) \/ SyncDies(x) => At(x, "none")'
  BY <1>3 DEF RowMissing, SyncFails, LoginRequired, SyncDies
<1>10. RowMissing(x) \/ SyncFails(x) \/ LoginRequired(x) \/ SyncDies(x) => ~At(x, "none")
  BY DEF RowMissing, SyncFails, LoginRequired, SyncDies, At, Locked
<1> QED
  BY <1>5, <1>6, <1>7, <1>8, <1>9, <1>10

LEMMA HoldersOf ==
    ASSUME TypeOK, NEW x \in Syncs, SyncStep(x)
    PROVE  Holders' \subseteq Holders \cup {x} /\ Holders \ {x} \subseteq Holders'
  BY OthersStay DEF Holders

LEMMA SyncLock ==
    ASSUME TypeOK, LockInv, NEW x \in Syncs, SyncStep(x)
    PROVE  LockInv'
<1>1. Holders' \subseteq Holders \cup {x} /\ Holders \ {x} \subseteq Holders'
  BY HoldersOf
<1>2. x \in Syncs /\ (x \in Holders <=> sync[x].stage \in Locked) /\ (x \in Holders' <=> sync'[x].stage \in Locked)
  BY DEF Holders
<1>3. CASE Read(x) \/ Succeed(x)
  <2>1. x \notin Holders /\ x \notin Holders'
    BY <1>2, <1>3, SyncStages DEF At, Locked
  <2> QED
    BY <1>1, <1>3, <2>1 DEF Read, Succeed, LockInv, OneHolder, LockedIsInUse
<1>4. CASE Lock(x)
  <2>1. x \notin Holders
    BY <1>2, <1>4 DEF Lock, At, Locked
  <2>2. CASE status = "active"
    <3>1. status' = "refreshing" /\ x \in Holders' /\ broken' = broken
      BY <1>2, <1>4, <2>2 DEF Lock, Goto, Locked, TypeOK, Places
    <3>2. ~broken => Holders = {}
      BY <2>2 DEF LockInv, OneHolder
    <3> QED
      BY <1>1, <3>1, <3>2 DEF LockInv, OneHolder, LockedIsInUse
  <2>3. CASE status # "active"
    <3>1. status' = status /\ x \notin Holders' /\ broken' = broken /\ dead' = dead
      BY <1>2, <1>4, <2>3 DEF Lock, Leave, NoSync, Locked, TypeOK
    <3> QED
      BY <1>1, <2>1, <3>1 DEF LockInv, OneHolder, LockedIsInUse
  <2> QED
    BY <2>2, <2>3
<1>5. CASE UpsertAccount(x) \/ FetchPages(x) \/ Store(x)
  <2>1. x \in Holders /\ x \in Holders'
    BY <1>2, <1>5, SyncStages DEF At, Locked
  <2>2. status' = status /\ broken' = broken /\ dead' = dead
    BY <1>5 DEF UpsertAccount, FetchPages, Store
  <2> QED
    BY <1>1, <2>1, <2>2 DEF LockInv, OneHolder, LockedIsInUse
<1>6. CASE Finish(x)
  <2>1. x \in Holders /\ x \notin Holders' /\ status' = "active" /\ broken' = broken
    BY <1>2, <1>6 DEF Finish, At, Goto, Locked, TypeOK, Places
  <2> QED
    BY <1>1, <2>1 DEF LockInv, OneHolder, LockedIsInUse
<1>7. CASE RowMissing(x) \/ SyncFails(x)
  <2>1. x \notin Holders' /\ Release(x)
    BY <1>2, <1>7 DEF RowMissing, SyncFails, Leave, NoSync, Locked, TypeOK
  <2>2. ~broken' => ~broken /\ Holders \ {x} = {}
    BY <2>1 DEF Release
  <2> QED
    BY <1>1, <2>1, <2>2 DEF Release, LockInv, OneHolder, LockedIsInUse
<1>8. CASE LoginRequired(x)
  <2>1. x \notin Holders' /\ status' # "refreshing"
    BY <1>2, <1>8 DEF LoginRequired, Leave, NoSync, Locked, TypeOK
  <2>2. ~broken' => ~broken /\ Holders \ {x} = {}
    BY <1>8 DEF LoginRequired
  <2> QED
    BY <1>1, <2>1, <2>2 DEF LockInv, OneHolder, LockedIsInUse
<1>9. CASE SyncDies(x)
  <2>1. x \notin Holders' /\ status' = status /\ broken' = broken /\ (dead' = (dead \/ x \in Holders))
    BY <1>2, <1>9 DEF SyncDies, Leave, NoSync, Locked, TypeOK
  <2> QED
    BY <1>1, <2>1 DEF LockInv, OneHolder, LockedIsInUse
<1> QED
  BY <1>3, <1>4, <1>5, <1>6, <1>7, <1>8, <1>9 DEF SyncStep

(* Synchronisations and event executions belong to claims of jobs that exist. *)
Claimed ==
    /\ \A e \in Events, n \in Claims :
          sync[<<Reconciliation(e), n>>].stage # "none" =>
              n <= holder[Reconciliation(e)] /\ phase[Reconciliation(e)] # "absent"
    /\ \A e \in Events, n \in Claims : hook[e][n].stage # "none" => phase[Webhook(e)] # "absent"

(* A step starts an execution by claiming its job, and only then. *)
LEMMA Starts ==
    ASSUME TypeOK, Next, NEW e \in Events, NEW n \in Claims
    PROVE  /\ sync'[<<Reconciliation(e), n>>].stage # "none" /\ sync[<<Reconciliation(e), n>>].stage = "none"
               => StartReconciliation(e) /\ n = holder'[Reconciliation(e)]
           /\ hook'[e][n].stage # "none" /\ hook[e][n].stage = "none" => StartWebhook(e)
<1> DEFINE x == <<Reconciliation(e), n>>
<1>1. /\ x \in Syncs /\ x # AgentSync /\ Reconciliation(e) \in Jobs
      /\ \A f \in Events, m \in Claims : <<Reconciliation(f), m>> \in Syncs
      /\ \A f \in Events, m \in Claims : x = <<Reconciliation(f), m>> => e = f /\ n = m
  BY Names, AgentSyncAssumption DEF Reconciliation
<1>2. x \in Syncs /\ x # AgentSync
  BY <1>1
<1>3. ASSUME NEW y \in Syncs, SyncStep(y)
      PROVE  sync[x].stage = "none" => sync'[x].stage = "none"
  <2>1. CASE y = x
    BY <1>3, <2>1, SyncStages DEF SyncStep, At
  <2>2. CASE y # x
    BY <1>2, <1>3, <2>2, OthersStay
  <2> QED
    BY <2>1, <2>2
<1>4. ASSUME NEW y \in Syncs, SyncStep(y)
      PROVE  hook' = hook
  BY <1>4 DEF SyncStep, Read, Lock, UpsertAccount, FetchPages, Store, Finish, Succeed, RowMissing, SyncFails,
              LoginRequired, SyncDies, Beside
<1>5. ASSUME AgentSyncs
      PROVE  sync'[x] = sync[x] /\ hook' = hook
  BY <1>2, <1>5 DEF AgentSyncs, Goto, Beside, TypeOK
<1>6. ASSUME NEW f \in Events, StartReconciliation(f)
      PROVE  /\ sync'[x].stage # sync[x].stage => f = e /\ n = holder'[Reconciliation(e)]
             /\ hook' = hook
  <2>1. holder'[Reconciliation(f)] = holder[Reconciliation(f)] + 1
    BY <1>6, Names DEF StartReconciliation, ClaimJob, TypeOK, QueueTypeOK
  <2>2. sync' = [sync EXCEPT ![<<Reconciliation(f), holder[Reconciliation(f)] + 1>>].stage = "checking"]
    BY <1>6 DEF StartReconciliation
  <2>3. holder[Reconciliation(f)] + 1 \in Claims
    BY <1>6, Names, MaxClaimsAssumption DEF TypeOK, QueueTypeOK, StartReconciliation, ClaimJob, Claims
  <2>4. x # <<Reconciliation(f), holder[Reconciliation(f)] + 1>> => sync'[x] = sync[x]
    BY <1>2, <2>2 DEF TypeOK
  <2> QED
    BY <1>1, <1>6, <2>1, <2>3, <2>4 DEF StartReconciliation
<1>7. ASSUME NEW f \in Events, StartWebhook(f)
      PROVE  sync' = sync /\ (hook'[e][n] # hook[e][n] => f = e)
  BY <1>7 DEF StartWebhook, TypeOK
<1>8. ASSUME NEW f \in Events, NEW m \in Claims, JobStep(f, m), ~CheckReady(f, m)
      PROVE  sync' = sync /\ (hook[e][n].stage = "none" => hook'[e][n].stage = "none")
  <2>1. CASE FindConnection(f, m) \/ SucceedEvent(f, m) \/ EventFails(f, m)
    BY <2>1 DEF FindConnection, SucceedEvent, EventFails, HookAt, HookLeaves, NoHook, TypeOK
  <2>2. CASE Act(f, m) \/ FinishEvent(f, m)
    BY <2>2 DEF Act, FinishEvent, HookAt, HookGoto, TypeOK
  <2> QED
    BY <1>8, <2>1, <2>2 DEF JobStep
<1>9. ASSUME NEW f \in Events, NEW m \in Claims, CheckReady(f, m)
      PROVE  (sync[x].stage = "none" => sync'[x].stage = "none") /\ hook' = hook
  <2>1. x # <<Reconciliation(f), m>> => sync'[x] = sync[x]
    BY <1>2, <1>9 DEF CheckReady, Goto, Leave, TypeOK
  <2> QED
    BY <1>9, <2>1 DEF CheckReady, At
<1>10. CASE sync' = sync /\ hook' = hook
  BY <1>10
<1> HIDE DEF x
<1>11. ASSUME ~(sync' = sync /\ hook' = hook)
      PROVE  \/ \E y \in Syncs : SyncStep(y)
             \/ AgentSyncs
             \/ \E f \in Events : StartReconciliation(f) \/ StartWebhook(f)
             \/ \E f \in Events, m \in Claims : JobStep(f, m)
  BY <1>11 DEF Next, Receive, EnqueueEvent, LeaseLapses, ProviderUpdates, CheckRead, CheckWrite, UpdateConnection,
         Disconnect, DeleteAccounts, DeleteConnection, UserCallFails, Untouched
<1>12. /\ sync'[x].stage # "none" /\ sync[x].stage = "none"
               => StartReconciliation(e) /\ n = holder'[Reconciliation(e)]
       /\ hook'[e][n].stage # "none" /\ hook[e][n].stage = "none" => StartWebhook(e)
  BY <1>3, <1>4, <1>5, <1>6, <1>7, <1>8, <1>9, <1>10, <1>11
<1> QED
  BY <1>12 DEF x

LEMMA ClaimedStep == TypeOK /\ Claimed /\ [Next]_vars => Claimed'
<1> SUFFICES ASSUME TypeOK, Claimed, [Next]_vars PROVE Claimed'
  OBVIOUS
<1>1. CASE UNCHANGED vars
  BY <1>1 DEF vars, Claimed
<1>2. CASE Next
  <2>1. \A j \in Jobs : holder[j] \in Nat /\ holder'[j] \in Nat /\ holder[j] <= holder'[j]
                          /\ (phase[j] # "absent" => phase'[j] # "absent")
    BY <1>2, NextType, QueueGrows, MaxClaimsAssumption DEF TypeOK, QueueTypeOK
  <2>2. \A e \in Events : Webhook(e) \in Jobs /\ Reconciliation(e) \in Jobs
    BY Names
  <2>3. \A e \in Events : StartReconciliation(e) => phase'[Reconciliation(e)] # "absent"
    BY <2>2 DEF StartReconciliation, ClaimJob, TypeOK, QueueTypeOK
  <2>4. \A e \in Events : StartWebhook(e) => phase'[Webhook(e)] # "absent"
    BY <2>2 DEF StartWebhook, ClaimJob, TypeOK, QueueTypeOK
  <2>5. ASSUME NEW e \in Events, NEW n \in Claims, sync'[<<Reconciliation(e), n>>].stage # "none"
        PROVE  n <= holder'[Reconciliation(e)] /\ phase'[Reconciliation(e)] # "absent"
    <3>1. CASE sync[<<Reconciliation(e), n>>].stage = "none"
      BY <1>2, <2>1, <2>2, <2>3, <2>5, <3>1, Starts
    <3>2. CASE sync[<<Reconciliation(e), n>>].stage # "none"
      BY <2>1, <2>2, <3>2 DEF Claimed, Claims
    <3> QED
      BY <3>1, <3>2
  <2>6. ASSUME NEW e \in Events, NEW n \in Claims, hook'[e][n].stage # "none"
        PROVE  phase'[Webhook(e)] # "absent"
    <3>1. CASE hook[e][n].stage = "none"
      BY <1>2, <2>4, <2>6, <3>1, Starts
    <3>2. CASE hook[e][n].stage # "none"
      BY <2>1, <2>2, <3>2 DEF Claimed
    <3> QED
      BY <3>1, <3>2
  <2> QED
    BY <2>5, <2>6 DEF Claimed
<1> QED
  BY <1>1, <1>2

(* Everyone else leaves the holders alone, and marks a status it overrides. *)
LEMMA OtherHolders ==
    ASSUME TypeOK, Claimed,
           (\E e \in Events : Deliver(e)) \/ Use \/ AgentSyncs \/ ProviderUpdates
               \/ (\E j \in Jobs : LeaseLapses(j)) \/ UNCHANGED vars
    PROVE  Holders' = Holders
<1>1. ASSUME NEW x \in Syncs,
             NEW s \in {"checking", "reading", "none"}, sync'[x].stage = s, sync[x].stage \notin Locked,
             \A y \in Syncs \ {x} : sync'[y] = sync[y]
      PROVE  Holders' = Holders
  BY <1>1 DEF Holders, Locked
<1>2. CASE sync' = sync
  BY <1>2 DEF Holders
<1>3. CASE AgentSyncs
  <2>1. sync[AgentSync].stage = "none" /\ sync'[AgentSync].stage = "reading"
    BY <1>3, Names DEF AgentSyncs, Goto, NoSync, TypeOK, Places
  <2>2. \A y \in Syncs \ {AgentSync} : sync'[y] = sync[y]
    BY <1>3 DEF AgentSyncs, Goto, TypeOK
  <2> QED
    BY <1>1, <2>1, <2>2, Names DEF Locked
<1>4. ASSUME NEW e \in Events, NEW n \in Claims, CheckReady(e, n)
      PROVE  Holders' = Holders
  <2> DEFINE x == <<Reconciliation(e), n>>
  <2>1. x \in Syncs
    BY Names
  <2>2. sync[x].stage = "checking" /\ sync'[x].stage \in {"reading", "none"} /\ \A y \in Syncs \ {x} : sync'[y] = sync[y]
    BY <1>4, <2>1 DEF CheckReady, At, Goto, Leave, NoSync, TypeOK, Places
  <2> HIDE DEF x
  <2> QED
    BY <1>1, <2>1, <2>2 DEF Locked
<1>5. ASSUME NEW e \in Events, StartReconciliation(e)
      PROVE  Holders' = Holders
  <2> DEFINE n == holder[Reconciliation(e)] + 1
             x == <<Reconciliation(e), n>>
  <2>1. n \in Claims /\ ~(n <= holder[Reconciliation(e)])
    BY <1>5, Names, MaxClaimsAssumption DEF TypeOK, QueueTypeOK, StartReconciliation, ClaimJob, Claims
  <2>2. x \in Syncs /\ sync[x].stage = "none"
    BY <2>1, Names DEF Claimed
  <2>3. sync'[x].stage = "checking" /\ \A y \in Syncs \ {x} : sync'[y] = sync[y]
    BY <1>5, <2>2 DEF StartReconciliation, TypeOK, Places
  <2> HIDE DEF x
  <2> QED
    BY <1>1, <2>2, <2>3 DEF Locked
<1> QED
  BY <1>2, <1>3, <1>4, <1>5
     DEF Deliver, JobStep, Receive, EnqueueEvent, StartWebhook, FindConnection, Act, FinishEvent, SucceedEvent,
         EventFails, Use, CheckRead, CheckWrite, UpdateConnection, Disconnect, DeleteAccounts, DeleteConnection,
         UserCallFails, Untouched, ProviderUpdates, LeaseLapses, vars

LEMMA OtherStatus ==
    ASSUME TypeOK,
           (\E e \in Events : Deliver(e)) \/ Use \/ AgentSyncs \/ ProviderUpdates
               \/ (\E j \in Jobs : LeaseLapses(j)) \/ UNCHANGED vars
    PROVE  /\ dead' = dead
           /\ ~broken' => ~broken
           /\ ~broken' /\ status' # status =>
                  status' = "gone" \/ (Holders = {} /\ status' # "refreshing")
<1>1. ASSUME NEW s, Override(s)
      PROVE  /\ ~broken' => ~broken
             /\ ~broken' /\ status' # status => Holders = {} /\ status' # "refreshing"
  <2>1. status' = s /\ broken' = (broken \/ Holders # {} \/ status = "refreshing" \/ s = "refreshing")
    BY <1>1 DEF Override
  <2>2. ~broken' => ~broken /\ Holders = {} /\ s # "refreshing"
    BY <2>1
  <2> QED
    BY <2>1, <2>2
<1>2. CASE \E e \in Events : Deliver(e)
  <2>1. (\E s : Override(s)) \/ (status' = status /\ broken' = broken)
    BY <1>2 DEF Deliver, JobStep, Receive, EnqueueEvent, StartWebhook, StartReconciliation, FindConnection, Act,
                FinishEvent, SucceedEvent, EventFails, CheckReady
  <2>2. dead' = dead
    BY <1>2 DEF Deliver, JobStep, Receive, EnqueueEvent, StartWebhook, StartReconciliation, FindConnection, Act,
                FinishEvent, SucceedEvent, EventFails, CheckReady, Rest
  <2> QED
    BY <1>1, <2>1, <2>2
<1>3. CASE CheckWrite \/ UpdateConnection
  <2>1. (\E s : Override(s)) \/ (status' = status /\ broken' = broken)
    BY <1>3 DEF CheckWrite, UpdateConnection
  <2>2. dead' = dead
    BY <1>3 DEF CheckWrite, UpdateConnection, Untouched
  <2> QED
    BY <1>1, <2>1, <2>2
<1>4. CASE CheckRead \/ Disconnect \/ DeleteAccounts \/ DeleteConnection \/ UserCallFails
  BY <1>4 DEF CheckRead, Disconnect, DeleteAccounts, DeleteConnection, UserCallFails, Untouched
<1>5. CASE AgentSyncs \/ ProviderUpdates \/ (\E j \in Jobs : LeaseLapses(j)) \/ UNCHANGED vars
  BY <1>5 DEF AgentSyncs, ProviderUpdates, LeaseLapses, vars, ghosts, Rest
<1> QED
  BY <1>2, <1>3, <1>4, <1>5 DEF Use

LEMMA OtherLock ==
    ASSUME TypeOK, Claimed, LockInv,
           (\E e \in Events : Deliver(e)) \/ Use \/ AgentSyncs \/ ProviderUpdates
               \/ (\E j \in Jobs : LeaseLapses(j)) \/ UNCHANGED vars
    PROVE  LockInv'
<1>1. Holders' = Holders
  BY OtherHolders
<1>2. /\ dead' = dead
      /\ ~broken' => ~broken
      /\ ~broken' /\ status' # status => status' = "gone" \/ (Holders = {} /\ status' # "refreshing")
  BY OtherStatus
<1> QED
  BY <1>1, <1>2 DEF LockInv, OneHolder, LockedIsInUse

LEMMA LockInit == Init => Claimed /\ LockInv
<1> SUFFICES ASSUME Init PROVE Claimed /\ LockInv
  OBVIOUS
<1>1. \A x \in Syncs : sync[x].stage = "none"
  BY DEF Init, NoSync
<1>2. Claimed
  BY <1>1, Names DEF Init, Claimed, NoHook
<1>3. Holders = {}
  BY <1>1 DEF Holders, Locked
<1> QED
  BY <1>2, <1>3 DEF Init, LockInv, OneHolder, LockedIsInUse

LEMMA LockStep == TypeOK /\ Claimed /\ LockInv /\ [Next]_vars => LockInv'
  BY NextSplits, SyncLock, OtherLock

LEMMA LockInvariant == Spec => [](Claimed /\ LockInv)
  BY LockInit, LockStep, ClaimedStep, TypeCorrect, PTL DEF Spec

(* The compare-and-set on the status keeps synchronisations apart, for any    *)
(* number of agents' calls, events and faults, until somebody else writes it. *)
THEOREM LockExclusive == Spec => []LockIsExclusive
<1>1. LockInv => LockIsExclusive
  <2> SUFFICES ASSUME LockInv, ~broken PROVE Cardinality(Holders) <= 1
    BY DEF LockIsExclusive
  <2>1. CASE Holders = {}
    BY <2>1, FS_EmptySet
  <2>2. CASE Holders # {}
    <3>1. PICK x \in Holders : Holders = {x}
      BY <2>2 DEF LockInv, OneHolder
    <3> QED
      BY <3>1, FS_Singleton
  <2> QED
    BY <2>1, <2>2
<1> QED
  BY <1>1, LockInvariant, PTL

(* A connection that stays locked was locked by a synchronisation that died,  *)
(* or by somebody who wrote the status of a locked connection.                *)
THEOREM LockInUse == Spec => []LockedIsInUse
<1>1. LockInv => LockedIsInUse
  BY DEF LockInv
<1> QED
  BY <1>1, LockInvariant, PTL

-----------------------------------------------------------------------------
(* The cursor. *)

(* What an event tells of is at the provider, no event of a job is unknown,    *)
(* and a fetch is as new as the event it is for.                               *)
Told ==
    /\ stored <= truth
    /\ \A e \in Events : inbox[e].told <= truth
    /\ \A e \in Events : phase[Webhook(e)] # "absent" \/ phase[Reconciliation(e)] # "absent"
           => inbox[e].status # "absent"
    /\ \A x \in Syncs : sync[x].stage \in {"storing", "finishing"} => sync[x].got <= truth
    /\ \A e \in Events, n \in Claims :
           sync[<<Reconciliation(e), n>>].stage \in {"storing", "finishing"} =>
               inbox[e].told <= sync[<<Reconciliation(e), n>>].got

(* Why the cursor stays behind: those who will write it hold a cursor that has *)
(* been stored, and nobody stores while a holder is between fetch and write.   *)
Behind ==
    ~broken /\ ~wiped =>
        /\ cursor <= stored
        /\ \A x \in Syncs : sync[x].stage \in {"locking"} \cup Locked => sync[x].base <= stored
        /\ \A x \in Syncs : At(x, "storing") => stored <= sync[x].got
        /\ \A x \in Syncs : At(x, "finishing") => sync[x].got <= stored
        /\ \A e \in Events, n \in Claims : HookAt(e, n, "acting") => hook[e][n].base <= stored
        /\ \A e \in Events, n \in Claims :
               At(<<Reconciliation(e), n>>, "succeeding") => inbox[e].told <= stored
        /\ \A e \in Events : phase[Reconciliation(e)] = "succeeded" => inbox[e].told <= stored

LEMMA Numbers ==
    ASSUME TypeOK
    PROVE  /\ truth \in Nat /\ stored \in Nat /\ cursor \in Nat
           /\ \A e \in Events : inbox[e].told \in Nat
           /\ \A x \in Syncs : sync[x].base \in Nat /\ sync[x].got \in Nat
           /\ \A e \in Events, n \in Claims : hook[e][n].base \in Nat
<1>1. Cursors \subseteq Nat
  BY BoundsAssumption DEF Cursors
<1> QED
  BY <1>1 DEF TypeOK, Inbox, Places, HookPlaces

(* What a synchronisation takes with it. *)
LEMMA SyncFields ==
    ASSUME TypeOK, NEW x \in Syncs
    PROVE  /\ Read(x) => At(x, "none")' \/ sync'[x].base = cursor
           /\ FetchPages(x) => sync'[x].base = sync[x].base /\ sync'[x].got = truth
           /\ Lock(x) \/ UpsertAccount(x) \/ Store(x) \/ Finish(x)
                => At(x, "none")' \/ (sync'[x].base = sync[x].base /\ sync'[x].got = sync[x].got)
<1>1. DOMAIN sync = Syncs /\ sync[x] \in Places /\ NoSync.stage = "none"
  BY DEF TypeOK, NoSync
<1>2. /\ [sync[x] EXCEPT !.stage = "locking", !.base = cursor].base = cursor
      /\ [sync[x] EXCEPT !.stage = "storing", !.got = truth].base = sync[x].base
      /\ [sync[x] EXCEPT !.stage = "storing", !.got = truth].got = truth
      /\ \A s : [sync[x] EXCEPT !.stage = s].base = sync[x].base
      /\ \A s : [sync[x] EXCEPT !.stage = s].got = sync[x].got
  BY <1>1 DEF Places
<1>3. ASSUME NEW s, Goto(x, s) PROVE sync'[x].base = sync[x].base /\ sync'[x].got = sync[x].got
  BY <1>1, <1>2, <1>3 DEF Goto
<1>4. Leave(x) => At(x, "none")'
  BY <1>1 DEF Leave, At
<1>5. Read(x) => At(x, "none")' \/ sync'[x].base = cursor
  BY <1>1, <1>2, <1>4 DEF Read
<1>6. FetchPages(x) => sync'[x].base = sync[x].base /\ sync'[x].got = truth
  BY <1>1, <1>2 DEF FetchPages
<1>7. Lock(x) \/ UpsertAccount(x) \/ Store(x) \/ Finish(x)
        => At(x, "none")' \/ (sync'[x].base = sync[x].base /\ sync'[x].got = sync[x].got)
  BY <1>3, <1>4 DEF Lock, UpsertAccount, Store, Finish
<1> QED
  BY <1>5, <1>6, <1>7

(* Everyone else leaves a synchronisation where it is, or before its lock. *)
LEMMA OtherSyncs ==
    ASSUME TypeOK, Claimed,
           (\E e \in Events : Deliver(e)) \/ Use \/ AgentSyncs \/ ProviderUpdates
               \/ (\E j \in Jobs : LeaseLapses(j)) \/ UNCHANGED vars,
           NEW y \in Syncs
    PROVE  sync'[y] = sync[y] \/ sync'[y].stage \in {"none", "checking", "reading"}
<1>1. \A s : sync' = [sync EXCEPT ![y] = [sync[y] EXCEPT !.stage = s]] => sync'[y].stage = s
  BY DEF TypeOK, Places
<1>2. ASSUME NEW x \in Syncs, Goto(x, "reading") \/ Goto(x, "checking") \/ Leave(x)
      PROVE  sync'[y] = sync[y] \/ sync'[y].stage \in {"none", "checking", "reading"}
  BY <1>1, <1>2 DEF Goto, Leave, NoSync, TypeOK, Places
<1>3. CASE AgentSyncs
  BY <1>2, <1>3, Names DEF AgentSyncs
<1>4. ASSUME NEW e \in Events, NEW n \in Claims, CheckReady(e, n)
      PROVE  sync'[y] = sync[y] \/ sync'[y].stage \in {"none", "checking", "reading"}
  BY <1>2, <1>4, Names DEF CheckReady
<1>5. ASSUME NEW e \in Events, StartReconciliation(e)
      PROVE  sync'[y] = sync[y] \/ sync'[y].stage \in {"none", "checking", "reading"}
  <2>1. holder[Reconciliation(e)] + 1 \in Claims
    BY <1>5, Names, MaxClaimsAssumption DEF TypeOK, QueueTypeOK, StartReconciliation, ClaimJob, Claims
  <2>2. Goto(<<Reconciliation(e), holder[Reconciliation(e)] + 1>>, "checking")
    BY <1>5 DEF StartReconciliation, Goto
  <2> QED
    BY <1>2, <2>1, <2>2, Names
<1>6. CASE sync' = sync
  BY <1>6
<1> QED
  BY <1>3, <1>4, <1>5, <1>6
     DEF Deliver, JobStep, Receive, EnqueueEvent, StartWebhook, FindConnection, Act, FinishEvent, SucceedEvent,
         EventFails, Use, CheckRead, CheckWrite, UpdateConnection, Disconnect, DeleteAccounts, DeleteConnection,
         UserCallFails, Untouched, ProviderUpdates, LeaseLapses, vars

(* What a synchronisation does to the jobs. *)
LEMMA SyncJobs ==
    ASSUME TypeOK, NEW x \in Syncs, SyncStep(x), NEW j \in Jobs
    PROVE  /\ phase[j] = "absent" => phase'[j] = "absent"
           /\ phase'[j] = "succeeded" /\ phase[j] # "succeeded" => Succeed(x) /\ x # AgentSync /\ x[1] = j
<1>1. CASE UNCHANGED queue
  BY <1>1 DEF queue
<1>2. CASE x # AgentSync /\ StopJob(x[1], x[2])
  BY <1>2 DEF StopJob
<1>3. CASE x # AgentSync /\ FailJob(x[1], x[2])
  BY <1>3 DEF FailJob, ConcludeJob, TypeOK, QueueTypeOK
<1>4. CASE x # AgentSync /\ ConcludeJob(x[1], x[2], "dead_letter")
  BY <1>4 DEF ConcludeJob, TypeOK, QueueTypeOK
<1>5. CASE Succeed(x)
  BY <1>5, <1>1 DEF Succeed, Conclude, ConcludeJob, TypeOK, QueueTypeOK
<1> QED
  BY <1>1, <1>2, <1>3, <1>4, <1>5
     DEF SyncStep, Read, Lock, UpsertAccount, FetchPages, Store, Finish, RowMissing, SyncFails, LoginRequired,
         SyncDies, Conclude, Retry

(* What anyone else does to them. *)
LEMMA OtherJobs ==
    ASSUME TypeOK,
           (\E e \in Events : Deliver(e)) \/ Use \/ AgentSyncs \/ ProviderUpdates
               \/ (\E j \in Jobs : LeaseLapses(j)) \/ UNCHANGED vars,
           NEW f \in Events
    PROVE  /\ phase'[Reconciliation(f)] = "succeeded" => phase[Reconciliation(f)] = "succeeded"
           /\ phase[Reconciliation(f)] = "absent" /\ phase'[Reconciliation(f)] # "absent"
                  => \E n \in Claims : Act(f, n)
           /\ phase[Webhook(f)] = "absent" /\ phase'[Webhook(f)] # "absent" => EnqueueEvent(f)
<1> DEFINE Goal ==
           /\ phase'[Reconciliation(f)] = "succeeded" => phase[Reconciliation(f)] = "succeeded"
           /\ phase[Reconciliation(f)] = "absent" /\ phase'[Reconciliation(f)] # "absent"
                  => \E n \in Claims : Act(f, n)
           /\ phase[Webhook(f)] = "absent" /\ phase'[Webhook(f)] # "absent" => EnqueueEvent(f)
<1>1. /\ \A e \in Events : Webhook(e) \in Jobs /\ Reconciliation(e) \in Jobs
      /\ \A e, g \in Events : Webhook(e) # Reconciliation(g)
      /\ \A e, g \in Events : Webhook(e) = Webhook(g) \/ Reconciliation(e) = Reconciliation(g) => e = g
      /\ phase \in [Jobs -> Phases]
  BY Names DEF Webhook, Reconciliation, TypeOK, QueueTypeOK
<1>2. ASSUME NEW j \in Jobs, LapseJob(j) \/ ClaimJob(j) \/ \E n : FailJob(j, n) \/ StopJob(j, n)
      PROVE  Goal
  BY <1>1, <1>2 DEF LapseJob, ClaimJob, FailJob, StopJob, ConcludeJob
<1>3. ASSUME NEW e \in Events, NEW n, NEW verdict, ConcludeJob(Webhook(e), n, verdict)
      PROVE  Goal
  BY <1>1, <1>3 DEF ConcludeJob
<1>4. ASSUME NEW e \in Events, EnqueueEvent(e)
      PROVE  Goal
  BY <1>1, <1>4 DEF EnqueueEvent, EnqueueJob
<1>5. ASSUME NEW e \in Events, NEW n \in Claims, Act(e, n)
      PROVE  Goal
  BY <1>1, <1>5 DEF Act, EnqueueJob, queue
<1>6. CASE UNCHANGED queue
  BY <1>6 DEF queue
<1>7. ASSUME NEW e \in Events, NEW n \in Claims, CheckReady(e, n)
      PROVE  Goal
  <2>1. UNCHANGED queue \/ FailJob(Reconciliation(e), n)
    BY <1>7, Names, AgentSyncAssumption DEF CheckReady, Retry
  <2> QED
    BY <1>1, <1>2, <1>6, <2>1
<1>8. ASSUME NEW e \in Events, NEW n \in Claims,
             FindConnection(e, n) \/ FinishEvent(e, n) \/ SucceedEvent(e, n) \/ EventFails(e, n)
      PROVE  Goal
  BY <1>1, <1>2, <1>3, <1>6, <1>8 DEF FindConnection, FinishEvent, SucceedEvent, EventFails
<1>9. CASE \E j \in Jobs : LeaseLapses(j)
  BY <1>2, <1>9 DEF LeaseLapses
<1>10. ASSUME NEW e \in Events, StartWebhook(e) \/ StartReconciliation(e)
       PROVE  Goal
  BY <1>1, <1>2, <1>10 DEF StartWebhook, StartReconciliation
<1>11. ASSUME NEW e \in Events, Deliver(e)
       PROVE  Goal
  BY <1>4, <1>5, <1>6, <1>7, <1>8, <1>10, <1>11 DEF Deliver, JobStep, Receive
<1>12. CASE Use \/ AgentSyncs \/ ProviderUpdates \/ UNCHANGED vars
  BY <1>6, <1>12 DEF Use, CheckRead, CheckWrite, UpdateConnection, Disconnect, DeleteAccounts, DeleteConnection,
                     UserCallFails, Untouched, AgentSyncs, ProviderUpdates, vars, queue
<1> QED
  BY <1>9, <1>11, <1>12

LEMMA ToldSync ==
    ASSUME TypeOK, Told, NEW x \in Syncs, SyncStep(x)
    PROVE  Told'
<1>1. inbox' = inbox /\ truth' = truth
  BY DEF SyncStep, Read, Lock, UpsertAccount, FetchPages, Store, Finish, Succeed, RowMissing, SyncFails,
         LoginRequired, SyncDies, Beside
<1>2. stored' = stored \/ (Store(x) /\ stored' = sync[x].got)
  BY DEF SyncStep, Read, Lock, UpsertAccount, FetchPages, Store, Finish, Succeed, RowMissing, SyncFails,
         LoginRequired, SyncDies, data
<1>3. stored' <= truth
  BY <1>2, SyncStages DEF Told, At
<1>4. ASSUME NEW y \in Syncs, sync'[y].stage \in {"storing", "finishing"}
      PROVE  \/ sync'[y].got = truth
             \/ sync'[y].got = sync[y].got /\ sync[y].stage \in {"storing", "finishing"}
  <2>1. CASE y # x
    BY <1>4, <2>1, OthersStay
  <2>2. CASE y = x
    BY <1>4, <2>2, SyncStages, SyncFields DEF SyncStep, At
  <2> QED
    BY <2>1, <2>2
<1>5. \A e \in Events : \/ phase'[Webhook(e)] # "absent" \/ phase'[Reconciliation(e)] # "absent"
                         => inbox[e].status # "absent"
  BY SyncJobs, Names DEF Told
<1>6. \A y \in Syncs : sync'[y].stage \in {"storing", "finishing"} => sync'[y].got <= truth
  BY <1>4, Numbers DEF Told
<1>7. \A e \in Events, n \in Claims :
          sync'[<<Reconciliation(e), n>>].stage \in {"storing", "finishing"} =>
              inbox[e].told <= sync'[<<Reconciliation(e), n>>].got
  <2> SUFFICES ASSUME NEW e \in Events, NEW n \in Claims,
                      sync'[<<Reconciliation(e), n>>].stage \in {"storing", "finishing"}
               PROVE  inbox[e].told <= sync'[<<Reconciliation(e), n>>].got
    OBVIOUS
  <2>1. <<Reconciliation(e), n>> \in Syncs
    BY Names
  <2> QED
    BY <1>4, <2>1 DEF Told
<1> QED
  BY <1>1, <1>3, <1>5, <1>6, <1>7 DEF Told

(* The event of a job or a synchronisation that exists tells the same for good. *)
LEMMA InboxKeeps ==
    ASSUME TypeOK, Told, Next, NEW e \in Events
    PROVE  /\ inbox[e].status # "absent" => inbox'[e].status # "absent" /\ inbox'[e].told = inbox[e].told
           /\ inbox'[e].told = inbox[e].told \/ inbox'[e].told = truth
<1>1. ASSUME NEW f \in Events, NEW kind \in {"updates", "login", "expiring"}, Receive(f, kind)
      PROVE  /\ inbox[e].status # "absent" => inbox'[e] = inbox[e]
             /\ inbox'[e] = inbox[e] \/ inbox'[e].told = truth
  BY <1>1 DEF Receive, TypeOK
<1>2. ASSUME NEW f \in Events, Settle(f, "processed") \/ Settle(f, "failed")
      PROVE  inbox'[e].told = inbox[e].told /\ (inbox[e].status # "absent" => inbox'[e].status # "absent")
  <2>1. PICK s \in {"processed", "failed"} : inbox' = [inbox EXCEPT ![f] = [inbox[f] EXCEPT !.status = s]]
    BY <1>2 DEF Settle
  <2>2. inbox[f] \in Inbox
    BY DEF TypeOK
  <2>3. [inbox[f] EXCEPT !.status = s].told = inbox[f].told /\ [inbox[f] EXCEPT !.status = s].status = s
    BY <2>2 DEF Inbox
  <2> QED
    BY <2>1, <2>3 DEF TypeOK
<1>3. CASE inbox' = inbox
  BY <1>3
<1>4. \/ \E f \in Events, kind \in {"updates", "login", "expiring"} : Receive(f, kind)
      \/ \E f \in Events : Settle(f, "processed") \/ Settle(f, "failed")
      \/ inbox' = inbox
  BY DEF Next, SyncStep, Read, Lock, UpsertAccount, FetchPages, Store, Finish, Succeed, RowMissing, SyncFails,
         LoginRequired, SyncDies, Beside, JobStep, EnqueueEvent, StartWebhook, StartReconciliation, FindConnection,
         Act, FinishEvent, SucceedEvent, EventFails, CheckReady, CheckRead, CheckWrite, UpdateConnection, Disconnect,
         DeleteAccounts, DeleteConnection, UserCallFails, Untouched, AgentSyncs, ProviderUpdates, LeaseLapses, Rest
<1> QED
  BY <1>1, <1>2, <1>3, <1>4

LEMMA ToldOthers ==
    ASSUME TypeOK, Claimed, Told, Next,
           (\E e \in Events : Deliver(e)) \/ Use \/ AgentSyncs \/ ProviderUpdates \/ (\E j \in Jobs : LeaseLapses(j))
    PROVE  Told'
<1>1. truth <= truth' /\ truth' \in Nat /\ (stored' = stored \/ stored' = 0)
  <2>1. truth' = truth \/ ProviderUpdates
    BY DEF Deliver, JobStep, Receive, EnqueueEvent, StartWebhook, StartReconciliation, FindConnection, Act,
           FinishEvent, SucceedEvent, EventFails, CheckReady, Use, CheckRead, CheckWrite, UpdateConnection,
           Disconnect, DeleteAccounts, DeleteConnection, UserCallFails, Untouched, AgentSyncs, LeaseLapses,
           Rest, Beside
  <2>2. stored' = stored \/ stored' = 0
    BY DEF Deliver, JobStep, Receive, EnqueueEvent, StartWebhook, StartReconciliation, FindConnection, Act,
           FinishEvent, SucceedEvent, EventFails, CheckReady, Use, CheckRead, CheckWrite, UpdateConnection,
           Disconnect, DeleteAccounts, DeleteConnection, UserCallFails, AgentSyncs, LeaseLapses, ProviderUpdates,
           Rest, data
  <2> QED
    BY <2>1, <2>2, Numbers DEF ProviderUpdates
<1>2. stored' <= truth'
  BY <1>1, Numbers DEF Told
<1>3. \A e \in Events : inbox'[e].told <= truth'
  BY <1>1, InboxKeeps, Numbers DEF Told
<1>4. ASSUME NEW e \in Events, phase'[Webhook(e)] # "absent" \/ phase'[Reconciliation(e)] # "absent"
      PROVE  inbox'[e].status # "absent"
  <2>1. CASE phase[Webhook(e)] # "absent" \/ phase[Reconciliation(e)] # "absent"
    BY <2>1, InboxKeeps DEF Told
  <2>2. ASSUME NEW n \in Claims, Act(e, n)
        PROVE  inbox[e].status # "absent"
    BY <2>2 DEF Act, HookAt, Claimed, Told
  <2>3. EnqueueEvent(e) => inbox[e].status # "absent"
    BY DEF EnqueueEvent
  <2> QED
    BY <1>4, <2>1, <2>2, <2>3, OtherJobs, InboxKeeps
<1>5. \A y \in Syncs : sync'[y].stage \in {"storing", "finishing"} => sync'[y] = sync[y]
  BY OtherSyncs
<1>6. \A y \in Syncs : sync'[y].stage \in {"storing", "finishing"} => sync'[y].got <= truth'
  BY <1>1, <1>5, Numbers DEF Told
<1>7. ASSUME NEW e \in Events, NEW n \in Claims,
             sync'[<<Reconciliation(e), n>>].stage \in {"storing", "finishing"}
      PROVE  inbox'[e].told <= sync'[<<Reconciliation(e), n>>].got
  <2>1. sync'[<<Reconciliation(e), n>>] = sync[<<Reconciliation(e), n>>]
    BY <1>5, <1>7, Names
  <2>2. inbox[e].status # "absent"
    BY <1>7, <2>1 DEF Claimed, Told
  <2> QED
    BY <1>7, <2>1, <2>2, InboxKeeps DEF Told
<1> QED
  BY <1>2, <1>3, <1>4, <1>6, <1>7 DEF Told

LEMMA ToldStep == TypeOK /\ Claimed /\ Told /\ [Next]_vars => Told'
<1>1. TypeOK /\ Claimed /\ Told /\ UNCHANGED vars => Told'
  BY DEF vars, data, Told
<1> QED
  BY <1>1, NextSplits, ToldSync, ToldOthers

LEMMA BehindSync ==
    ASSUME TypeOK, LockInv, LockInv', Told, Behind, NEW x \in Syncs, SyncStep(x)
    PROVE  Behind'
<1>1. inbox' = inbox /\ hook' = hook /\ wiped' = wiped
  BY DEF SyncStep, Read, Lock, UpsertAccount, FetchPages, Store, Finish, Succeed, RowMissing, SyncFails,
         LoginRequired, SyncDies, Beside
<1>2. ~broken' => ~broken
  BY DEF SyncStep, Read, Lock, UpsertAccount, FetchPages, Store, Finish, Succeed, RowMissing, SyncFails,
         LoginRequired, SyncDies, Release
<1> SUFFICES ASSUME ~broken', ~wiped', ~broken, ~wiped PROVE Behind'
  BY <1>1, <1>2 DEF Behind
<1>3. /\ cursor <= stored
      /\ \A y \in Syncs : sync[y].stage \in {"locking"} \cup Locked => sync[y].base <= stored
      /\ \A y \in Syncs : At(y, "storing") => stored <= sync[y].got
      /\ \A y \in Syncs : At(y, "finishing") => sync[y].got <= stored
      /\ \A e \in Events, n \in Claims : HookAt(e, n, "acting") => hook[e][n].base <= stored
      /\ \A e \in Events, n \in Claims :
             At(<<Reconciliation(e), n>>, "succeeding") => inbox[e].told <= stored
      /\ \A e \in Events : phase[Reconciliation(e)] = "succeeded" => inbox[e].told <= stored
  BY DEF Behind
<1>4. \A y \in Syncs : y # x => sync'[y] = sync[y]
  BY OthersStay
<1>5. stored' = stored \/ Store(x)
  BY DEF SyncStep, Read, Lock, UpsertAccount, FetchPages, Store, Finish, Succeed, RowMissing, SyncFails,
         LoginRequired, SyncDies, data
<1>6. Store(x) => /\ stored <= stored' /\ stored' \in Nat /\ sync[x].got <= stored'
                  /\ \A y \in Syncs : y # x => sync[y].stage \notin Locked
  <2> SUFFICES ASSUME Store(x)
               PROVE  /\ stored <= stored' /\ stored' \in Nat /\ sync[x].got <= stored'
                      /\ \A y \in Syncs : y # x => sync[y].stage \notin Locked
    OBVIOUS
  <2>1. At(x, "storing") /\ stored <= sync[x].got /\ sync[x].base <= stored
    BY <1>3, SyncStages DEF At, Locked
  <2>2. stored' = IF sync[x].got > sync[x].base THEN sync[x].got ELSE stored
    BY DEF Store
  <2>3. \A y \in Syncs : y # x => sync[y].stage \notin Locked
    BY <2>1 DEF At, Holders, LockInv, OneHolder, Locked
  <2> QED
    BY <2>1, <2>2, <2>3, Numbers
<1>7. stored <= stored' /\ stored' \in Nat
  BY <1>5, <1>6, Numbers
<1>8. cursor' <= stored'
  <2>1. cursor' = cursor \/ (Finish(x) /\ cursor' = sync[x].got)
    BY DEF SyncStep, Read, Lock, UpsertAccount, FetchPages, Store, Finish, Succeed, RowMissing, SyncFails,
           LoginRequired, SyncDies
  <2>2. Finish(x) => sync[x].got <= stored
    BY <1>3, SyncStages
  <2> QED
    BY <1>3, <1>7, <2>1, <2>2, Numbers
<1>9. ASSUME NEW y \in Syncs, sync'[y].stage \in {"locking"} \cup Locked
      PROVE  sync'[y].base <= stored'
  <2>1. CASE y # x
    BY <1>3, <1>4, <1>7, <1>9, <2>1, Numbers
  <2>2. CASE y = x
    <3>1. \/ sync'[x].base = cursor
          \/ sync'[x].base = sync[x].base /\ sync[x].stage \in {"locking"} \cup Locked
      BY <1>9, <2>2, SyncStages, SyncFields DEF SyncStep, At, Locked
    <3> QED
      BY <1>3, <1>7, <2>2, <3>1, Numbers
  <2> QED
    BY <2>1, <2>2
<1>10. ASSUME NEW y \in Syncs, At(y, "storing")'
       PROVE  stored' <= sync'[y].got
  <2>1. CASE y # x
    <3>1. sync[y].stage = "storing" /\ sync'[y] = sync[y]
      BY <1>4, <1>10, <2>1 DEF At
    <3>2. ~Store(x)
      BY <1>6, <2>1, <3>1 DEF Locked
    <3> QED
      BY <1>3, <1>5, <3>1, <3>2 DEF At
  <2>2. CASE y = x
    <3>1. FetchPages(x) /\ sync'[x].got = truth
      BY <1>10, <2>2, SyncStages, SyncFields DEF SyncStep, At
    <3>2. ~Store(x)
      BY <1>10, <2>2, SyncStages DEF At
    <3> QED
      BY <1>5, <2>2, <3>1, <3>2 DEF Told
  <2> QED
    BY <2>1, <2>2
<1>11. ASSUME NEW y \in Syncs, At(y, "finishing")'
       PROVE  sync'[y].got <= stored'
  <2>1. CASE y # x
    BY <1>3, <1>4, <1>7, <1>11, <2>1, Numbers DEF At
  <2>2. CASE y = x
    <3>1. Store(x) /\ sync'[x].got = sync[x].got
      BY <1>11, <2>2, SyncStages, SyncFields DEF SyncStep, At
    <3> QED
      BY <1>6, <2>2, <3>1
  <2> QED
    BY <2>1, <2>2
<1>12. ASSUME NEW e \in Events, NEW n \in Claims, At(<<Reconciliation(e), n>>, "succeeding")'
       PROVE  inbox[e].told <= stored'
  <2> DEFINE y == <<Reconciliation(e), n>>
  <2>1. y \in Syncs
    BY Names
  <2>2. CASE y # x
    <3>1. At(y, "succeeding")
      BY <1>4, <1>12, <2>1, <2>2 DEF At
    <3> QED
      BY <1>3, <1>7, <3>1, Numbers
  <2>3. CASE y = x
    <3>1. sync'[x].stage = "succeeding"
      BY <1>12, <2>3 DEF At
    <3>2. Finish(x)
      BY <3>1, SyncStages DEF SyncStep, At
    <3>3. At(x, "finishing") /\ sync[x].got <= stored
      BY <1>3, <3>2, SyncStages
    <3>4. inbox[e].told <= sync[x].got
      BY <2>3, <3>3 DEF Told, At
    <3> QED
      BY <1>7, <3>3, <3>4, Numbers
  <2> QED
    BY <2>2, <2>3
<1>13. ASSUME NEW e \in Events, phase'[Reconciliation(e)] = "succeeded"
       PROVE  inbox[e].told <= stored'
  <2>1. CASE phase[Reconciliation(e)] = "succeeded"
    BY <1>3, <1>7, <2>1, Numbers
  <2>2. CASE phase[Reconciliation(e)] # "succeeded"
    <3>1. Succeed(x) /\ x # AgentSync /\ x[1] = Reconciliation(e)
      BY <1>13, <2>2, SyncJobs, Names
    <3>2. PICK f \in Events, n \in Claims : x = <<Reconciliation(f), n>>
      BY <3>1, Names
    <3>3. f = e
      BY <3>1, <3>2 DEF Reconciliation
    <3>4. At(<<Reconciliation(e), n>>, "succeeding")
      BY <3>1, <3>2, <3>3, SyncStages
    <3> QED
      BY <1>3, <1>7, <3>4, Numbers
  <2> QED
    BY <2>1, <2>2
<1>14. \A e \in Events, n \in Claims : HookAt(e, n, "acting")' => hook[e][n].base <= stored'
  BY <1>1, <1>3, <1>7, Numbers DEF HookAt
<1> QED
  BY <1>1, <1>8, <1>9, <1>10, <1>11, <1>12, <1>13, <1>14 DEF Behind

(* The other writers of the cursor and of what is stored. *)
LEMMA OtherData ==
    ASSUME TypeOK, Next,
           (\E e \in Events : Deliver(e)) \/ Use \/ AgentSyncs \/ ProviderUpdates \/ (\E j \in Jobs : LeaseLapses(j))
    PROVE  /\ (wiped' = wiped /\ stored' = stored) \/ wiped'
           /\ wiped => wiped'
           /\ \/ cursor' = cursor
              \/ \E e \in Events, n \in Claims : HookAt(e, n, "acting") /\ cursor' = hook[e][n].base
           /\ \A e \in Events, n \in Claims : HookAt(e, n, "acting")' =>
                  (HookAt(e, n, "acting") /\ hook'[e][n].base = hook[e][n].base) \/ hook'[e][n].base = cursor
<1>1. (wiped' = wiped /\ stored' = stored) \/ wiped'
  <2>1. CASE \E e \in Events : Deliver(e)
    <3>1. UNCHANGED Rest
      BY <2>1 DEF Deliver, JobStep, Receive, EnqueueEvent, StartWebhook, StartReconciliation, FindConnection,
                  Act, FinishEvent, SucceedEvent, EventFails, CheckReady
    <3> QED
      BY <3>1 DEF Rest, data
  <2>2. CASE DeleteAccounts
    BY <2>2 DEF DeleteAccounts
  <2>3. CASE CheckRead \/ CheckWrite \/ UpdateConnection \/ Disconnect \/ DeleteConnection \/ UserCallFails
    BY <2>3 DEF CheckRead, CheckWrite, UpdateConnection, Disconnect, DeleteConnection, UserCallFails, data
  <2>4. CASE AgentSyncs \/ ProviderUpdates \/ (\E j \in Jobs : LeaseLapses(j))
    BY <2>4 DEF AgentSyncs, LeaseLapses, ProviderUpdates, Rest, Beside, data, ghosts
  <2> QED
    BY <2>1, <2>2, <2>3, <2>4 DEF Use
<1>2. \/ cursor' = cursor
      \/ \E e \in Events, n \in Claims : HookAt(e, n, "acting") /\ cursor' = hook[e][n].base
  BY DEF Deliver, JobStep, Receive, EnqueueEvent, StartWebhook, StartReconciliation, FindConnection, Act,
         FinishEvent, SucceedEvent, EventFails, CheckReady, Use, CheckRead, CheckWrite, UpdateConnection,
         Disconnect, DeleteAccounts, DeleteConnection, UserCallFails, Untouched, AgentSyncs, LeaseLapses,
         ProviderUpdates
<1>3. ASSUME NEW e \in Events, NEW n \in Claims, HookAt(e, n, "acting")'
      PROVE  (HookAt(e, n, "acting") /\ hook'[e][n].base = hook[e][n].base) \/ hook'[e][n].base = cursor
  <2>1. \A f \in Events, m \in Claims : hook[f][m] \in HookPlaces /\ hook[f] \in [Claims -> HookPlaces]
    BY DEF TypeOK
  <2>2. ASSUME NEW f \in Events, NEW m \in Claims, NEW h,
               hook' = [hook EXCEPT ![f] = [hook[f] EXCEPT ![m] = h]],
               h.stage # "acting" \/ h.base = cursor
        PROVE  hook'[e][n] = hook[e][n] \/ hook'[e][n].base = cursor
    <3>1. hook'[e][n] = IF e = f /\ n = m THEN h ELSE hook[e][n]
      BY <2>1, <2>2 DEF TypeOK
    <3> QED
      BY <1>3, <2>2, <3>1 DEF HookAt
  <2>3. ASSUME NEW f \in Events, NEW m \in Claims, FindConnection(f, m)
        PROVE  hook'[e][n] = hook[e][n] \/ hook'[e][n].base = cursor
    BY <2>2, <2>3 DEF FindConnection, HookLeaves, NoHook
  <2>4. ASSUME NEW f \in Events, NEW m \in Claims, NEW s \in {"finding", "finishing", "succeeding"},
               hook' = [hook EXCEPT ![f][m].stage = s]
        PROVE  hook'[e][n] = hook[e][n] \/ hook'[e][n].base = cursor
    <3>1. hook' = [hook EXCEPT ![f] = [hook[f] EXCEPT ![m] = [hook[f][m] EXCEPT !.stage = s]]]
      BY <2>4
    <3>2. [hook[f][m] EXCEPT !.stage = s].stage = s
      BY <2>1 DEF HookPlaces
    <3> QED
      BY <2>2, <3>1, <3>2
  <2>5. ASSUME NEW f \in Events, NEW m \in Claims, HookLeaves(f, m)
        PROVE  hook'[e][n] = hook[e][n] \/ hook'[e][n].base = cursor
    BY <2>2, <2>5 DEF HookLeaves, NoHook
  <2>6. ASSUME NEW f \in Events, NEW m \in Claims,
               Act(f, m) \/ FinishEvent(f, m) \/ SucceedEvent(f, m) \/ EventFails(f, m) \/ CheckReady(f, m)
        PROVE  hook'[e][n] = hook[e][n] \/ hook'[e][n].base = cursor
    BY <2>4, <2>5, <2>6 DEF Act, FinishEvent, SucceedEvent, EventFails, CheckReady, HookGoto
  <2>7. ASSUME NEW f \in Events, StartWebhook(f)
        PROVE  hook'[e][n] = hook[e][n] \/ hook'[e][n].base = cursor
    <3>1. holder[Webhook(f)] + 1 \in Claims
      BY <2>7, Names, MaxClaimsAssumption DEF TypeOK, QueueTypeOK, StartWebhook, ClaimJob, Claims
    <3> QED
      BY <2>4, <2>7, <3>1 DEF StartWebhook
  <2>8. hook'[e][n] = hook[e][n] \/ hook'[e][n].base = cursor
    BY <2>3, <2>6, <2>7
       DEF Deliver, JobStep, Receive, EnqueueEvent, StartReconciliation, Use, CheckRead, CheckWrite,
           UpdateConnection, Disconnect, DeleteAccounts, DeleteConnection, UserCallFails, Untouched, AgentSyncs,
           LeaseLapses, ProviderUpdates, Beside
  <2> QED
    BY <1>3, <2>8 DEF HookAt
<1>4. wiped => wiped'
  <2>1. CASE wiped' = wiped
    BY <2>1
  <2>2. CASE wiped'
    BY <2>2
  <2> QED
    BY <1>1, <2>1, <2>2
<1> QED
  BY <1>1, <1>2, <1>3, <1>4

LEMMA BehindOthers ==
    ASSUME TypeOK, Claimed, Told, Behind, Next,
           (\E e \in Events : Deliver(e)) \/ Use \/ AgentSyncs \/ ProviderUpdates \/ (\E j \in Jobs : LeaseLapses(j))
    PROVE  Behind'
<1>1. /\ (wiped' = wiped /\ stored' = stored) \/ wiped'
      /\ wiped => wiped'
      /\ \/ cursor' = cursor
         \/ \E e \in Events, n \in Claims : HookAt(e, n, "acting") /\ cursor' = hook[e][n].base
      /\ \A e \in Events, n \in Claims : HookAt(e, n, "acting")' =>
             (HookAt(e, n, "acting") /\ hook'[e][n].base = hook[e][n].base) \/ hook'[e][n].base = cursor
  BY OtherData
<1>2. ~broken' => ~broken
  BY OtherStatus
<1> SUFFICES ASSUME ~broken', ~wiped', ~broken, ~wiped PROVE Behind'
  BY <1>1, <1>2 DEF Behind
<1>3. /\ cursor <= stored
      /\ \A y \in Syncs : sync[y].stage \in {"locking"} \cup Locked => sync[y].base <= stored
      /\ \A y \in Syncs : At(y, "storing") => stored <= sync[y].got
      /\ \A y \in Syncs : At(y, "finishing") => sync[y].got <= stored
      /\ \A e \in Events, n \in Claims : HookAt(e, n, "acting") => hook[e][n].base <= stored
      /\ \A e \in Events, n \in Claims :
             At(<<Reconciliation(e), n>>, "succeeding") => inbox[e].told <= stored
      /\ \A e \in Events : phase[Reconciliation(e)] = "succeeded" => inbox[e].told <= stored
  BY DEF Behind
<1>4. stored' = stored
  BY <1>1
<1>5. cursor' <= stored
  BY <1>1, <1>3
<1>6. \A y \in Syncs : sync'[y].stage \in {"locking", "succeeding"} \cup Locked => sync'[y] = sync[y]
  BY OtherSyncs DEF Locked
<1>7. /\ \A y \in Syncs : sync'[y].stage \in {"locking"} \cup Locked => sync'[y].base <= stored
      /\ \A y \in Syncs : At(y, "storing")' => stored <= sync'[y].got
      /\ \A y \in Syncs : At(y, "finishing")' => sync'[y].got <= stored
  BY <1>3, <1>6 DEF At, Locked
<1>8. \A e \in Events, n \in Claims : HookAt(e, n, "acting")' => hook'[e][n].base <= stored
  BY <1>1, <1>3
<1>9. ASSUME NEW e \in Events, phase[Reconciliation(e)] # "absent"
      PROVE  inbox'[e].told = inbox[e].told
  BY <1>9, InboxKeeps DEF Told
<1>10. ASSUME NEW e \in Events, NEW n \in Claims, At(<<Reconciliation(e), n>>, "succeeding")'
       PROVE  inbox'[e].told <= stored
  <2>1. At(<<Reconciliation(e), n>>, "succeeding")
    BY <1>6, <1>10, Names DEF At
  <2>2. phase[Reconciliation(e)] # "absent"
    BY <2>1 DEF Claimed, At
  <2> QED
    BY <1>3, <1>9, <2>1, <2>2
<1>11. ASSUME NEW e \in Events, phase'[Reconciliation(e)] = "succeeded"
       PROVE  inbox'[e].told <= stored
  BY <1>3, <1>9, <1>11, OtherJobs
<1> QED
  BY <1>4, <1>5, <1>7, <1>8, <1>10, <1>11 DEF Behind

LEMMA BehindStep == TypeOK /\ Claimed /\ LockInv /\ LockInv' /\ Told /\ Behind /\ [Next]_vars => Behind'
<1>1. Behind /\ UNCHANGED vars => Behind'
  BY DEF vars, data, ghosts, Behind, At, HookAt
<1> QED
  BY <1>1, NextSplits, BehindSync, BehindOthers

LEMMA DataInit == Init => Told /\ Behind
<1> SUFFICES ASSUME Init PROVE Told /\ Behind
  OBVIOUS
<1>1. \A x \in Syncs : sync[x].stage = "none"
  BY DEF Init, NoSync
<1>2. \A e \in Events, n \in Claims : hook[e][n].stage = "none"
  BY DEF Init, NoHook
<1>3. \A e \in Events : /\ phase[Webhook(e)] = "absent" /\ phase[Reconciliation(e)] = "absent"
                        /\ inbox[e].told = 0
  BY Names DEF Init, QueueInit
<1>4. \A e \in Events, n \in Claims : sync[<<Reconciliation(e), n>>].stage = "none"
  BY <1>1, Names
<1> QED
  BY <1>1, <1>2, <1>3, <1>4 DEF Init, Told, Behind, Locked, At, HookAt

LEMMA DataInvariant == Spec => [](Told /\ Behind)
<1>1. Spec => [](TypeOK /\ Claimed /\ LockInv)
  BY LockInvariant, TypeCorrect, PTL
<1>2. TypeOK /\ Claimed /\ LockInv /\ Told /\ Behind /\ LockInv' /\ [Next]_vars => Told' /\ Behind'
  BY ToldStep, BehindStep
<1> QED
  BY <1>1, <1>2, DataInit, PTL DEF Spec

(* Whatever fails in between, no update that the provider would not send      *)
(* again is missing: the cursor is never ahead of what is stored.             *)
THEOREM CursorBehind == Spec => []CursorCoversStored
<1>1. TypeOK /\ Behind => CursorCoversStored
  BY Numbers DEF Behind, CursorCoversStored
<1> QED
  BY <1>1, DataInvariant, TypeCorrect, PTL

(* A reconciliation that succeeded has stored what its event told of, however *)
(* many synchronisations and events there are.                                *)
THEOREM Reconciled == Spec => []ReconciledIsStored
<1>1. TypeOK /\ Behind => ReconciledIsStored
  BY Numbers DEF Behind, ReconciledIsStored
<1> QED
  BY <1>1, DataInvariant, TypeCorrect, PTL
=============================================================================
