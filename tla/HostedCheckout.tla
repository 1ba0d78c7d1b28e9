--------------------------- MODULE HostedCheckout ---------------------------
(***************************************************************************)
(* Approved hand-offs to a provider's own site, over one LifeTransaction   *)
(* row per (user, idempotency key) and the HitlRequest rows that approve   *)
(* them: hostedTravelCheckoutService.ts, hostedShoppingService.ts,         *)
(* hostedHouseholdHandoffService.ts, liveLeisureService.ts, the transition *)
(* function of lifeTransactionService.ts and decideHitlRequest of          *)
(* hitlService.ts.                                                         *)
(*                                                                         *)
(* Every database or provider call of a request is one step; the requests  *)
(* of one user (double clicks, retries, two devices) interleave, and the   *)
(* web process may die with all of them.                                   *)
(***************************************************************************)
EXTENDS Integers, FiniteSets, LifeTransitions

CONSTANTS
    Travel,        \* keys prepared by prepareHostedTravelCheckout
    Shopping,      \* keys prepared by prepareHostedShopping
    Handoff,       \* keys prepared by the household and the leisure hand-off
    Offers,        \* what a client may select under a key (offer, list, place)
    Requests,      \* HTTP requests that can be in flight at the same time
    MaxApprovals,  \* BOUND: HitlRequests created in the model
    None           \* no key, no offer

Keys == Travel \cup Shopping \cup Handoff

(* The keys of the flows that claim their row. *)
OneTimeKeys == Shopping \cup Handoff

ASSUME FlowsAssumption ==
    /\ Travel \cap Shopping = {} /\ Travel \cap Handoff = {} /\ Shopping \cap Handoff = {}
    /\ MaxApprovals \in Nat
    /\ None \notin Keys /\ None \notin Offers

VARIABLES
    tx,         \* tx[k]: the LifeTransaction row of key k
    approvals,  \* approvals[a]: the a-th HitlRequest
    issued,     \* how many HitlRequests exist
    request,    \* request[r]: where an in-flight request is, and what it holds
    pages,      \* pages[k]: hosted pages the shopping provider created for k
    opened,     \* opened[k]: responses that carried the destination of k
    job         \* job[k]: the checkout_confirmation job of k was enqueued

vars == <<tx, approvals, issued, request, pages, opened, job>>

Ids == 1..MaxApprovals

(* approval is hitlRequestId, 0 for null; result is the status in resultJson. *)
Transactions == [state : States \cup {"absent"}, offer : Offers \cup {None},
                 approval : 0..MaxApprovals, result : {"none", "redirected", "uncertain"}]

(* live says that expiresAt has not passed; offer is what the payload binds. *)
Approvals == [status : {"unused", "pending_human_approval", "success", "blocked_by_policy"},
              live : BOOLEAN, offer : Offers \cup {None}]

Stages == {"idle", "requesting", "saving", "linking", "checking", "fetching", "claiming",
           "creating", "recording", "answering", "moving", "writing", "enqueuing"}

(* What a request remembers across its awaits: the key, what it read of the *)
(* row or made, and the state it wants to move the row to.                  *)
Contexts == [stage : Stages, key : Keys \cup {None}, offer : Offers \cup {None},
             approval : 0..MaxApprovals, result : {"none", "redirected", "uncertain"},
             next : {"none", "executing", "uncertain", "cancelled"}]

NoTx   == [state |-> "absent", offer |-> None, approval |-> 0, result |-> "none"]
Unused == [status |-> "unused", live |-> FALSE, offer |-> None]
Idle   == [stage |-> "idle", key |-> None, offer |-> None, approval |-> 0, result |-> "none",
           next |-> "none"]

Init ==
    /\ tx = [k \in Keys |-> NoTx]
    /\ approvals = [a \in Ids |-> Unused]
    /\ issued = 0
    /\ request = [r \in Requests |-> Idle]
    /\ pages = [k \in Keys |-> 0]
    /\ opened = [k \in Keys |-> 0]
    /\ job = [k \in Keys |-> FALSE]

-----------------------------------------------------------------------------
Goto(r, stage) == request' = [request EXCEPT ![r].stage = stage]
Answer(r) == request' = [request EXCEPT ![r] = Idle]

At(r, stage) == request[r].stage = stage

(* The prepare endpoints.  An existing row is replayed: by travel whatever the *)
(* offer, by the others only for the same content; both end the request.       *)
PrepareRead(r, k, offer) ==
    /\ At(r, "idle") /\ tx[k].state = "absent"
    /\ request' = [request EXCEPT ![r] =
                     [Idle EXCEPT !.stage = "requesting", !.key = k, !.offer = offer]]
    /\ UNCHANGED <<tx, approvals, issued, pages, opened, job>>

(* createHitlRequest signs the content and stores it for ten minutes. *)
RequestApproval(r) ==
    /\ At(r, "requesting") /\ issued < MaxApprovals
    /\ issued' = issued + 1
    /\ approvals' = [approvals EXCEPT ![issued + 1] =
                       [status |-> "pending_human_approval", live |-> TRUE,
                        offer |-> request[r].offer]]
    /\ request' = [request EXCEPT ![r].stage = "saving", ![r].approval = issued + 1]
    /\ UNCHANGED <<tx, pages, opened, job>>

NewTx(r) == [state |-> "awaiting_approval", offer |-> request[r].offer,
             approval |-> request[r].approval, result |-> "none"]

BadSaveUnique(r) ==
    /\ At(r, "saving") /\ request[r].key \notin Travel
    /\ tx' = [tx EXCEPT ![request[r].key] = NewTx(r)]
    /\ Answer(r)
    /\ UNCHANGED <<approvals, issued, pages, opened, job>>

(* lifeTransaction.create: the unique constraint refuses a second row. *)
SaveUnique(r) ==
    /\ At(r, "saving") /\ request[r].key \notin Travel
    /\ tx' = IF tx[request[r].key].state = "absent"
             THEN [tx EXCEPT ![request[r].key] = NewTx(r)] ELSE tx
    /\ Answer(r)
    /\ UNCHANGED <<approvals, issued, pages, opened, job>>

(* persistLifeActionPlan: an upsert that leaves a raced row as it is. *)
SaveUpsert(r) ==
    /\ At(r, "saving") /\ request[r].key \in Travel
    /\ tx' = IF tx[request[r].key].state = "absent"
             THEN [tx EXCEPT ![request[r].key] = [NewTx(r) EXCEPT !.approval = 0]] ELSE tx
    /\ Goto(r, "linking")
    /\ UNCHANGED <<approvals, issued, pages, opened, job>>

(* persistAwaitingLifeApproval then links its own approval, by id alone. *)
LinkApproval(r) ==
    /\ At(r, "linking")
    /\ tx' = [tx EXCEPT ![request[r].key].approval = request[r].approval]
    /\ Answer(r)
    /\ UNCHANGED <<approvals, issued, pages, opened, job>>

-----------------------------------------------------------------------------
(* The user decides, and time passes. *)

DecideHitlRequest(a) ==
    /\ approvals[a].status = "pending_human_approval" /\ approvals[a].live
    /\ \E status \in {"success", "blocked_by_policy"} :
         approvals' = [approvals EXCEPT ![a].status = status]
    /\ UNCHANGED <<tx, issued, request, pages, opened, job>>

Expire(a) ==
    /\ approvals[a].live
    /\ approvals' = [approvals EXCEPT ![a].live = FALSE]
    /\ UNCHANGED <<tx, issued, request, pages, opened, job>>

-----------------------------------------------------------------------------
(* The continue endpoints. *)

(* Reads the row; an executing row is replayed without a destination and    *)
(* any other state is refused, which ends the request.                      *)
ContinueRead(r, k) ==
    /\ At(r, "idle") /\ tx[k].approval # 0 /\ tx[k].state = "awaiting_approval"
    /\ request' = [request EXCEPT ![r] =
                     [Idle EXCEPT !.stage = "checking", !.key = k, !.offer = tx[k].offer,
                                  !.approval = tx[k].approval]]
    /\ UNCHANGED <<tx, approvals, issued, pages, opened, job>>

(* Definitions named Bad... are the faulty variants the project's mutants     *)
(* put in place of the definition that follows them.                          *)
BadApproved(r) ==
    LET a == approvals[request[r].approval]
    IN  a.status # "blocked_by_policy" /\ a.live
            /\ (request[r].key \in Travel \/ a.offer = request[r].offer)

(* The approval must have succeeded and be unexpired; outside travel its hash *)
(* must be that of the stored content.                                        *)
Approved(r) ==
    LET a == approvals[request[r].approval]
    IN  a.status = "success" /\ a.live
            /\ (request[r].key \in Travel \/ a.offer = request[r].offer)

AfterCheck(k) == IF k \in Travel THEN "moving" ELSE IF k \in Handoff THEN "fetching" ELSE "claiming"

ContinueCheck(r) ==
    /\ At(r, "checking")
    /\ IF Approved(r)
       THEN request' = [request EXCEPT ![r].stage = AfterCheck(request[r].key), ![r].next = "executing"]
       ELSE Answer(r)
    /\ UNCHANGED <<tx, approvals, issued, pages, opened, job>>

(* The destination is looked up again, before the claim. *)
FetchDestination(r) ==
    /\ At(r, "fetching")
    /\ Goto(r, "claiming")
    /\ UNCHANGED <<tx, approvals, issued, pages, opened, job>>

BadClaim(r) ==
    /\ At(r, "claiming")
    /\ LET k == request[r].key
       IN  /\ tx' = [tx EXCEPT ![k].state = "executing",
                               ![k].result = IF k \in Handoff THEN "redirected" ELSE tx[k].result]
           /\ Goto(r, IF k \in Handoff THEN "answering" ELSE "creating")
    /\ UNCHANGED <<approvals, issued, pages, opened, job>>

(* updateMany on state = awaiting_approval; the hand-offs write the result  *)
(* with it.  A request that loses the race answers with a replay.           *)
Claim(r) ==
    /\ At(r, "claiming")
    /\ LET k == request[r].key
       IN  IF tx[k].state = "awaiting_approval"
           THEN /\ tx' = [tx EXCEPT ![k].state = "executing",
                                    ![k].result = IF k \in Handoff THEN "redirected" ELSE tx[k].result]
                /\ Goto(r, IF k \in Handoff THEN "answering" ELSE "creating")
           ELSE Answer(r) /\ UNCHANGED tx
    /\ UNCHANGED <<approvals, issued, pages, opened, job>>

(* The catch block: the row is to become uncertain. *)
GiveUp(r) == request' = [request EXCEPT ![r].stage = "moving", ![r].next = "uncertain"]

(* createInstacartShoppingPage: a page and an answer, a page whose answer   *)
(* was lost or refused, or no page and an error.                            *)
CreatePage(r) ==
    /\ At(r, "creating")
    /\ \/ pages' = [pages EXCEPT ![request[r].key] = @ + 1] /\ (Goto(r, "recording") \/ GiveUp(r))
       \/ pages' = pages /\ GiveUp(r)
    /\ UNCHANGED <<tx, approvals, issued, opened, job>>

(* The result is written inside the same try: if the call throws, whether or *)
(* not the row was written, the page is given up as uncertain.               *)
RecordPage(r) ==
    /\ At(r, "recording")
    /\ \/ /\ tx' = [tx EXCEPT ![request[r].key].result = "redirected"]
          /\ Goto(r, "answering")
       \/ /\ tx' = tx \/ tx' = [tx EXCEPT ![request[r].key].result = "redirected"]
          /\ GiveUp(r)
    /\ UNCHANGED <<approvals, issued, pages, opened, job>>

(* The response that carries the destination, as all three flows end. *)
AnswerWithDestination(r) ==
    /\ At(r, "answering")
    /\ opened' = [opened EXCEPT ![request[r].key] = opened[request[r].key] + 1]
    /\ Answer(r)
    /\ UNCHANGED <<tx, approvals, issued, pages, job>>

-----------------------------------------------------------------------------
(* transitionPersistedLifeTransaction: a read and a check, then a write.     *)

(* The client's cancel request enters it directly. *)
CancelRequest(r, k) ==
    /\ At(r, "idle") /\ tx[k].state # "absent"
    /\ request' = [request EXCEPT ![r] =
                     [Idle EXCEPT !.stage = "moving", !.key = k, !.next = "cancelled"]]
    /\ UNCHANGED <<tx, approvals, issued, pages, opened, job>>

(* The read keeps hitlRequestId and resultJson to write them back. *)
TransitionRead(r) ==
    /\ At(r, "moving")
    /\ IF MayMove(tx[request[r].key].state, request[r].next)
       THEN request' = [request EXCEPT ![r].stage = "writing",
                                       ![r].approval = tx[request[r].key].approval,
                                       ![r].result = tx[request[r].key].result]
       ELSE Answer(r)
    /\ UNCHANGED <<tx, approvals, issued, pages, opened, job>>

(* The result its caller passes, or the one it read. *)
NextResult(e) == CASE e.next = "executing" -> "redirected"
                   [] e.next = "uncertain" -> "uncertain"
                   [] OTHER -> e.result

BadTransitionWrite(r) ==
    /\ At(r, "writing")
    /\ LET e == request[r]
       IN  tx' = [tx EXCEPT ![e.key].state = e.next, ![e.key].approval = e.approval,
                            ![e.key].result = NextResult(e)]
    /\ IF request[r].next = "executing" THEN Goto(r, "answering") ELSE Answer(r)
    /\ UNCHANGED <<approvals, issued, pages, opened, job>>

(* The update is by id alone: it does not look at the state again. *)
TransitionWrite(r) ==
    /\ At(r, "writing")
    /\ LET e == request[r]
       IN  tx' = [tx EXCEPT ![e.key].state = e.next, ![e.key].approval = e.approval,
                            ![e.key].result = NextResult(e)]
    /\ IF request[r].next = "executing" THEN Goto(r, "enqueuing") ELSE Answer(r)
    /\ UNCHANGED <<approvals, issued, pages, opened, job>>

(* Travel enqueues checkout_confirmation, deduplicated by key, then answers. *)
EnqueueConfirmation(r) ==
    /\ At(r, "enqueuing")
    /\ job' = [job EXCEPT ![request[r].key] = TRUE]
    /\ Goto(r, "answering")
    /\ UNCHANGED <<tx, approvals, issued, pages, opened>>

-----------------------------------------------------------------------------
(* A call of the request throws, before or after its effect, and nothing     *)
(* catches it: the request ends with an error where it stood.                *)
Fail(r) ==
    /\ request[r].stage \notin {"idle", "creating", "recording"}
    /\ Answer(r)
    /\ UNCHANGED <<tx, approvals, issued, pages, opened, job>>

(* The web process dies; nobody answers its requests. *)
Crash ==
    /\ \E r \in Requests : ~At(r, "idle")
    /\ request' = [r \in Requests |-> Idle]
    /\ UNCHANGED <<tx, approvals, issued, pages, opened, job>>

(* The steps a request takes once it has been accepted. *)
Proceed(r) ==
    \/ RequestApproval(r) \/ SaveUnique(r) \/ SaveUpsert(r) \/ LinkApproval(r)
    \/ ContinueCheck(r) \/ FetchDestination(r) \/ Claim(r) \/ AnswerWithDestination(r)
    \/ CreatePage(r) \/ RecordPage(r) \/ Fail(r)
    \/ TransitionRead(r) \/ TransitionWrite(r) \/ EnqueueConfirmation(r)

Accept(r, k) ==
    \/ \E offer \in Offers : PrepareRead(r, k, offer)
    \/ ContinueRead(r, k)
    \/ CancelRequest(r, k)

Next ==
    \/ \E r \in Requests : Proceed(r)
    \/ \E r \in Requests, k \in Keys : Accept(r, k)
    \/ \E a \in Ids : DecideHitlRequest(a) \/ Expire(a)
    \/ Crash

Spec == Init /\ [][Next]_vars

-----------------------------------------------------------------------------
(* Properties. *)

(* Every variable holds values of its kind. *)
TypeOK ==
    /\ tx \in [Keys -> Transactions]
    /\ approvals \in [Ids -> Approvals]
    /\ issued \in 0..MaxApprovals
    /\ request \in [Requests -> Contexts]
    /\ pages \in [Keys -> Nat] /\ opened \in [Keys -> Nat]
    /\ job \in [Keys -> BOOLEAN]

(* A request at work knows its key, and where it wants to move the row. *)
RequestsKeyed ==
    \A r \in Requests :
        /\ ~At(r, "idle") => request[r].key \in Keys
        /\ request[r].stage \in {"moving", "writing"} => request[r].next # "none"

(* However many prepare, continue and cancel requests race, and whatever    *)
(* crashes, one key of the flows that claim their row creates at most one   *)
(* provider page and gives out its destination at most once.                *)
HandedOutOnce == \A k \in OneTimeKeys : pages[k] <= 1 /\ opened[k] <= 1

(* A request that has claimed k and may still call the provider or answer. *)
Claims(r, k) == request[r].key = k /\ request[r].stage \in {"creating", "recording", "answering"}

(* Why: a row is claimed before anything has left for it, ...               *)
UnclaimedIsUntouched(k) ==
    tx[k].state \in {"absent", "awaiting_approval"} =>
        pages[k] = 0 /\ opened[k] = 0 /\ \A r \in Requests : ~Claims(r, k)

(* ... by one request, which makes at most one page and one answer, ...      *)
OneClaimant(k) ==
    \A r \in Requests : Claims(r, k) =>
        /\ opened[k] = 0 /\ (At(r, "creating") => pages[k] = 0)
        /\ \A s \in Requests : Claims(s, k) => s = r

(* ... and no transition takes a claimed row back to a claimable state.      *)
NoWayBack(k) ==
    \A r \in Requests : request[r].key = k =>
        /\ request[r].stage \notin {"linking", "enqueuing"}
        /\ request[r].stage \in {"moving", "writing"} => request[r].next \in {"uncertain", "cancelled"}

ClaimedOnce ==
    \A k \in OneTimeKeys : UnclaimedIsUntouched(k) /\ OneClaimant(k) /\ NoWayBack(k)

(* The user has approved this content, under some approval. *)
Agreed(offer) == \E a \in Ids : approvals[a].status = "success" /\ approvals[a].offer = offer

(* Nothing is handed out, and no page exists, unless the user approved the  *)
(* very content the transaction stores.                                     *)
ApprovedFor(keys) == \A k \in keys : pages[k] + opened[k] > 0 => Agreed(tx[k].offer)

ApprovedAsStored == ApprovedFor(Keys)

(* The same of the flows that compare the approval's hash with the stored   *)
(* content, also beside travel requests of the same user.                    *)
ApprovedAsHashed == ApprovedFor(OneTimeKeys)

(* Why it holds outside travel: a request keeps the content it read, and     *)
(* what the hash check said of it outlives its awaits, because neither the   *)
(* content of a row nor a decision ever changes.                             *)
UnissuedIsUnused == \A a \in Ids : a > issued => approvals[a].status = "unused"

CarriesContent(r) ==
    LET row == tx[request[r].key]
    IN  /\ request[r].stage \notin {"idle", "requesting", "saving", "linking"} => row.state # "absent"
        /\ request[r].stage \in {"checking", "fetching", "claiming"} => request[r].offer = row.offer
        /\ At(r, "checking") => request[r].approval # 0
        /\ request[r].stage \in {"fetching", "claiming", "creating", "recording", "answering"} =>
              Agreed(row.offer)

ContentApproved ==
    /\ UnissuedIsUnused
    /\ \A r \in Requests : request[r].key \in OneTimeKeys => CarriesContent(r)
    /\ ApprovedAsHashed

(* A travel destination is given out only once its confirmation job is in   *)
(* the queue, whichever of several continue requests enqueued it.           *)
ConfirmationQueuedFirst == \A k \in Travel : opened[k] > 0 => job[k]

-----------------------------------------------------------------------------
(* Outside travel every key implements OneTimeHandoff: it is claimed while   *)
(* the request that won the claim is alive, and closed when that request has *)
(* ended without an answer or the client cancelled first.                    *)
HandoffPhase(k) ==
    CASE tx[k].state = "absent" -> "absent"
      [] opened[k] > 0 -> "opened"
      [] opened[k] = 0 /\ \E r \in Requests : Claims(r, k) -> "claimed"
      [] tx[k].state = "awaiting_approval" -> "offered"
      [] OTHER -> "closed"

OneTime == INSTANCE OneTimeHandoff WITH
    Keys <- OneTimeKeys,
    Contents <- Offers,
    phase <- [k \in OneTimeKeys |-> HandoffPhase(k)],
    content <- [k \in OneTimeKeys |-> tx[k].offer],
    agreed <- {approvals[a].offer : a \in {b \in Ids : approvals[b].status = "success"}}

(* No race of prepare, continue and cancel requests, and no crash, opens a   *)
(* hand-off twice, before the user agreed to its content, or after it was    *)
(* cancelled or given up (see OneTimeHandoff).                               *)
ImplementsOneTimeHandoff == OneTime!Spec

=============================================================================
