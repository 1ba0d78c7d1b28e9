------------------------ MODULE HostedCheckoutProofs ------------------------
(* Theorems about HostedCheckout, for every set of keys, requests and contents. *)
EXTENDS HostedCheckout, TLAPS

TypeInv == TypeOK /\ RequestsKeyed

LEMMA ZeroIsNoApproval == 0 \in 0..MaxApprovals
  BY FlowsAssumption

LEMMA IdleIsContext == Idle \in Contexts
  BY ZeroIsNoApproval DEF Idle, Contexts, Stages

LEMMA InitType == Init => TypeInv
<1> SUFFICES ASSUME Init PROVE TypeInv
  OBVIOUS
<1>1. tx \in [Keys -> Transactions]
  BY ZeroIsNoApproval DEF Init, NoTx, Transactions
<1>2. approvals \in [Ids -> Approvals]
  BY DEF Init, Unused, Approvals
<1>3. issued \in 0..MaxApprovals
  BY FlowsAssumption DEF Init
<1>4. request \in [Requests -> Contexts] /\ RequestsKeyed
  BY IdleIsContext DEF Init, RequestsKeyed, At, Idle
<1>5. pages \in [Keys -> Nat] /\ opened \in [Keys -> Nat] /\ job \in [Keys -> BOOLEAN]
  BY DEF Init
<1> QED
  BY <1>1, <1>2, <1>3, <1>4, <1>5 DEF TypeInv, TypeOK

(* A step of one request changes no other request. *)
LEMMA GotoType ==
    ASSUME TypeInv, NEW r \in Requests, ~At(r, "idle"),
           NEW stage \in Stages \ {"idle", "moving", "writing"}, Goto(r, stage)
    PROVE  request' \in [Requests -> Contexts] /\ RequestsKeyed'
<1>1. [request[r] EXCEPT !.stage = stage] \in Contexts
  BY DEF TypeInv, TypeOK, Contexts
<1>2. request' = [request EXCEPT ![r] = [request[r] EXCEPT !.stage = stage]]
  BY DEF Goto
<1> QED
  BY <1>1, <1>2 DEF TypeInv, TypeOK, RequestsKeyed, At, Contexts, Stages

LEMMA AnswerType ==
    ASSUME TypeInv, NEW r \in Requests, Answer(r)
    PROVE  request' \in [Requests -> Contexts] /\ RequestsKeyed'
  BY IdleIsContext DEF TypeInv, TypeOK, RequestsKeyed, At, Answer, Idle

LEMMA ContextType ==
    ASSUME TypeInv, NEW r \in Requests, NEW c \in Contexts, c.key \in Keys,
           c.stage \in {"moving", "writing"} => c.next # "none",
           request' = [request EXCEPT ![r] = c]
    PROVE  request' \in [Requests -> Contexts] /\ RequestsKeyed'
  BY DEF TypeInv, TypeOK, RequestsKeyed, At

LEMMA GiveUpType ==
    ASSUME TypeInv, NEW r \in Requests, ~At(r, "idle"), GiveUp(r)
    PROVE  request' \in [Requests -> Contexts] /\ RequestsKeyed'
<1> DEFINE c == [request[r] EXCEPT !.stage = "moving", !.next = "uncertain"]
<1>1. c \in Contexts /\ c.key \in Keys /\ c.next = "uncertain"
  BY DEF TypeInv, TypeOK, RequestsKeyed, Contexts, Stages, At
<1>2. request' = [request EXCEPT ![r] = c]
  BY DEF GiveUp
<1> HIDE DEF c
<1> QED
  BY <1>1, <1>2, ContextType

(* The steps of an accepted request. *)
LEMMA ProceedType ==
    ASSUME TypeInv, NEW r \in Requests, Proceed(r)
    PROVE  TypeInv'
<1> DEFINE k == request[r].key
<1> DEFINE OthersOK == UNCHANGED <<approvals, issued, pages, opened, job>>
<1>1. CASE RequestApproval(r)
  <2>1. issued + 1 \in Ids /\ issued + 1 \in 0..MaxApprovals
    BY <1>1, FlowsAssumption DEF RequestApproval, TypeInv, TypeOK, Ids
  <2>2. approvals' \in [Ids -> Approvals]
    BY <1>1, <2>1 DEF RequestApproval, TypeInv, TypeOK, Approvals, Contexts
  <2> DEFINE c == [request[r] EXCEPT !.stage = "saving", !.approval = issued + 1]
  <2>3. c \in Contexts /\ c.key \in Keys /\ c.stage = "saving"
    BY <1>1, <2>1 DEF RequestApproval, TypeInv, TypeOK, RequestsKeyed, At, Contexts, Stages
  <2>4. request' = [request EXCEPT ![r] = c]
    BY <1>1 DEF RequestApproval
  <2>5. request' \in [Requests -> Contexts] /\ RequestsKeyed'
    <3> HIDE DEF c
    <3> QED
      BY <2>3, <2>4, ContextType
  <2> QED
    BY <1>1, <2>1, <2>2, <2>5 DEF RequestApproval, TypeInv, TypeOK
<1>2. CASE SaveUnique(r)
  <2>1. tx' \in [Keys -> Transactions]
    BY <1>2 DEF SaveUnique, NewTx, TypeInv, TypeOK, Transactions, Contexts, States
  <2> QED
    BY <1>2, <2>1, AnswerType DEF SaveUnique, TypeInv, TypeOK
<1>3. CASE SaveUpsert(r)
  <2>1. 0 \in 0..MaxApprovals
    BY FlowsAssumption
  <2>2. [NewTx(r) EXCEPT !.approval = 0] \in Transactions
    BY <2>1 DEF NewTx, TypeInv, TypeOK, Transactions, Contexts, States
  <2>3. tx' \in [Keys -> Transactions]
    BY <1>3, <2>2 DEF SaveUpsert, TypeInv, TypeOK
  <2> QED
    BY <1>3, <2>3, GotoType DEF SaveUpsert, TypeInv, TypeOK, At, Stages
<1>4. CASE LinkApproval(r)
  <2>1. \A t \in Transactions : [t EXCEPT !.approval = request[r].approval] \in Transactions
    BY DEF TypeInv, TypeOK, Transactions, Contexts
  <2>2. tx' \in [Keys -> Transactions]
    BY <1>4, <2>1 DEF LinkApproval, TypeInv, TypeOK
  <2> QED
    BY <1>4, <2>2, AnswerType DEF LinkApproval, TypeInv, TypeOK
<1>5. CASE ContinueCheck(r)
  <2>1. CASE Answer(r)
    BY <1>5, <2>1, AnswerType DEF ContinueCheck, TypeInv, TypeOK
  <2>2. CASE ~Answer(r)
    <3> DEFINE c == [request[r] EXCEPT !.stage = AfterCheck(k), !.next = "executing"]
    <3>1. c \in Contexts /\ c.key \in Keys /\ c.next = "executing"
      BY <1>5 DEF ContinueCheck, AfterCheck, TypeInv, TypeOK, RequestsKeyed, At, Contexts, Stages
    <3>2. request' = [request EXCEPT ![r] = c]
      BY <1>5, <2>2 DEF ContinueCheck
    <3>3. request' \in [Requests -> Contexts] /\ RequestsKeyed'
      <4> HIDE DEF c
      <4> QED
        BY <3>1, <3>2, ContextType
    <3> QED
      BY <1>5, <3>3 DEF ContinueCheck, TypeInv, TypeOK
  <2> QED
    BY <2>1, <2>2
<1>6. CASE FetchDestination(r)
  BY <1>6, AnswerType, GotoType DEF FetchDestination, TypeInv, TypeOK, At, Stages
<1>7. CASE Claim(r)
  <2>1. \A t \in Transactions :
          [t EXCEPT !.state = "executing", !.result = IF k \in Handoff THEN "redirected" ELSE t.result]
              \in Transactions
    BY DEF Transactions, States
  <2>2. k \in Keys
    BY <1>7 DEF Claim, TypeInv, RequestsKeyed, At
  <2>3. tx' \in [Keys -> Transactions]
    <3>1. CASE tx[k].state = "awaiting_approval"
      <4>1. tx' = [tx EXCEPT ![k] = [tx[k] EXCEPT !.state = "executing",
                     !.result = IF k \in Handoff THEN "redirected" ELSE tx[k].result]]
        BY <1>7, <3>1 DEF Claim
      <4> QED
        BY <2>1, <2>2, <4>1 DEF TypeInv, TypeOK
    <3>2. CASE tx[k].state # "awaiting_approval"
      BY <1>7, <3>2 DEF Claim, TypeInv, TypeOK
    <3> QED
      BY <3>1, <3>2
  <2>4. request' \in [Requests -> Contexts] /\ RequestsKeyed'
    BY <1>7, AnswerType, GotoType DEF Claim, At, Stages
  <2> QED
    BY <1>7, <2>3, <2>4 DEF Claim, TypeInv, TypeOK
<1>8. CASE AnswerWithDestination(r)
  <2>1. opened' \in [Keys -> Nat]
    BY <1>8 DEF AnswerWithDestination, TypeInv, TypeOK, RequestsKeyed, At
  <2> QED
    BY <1>8, <2>1, AnswerType DEF AnswerWithDestination, TypeInv, TypeOK
<1>9. CASE CreatePage(r)
  <2>1. k \in Keys
    BY <1>9 DEF CreatePage, TypeInv, RequestsKeyed, At
  <2>2. pages' \in [Keys -> Nat]
    BY <1>9, <2>1 DEF CreatePage, TypeInv, TypeOK
  <2>3. request' \in [Requests -> Contexts] /\ RequestsKeyed'
    BY <1>9, GotoType, GiveUpType DEF CreatePage, At, Stages
  <2> QED
    BY <1>9, <2>2, <2>3 DEF CreatePage, TypeInv, TypeOK
<1>10. CASE RecordPage(r)
  <2>1. \A t \in Transactions : [t EXCEPT !.result = "redirected"] \in Transactions
    BY DEF Transactions
  <2>2. tx' \in [Keys -> Transactions]
    BY <1>10, <2>1 DEF RecordPage, TypeInv, TypeOK
  <2>3. request' \in [Requests -> Contexts] /\ RequestsKeyed'
    BY <1>10, GotoType, GiveUpType DEF RecordPage, At, Stages
  <2> QED
    BY <1>10, <2>2, <2>3 DEF RecordPage, TypeInv, TypeOK
<1>11. CASE TransitionRead(r)
  <2>1. CASE Answer(r)
    BY <1>11, <2>1, AnswerType DEF TransitionRead, TypeInv, TypeOK
  <2>2. CASE ~Answer(r)
    <3> DEFINE c == [request[r] EXCEPT !.stage = "writing", !.approval = tx[k].approval,
                                       !.result = tx[k].result]
    <3>1. k \in Keys /\ request[r].next # "none"
      BY <1>11 DEF TransitionRead, TypeInv, RequestsKeyed, At
    <3>2. c \in Contexts /\ c.key \in Keys /\ c.next # "none"
      BY <3>1 DEF TypeInv, TypeOK, Transactions, Contexts, Stages
    <3>3. request' = [request EXCEPT ![r] = c]
      BY <1>11, <2>2 DEF TransitionRead
    <3>4. request' \in [Requests -> Contexts] /\ RequestsKeyed'
      <4> HIDE DEF c
      <4> QED
        BY <3>2, <3>3, ContextType
    <3> QED
      BY <1>11, <3>4 DEF TransitionRead, TypeInv, TypeOK
  <2> QED
    BY <2>1, <2>2
<1>12. CASE TransitionWrite(r)
  <2> DEFINE e == request[r]
  <2>1. e \in Contexts /\ e.next # "none"
    BY <1>12 DEF TransitionWrite, TypeInv, TypeOK, RequestsKeyed, At
  <2>2. \A t \in Transactions :
          [t EXCEPT !.state = e.next, !.approval = e.approval, !.result = NextResult(e)] \in Transactions
    <3> HIDE DEF e
    <3> QED
      BY <2>1 DEF NextResult, Contexts, Transactions, States
  <2>3. tx' = [tx EXCEPT ![e.key] =
                 [@ EXCEPT !.state = e.next, !.approval = e.approval, !.result = NextResult(e)]]
    BY <1>12 DEF TransitionWrite
  <2>4. tx' \in [Keys -> Transactions]
    <3> HIDE DEF e
    <3> QED
      BY <2>2, <2>3 DEF TypeInv, TypeOK
  <2>5. request' \in [Requests -> Contexts] /\ RequestsKeyed'
    BY <1>12, AnswerType, GotoType DEF TransitionWrite, At, Stages
  <2> QED
    BY <1>12, <2>4, <2>5 DEF TransitionWrite, TypeInv, TypeOK
<1>13. CASE EnqueueConfirmation(r)
  BY <1>13, GotoType DEF EnqueueConfirmation, TypeInv, TypeOK, At, Stages
<1>14. CASE Fail(r)
  BY <1>14, AnswerType DEF Fail, TypeInv, TypeOK
<1> QED
  BY <1>1, <1>2, <1>3, <1>4, <1>5, <1>6, <1>7, <1>8, <1>9, <1>10, <1>11, <1>12, <1>13, <1>14 DEF Proceed

LEMMA AcceptType ==
    ASSUME TypeInv, NEW r \in Requests, NEW k \in Keys, Accept(r, k)
    PROVE  TypeInv'
<1>1. CASE \E offer \in Offers : PrepareRead(r, k, offer)
  <2>1. PICK offer \in Offers : PrepareRead(r, k, offer)
    BY <1>1
  <2>2. [Idle EXCEPT !.stage = "requesting", !.key = k, !.offer = offer] \in Contexts
    BY IdleIsContext DEF Contexts, Stages
  <2> QED
    BY <2>1, <2>2, ContextType DEF PrepareRead, TypeInv, TypeOK, Idle
<1>2. CASE ContinueRead(r, k)
  <2>1. tx[k] \in Transactions
    BY DEF TypeInv, TypeOK
  <2>2. [Idle EXCEPT !.stage = "checking", !.key = k, !.offer = tx[k].offer,
                     !.approval = tx[k].approval] \in Contexts
    BY <2>1, IdleIsContext DEF Contexts, Stages, Transactions
  <2> QED
    BY <1>2, <2>2, ContextType DEF ContinueRead, TypeInv, TypeOK, Idle
<1>3. CASE CancelRequest(r, k)
  <2>1. [Idle EXCEPT !.stage = "moving", !.key = k, !.next = "cancelled"] \in Contexts
    BY IdleIsContext DEF Contexts, Stages
  <2> QED
    BY <1>3, <2>1, ContextType DEF CancelRequest, TypeInv, TypeOK, Idle
<1> QED
  BY <1>1, <1>2, <1>3 DEF Accept

LEMMA ApprovalType ==
    ASSUME TypeInv, NEW a \in Ids, DecideHitlRequest(a) \/ Expire(a)
    PROVE  TypeInv'
<1>1. \A p \in Approvals : \A status \in {"success", "blocked_by_policy"} :
        [p EXCEPT !.status = status] \in Approvals /\ [p EXCEPT !.live = FALSE] \in Approvals
  BY DEF Approvals
<1>2. approvals' \in [Ids -> Approvals]
  <2>1. CASE DecideHitlRequest(a)
    <3>1. PICK status \in {"success", "blocked_by_policy"} :
            approvals' = [approvals EXCEPT ![a] = [approvals[a] EXCEPT !.status = status]]
      BY <2>1 DEF DecideHitlRequest
    <3> QED
      BY <1>1, <3>1 DEF TypeInv, TypeOK
  <2>2. CASE Expire(a)
    <3>1. approvals' = [approvals EXCEPT ![a] = [approvals[a] EXCEPT !.live = FALSE]]
      BY <2>2 DEF Expire
    <3> QED
      BY <1>1, <3>1 DEF TypeInv, TypeOK
  <2> QED
    BY <2>1, <2>2
<1> QED
  BY <1>2 DEF DecideHitlRequest, Expire, TypeInv, TypeOK, RequestsKeyed, At

LEMMA CrashType == TypeInv /\ Crash => TypeInv'
  BY IdleIsContext DEF Crash, TypeInv, TypeOK, RequestsKeyed, At, Idle

LEMMA NextType == TypeInv /\ [Next]_vars => TypeInv'
<1> SUFFICES ASSUME TypeInv, [Next]_vars PROVE TypeInv'
  OBVIOUS
<1>1. CASE Next
  BY <1>1, ProceedType, AcceptType, ApprovalType, CrashType DEF Next
<1>2. CASE UNCHANGED vars
  BY <1>2 DEF vars, TypeInv, TypeOK, RequestsKeyed, At
<1> QED
  BY <1>1, <1>2

(* Type correctness: every reachable row, approval, request and counter is of *)
(* its kind, and a request at work never loses its key.                       *)
THEOREM HandoffTypeCorrect == Spec => []TypeOK
<1>1. TypeInv => TypeOK
  BY DEF TypeInv
<1> QED
  BY InitType, NextType, <1>1, PTL DEF Spec

-----------------------------------------------------------------------------
(* One claim, one page, one destination. *)

Claimable(state) == state \in {"absent", "awaiting_approval"}

(* A context that gives its request no part in a claim of a one-time key. *)
Bystander(c) ==
    c.key \in OneTimeKeys =>
        /\ c.stage \notin {"creating", "recording", "answering", "linking", "enqueuing"}
        /\ c.stage \in {"moving", "writing"} => c.next \in {"uncertain", "cancelled"}

(* A step of r leaves what has left for k alone, or r was its one claimant. *)
Undisturbed(r, k) ==
    \/ pages'[k] = pages[k] /\ opened'[k] = opened[k]
    \/ ~Claimable(tx'[k].state) /\ \A s \in Requests \ {r} : ~Claims(s, k)

(* A step makes no row claimable again. *)
NothingReopened == \A k \in OneTimeKeys : Claimable(tx'[k].state) => Claimable(tx[k].state)

LEMMA TravelIsApart == \A k \in OneTimeKeys : k \notin Travel /\ k \in Keys
  BY FlowsAssumption DEF OneTimeKeys, Keys

LEMMA InitClaimed == Init => ClaimedOnce /\ HandedOutOnce
  BY TravelIsApart DEF Init, ClaimedOnce, UnclaimedIsUntouched, OneClaimant, NoWayBack, HandedOutOnce, Claims, Idle, NoTx, At, Keys

(* A step after which its request is a bystander, and which makes no row     *)
(* claimable again, keeps the claims in order.                               *)
LEMMA BystanderStep ==
    ASSUME TypeInv, ClaimedOnce, NEW r \in Requests, NEW c, Bystander(c),
           request' = [request EXCEPT ![r] = c],
           NothingReopened, \A k \in OneTimeKeys : Undisturbed(r, k)
    PROVE  ClaimedOnce'
<1>1. \A s \in Requests : request'[s] = IF s = r THEN c ELSE request[s]
  BY DEF TypeInv, TypeOK
<1>2. \A s \in Requests, k \in OneTimeKeys : Claims(s, k)' => s # r /\ Claims(s, k)
  BY <1>1 DEF Claims, Bystander
<1> SUFFICES ASSUME NEW k \in OneTimeKeys
             PROVE  UnclaimedIsUntouched(k)' /\ OneClaimant(k)' /\ NoWayBack(k)'
  BY DEF ClaimedOnce, OneTimeKeys
<1>3. UnclaimedIsUntouched(k)'
  BY <1>2 DEF ClaimedOnce, OneTimeKeys, UnclaimedIsUntouched, Claimable, Undisturbed, NothingReopened
<1>4. OneClaimant(k)'
  BY <1>1, <1>2 DEF ClaimedOnce, OneTimeKeys, OneClaimant, At, Undisturbed
<1>5. NoWayBack(k)'
  BY <1>1 DEF ClaimedOnce, OneTimeKeys, NoWayBack, Bystander
<1> QED
  BY <1>3, <1>4, <1>5

LEMMA GotoBystander ==
    ASSUME TypeInv, ClaimedOnce, NEW r \in Requests, NEW stage, Goto(r, stage),
           request[r].key \in OneTimeKeys => stage \in {"saving", "fetching", "claiming"},
           UNCHANGED <<pages, opened>>, NothingReopened
    PROVE  ClaimedOnce'
<1> DEFINE c == [request[r] EXCEPT !.stage = stage]
<1>1. Bystander(c)
  BY DEF TypeInv, TypeOK, Contexts, Bystander
<1>2. request' = [request EXCEPT ![r] = c]
  BY DEF Goto
<1>3. \A k \in OneTimeKeys : Undisturbed(r, k)
  BY DEF Undisturbed
<1> HIDE DEF c
<1> QED
  BY <1>1, <1>2, <1>3, BystanderStep

LEMMA GiveUpBystander ==
    ASSUME TypeInv, ClaimedOnce, NEW r \in Requests, GiveUp(r), NothingReopened,
           \A k \in OneTimeKeys : Undisturbed(r, k)
    PROVE  ClaimedOnce'
<1> DEFINE c == [request[r] EXCEPT !.stage = "moving", !.next = "uncertain"]
<1>1. Bystander(c) /\ request' = [request EXCEPT ![r] = c]
  BY DEF GiveUp, TypeInv, TypeOK, Contexts, Bystander
<1> HIDE DEF c
<1> QED
  BY <1>1, BystanderStep

LEMMA AnswerBystander ==
    ASSUME TypeInv, ClaimedOnce, NEW r \in Requests, Answer(r), NothingReopened,
           \A k \in OneTimeKeys : Undisturbed(r, k)
    PROVE  ClaimedOnce'
  BY BystanderStep DEF Answer, Bystander, Idle

(* A step by which a request takes, or keeps, the one claim on its key. *)
LEMMA ClaimantStep ==
    ASSUME TypeInv, ClaimedOnce, NEW r \in Requests, request[r].key \in OneTimeKeys, NEW c,
           c.key = request[r].key, c.stage \in {"creating", "recording", "answering"},
           request' = [request EXCEPT ![r] = c], opened' = opened, opened[c.key] = 0,
           c.stage = "creating" => pages'[c.key] = 0,
           ~Claimable(tx'[c.key].state), NothingReopened,
           \A k \in OneTimeKeys : Undisturbed(r, k),
           \A s \in Requests \ {r} : ~Claims(s, c.key)
    PROVE  ClaimedOnce'
<1>1. \A s \in Requests : request'[s] = IF s = r THEN c ELSE request[s]
  BY DEF TypeInv, TypeOK
<1>2. \A s \in Requests, k \in OneTimeKeys : Claims(s, k)' =>
        \/ s = r /\ k = c.key
        \/ s # r /\ k # c.key /\ Claims(s, k)
  BY <1>1 DEF Claims
<1> SUFFICES ASSUME NEW k \in OneTimeKeys
             PROVE  UnclaimedIsUntouched(k)' /\ OneClaimant(k)' /\ NoWayBack(k)'
  BY DEF ClaimedOnce, OneTimeKeys
<1>3. UnclaimedIsUntouched(k)'
  BY <1>2 DEF ClaimedOnce, OneTimeKeys, UnclaimedIsUntouched, Claimable, Undisturbed, NothingReopened
<1>4. OneClaimant(k)'
  BY <1>1, <1>2 DEF ClaimedOnce, OneTimeKeys, OneClaimant, At, Undisturbed
<1>5. NoWayBack(k)'
  BY <1>1 DEF ClaimedOnce, OneTimeKeys, NoWayBack
<1> QED
  BY <1>3, <1>4, <1>5

LEMMA QuietKeepsOrder ==
    ASSUME NEW r \in Requests, UNCHANGED <<pages, opened>>
    PROVE  /\ \A k \in OneTimeKeys : Undisturbed(r, k)
           /\ UNCHANGED tx => NothingReopened
  BY DEF Undisturbed, NothingReopened

LEMMA ClaimClaimed ==
    ASSUME TypeInv, ClaimedOnce, NEW r \in Requests, Claim(r)
    PROVE  ClaimedOnce'
<1> DEFINE k == request[r].key
<1> DEFINE c == [request[r] EXCEPT !.stage = IF k \in Handoff THEN "answering" ELSE "creating"]
<1>0. k \in Keys /\ c.key = k /\ c.stage \in {"creating", "answering"}
  BY DEF Claim, TypeInv, TypeOK, RequestsKeyed, Contexts, At
<1>1. UNCHANGED <<pages, opened>> /\ \A q \in OneTimeKeys : Undisturbed(r, q)
  BY DEF Claim, Undisturbed
<1>2. CASE tx[k].state = "awaiting_approval"
  <2>1. tx'[k].state = "executing" /\ \A q \in Keys : q # k => tx'[q] = tx[q]
    BY <1>0, <1>2 DEF Claim, TypeInv, TypeOK, Transactions
  <2>2. NothingReopened /\ ~Claimable(tx'[k].state)
    BY <2>1 DEF NothingReopened, Claimable, OneTimeKeys, Keys
  <2>3. request' = [request EXCEPT ![r] = c]
    BY <1>2 DEF Claim, Goto
  <2>4. CASE k \in OneTimeKeys
    <3>1. opened[k] = 0 /\ pages[k] = 0 /\ \A s \in Requests : ~Claims(s, k)
      BY <1>2, <2>4 DEF ClaimedOnce, OneTimeKeys, UnclaimedIsUntouched
    <3> HIDE DEF c
    <3> QED
      BY <1>0, <1>1, <2>2, <2>3, <2>4, <3>1, ClaimantStep
  <2>5. CASE k \notin OneTimeKeys
    <3>1. Bystander(c)
      BY <1>0, <2>5 DEF Bystander
    <3> HIDE DEF c
    <3> QED
      BY <1>1, <2>2, <2>3, <3>1, BystanderStep
  <2> QED
    BY <2>4, <2>5
<1>3. CASE tx[k].state # "awaiting_approval"
  BY <1>1, <1>3, AnswerBystander DEF Claim, NothingReopened
<1> QED
  BY <1>2, <1>3

(* The holder of the one claim on a key moves on within its claim. *)
LEMMA GotoClaimant ==
    ASSUME TypeInv, ClaimedOnce, NEW r \in Requests, NEW stage \in {"recording", "answering"},
           request[r].stage \in {"creating", "recording"}, Goto(r, stage), opened' = opened,
           NothingReopened, request[r].key \in Keys, \A k \in OneTimeKeys : Undisturbed(r, k),
           tx'[request[r].key].state = tx[request[r].key].state
    PROVE  ClaimedOnce'
<1> DEFINE k == request[r].key
<1> DEFINE c == [request[r] EXCEPT !.stage = stage]
<1>1. c.key = k /\ c.stage = stage /\ request' = [request EXCEPT ![r] = c]
  BY DEF Goto, TypeInv, TypeOK, Contexts
<1>2. CASE k \in OneTimeKeys
  <2>1. Claims(r, k)
    BY DEF Claims
  <2>2. opened[k] = 0 /\ ~Claimable(tx[k].state) /\ \A s \in Requests \ {r} : ~Claims(s, k)
    BY <1>2, <2>1 DEF ClaimedOnce, OneTimeKeys, OneClaimant, UnclaimedIsUntouched, Claimable
  <2> HIDE DEF c
  <2> QED
    BY <1>1, <1>2, <2>2, ClaimantStep
<1>3. CASE k \notin OneTimeKeys
  <2>1. Bystander(c)
    BY <1>1, <1>3 DEF Bystander
  <2> HIDE DEF c
  <2> QED
    BY <1>1, <2>1, BystanderStep
<1> QED
  BY <1>2, <1>3

LEMMA RecordClaimed ==
    ASSUME TypeInv, ClaimedOnce, NEW r \in Requests, RecordPage(r)
    PROVE  ClaimedOnce'
<1>1. request[r].key \in Keys /\ request[r].stage = "recording" /\ opened' = opened
  BY DEF RecordPage, TypeInv, RequestsKeyed, At
<1>2. \A q \in Keys : tx'[q].state = tx[q].state
  BY DEF RecordPage, TypeInv, TypeOK, Transactions
<1>3. NothingReopened /\ \A q \in OneTimeKeys : Undisturbed(r, q)
  BY <1>2, TravelIsApart DEF RecordPage, Undisturbed, NothingReopened
<1> QED
  BY <1>1, <1>2, <1>3, GotoClaimant, GiveUpBystander DEF RecordPage

LEMMA PageClaimed ==
    ASSUME TypeInv, ClaimedOnce, NEW r \in Requests, CreatePage(r)
    PROVE  ClaimedOnce'
<1> DEFINE k == request[r].key
<1>1. k \in Keys /\ UNCHANGED <<tx, opened>> /\ NothingReopened /\ request[r].stage = "creating"
  BY DEF CreatePage, TypeInv, RequestsKeyed, At, NothingReopened
<1>2. \A q \in OneTimeKeys : q # k => Undisturbed(r, q)
  <2>1. pages' = pages \/ pages' = [pages EXCEPT ![k] = pages[k] + 1]
    BY DEF CreatePage
  <2>2. \A q \in Keys : q # k => pages'[q] = pages[q]
    BY <2>1 DEF TypeInv, TypeOK
  <2> QED
    BY <1>1, <2>2, TravelIsApart DEF Undisturbed
<1>3. k \in OneTimeKeys => ~Claimable(tx[k].state) /\ \A s \in Requests \ {r} : ~Claims(s, k)
  <2>1. Claims(r, k)
    BY <1>1 DEF Claims
  <2> QED
    BY <2>1 DEF ClaimedOnce, OneTimeKeys, OneClaimant, UnclaimedIsUntouched, Claimable
<1>4. \A q \in OneTimeKeys : Undisturbed(r, q)
  BY <1>1, <1>2, <1>3 DEF Undisturbed
<1> QED
  BY <1>1, <1>4, GotoClaimant, GiveUpBystander DEF CreatePage

(* The two steps that count find a count of zero. *)
LEMMA CountedOnce ==
    ASSUME TypeInv, ClaimedOnce, HandedOutOnce, NEW r \in Requests,
           CreatePage(r) \/ AnswerWithDestination(r)
    PROVE  HandedOutOnce'
<1> DEFINE k == request[r].key
<1>1. k \in OneTimeKeys => Claims(r, k)
  BY DEF CreatePage, AnswerWithDestination, At, Claims
<1>2. k \in Keys
  BY DEF CreatePage, AnswerWithDestination, TypeInv, RequestsKeyed, At
<1>3. CASE CreatePage(r)
  <2>1. pages' = pages \/ pages' = [pages EXCEPT ![k] = @ + 1]
    BY <1>3 DEF CreatePage
  <2>2. k \in OneTimeKeys => pages[k] = 0
    BY <1>1, <1>3 DEF ClaimedOnce, OneTimeKeys, OneClaimant, CreatePage
  <2>3. \A q \in OneTimeKeys : pages'[q] <= 1
    BY <1>2, <2>1, <2>2 DEF TypeInv, TypeOK, HandedOutOnce, OneTimeKeys, Keys
  <2> QED
    BY <1>3, <2>3 DEF CreatePage, HandedOutOnce, OneTimeKeys
<1>4. CASE AnswerWithDestination(r)
  <2>1. k \in OneTimeKeys => opened[k] = 0
    BY <1>1 DEF ClaimedOnce, OneTimeKeys, OneClaimant
  <2>2. \A q \in OneTimeKeys : opened'[q] <= 1
    BY <1>2, <1>4, <2>1 DEF AnswerWithDestination, TypeInv, TypeOK, HandedOutOnce, OneTimeKeys, Keys
  <2> QED
    BY <1>4, <2>2 DEF AnswerWithDestination, HandedOutOnce, OneTimeKeys
<1> QED
  BY <1>3, <1>4

LEMMA ProceedClaimed ==
    ASSUME TypeInv, ClaimedOnce, NEW r \in Requests, Proceed(r)
    PROVE  ClaimedOnce'
<1> DEFINE k == request[r].key
<1>0. request[r] \in Contexts /\ k \in Keys \cup {None}
  BY DEF TypeInv, TypeOK, Contexts
<1>1. CASE RequestApproval(r)
  <2> DEFINE c == [request[r] EXCEPT !.stage = "saving", !.approval = issued + 1]
  <2>1. request' = [request EXCEPT ![r] = c]
    BY <1>1 DEF RequestApproval
  <2>2. Bystander(c)
    BY <1>0 DEF Bystander, Contexts
  <2>3. UNCHANGED <<tx, pages, opened>>
    BY <1>1 DEF RequestApproval
  <2> HIDE DEF c
  <2> QED
    BY <2>1, <2>2, <2>3, BystanderStep, QuietKeepsOrder
<1>2. CASE SaveUnique(r)
  <2>1. NothingReopened
    BY <1>2, <1>0 DEF SaveUnique, NothingReopened, NewTx, Claimable, TypeInv, TypeOK, OneTimeKeys, Keys
  <2>2. Answer(r) /\ UNCHANGED <<pages, opened>>
    BY <1>2 DEF SaveUnique
  <2> QED
    BY <2>1, <2>2, AnswerBystander, QuietKeepsOrder
<1>3. CASE SaveUpsert(r)
  <2>1. k \notin OneTimeKeys
    BY <1>3, TravelIsApart DEF SaveUpsert
  <2>2. NothingReopened
    BY <1>3, <2>1 DEF SaveUpsert, NothingReopened, TypeInv, TypeOK, OneTimeKeys, Keys
  <2>3. Goto(r, "linking") /\ UNCHANGED <<pages, opened>>
    BY <1>3 DEF SaveUpsert
  <2> QED
    BY <2>1, <2>2, <2>3, GotoBystander
<1>4. CASE LinkApproval(r)
  <2>1. NothingReopened
    BY <1>4 DEF LinkApproval, NothingReopened, TypeInv, TypeOK, Transactions, OneTimeKeys, Keys
  <2>2. Answer(r) /\ UNCHANGED <<pages, opened>>
    BY <1>4 DEF LinkApproval
  <2> QED
    BY <2>1, <2>2, AnswerBystander, QuietKeepsOrder
<1>5. CASE ContinueCheck(r)
  <2>1. UNCHANGED <<tx, pages, opened>>
    BY <1>5 DEF ContinueCheck
  <2>2. CASE Answer(r)
    BY <2>1, <2>2, AnswerBystander, QuietKeepsOrder
  <2>3. CASE ~Answer(r)
    <3> DEFINE c == [request[r] EXCEPT !.stage = AfterCheck(k), !.next = "executing"]
    <3>1. request' = [request EXCEPT ![r] = c]
      BY <1>5, <2>3 DEF ContinueCheck
    <3>2. Bystander(c)
      BY <1>0, TravelIsApart DEF Bystander, Contexts, AfterCheck
    <3> HIDE DEF c
    <3> QED
      BY <2>1, <3>1, <3>2, BystanderStep, QuietKeepsOrder
  <2> QED
    BY <2>2, <2>3
<1>6. CASE FetchDestination(r)
  <2>1. UNCHANGED <<tx, pages, opened>> /\ Goto(r, "claiming")
    BY <1>6 DEF FetchDestination
  <2> QED
    BY <2>1, GotoBystander, QuietKeepsOrder
<1>7. CASE Claim(r)
  BY <1>7, ClaimClaimed
<1>8. CASE AnswerWithDestination(r)
  <2>1. Answer(r) /\ UNCHANGED tx /\ \A q \in OneTimeKeys : q # k => Undisturbed(r, q)
    BY <1>8 DEF AnswerWithDestination, TypeInv, TypeOK, Undisturbed
  <2>2. k \in OneTimeKeys => Claims(r, k)
    BY <1>8 DEF AnswerWithDestination, At, Claims
  <2>3. k \in OneTimeKeys => Undisturbed(r, k)
    BY <2>1, <2>2 DEF ClaimedOnce, OneTimeKeys, OneClaimant, UnclaimedIsUntouched, Undisturbed, Claimable
  <2> QED
    BY <2>1, <2>3, AnswerBystander DEF NothingReopened
<1>9. CASE CreatePage(r)
  BY <1>9, PageClaimed
<1>10. CASE RecordPage(r)
  BY <1>10, RecordClaimed
<1>11. CASE TransitionRead(r)
  <2>1. UNCHANGED <<tx, pages, opened>>
    BY <1>11 DEF TransitionRead
  <2>2. CASE Answer(r)
    BY <2>1, <2>2, AnswerBystander, QuietKeepsOrder
  <2>3. CASE ~Answer(r)
    <3> DEFINE c == [request[r] EXCEPT !.stage = "writing", !.approval = tx[k].approval,
                                       !.result = tx[k].result]
    <3>1. request' = [request EXCEPT ![r] = c]
      BY <1>11, <2>3 DEF TransitionRead
    <3>2. Bystander(c)
      BY <1>0, <1>11 DEF Bystander, Contexts, TransitionRead, At, ClaimedOnce, NoWayBack, OneTimeKeys
    <3> HIDE DEF c
    <3> QED
      BY <2>1, <3>1, <3>2, BystanderStep, QuietKeepsOrder
  <2> QED
    BY <2>2, <2>3
<1>12. CASE TransitionWrite(r)
  <2>1. k \in OneTimeKeys => request[r].next \in {"uncertain", "cancelled"}
    BY <1>12 DEF TransitionWrite, At, ClaimedOnce, NoWayBack, OneTimeKeys
  <2>2. NothingReopened
    BY <1>12, <2>1 DEF TransitionWrite, NothingReopened, Claimable, TypeInv, TypeOK, Transactions,
          OneTimeKeys, Keys
  <2>3. CASE request[r].next = "executing"
    BY <1>12, <2>1, <2>2, <2>3, GotoBystander DEF TransitionWrite
  <2>4. CASE request[r].next # "executing"
    BY <1>12, <2>2, <2>4, AnswerBystander, QuietKeepsOrder DEF TransitionWrite
  <2> QED
    BY <2>3, <2>4
<1>13. CASE EnqueueConfirmation(r)
  <2>1. k \notin OneTimeKeys
    BY <1>13 DEF EnqueueConfirmation, At, ClaimedOnce, NoWayBack, OneTimeKeys
  <2>2. UNCHANGED <<tx, pages, opened>> /\ Goto(r, "answering")
    BY <1>13 DEF EnqueueConfirmation
  <2> QED
    BY <2>1, <2>2, GotoBystander, QuietKeepsOrder
<1>14. CASE Fail(r)
  BY <1>14, AnswerBystander, QuietKeepsOrder DEF Fail
<1> QED
  BY <1>1, <1>2, <1>3, <1>4, <1>5, <1>6, <1>7, <1>8, <1>9, <1>10, <1>11, <1>12, <1>13, <1>14 DEF Proceed

LEMMA AcceptClaimed ==
    ASSUME TypeInv, ClaimedOnce, NEW r \in Requests, NEW k \in Keys, Accept(r, k)
    PROVE  ClaimedOnce'
<1>1. UNCHANGED <<tx, pages, opened>>
  BY DEF Accept, PrepareRead, ContinueRead, CancelRequest
<1>2. PICK c : Bystander(c) /\ request' = [request EXCEPT ![r] = c]
  BY DEF Accept, PrepareRead, ContinueRead, CancelRequest, Bystander, Idle
<1> QED
  BY <1>1, <1>2, BystanderStep, QuietKeepsOrder

LEMMA ElseClaimed ==
    ASSUME ClaimedOnce, UNCHANGED <<tx, pages, opened>>,
           UNCHANGED request \/ request' = [r \in Requests |-> Idle]
    PROVE  ClaimedOnce'
  BY DEF ClaimedOnce, UnclaimedIsUntouched, OneClaimant, NoWayBack, Claims, At, Idle

LEMMA NextClaimed == TypeInv /\ ClaimedOnce /\ [Next]_vars => ClaimedOnce'
<1> SUFFICES ASSUME TypeInv, ClaimedOnce, [Next]_vars PROVE ClaimedOnce'
  OBVIOUS
<1>1. CASE \E r \in Requests : Proceed(r)
  BY <1>1, ProceedClaimed
<1>2. CASE \E r \in Requests, k \in Keys : Accept(r, k)
  BY <1>2, AcceptClaimed
<1>3. CASE UNCHANGED vars \/ Crash \/ \E a \in Ids : DecideHitlRequest(a) \/ Expire(a)
  BY <1>3, ElseClaimed DEF vars, Crash, DecideHitlRequest, Expire
<1> QED
  BY <1>1, <1>2, <1>3 DEF Next

(* HandedOutOnce, for any keys and any number of requests.                   *)
THEOREM HandedOut == Spec => []HandedOutOnce
<1> DEFINE Inv == TypeInv /\ ClaimedOnce /\ HandedOutOnce
<1>1. Init => Inv
  BY InitType, InitClaimed
<1>2. Inv /\ [Next]_vars => Inv'
  <2> SUFFICES ASSUME Inv, [Next]_vars PROVE HandedOutOnce'
    BY NextType, NextClaimed
  <2>1. CASE UNCHANGED <<pages, opened>>
    BY <2>1 DEF HandedOutOnce
  <2>2. ASSUME NEW r \in Requests, CreatePage(r) \/ AnswerWithDestination(r)
        PROVE  HandedOutOnce'
    BY <2>2, CountedOnce
  <2> QED
    BY <2>1, <2>2 DEF Next, Proceed, Accept, RequestApproval, SaveUnique, SaveUpsert, LinkApproval,
          ContinueCheck, FetchDestination, Claim, RecordPage, Fail, TransitionRead, TransitionWrite,
          EnqueueConfirmation, PrepareRead, ContinueRead, CancelRequest, DecideHitlRequest,
          Expire, Crash, vars
<1>3. Inv => HandedOutOnce
  OBVIOUS
<1> QED
  BY <1>1, <1>2, <1>3, PTL DEF Spec

-----------------------------------------------------------------------------
(* The content that leaves is the content that was approved. *)

(* No decision is taken back. *)
AgreedStays == \A offer \in Offers \cup {None} : Agreed(offer) => Agreed(offer)'

(* No row is deleted, and none changes its content. *)
ContentStays ==
    \A k \in OneTimeKeys : tx[k].state # "absent" => tx'[k].state # "absent" /\ tx'[k].offer = tx[k].offer

(* What a step of r gives out was agreed. *)
CountsAgreed ==
    \A k \in OneTimeKeys : pages'[k] + opened'[k] > pages[k] + opened[k] => Agreed(tx[k].offer)'

LEMMA ContentStep ==
    ASSUME TypeInv, ClaimedOnce, ContentApproved, TypeOK',
           NEW r \in Requests, \A s \in Requests \ {r} : request'[s] = request[s],
           request'[r].key \in OneTimeKeys => CarriesContent(r)',
           UnissuedIsUnused', AgreedStays, ContentStays, CountsAgreed
    PROVE  ContentApproved'
<1>1. \A k \in OneTimeKeys : tx[k].offer \in Offers \cup {None}
  BY TravelIsApart DEF TypeInv, TypeOK, Transactions
<1>2. ASSUME NEW s \in Requests, s # r, request'[s].key \in OneTimeKeys PROVE CarriesContent(s)'
  <2>1. request'[s] = request[s] /\ CarriesContent(s)
    BY <1>2 DEF ContentApproved
  <2> QED
    BY <1>1, <1>2, <2>1 DEF CarriesContent, AgreedStays, ContentStays, At
<1>3. ApprovedAsHashed'
  <2> SUFFICES ASSUME NEW k \in OneTimeKeys, pages'[k] + opened'[k] > 0 PROVE Agreed(tx[k].offer)'
    BY DEF ApprovedAsHashed, ApprovedFor, Agreed
  <2>1. pages[k] \in Nat /\ opened[k] \in Nat /\ pages'[k] \in Nat /\ opened'[k] \in Nat
    BY TravelIsApart DEF TypeInv, TypeOK
  <2>2. tx[k].state = "absent" => pages[k] = 0 /\ opened[k] = 0
    BY DEF ClaimedOnce, UnclaimedIsUntouched
  <2>3. CASE pages[k] + opened[k] > 0
    <3>1. Agreed(tx[k].offer) /\ tx[k].state # "absent"
      BY <2>1, <2>2, <2>3 DEF ContentApproved, ApprovedAsHashed, ApprovedFor
    <3> QED
      BY <1>1, <3>1 DEF AgreedStays, ContentStays
  <2>4. CASE ~(pages[k] + opened[k] > 0)
    BY <2>1, <2>4 DEF CountsAgreed
  <2> QED
    BY <2>3, <2>4
<1> QED
  BY <1>2, <1>3 DEF ContentApproved

(* A step that changes nothing but r's own context. *)
LEMMA ContextStep ==
    ASSUME TypeInv, ClaimedOnce, ContentApproved, TypeOK',
           NEW r \in Requests, \A s \in Requests \ {r} : request'[s] = request[s],
           request'[r].key \in OneTimeKeys => CarriesContent(r)',
           UNCHANGED <<tx, approvals, issued, pages, opened>>
    PROVE  ContentApproved'
<1>1. UnissuedIsUnused' /\ AgreedStays /\ ContentStays
  BY DEF ContentApproved, UnissuedIsUnused, AgreedStays, Agreed, ContentStays
<1>2. CountsAgreed
  BY TravelIsApart DEF CountsAgreed, TypeInv, TypeOK
<1> QED
  BY <1>1, <1>2, ContentStep

LEMMA IdleCarries ==
    ASSUME NEW r \in Requests, request'[r] = Idle
    PROVE  CarriesContent(r)'
  BY DEF CarriesContent, Idle, At

(* With no approval touched, what holds of the approvals still does. *)
LEMMA ApprovalsKept ==
    ASSUME ContentApproved, UNCHANGED <<approvals, issued>>
    PROVE  UnissuedIsUnused' /\ AgreedStays
  BY DEF ContentApproved, UnissuedIsUnused, AgreedStays, Agreed

(* A request of the travel flow touches no row of another flow. *)
LEMMA TravelLeavesAlone ==
    ASSUME TypeInv, NEW r \in Requests, Proceed(r), request[r].key \notin OneTimeKeys
    PROVE  /\ \A k \in OneTimeKeys : tx'[k] = tx[k] /\ pages'[k] = pages[k] /\ opened'[k] = opened[k]
           /\ \A s \in Requests \ {r} : request'[s] = request[s]
           /\ request'[r].key \notin OneTimeKeys
<1> DEFINE q == request[r].key
<1>1. request[r] \in Contexts /\ None \notin OneTimeKeys
  BY FlowsAssumption DEF TypeInv, TypeOK, OneTimeKeys, Keys
<1>2. \A s \in Requests \ {r} : request'[s] = request[s]
  BY DEF Proceed, RequestApproval, SaveUnique, SaveUpsert, LinkApproval, ContinueCheck,
        FetchDestination, Claim, CreatePage, RecordPage, AnswerWithDestination, Fail,
        TransitionRead, TransitionWrite, EnqueueConfirmation, Goto, Answer, GiveUp, TypeInv, TypeOK
<1>3. request'[r].key \notin OneTimeKeys
  <2>1. CASE Answer(r)
    BY <1>1, <2>1 DEF Answer, Idle, TypeInv, TypeOK
  <2>2. CASE ~Answer(r)
    <3>1. request'[r].key = q
      BY <1>1, <2>2 DEF Proceed, RequestApproval, SaveUnique, SaveUpsert, LinkApproval, ContinueCheck,
            FetchDestination, Claim, CreatePage, RecordPage, AnswerWithDestination, Fail,
            TransitionRead, TransitionWrite, EnqueueConfirmation, Goto, GiveUp, TypeInv, TypeOK, Contexts
    <3> QED
      BY <3>1
  <2> QED
    BY <2>1, <2>2
<1>4. ASSUME NEW k \in OneTimeKeys
      PROVE  tx'[k] = tx[k] /\ pages'[k] = pages[k] /\ opened'[k] = opened[k]
  <2>1. k \in Keys /\ k # q
    BY TravelIsApart
  <2>2. tx'[k] = tx[k]
    BY <2>1 DEF Proceed, RequestApproval, SaveUnique, SaveUpsert, LinkApproval, ContinueCheck,
          FetchDestination, Claim, CreatePage, RecordPage, AnswerWithDestination, Fail,
          TransitionRead, TransitionWrite, EnqueueConfirmation, TypeInv, TypeOK
  <2>3. pages'[k] = pages[k] /\ opened'[k] = opened[k]
    BY <2>1 DEF Proceed, RequestApproval, SaveUnique, SaveUpsert, LinkApproval, ContinueCheck,
          FetchDestination, Claim, CreatePage, RecordPage, AnswerWithDestination, Fail,
          TransitionRead, TransitionWrite, EnqueueConfirmation, TypeInv, TypeOK
  <2> QED
    BY <2>2, <2>3
<1> QED
  BY <1>2, <1>3, <1>4

LEMMA RequestApprovalContent ==
    ASSUME TypeInv, ClaimedOnce, ContentApproved, TypeOK',
           NEW r \in Requests, RequestApproval(r)
    PROVE  ContentApproved'
<1>1. issued \in Nat /\ issued + 1 \in Ids
  BY FlowsAssumption DEF RequestApproval, TypeInv, TypeOK, Ids
<1>2. approvals' = [approvals EXCEPT ![issued + 1] =
                      [status |-> "pending_human_approval", live |-> TRUE,
                       offer |-> request[r].offer]] /\ issued' = issued + 1
  BY DEF RequestApproval
<1>3. UnissuedIsUnused'
  BY <1>1, <1>2 DEF ContentApproved, UnissuedIsUnused, Ids, TypeInv, TypeOK
<1>4. AgreedStays
  <2>1. approvals[issued + 1].status = "unused"
    BY <1>1 DEF ContentApproved, UnissuedIsUnused
  <2> QED
    BY <1>1, <1>2, <2>1 DEF AgreedStays, Agreed, TypeInv, TypeOK
<1>5. ContentStays /\ CountsAgreed
  BY TravelIsApart DEF RequestApproval, ContentStays, CountsAgreed, TypeInv, TypeOK
<1>6. CarriesContent(r)'
  BY DEF RequestApproval, CarriesContent, TypeInv, TypeOK, Contexts, At
<1>7. \A s \in Requests \ {r} : request'[s] = request[s]
  BY DEF RequestApproval, TypeInv, TypeOK
<1> QED
  BY <1>3, <1>4, <1>5, <1>6, <1>7, ContentStep

LEMMA SaveUniqueContent ==
    ASSUME TypeInv, ClaimedOnce, ContentApproved, TypeOK',
           NEW r \in Requests, SaveUnique(r)
    PROVE  ContentApproved'
<1>1. request'[r] = Idle /\ \A s \in Requests \ {r} : request'[s] = request[s]
  BY DEF SaveUnique, Answer, TypeInv, TypeOK
<1>2. UnissuedIsUnused' /\ AgreedStays
  BY ApprovalsKept DEF SaveUnique
<1>3. ContentStays /\ CountsAgreed
  BY TravelIsApart DEF SaveUnique, NewTx, ContentStays, CountsAgreed, TypeInv, TypeOK
<1> QED
  BY <1>1, <1>2, <1>3, IdleCarries, ContentStep

LEMMA CheckContent ==
    ASSUME TypeInv, ClaimedOnce, ContentApproved, TypeOK',
           NEW r \in Requests, request[r].key \in OneTimeKeys, ContinueCheck(r)
    PROVE  ContentApproved'
<1>1. UNCHANGED <<tx, approvals, issued, pages, opened>>
  BY DEF ContinueCheck
<1>2. \A s \in Requests \ {r} : request'[s] = request[s]
  BY DEF ContinueCheck, Answer, TypeInv, TypeOK
<1>3. CASE Approved(r)
  <2> DEFINE k == request[r].key
  <2>1. request[r] \in Contexts /\ request[r].approval \in Ids
    BY FlowsAssumption DEF ContinueCheck, ContentApproved, CarriesContent, TypeInv, TypeOK, Contexts, Ids
  <2>2. request'[r] = [request[r] EXCEPT !.stage = AfterCheck(k), !.next = "executing"]
    BY <1>3 DEF ContinueCheck, TypeInv, TypeOK
  <2>3. request'[r].key = k /\ request'[r].offer = request[r].offer
        /\ request'[r].stage \in {"fetching", "claiming"}
    BY <2>1, <2>2, TravelIsApart DEF AfterCheck, Contexts
  <2>4. tx[k].state # "absent" /\ request[r].offer = tx[k].offer
    BY DEF ContinueCheck, ContentApproved, CarriesContent, At
  <2>5. Agreed(tx[k].offer)
    BY <1>3, <2>1, <2>4, TravelIsApart DEF Approved, Agreed
  <2>6. CarriesContent(r)'
    BY <1>1, <2>3, <2>4, <2>5 DEF CarriesContent, Agreed, At
  <2> QED
    BY <1>1, <1>2, <2>6, ContextStep
<1>4. CASE ~Approved(r)
  <2>1. request'[r] = Idle
    BY <1>4 DEF ContinueCheck, Answer, TypeInv, TypeOK
  <2> QED
    BY <1>1, <1>2, <2>1, IdleCarries, ContextStep
<1> QED
  BY <1>3, <1>4

LEMMA ClaimContent ==
    ASSUME TypeInv, ClaimedOnce, ContentApproved, TypeOK',
           NEW r \in Requests, request[r].key \in OneTimeKeys, Claim(r)
    PROVE  ContentApproved'
<1> DEFINE k == request[r].key
<1>1. k \in Keys /\ request[r] \in Contexts
  BY DEF Claim, TypeInv, TypeOK, RequestsKeyed, At
<1>2. UnissuedIsUnused' /\ AgreedStays
  BY ApprovalsKept DEF Claim
<1>3. ContentStays /\ CountsAgreed
  BY <1>1, TravelIsApart DEF Claim, ContentStays, CountsAgreed, TypeInv, TypeOK, Transactions
<1>4. \A s \in Requests \ {r} : request'[s] = request[s]
  BY DEF Claim, Goto, Answer, TypeInv, TypeOK
<1>5. CASE tx[k].state = "awaiting_approval"
  <2>1. tx'[k].state = "executing" /\ tx'[k].offer = tx[k].offer /\ Agreed(tx[k].offer)
    BY <1>1, <1>5 DEF Claim, ContentApproved, CarriesContent, TypeInv, TypeOK, Transactions, At
  <2>2. request'[r].key = k /\ request'[r].stage \in {"creating", "answering"}
    BY <1>1, <1>5 DEF Claim, Goto, TypeInv, TypeOK, Contexts
  <2>3. CarriesContent(r)'
    BY <2>1, <2>2 DEF CarriesContent, Claim, Agreed, At
  <2> QED
    BY <1>2, <1>3, <1>4, <2>3, ContentStep
<1>6. CASE tx[k].state # "awaiting_approval"
  <2>1. request'[r] = Idle
    BY <1>6 DEF Claim, Answer, TypeInv, TypeOK
  <2> QED
    BY <1>2, <1>3, <1>4, <2>1, IdleCarries, ContentStep
<1> QED
  BY <1>5, <1>6

LEMMA PageContent ==
    ASSUME TypeInv, ClaimedOnce, ContentApproved, TypeOK',
           NEW r \in Requests, request[r].key \in OneTimeKeys, CreatePage(r)
    PROVE  ContentApproved'
<1> DEFINE k == request[r].key
<1>1. request[r] \in Contexts /\ tx[k].state # "absent" /\ Agreed(tx[k].offer)
  BY DEF CreatePage, TypeInv, TypeOK, ContentApproved, CarriesContent, At
<1>2. UnissuedIsUnused' /\ AgreedStays
  BY ApprovalsKept DEF CreatePage
<1>3. ContentStays /\ \A q \in Keys : q # k => pages'[q] = pages[q] /\ opened'[q] = opened[q]
  BY DEF CreatePage, ContentStays, TypeInv, TypeOK
<1>4. CountsAgreed
  <2>1. \A q \in Keys : pages[q] \in Nat /\ opened[q] \in Nat
    BY DEF TypeInv, TypeOK
  <2>2. \A q \in Keys : q = k => Agreed(tx[q].offer)'
    BY <1>1 DEF CreatePage, Agreed
  <2> QED
    BY <1>3, <2>1, <2>2, TravelIsApart DEF CountsAgreed
<1>5. request'[r].key = k /\ request'[r].stage \in {"recording", "moving"}
      /\ \A s \in Requests \ {r} : request'[s] = request[s]
  BY <1>1 DEF CreatePage, Goto, GiveUp, TypeInv, TypeOK, Contexts
<1>6. CarriesContent(r)'
  BY <1>1, <1>5 DEF CarriesContent, CreatePage, Agreed, At
<1> QED
  BY <1>2, <1>3, <1>4, <1>5, <1>6, ContentStep

LEMMA RecordContent ==
    ASSUME TypeInv, ClaimedOnce, ContentApproved, TypeOK',
           NEW r \in Requests, request[r].key \in OneTimeKeys, RecordPage(r)
    PROVE  ContentApproved'
<1> DEFINE k == request[r].key
<1>1. request[r] \in Contexts /\ k \in Keys /\ tx[k].state # "absent" /\ Agreed(tx[k].offer)
  BY DEF RecordPage, TypeInv, TypeOK, RequestsKeyed, ContentApproved, CarriesContent, At
<1>2. UnissuedIsUnused' /\ AgreedStays
  BY ApprovalsKept DEF RecordPage
<1>3. \A q \in Keys : tx'[q].state = tx[q].state /\ tx'[q].offer = tx[q].offer
  BY <1>1 DEF RecordPage, TypeInv, TypeOK, Transactions
<1>4. ContentStays /\ CountsAgreed
  BY <1>3, TravelIsApart DEF RecordPage, ContentStays, CountsAgreed, TypeInv, TypeOK
<1>5. request'[r].key = k /\ request'[r].stage \in {"answering", "moving"}
      /\ \A s \in Requests \ {r} : request'[s] = request[s]
  BY <1>1 DEF RecordPage, Goto, GiveUp, TypeInv, TypeOK, Contexts
<1>6. CarriesContent(r)'
  BY <1>1, <1>3, <1>5 DEF CarriesContent, RecordPage, Agreed, At
<1> QED
  BY <1>2, <1>4, <1>5, <1>6, ContentStep

LEMMA DestinationContent ==
    ASSUME TypeInv, ClaimedOnce, ContentApproved, TypeOK',
           NEW r \in Requests, request[r].key \in OneTimeKeys, AnswerWithDestination(r)
    PROVE  ContentApproved'
<1> DEFINE k == request[r].key
<1>1. k \in Keys /\ Agreed(tx[k].offer)
  BY DEF AnswerWithDestination, TypeInv, TypeOK, RequestsKeyed, ContentApproved, CarriesContent, At
<1>2. UnissuedIsUnused' /\ AgreedStays
  BY ApprovalsKept DEF AnswerWithDestination
<1>3. ContentStays /\ \A q \in Keys : q # k => pages'[q] = pages[q] /\ opened'[q] = opened[q]
  BY DEF AnswerWithDestination, ContentStays, TypeInv, TypeOK
<1>4. CountsAgreed
  <2>1. \A q \in Keys : pages[q] \in Nat /\ opened[q] \in Nat
    BY DEF TypeInv, TypeOK
  <2>2. \A q \in Keys : q = k => Agreed(tx[q].offer)'
    BY <1>1 DEF AnswerWithDestination, Agreed
  <2> QED
    BY <1>3, <2>1, <2>2, TravelIsApart DEF CountsAgreed
<1>5. request'[r] = Idle /\ \A s \in Requests \ {r} : request'[s] = request[s]
  BY DEF AnswerWithDestination, Answer, TypeInv, TypeOK
<1> QED
  BY <1>2, <1>3, <1>4, <1>5, IdleCarries, ContentStep

LEMMA TransitionContent ==
    ASSUME TypeInv, ClaimedOnce, ContentApproved, TypeOK',
           NEW r \in Requests, request[r].key \in OneTimeKeys, TransitionWrite(r)
    PROVE  ContentApproved'
<1> DEFINE e == request[r]
<1>1. e \in Contexts /\ e.key \in Keys /\ e.next # "none" /\ tx[e.key].state # "absent"
  BY DEF TransitionWrite, TypeInv, TypeOK, RequestsKeyed, ContentApproved, CarriesContent, At
<1>2. UnissuedIsUnused' /\ AgreedStays
  BY ApprovalsKept DEF TransitionWrite
<1>3. ContentStays /\ tx'[e.key].state # "absent"
  BY <1>1, TravelIsApart DEF TransitionWrite, ContentStays, TypeInv, TypeOK, Contexts, Transactions
<1>4. CountsAgreed
  BY TravelIsApart DEF TransitionWrite, CountsAgreed, TypeInv, TypeOK
<1>5. \A s \in Requests \ {r} : request'[s] = request[s]
  BY DEF TransitionWrite, Goto, Answer, TypeInv, TypeOK
<1>6. CarriesContent(r)'
  <2>1. CASE e.next = "executing"
    <3>1. request'[r].key = e.key /\ request'[r].stage = "enqueuing"
      BY <1>1, <2>1 DEF TransitionWrite, Goto, TypeInv, TypeOK, Contexts
    <3> QED
      BY <1>3, <3>1 DEF CarriesContent, At
  <2>2. CASE e.next # "executing"
    BY <2>2, IdleCarries DEF TransitionWrite, Answer, TypeInv, TypeOK
  <2> QED
    BY <2>1, <2>2
<1> QED
  BY <1>2, <1>3, <1>4, <1>5, <1>6, ContentStep

LEMMA ProceedContent ==
    ASSUME TypeInv, ClaimedOnce, ContentApproved, TypeOK',
           NEW r \in Requests, Proceed(r)
    PROVE  ContentApproved'
<1>1. CASE RequestApproval(r) \/ SaveUnique(r)
  BY <1>1, RequestApprovalContent, SaveUniqueContent
<1>2. CASE request[r].key \notin OneTimeKeys /\ ~RequestApproval(r)
  <2>1. UNCHANGED <<approvals, issued>>
    BY <1>2 DEF Proceed, SaveUnique, SaveUpsert, LinkApproval, ContinueCheck, FetchDestination,
          Claim, CreatePage, RecordPage, AnswerWithDestination, Fail, TransitionRead,
          TransitionWrite, EnqueueConfirmation
  <2>2. UnissuedIsUnused' /\ AgreedStays
    BY <2>1, ApprovalsKept
  <2>3. ContentStays /\ CountsAgreed
    <3>1. \A k \in OneTimeKeys : pages[k] \in Nat /\ opened[k] \in Nat
      BY TravelIsApart DEF TypeInv, TypeOK
    <3> QED
      BY <1>2, <3>1, TravelLeavesAlone DEF ContentStays, CountsAgreed
  <2> QED
    BY <1>2, <2>2, <2>3, TravelLeavesAlone, ContentStep
<1> SUFFICES ASSUME request[r].key \in OneTimeKeys, ~RequestApproval(r), ~SaveUnique(r)
             PROVE  ContentApproved'
  BY <1>1, <1>2
<1>3. CASE Claim(r) \/ CreatePage(r) \/ RecordPage(r) \/ AnswerWithDestination(r)
           \/ TransitionWrite(r) \/ ContinueCheck(r)
  BY <1>3, ClaimContent, PageContent, RecordContent, DestinationContent, TransitionContent, CheckContent
<1>7. CASE SaveUpsert(r) \/ LinkApproval(r) \/ EnqueueConfirmation(r)
  BY <1>7, TravelIsApart DEF SaveUpsert, LinkApproval, EnqueueConfirmation, At, ClaimedOnce, NoWayBack
<1>4. CASE FetchDestination(r)
  <2>1. UNCHANGED <<tx, approvals, issued, pages, opened>>
        /\ \A s \in Requests \ {r} : request'[s] = request[s]
    BY <1>4 DEF FetchDestination, Goto, TypeInv, TypeOK
  <2>2. request'[r].stage = "claiming" /\ request'[r].key = request[r].key
        /\ request'[r].offer = request[r].offer
    BY <1>4 DEF FetchDestination, Goto, TypeInv, TypeOK, Contexts
  <2>3. CarriesContent(r)'
    BY <1>4, <2>1, <2>2 DEF FetchDestination, ContentApproved, CarriesContent, Agreed, At
  <2> QED
    BY <2>1, <2>3, ContextStep
<1>5. CASE TransitionRead(r)
  <2>1. UNCHANGED <<tx, approvals, issued, pages, opened>>
        /\ \A s \in Requests \ {r} : request'[s] = request[s]
    BY <1>5 DEF TransitionRead, Answer, TypeInv, TypeOK
  <2>2. CASE Answer(r)
    BY <2>1, <2>2, IdleCarries, ContextStep DEF Answer, TypeInv, TypeOK
  <2>3. CASE ~Answer(r)
    <3>1. request'[r].stage = "writing" /\ request'[r].key = request[r].key
      BY <1>5, <2>3 DEF TransitionRead, TypeInv, TypeOK, Contexts
    <3>2. CarriesContent(r)'
      BY <1>5, <2>1, <3>1 DEF TransitionRead, ContentApproved, CarriesContent, At
    <3> QED
      BY <2>1, <3>2, ContextStep
  <2> QED
    BY <2>2, <2>3
<1>6. CASE Fail(r)
  <2>1. request'[r] = Idle /\ \A s \in Requests \ {r} : request'[s] = request[s]
    BY <1>6 DEF Fail, Answer, TypeInv, TypeOK
  <2> QED
    BY <1>6, <2>1, IdleCarries, ContextStep DEF Fail
<1> QED
  BY <1>3, <1>4, <1>5, <1>6, <1>7 DEF Proceed

LEMMA AcceptContent ==
    ASSUME TypeInv, ClaimedOnce, ContentApproved, TypeOK',
           NEW r \in Requests, NEW k \in Keys, Accept(r, k)
    PROVE  ContentApproved'
<1>1. UNCHANGED <<tx, approvals, issued, pages, opened>>
      /\ \A s \in Requests \ {r} : request'[s] = request[s]
  BY DEF Accept, PrepareRead, ContinueRead, CancelRequest, TypeInv, TypeOK
<1>2. CarriesContent(r)'
  <2>1. CASE \E offer \in Offers : PrepareRead(r, k, offer)
    BY <2>1 DEF PrepareRead, Idle, CarriesContent, At, TypeInv, TypeOK
  <2>2. CASE ContinueRead(r, k)
    BY <2>2 DEF ContinueRead, Idle, CarriesContent, At, TypeInv, TypeOK
  <2>3. CASE CancelRequest(r, k)
    BY <2>3 DEF CancelRequest, Idle, CarriesContent, At, TypeInv, TypeOK
  <2> QED
    BY <2>1, <2>2, <2>3 DEF Accept
<1> QED
  BY <1>1, <1>2, ContextStep

LEMMA ApprovalContent ==
    ASSUME TypeInv, ContentApproved, NEW a \in Ids, DecideHitlRequest(a) \/ Expire(a)
    PROVE  ContentApproved'
<1>1. \A b \in Ids : /\ approvals'[b].offer = approvals[b].offer
                     /\ approvals[b].status \in {"unused", "success"} => approvals'[b].status = approvals[b].status
  BY DEF DecideHitlRequest, Expire, TypeInv, TypeOK, Approvals
<1>2. \A offer : Agreed(offer) => Agreed(offer)'
  BY <1>1 DEF Agreed
<1>3. UNCHANGED <<tx, issued, request, pages, opened>>
  BY DEF DecideHitlRequest, Expire
<1>4. UnissuedIsUnused'
  BY <1>1, <1>3 DEF ContentApproved, UnissuedIsUnused
<1>5. \A r \in Requests : request[r].key \in OneTimeKeys => CarriesContent(r)'
  BY <1>2, <1>3 DEF ContentApproved, CarriesContent, At
<1>6. ApprovedAsHashed'
  BY <1>2, <1>3 DEF ContentApproved, ApprovedAsHashed, ApprovedFor
<1> QED
  BY <1>3, <1>4, <1>5, <1>6 DEF ContentApproved

LEMMA InitContent == Init => ContentApproved
  BY TravelIsApart DEF Init, ContentApproved, UnissuedIsUnused, Unused, CarriesContent, Idle, At,
        ApprovedAsHashed, ApprovedFor

LEMMA NextContent == TypeInv /\ ClaimedOnce /\ ContentApproved /\ [Next]_vars => ContentApproved'
<1> SUFFICES ASSUME TypeInv, ClaimedOnce, ContentApproved, [Next]_vars PROVE ContentApproved'
  OBVIOUS
<1>1. TypeOK'
  BY NextType DEF TypeInv
<1>2. CASE \E r \in Requests : Proceed(r)
  BY <1>1, <1>2, ProceedContent
<1>3. CASE \E r \in Requests, k \in Keys : Accept(r, k)
  BY <1>1, <1>3, AcceptContent
<1>4. CASE \E a \in Ids : DecideHitlRequest(a) \/ Expire(a)
  BY <1>4, ApprovalContent
<1>5. CASE Crash \/ UNCHANGED vars
  <2>1. UNCHANGED <<tx, approvals, issued, pages, opened>>
        /\ \A r \in Requests : request'[r] = Idle \/ request'[r] = request[r]
    BY <1>5 DEF Crash, vars
  <2> QED
    BY <2>1 DEF ContentApproved, UnissuedIsUnused, CarriesContent, Agreed, ApprovedAsHashed, ApprovedFor, Idle, At
<1> QED
  BY <1>2, <1>3, <1>4, <1>5 DEF Next

(* ApprovedAsHashed: in the flows that compare the approval's hash with the  *)
(* stored content, whatever travel requests run beside them, nothing is       *)
(* handed out and no page exists before the user approved that very content.  *)
THEOREM ContentIsApproved == Spec => []ApprovedAsHashed
<1>1. ContentApproved => ApprovedAsHashed
  BY DEF ContentApproved
<1> QED
  BY InitType, InitClaimed, InitContent, NextType, NextClaimed, NextContent, <1>1, PTL DEF Spec

-----------------------------------------------------------------------------
(* The confirmation job precedes the destination of a travel checkout. *)

(* A travel request never enters the claiming flows, and one that is about  *)
(* to answer has its job in the queue.                                       *)
Queued(c, queue) ==
    c.key \in Travel =>
        /\ c.stage \notin {"fetching", "claiming", "creating", "recording"}
        /\ c.stage = "answering" => queue[c.key]

JobBeforeAnswer == ConfirmationQueuedFirst /\ \A r \in Requests : Queued(request[r], job)

LEMMA QueuedStep ==
    ASSUME TypeInv, JobBeforeAnswer, NEW r \in Requests, NEW c, request' = [request EXCEPT ![r] = c],
           Queued(c, job'), \A k \in Travel : (job[k] => job'[k]) /\ (opened'[k] = opened[k] \/ job[k])
    PROVE  JobBeforeAnswer'
<1>1. \A s \in Requests : request'[s] = IF s = r THEN c ELSE request[s]
  BY DEF TypeInv, TypeOK
<1>2. \A s \in Requests : Queued(request'[s], job')
  BY <1>1 DEF JobBeforeAnswer, Queued
<1>3. ConfirmationQueuedFirst'
  BY DEF JobBeforeAnswer, ConfirmationQueuedFirst
<1> QED
  BY <1>2, <1>3 DEF JobBeforeAnswer

(* A request that ends, or moves on to a stage open to every flow. *)
LEMMA QueuedGoto ==
    ASSUME TypeInv, JobBeforeAnswer, NEW r \in Requests, UNCHANGED <<opened, job>>,
           \/ Answer(r) \/ GiveUp(r)
           \/ \E stage : Goto(r, stage) /\ (request[r].key \in Travel =>
                                              stage \in {"saving", "linking", "enqueuing"})
    PROVE  JobBeforeAnswer'
<1>0. request[r] \in Contexts
  BY DEF TypeInv, TypeOK
<1>1. None \notin Travel
  BY FlowsAssumption DEF Keys
<1>2. PICK c : request' = [request EXCEPT ![r] = c] /\ Queued(c, job')
  <2>1. CASE Answer(r)
    <3>1. Queued(Idle, job')
      BY <1>1 DEF Idle, Queued
    <3> QED
      BY <2>1, <3>1 DEF Answer
  <2>2. CASE GiveUp(r)
    <3>1. Queued([request[r] EXCEPT !.stage = "moving", !.next = "uncertain"], job')
      BY <1>0 DEF Queued, Contexts
    <3> QED
      BY <2>2, <3>1 DEF GiveUp
  <2>3. ASSUME NEW stage, Goto(r, stage),
               request[r].key \in Travel => stage \in {"saving", "linking", "enqueuing"}
        PROVE  \E c : request' = [request EXCEPT ![r] = c] /\ Queued(c, job')
    <3>1. Queued([request[r] EXCEPT !.stage = stage], job')
      BY <1>0, <2>3 DEF Queued, Contexts
    <3> QED
      BY <2>3, <3>1 DEF Goto
  <2> QED
    BY <2>1, <2>2, <2>3
<1> QED
  BY <1>2, QueuedStep

LEMMA ProceedQueued ==
    ASSUME TypeInv, JobBeforeAnswer, NEW r \in Requests, Proceed(r)
    PROVE  JobBeforeAnswer'
<1> DEFINE k == request[r].key
<1>0. request[r] \in Contexts /\ Queued(request[r], job)
  BY DEF TypeInv, TypeOK, JobBeforeAnswer
<1>1. CASE RequestApproval(r)
  <2> DEFINE c == [request[r] EXCEPT !.stage = "saving", !.approval = issued + 1]
  <2>1. Queued(c, job')
    BY <1>0 DEF Queued, Contexts
  <2>2. request' = [request EXCEPT ![r] = c] /\ UNCHANGED <<opened, job>>
    BY <1>1 DEF RequestApproval
  <2> HIDE DEF c
  <2> QED
    BY <2>1, <2>2, QueuedStep
<1>2. CASE SaveUnique(r) \/ SaveUpsert(r) \/ LinkApproval(r) \/ Fail(r)
  BY <1>2, QueuedGoto DEF SaveUnique, SaveUpsert, LinkApproval, Fail
<1>3. CASE ContinueCheck(r)
  <2> DEFINE c == [request[r] EXCEPT !.stage = AfterCheck(k), !.next = "executing"]
  <2>1. CASE Approved(r)
    <3>1. Queued(c, job')
      BY <1>0 DEF Queued, Contexts, AfterCheck
    <3>2. request' = [request EXCEPT ![r] = c] /\ UNCHANGED <<opened, job>>
      BY <1>3, <2>1 DEF ContinueCheck
    <3> HIDE DEF c
    <3> QED
      BY <3>1, <3>2, QueuedStep
  <2>2. CASE ~Approved(r)
    BY <1>3, <2>2, QueuedGoto DEF ContinueCheck
  <2> QED
    BY <2>1, <2>2
<1>4. CASE FetchDestination(r) \/ Claim(r) \/ RecordPage(r) \/ CreatePage(r)
  <2>1. k \notin Travel /\ UNCHANGED <<opened, job>>
    BY <1>0, <1>4 DEF Queued, FetchDestination, Claim, RecordPage, CreatePage, At
  <2>2. Answer(r) \/ GiveUp(r) \/ \E stage : Goto(r, stage)
    BY <1>4 DEF FetchDestination, Claim, RecordPage, CreatePage
  <2> QED
    BY <2>1, <2>2, QueuedGoto
<1>5. CASE AnswerWithDestination(r)
  <2>1. \A q \in Travel : opened'[q] = opened[q] \/ job[q]
    BY <1>0, <1>5 DEF AnswerWithDestination, Queued, At, TypeInv, TypeOK, Keys
  <2>2. Queued(Idle, job')
    BY FlowsAssumption DEF Queued, Idle, Keys
  <2> QED
    BY <1>5, <2>1, <2>2, QueuedStep DEF AnswerWithDestination, Answer
<1>6. CASE TransitionRead(r)
  <2> DEFINE c == [request[r] EXCEPT !.stage = "writing", !.approval = tx[k].approval,
                                     !.result = tx[k].result]
  <2>1. Queued(c, job')
    BY <1>0 DEF Queued, Contexts
  <2>2. UNCHANGED <<opened, job>> /\ (Answer(r) \/ request' = [request EXCEPT ![r] = c])
    BY <1>6 DEF TransitionRead
  <2> HIDE DEF c
  <2> QED
    BY <2>1, <2>2, QueuedStep, QueuedGoto
<1>7. CASE TransitionWrite(r)
  <2>1. UNCHANGED <<opened, job>> /\ (Answer(r) \/ Goto(r, "enqueuing"))
    BY <1>7 DEF TransitionWrite
  <2> QED
    BY <2>1, QueuedGoto
<1>8. CASE EnqueueConfirmation(r)
  <2> DEFINE c == [request[r] EXCEPT !.stage = "answering"]
  <2>1. \A q \in Travel : (job[q] => job'[q]) /\ (q = k => job'[q])
    BY <1>8 DEF EnqueueConfirmation, TypeInv, TypeOK, Keys
  <2>2. Queued(c, job')
    BY <1>0, <2>1 DEF Queued, Contexts
  <2>3. request' = [request EXCEPT ![r] = c] /\ UNCHANGED opened
    BY <1>8 DEF EnqueueConfirmation, Goto
  <2> HIDE DEF c
  <2> QED
    BY <2>1, <2>2, <2>3, QueuedStep
<1> QED
  BY <1>1, <1>2, <1>3, <1>4, <1>5, <1>6, <1>7, <1>8 DEF Proceed

LEMMA NextQueued == TypeInv /\ JobBeforeAnswer /\ [Next]_vars => JobBeforeAnswer'
<1> SUFFICES ASSUME TypeInv, JobBeforeAnswer, [Next]_vars PROVE JobBeforeAnswer'
  OBVIOUS
<1>0. Queued(Idle, job)
  BY FlowsAssumption DEF Queued, Idle, Keys
<1>1. CASE \E r \in Requests : Proceed(r)
  BY <1>1, ProceedQueued
<1>2. CASE \E r \in Requests, k \in Keys : Accept(r, k)
  <2>1. PICK r \in Requests, k \in Keys : Accept(r, k)
    BY <1>2
  <2>2. UNCHANGED <<opened, job>>
    BY <2>1 DEF Accept, PrepareRead, ContinueRead, CancelRequest
  <2>3. PICK c : Queued(c, job) /\ request' = [request EXCEPT ![r] = c]
    BY <2>1 DEF Accept, PrepareRead, ContinueRead, CancelRequest, Queued, Idle
  <2> QED
    BY <2>2, <2>3, QueuedStep
<1>3. CASE UNCHANGED vars \/ Crash \/ \E a \in Ids : DecideHitlRequest(a) \/ Expire(a)
  <2>1. UNCHANGED <<opened, job>> /\ (UNCHANGED request \/ request' = [r \in Requests |-> Idle])
    BY <1>3 DEF vars, Crash, DecideHitlRequest, Expire
  <2>2. \A r \in Requests : request'[r] = request[r] \/ request'[r] = Idle
    BY <2>1
  <2>3. \A r \in Requests : Queued(request'[r], job)
    BY <1>0, <2>2 DEF JobBeforeAnswer
  <2> QED
    BY <2>1, <2>3 DEF JobBeforeAnswer, ConfirmationQueuedFirst
<1> QED
  BY <1>1, <1>2, <1>3 DEF Next

(* ConfirmationQueuedFirst, for any keys and any number of requests: on every *)
(* path to a travel answer the job is enqueued first, and it is never taken   *)
(* back.                                                                       *)
THEOREM JobPrecedesDestination == Spec => []ConfirmationQueuedFirst
<1>1. Init => JobBeforeAnswer
  BY FlowsAssumption DEF Init, JobBeforeAnswer, ConfirmationQueuedFirst, Queued, Idle, Keys
<1>2. JobBeforeAnswer => ConfirmationQueuedFirst
  BY DEF JobBeforeAnswer
<1> QED
  BY InitType, NextType, <1>1, NextQueued, <1>2, PTL DEF Spec

-----------------------------------------------------------------------------
(* Outside travel, each key implements the one-time hand-off. *)

(* What is agreed to, and what a row is made of, is something on offer. *)
OffersReal ==
    /\ \A a \in Ids : approvals[a].status # "unused" => approvals[a].offer \in Offers
    /\ \A r \in Requests : request[r].stage \in {"requesting", "saving"} => request[r].offer \in Offers

HandoffInv == TypeInv /\ ClaimedOnce /\ ContentApproved /\ OffersReal

AgreedOffers == {approvals[a].offer : a \in {b \in Ids : approvals[b].status = "success"}}

HandoffStep(k) ==
    OneTime!Propose(k) \/ OneTime!Claim(k) \/ OneTime!Open(k) \/ OneTime!Close(k) \/ OneTime!Stay(k)

(* The phases of a key exclude one another. *)
LEMMA ReadPhase ==
    ASSUME TypeInv, ClaimedOnce, NEW k \in OneTimeKeys
    PROVE  /\ tx[k].state = "absent" => HandoffPhase(k) = "absent"
           /\ tx[k].state = "awaiting_approval" => HandoffPhase(k) = "offered"
           /\ ~Claimable(tx[k].state) => HandoffPhase(k) =
                 IF opened[k] > 0 THEN "opened"
                 ELSE IF \E r \in Requests : Claims(r, k) THEN "claimed" ELSE "closed"
<1>1. opened[k] \in Nat /\ (opened[k] > 0 => \A r \in Requests : ~Claims(r, k))
      /\ (Claimable(tx[k].state) => opened[k] = 0 /\ \A r \in Requests : ~Claims(r, k))
  BY TravelIsApart DEF TypeInv, TypeOK, ClaimedOnce, OneClaimant, UnclaimedIsUntouched, Claimable, Keys
<1> QED
  BY <1>1 DEF HandoffPhase, Claimable

LEMMA ReadPhaseAfter ==
    ASSUME TypeInv', ClaimedOnce', NEW k \in OneTimeKeys
    PROVE  /\ tx'[k].state = "absent" => HandoffPhase(k)' = "absent"
           /\ tx'[k].state = "awaiting_approval" => HandoffPhase(k)' = "offered"
           /\ ~Claimable(tx'[k].state) => HandoffPhase(k)' =
                 IF opened'[k] > 0 THEN "opened"
                 ELSE IF \E r \in Requests : Claims(r, k)' THEN "claimed" ELSE "closed"
<1>1. opened'[k] \in Nat /\ (opened'[k] > 0 => \A r \in Requests : ~Claims(r, k)')
      /\ (Claimable(tx'[k].state) => opened'[k] = 0 /\ \A r \in Requests : ~Claims(r, k)')
  BY TravelIsApart DEF TypeInv, TypeOK, ClaimedOnce, OneClaimant, UnclaimedIsUntouched, Claimable, Keys
<1> QED
  BY <1>1 DEF HandoffPhase, Claimable

(* A step that gives out nothing for k and lets nobody in: at most its row  *)
(* leaves the claimable states, or its claimant ends.                        *)
Quiet(k) ==
    /\ tx'[k].offer = tx[k].offer /\ opened'[k] = opened[k]
    /\ tx'[k].state = tx[k].state \/ (tx[k].state # "absent" /\ ~Claimable(tx'[k].state))
    /\ \A s \in Requests : Claims(s, k)' => Claims(s, k)

LEMMA QuietStep ==
    ASSUME HandoffInv, HandoffInv', NEW k \in OneTimeKeys, Quiet(k)
    PROVE  HandoffStep(k)
<1> USE DEF HandoffInv
<1>1. opened[k] \in Nat /\ (tx[k].state = "awaiting_approval" => opened[k] = 0 /\ \A r \in Requests : ~Claims(r, k))
  BY TravelIsApart DEF TypeInv, TypeOK, ClaimedOnce, UnclaimedIsUntouched, Keys
<1>2. HandoffPhase(k)' = HandoffPhase(k)
      \/ (HandoffPhase(k) \in {"offered", "claimed"} /\ HandoffPhase(k)' = "closed")
  <2>1. CASE Claimable(tx'[k].state)
    BY <2>1, ReadPhase, ReadPhaseAfter DEF Quiet, Claimable
  <2>2. CASE ~Claimable(tx'[k].state) /\ Claimable(tx[k].state)
    <3>1. tx[k].state = "awaiting_approval"
      BY <2>2 DEF Quiet, Claimable
    <3>2. ~(opened'[k] > 0) /\ ~\E r \in Requests : Claims(r, k)'
      BY <1>1, <3>1 DEF Quiet
    <3> QED
      BY <2>2, <3>1, <3>2, ReadPhase, ReadPhaseAfter
  <2>3. CASE ~Claimable(tx'[k].state) /\ ~Claimable(tx[k].state)
    BY <1>1, <2>3, ReadPhase, ReadPhaseAfter DEF Quiet
  <2> QED
    BY <2>1, <2>2, <2>3
<1> QED
  BY <1>2 DEF HandoffStep, OneTime!Close, OneTime!Stay, Quiet

(* What a step of r puts in r's place admits no new claimant. *)
Admits(r, c) ==
    \A k \in OneTimeKeys : c.key = k /\ c.stage \in {"creating", "recording", "answering"} => Claims(r, k)

LEMMA QuietRequest ==
    ASSUME HandoffInv, NEW r \in Requests, NEW c, request' = [request EXCEPT ![r] = c],
           Admits(r, c), NEW k \in OneTimeKeys, opened'[k] = opened[k],
           tx'[k].offer = tx[k].offer,
           tx'[k].state = tx[k].state \/ (tx[k].state # "absent" /\ ~Claimable(tx'[k].state))
    PROVE  Quiet(k)
<1>1. \A s \in Requests : request'[s] = IF s = r THEN c ELSE request[s]
  BY DEF HandoffInv, TypeInv, TypeOK
<1>2. \A s \in Requests : Claims(s, k)' => Claims(s, k)
  BY <1>1 DEF Claims, Admits
<1> QED
  BY <1>2 DEF Quiet

LEMMA SaveStep ==
    ASSUME HandoffInv, HandoffInv', NEW r \in Requests, SaveUnique(r), NEW k \in OneTimeKeys
    PROVE  HandoffStep(k)
<1> USE DEF HandoffInv
<1>1. Admits(r, Idle) /\ request' = [request EXCEPT ![r] = Idle] /\ opened' = opened
  BY DEF SaveUnique, Answer, Admits, Idle
<1>2. CASE k = request[r].key /\ tx[k].state = "absent"
  <2>1. tx'[k] = NewTx(r) /\ request[r].offer \in Offers
    BY <1>2 DEF SaveUnique, TypeInv, TypeOK, OffersReal, At
  <2>2. tx'[k].state = "awaiting_approval" /\ tx'[k].offer \in Offers
    BY <2>1 DEF NewTx
  <2> QED
    BY <1>2, <2>2, ReadPhase, ReadPhaseAfter DEF HandoffStep, OneTime!Propose
<1>3. CASE ~(k = request[r].key /\ tx[k].state = "absent")
  <2>1. tx'[k] = tx[k]
    BY <1>3 DEF SaveUnique, TypeInv, TypeOK
  <2>2. Quiet(k)
    BY <1>1, <2>1, QuietRequest
  <2> QED
    BY <2>2, QuietStep
<1> QED
  BY <1>2, <1>3

LEMMA WinStep ==
    ASSUME HandoffInv, HandoffInv', NEW r \in Requests, Claim(r), NEW k \in OneTimeKeys
    PROVE  HandoffStep(k)
<1> USE DEF HandoffInv
<1> DEFINE c == [request[r] EXCEPT !.stage = IF request[r].key \in Handoff THEN "answering" ELSE "creating"]
<1>0. c.key = request[r].key /\ c.stage \in {"answering", "creating"} /\ request[r].stage = "claiming"
      /\ request[r].key \in Keys /\ opened' = opened
  BY DEF TypeInv, TypeOK, RequestsKeyed, Contexts, Claim, At
<1>1. CASE tx[request[r].key].state # "awaiting_approval"
  <2>1. Admits(r, Idle) /\ request' = [request EXCEPT ![r] = Idle] /\ tx' = tx
    BY <1>1 DEF Claim, Answer, Admits, Idle
  <2>2. Quiet(k)
    BY <1>0, <2>1, QuietRequest
  <2> QED
    BY <2>2, QuietStep
<1>2. CASE tx[request[r].key].state = "awaiting_approval"
  <2>1. request' = [request EXCEPT ![r] = c]
    BY <1>2 DEF Claim, Goto
  <2>2. \A s \in Requests : request'[s] = IF s = r THEN c ELSE request[s]
    BY <2>1 DEF TypeInv, TypeOK
  <2> HIDE DEF c
  <2>3. CASE k = request[r].key
    <3>1. tx'[k].state = "executing" /\ tx'[k].offer = tx[k].offer
      BY <1>0, <1>2, <2>3 DEF Claim, TypeInv, TypeOK, Transactions
    <3>2. opened[k] = 0 /\ Agreed(tx[k].offer)
      BY <1>0, <1>2, <2>3 DEF ClaimedOnce, UnclaimedIsUntouched, Keys, ContentApproved, CarriesContent
    <3>3. Claims(r, k)'
      BY <1>0, <2>2, <2>3 DEF Claims
    <3>4. HandoffPhase(k) = "offered" /\ HandoffPhase(k)' = "claimed"
      BY <1>0, <1>2, <2>3, <3>1, <3>2, <3>3, ReadPhase, ReadPhaseAfter DEF Claimable
    <3>5. tx[k].offer \in AgreedOffers
      BY <3>2 DEF Agreed, AgreedOffers
    <3> QED
      BY <3>1, <3>4, <3>5 DEF HandoffStep, OneTime!Claim, AgreedOffers
  <2>4. CASE k # request[r].key
    <3>1. tx'[k] = tx[k]
      BY <1>0, <1>2, <2>4, TravelIsApart DEF Claim, TypeInv, TypeOK
    <3>2. \A s \in Requests : Claims(s, k)' => Claims(s, k)
      BY <1>0, <2>2, <2>4 DEF Claims
    <3>3. Quiet(k)
      BY <1>0, <3>1, <3>2 DEF Quiet
    <3> QED
      BY <3>3, QuietStep
  <2> QED
    BY <2>3, <2>4
<1> QED
  BY <1>1, <1>2

LEMMA OpenStep ==
    ASSUME HandoffInv, HandoffInv', NEW r \in Requests, AnswerWithDestination(r), NEW k \in OneTimeKeys
    PROVE  HandoffStep(k)
<1> USE DEF HandoffInv
<1>1. Admits(r, Idle) /\ request' = [request EXCEPT ![r] = Idle] /\ tx' = tx
  BY DEF AnswerWithDestination, Answer, Admits, Idle
<1>2. CASE k = request[r].key
  <2>1. Claims(r, k)
    BY <1>2 DEF AnswerWithDestination, At, Claims
  <2>2. opened[k] = 0 /\ ~Claimable(tx[k].state)
    BY <2>1 DEF ClaimedOnce, OneClaimant, UnclaimedIsUntouched, Claimable, Keys
  <2>3. opened'[k] = 1
    BY <1>2, <2>2 DEF AnswerWithDestination, TypeInv, TypeOK
  <2>4. HandoffPhase(k) = "claimed" /\ HandoffPhase(k)' = "opened"
    BY <1>1, <2>1, <2>2, <2>3, ReadPhase, ReadPhaseAfter
  <2> QED
    BY <1>1, <2>4 DEF HandoffStep, OneTime!Open
<1>3. CASE k # request[r].key
  <2>1. opened'[k] = opened[k]
    BY <1>3 DEF AnswerWithDestination, TypeInv, TypeOK
  <2>2. Quiet(k)
    BY <1>1, <2>1, QuietRequest
  <2> QED
    BY <2>2, QuietStep
<1> QED
  BY <1>2, <1>3

(* The context a request has after a step that neither answers nor claims. *)
LEMMA MoveOn ==
    ASSUME HandoffInv, NEW r \in Requests, NEW stage,
           stage \notin {"creating", "recording", "answering"} \/ request[r].stage \in {"creating", "recording"}
    PROVE  /\ Goto(r, stage) => \E c : request' = [request EXCEPT ![r] = c] /\ Admits(r, c)
           /\ GiveUp(r) => \E c : request' = [request EXCEPT ![r] = c] /\ Admits(r, c)
<1>0. request[r] \in Contexts
  BY DEF HandoffInv, TypeInv, TypeOK
<1>1. Admits(r, [request[r] EXCEPT !.stage = stage])
  BY <1>0 DEF Admits, Contexts, Claims
<1>2. Admits(r, [request[r] EXCEPT !.stage = "moving", !.next = "uncertain"])
  BY <1>0 DEF Admits, Contexts, Claims
<1> QED
  BY <1>1, <1>2 DEF Goto, GiveUp

LEMMA EndOf ==
    ASSUME NEW r \in Requests, Answer(r)
    PROVE  \E c : request' = [request EXCEPT ![r] = c] /\ Admits(r, c)
<1>1. Admits(r, Idle)
  BY DEF Admits, Idle
<1> QED
  BY <1>1 DEF Answer

LEMMA ProceedQuiet ==
    ASSUME HandoffInv, NEW r \in Requests, Proceed(r), NEW k \in OneTimeKeys,
           ~SaveUnique(r), ~Claim(r), ~AnswerWithDestination(r)
    PROVE  Quiet(k)
<1> USE DEF HandoffInv
<1>0. request[r] \in Contexts /\ (~At(r, "idle") => request[r].key \in Keys)
  BY DEF TypeInv, TypeOK, RequestsKeyed
<1>1. CASE RequestApproval(r)
  <2> DEFINE c == [request[r] EXCEPT !.stage = "saving", !.approval = issued + 1]
  <2>1. Admits(r, c)
    BY <1>0 DEF Admits, Contexts
  <2>2. request' = [request EXCEPT ![r] = c] /\ UNCHANGED <<tx, opened>>
    BY <1>1 DEF RequestApproval
  <2> HIDE DEF c
  <2> QED
    BY <2>1, <2>2, QuietRequest
<1>2. CASE request[r].key \notin OneTimeKeys
  BY <1>2, TravelLeavesAlone DEF Quiet, Claims
<1> SUFFICES ASSUME request[r].key \in OneTimeKeys PROVE Quiet(k)
  BY <1>2
<1>9. CASE SaveUpsert(r) \/ LinkApproval(r) \/ EnqueueConfirmation(r)
  BY <1>9, TravelIsApart DEF SaveUpsert, LinkApproval, EnqueueConfirmation, At, ClaimedOnce, NoWayBack
<1>3. CASE ContinueCheck(r)
  <2> DEFINE c == [request[r] EXCEPT !.stage = AfterCheck(request[r].key), !.next = "executing"]
  <2>1. Admits(r, c)
    BY <1>0 DEF Admits, Contexts, AfterCheck
  <2>2. UNCHANGED <<tx, opened>> /\ (Answer(r) \/ request' = [request EXCEPT ![r] = c])
    BY <1>3 DEF ContinueCheck
  <2> HIDE DEF c
  <2> QED
    BY <2>1, <2>2, EndOf, QuietRequest
<1>4. CASE FetchDestination(r) \/ CreatePage(r)
  <2>1. UNCHANGED <<tx, opened>>
    BY <1>4 DEF FetchDestination, CreatePage
  <2>2. \E c : request' = [request EXCEPT ![r] = c] /\ Admits(r, c)
    BY <1>4, MoveOn DEF FetchDestination, CreatePage, At
  <2> QED
    BY <2>1, <2>2, QuietRequest
<1>5. CASE RecordPage(r)
  <2>1. tx'[k].state = tx[k].state /\ tx'[k].offer = tx[k].offer /\ opened' = opened
    BY <1>0, <1>5, TravelIsApart DEF RecordPage, TypeInv, TypeOK, Transactions
  <2>2. \E c : request' = [request EXCEPT ![r] = c] /\ Admits(r, c)
    BY <1>5, MoveOn DEF RecordPage, At
  <2> QED
    BY <2>1, <2>2, QuietRequest
<1>6. CASE TransitionRead(r)
  <2> DEFINE c == [request[r] EXCEPT !.stage = "writing", !.approval = tx[request[r].key].approval,
                                     !.result = tx[request[r].key].result]
  <2>1. Admits(r, c)
    BY <1>0 DEF Admits, Contexts
  <2>2. UNCHANGED <<tx, opened>> /\ (Answer(r) \/ request' = [request EXCEPT ![r] = c])
    BY <1>6 DEF TransitionRead
  <2> HIDE DEF c
  <2> QED
    BY <2>1, <2>2, EndOf, QuietRequest
<1>7. CASE TransitionWrite(r)
  <2> DEFINE e == request[r]
  <2>1. e.key \in Keys /\ e.next \in {"uncertain", "cancelled"} /\ tx[e.key].state # "absent"
    BY <1>0, <1>7, TravelIsApart DEF TransitionWrite, At, ClaimedOnce, NoWayBack, ContentApproved, CarriesContent
  <2>2. opened' = opened /\ Answer(r)
    BY <1>7, <2>1 DEF TransitionWrite
  <2>3. tx'[k].offer = tx[k].offer
        /\ (tx'[k].state = tx[k].state \/ (tx[k].state # "absent" /\ ~Claimable(tx'[k].state)))
    BY <1>7, <2>1, TravelIsApart DEF TransitionWrite, TypeInv, TypeOK, Transactions, Claimable
  <2> QED
    BY <2>2, <2>3, EndOf, QuietRequest
<1>8. CASE Fail(r)
  BY <1>8, EndOf, QuietRequest DEF Fail
<1> QED
  BY <1>1, <1>3, <1>4, <1>5, <1>6, <1>7, <1>8, <1>9 DEF Proceed

(* Every step is, for every key, a step of the one-time hand-off. *)
LEMMA EveryKeySteps ==
    ASSUME HandoffInv, HandoffInv', Next, NEW k \in OneTimeKeys
    PROVE  HandoffStep(k)
<1>1. ASSUME NEW r \in Requests, Proceed(r)
      PROVE  HandoffStep(k)
  BY <1>1, SaveStep, WinStep, OpenStep, ProceedQuiet, QuietStep
<1>2. ASSUME NEW r \in Requests, NEW q \in Keys, Accept(r, q)
      PROVE  HandoffStep(k)
  <2>1. PICK c : Admits(r, c) /\ request' = [request EXCEPT ![r] = c]
    BY <1>2 DEF Accept, PrepareRead, ContinueRead, CancelRequest, Admits, Idle
  <2>2. UNCHANGED <<tx, opened>>
    BY <1>2 DEF Accept, PrepareRead, ContinueRead, CancelRequest
  <2> QED
    BY <2>1, <2>2, QuietRequest, QuietStep
<1>3. CASE Crash \/ \E a \in Ids : DecideHitlRequest(a) \/ Expire(a)
  <2>1. UNCHANGED <<tx, opened>> /\ \A s \in Requests : Claims(s, k)' => Claims(s, k)
    BY <1>3 DEF Crash, DecideHitlRequest, Expire, Claims, Idle
  <2> QED
    BY <2>1, QuietStep DEF Quiet
<1> QED
  BY <1>1, <1>2, <1>3 DEF Next

LEMMA OffersStayReal ==
    ASSUME TypeInv, OffersReal, [Next]_vars
    PROVE  OffersReal'
<1>1. CASE UNCHANGED approvals /\ \A r \in Requests :
               \/ request'[r].stage \notin {"requesting", "saving"}
               \/ request'[r] = request[r]
               \/ request'[r].offer \in Offers
  BY <1>1 DEF OffersReal
<1>2. ASSUME NEW r \in Requests, Proceed(r), ~RequestApproval(r)
      PROVE  OffersReal'
  <2>1. UNCHANGED approvals /\ \A s \in Requests \ {r} : request'[s] = request[s]
    BY <1>2 DEF Proceed, SaveUnique, SaveUpsert, LinkApproval, ContinueCheck, FetchDestination,
          Claim, CreatePage, RecordPage, AnswerWithDestination, Fail, TransitionRead,
          TransitionWrite, EnqueueConfirmation, Goto, Answer, GiveUp, TypeInv, TypeOK
  <2>2. request'[r].stage \notin {"requesting", "saving"}
    <3>1. request[r] \in Contexts
      BY DEF TypeInv, TypeOK
    <3>2. CASE Answer(r) \/ GiveUp(r)
      BY <3>1, <3>2 DEF Answer, GiveUp, Idle, TypeInv, TypeOK, Contexts
    <3>3. ASSUME NEW stage \in Stages \ {"requesting", "saving"}, Goto(r, stage)
          PROVE  request'[r].stage \notin {"requesting", "saving"}
      BY <3>1, <3>3 DEF Goto, TypeInv, TypeOK, Contexts
    <3>4. CASE ContinueCheck(r) \/ TransitionRead(r)
      BY <3>1, <3>2, <3>4 DEF ContinueCheck, TransitionRead, AfterCheck, TypeInv, TypeOK, Contexts
    <3> QED
      BY <1>2, <3>2, <3>3, <3>4 DEF Proceed, SaveUnique, SaveUpsert, LinkApproval, FetchDestination,
            Claim, CreatePage, RecordPage, AnswerWithDestination, Fail, TransitionWrite,
            EnqueueConfirmation, Stages
  <2> QED
    BY <1>1, <2>1, <2>2
<1>3. ASSUME NEW r \in Requests, RequestApproval(r)
      PROVE  OffersReal'
  <2>1. request[r].offer \in Offers
    BY <1>3 DEF RequestApproval, OffersReal, At
  <2>2. \A s \in Requests : request'[s].stage \in {"requesting", "saving"} => request'[s].offer \in Offers
    BY <1>3, <2>1 DEF RequestApproval, OffersReal, TypeInv, TypeOK, Contexts
  <2>3. \A a \in Ids : approvals'[a] = approvals[a] \/ approvals'[a].offer \in Offers
    BY <1>3, <2>1 DEF RequestApproval, TypeInv, TypeOK
  <2> QED
    BY <2>2, <2>3 DEF OffersReal
<1>4. ASSUME NEW r \in Requests, NEW k \in Keys, Accept(r, k)
      PROVE  OffersReal'
  <2>1. /\ \A s \in Requests \ {r} : request'[s] = request[s]
        /\ request'[r].stage \in {"requesting", "saving"} => request'[r].offer \in Offers
    BY <1>4 DEF Accept, PrepareRead, ContinueRead, CancelRequest, Idle, TypeInv, TypeOK
  <2>2. UNCHANGED approvals
    BY <1>4 DEF Accept, PrepareRead, ContinueRead, CancelRequest
  <2> QED
    BY <2>1, <2>2 DEF OffersReal, TypeInv, TypeOK
<1>5. ASSUME NEW a \in Ids, DecideHitlRequest(a) \/ Expire(a)
      PROVE  OffersReal'
  <2>1. \A b \in Ids : /\ approvals'[b].offer = approvals[b].offer
                       /\ approvals[b].status = "unused" => approvals'[b].status = "unused"
    BY <1>5 DEF DecideHitlRequest, Expire, TypeInv, TypeOK, Approvals
  <2>2. UNCHANGED request
    BY <1>5 DEF DecideHitlRequest, Expire
  <2> QED
    BY <2>1, <2>2 DEF OffersReal
<1>6. CASE Crash \/ UNCHANGED vars
  BY <1>1, <1>6 DEF Crash, vars, Idle
<1> QED
  BY <1>2, <1>3, <1>4, <1>5, <1>6 DEF Next

(* No decision is taken back, and none changes what it was about. *)
LEMMA ApprovalsStand ==
    ASSUME TypeInv, ContentApproved, Next, NEW a \in Ids, approvals[a].status = "success"
    PROVE  approvals'[a].status = "success" /\ approvals'[a].offer = approvals[a].offer
<1>1. ASSUME NEW r \in Requests, RequestApproval(r)
      PROVE  approvals'[a] = approvals[a]
  <2>1. issued + 1 > issued /\ issued \in Nat
    BY FlowsAssumption DEF TypeInv, TypeOK
  <2>2. a # issued + 1
    BY <2>1 DEF ContentApproved, UnissuedIsUnused
  <2> QED
    BY <1>1, <2>2 DEF RequestApproval, TypeInv, TypeOK
<1>2. ASSUME NEW b \in Ids, DecideHitlRequest(b) \/ Expire(b)
      PROVE  approvals'[a].status = "success" /\ approvals'[a].offer = approvals[a].offer
  BY <1>2 DEF DecideHitlRequest, Expire, TypeInv, TypeOK, Approvals
<1>3. CASE UNCHANGED approvals
  BY <1>3
<1> QED
  BY <1>1, <1>2, <1>3 DEF Next, Proceed, Accept, SaveUnique, SaveUpsert, LinkApproval, ContinueCheck,
        FetchDestination, Claim, CreatePage, RecordPage, AnswerWithDestination, Fail, TransitionRead,
        TransitionWrite, EnqueueConfirmation, PrepareRead, ContinueRead, CancelRequest, Crash

(* ImplementsOneTimeHandoff, for any keys, requests and contents of the      *)
(* flows that claim their row: whatever races or crashes, a hand-off is      *)
(* opened at most once, after its content was agreed to, and never after it  *)
(* was closed.                                                               *)
THEOREM HandoffRefines == Spec => ImplementsOneTimeHandoff
<1>1. Init => OneTime!Init /\ HandoffInv
  <2> SUFFICES ASSUME Init PROVE OneTime!Init /\ HandoffInv
    OBVIOUS
  <2>1. TypeInv /\ ClaimedOnce /\ ContentApproved
    BY InitType, InitClaimed, InitContent
  <2>2. OffersReal
    BY DEF Init, OffersReal, Unused, Idle
  <2>3. \A k \in OneTimeKeys : HandoffPhase(k) = "absent"
    BY <2>1, ReadPhase, TravelIsApart DEF Init, NoTx
  <2>4. AgreedOffers = {} /\ \A k \in OneTimeKeys : tx[k].offer = None
    BY TravelIsApart DEF Init, AgreedOffers, Unused, NoTx
  <2> QED
    BY <2>1, <2>2, <2>3, <2>4 DEF OneTime!Init, HandoffInv, AgreedOffers
<1>2. HandoffInv /\ [Next]_vars => HandoffInv'
  BY NextType, NextClaimed, NextContent, OffersStayReal DEF HandoffInv
<1>3. HandoffInv /\ HandoffInv' /\ [Next]_vars => [OneTime!Next]_(OneTime!vars)
  <2> SUFFICES ASSUME HandoffInv, HandoffInv', [Next]_vars PROVE [OneTime!Next]_(OneTime!vars)
    OBVIOUS
  <2>1. CASE UNCHANGED vars
    BY <2>1 DEF vars, OneTime!vars, HandoffPhase, Claims
  <2>2. CASE Next
    <3>1. \A k \in OneTimeKeys : HandoffStep(k)
      BY <2>2, EveryKeySteps
    <3>2. \A k \in OneTimeKeys : HandoffPhase(k)' \in OneTime!Phases
      BY ReadPhaseAfter DEF HandoffInv, OneTime!Phases, Claimable
    <3>3. \A k \in OneTimeKeys : tx'[k].offer \in Offers \cup {None}
      BY TravelIsApart DEF HandoffInv, TypeInv, TypeOK, Transactions
    <3>4. AgreedOffers \subseteq AgreedOffers'
      <4>1. \A a \in Ids : approvals[a].status = "success" =>
              approvals'[a].status = "success" /\ approvals'[a].offer = approvals[a].offer
        BY <2>2, ApprovalsStand DEF HandoffInv
      <4> QED
        BY <4>1 DEF AgreedOffers
    <3>5. AgreedOffers' \subseteq Offers
      BY DEF HandoffInv, OffersReal, AgreedOffers
    <3> QED
      BY <3>1, <3>2, <3>3, <3>4, <3>5 DEF OneTime!Next, HandoffStep, AgreedOffers
  <2> QED
    BY <2>1, <2>2
<1> QED
  BY <1>1, <1>2, <1>3, PTL DEF Spec, ImplementsOneTimeHandoff, OneTime!Spec

=============================================================================
