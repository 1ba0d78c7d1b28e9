----------------------- MODULE ConnectedAccountsProofs -----------------------
(* Theorems about ConnectedAccounts, for every set of links and requests and *)
(* every bound.                                                              *)
EXTENDS ConnectedAccounts, TLAPS

-----------------------------------------------------------------------------
(* Types. *)

LinksKnown == \A r \in Requests : request[r].stage \in CallbackStages => request[r].link \in Links

TypeInv == TypeOK /\ LinksKnown

LEMMA Zero == 0 \in Tokens /\ 0 \in 0..MaxFaults
  BY BoundsAssumption DEF Tokens

LEMMA Records ==
    /\ Idle \in RequestRecords /\ Idle.stage = "idle" /\ ~Idle.held /\ NoAccount \in Accounts
    /\ \A p \in RequestRecords, s \in Stages : [p EXCEPT !.stage = s] \in RequestRecords
    /\ \A p \in RequestRecords, s \in Stages, k \in Tokens :
          [p EXCEPT !.stage = s, !.token = k] \in RequestRecords
    /\ \A p \in RequestRecords, s \in Stages : [p EXCEPT !.stage = s, !.held = TRUE] \in RequestRecords
    /\ \A p \in RequestRecords : [p EXCEPT !.held = FALSE] \in RequestRecords
    /\ \A l \in Links : [Idle EXCEPT !.stage = "consuming", !.link = l] \in RequestRecords
    /\ \A k \in Tokens : [Idle EXCEPT !.stage = "claiming", !.token = k] \in RequestRecords
<1>1. /\ Idle \in RequestRecords /\ Idle.stage = "idle" /\ ~Idle.held
      /\ NoAccount \in Accounts
  BY Zero DEF Idle, RequestRecords, Stages, NoAccount, Accounts, Statuses
<1>2. ASSUME NEW p \in RequestRecords, NEW s \in Stages
      PROVE  [p EXCEPT !.stage = s] \in RequestRecords
  BY DEF RequestRecords
<1>3. ASSUME NEW p \in RequestRecords, NEW s \in Stages, NEW k \in Tokens
      PROVE  [p EXCEPT !.stage = s, !.token = k] \in RequestRecords
  BY <1>2 DEF RequestRecords
<1>4. ASSUME NEW p \in RequestRecords, NEW s \in Stages
      PROVE  [p EXCEPT !.stage = s, !.held = TRUE] \in RequestRecords
  BY <1>2 DEF RequestRecords
<1>5. ASSUME NEW p \in RequestRecords
      PROVE  [p EXCEPT !.held = FALSE] \in RequestRecords
  BY DEF RequestRecords
<1>6. ASSUME NEW l \in Links
      PROVE  [Idle EXCEPT !.stage = "consuming", !.link = l] \in RequestRecords
  <2>1. [Idle EXCEPT !.stage = "consuming"] \in RequestRecords
    BY <1>1, <1>2 DEF Stages, CallbackStages
  <2> QED
    BY <2>1 DEF RequestRecords
<1>7. "claiming" \in Stages
  BY DEF Stages, RefreshStages
<1> QED
  BY <1>1, <1>2, <1>3, <1>4, <1>5, <1>6, <1>7

(* The ways a request moves: to a stage, to an end, with a write, or anew. *)
LEMMA RequestMoves ==
    ASSUME TypeInv, NEW r \in Requests, NEW p \in RequestRecords,
           p.stage \in CallbackStages => p.link \in Links,
           request' = [request EXCEPT ![r] = p]
    PROVE  request' \in [Requests -> RequestRecords] /\ LinksKnown'
  BY DEF TypeInv, TypeOK, LinksKnown

LEMMA WriteMoves ==
    ASSUME TypeInv, NEW r \in Requests, NEW row \in Accounts, Write(r, row)
    PROVE  account' \in Accounts /\ request' \in [Requests -> RequestRecords] /\ LinksKnown'
<1>1. \A q \in Requests : [request[q] EXCEPT !.held = FALSE].stage = request[q].stage
                          /\ [request[q] EXCEPT !.held = FALSE].link = request[q].link
  BY DEF TypeInv, TypeOK, RequestRecords
<1> QED
  BY <1>1, Records DEF Write, TypeInv, TypeOK, LinksKnown, CallbackStages

LEMMA StoredToken == ASSUME TypeInv, NEW r \in Requests PROVE Stored(r) \in Tokens
  BY DEF TypeInv, TypeOK, Stored, Accounts, RequestRecords

LEMMA ProceedType ==
    ASSUME TypeInv, NEW r \in Requests, Proceed(r)
    PROVE  TypeInv'
<1> USE DEF TypeInv
<1>1. request[r] \in RequestRecords /\ account \in Accounts
  BY DEF TypeOK
<1>2. ASSUME NEW s \in Stages, s \notin CallbackStages \/ request[r].stage \in CallbackStages, Goto(r, s)
      PROVE  request' \in [Requests -> RequestRecords] /\ LinksKnown'
  <2>1. [request[r] EXCEPT !.stage = s].stage = s /\ [request[r] EXCEPT !.stage = s].link = request[r].link
    BY <1>1 DEF RequestRecords
  <2> QED
    BY <1>1, <1>2, <2>1, Records, RequestMoves DEF Goto, LinksKnown
<1>3. ASSUME request' = [request EXCEPT ![r] = Idle]
      PROVE  request' \in [Requests -> RequestRecords] /\ LinksKnown'
  BY <1>3, Records, RequestMoves DEF CallbackStages
<1>4. ASSUME NEW s \in {"connecting", "refreshed"}, Answers(r, s), request[r].link \in Links \/ s = "refreshed"
      PROVE  request' \in [Requests -> RequestRecords] /\ LinksKnown' /\ issued' \in Tokens
  <2>1. PICK new \in {0, issued + 1} \cap Tokens :
            /\ request' = [request EXCEPT ![r] = [request[r] EXCEPT !.stage = s, !.token = new]]
            /\ issued' = IF new = 0 THEN issued ELSE new
    BY <1>4, <1>1 DEF Answers, TypeOK, RequestRecords
  <2>2. /\ [request[r] EXCEPT !.stage = s, !.token = new].stage = s
        /\ [request[r] EXCEPT !.stage = s, !.token = new].link = request[r].link
    BY <1>1 DEF RequestRecords
  <2>3. s \in Stages
    BY DEF Stages, CallbackStages, RefreshStages
  <2> QED
    BY <1>1, <1>4, <2>1, <2>2, <2>3, Records, RequestMoves DEF CallbackStages, TypeOK
<1>5. CASE Consume(r)
  <2>1. request' \in [Requests -> RequestRecords] /\ LinksKnown'
    <3>1. request[r].stage \in CallbackStages /\ "exchanging" \in Stages
      BY <1>5 DEF Consume, At, CallbackStages, Stages
    <3> QED
      BY <1>2, <1>3, <1>5, <3>1 DEF Consume
  <2> QED
    BY <1>5, <2>1 DEF Consume, TypeOK, LinkRows
<1>6. CASE Exchange(r)
  <2>1. request[r].link \in Links
    BY <1>6 DEF Exchange, At, LinksKnown, CallbackStages
  <2>2. request' \in [Requests -> RequestRecords] /\ LinksKnown' /\ issued' \in Tokens
    BY <1>4, <1>6, <2>1 DEF Exchange
  <2> QED
    BY <1>6, <2>1, <2>2 DEF Exchange, TypeOK
<1>7. CASE Connect(r) \/ SaveRefreshed(r)
  <2>1. [status |-> "active", access |-> "fresh", refresh |-> Stored(r), lease |-> "none"] \in Accounts
    BY StoredToken DEF Accounts, Statuses
  <2> QED
    BY <1>7, <2>1, WriteMoves DEF Connect, SaveRefreshed, TypeOK
<1>8. CASE MarkExpired(r) \/ SaveFailure(r)
  <2>1. [account EXCEPT !.status = "expired"] \in Accounts
    BY <1>1 DEF Accounts, Statuses
  <2>2. [account EXCEPT !.status = "error", !.lease = "none"] \in Accounts
    BY <1>1 DEF Accounts, Statuses
  <2> QED
    BY <1>8, <2>1, <2>2, WriteMoves DEF MarkExpired, SaveFailure, TypeOK
<1>9. CASE Clear(r)
  <2>1. [NoAccount EXCEPT !.status = "revoked"] \in Accounts
    BY Records DEF Accounts, Statuses
  <2> QED
    BY <1>9, <2>1, WriteMoves DEF Clear, TypeOK
<1>10. CASE Claim(r)
  <2>1. [account EXCEPT !.status = "refreshing", !.lease = "running"] \in Accounts
    BY <1>1 DEF Accounts, Statuses
  <2>2. account' \in Accounts
    BY <1>1, <1>10, <2>1 DEF Claim
  <2>3. request' \in [Requests -> RequestRecords] /\ LinksKnown'
    <3>1. CASE request' = [request EXCEPT ![r] = Idle]
      BY <1>3, <3>1
    <3>2. CASE request' = [request EXCEPT ![r].stage = "fetching", ![r].held = TRUE]
      <4>1. request' = [request EXCEPT ![r] = [request[r] EXCEPT !.stage = "fetching", !.held = TRUE]]
        BY <1>1, <3>2 DEF TypeOK, RequestRecords
      <4>2. [request[r] EXCEPT !.stage = "fetching", !.held = TRUE].stage = "fetching"
        BY <1>1 DEF RequestRecords
      <4>3. [request[r] EXCEPT !.stage = "fetching", !.held = TRUE] \in RequestRecords
        BY <1>1, Records DEF Stages, RefreshStages
      <4> QED
        BY <4>1, <4>2, <4>3, RequestMoves DEF CallbackStages
    <3> QED
      BY <1>10, <3>1, <3>2 DEF Claim
  <2> QED
    BY <1>10, <2>2, <2>3 DEF Claim, TypeOK
<1>11. CASE Refresh(r)
  <2>1. request' \in [Requests -> RequestRecords] /\ LinksKnown' /\ issued' \in Tokens
    <3>1. CASE Goto(r, "failing") /\ UNCHANGED issued
      BY <1>2, <3>1 DEF Stages, RefreshStages, CallbackStages, TypeOK
    <3>2. CASE Answers(r, "refreshed")
      BY <1>4, <3>2
    <3>3. CASE request' = [request EXCEPT ![r].stage = "refreshed", ![r].token = 0] /\ UNCHANGED issued
      <4>1. request' = [request EXCEPT ![r] = [request[r] EXCEPT !.stage = "refreshed", !.token = 0]]
        BY <1>1, <3>3 DEF TypeOK, RequestRecords
      <4>2. [request[r] EXCEPT !.stage = "refreshed", !.token = 0].stage = "refreshed"
        BY <1>1 DEF RequestRecords
      <4>3. [request[r] EXCEPT !.stage = "refreshed", !.token = 0] \in RequestRecords
        BY <1>1, Zero, Records DEF Stages, RefreshStages
      <4> QED
        BY <3>3, <4>1, <4>2, <4>3, RequestMoves DEF CallbackStages, TypeOK
    <3> QED
      BY <1>11, <3>1, <3>2, <3>3 DEF Refresh
  <2> QED
    BY <1>11, <2>1 DEF Refresh, TypeOK
<1> QED
  BY <1>5, <1>6, <1>7, <1>8, <1>9, <1>10, <1>11 DEF Proceed

LEMMA OthersType ==
    ASSUME TypeInv, Next, \A r \in Requests : ~Proceed(r)
    PROVE  TypeInv'
<1>1. CASE \E l \in Links : Start(l) \/ LinkExpires(l)
  BY <1>1 DEF Start, LinkExpires, TypeInv, TypeOK, LinksKnown, LinkRows
<1>2. ASSUME NEW r \in Requests, NEW l \in Links, Callback(r, l)
      PROVE  TypeInv'
  <2>1. [Idle EXCEPT !.stage = "consuming", !.link = l].link = l
    BY DEF Idle
  <2> QED
    BY <1>2, <2>1, Records, RequestMoves DEF Callback, TypeInv, TypeOK
<1>3. ASSUME NEW r \in Requests, ReadToken(r) \/ Disconnect(r)
      PROVE  TypeInv'
  <2>1. PICK p \in RequestRecords : p.stage \notin CallbackStages /\ request' = [request EXCEPT ![r] = p]
    <3>1. /\ [Idle EXCEPT !.stage = "expiring"] \in RequestRecords
          /\ [Idle EXCEPT !.stage = "clearing"] \in RequestRecords
          /\ account.refresh \in Tokens
      BY Records DEF Stages, RefreshStages, TypeInv, TypeOK, Accounts
    <3>2. /\ [Idle EXCEPT !.stage = "expiring"].stage = "expiring"
          /\ [Idle EXCEPT !.stage = "clearing"].stage = "clearing"
          /\ \A k : [Idle EXCEPT !.stage = "claiming", !.token = k].stage = "claiming"
      BY DEF Idle
    <3> QED
      BY <1>3, <3>1, <3>2, Records DEF ReadToken, Disconnect, CallbackStages
  <2>2. request' \in [Requests -> RequestRecords] /\ LinksKnown'
    BY <2>1, RequestMoves
  <2> QED
    BY <1>3, <2>2 DEF ReadToken, Disconnect, TypeInv, TypeOK
<1>4. ASSUME NEW r \in Requests, Throws(r)
      PROVE  TypeInv'
  <2>1. request[r] \in RequestRecords
    BY DEF TypeInv, TypeOK
  <2>2. \/ request' = [request EXCEPT ![r] = Idle]
        \/ request' = [request EXCEPT ![r] = [request[r] EXCEPT !.stage = "failing"]]
    BY <1>4 DEF Throws, Goto
  <2>3. [request[r] EXCEPT !.stage = "failing"].stage = "failing"
    BY <2>1 DEF RequestRecords
  <2>4. [request[r] EXCEPT !.stage = "failing"] \in RequestRecords
    BY <2>1, Records DEF Stages, RefreshStages
  <2>5. request' \in [Requests -> RequestRecords] /\ LinksKnown'
    BY <2>2, <2>3, <2>4, Records, RequestMoves DEF CallbackStages
  <2>6. faults' \in 0..MaxFaults
    BY <1>4, BoundsAssumption DEF Throws, TypeInv, TypeOK
  <2> QED
    BY <1>4, <2>5, <2>6 DEF Throws, TypeInv, TypeOK
<1>5. CASE AccessExpires
  <2>1. [account EXCEPT !.access = "expired"] \in Accounts
    BY DEF TypeInv, TypeOK, Accounts
  <2> QED
    BY <1>5, <2>1 DEF AccessExpires, TypeInv, TypeOK, LinksKnown
<1>6. CASE LeaseLapses
  <2>1. [account EXCEPT !.lease = "lapsed"] \in Accounts
    BY DEF TypeInv, TypeOK, Accounts
  <2>2. \A q \in Requests : [request[q] EXCEPT !.held = FALSE].stage = request[q].stage
                            /\ [request[q] EXCEPT !.held = FALSE].link = request[q].link
    BY DEF TypeInv, TypeOK, RequestRecords
  <2> QED
    BY <1>6, <2>1, <2>2, Records DEF LeaseLapses, TypeInv, TypeOK, LinksKnown
<1>7. CASE Crash
  <2>1. faults' \in 0..MaxFaults
    BY <1>7, BoundsAssumption DEF Crash, TypeInv, TypeOK
  <2> QED
    BY <1>7, <2>1, Records DEF Crash, TypeInv, TypeOK, LinksKnown, CallbackStages
<1> QED
  BY <1>1, <1>2, <1>3, <1>4, <1>5, <1>6, <1>7 DEF Next

LEMMA NextType == TypeInv /\ [Next]_vars => TypeInv'
<1>1. TypeInv /\ UNCHANGED vars => TypeInv'
  BY DEF vars, TypeInv, TypeOK, LinksKnown
<1> QED
  BY <1>1, ProceedType, OthersType

LEMMA InitType == Init => TypeInv
<1> SUFFICES ASSUME Init PROVE TypeInv
  OBVIOUS
<1>1. request \in [Requests -> RequestRecords] /\ LinksKnown
  BY Records DEF Init, LinksKnown, CallbackStages
<1>2. exchanges \in [Links -> Nat] /\ link \in [Links -> LinkRows]
  BY DEF Init, LinkRows
<1>3. issued \in Tokens /\ faults \in 0..MaxFaults
  BY Zero DEF Init
<1> QED
  BY <1>1, <1>2, <1>3, Records DEF Init, TypeInv, TypeOK

(* Every variable keeps its type. *)
THEOREM TypeCorrect == Spec => []TypeInv
  BY InitType, NextType, PTL DEF Spec

-----------------------------------------------------------------------------
(* A usable account has a token: every write of the row sets the status        *)
(* together with the token, or carries over a row that is usable.              *)

LEMMA UsableStep ==
    ASSUME TypeInv, UsableHasToken, [Next]_vars
    PROVE  UsableHasToken'
<1>1. account \in Accounts
  BY DEF TypeInv, TypeOK
<1>2. CASE UNCHANGED account
  BY <1>2 DEF UsableHasToken
<1>3. CASE \E r \in Requests : Connect(r) \/ SaveRefreshed(r)
  BY <1>3 DEF Connect, SaveRefreshed, Write, UsableHasToken
<1>4. CASE \E r \in Requests : MarkExpired(r) \/ SaveFailure(r)
  BY <1>1, <1>4 DEF MarkExpired, SaveFailure, Write, UsableHasToken, Accounts
<1>5. CASE \E r \in Requests : Clear(r)
  BY <1>5 DEF Clear, Write, UsableHasToken, NoAccount
<1>6. ASSUME NEW r \in Requests, Claim(r), account' # account
      PROVE  UsableHasToken'
  <2>1. Claimable /\ account' = [account EXCEPT !.status = "refreshing", !.lease = "running"]
    BY <1>6 DEF Claim
  <2>2. account'.access = account.access
    BY <1>1, <2>1 DEF Accounts
  <2> QED
    BY <2>1, <2>2 DEF Claimable, UsableHasToken
<1>7. CASE LeaseLapses \/ AccessExpires
  BY <1>1, <1>7 DEF LeaseLapses, AccessExpires, UsableHasToken, Accounts
<1>8. CASE Next
  <2>1. \/ UNCHANGED account \/ LeaseLapses \/ AccessExpires
        \/ \E r \in Requests : \/ Connect(r) \/ SaveRefreshed(r) \/ MarkExpired(r) \/ SaveFailure(r)
                               \/ Clear(r) \/ Claim(r)
    BY <1>8 DEF Next, Proceed, Start, LinkExpires, Callback, ReadToken, Disconnect, Throws, Crash,
                Consume, Exchange, Refresh
  <2> QED
    BY <1>2, <1>3, <1>4, <1>5, <1>6, <1>7, <2>1
<1> QED
  BY <1>2, <1>8 DEF vars

(* An account agents may use has an access token. *)
THEOREM UsableToken == Spec => []UsableHasToken
<1>1. Init => UsableHasToken
  BY DEF Init, UsableHasToken, NoAccount
<1>2. TypeInv /\ UsableHasToken /\ [Next]_vars => UsableHasToken'
  BY UsableStep
<1> QED
  BY <1>1, <1>2, TypeCorrect, PTL DEF Spec

-----------------------------------------------------------------------------
(* The lease: a claim finds no lease that holds, and every other write of the  *)
(* row ends them all.                                                          *)

NobodyHolds == \A r \in Requests : ~request[r].held

LEMMA LeaseKept ==
    ASSUME LeaseIsExclusive, \A r \in Requests : request'[r].held => request[r].held,
           account'.status = account.status, account'.lease = account.lease
    PROVE  LeaseIsExclusive'
  BY DEF LeaseIsExclusive

LEMMA WriteReleases ==
    ASSUME TypeInv, NEW r \in Requests, NEW row, Write(r, row)
    PROVE  NobodyHolds'
<1>1. \A q \in Requests : ~[request[q] EXCEPT !.held = FALSE].held
  BY DEF TypeInv, TypeOK, RequestRecords
<1> QED
  BY <1>1, Records DEF Write, NobodyHolds

LEMMA LeaseProceeds ==
    ASSUME TypeInv, LeaseIsExclusive, NEW r \in Requests, Proceed(r)
    PROVE  LeaseIsExclusive'
<1>1. request[r] \in RequestRecords /\ request \in [Requests -> RequestRecords] /\ account \in Accounts
  BY DEF TypeInv, TypeOK
<1>2. CASE NobodyHolds'
  BY <1>2 DEF NobodyHolds, LeaseIsExclusive
<1>3. CASE Connect(r) \/ SaveRefreshed(r) \/ MarkExpired(r) \/ SaveFailure(r) \/ Clear(r)
  BY <1>2, <1>3, WriteReleases DEF Connect, SaveRefreshed, MarkExpired, SaveFailure, Clear
<1>4. ASSUME UNCHANGED account, NEW p \in RequestRecords, p.held => request[r].held,
             request' = [request EXCEPT ![r] = p]
      PROVE  LeaseIsExclusive'
  <2>1. \A q \in Requests : request'[q].held => request[q].held
    BY <1>1, <1>4
  <2> QED
    BY <1>4, <2>1, LeaseKept
<1>5. \A s \in Stages, k \in Tokens :
        /\ [request[r] EXCEPT !.stage = s] \in RequestRecords
        /\ [request[r] EXCEPT !.stage = s].held = request[r].held
        /\ [request[r] EXCEPT !.stage = s, !.token = k] \in RequestRecords
        /\ [request[r] EXCEPT !.stage = s, !.token = k].held = request[r].held
  <2>1. \A s \in Stages, k \in Tokens :
          /\ [request[r] EXCEPT !.stage = s].held = request[r].held
          /\ [request[r] EXCEPT !.stage = s, !.token = k].held = request[r].held
    BY <1>1 DEF RequestRecords
  <2> QED
    BY <1>1, <2>1, Records
<1>6. ASSUME UNCHANGED account, NEW s \in Stages, Goto(r, s)
      PROVE  LeaseIsExclusive'
  BY <1>4, <1>5, <1>6, Zero DEF Goto
<1>7. ASSUME UNCHANGED account, request' = [request EXCEPT ![r] = Idle]
      PROVE  LeaseIsExclusive'
  BY <1>4, <1>7, Records
<1>8. ASSUME UNCHANGED account, NEW s \in Stages, Answers(r, s)
      PROVE  LeaseIsExclusive'
  <2>1. PICK new \in {0, issued + 1} \cap Tokens :
            request' = [request EXCEPT ![r] = [request[r] EXCEPT !.stage = s, !.token = new]]
    BY <1>1, <1>8 DEF Answers, RequestRecords
  <2> QED
    BY <1>4, <1>5, <1>8, <2>1
<1>9. {"exchanging", "connecting", "refreshed", "failing"} \subseteq Stages
  BY DEF Stages, CallbackStages, RefreshStages
<1>10. CASE Consume(r)
  BY <1>6, <1>7, <1>9, <1>10 DEF Consume
<1>11. CASE Exchange(r)
  BY <1>8, <1>9, <1>11 DEF Exchange
<1>12. CASE Refresh(r)
  <2>1. CASE request' = [request EXCEPT ![r].stage = "refreshed", ![r].token = 0]
    <3>1. request' = [request EXCEPT ![r] = [request[r] EXCEPT !.stage = "refreshed", !.token = 0]]
      BY <1>1, <2>1 DEF RequestRecords
    <3> QED
      BY <1>4, <1>5, <1>9, <1>12, <3>1, Zero DEF Refresh
  <2> QED
    BY <1>6, <1>8, <1>9, <1>12, <2>1 DEF Refresh
<1>13. CASE Claim(r)
  <2>1. CASE request' = [request EXCEPT ![r] = Idle] /\ UNCHANGED account
    BY <1>7, <2>1
  <2>2. CASE /\ Claimable
             /\ account' = [account EXCEPT !.status = "refreshing", !.lease = "running"]
             /\ request' = [request EXCEPT ![r].stage = "fetching", ![r].held = TRUE]
    <3>1. NobodyHolds
      BY <2>2 DEF Claimable, LeaseIsExclusive, NobodyHolds
    <3>2. \A q \in Requests : q # r => request'[q] = request[q]
      BY <1>1, <2>2
    <3>3. account'.status = "refreshing" /\ account'.lease = "running"
      BY <1>1, <2>2 DEF Accounts
    <3> QED
      BY <3>1, <3>2, <3>3 DEF NobodyHolds, LeaseIsExclusive
  <2> QED
    BY <1>13, <2>1, <2>2 DEF Claim
<1> QED
  BY <1>3, <1>10, <1>11, <1>12, <1>13 DEF Proceed

LEMMA LeaseOthers ==
    ASSUME TypeInv, LeaseIsExclusive, Next, \A r \in Requests : ~Proceed(r)
    PROVE  LeaseIsExclusive'
<1>1. request \in [Requests -> RequestRecords] /\ account \in Accounts
  BY DEF TypeInv, TypeOK
<1>2. CASE \E l \in Links : Start(l) \/ LinkExpires(l)
  BY <1>2, LeaseKept DEF Start, LinkExpires
<1>3. ASSUME UNCHANGED account, NEW r \in Requests, NEW p, p.held => request[r].held,
             request' = [request EXCEPT ![r] = p]
      PROVE  LeaseIsExclusive'
  <2>1. \A q \in Requests : request'[q].held => request[q].held
    BY <1>1, <1>3
  <2> QED
    BY <1>3, <2>1, LeaseKept
<1>4. ASSUME NEW r \in Requests, NEW l \in Links, Callback(r, l)
      PROVE  LeaseIsExclusive'
  <2>1. ~[Idle EXCEPT !.stage = "consuming", !.link = l].held
    BY DEF Idle
  <2> QED
    BY <1>3, <1>4, <2>1 DEF Callback
<1>5. ASSUME NEW r \in Requests, ReadToken(r) \/ Disconnect(r)
      PROVE  LeaseIsExclusive'
  <2>1. /\ ~[Idle EXCEPT !.stage = "expiring"].held
        /\ ~[Idle EXCEPT !.stage = "clearing"].held
        /\ \A k : ~[Idle EXCEPT !.stage = "claiming", !.token = k].held
    BY DEF Idle
  <2> QED
    BY <1>3, <1>5, <2>1 DEF ReadToken, Disconnect
<1>6. ASSUME NEW r \in Requests, Throws(r)
      PROVE  LeaseIsExclusive'
  <2>1. [request[r] EXCEPT !.stage = "failing"].held = request[r].held
    BY <1>1 DEF RequestRecords
  <2> QED
    BY <1>3, <1>6, <2>1, Records DEF Throws, Goto
<1>7. CASE LeaseLapses
  <2>1. \A q \in Requests : ~[request[q] EXCEPT !.held = FALSE].held
    BY <1>1 DEF RequestRecords
  <2> QED
    BY <1>7, <2>1 DEF LeaseLapses, LeaseIsExclusive
<1>8. CASE AccessExpires
  <2>1. account'.status = account.status /\ account'.lease = account.lease
    BY <1>1, <1>8 DEF AccessExpires, Accounts
  <2> QED
    BY <1>8, <2>1, LeaseKept DEF AccessExpires
<1>9. CASE Crash
  BY <1>9, Records DEF Crash, LeaseIsExclusive
<1> QED
  BY <1>2, <1>4, <1>5, <1>6, <1>7, <1>8, <1>9 DEF Next

(* A refresh whose lease holds is the only one. *)
THEOREM LeaseExclusive == Spec => []LeaseIsExclusive
<1>1. Init => LeaseIsExclusive
  BY Records DEF Init, LeaseIsExclusive
<1>2. TypeInv /\ LeaseIsExclusive /\ [Next]_vars => LeaseIsExclusive'
  <2>1. LeaseIsExclusive /\ UNCHANGED vars => LeaseIsExclusive'
    BY DEF vars, LeaseIsExclusive
  <2> QED
    BY <2>1, LeaseProceeds, LeaseOthers
<1> QED
  BY <1>1, <1>2, TypeCorrect, PTL DEF Spec

-----------------------------------------------------------------------------
(* The code of a link: a request exchanges it only after it has consumed the   *)
(* link, which one request does.                                               *)

Exchanging(r) == request[r].stage = "exchanging"

Consumed ==
    /\ \A l \in Links : exchanges[l] <= 1 /\ (exchanges[l] # 0 => link[l] = "consumed")
    /\ \A r \in Requests : Exchanging(r) =>
          link[request[r].link] = "consumed" /\ exchanges[request[r].link] = 0
    /\ \A r, q \in Requests :
          Exchanging(r) /\ Exchanging(q) /\ request[r].link = request[q].link => r = q

(* A step that sets no request exchanging and reopens no consumed link. *)
LEMMA ConsumedKept ==
    ASSUME TypeInv, Consumed, UNCHANGED exchanges,
           \A l \in Links : link[l] = "consumed" => link'[l] = "consumed",
           \A r \in Requests :
              request'[r].stage = "exchanging" => request'[r] = request[r]
    PROVE  Consumed'
<1>1. \A r \in Requests : Exchanging(r) => request[r].link \in Links
  BY DEF TypeInv, LinksKnown, Exchanging, CallbackStages
<1> QED
  BY <1>1 DEF Consumed, Exchanging

LEMMA ConsumeStep ==
    ASSUME TypeInv, Consumed, NEW r \in Requests, Consume(r)
    PROVE  Consumed'
<1> DEFINE l == request[r].link
<1>1. request \in [Requests -> RequestRecords] /\ link \in [Links -> LinkRows] /\ l \in Links
  BY DEF TypeInv, TypeOK, LinksKnown, Consume, At, CallbackStages
<1>2. CASE request' = [request EXCEPT ![r] = Idle] /\ UNCHANGED link
  <2>1. \A q \in Requests : request'[q].stage = "exchanging" => request'[q] = request[q]
    BY <1>1, <1>2, Records
  <2> QED
    BY <1>2, <2>1, ConsumedKept DEF Consume
<1>3. CASE /\ link[l] = "open" /\ link' = [link EXCEPT ![l] = "consumed"]
           /\ Goto(r, "exchanging")
  <2>1. [request[r] EXCEPT !.stage = "exchanging"].link = l
    BY <1>1 DEF RequestRecords
  <2>2. request'[r].link = l /\ \A q \in Requests : q # r => request'[q] = request[q]
    BY <1>1, <1>3, <2>1 DEF Goto
  <2>3. exchanges[l] = 0 /\ exchanges' = exchanges
    BY <1>1, <1>3 DEF Consumed, Consume
  <2>4. \A q \in Requests : Exchanging(q) => request[q].link # l /\ request[q].link \in Links
    BY <1>3 DEF Consumed, Exchanging, TypeInv, LinksKnown, CallbackStages
  <2>5. link'[l] = "consumed" /\ \A k \in Links : k # l => link'[k] = link[k]
    BY <1>1, <1>3
  <2> HIDE DEF l
  <2>6. \A q \in Requests : q # r => Exchanging(q)' = Exchanging(q)
    BY <2>2 DEF Exchanging
  <2>7. \A q \in Requests : Exchanging(q)' =>
            link'[request'[q].link] = "consumed" /\ exchanges'[request'[q].link] = 0
    BY <2>2, <2>3, <2>4, <2>5, <2>6 DEF Consumed
  <2>8. \A p, q \in Requests :
            Exchanging(p)' /\ Exchanging(q)' /\ request'[p].link = request'[q].link => p = q
    BY <2>2, <2>4, <2>6 DEF Consumed
  <2>9. \A k \in Links : exchanges'[k] <= 1 /\ (exchanges'[k] # 0 => link'[k] = "consumed")
    BY <2>3, <2>5 DEF Consumed
  <2> QED
    BY <2>7, <2>8, <2>9 DEF Consumed, Exchanging
<1> QED
  BY <1>2, <1>3 DEF Consume

LEMMA ExchangeStep ==
    ASSUME TypeInv, Consumed, NEW r \in Requests, Exchange(r)
    PROVE  Consumed'
<1> DEFINE l == request[r].link
<1>1. /\ request \in [Requests -> RequestRecords] /\ exchanges \in [Links -> Nat] /\ l \in Links
      /\ Exchanging(r) /\ link' = link
  BY DEF TypeInv, TypeOK, LinksKnown, Exchange, At, CallbackStages, Exchanging
<1>2. link[l] = "consumed" /\ exchanges[l] = 0
  BY <1>1 DEF Consumed
<1>3. exchanges'[l] = 1 /\ \A k \in Links : k # l => exchanges'[k] = exchanges[k]
  <2>1. exchanges'[l] = exchanges[l] + 1 /\ \A k \in Links : k # l => exchanges'[k] = exchanges[k]
    BY <1>1 DEF Exchange
  <2> QED
    BY <1>2, <2>1
<1>4. request'[r].stage = "connecting" /\ \A q \in Requests : q # r => request'[q] = request[q]
  <2>1. PICK new : request' = [request EXCEPT ![r] =
                      [request[r] EXCEPT !.stage = "connecting", !.token = new]]
    BY <1>1 DEF Exchange, Answers, RequestRecords
  <2>2. [request[r] EXCEPT !.stage = "connecting", !.token = new].stage = "connecting"
    BY <1>1 DEF RequestRecords
  <2> QED
    BY <1>1, <2>1, <2>2
<1>5. \A q \in Requests : Exchanging(q)' =>
         /\ q # r /\ Exchanging(q) /\ request'[q] = request[q]
         /\ request[q].link # l /\ request[q].link \in Links
  <2>1. \A q \in Requests : Exchanging(q)' => q # r /\ Exchanging(q) /\ request'[q] = request[q]
    BY <1>4 DEF Exchanging
  <2>2. \A q \in Requests : Exchanging(q) => request[q].link \in Links
    BY DEF TypeInv, LinksKnown, Exchanging, CallbackStages
  <2> QED
    BY <1>1, <2>1, <2>2 DEF Consumed
<1> HIDE DEF l
<1>6. \A k \in Links : exchanges'[k] <= 1 /\ (exchanges'[k] # 0 => link'[k] = "consumed")
  BY <1>1, <1>2, <1>3 DEF Consumed
<1>7. \A q \in Requests : Exchanging(q)' =>
          link'[request'[q].link] = "consumed" /\ exchanges'[request'[q].link] = 0
  BY <1>1, <1>3, <1>5 DEF Consumed
<1>8. \A p, q \in Requests :
          Exchanging(p)' /\ Exchanging(q)' /\ request'[p].link = request'[q].link => p = q
  BY <1>5 DEF Consumed
<1> QED
  BY <1>6, <1>7, <1>8 DEF Consumed, Exchanging

LEMMA ConsumedProceeds ==
    ASSUME TypeInv, Consumed, NEW r \in Requests, Proceed(r)
    PROVE  Consumed'
<1>1. request[r] \in RequestRecords /\ request \in [Requests -> RequestRecords]
  BY DEF TypeInv, TypeOK
<1>2. ASSUME UNCHANGED <<exchanges, link>>, NEW p, p.stage # "exchanging",
             request' = [request EXCEPT ![r] = p]
      PROVE  Consumed'
  <2>1. \A q \in Requests : request'[q].stage = "exchanging" => request'[q] = request[q]
    BY <1>1, <1>2
  <2> QED
    BY <1>2, <2>1, ConsumedKept
<1>3. ASSUME UNCHANGED <<exchanges, link>>, NEW row, Write(r, row)
      PROVE  Consumed'
  <2>1. \A q \in Requests : /\ [request[q] EXCEPT !.held = FALSE].stage = request[q].stage
                            /\ [request[q] EXCEPT !.held = FALSE].link = request[q].link
    BY <1>1 DEF RequestRecords
  <2>2. \A q \in Requests : request'[q].stage = "exchanging" =>
            Exchanging(q) /\ request'[q].link = request[q].link
    BY <1>3, <2>1, Records DEF Write, Exchanging
  <2>3. \A q \in Requests : Exchanging(q)' => Exchanging(q) /\ request'[q].link = request[q].link
    BY <2>2 DEF Exchanging
  <2> QED
    BY <1>3, <2>3 DEF Consumed
<1>4. CASE Connect(r) \/ SaveRefreshed(r) \/ MarkExpired(r) \/ SaveFailure(r) \/ Clear(r)
  BY <1>3, <1>4 DEF Connect, SaveRefreshed, MarkExpired, SaveFailure, Clear
<1>5. CASE Claim(r)
  <2>1. CASE request' = [request EXCEPT ![r].stage = "fetching", ![r].held = TRUE]
    <3>1. request' = [request EXCEPT ![r] = [request[r] EXCEPT !.stage = "fetching", !.held = TRUE]]
      BY <1>1, <2>1 DEF RequestRecords
    <3>2. [request[r] EXCEPT !.stage = "fetching", !.held = TRUE].stage = "fetching"
      BY <1>1 DEF RequestRecords
    <3> QED
      BY <1>2, <1>5, <3>1, <3>2 DEF Claim
  <2> QED
    BY <1>2, <1>5, <2>1, Records DEF Claim
<1>6. CASE Refresh(r)
  <2>1. \A k : /\ [request[r] EXCEPT !.stage = "refreshed", !.token = k].stage = "refreshed"
               /\ [request[r] EXCEPT !.stage = "failing"].stage = "failing"
    BY <1>1 DEF RequestRecords
  <2>2. \/ \E k : request' = [request EXCEPT ![r] = [request[r] EXCEPT !.stage = "refreshed", !.token = k]]
        \/ request' = [request EXCEPT ![r] = [request[r] EXCEPT !.stage = "failing"]]
    BY <1>1, <1>6 DEF Refresh, Goto, Answers, RequestRecords
  <2> QED
    BY <1>2, <1>6, <2>1, <2>2 DEF Refresh
<1> QED
  BY <1>4, <1>5, <1>6, ConsumeStep, ExchangeStep DEF Proceed

LEMMA ConsumedOthers ==
    ASSUME TypeInv, Consumed, Next, \A r \in Requests : ~Proceed(r)
    PROVE  Consumed'
<1>1. request \in [Requests -> RequestRecords] /\ link \in [Links -> LinkRows]
  BY DEF TypeInv, TypeOK
<1>2. CASE \E l \in Links : Start(l) \/ LinkExpires(l)
  <2>1. \A k \in Links : link[k] = "consumed" => link'[k] = "consumed"
    BY <1>1, <1>2 DEF Start, LinkExpires
  <2> QED
    BY <1>2, <2>1, ConsumedKept DEF Start, LinkExpires
<1>3. ASSUME UNCHANGED <<exchanges, link>>, NEW r \in Requests, NEW p, p.stage # "exchanging",
             request' = [request EXCEPT ![r] = p]
      PROVE  Consumed'
  <2>1. \A q \in Requests : request'[q].stage = "exchanging" => request'[q] = request[q]
    BY <1>1, <1>3
  <2> QED
    BY <1>3, <2>1, ConsumedKept
<1>4. ASSUME NEW r \in Requests, NEW l \in Links, Callback(r, l)
      PROVE  Consumed'
  <2>1. [Idle EXCEPT !.stage = "consuming", !.link = l].stage = "consuming"
    BY DEF Idle
  <2> QED
    BY <1>3, <1>4, <2>1 DEF Callback
<1>5. ASSUME NEW r \in Requests, ReadToken(r) \/ Disconnect(r)
      PROVE  Consumed'
  <2>1. /\ [Idle EXCEPT !.stage = "expiring"].stage = "expiring"
        /\ [Idle EXCEPT !.stage = "clearing"].stage = "clearing"
        /\ \A k : [Idle EXCEPT !.stage = "claiming", !.token = k].stage = "claiming"
    BY DEF Idle
  <2> QED
    BY <1>3, <1>5, <2>1 DEF ReadToken, Disconnect
<1>6. ASSUME NEW r \in Requests, Throws(r)
      PROVE  Consumed'
  <2>1. [request[r] EXCEPT !.stage = "failing"].stage = "failing"
    BY <1>1 DEF RequestRecords
  <2> QED
    BY <1>3, <1>6, <2>1, Records DEF Throws, Goto
<1>7. CASE LeaseLapses
  <2>1. \A q \in Requests : /\ [request[q] EXCEPT !.held = FALSE].stage = request[q].stage
                            /\ [request[q] EXCEPT !.held = FALSE].link = request[q].link
    BY <1>1 DEF RequestRecords
  <2>2. \A q \in Requests : Exchanging(q)' = Exchanging(q) /\ request'[q].link = request[q].link
    BY <1>7, <2>1 DEF LeaseLapses, Exchanging
  <2> QED
    BY <1>7, <2>2 DEF LeaseLapses, Consumed
<1>8. CASE AccessExpires
  BY <1>8, ConsumedKept DEF AccessExpires
<1>9. CASE Crash
  BY <1>9, Records, ConsumedKept DEF Crash
<1> QED
  BY <1>2, <1>4, <1>5, <1>6, <1>7, <1>8, <1>9 DEF Next

(* The code of a link is exchanged at most once. *)
THEOREM CodeOnce == Spec => []CodeExchangedOnce
<1>1. Init => Consumed
  <2> SUFFICES ASSUME Init PROVE Consumed
    OBVIOUS
  <2>1. \A r \in Requests : ~Exchanging(r)
    BY Records DEF Init, Exchanging
  <2>2. \A l \in Links : exchanges[l] = 0
    BY DEF Init
  <2> QED
    BY <2>1, <2>2 DEF Consumed
<1>2. TypeInv /\ Consumed /\ [Next]_vars => Consumed'
  <2>1. Consumed /\ UNCHANGED vars => Consumed'
    BY DEF vars, Consumed, Exchanging
  <2> QED
    BY <2>1, ConsumedProceeds, ConsumedOthers
<1>3. Consumed => CodeExchangedOnce
  BY DEF Consumed, CodeExchangedOnce
<1> QED
  BY <1>1, <1>2, <1>3, TypeCorrect, PTL DEF Spec

-----------------------------------------------------------------------------
(* A refresh under way: only the three stages behind the claim hold the lease,  *)
(* and they give it up by a write of the row, a lapse or a fault.               *)
Behind(p) == p.held => p.stage \in {"fetching", "refreshed", "failing"}

AttendInv == RefreshIsAttended /\ \A r \in Requests : Behind(request[r])

LEMMA AttendMoves ==
    ASSUME TypeInv, AttendInv, faults' = faults \/ faults' = faults + 1,
           account'.status = account.status, account'.lease = account.lease,
           NEW r \in Requests, NEW p, request' = [request EXCEPT ![r] = p], Behind(p),
           request[r].held => p.held \/ faults' = faults + 1
    PROVE  AttendInv'
<1>1. faults \in Nat /\ request \in [Requests -> RequestRecords]
  BY BoundsAssumption DEF TypeInv, TypeOK
<1>2. faults > 0 \/ faults' = faults + 1 => faults' > 0
  BY <1>1
<1>3. \A q \in Requests : request[q].held => request'[q].held \/ faults' > 0
  BY <1>1, <1>2
<1> QED
  BY <1>1, <1>2, <1>3 DEF AttendInv, RefreshIsAttended

(* Every write of the row but a claim says how the refresh ended. *)
LEMMA AttendWrites ==
    ASSUME TypeInv, NEW r \in Requests, NEW row, Write(r, row), row.status # "refreshing"
    PROVE  AttendInv'
<1>1. NobodyHolds'
  BY WriteReleases
<1> QED
  BY <1>1 DEF Write, NobodyHolds, AttendInv, RefreshIsAttended, Behind

LEMMA AttendProceeds ==
    ASSUME TypeInv, AttendInv, NEW r \in Requests, Proceed(r)
    PROVE  AttendInv'
<1> DEFINE p == request[r]
<1>1. p \in RequestRecords /\ request \in [Requests -> RequestRecords] /\ account \in Accounts /\ Behind(p)
  BY DEF TypeInv, TypeOK, AttendInv
<1>2. \A s : /\ [p EXCEPT !.stage = s].stage = s /\ [p EXCEPT !.stage = s].held = p.held
            /\ \A k : /\ [p EXCEPT !.stage = s, !.token = k].stage = s
                      /\ [p EXCEPT !.stage = s, !.token = k].held = p.held
  BY <1>1 DEF RequestRecords
<1>3. CASE Consume(r)
  <2>1. ~p.held /\ UNCHANGED <<account, faults>>
    BY <1>1, <1>3 DEF Consume, At, Behind
  <2>2. request' = [request EXCEPT ![r] = [p EXCEPT !.stage = "exchanging"]] \/ request' = [request EXCEPT ![r] = Idle]
    BY <1>3 DEF Consume, Goto
  <2> QED
    BY <1>2, <2>1, <2>2, Records, AttendMoves DEF Behind
<1>4. CASE Exchange(r)
  <2>1. ~p.held /\ UNCHANGED <<account, faults>>
    BY <1>1, <1>4 DEF Exchange, At, Behind
  <2>2. PICK new \in {0, issued + 1} \cap Tokens :
            request' = [request EXCEPT ![r] = [p EXCEPT !.stage = "connecting", !.token = new]]
    BY <1>1, <1>4 DEF Exchange, Answers, RequestRecords
  <2>3. Behind([p EXCEPT !.stage = "connecting", !.token = new])
    BY <1>2, <2>1 DEF Behind
  <2> QED
    BY <2>1, <2>2, <2>3, AttendMoves
<1>5. CASE Refresh(r)
  <2>1. UNCHANGED <<account, faults>>
    BY <1>5 DEF Refresh
  <2>2. \/ request' = [request EXCEPT ![r] = [p EXCEPT !.stage = "failing"]]
        \/ \E k \in Tokens : request' = [request EXCEPT ![r] = [p EXCEPT !.stage = "refreshed", !.token = k]]
    BY <1>1, <1>5, Zero DEF Refresh, Goto, Answers, RequestRecords
  <2> QED
    BY <1>2, <2>1, <2>2, AttendMoves DEF Behind
<1>6. CASE Claim(r)
  <2>1. CASE request' = [request EXCEPT ![r] = Idle] /\ UNCHANGED account
    <3>1. ~p.held /\ UNCHANGED faults
      BY <1>1, <1>6 DEF Claim, At, Behind
    <3> QED
      BY <2>1, <3>1, Records, AttendMoves DEF Behind
  <2>2. CASE /\ account' = [account EXCEPT !.status = "refreshing", !.lease = "running"]
             /\ request' = [request EXCEPT ![r].stage = "fetching", ![r].held = TRUE]
    <3>1. account'.lease = "running"
      BY <1>1, <2>2 DEF Accounts
    <3>2. \A q \in Requests : q # r => request'[q] = request[q]
      BY <1>1, <2>2
    <3>3. request'[r].held /\ request'[r].stage = "fetching"
      BY <1>1, <2>2 DEF RequestRecords
    <3> QED
      BY <3>1, <3>2, <3>3 DEF AttendInv, RefreshIsAttended, Behind
  <2> QED
    BY <1>6, <2>1, <2>2 DEF Claim
<1>7. CASE Connect(r) \/ SaveRefreshed(r) \/ Clear(r)
  BY <1>7, AttendWrites DEF Connect, SaveRefreshed, Clear, NoAccount
<1>8. CASE MarkExpired(r) \/ SaveFailure(r)
  <2>1. /\ [account EXCEPT !.status = "expired"].status # "refreshing"
        /\ [account EXCEPT !.status = "error", !.lease = "none"].status # "refreshing"
    BY <1>1 DEF Accounts
  <2> QED
    BY <1>8, <2>1, AttendWrites DEF MarkExpired, SaveFailure
<1> QED
  BY <1>3, <1>4, <1>5, <1>6, <1>7, <1>8 DEF Proceed

LEMMA AttendOthers ==
    ASSUME TypeInv, AttendInv, Next, \A r \in Requests : ~Proceed(r)
    PROVE  AttendInv'
<1>1. request \in [Requests -> RequestRecords] /\ account \in Accounts /\ faults \in Nat
  BY BoundsAssumption DEF TypeInv, TypeOK
<1>2. CASE \E l \in Links : Start(l) \/ LinkExpires(l)
  BY <1>2 DEF Start, LinkExpires, AttendInv, RefreshIsAttended
<1>3. ASSUME NEW r \in Requests, ReadToken(r) \/ Disconnect(r) \/ \E l \in Links : Callback(r, l)
      PROVE  AttendInv'
  <2>1. ~request[r].held /\ UNCHANGED <<account, faults>>
    BY <1>3 DEF ReadToken, Disconnect, Callback, At, AttendInv, Behind
  <2>2. /\ ~[Idle EXCEPT !.stage = "expiring"].held
        /\ ~[Idle EXCEPT !.stage = "clearing"].held
        /\ \A k : ~[Idle EXCEPT !.stage = "claiming", !.token = k].held
        /\ \A l : ~[Idle EXCEPT !.stage = "consuming", !.link = l].held
    BY DEF Idle
  <2>3. \E e : ~e.held /\ request' = [request EXCEPT ![r] = e]
    BY <1>3, <2>2 DEF ReadToken, Disconnect, Callback
  <2> QED
    BY <2>1, <2>3, AttendMoves DEF Behind
<1>4. ASSUME NEW r \in Requests, Throws(r)
      PROVE  AttendInv'
  <2>1. UNCHANGED account /\ faults' = faults + 1
    BY <1>4 DEF Throws
  <2>2. [request[r] EXCEPT !.stage = "failing"].stage = "failing"
    BY <1>1 DEF RequestRecords
  <2>3. \E e : Behind(e) /\ request' = [request EXCEPT ![r] = e]
    BY <1>4, <2>2, Records DEF Throws, Goto, Behind
  <2> QED
    BY <2>1, <2>3, AttendMoves
<1>5. CASE LeaseLapses
  <2>1. \A q \in Requests : ~[request[q] EXCEPT !.held = FALSE].held
    BY <1>1 DEF RequestRecords
  <2>2. account'.lease = "lapsed"
    BY <1>1, <1>5 DEF LeaseLapses, Accounts
  <2> QED
    BY <1>5, <2>1, <2>2 DEF LeaseLapses, AttendInv, RefreshIsAttended, Behind
<1>6. CASE AccessExpires
  <2>1. account'.status = account.status /\ account'.lease = account.lease
    BY <1>1, <1>6 DEF AccessExpires, Accounts
  <2> QED
    BY <1>6, <2>1 DEF AccessExpires, AttendInv, RefreshIsAttended
<1>7. CASE Crash
  <2>1. faults' > 0 /\ UNCHANGED account /\ \A r \in Requests : request'[r] = Idle
    BY <1>1, <1>7 DEF Crash
  <2> QED
    BY <2>1, Records DEF AttendInv, RefreshIsAttended, Behind
<1> QED
  BY <1>2, <1>3, <1>4, <1>5, <1>6, <1>7 DEF Next

(* The safety half of RefreshEnds, for any links, requests and bounds: no step  *)
(* leaves an account refreshing that nobody is at and nobody may take over.     *)
THEOREM RefreshStaysAttended == Spec => []RefreshIsAttended
<1>1. Init => AttendInv
  <2>1. NoAccount.status # "refreshing"
    BY DEF NoAccount
  <2>2. Behind(Idle)
    BY Records DEF Behind
  <2> QED
    BY <2>1, <2>2 DEF Init, AttendInv, RefreshIsAttended
<1>2. TypeInv /\ AttendInv /\ [Next]_vars => AttendInv'
  <2>1. CASE UNCHANGED vars
    BY <2>1 DEF vars, AttendInv, RefreshIsAttended
  <2> QED
    BY <2>1, AttendProceeds, AttendOthers
<1>3. AttendInv => RefreshIsAttended
  BY DEF AttendInv
<1> QED
  BY <1>1, <1>2, <1>3, TypeCorrect, PTL DEF Spec

=============================================================================
