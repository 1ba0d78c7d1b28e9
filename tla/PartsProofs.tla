---------------------------- MODULE PartsProofs ----------------------------
(* Theorems about the components that PartsMC checks, and about BookingSync,  *)
(* each of which has a specification of its own, for all values of their      *)
(* constants.                                                                 *)
EXTENDS BetaInvites, WorkflowRuns, ListingReview, ProviderRuns, ActivityChain,
        WorkspaceView, ChatConversation, VaultClearance, VaultNotes, LocalModels,
        ProviderTokens, BookingSync, JobRunsProofs, FiniteSetTheorems, TLAPS

-----------------------------------------------------------------------------
(* Invitations: one access. *)

Ops   == {"none", "replace", "redeem"}
InviteCalls == [op : Ops, invite : Invites \cup {None}, user : Users \cup {None}]

(* Rows and calls have their types, and a call in flight names an invitation. *)
BetaTypeOK ==
    /\ invites \in [Invites -> InviteRows]
    /\ calls \in [Callers -> InviteCalls]
    /\ \A c \in Callers : calls[c].op # "none" => calls[c].invite \in Invites

Alive(i) == invites[i].status \in {"pending", "redeemed"}

(* Every row descends from one that exists. *)
RootsExist ==
    \A i \in Invites : invites[i].status # "absent" =>
        invites[i].root \in Invites /\ invites[invites[i].root].status # "absent"

(* Of an invitation and its replacements, one can be redeemed or has been. *)
OneAlive ==
    \A i, k \in Invites : Alive(i) /\ Alive(k) /\ invites[i].root = invites[k].root => i = k

BetaInv == BetaTypeOK /\ RootsExist /\ OneAlive

LEMMA NoInviteIsRow == NoInvite \in InviteRows /\ NoInvite.status = "absent"
  BY DEF NoInvite, InviteRows

LEMMA BetaInitInv == BetaInit => BetaInv
  BY NoInviteIsRow DEF BetaInit, BetaInv, BetaTypeOK, RootsExist, OneAlive, Alive, NoCall, InviteCalls, Ops

(* InviteCalls come and go. *)
LEMMA CallsMove ==
    ASSUME BetaTypeOK, NEW c \in Callers,
           \/ End(c)
           \/ \E op \in {"replace", "redeem"}, i \in Invites, u \in Users \cup {None} : Begin(c, op, i, u)
    PROVE  /\ calls' \in [Callers -> InviteCalls]
           /\ \A d \in Callers : calls'[d].op # "none" => calls'[d].invite \in Invites
<1>1. CASE End(c)
  <2>1. NoCall \in InviteCalls /\ NoCall.op = "none"
    BY DEF NoCall, InviteCalls, Ops
  <2> QED
    BY <1>1, <2>1 DEF End, BetaTypeOK
<1>2. ASSUME NEW op \in {"replace", "redeem"}, NEW i \in Invites, NEW u \in Users \cup {None},
             Begin(c, op, i, u)
      PROVE  /\ calls' \in [Callers -> InviteCalls]
             /\ \A d \in Callers : calls'[d].op # "none" => calls'[d].invite \in Invites
  <2>1. [op |-> op, invite |-> i, user |-> u] \in InviteCalls
    BY DEF InviteCalls, Ops
  <2> QED
    BY <1>2, <2>1 DEF Begin, BetaTypeOK
<1> QED
  BY <1>1, <1>2

(* A row that changes without coming to life keeps the rest of the invariant. *)
LEMMA RowFades ==
    ASSUME BetaInv, NEW i \in Invites, NEW row \in InviteRows,
           invites' = [invites EXCEPT ![i] = row],
           row.root = invites[i].root,
           invites[i].status # "absent", row.status # "absent",
           row.status \in {"pending", "redeemed"} => Alive(i)
    PROVE  invites' \in [Invites -> InviteRows] /\ RootsExist' /\ OneAlive'
  BY DEF BetaInv, BetaTypeOK, RootsExist, OneAlive, Alive

LEMMA CreateKeeps ==
    ASSUME BetaInv, NEW i \in Invites, NEW u \in Users, CreateInvite(i, u)
    PROVE  BetaInv'
<1>1. Pending(u, i) \in InviteRows
  BY DEF Pending, InviteRows
<1>2. /\ invites' = [invites EXCEPT ![i] = Pending(u, i)] /\ calls' = calls
      /\ invites[i].status = "absent"
  BY NoInviteIsRow DEF CreateInvite
<1>3. Pending(u, i).root = i /\ Pending(u, i).status = "pending"
  BY DEF Pending
<1>4. RootsExist'
  BY <1>1, <1>2, <1>3 DEF BetaInv, BetaTypeOK, RootsExist
<1>5. OneAlive'
  BY <1>1, <1>2, <1>3 DEF BetaInv, BetaTypeOK, RootsExist, OneAlive, Alive
<1> QED
  BY <1>1, <1>2, <1>4, <1>5 DEF BetaInv, BetaTypeOK

LEMMA ReplaceKeeps ==
    ASSUME BetaInv, NEW c \in Callers, NEW i \in Invites, ReplaceWrite(c, i)
    PROVE  BetaInv'
<1> DEFINE old == calls[c].invite
           new == Pending(invites[old].email, invites[old].root)
<1>1. old \in Invites /\ invites[i].status = "absent" /\ End(c)
  BY NoInviteIsRow DEF BetaInv, BetaTypeOK, ReplaceWrite
<1>2. calls' \in [Callers -> InviteCalls] /\ \A d \in Callers : calls'[d].op # "none" => calls'[d].invite \in Invites
  BY <1>1, CallsMove DEF BetaInv
<1>3. CASE invites[old].status # "pending"
  <2>1. invites' = invites
    BY <1>3 DEF ReplaceWrite
  <2> QED
    BY <1>2, <2>1 DEF BetaInv, BetaTypeOK, RootsExist, OneAlive, Alive
<1>4. CASE invites[old].status = "pending"
  <2>1. old # i
    BY <1>1, <1>4
  <2>2. invites' = [invites EXCEPT ![old] = [invites[old] EXCEPT !.status = "replaced"], ![i] = new]
    BY <1>4 DEF ReplaceWrite
  <2>3. [invites[old] EXCEPT !.status = "replaced"] \in InviteRows /\ new \in InviteRows
    BY <1>1 DEF BetaInv, BetaTypeOK, InviteRows, Pending
  <2>4. new.status = "pending" /\ new.root = invites[old].root
    BY DEF Pending
  <2>5. /\ invites'[old].status = "replaced" /\ invites'[old].root = invites[old].root
        /\ invites'[i].status = "pending" /\ invites'[i].root = invites[old].root
        /\ \A k \in Invites \ {i, old} : invites'[k] = invites[k]
    BY <1>1, <2>1, <2>2, <2>4 DEF BetaInv, BetaTypeOK, InviteRows
  <2>6. RootsExist'
    BY <1>1, <1>4, <2>5 DEF BetaInv, BetaTypeOK, RootsExist
  <2>7. OneAlive'
    BY <1>1, <1>4, <2>5 DEF BetaInv, BetaTypeOK, OneAlive, Alive
  <2>8. invites' \in [Invites -> InviteRows]
    BY <2>2, <2>3 DEF BetaInv, BetaTypeOK
  <2> QED
    BY <1>2, <2>6, <2>7, <2>8 DEF BetaInv, BetaTypeOK
<1> QED
  BY <1>3, <1>4

LEMMA RedeemKeeps ==
    ASSUME BetaInv, NEW c \in Callers, RedeemWrite(c)
    PROVE  BetaInv'
<1> DEFINE i == calls[c].invite
           row == [invites[i] EXCEPT !.status = "redeemed", !.by = calls[c].user]
<1>1. i \in Invites /\ calls[c].user \in Users \cup {None} /\ End(c)
  BY DEF BetaInv, BetaTypeOK, RedeemWrite, InviteCalls
<1>2. calls' \in [Callers -> InviteCalls] /\ \A d \in Callers : calls'[d].op # "none" => calls'[d].invite \in Invites
  BY <1>1, CallsMove DEF BetaInv
<1>3. CASE invites' = invites
  BY <1>2, <1>3 DEF BetaInv, BetaTypeOK, RootsExist, OneAlive, Alive
<1>4. CASE invites' # invites
  <2>1. invites[i].status = "pending" /\ invites' = [invites EXCEPT ![i] = row]
    BY <1>1, <1>4 DEF RedeemWrite, BetaInv, BetaTypeOK
  <2>2. row \in InviteRows /\ row.root = invites[i].root /\ row.status = "redeemed"
    <3>1. invites[i] \in InviteRows
      BY <1>1 DEF BetaInv, BetaTypeOK
    <3>2. [invites[i] EXCEPT !.status = "redeemed"] \in InviteRows
      BY <3>1 DEF InviteRows
    <3>3. row \in InviteRows
      BY <1>1, <3>1, <3>2 DEF InviteRows
    <3>4. row.root = invites[i].root /\ row.status = "redeemed"
      BY <3>1 DEF InviteRows
    <3> QED
      BY <3>3, <3>4
  <2>3. invites' \in [Invites -> InviteRows] /\ RootsExist' /\ OneAlive'
    <3>1. invites[i].status # "absent" /\ row.status # "absent"
      BY <2>1, <2>2
    <3>2. row.status \in {"pending", "redeemed"} => Alive(i)
      BY <2>1 DEF Alive
    <3> HIDE DEF i, row
    <3> QED
      BY <1>1, <2>1, <2>2, <3>1, <3>2, RowFades
  <2> QED
    BY <1>2, <2>3 DEF BetaInv, BetaTypeOK
<1> QED
  BY <1>3, <1>4

LEMMA FadeKeeps ==
    ASSUME BetaInv, NEW i \in Invites, Expire(i) \/ RevokeInvite(i)
    PROVE  BetaInv'
<1>1. PICK row : /\ row = [invites[i] EXCEPT !.fresh = FALSE] \/ row = [invites[i] EXCEPT !.status = "revoked"]
                 /\ invites' = [invites EXCEPT ![i] = row]
  BY DEF Expire, RevokeInvite
<1>2. row \in InviteRows /\ row.root = invites[i].root
      /\ (row.status = invites[i].status \/ row.status = "revoked")
  BY <1>1 DEF BetaInv, BetaTypeOK, InviteRows
<1>3. CASE invites[i].status # "absent"
  <2>1. row.status # "absent" /\ (row.status \in {"pending", "redeemed"} => Alive(i))
    BY <1>2, <1>3 DEF Alive
  <2>2. invites' = [invites EXCEPT ![i] = row]
    BY <1>1
  <2>3. invites' \in [Invites -> InviteRows] /\ RootsExist' /\ OneAlive'
    BY <1>2, <1>3, <2>1, <2>2, RowFades
  <2> QED
    BY <2>3 DEF BetaInv, BetaTypeOK, Expire, RevokeInvite
<1>4. CASE invites[i].status = "absent"
  <2>1. row.status = "absent"
    BY <1>1, <1>4 DEF BetaInv, BetaTypeOK, InviteRows, Expire, RevokeInvite
  <2> QED
    BY <1>1, <1>2, <1>4, <2>1 DEF BetaInv, BetaTypeOK, RootsExist, OneAlive, Alive, Expire, RevokeInvite
<1> QED
  BY <1>3, <1>4

LEMMA BetaStep == BetaInv /\ [BetaNext]_betaVars => BetaInv'
<1> SUFFICES ASSUME BetaInv, [BetaNext]_betaVars PROVE BetaInv'
  OBVIOUS
<1>1. CASE UNCHANGED betaVars
  BY <1>1 DEF betaVars, BetaInv, BetaTypeOK, RootsExist, OneAlive, Alive
<1>2. ASSUME NEW c \in Callers,
             \/ CallFails(c)
             \/ \E i \in Invites : ReplaceRead(c, i) \/ \E u \in Users : RedeemRead(c, i, u)
      PROVE  BetaInv'
  <2>1. /\ calls' \in [Callers -> InviteCalls]
        /\ \A d \in Callers : calls'[d].op # "none" => calls'[d].invite \in Invites
    BY <1>2, CallsMove DEF BetaInv, CallFails, ReplaceRead, RedeemRead
  <2>2. invites' = invites
    BY <1>2 DEF CallFails, ReplaceRead, RedeemRead, Begin
  <2> QED
    BY <2>1, <2>2 DEF BetaInv, BetaTypeOK, RootsExist, OneAlive, Alive
<1> QED
  BY <1>1, <1>2, CreateKeeps, ReplaceKeeps, RedeemKeeps, FadeKeeps DEF BetaNext

(* However many moderators replace or revoke an invitation and however many   *)
(* accounts redeem it at the same time, it lets one account in, once.         *)
THEOREM OneAccess == BetaSpec => []OneAccessPerInvitation
<1>1. BetaSpec => []BetaInv
  BY BetaInitInv, BetaStep, PTL DEF BetaSpec
<1>2. BetaInv => OneAccessPerInvitation
  BY DEF BetaInv, OneAlive, Alive, OneAccessPerInvitation
<1> QED
  BY <1>1, <1>2, PTL

-----------------------------------------------------------------------------
(* Invitations: the limit. *)

Counted == Active \ renewed

LimitInv ==
    /\ BetaInv
    /\ IsFiniteSet(Active)
    /\ LimitButForRenewals

(* What counts is at most what counted before ... *)
LEMMA NothingMoreCounts ==
    ASSUME IsFiniteSet(Counted), LimitButForRenewals, Counted' \subseteq Counted
    PROVE  IsFiniteSet(Counted)' /\ LimitButForRenewals'
<1>1. IsFiniteSet(Counted') /\ Cardinality(Counted') <= Cardinality(Counted)
  BY FS_Subset
<1>2. Cardinality(Counted) \in Nat /\ Cardinality(Counted') \in Nat
  BY <1>1, FS_CardinalityType
<1> QED
  BY <1>1, <1>2, LimitAssumption DEF LimitButForRenewals, Counted

(* ... or one more, where there was room for it ... *)
LEMMA OneMoreCounts ==
    ASSUME IsFiniteSet(Counted), Cardinality(Counted) < Limit, NEW i \in Invites,
           Counted' \subseteq Counted \cup {i}
    PROVE  IsFiniteSet(Counted)' /\ LimitButForRenewals'
<1>1. /\ IsFiniteSet(Counted \cup {i})
      /\ Cardinality(Counted \cup {i}) = IF i \in Counted THEN Cardinality(Counted) ELSE Cardinality(Counted) + 1
  BY FS_AddElement
<1>2. IsFiniteSet(Counted') /\ Cardinality(Counted') <= Cardinality(Counted \cup {i})
  BY <1>1, FS_Subset
<1>3. Cardinality(Counted) \in Nat /\ Cardinality(Counted') \in Nat
  BY <1>2, FS_CardinalityType
<1> QED
  BY <1>1, <1>2, <1>3, LimitAssumption DEF LimitButForRenewals, Counted

(* ... or one in the place of another. *)
LEMMA AnotherCounts ==
    ASSUME IsFiniteSet(Counted), LimitButForRenewals, NEW old \in Counted, NEW i \in Invites,
           Counted' \subseteq (Counted \ {old}) \cup {i}
    PROVE  IsFiniteSet(Counted)' /\ LimitButForRenewals'
<1>1. IsFiniteSet(Counted \ {old}) /\ Cardinality(Counted \ {old}) = Cardinality(Counted) - 1
  BY FS_RemoveElement
<1>2. /\ IsFiniteSet((Counted \ {old}) \cup {i})
      /\ Cardinality((Counted \ {old}) \cup {i}) =
            IF i \in Counted \ {old} THEN Cardinality(Counted \ {old}) ELSE Cardinality(Counted \ {old}) + 1
  BY <1>1, FS_AddElement
<1>3. IsFiniteSet(Counted') /\ Cardinality(Counted') <= Cardinality((Counted \ {old}) \cup {i})
  BY <1>2, FS_Subset
<1>4. Cardinality(Counted) \in Nat /\ Cardinality(Counted') \in Nat
  BY <1>3, FS_CardinalityType
<1> QED
  BY <1>1, <1>2, <1>3, <1>4, LimitAssumption DEF LimitButForRenewals, Counted

LEMMA CountedIsFinite ==
    ASSUME IsFiniteSet(Active)
    PROVE  /\ IsFiniteSet(Counted) /\ Cardinality(Counted) \in Nat
           /\ Cardinality(Active) \in Nat /\ Cardinality(Counted) <= Cardinality(Active)
  BY FS_Subset, FS_CardinalityType DEF Counted

LEMMA ActiveStaysFinite ==
    ASSUME IsFiniteSet(Active), NEW i \in Invites, Active' \subseteq Active \cup {i}
    PROVE  IsFiniteSet(Active)'
<1>1. IsFiniteSet(Active \cup {i})
  BY FS_AddElement
<1> QED
  BY <1>1, FS_Subset

LEMMA LimitStep == LimitInv /\ [BetaNext]_betaVars => LimitInv'
<1> SUFFICES ASSUME LimitInv, [BetaNext]_betaVars PROVE LimitInv'
  OBVIOUS
<1>0. /\ BetaInv' /\ BetaTypeOK /\ IsFiniteSet(Active)
      /\ IsFiniteSet(Counted) /\ LimitButForRenewals
  BY BetaStep, CountedIsFinite DEF LimitInv, BetaInv
<1>1. ASSUME Active' \subseteq Active, renewed' = renewed PROVE LimitInv'
  <2>1. IsFiniteSet(Active)'
    BY <1>0, <1>1, FS_Subset
  <2>2. Counted' \subseteq Counted
    BY <1>1 DEF Counted
  <2> QED
    BY <1>0, <2>1, <2>2, NothingMoreCounts DEF LimitInv
<1>2. ASSUME NEW i \in Invites, NEW u \in Users, CreateInvite(i, u) PROVE LimitInv'
  <2>1. Active' \subseteq Active \cup {i} /\ Counted' \subseteq Counted \cup {i}
    BY <1>0, <1>2 DEF CreateInvite, Counted, Active, Taking, BetaTypeOK
  <2>2. Cardinality(Counted) < Limit
    <3>1. Cardinality(Active) < Limit
      BY <1>2 DEF CreateInvite
    <3> QED
      BY <1>0, <3>1, CountedIsFinite, LimitAssumption
  <2> QED
    BY <1>0, <2>1, <2>2, ActiveStaysFinite, OneMoreCounts DEF LimitInv
<1>3. ASSUME NEW i \in Invites, Expire(i) \/ RevokeInvite(i) PROVE LimitInv'
  <2>1. CASE Expire(i)
    <3>1. Active' \subseteq Active
      BY <1>0, <2>1 DEF Expire, Active, Taking, BetaTypeOK, InviteRows
    <3> QED
      BY <1>1, <2>1, <3>1 DEF Expire
  <2>2. CASE RevokeInvite(i)
    <3>1. Active' \subseteq Active
      BY <1>0, <2>2 DEF RevokeInvite, Active, Taking, BetaTypeOK, InviteRows
    <3> QED
      BY <1>1, <2>2, <3>1 DEF RevokeInvite
  <2> QED
    BY <1>3, <2>1, <2>2
<1>4. ASSUME NEW c \in Callers, NEW i \in Invites, ReplaceWrite(c, i) PROVE LimitInv'
  <2> DEFINE old == calls[c].invite
  <2>1. old \in Invites /\ invites[i].status = "absent"
    BY <1>0, <1>4, NoInviteIsRow DEF BetaTypeOK, ReplaceWrite
  <2>2. CASE invites[old].status # "pending"
    <3>1. invites' = invites /\ renewed' = renewed
      BY <1>4, <2>2 DEF ReplaceWrite
    <3> QED
      BY <1>1, <3>1 DEF Active, Taking
  <2>3. CASE invites[old].status = "pending"
    <3>1. /\ invites' = [invites EXCEPT ![old].status = "replaced",
                                        ![i] = Pending(invites[old].email, invites[old].root)]
          /\ renewed' = IF invites[old].fresh /\ old \notin renewed THEN renewed ELSE renewed \cup {i}
      BY <1>4, <2>3 DEF ReplaceWrite
    <3>2. Active' \subseteq (Active \ {old}) \cup {i}
      BY <1>0, <2>1, <2>3, <3>1 DEF Active, Taking, BetaTypeOK, InviteRows
    <3>3. IsFiniteSet(Active)'
      BY <1>0, <3>2, ActiveStaysFinite
    <3>4. CASE invites[old].fresh /\ old \notin renewed
      <4>1. old \in Counted
        BY <2>1, <2>3, <3>4 DEF Counted, Active, Taking
      <4>2. Counted' \subseteq (Counted \ {old}) \cup {i}
        BY <3>1, <3>2, <3>4 DEF Counted
      <4> QED
        BY <1>0, <3>3, <4>1, <4>2, AnotherCounts DEF LimitInv
    <3>5. CASE ~(invites[old].fresh /\ old \notin renewed)
      <4>1. Counted' \subseteq Counted
        BY <3>1, <3>2, <3>5 DEF Counted
      <4> QED
        BY <1>0, <3>3, <4>1, NothingMoreCounts DEF LimitInv
    <3> QED
      BY <3>4, <3>5
  <2> QED
    BY <2>2, <2>3
<1>5. ASSUME NEW c \in Callers, RedeemWrite(c) PROVE LimitInv'
  <2>1. Active' \subseteq Active
    BY <1>0, <1>5 DEF RedeemWrite, Active, Taking, BetaTypeOK, InviteRows
  <2> QED
    BY <1>1, <1>5, <2>1 DEF RedeemWrite
<1>6. ASSUME invites' = invites, renewed' = renewed PROVE LimitInv'
  BY <1>1, <1>6 DEF Active, Taking
<1> QED
  BY <1>2, <1>3, <1>4, <1>5, <1>6
     DEF BetaNext, betaVars, ReplaceRead, RedeemRead, Begin, CallFails

(* The invitations that count stay within the cohort's limit, whatever races    *)
(* with their creation; only what replaces an expired invitation comes on top.  *)
THEOREM LimitKept == BetaSpec => []LimitButForRenewals
<1>1. BetaInit => LimitInv
  <2> SUFFICES ASSUME BetaInit PROVE LimitInv
    OBVIOUS
  <2>1. Active = {} /\ Active \ renewed = {}
    BY NoInviteIsRow DEF BetaInit, Active, Taking
  <2> QED
    BY <2>1, BetaInitInv, FS_EmptySet, LimitAssumption DEF LimitInv, LimitButForRenewals
<1>2. LimitInv => LimitButForRenewals
  BY DEF LimitInv
<1> QED
  BY <1>1, <1>2, LimitStep, PTL DEF BetaSpec

-----------------------------------------------------------------------------
(* Workflow connections. *)

WorkflowRows == [status : WorkflowStatuses, endpoint : Nat]
RunRows      == [by : {"nobody", "agent", "test"}, endpoint : Nat]

WorkflowInv ==
    /\ workflow \in WorkflowRows
    /\ runs \in [Runs -> RunRows]
    /\ overtaken \in BOOLEAN
    /\ workflow.status = "active" => workflow.endpoint \in vetted \/ overtaken
    /\ \A r \in Runs : Calling(r) => runs[r].endpoint = workflow.endpoint \/ overtaken
    /\ AgentsCallVettedEndpoints

LEMMA WorkflowStep == WorkflowInv /\ [WorkflowNext]_workflowVars => WorkflowInv'
<1> SUFFICES ASSUME WorkflowInv, [WorkflowNext]_workflowVars PROVE WorkflowInv'
  OBVIOUS
<1> USE DEF WorkflowInv, WorkflowRows, RunRows, WorkflowStatuses, Calling, AgentsCallVettedEndpoints
<1>0. NoRun \in RunRows /\ NoRun.by = "nobody"
  BY DEF NoRun
<1>1. CASE UNCHANGED workflowVars
  BY <1>1 DEF workflowVars
<1>2. CASE ChangeEndpoint
  <2>1. (\E r \in Runs : Calling(r)) => overtaken' = TRUE
    BY <1>2 DEF ChangeEndpoint
  <2>2. overtaken' \in BOOLEAN /\ (overtaken => overtaken')
    BY <1>2 DEF ChangeEndpoint
  <2> QED
    BY <1>0, <1>2, <2>1, <2>2, MaxEndpointsAssumption DEF ChangeEndpoint
<1>3. CASE DeleteWorkflow
  BY <1>3 DEF DeleteWorkflow
<1>4. ASSUME NEW s \in {"draft", "active", "failed", "disabled"}, ChangeStatus(s) PROVE WorkflowInv'
  BY <1>4 DEF ChangeStatus
<1>5. ASSUME NEW r \in Runs, NEW by \in {"agent", "test"}, BeginRun(r, by) PROVE WorkflowInv'
  BY <1>5 DEF BeginRun
<1>6. ASSUME NEW r \in Runs, Respond(r) PROVE WorkflowInv'
  BY <1>0, <1>6 DEF Respond, Done, Mark
<1>7. ASSUME NEW r \in Runs, FailRun(r) \/ LoseRun(r) PROVE WorkflowInv'
  BY <1>0, <1>7 DEF FailRun, LoseRun, Done, Mark
<1> QED
  BY <1>1, <1>2, <1>3, <1>4, <1>5, <1>6, <1>7 DEF WorkflowNext

(* Whatever runs, tests and edits overlap, agents call only endpoints that      *)
(* answered or that the user made active, while no endpoint changed under a run. *)
THEOREM AgentsKeepToVetted == WorkflowSpec => []AgentsCallVettedEndpoints
<1>1. WorkflowInit => WorkflowInv
  <2> SUFFICES ASSUME WorkflowInit PROVE WorkflowInv
    OBVIOUS
  <2>1. workflow \in WorkflowRows /\ workflow.status # "active"
    BY DEF WorkflowInit, WorkflowRows, WorkflowStatuses
  <2>2. NoRun \in RunRows /\ NoRun.by = "nobody"
    BY DEF NoRun, RunRows
  <2>3. runs \in [Runs -> RunRows] /\ \A r \in Runs : runs[r] = NoRun
    BY <2>2 DEF WorkflowInit
  <2>4. overtaken \in BOOLEAN
    BY DEF WorkflowInit
  <2> QED
    BY <2>1, <2>2, <2>3, <2>4 DEF WorkflowInv, Calling, AgentsCallVettedEndpoints
<1>2. WorkflowInv => AgentsCallVettedEndpoints
  BY DEF WorkflowInv
<1> QED
  BY <1>1, <1>2, WorkflowStep, PTL DEF WorkflowSpec

-----------------------------------------------------------------------------
(* Listings. *)

DeskRows == [op : {"none", "edit", "publish", "approve", "sendBack", "archive"}, read : Listings]

ListingInv ==
    /\ listing \in Listings
    /\ desks \in [Desks -> DeskRows]
    /\ edits \in 0..MaxEdits
    /\ late \in BOOLEAN
    /\ PublishedWasJudged

LEMMA NewListingIsListing == NewListing \in Listings /\ NoDesk \in DeskRows
  BY EditsAssumption DEF NewListing, Listings, NoDesk, DeskRows

(* A write is late, or replaces what was read. *)
LEMMA WriteIsLateOrNot ==
    ASSUME ListingInv, NEW d \in Desks, NEW op, NEW new \in Listings, Write(d, op, new)
    PROVE  /\ listing' \in Listings /\ desks' \in [Desks -> DeskRows]
           /\ late' \in BOOLEAN /\ (late' \/ (~late /\ listing = desks[d].read))
  BY NewListingIsListing DEF ListingInv, Write

LEMMA ListingStep == ListingInv /\ [ListingNext]_listingVars => ListingInv'
<1> SUFFICES ASSUME ListingInv, [ListingNext]_listingVars PROVE ListingInv'
  OBVIOUS
<1>1. CASE UNCHANGED listingVars
  BY <1>1 DEF listingVars, ListingInv, PublishedWasJudged, PublishesAtOnce
<1>2. ASSUME NEW d \in Desks, NEW op \in {"edit", "publish", "approve", "sendBack", "archive"},
             ReadListing(d, op)
      PROVE  ListingInv'
  BY <1>2 DEF ReadListing, ListingInv, DeskRows, PublishedWasJudged, PublishesAtOnce
<1>3. ASSUME NEW d \in Desks, NEW field \in {"text", "manifest"}, Edit(d, field) PROVE ListingInv'
  <2> DEFINE new == [[desks[d].read EXCEPT ![field] = edits + 1] EXCEPT !.status = "draft", !.active = FALSE]
  <2> HIDE DEF new
  <2>0. edits < MaxEdits /\ edits' = edits + 1 /\ Write(d, "edit", new)
    BY <1>3 DEF Edit, new
  <2>1. edits + 1 \in 0..MaxEdits /\ desks[d].read \in Listings
    BY <2>0, EditsAssumption DEF ListingInv, DeskRows
  <2>2. new \in Listings /\ new.status = "draft"
    <3>1. CASE field = "text"
      BY <2>1, <3>1 DEF Listings, new
    <3>2. CASE field = "manifest"
      BY <2>1, <3>2 DEF Listings, new
    <3> QED
      BY <3>1, <3>2
  <2>3. listing' = new
    BY <2>0 DEF Write
  <2> QED
    BY <2>0, <2>1, <2>2, <2>3, WriteIsLateOrNot DEF ListingInv, PublishedWasJudged
<1>4. ASSUME NEW d \in Desks, Publish(d) PROVE ListingInv'
  <2> DEFINE atOnce == PublishesAtOnce(desks[d].read)
             new == [listing EXCEPT !.status = IF atOnce THEN "published" ELSE "needs_review", !.active = atOnce]
  <2>1. atOnce \in BOOLEAN
    BY DEF PublishesAtOnce
  <2>2. /\ new \in Listings /\ new.text = listing.text /\ new.manifest = listing.manifest
        /\ new.status = "published" => atOnce
    BY <2>1 DEF ListingInv, Listings
  <2>3. Write(d, "publish", new) /\ edits' = edits
    BY <1>4 DEF Publish
  <2> HIDE DEF new
  <2>4. listing' = new
    BY <2>3 DEF Write
  <2>5. late' \/ listing = desks[d].read
    BY <2>2, <2>3, WriteIsLateOrNot
  <2>6. PublishedWasJudged'
    BY <2>2, <2>4, <2>5 DEF PublishedWasJudged, PublishesAtOnce
  <2> QED
    BY <2>2, <2>3, <2>6, WriteIsLateOrNot DEF ListingInv
<1>5. ASSUME NEW d \in Desks, Approve(d) PROVE ListingInv'
  <2> DEFINE read == desks[d].read
             new == [listing EXCEPT !.status = "published", !.active = TRUE, !.manifest = read.manifest]
  <2>1. read \in Listings
    BY DEF ListingInv, DeskRows
  <2>2. new \in Listings /\ new.text = listing.text /\ new.manifest = read.manifest
    BY <2>1 DEF ListingInv, Listings
  <2>3. Write(d, "approve", new) /\ edits' = edits /\ <<read.text, read.manifest>> \in approved'
    BY <1>5 DEF Approve
  <2> HIDE DEF new
  <2>4. listing' = new
    BY <2>3 DEF Write
  <2>5. late' \/ listing = read
    BY <2>2, <2>3, WriteIsLateOrNot
  <2>6. PublishedWasJudged'
    BY <2>2, <2>3, <2>4, <2>5 DEF PublishedWasJudged
  <2> QED
    BY <2>2, <2>3, <2>6, WriteIsLateOrNot DEF ListingInv
<1>6. ASSUME NEW d \in Desks, SendBack(d) \/ Archive(d) PROVE ListingInv'
  <2>1. PICK new \in {[listing EXCEPT !.status = "draft", !.active = FALSE], [listing EXCEPT !.status = "archived"]},
             op \in {"sendBack", "archive"} : Write(d, op, new)
    BY <1>6 DEF SendBack, Archive
  <2>2. new \in Listings /\ new.status # "published"
    BY DEF ListingInv, Listings
  <2>3. listing' = new
    BY <2>1 DEF Write
  <2>4. edits' = edits
    BY <1>6 DEF SendBack, Archive
  <2> QED
    BY <2>1, <2>2, <2>3, <2>4, WriteIsLateOrNot DEF ListingInv, PublishedWasJudged
<1>7. ASSUME NEW d \in Desks, AbandonCall(d) PROVE ListingInv'
  BY <1>7, NewListingIsListing DEF AbandonCall, ListingInv, PublishedWasJudged, PublishesAtOnce
<1> QED
  BY <1>1, <1>2, <1>3, <1>4, <1>5, <1>6, <1>7 DEF ListingNext

(* However many edits, reviews and approvals of a listing are in flight, what   *)
(* is published was judged as it stands, unless a call wrote over another's.    *)
THEOREM PublishedAsJudged == ListingSpec => []PublishedWasJudged
<1>1. ListingInit => ListingInv
  <2> SUFFICES ASSUME ListingInit PROVE ListingInv
    OBVIOUS
  <2>1. desks \in [Desks -> DeskRows] /\ listing \in Listings
    BY NewListingIsListing DEF ListingInit
  <2>2. edits \in 0..MaxEdits
    BY EditsAssumption DEF ListingInit
  <2>3. late \in BOOLEAN
    BY DEF ListingInit
  <2>4. listing.status = "draft"
    BY DEF ListingInit, NewListing
  <2> QED
    BY <2>1, <2>2, <2>3, <2>4 DEF ListingInv, PublishedWasJudged
<1>2. ListingInv => PublishedWasJudged
  BY DEF ListingInv
<1> QED
  BY <1>1, <1>2, ListingStep, PTL DEF ListingSpec

-----------------------------------------------------------------------------
(* Provider definitions. *)

DefinitionRows == [status : {"absent", "draft", "active", "disabled"}, content : Nat]
EditRows       == [at : {"rest", "load", "update", "copy"}, row : DefinitionRows]

(* Nobody copies: the registry is what the row says, but for an active row that *)
(* the start has still to load.                                                 *)
Settled ==
    ~apart /\ (\A e \in Copiers : editing[e].at # "copy")
           /\ (editing["start"].at # "load" \/ definition.status # "active")
        => registry = Served(definition)

(* One copies: it copies the row as it is. *)
OneCopies ==
    ~apart => \A e \in Copiers : editing[e].at = "copy" =>
        editing[e].row = definition /\ ~CopyOutstanding(e)

DefinitionInv ==
    /\ definition \in DefinitionRows
    /\ editing \in [Copiers -> EditRows]
    /\ apart \in BOOLEAN
    /\ Settled
    /\ OneCopies

LEMMA ContentsAreNumbers == \A c \in 1..MaxVersions : c \in Nat
  BY MaxVersionsAssumption

LEMMA AtRestIsEditRow == Absent \in DefinitionRows /\ AtRest \in EditRows /\ AtRest.at = "rest"
  BY DEF Absent, AtRest, DefinitionRows, EditRows

(* A copier that has the row as it is, and is alone, settles it ... *)
LEMMA ToCopyKeeps ==
    ASSUME DefinitionInv, NEW e \in Copiers, definition' \in DefinitionRows,
           ToCopy(e, definition')
    PROVE  DefinitionInv'
<1>1. [at |-> "copy", row |-> definition'] \in EditRows
  BY DEF EditRows
<1>2. editing' \in [Copiers -> EditRows] /\ editing' = [editing EXCEPT ![e] = [at |-> "copy", row |-> definition']]
  BY <1>1 DEF ToCopy, BecomesEditing, DefinitionInv
<1>3. apart' \in BOOLEAN /\ (~apart' => \A f \in Copiers \ {e} : editing[f].at # "copy")
  BY DEF ToCopy, CopyOutstanding
<1>4. OneCopies'
  BY <1>2, <1>3 DEF OneCopies, CopyOutstanding, DefinitionInv
<1>5. Settled'
  BY <1>2 DEF Settled, DefinitionInv
<1> QED
  BY <1>2, <1>3, <1>4, <1>5 DEF DefinitionInv

LEMMA DefinitionStep == DefinitionInv /\ [DefinitionNext]_definitionVars => DefinitionInv'
<1> SUFFICES ASSUME DefinitionInv, [DefinitionNext]_definitionVars PROVE DefinitionInv'
  OBVIOUS
<1>0. "start" \in Copiers /\ \A e \in Editors : e \in Copiers
  BY DEF Copiers
<1>1. CASE UNCHANGED definitionVars
  BY <1>1 DEF definitionVars, DefinitionInv, Settled, OneCopies, CopyOutstanding
<1>2. ASSUME NEW e \in Editors, NEW s \in {"draft", "active", "disabled"},
             SetStatus(e, s) \/ \E c \in 1..MaxVersions : CreateDefinition(e, s, c)
      PROVE  DefinitionInv'
  <2>1. definition' \in DefinitionRows
    BY <1>2 DEF SetStatus, CreateDefinition, DefinitionInv, DefinitionRows
  <2>2. ToCopy(e, definition')
    BY <1>2 DEF SetStatus, CreateDefinition
  <2> QED
    BY <1>0, <2>1, <2>2, ToCopyKeeps
<1>3. ASSUME NEW e \in Editors, NEW s \in {"draft", "active", "disabled", "as read"},
             NEW c \in 1..MaxVersions, UpdateWrite(e, s, c)
      PROVE  DefinitionInv'
  <2>1. editing[e] \in EditRows
    BY <1>0 DEF DefinitionInv
  <2> DEFINE kept == IF s = "as read" THEN editing[e].row.status ELSE s
  <2>2. kept \in {"absent", "draft", "active", "disabled"} /\ c \in Nat
    <3>1. editing[e].row \in DefinitionRows
      BY <2>1 DEF EditRows
    <3>2. editing[e].row.status \in {"absent", "draft", "active", "disabled"}
      BY <3>1 DEF DefinitionRows
    <3>3. c \in Nat
      BY ContentsAreNumbers
    <3> QED
      BY <3>2, <3>3
  <2>3. definition' = [status |-> kept, content |-> c] /\ ToCopy(e, definition')
    BY <1>3 DEF UpdateWrite
  <2> HIDE DEF kept
  <2>4. definition' \in DefinitionRows
    BY <2>2, <2>3 DEF DefinitionRows
  <2> QED
    BY <1>0, <2>3, <2>4, ToCopyKeeps
<1>4. ASSUME NEW e \in Editors, UpdateRead(e) PROVE DefinitionInv'
  <2>1. editing' = [editing EXCEPT ![e] = [at |-> "update", row |-> definition]] /\ editing[e] = AtRest
    BY <1>4 DEF UpdateRead, BecomesEditing
  <2>2. [at |-> "update", row |-> definition] \in EditRows
    BY DEF EditRows, DefinitionInv
  <2>3. editing' \in [Copiers -> EditRows] /\ \A f \in Copiers :
            (editing'[f].at # "copy" /\ editing[f].at # "copy") \/ editing'[f] = editing[f]
    BY <1>0, <2>1, <2>2, AtRestIsEditRow DEF DefinitionInv
  <2>4. editing'["start"].at = "load" <=> editing["start"].at = "load"
    BY <1>0, <2>1, <2>2, AtRestIsEditRow DEF DefinitionInv
  <2>5. definition' = definition /\ registry' = registry /\ apart' = apart
    BY <1>4 DEF UpdateRead
  <2> QED
    BY <2>3, <2>4, <2>5 DEF DefinitionInv, Settled, OneCopies, CopyOutstanding, Served
<1>5. ASSUME NEW e \in Copiers, editing' = [editing EXCEPT ![e] = AtRest], definition' = definition
      PROVE  /\ editing' \in [Copiers -> EditRows]
             /\ editing'[e].at = "rest"
             /\ \A f \in Copiers \ {e} : editing'[f] = editing[f]
  BY <1>5, AtRestIsEditRow DEF DefinitionInv
<1>6. ASSUME NEW e \in Copiers, Copy(e) PROVE DefinitionInv'
  <2>1. /\ editing[e].at = "copy" /\ registry' = Served(editing[e].row) /\ definition' = definition
        /\ apart' = apart /\ editing' = [editing EXCEPT ![e] = AtRest]
    BY <1>6 DEF Copy, BecomesEditing, AtRest
  <2>2. Settled'
    BY <2>1 DEF DefinitionInv, Settled, OneCopies, Served
  <2>3. OneCopies'
    BY <1>5, <2>1 DEF DefinitionInv, OneCopies, CopyOutstanding
  <2> QED
    BY <1>5, <2>1, <2>2, <2>3 DEF DefinitionInv
<1>7. ASSUME NEW e \in Copiers, CallRejects(e) PROVE DefinitionInv'
  <2>1. /\ definition' = definition /\ registry' = registry
        /\ editing' = [editing EXCEPT ![e] = AtRest]
        /\ editing[e].at \in {"load", "update", "copy"}
    BY <1>7 DEF CallRejects, BecomesEditing, AtRest
  <2>2. apart' \in BOOLEAN /\ (~apart' => ~apart /\ editing[e].at = "update")
    BY <1>7, <2>1 DEF CallRejects, DefinitionInv
  <2>3. Settled'
    BY <1>5, <2>1, <2>2 DEF DefinitionInv, Settled, Served
  <2>4. OneCopies'
    BY <1>5, <2>1, <2>2 DEF DefinitionInv, OneCopies, CopyOutstanding
  <2> QED
    BY <1>5, <2>1, <2>2, <2>3, <2>4 DEF DefinitionInv
<1>8. CASE LoadActive
  <2>1. CASE definition.status = "active"
    <3>1. ToCopy("start", definition') /\ definition' = definition
      BY <1>8, <2>1 DEF LoadActive
    <3> QED
      BY <1>0, <3>1, ToCopyKeeps DEF DefinitionInv
  <2>2. CASE definition.status # "active"
    <3>1. /\ definition' = definition /\ registry' = registry /\ apart' = apart
          /\ editing' = [editing EXCEPT !["start"] = AtRest] /\ editing["start"].at = "load"
      BY <1>8, <2>2 DEF LoadActive, BecomesEditing, AtRest
    <3>2. Settled'
      BY <1>0, <1>5, <2>2, <3>1 DEF DefinitionInv, Settled, Served
    <3>3. OneCopies'
      BY <1>0, <1>5, <3>1 DEF DefinitionInv, OneCopies, CopyOutstanding
    <3> QED
      BY <1>0, <1>5, <3>1, <3>2, <3>3 DEF DefinitionInv
  <2> QED
    BY <2>1, <2>2
<1>9. CASE Restart
  <2>1. [AtRest EXCEPT !.at = "load"] \in EditRows /\ [AtRest EXCEPT !.at = "load"].at = "load"
    BY AtRestIsEditRow DEF EditRows
  <2>2. /\ editing' \in [Copiers -> EditRows] /\ \A e \in Copiers : editing'[e].at # "copy"
        /\ editing'["start"].at = "load"
    BY <1>0, <1>9, <2>1, AtRestIsEditRow DEF Restart
  <2>3. definition' = definition /\ registry' = 0 /\ apart' \in BOOLEAN
    BY <1>9 DEF Restart
  <2> QED
    BY <2>2, <2>3 DEF DefinitionInv, Settled, OneCopies, Served
<1> QED
  BY <1>1, <1>2, <1>3, <1>4, <1>6, <1>7, <1>8, <1>9 DEF DefinitionNext, EditStep

LEMMA DefinitionStarts == DefinitionInit => DefinitionInv
<1> SUFFICES ASSUME DefinitionInit PROVE DefinitionInv
  OBVIOUS
<1>1. [AtRest EXCEPT !.at = "load"] \in EditRows /\ [AtRest EXCEPT !.at = "load"].at = "load"
  BY AtRestIsEditRow DEF EditRows
<1>2. editing \in [Copiers -> EditRows] /\ \A e \in Copiers : editing[e].at # "copy"
  BY <1>1, AtRestIsEditRow DEF DefinitionInit
<1>3. definition \in DefinitionRows /\ Served(definition) = 0 /\ registry = 0
  BY AtRestIsEditRow DEF DefinitionInit, Served, Absent
<1>4. apart \in BOOLEAN
  BY DEF DefinitionInit
<1> QED
  BY <1>2, <1>3, <1>4 DEF DefinitionInv, Settled, OneCopies

LEMMA SettledIsCurrent == DefinitionInv => RegistryFollowsRow
  BY DEF DefinitionInv, Settled, RegistryFollowsRow, Copiers

(* Whatever edits, reloads and restarts overlap, the registry agents search is  *)
(* the database's definition, once copies that could cross have not.            *)
THEOREM RegistryIsCurrent == DefinitionSpec => []RegistryFollowsRow
  BY DefinitionStarts, SettledIsCurrent, DefinitionStep, PTL DEF DefinitionSpec

-----------------------------------------------------------------------------
(* Runs of a provider. *)

CallStages == {"none", "definition", "connection", "probe", "asked", "check", "checked", "again", "call"}
Healths    == {"unknown", "healthy", "unhealthy"}
CallRows   == [at : CallStages, content : Nat, health : Healths]

(* What a run has met by the time it stands where it stands. *)
HasMet(c) ==
    /\ calling[c].at # "none" => "offered" \in met[c] \/ "unsettled" \in met[c]
    /\ calling[c].at \in {"connection", "probe", "asked", "again", "call"} => "active" \in met[c]
    /\ calling[c].at \in {"probe", "asked", "again", "call"} => "connected" \in met[c]
    /\ calling[c].at = "connection" /\ calling[c].health = "healthy" => "healthy" \in met[c]
    /\ calling[c].at \in {"again", "call"} /\ calling[c].content \in Probed => "healthy" \in met[c]

RegistryInv == DefinitionInv /\ registry \in Nat

RunsTypeOK == calling \in [Calls -> CallRows] /\ health \in Healths

RunsInv == RegistryInv /\ RunsTypeOK /\ \A c \in Calls : HasMet(c)

LEMMA RegistryStarts == DefinitionInit => RegistryInv
  BY DefinitionStarts DEF RegistryInv, DefinitionInit

LEMMA RegistryStep == RegistryInv /\ [DefinitionNext]_definitionVars => RegistryInv'
<1> SUFFICES ASSUME RegistryInv, [DefinitionNext]_definitionVars PROVE registry' \in Nat
  BY DefinitionStep DEF RegistryInv
<1>1. CASE \E e \in Copiers : Copy(e)
  <2>1. PICK e \in Copiers : Copy(e)
    BY <1>1
  <2>2. editing[e].row \in DefinitionRows /\ registry' = Served(editing[e].row)
    BY <2>1 DEF RegistryInv, DefinitionInv, EditRows, Copy
  <2> QED
    BY <2>2 DEF Served, DefinitionRows
<1>2. CASE registry' \in {registry, 0}
  BY <1>2 DEF RegistryInv
<1>3. (\E e \in Copiers : Copy(e)) \/ registry' \in {registry, 0}
  BY DEF DefinitionNext, EditStep, definitionVars, SetStatus, CreateDefinition, UpdateWrite,
         UpdateRead, CallRejects, LoadActive, Restart
<1> QED
  BY <1>1, <1>2, <1>3

LEMMA UncalledIsRow == Uncalled \in CallRows /\ Uncalled.at = "none"
  BY DEF Uncalled, CallRows, CallStages, Healths

(* The record grows while a run is under way, by what holds after each step. *)
LEMMA RecordGrows ==
    ASSUME Record, NEW c \in Calls, calling'[c].at # "none"
    PROVE  /\ \A what \in met[c] : what \in met'[c]
           /\ Served(definition)' = calling'[c].content => "offered" \in met'[c]
           /\ Unsettled' => "unsettled" \in met'[c]
           /\ definition'.status = "active" => "active" \in met'[c]
           /\ account' = "active" => "connected" \in met'[c]
           /\ health' = "healthy" => "healthy" \in met'[c]
<1>1. met'[c] = met[c] \cup Holds(c)'
  BY DEF Record
<1> QED
  BY <1>1 DEF Holds

(* A run that stays where it is keeps what it has met. *)
LEMMA StayingKeeps ==
    ASSUME Record, NEW c \in Calls, HasMet(c), calling'[c] = calling[c]
    PROVE  HasMet(c)'
<1>1. calling[c].at # "none" => \A what \in met[c] : what \in met'[c]
  BY RecordGrows
<1> QED
  BY <1>1 DEF HasMet

(* A step of one run. *)
LEMMA BecomesKeeps ==
    ASSUME RunsInv, Record, NEW c \in Calls, NEW run \in CallRows, Becomes(c, run),
           health' \in Healths, RegistryInv',
           calling'[c] = run => HasMet(c)'
    PROVE  RunsInv'
<1>1. calling \in [Calls -> CallRows]
  BY DEF RunsInv, RunsTypeOK
<1>2. /\ calling' \in [Calls -> CallRows] /\ calling'[c] = run
      /\ \A d \in Calls \ {c} : calling'[d] = calling[d]
  BY <1>1 DEF Becomes
<1>3. \A d \in Calls \ {c} : HasMet(d)'
  BY <1>2, StayingKeeps DEF RunsInv
<1> QED
  BY <1>2, <1>3 DEF RunsInv, RunsTypeOK

LEMMA CallEndsKeeps ==
    ASSUME RunsInv, Record, NEW c \in Calls, CallEnds(c), health' \in Healths, RegistryInv'
    PROVE  RunsInv'
<1>1. calling'[c] = Uncalled => HasMet(c)'
  BY UncalledIsRow DEF HasMet
<1> QED
  BY <1>1, UncalledIsRow, BecomesKeeps DEF CallEnds

(* A run that goes on to a stage it has met the conditions of. *)
LEMMA GoesOnKeeps ==
    ASSUME RunsInv, Record, NEW c \in Calls, NEW from \in CallStages, NEW to \in CallStages,
           from # "none", to # "none", to # "connection", GoesOn(c, from, to),
           health' \in Healths, RegistryInv',
           to \in {"probe", "asked", "again", "call"} =>
               /\ from \in {"connection", "probe", "asked", "again"}
               /\ from = "connection" => account' = "active",
           to \in {"again", "call"} /\ calling[c].content \in Probed =>
               \/ from = "again" \/ health' = "healthy"
               \/ from = "connection" /\ calling[c].health = "healthy"
    PROVE  RunsInv'
<1> DEFINE run == [calling[c] EXCEPT !.at = to]
<1>1. calling[c] \in CallRows /\ HasMet(c) /\ calling[c].at = from
  BY DEF RunsInv, RunsTypeOK, GoesOn
<1>2. run \in CallRows /\ run.at = to /\ run.content = calling[c].content /\ run.health = calling[c].health
  BY <1>1 DEF CallRows
<1>3. ASSUME calling'[c] = run PROVE HasMet(c)'
  <2>1. calling'[c].at = to /\ calling'[c].content = calling[c].content
    BY <1>2, <1>3
  <2>2. \A what \in met[c] : what \in met'[c]
    BY <2>1, RecordGrows
  <2>3. account' = "active" => "connected" \in met'[c]
    BY <2>1, RecordGrows
  <2>4. health' = "healthy" => "healthy" \in met'[c]
    BY <2>1, RecordGrows
  <2>5. "offered" \in met'[c] \/ "unsettled" \in met'[c]
    BY <1>1, <2>2 DEF HasMet
  <2>6. to \in {"probe", "asked", "again", "call"} => "active" \in met'[c] /\ "connected" \in met'[c]
    BY <1>1, <2>2, <2>3 DEF HasMet
  <2>7. to \in {"again", "call"} /\ calling[c].content \in Probed => "healthy" \in met'[c]
    BY <1>1, <2>2, <2>4 DEF HasMet
  <2> QED
    BY <2>1, <2>5, <2>6, <2>7 DEF HasMet
<1> HIDE DEF run
<1>4. Becomes(c, run)
  BY DEF GoesOn, run
<1> QED
  BY <1>2, <1>3, <1>4, BecomesKeeps

LEMMA RunStepKeeps ==
    ASSUME RunsInv, Record, NEW c \in Calls, RunStep(c), UNCHANGED definitionVars
    PROVE  RunsInv'
<1>1. RegistryInv' /\ registry' = registry /\ definition' = definition
  BY RegistryStep DEF RunsInv, definitionVars
<1>2. calling[c] \in CallRows /\ HasMet(c) /\ health \in Healths
  BY DEF RunsInv, RunsTypeOK
<1>3. ASSUME NEW at \in {"definition", "check"}, Resolve(c, at) PROVE RunsInv'
  <2> DEFINE run == [at |-> at, content |-> registry, health |-> "unknown"]
  <2>1. registry \in Nat
    BY DEF RunsInv, RegistryInv
  <2>2. run \in CallRows
    BY <2>1 DEF CallRows, CallStages, Healths
  <2>3. ASSUME calling'[c] = run PROVE HasMet(c)'
    <3>1. calling'[c].at = at /\ calling'[c].content = registry
      BY <2>3
    <3>2. Unsettled' \/ registry' = Served(definition)'
      <4>1. Unsettled \/ registry = Served(definition)
        BY SettledIsCurrent DEF RunsInv, RegistryInv, RegistryFollowsRow, Unsettled
      <4> QED
        BY <4>1 DEF Unsettled, definitionVars, Served
    <3>3. "offered" \in met'[c] \/ "unsettled" \in met'[c]
      BY <1>1, <3>1, <3>2, RecordGrows
    <3> QED
      BY <3>1, <3>3 DEF HasMet
  <2>4. Becomes(c, run) /\ health' = health
    BY <1>3 DEF Resolve
  <2> HIDE DEF run
  <2> QED
    BY <1>1, <1>2, <2>2, <2>3, <2>4, BecomesKeeps
<1>4. ASSUME CallEnds(c), health' \in Healths PROVE RunsInv'
  BY <1>1, <1>4, CallEndsKeeps
<1>5. CASE ReadDefinition(c)
  <2> DEFINE run == [calling[c] EXCEPT !.at = "connection", !.health = health]
  <2>1. health' = health
    BY <1>5 DEF ReadDefinition
  <2>2. CASE definition.status = "active"
    <3>1. Becomes(c, run) /\ calling[c].at = "definition"
      BY <1>5, <2>2 DEF ReadDefinition
    <3>2. run \in CallRows /\ run.at = "connection" /\ run.health = health
      BY <1>2 DEF CallRows, CallStages
    <3>3. ASSUME calling'[c] = run PROVE HasMet(c)'
      <4>1. calling'[c].at = "connection" /\ calling'[c].health = health
        BY <3>2, <3>3
      <4>2. "active" \in met'[c] /\ (health' = "healthy" => "healthy" \in met'[c])
        BY <1>1, <2>2, <4>1, RecordGrows
      <4>3. \A what \in met[c] : what \in met'[c]
        BY <4>1, RecordGrows
      <4>4. "offered" \in met'[c] \/ "unsettled" \in met'[c]
        BY <1>2, <3>1, <4>3 DEF HasMet
      <4> QED
        BY <2>1, <4>1, <4>2, <4>4 DEF HasMet
    <3> HIDE DEF run
    <3> QED
      BY <1>1, <1>2, <2>1, <3>1, <3>2, <3>3, BecomesKeeps
  <2>3. CASE definition.status # "active"
    BY <1>2, <1>4, <1>5, <2>1, <2>3 DEF ReadDefinition
  <2> QED
    BY <2>2, <2>3
<1>6. CASE JudgeAccount(c)
  <2> DEFINE to == AfterConnection(c)
  <2>1. health' = health /\ account' = account
    BY <1>6 DEF JudgeAccount
  <2>2. to \in {"again", "probe", "none"}
        /\ (to = "again" /\ calling[c].content \in Probed => calling[c].health = "healthy")
    BY DEF AfterConnection
  <2> HIDE DEF to
  <2>3. CASE account = "active" /\ to # "none"
    <3>1. GoesOn(c, "connection", to)
      BY <1>6, <2>3 DEF JudgeAccount, to
    <3>2. to \in CallStages /\ "connection" \in CallStages
      BY <2>2 DEF CallStages
    <3>3. to \in {"probe", "again"}
      BY <2>2, <2>3
    <3> QED
      BY <1>1, <1>2, <2>1, <2>2, <2>3, <3>1, <3>2, <3>3, GoesOnKeeps
  <2>4. CASE ~(account = "active" /\ to # "none")
    BY <1>2, <1>4, <1>6, <2>1, <2>4 DEF JudgeAccount, to
  <2> QED
    BY <2>3, <2>4
<1>7. CASE ProbeRead(c)
  <2>1. health' = health
    BY <1>7 DEF ProbeRead
  <2>2. "probe" \in CallStages /\ "asked" \in CallStages /\ "check" \in CallStages /\ "checked" \in CallStages
    BY DEF CallStages
  <2>3. CallEnds(c) \/ GoesOn(c, "probe", "asked") \/ GoesOn(c, "check", "checked")
    BY <1>7 DEF ProbeRead
  <2>4. CASE GoesOn(c, "probe", "asked")
    BY <1>1, <1>2, <2>1, <2>2, <2>4, GoesOnKeeps
  <2>5. CASE GoesOn(c, "check", "checked")
    BY <1>1, <1>2, <2>1, <2>2, <2>5, GoesOnKeeps
  <2> QED
    BY <1>2, <1>4, <2>1, <2>3, <2>4, <2>5
<1>8. ASSUME NEW verdict \in {"healthy", "unhealthy"}, ProbeAnswers(c, verdict) PROVE RunsInv'
  <2>1. health' = verdict /\ health' \in Healths
    BY <1>8 DEF ProbeAnswers, Healths
  <2>2. CallEnds(c) \/ (verdict = "healthy" /\ GoesOn(c, "asked", "again"))
    BY <1>8 DEF ProbeAnswers
  <2>3. "asked" \in CallStages /\ "again" \in CallStages
    BY DEF CallStages
  <2>4. CASE verdict = "healthy" /\ GoesOn(c, "asked", "again")
    BY <1>1, <2>1, <2>3, <2>4, GoesOnKeeps
  <2> QED
    BY <1>4, <2>1, <2>2, <2>4
<1>9. CASE JudgeAccountAgain(c)
  <2>1. health' = health
    BY <1>9 DEF JudgeAccountAgain
  <2>2. CallEnds(c) \/ GoesOn(c, "again", "call")
    BY <1>9 DEF JudgeAccountAgain
  <2>3. "again" \in CallStages /\ "call" \in CallStages
    BY DEF CallStages
  <2>4. CASE GoesOn(c, "again", "call")
    BY <1>1, <1>2, <2>1, <2>3, <2>4, GoesOnKeeps
  <2> QED
    BY <1>2, <1>4, <2>1, <2>2, <2>4
<1>10. CASE Call(c) \/ CallBreaks(c)
  <2>1. health' = health /\ (CallEnds(c) \/ calling' = calling)
    BY <1>10 DEF Call, CallBreaks
  <2>2. CASE calling' = calling
    BY <1>1, <1>2, <2>1, <2>2, StayingKeeps DEF RunsInv, RunsTypeOK
  <2> QED
    BY <1>2, <1>4, <2>1, <2>2
<1> QED
  BY <1>3, <1>5, <1>6, <1>7, <1>8, <1>9, <1>10 DEF RunStep

LEMMA ProviderStepKeeps == RunsInv /\ [ProviderNext]_providerVars => RunsInv'
<1> SUFFICES ASSUME RunsInv, [ProviderNext]_providerVars PROVE RunsInv'
  OBVIOUS
<1>1. CASE UNCHANGED providerVars
  <2>1. UNCHANGED <<definitionVars, health, calling, met>>
    BY <1>1 DEF providerVars, callVars
  <2>2. RegistryInv'
    BY <2>1, RegistryStep DEF RunsInv
  <2> QED
    BY <2>1, <2>2 DEF RunsInv, RunsTypeOK, HasMet
<1>2. ASSUME ProviderNext, UNCHANGED <<health, calling>>, RegistryInv' PROVE RunsInv'
  BY <1>2, StayingKeeps DEF ProviderNext, RunsInv, RunsTypeOK
<1>3. CASE ProviderNext /\ EditStep /\ UNCHANGED <<health, account, calling>>
  BY <1>2, <1>3, RegistryStep DEF RunsInv, DefinitionNext
<1>4. CASE ProviderNext /\ AccountChanges /\ UNCHANGED definitionVars
  BY <1>2, <1>4, RegistryStep DEF RunsInv, AccountChanges
<1>5. CASE ProviderNext /\ Restart /\ calling' = [c \in Calls |-> Uncalled] /\ UNCHANGED <<health, account>>
  <2>1. RegistryInv'
    BY <1>5, RegistryStep DEF RunsInv, DefinitionNext
  <2>2. \A c \in Calls : HasMet(c)'
    BY <1>5, UncalledIsRow DEF HasMet
  <2>3. RunsTypeOK'
    BY <1>5, UncalledIsRow DEF RunsInv, RunsTypeOK
  <2> QED
    BY <2>1, <2>2, <2>3 DEF RunsInv
<1>6. ASSUME ProviderNext, NEW c \in Calls, RunStep(c), UNCHANGED definitionVars PROVE RunsInv'
  BY <1>6, RunStepKeeps DEF ProviderNext
<1> QED
  BY <1>1, <1>3, <1>4, <1>5, <1>6 DEF ProviderNext, ProviderStep

(* For any number of edits, restarts, runs and checks in flight, a provider that *)
(* is called was active, connected and found healthy during the run, and offered *)
(* as it is called.                                                              *)
THEOREM ProvidersAreReady == ProviderSpec => []RunsAreReady
<1>1. ProviderInit => RunsInv
  BY RegistryStarts, UncalledIsRow DEF ProviderInit, RunsInv, RunsTypeOK, HasMet, Healths
<1>2. RunsInv => RunsAreReady
  BY DEF RunsInv, RunsAreReady, HasMet
<1> QED
  BY <1>1, <1>2, ProviderStepKeeps, PTL DEF ProviderSpec

-----------------------------------------------------------------------------
(* The activity log. *)

EntryRows   == [previous : Nat, seen : Nat, createdAt : Nat]
WritingRows == [previous : Nat, seen : Nat, active : BOOLEAN]

(* p was one of the newest of the first s entries of the log. *)
NewestOf(log, p, s) ==
    /\ p <= s
    /\ s > 0 => p >= 1 /\ \A k \in 1..s : log[k].createdAt <= log[p].createdAt

ChainInv ==
    /\ entries \in Seq(EntryRows)
    /\ writing \in [Writers -> WritingRows]
    /\ \A j, k \in 1..Len(entries) : j <= k => entries[j].createdAt <= entries[k].createdAt
    /\ \A w \in Writers : writing[w].active =>
          writing[w].seen <= Len(entries) /\ NewestOf(entries, writing[w].previous, writing[w].seen)
    /\ \A n \in 1..Len(entries) : entries[n].seen < n /\ NewestOf(entries, entries[n].previous, entries[n].seen)

LEMMA NotWritingIsRow == NotWriting \in WritingRows /\ ~NotWriting.active
  BY DEF NotWriting, WritingRows

LEMMA ChainStep == ChainInv /\ [ChainNext]_chainVars => ChainInv'
<1> SUFFICES ASSUME ChainInv, [ChainNext]_chainVars PROVE ChainInv'
  OBVIOUS
<1>0. Len(entries) \in Nat /\ DOMAIN entries = 1..Len(entries) /\ \A k \in 1..Len(entries) : entries[k] \in EntryRows
  BY DEF ChainInv
<1>1. CASE UNCHANGED chainVars
  BY <1>1 DEF chainVars, ChainInv, NewestOf
<1>2. ASSUME NEW w \in Writers, ReadPrevious(w) PROVE ChainInv'
  <2>1. PICK n \in 0..Len(entries) :
            /\ Newest(n) \/ (n = 0 /\ entries = << >>)
            /\ writing' = [writing EXCEPT ![w] = [previous |-> n, seen |-> Len(entries), active |-> TRUE]]
    BY <1>2 DEF ReadPrevious
  <2>2. entries' = entries
    BY <1>2 DEF ReadPrevious
  <2>3. NewestOf(entries, n, Len(entries))
    <3>1. CASE Newest(n)
      BY <1>0, <3>1 DEF Newest, NewestOf
    <3>2. CASE n = 0 /\ entries = << >>
      BY <3>2 DEF NewestOf
    <3> QED
      BY <2>1, <3>1, <3>2
  <2>4. [previous |-> n, seen |-> Len(entries), active |-> TRUE] \in WritingRows
    BY <1>0, <2>1 DEF WritingRows
  <2>5. writing' \in [Writers -> WritingRows]
    BY <2>1, <2>4 DEF ChainInv
  <2>6. \A v \in Writers : writing'[v].active =>
            writing'[v].seen <= Len(entries) /\ NewestOf(entries, writing'[v].previous, writing'[v].seen)
    BY <1>0, <2>1, <2>3 DEF ChainInv
  <2> QED
    BY <2>2, <2>5, <2>6 DEF ChainInv, NewestOf
<1>3. ASSUME NEW w \in Writers, InsertEntry(w) PROVE ChainInv'
  <2> DEFINE last == IF entries = << >> THEN 0 ELSE entries[Len(entries)].createdAt
  <2>1. PICK step \in {0, 1} :
            entries' = Append(entries, [previous |-> writing[w].previous, seen |-> writing[w].seen,
                                        createdAt |-> last + step])
    BY <1>3 DEF InsertEntry
  <2> DEFINE row == [previous |-> writing[w].previous, seen |-> writing[w].seen, createdAt |-> last + step]
             len == Len(entries)
  <2>2. writing' = [writing EXCEPT ![w] = NotWriting] /\ writing[w].active
    BY <1>3 DEF InsertEntry
  <2>3. last \in Nat /\ \A k \in 1..len : entries[k].createdAt <= last
    <3>1. CASE entries = << >>
      BY <3>1
    <3>2. CASE entries # << >>
      <4>1. len \in 1..len
        BY <1>0, <3>2 DEF ChainInv
      <4> QED
        BY <1>0, <3>2, <4>1 DEF ChainInv, EntryRows
    <3> QED
      BY <3>1, <3>2
  <2> HIDE DEF last
  <2>4. row \in EntryRows /\ row.createdAt >= last
    BY <2>3 DEF EntryRows, ChainInv, WritingRows
  <2>5. /\ entries' \in Seq(EntryRows) /\ Len(entries') = len + 1
        /\ entries'[len + 1] = row /\ \A k \in 1..len : entries'[k] = entries[k]
    BY <1>0, <2>1, <2>4 DEF ChainInv
  <2>6. \A j, k \in 1..Len(entries') : j <= k => entries'[j].createdAt <= entries'[k].createdAt
    <3> SUFFICES ASSUME NEW j \in 1..(len + 1), NEW k \in 1..(len + 1), j <= k
                 PROVE  entries'[j].createdAt <= entries'[k].createdAt
      BY <2>5
    <3>1. CASE k \in 1..len
      BY <1>0, <2>5, <3>1 DEF ChainInv
    <3>2. CASE k = len + 1 /\ j \in 1..len
      <4>1. entries[j].createdAt \in Nat /\ row.createdAt \in Nat
        BY <1>0, <2>4, <3>2 DEF EntryRows
      <4> QED
        BY <2>3, <2>4, <2>5, <3>2, <4>1
    <3>3. CASE k = len + 1 /\ j = len + 1
      <4>1. row.createdAt \in Nat
        BY <2>4 DEF EntryRows
      <4> QED
        BY <2>5, <3>3, <4>1
    <3> QED
      BY <1>0, <3>1, <3>2, <3>3
  <2>7. ASSUME NEW p \in Nat, NEW s \in Nat, s <= len, NewestOf(entries, p, s) PROVE NewestOf(entries', p, s)
    BY <1>0, <2>5, <2>7 DEF NewestOf
  <2>8. writing' \in [Writers -> WritingRows]
    BY <2>2, NotWritingIsRow DEF ChainInv
  <2>9. \A v \in Writers : writing'[v].active => writing'[v] = writing[v] /\ writing[v].active
    BY <2>2, NotWritingIsRow DEF ChainInv
  <2>10. \A v \in Writers : writing'[v].active =>
            writing'[v].seen <= Len(entries') /\ NewestOf(entries', writing'[v].previous, writing'[v].seen)
    <3> SUFFICES ASSUME NEW v \in Writers, writing[v].active
                 PROVE  writing[v].seen <= Len(entries') /\ NewestOf(entries, writing[v].previous, writing[v].seen)
                        /\ writing[v].seen <= len /\ writing[v].previous \in Nat /\ writing[v].seen \in Nat
      BY <2>7, <2>9
    <3> QED
      BY <1>0, <2>5 DEF ChainInv, WritingRows
  <2>11. \A n \in 1..Len(entries') : entries'[n].seen < n /\ NewestOf(entries', entries'[n].previous, entries'[n].seen)
    <3> SUFFICES ASSUME NEW n \in 1..(len + 1)
                 PROVE  entries'[n].seen < n /\ NewestOf(entries', entries'[n].previous, entries'[n].seen)
      BY <2>5
    <3>1. CASE n \in 1..len
      <4>1. /\ entries'[n] = entries[n] /\ entries[n].seen < n
            /\ NewestOf(entries, entries[n].previous, entries[n].seen)
            /\ entries[n].previous \in Nat /\ entries[n].seen \in Nat
        BY <1>0, <2>5, <3>1 DEF ChainInv, EntryRows
      <4>2. entries[n].seen <= len
        BY <1>0, <3>1, <4>1
      <4> QED
        BY <2>7, <4>1, <4>2
    <3>2. CASE n = len + 1
      <4>1. /\ entries'[n].previous = writing[w].previous /\ entries'[n].seen = writing[w].seen
            /\ writing[w].seen <= len /\ NewestOf(entries, writing[w].previous, writing[w].seen)
            /\ writing[w].previous \in Nat /\ writing[w].seen \in Nat
        BY <2>2, <2>5, <3>2 DEF ChainInv, WritingRows
      <4> QED
        BY <1>0, <2>7, <3>2, <4>1
    <3> QED
      BY <1>0, <3>1, <3>2
  <2> QED
    BY <2>5, <2>6, <2>8, <2>10, <2>11 DEF ChainInv
<1>4. ASSUME NEW w \in Writers, LoseEntry(w) PROVE ChainInv'
  <2>1. entries' = entries /\ writing' = [writing EXCEPT ![w] = NotWriting]
    BY <1>4 DEF LoseEntry
  <2> QED
    BY <2>1, NotWritingIsRow DEF ChainInv, NewestOf
<1> QED
  BY <1>1, <1>2, <1>3, <1>4 DEF ChainNext

(* However many writers read and insert at the same time, two entries follow    *)
(* the same one only where writers overlapped or creation times were equal.     *)
THEOREM ForksAreExplained == ChainSpec => []ForksComeFromOverlap
<1>1. ChainInit => ChainInv
  BY NotWritingIsRow DEF ChainInit, ChainInv
<1>2. ChainInv => ForksComeFromOverlap
  <2> SUFFICES ASSUME ChainInv, NEW m \in DOMAIN entries, NEW n \in DOMAIN entries,
                      m < n, entries[m].previous = entries[n].previous, ~(entries[n].seen < m)
               PROVE  \E k \in DOMAIN entries \ {entries[n].previous} :
                          /\ entries[n].previous # 0
                          /\ entries[k].createdAt = entries[entries[n].previous].createdAt
    BY DEF ForksComeFromOverlap
  <2> DEFINE p == entries[n].previous
  <2>1. /\ m \in 1..Len(entries) /\ n \in 1..Len(entries) /\ Len(entries) \in Nat
        /\ entries[m] \in EntryRows /\ entries[n] \in EntryRows
    BY DEF ChainInv
  <2>2. p \in Nat /\ entries[n].seen \in Nat /\ entries[m].seen \in Nat
    BY <2>1 DEF EntryRows
  <2>3. entries[n].seen >= m /\ NewestOf(entries, p, entries[n].seen) /\ entries[n].seen < n
    BY <2>1, <2>2 DEF ChainInv
  <2>4. p >= 1 /\ entries[m].createdAt <= entries[p].createdAt
    BY <2>1, <2>2, <2>3 DEF NewestOf
  <2>5. entries[m].seen < m /\ p <= entries[m].seen
    BY <2>1 DEF ChainInv, NewestOf
  <2>6. p \in 1..Len(entries) /\ p < m
    BY <2>1, <2>2, <2>4, <2>5
  <2>7. entries[p].createdAt <= entries[m].createdAt
    BY <2>1, <2>6 DEF ChainInv
  <2>8. entries[p].createdAt = entries[m].createdAt
    <3>1. entries[p] \in EntryRows /\ entries[m] \in EntryRows
      BY <2>1, <2>6 DEF ChainInv
    <3>2. entries[p].createdAt \in Nat /\ entries[m].createdAt \in Nat
      BY <3>1 DEF EntryRows
    <3> QED
      BY <2>4, <2>7, <3>2
  <2>9. m \in DOMAIN entries \ {p} /\ p # 0
    BY <2>1, <2>6
  <2> QED
    BY <2>8, <2>9
<1> QED
  BY <1>1, <1>2, ChainStep, PTL DEF ChainSpec

-----------------------------------------------------------------------------
(* The workspace view. *)

Versions    == [Resources -> Nat]
RefreshRows == [got : Versions, tries : Nat]

(* Nothing happened that the browser does not know of, or will learn of. *)
Heard == announcing = 0 /\ ~arriving /\ ~missed

(* What the latest refresh has read is what the server has, when all is quiet. *)
ReadsAreCurrent ==
    Heard /\ Running(latest) =>
        \A x \in Resources : refreshes[latest].got[x] \in {0, server[x]}

ViewInv ==
    /\ server \in [Resources -> Nat \ {0}]
    /\ announcing \in Nat
    /\ refreshes \in [1..MaxRefreshes -> RefreshRows]
    /\ latest \in 1..MaxRefreshes
    /\ shown \in Versions
    /\ isRefreshing <=> Running(latest)
    /\ ReadsAreCurrent
    /\ IdleViewIsCurrent

LEMMA NothingIsVersions == Nothing \in Versions /\ \A x \in Resources : Nothing[x] = 0
  BY DEF Nothing, Versions

(* A step that leaves the browser alone and makes nothing quiet that was not.   *)
LEMMA WireKeeps ==
    ASSUME ViewInv, UNCHANGED <<refreshes, latest, screen>>,
           server' \in [Resources -> Nat \ {0}], announcing' \in Nat,
           Heard' => Heard /\ server' = server
    PROVE  ViewInv'
<1>1. refreshes' = refreshes /\ latest' = latest /\ shown' = shown
      /\ isRefreshing' = isRefreshing /\ refreshError' = refreshError
  BY DEF screen
<1>2. isRefreshing' <=> Running(latest)'
  BY <1>1 DEF ViewInv, Running
<1>3. ReadsAreCurrent'
  BY <1>1 DEF ViewInv, ReadsAreCurrent, Running
<1>4. IdleViewIsCurrent'
  BY <1>1 DEF ViewInv, IdleViewIsCurrent, Heard
<1> QED
  BY <1>1, <1>2, <1>3, <1>4 DEF ViewInv

(* A refresh begins with nothing read. *)
LEMMA BeginKeeps ==
    ASSUME ViewInv, NEW tries \in Nat \ {0}, BeginRefresh(tries)
    PROVE  ViewInv'
<1>1. [got |-> Nothing, tries |-> tries] \in RefreshRows
  BY NothingIsVersions DEF RefreshRows
<1>2. latest' = latest + 1 /\ latest' \in 1..MaxRefreshes
  BY ViewAssumption DEF BeginRefresh, ViewInv
<1>3. refreshes' \in [1..MaxRefreshes -> RefreshRows] /\ refreshes'[latest'] = [got |-> Nothing, tries |-> tries]
  BY <1>1, <1>2 DEF BeginRefresh, ViewInv
<1>4. server' = server /\ announcing' = announcing /\ shown' = shown /\ isRefreshing'
  BY DEF BeginRefresh
<1>5. Running(latest)' /\ ReadsAreCurrent'
  BY <1>3, NothingIsVersions DEF Running, ReadsAreCurrent
<1>6. IdleViewIsCurrent'
  BY <1>4 DEF IdleViewIsCurrent
<1> QED
  BY <1>2, <1>3, <1>4, <1>5, <1>6 DEF ViewInv

LEMMA ReadKeeps ==
    ASSUME ViewInv, NEW i \in 1..MaxRefreshes, NEW x \in Resources, Read(i, x)
    PROVE  ViewInv'
<1> DEFINE got == [refreshes[i].got EXCEPT ![x] = server[x]]
           row == [refreshes[i] EXCEPT !.got = got]
<1>1. refreshes[i] \in RefreshRows
  BY DEF ViewInv
<1>2. got \in Versions
  BY <1>1 DEF ViewInv, RefreshRows, Versions
<1>3. row \in RefreshRows /\ row.tries = refreshes[i].tries /\ row.got = got
  BY <1>1, <1>2 DEF RefreshRows
<1>4. refreshes' = [refreshes EXCEPT ![i] = row]
  BY DEF Read
<1>5. \A y \in Resources : got[y] \in {refreshes[i].got[y], server[y]}
  BY <1>1 DEF RefreshRows, Versions
<1> HIDE DEF got, row
<1>6. UNCHANGED <<server, announcing, arriving, missed, latest, shown, isRefreshing, refreshError>>
  BY DEF Read, wire, screen
<1>7. refreshes' \in [1..MaxRefreshes -> RefreshRows]
  BY <1>3, <1>4 DEF ViewInv
<1>8. Running(latest)' <=> Running(latest)
  BY <1>3, <1>4, <1>6 DEF Running, ViewInv
<1>9. ReadsAreCurrent'
  <2>1. CASE i = latest
    BY <1>3, <1>4, <1>5, <1>6, <1>8, <2>1 DEF ViewInv, ReadsAreCurrent, Heard
  <2>2. CASE i # latest
    BY <1>4, <1>6, <1>8, <2>2 DEF ViewInv, ReadsAreCurrent, Heard
  <2> QED
    BY <2>1, <2>2
<1>10. IdleViewIsCurrent'
  BY <1>6 DEF ViewInv, IdleViewIsCurrent
<1>11. isRefreshing' <=> Running(latest)'
  BY <1>6, <1>8 DEF ViewInv
<1> QED
  BY <1>6, <1>7, <1>9, <1>10, <1>11 DEF ViewInv

(* A refresh that is not the latest ends or fails unseen. *)
LEMMA OldRefreshKeeps ==
    ASSUME ViewInv, NEW i \in 1..MaxRefreshes, i # latest, NEW row \in RefreshRows,
           refreshes' = [refreshes EXCEPT ![i] = row], UNCHANGED <<wire, latest, screen>>
    PROVE  ViewInv'
<1>1. UNCHANGED <<server, announcing, arriving, missed, latest, shown, isRefreshing, refreshError>>
  BY DEF wire, screen
<1>2. refreshes' \in [1..MaxRefreshes -> RefreshRows] /\ refreshes'[latest] = refreshes[latest]
  BY DEF ViewInv
<1>3. Running(latest)' <=> Running(latest)
  BY <1>1, <1>2 DEF Running
<1>4. ReadsAreCurrent'
  BY <1>1, <1>2, <1>3 DEF ViewInv, ReadsAreCurrent, Heard
<1>5. IdleViewIsCurrent'
  BY <1>1 DEF ViewInv, IdleViewIsCurrent
<1>6. isRefreshing' <=> Running(latest)'
  BY <1>1, <1>3 DEF ViewInv
<1> QED
  BY <1>1, <1>2, <1>4, <1>5, <1>6 DEF ViewInv

LEMMA ShowKeeps ==
    ASSUME ViewInv, NEW i \in 1..MaxRefreshes, Show(i)
    PROVE  ViewInv'
<1> DEFINE row == [got |-> Nothing, tries |-> 0]
<1>1. row \in RefreshRows /\ refreshes' = [refreshes EXCEPT ![i] = row]
  BY NothingIsVersions DEF Show, RefreshRows
<1>2. CASE i # latest
  <2>1. UNCHANGED <<wire, latest, screen>>
    BY <1>2 DEF Show, Finishes
  <2> QED
    BY <1>1, <1>2, <2>1, OldRefreshKeeps
<1>3. CASE i = latest
  <2>1. UNCHANGED <<server, announcing, arriving, missed, latest>>
    BY DEF Show, wire
  <2>2. shown' = refreshes[i].got /\ ~isRefreshing'
    BY <1>3 DEF Show, Finishes
  <2>3. refreshes' \in [1..MaxRefreshes -> RefreshRows] /\ ~Running(latest)'
    BY <1>1, <1>3, <2>1 DEF ViewInv, Running
  <2>4. shown' \in Versions
    BY <2>2 DEF ViewInv, RefreshRows
  <2>5. IdleViewIsCurrent'
    <3> SUFFICES ASSUME Heard PROVE shown' = server
      BY <2>1 DEF IdleViewIsCurrent, Heard
    <3>1. \A x \in Resources : refreshes[i].got[x] > 0 /\ refreshes[i].got[x] \in {0, server[x]}
      BY <1>3 DEF Show, ViewInv, ReadsAreCurrent
    <3>2. \A x \in Resources : shown'[x] = server[x]
      BY <2>2, <3>1
    <3> QED
      BY <2>4, <3>2 DEF ViewInv, Versions
  <2> QED
    BY <2>1, <2>2, <2>3, <2>4, <2>5 DEF ViewInv, ReadsAreCurrent
<1> QED
  BY <1>2, <1>3

LEMMA FailKeeps ==
    ASSUME ViewInv, NEW i \in 1..MaxRefreshes, Fail(i)
    PROVE  ViewInv'
<1> DEFINE row == [got |-> Nothing, tries |-> refreshes[i].tries - 1]
<1>1. refreshes[i].tries \in Nat /\ refreshes[i].tries > 0
  BY DEF Fail, Running, ViewInv, RefreshRows
<1>2. row \in RefreshRows /\ refreshes' = [refreshes EXCEPT ![i] = row]
  BY <1>1, NothingIsVersions DEF Fail, RefreshRows
<1>3. CASE i # latest
  <2>1. UNCHANGED <<wire, latest, screen>>
    BY <1>3 DEF Fail, Finishes
  <2> QED
    BY <1>2, <1>3, <2>1, OldRefreshKeeps
<1>4. CASE i = latest
  <2>1. UNCHANGED <<server, announcing, arriving, missed, latest>> /\ shown' = shown
    BY DEF Fail, wire, screen
  <2>2. refreshes' \in [1..MaxRefreshes -> RefreshRows] /\ refreshes'[latest] = row
    BY <1>2, <1>4 DEF ViewInv
  <2>3. ReadsAreCurrent'
    BY <2>1, <2>2, NothingIsVersions DEF ReadsAreCurrent
  <2>4. CASE refreshes[i].tries = 1
    <3>1. refreshError' /\ ~isRefreshing'
      BY <1>4, <2>4 DEF Fail, Finishes
    <3>2. ~Running(latest)'
      BY <2>1, <2>2, <2>4 DEF Running
    <3> QED
      BY <2>1, <2>2, <2>3, <3>1, <3>2 DEF ViewInv, IdleViewIsCurrent
  <2>5. CASE refreshes[i].tries # 1
    <3>1. isRefreshing' = isRefreshing
      BY <1>4, <2>5 DEF Fail, Finishes, screen
    <3>2. Running(latest)' /\ isRefreshing
      BY <1>1, <1>4, <2>1, <2>2, <2>5 DEF Running, ViewInv
    <3> QED
      BY <2>1, <2>2, <2>3, <3>1, <3>2 DEF ViewInv, IdleViewIsCurrent
  <2> QED
    BY <2>4, <2>5
<1> QED
  BY <1>3, <1>4

LEMMA ViewStep == ViewInv /\ [ViewNext]_viewVars => ViewInv'
<1> SUFFICES ASSUME ViewInv, [ViewNext]_viewVars PROVE ViewInv'
  OBVIOUS
<1>1. CASE UNCHANGED viewVars
  BY <1>1, WireKeeps DEF viewVars, screen, Heard, ViewInv
<1>2. ASSUME NEW x \in Resources, Change(x) PROVE ViewInv'
  <2>1. UNCHANGED <<refreshes, latest, screen>> /\ announcing' = announcing + 1
        /\ server' = [server EXCEPT ![x] = @ + 1]
    BY <1>2 DEF Change
  <2>2. announcing' \in Nat /\ announcing' # 0 /\ server' \in [Resources -> Nat \ {0}]
    BY <2>1 DEF ViewInv
  <2> QED
    BY <2>1, <2>2, WireKeeps DEF Heard
<1>3. CASE Announce \/ ServerDies
  <2>1. UNCHANGED <<refreshes, latest, screen, server>> /\ announcing' \in Nat /\ (arriving' \/ missed')
    BY <1>3 DEF Announce, ServerDies, ViewInv
  <2> QED
    BY <2>1, WireKeeps DEF Heard, ViewInv
<1>4. CASE SocketOpens \/ SocketDrops
  <2>1. UNCHANGED <<refreshes, latest, screen, server, announcing>>
    BY <1>4 DEF SocketOpens, SocketDrops
  <2>2. ASSUME Heard' PROVE Heard
    <3>1. CASE SocketOpens
      BY <2>2, <3>1 DEF SocketOpens, Heard
    <3>2. CASE SocketDrops
      BY <2>2, <3>2 DEF SocketDrops, Heard
    <3> QED
      BY <1>4, <3>1, <3>2
  <2> QED
    BY <2>1, <2>2, WireKeeps DEF ViewInv
<1>5. CASE Hear \/ RefreshNow \/ SessionRenewed
  BY <1>5, BeginKeeps, ViewAssumption DEF Hear, RefreshNow, SessionRenewed
<1>6. ASSUME NEW i \in 1..MaxRefreshes, Show(i) \/ Fail(i) \/ \E x \in Resources : Read(i, x)
      PROVE  ViewInv'
  BY <1>6, ShowKeeps, FailKeeps, ReadKeeps
<1> QED
  BY <1>1, <1>2, <1>3, <1>4, <1>5, <1>6 DEF ViewNext

(* However many refreshes overlap and in whatever order their answers come, an  *)
(* idle screen that has missed nothing shows what the server has.               *)
THEOREM IdleViewStaysCurrent == ViewSpec => []IdleViewIsCurrent
<1>1. ViewInit => ViewInv
  <2> SUFFICES ASSUME ViewInit PROVE ViewInv
    OBVIOUS
  <2>1. \A i \in 1..MaxRefreshes : [got |-> Nothing, tries |-> IF i = 1 THEN StartTries ELSE 0] \in RefreshRows
    BY NothingIsVersions, ViewAssumption DEF RefreshRows
  <2>2. refreshes \in [1..MaxRefreshes -> RefreshRows]
    BY <2>1 DEF ViewInit
  <2>3. latest = 1 /\ latest \in 1..MaxRefreshes
    BY ViewAssumption DEF ViewInit
  <2>4. refreshes[latest] = [got |-> Nothing, tries |-> StartTries]
    BY <2>3 DEF ViewInit
  <2>5. Running(latest) /\ isRefreshing
    BY <2>4, ViewAssumption DEF Running, ViewInit
  <2>6. ReadsAreCurrent
    BY <2>4, NothingIsVersions DEF ReadsAreCurrent
  <2>7. server \in [Resources -> Nat \ {0}] /\ announcing \in Nat /\ shown \in Versions
    BY NothingIsVersions DEF ViewInit
  <2> QED
    BY <2>2, <2>3, <2>5, <2>6, <2>7 DEF ViewInv, IdleViewIsCurrent
<1>2. ViewInv => IdleViewIsCurrent
  BY DEF ViewInv
<1> QED
  BY <1>1, <1>2, ViewStep, PTL DEF ViewSpec

-----------------------------------------------------------------------------
(* The chat. *)

SomeAgent   == Agents \cup {NoAgent}
LoadRows    == [of : SomeAgent, answered : BOOLEAN, cancelled : BOOLEAN, turns : Nat]
RunningRows == [at : {"idle", "deciding", "sent", "ran"}, agent : SomeAgent, by : SomeAgent, turns : Nat]

ChatTypes ==
    /\ turns \in [Agents -> Nat]
    /\ selected \in SomeAgent
    /\ loads \in [Loads -> LoadRows]
    /\ \A l \in Loads : loads[l] # NoLoad => loads[l].of \in Agents
    /\ running \in [RunKinds -> RunningRows]
    /\ \A r \in RunKinds : InFlight(r) => running[r].agent \in Agents

(* At most one load may still be shown: the selected agent's. *)
Live(l) == loads[l] # NoLoad /\ ~loads[l].cancelled
OneLiveLoad ==
    \A l \in Loads : Live(l) => loads[l].of = selected /\ loading /\ \A k \in Loads : Live(k) => k = l

LoadsAreFresh ==
    ~strayed => \A l \in Loads : Live(l) /\ loads[l].answered => loads[l].turns = turns[selected]

(* What did not stray runs alone, for the selection it started with, after the *)
(* load; and a prompt is always for the agent that was selected.               *)
OneRun ==
    ~strayed => \A r \in RunKinds : InFlight(r) =>
        /\ ~loading /\ running[r].by = selected
        /\ \A q \in RunKinds : InFlight(q) => q = r
        /\ running[r].at = "ran" => running[r].turns = turns[running[r].agent]
PromptsAreOwn == InFlight("prompt") => running["prompt"].agent = running["prompt"].by

(* The transcript lacks the turn that has run and whose answer is under way. *)
TurnUnderWay == \E r \in RunKinds : running[r].at = "ran" /\ running[r].agent = selected
TurnsShown   == IF TurnUnderWay THEN turns[selected] - 1 ELSE turns[selected]
ShownSoFar ==
    ~strayed /\ known /\ ~loading /\ selected # NoAgent =>
        transcript = Shows(selected, TurnsShown, IF InFlight("prompt") THEN TRUE ELSE FALSE)

ChatInv == ChatTypes /\ OneLiveLoad /\ LoadsAreFresh /\ OneRun /\ PromptsAreOwn /\ ShownSoFar

LEMMA EmptyRows ==
    /\ NoLoad \in LoadRows /\ NoLoad.answered = FALSE
    /\ NoRunning \in RunningRows /\ NoRunning.at = "idle"
  BY DEF NoLoad, LoadRows, NoRunning, RunningRows, SomeAgent

LEMMA SelectKeeps ==
    ASSUME ChatInv, NEW a \in Agents, Select(a)
    PROVE  ChatInv'
<1>1. PICK l \in Loads :
          loads' = [k \in Loads |->
                        IF k = l THEN LoadOf(a)
                        ELSE IF loads[k] = NoLoad THEN NoLoad ELSE [loads[k] EXCEPT !.cancelled = TRUE]]
  BY DEF Select
<1>2. /\ selected' = a /\ UNCHANGED <<turns, running>>
      /\ loading' /\ (~strayed' => Quiet)
  BY DEF Select
<1>3. /\ LoadOf(a) \in LoadRows /\ LoadOf(a).of = a /\ LoadOf(a).answered = FALSE
  BY DEF LoadOf, NoLoad, LoadRows, SomeAgent
<1>4. \A k \in Loads : loads[k] # NoLoad =>
          /\ [loads[k] EXCEPT !.cancelled = TRUE] \in LoadRows
          /\ [loads[k] EXCEPT !.cancelled = TRUE].cancelled = TRUE
          /\ [loads[k] EXCEPT !.cancelled = TRUE].of \in Agents
  BY DEF ChatInv, ChatTypes, LoadRows
<1>5. loads' \in [Loads -> LoadRows] /\ \A k \in Loads : loads'[k] # NoLoad => loads'[k].of \in Agents
  BY <1>1, <1>3, <1>4, EmptyRows
<1>6. \A k \in Loads : Live(k)' => k = l
  BY <1>1, <1>4 DEF Live
<1>7. OneLiveLoad' /\ LoadsAreFresh'
  BY <1>1, <1>2, <1>3, <1>6 DEF OneLiveLoad, LoadsAreFresh
<1>8. ChatTypes'
  BY <1>2, <1>5 DEF ChatInv, ChatTypes, SomeAgent, InFlight
<1>9. OneRun' /\ PromptsAreOwn' /\ ShownSoFar'
  BY <1>2 DEF ChatInv, OneRun, PromptsAreOwn, ShownSoFar, Quiet, InFlight
<1> QED
  BY <1>7, <1>8, <1>9 DEF ChatInv

LEMMA ServerReadsKeeps ==
    ASSUME ChatInv, NEW l \in Loads, ServerReads(l)
    PROVE  ChatInv'
<1> DEFINE row == [loads[l] EXCEPT !.answered = TRUE, !.turns = turns[loads[l].of]]
<1>1. /\ loads[l] # NoLoad /\ loads' = [loads EXCEPT ![l] = row]
      /\ UNCHANGED <<turns, selected, loading, transcript, known, running, strayed>>
  BY DEF ServerReads
<1>2. loads[l] \in LoadRows /\ loads[l].of \in Agents /\ turns[loads[l].of] \in Nat
  BY <1>1 DEF ChatInv, ChatTypes
<1>3. /\ row \in LoadRows /\ row.of = loads[l].of /\ row.cancelled = loads[l].cancelled
      /\ row.turns = turns[loads[l].of]
  BY <1>2 DEF LoadRows
<1> HIDE DEF row
<1>4. /\ loads' \in [Loads -> LoadRows] /\ loads'[l] = row
      /\ \A k \in Loads \ {l} : loads'[k] = loads[k]
  BY <1>1, <1>3 DEF ChatInv, ChatTypes
<1>5. \A k \in Loads : Live(k)' => Live(k)
  BY <1>1, <1>3, <1>4 DEF Live
<1>6. OneLiveLoad'
  BY <1>1, <1>3, <1>4, <1>5 DEF ChatInv, OneLiveLoad
<1>7. LoadsAreFresh'
  <2> SUFFICES ASSUME ~strayed, NEW k \in Loads, Live(k), loads'[k].answered
               PROVE  loads'[k].turns = turns[selected]
    BY <1>1, <1>5 DEF LoadsAreFresh
  <2>1. CASE k = l
    BY <1>3, <1>4, <2>1 DEF ChatInv, OneLiveLoad
  <2>2. CASE k # l
    BY <1>4, <2>2 DEF ChatInv, LoadsAreFresh
  <2> QED
    BY <2>1, <2>2
<1>8. ChatTypes'
  BY <1>1, <1>2, <1>3, <1>4 DEF ChatInv, ChatTypes, InFlight
<1>9. OneRun' /\ PromptsAreOwn' /\ ShownSoFar'
  BY <1>1 DEF ChatInv, OneRun, PromptsAreOwn, ShownSoFar, InFlight, TurnsShown, TurnUnderWay
<1> QED
  BY <1>6, <1>7, <1>8, <1>9 DEF ChatInv

(* A load ends: the others stay as they are. *)
LEMMA LoadEnds ==
    ASSUME ChatInv, NEW l \in Loads, loads[l] # NoLoad, loads' = [loads EXCEPT ![l] = NoLoad],
           UNCHANGED <<turns, selected, running, strayed>>
    PROVE  /\ ChatTypes'
           /\ \A k \in Loads : Live(k)' => Live(k) /\ k # l /\ loads'[k] = loads[k]
<1>1. loads' \in [Loads -> LoadRows] /\ loads'[l] = NoLoad /\ \A k \in Loads \ {l} : loads'[k] = loads[k]
  BY EmptyRows DEF ChatInv, ChatTypes
<1>2. ChatTypes'
  BY <1>1 DEF ChatInv, ChatTypes, InFlight
<1> QED
  BY <1>1, <1>2 DEF Live

LEMMA LoadEndKeeps ==
    ASSUME ChatInv, NEW l \in Loads, Loaded(l) \/ LoadFails(l)
    PROVE  ChatInv'
<1>1. /\ loads[l] # NoLoad /\ loads' = [loads EXCEPT ![l] = NoLoad]
      /\ UNCHANGED <<turns, selected, running, strayed>>
  BY EmptyRows DEF Loaded, LoadFails
<1>2. ChatTypes' /\ \A k \in Loads : Live(k)' => Live(k) /\ k # l /\ loads'[k] = loads[k]
  BY <1>1, LoadEnds
<1>3. PromptsAreOwn'
  BY <1>1 DEF ChatInv, PromptsAreOwn, InFlight
<1>4. LoadsAreFresh'
  BY <1>1, <1>2 DEF ChatInv, LoadsAreFresh
<1>5. CASE loads[l].cancelled
  <2>1. UNCHANGED <<transcript, known, loading>>
    BY <1>5 DEF Loaded, LoadFails, Applies
  <2>2. OneLiveLoad'
    BY <1>1, <1>2, <2>1 DEF ChatInv, OneLiveLoad
  <2>3. OneRun' /\ ShownSoFar'
    BY <1>1, <2>1 DEF ChatInv, OneRun, ShownSoFar, InFlight, TurnsShown, TurnUnderWay
  <2> QED
    BY <1>2, <1>3, <1>4, <2>2, <2>3 DEF ChatInv
<1>6. CASE ~loads[l].cancelled
  <2>1. /\ Live(l) /\ loads[l].of = selected /\ loading
        /\ \A k \in Loads : Live(k) => k = l
    BY <1>1, <1>6 DEF Live, ChatInv, OneLiveLoad
  <2>2. OneLiveLoad'
    BY <1>2, <2>1 DEF OneLiveLoad
  <2>3. ~strayed => Quiet
    BY <2>1 DEF ChatInv, OneRun, Quiet
  <2>4. OneRun'
    BY <1>1, <2>3 DEF OneRun, Quiet, InFlight
  <2>5. ShownSoFar'
    <3>1. CASE LoadFails(l)
      <4>1. ~known'
        BY <1>6, <3>1 DEF LoadFails, Applies
      <4> QED
        BY <4>1 DEF ShownSoFar
    <3>2. CASE Loaded(l)
      <4> SUFFICES ASSUME ~strayed
                   PROVE  transcript' = Shows(selected', TurnsShown', IF InFlight("prompt")' THEN TRUE ELSE FALSE)
        BY <1>1 DEF ShownSoFar
      <4>1. transcript' = Shows(selected, turns[selected], FALSE)
        BY <1>6, <2>1, <3>2 DEF Loaded, Applies, ChatInv, LoadsAreFresh
      <4>2. ~InFlight("prompt")' /\ ~TurnUnderWay'
        BY <1>1, <2>3 DEF Quiet, InFlight, TurnUnderWay, RunKinds
      <4> QED
        BY <1>1, <4>1, <4>2 DEF TurnsShown
    <3> QED
      BY <3>1, <3>2
  <2> QED
    BY <1>2, <1>3, <1>4, <2>2, <2>4, <2>5 DEF ChatInv
<1> QED
  BY <1>5, <1>6

(* Steps of runs leave the loads alone. *)
LEMMA LoadsKept ==
    ASSUME ChatInv, UNCHANGED <<turns, selected, loads, loading>>, strayed' \/ ~strayed
    PROVE  OneLiveLoad' /\ LoadsAreFresh'
  BY DEF ChatInv, OneLiveLoad, LoadsAreFresh, Live

LEMMA StartsKeeps ==
    ASSUME ChatInv, NEW r \in RunKinds, NEW a \in Agents, NEW at \in {"deciding", "sent"},
           Starts(r, a, at), UNCHANGED <<turns, selected, loads, loading, known>>,
           r = "prompt" => a = selected /\ transcript' = [transcript EXCEPT !.waiting = TRUE],
           r # "prompt" => UNCHANGED transcript
    PROVE  ChatInv'
<1> DEFINE row == [at |-> at, agent |-> a, by |-> selected, turns |-> 0]
<1>1. row \in RunningRows
  BY DEF ChatInv, ChatTypes, RunningRows, SomeAgent
<1>2. /\ running' \in [RunKinds -> RunningRows] /\ running'[r] = row
      /\ \A q \in RunKinds \ {r} : running'[q] = running[q]
  BY <1>1 DEF Starts, ChatInv, ChatTypes
<1>3. strayed' \/ (~strayed /\ ~loading /\ Quiet)
  BY DEF Starts
<1>4. ChatTypes'
  BY <1>2 DEF ChatInv, ChatTypes, InFlight
<1>5. PromptsAreOwn'
  BY <1>2 DEF ChatInv, PromptsAreOwn, InFlight, RunKinds
<1>6. OneRun'
  BY <1>2, <1>3 DEF OneRun, Quiet, InFlight
<1>7. ShownSoFar'
  <2> SUFFICES ASSUME ~strayed, ~loading, Quiet, known, selected # NoAgent
               PROVE  transcript' = Shows(selected', TurnsShown', IF InFlight("prompt")' THEN TRUE ELSE FALSE)
    BY <1>3 DEF ShownSoFar
  <2>1. ~TurnUnderWay /\ ~TurnUnderWay'
    BY <1>2 DEF Quiet, InFlight, TurnUnderWay
  <2>2. TurnsShown' = turns[selected]
    BY <2>1 DEF TurnsShown
  <2>3. ~InFlight("prompt")
    BY DEF Quiet, RunKinds
  <2>4. transcript = Shows(selected, turns[selected], FALSE)
    BY <2>1, <2>3 DEF ChatInv, ShownSoFar, TurnsShown
  <2>5. CASE r = "prompt"
    <3>1. InFlight("prompt")'
      BY <1>2, <2>5 DEF InFlight
    <3> QED
      BY <2>2, <2>4, <2>5, <3>1 DEF Shows
  <2>6. CASE r # "prompt"
    <3>1. ~InFlight("prompt")'
      BY <1>2, <2>3, <2>6 DEF InFlight, RunKinds
    <3> QED
      BY <2>2, <2>4, <2>6, <3>1
  <2> QED
    BY <2>5, <2>6
<1> QED
  BY <1>3, <1>4, <1>5, <1>6, <1>7, LoadsKept DEF ChatInv

LEMMA ContinueKeeps ==
    ASSUME ChatInv, ContinueApproved
    PROVE  ChatInv'
<1> DEFINE row == [running["continuation"] EXCEPT !.at = "sent"]
<1>1. /\ running["continuation"].at = "deciding" /\ running' = [running EXCEPT !["continuation"] = row]
      /\ UNCHANGED <<turns, selected, loads, loading, transcript, known, strayed>>
  BY DEF ContinueApproved
<1>2. "continuation" \in RunKinds /\ "prompt" \in RunKinds /\ running["continuation"] \in RunningRows
  BY DEF ChatInv, ChatTypes, RunKinds
<1>3. /\ row \in RunningRows /\ row.at = "sent" /\ row.agent = running["continuation"].agent
      /\ row.by = running["continuation"].by
  BY <1>2 DEF RunningRows
<1> HIDE DEF row
<1>4. /\ running' \in [RunKinds -> RunningRows] /\ running'["continuation"] = row
      /\ running'["prompt"] = running["prompt"]
      /\ \A q \in RunKinds \ {"continuation"} : running'[q] = running[q]
  BY <1>1, <1>2, <1>3 DEF ChatInv, ChatTypes
<1>5. \A q \in RunKinds : (InFlight(q)' <=> InFlight(q)) /\ (running'[q].at = "ran" <=> running[q].at = "ran")
  BY <1>1, <1>3, <1>4 DEF InFlight
<1>6. \A q \in RunKinds : running'[q].agent = running[q].agent /\ running'[q].by = running[q].by
                          /\ (running'[q].at = "ran" => running'[q] = running[q])
  BY <1>1, <1>3, <1>4
<1>7. ChatTypes'
  BY <1>1, <1>4, <1>5, <1>6 DEF ChatInv, ChatTypes
<1>8. OneRun' /\ PromptsAreOwn'
  BY <1>1, <1>2, <1>5, <1>6 DEF ChatInv, OneRun, PromptsAreOwn
<1>9. ShownSoFar'
  <2>1. TurnUnderWay' <=> TurnUnderWay
    BY <1>1, <1>5, <1>6 DEF TurnUnderWay
  <2> QED
    BY <1>1, <1>2, <1>5, <2>1 DEF ChatInv, ShownSoFar, TurnsShown
<1> QED
  BY <1>1, <1>7, <1>8, <1>9, LoadsKept DEF ChatInv

LEMMA ServerRunsKeeps ==
    ASSUME ChatInv, NEW r \in RunKinds, ServerRuns(r)
    PROVE  ChatInv'
<1> DEFINE a == running[r].agent
           row == [running[r] EXCEPT !.at = "ran", !.turns = turns[a] + 1]
<1>1. /\ running[r].at = "sent" /\ turns' = [turns EXCEPT ![a] = @ + 1]
      /\ running' = [running EXCEPT ![r] = row]
      /\ UNCHANGED <<selected, loads, loading, transcript, known, strayed>>
  BY DEF ServerRuns
<1>2. running[r] \in RunningRows /\ a \in Agents /\ turns[a] \in Nat /\ InFlight(r) /\ "prompt" \in RunKinds
  BY <1>1 DEF ChatInv, ChatTypes, InFlight, RunKinds
<1>3. row \in RunningRows /\ row.at = "ran" /\ row.agent = a /\ row.by = running[r].by /\ row.turns = turns[a] + 1
  <2>1. turns[a] + 1 \in Nat
    BY <1>2
  <2> HIDE DEF a
  <2>2. row \in RunningRows
    BY <1>2, <2>1 DEF RunningRows
  <2> QED
    BY <1>2, <2>2 DEF RunningRows, a
<1> HIDE DEF row, a
<1>4. /\ running' \in [RunKinds -> RunningRows] /\ running'[r] = row
      /\ \A q \in RunKinds \ {r} : running'[q] = running[q]
  BY <1>1, <1>3 DEF ChatInv, ChatTypes
<1>5. turns' \in [Agents -> Nat] /\ turns'[a] = turns[a] + 1 /\ \A b \in Agents \ {a} : turns'[b] = turns[b]
  BY <1>1, <1>2 DEF ChatInv, ChatTypes
<1>6. \A q \in RunKinds : (InFlight(q)' <=> InFlight(q)) /\ running'[q].agent = running[q].agent
                          /\ running'[q].by = running[q].by
  BY <1>1, <1>3, <1>4 DEF InFlight, a
<1>7. ChatTypes'
  BY <1>1, <1>4, <1>5, <1>6 DEF ChatInv, ChatTypes
<1>8. PromptsAreOwn'
  BY <1>2, <1>6 DEF ChatInv, PromptsAreOwn
<1>9. OneRun'
  <2> SUFFICES ASSUME ~strayed, NEW q \in RunKinds, InFlight(q)
               PROVE  /\ ~loading /\ running'[q].by = selected
                      /\ \A p \in RunKinds : InFlight(p) => p = q
                      /\ running'[q].at = "ran" => running'[q].turns = turns'[running'[q].agent]
    BY <1>1, <1>6 DEF OneRun
  <2>1. q = r
    BY <1>2 DEF ChatInv, OneRun
  <2> QED
    BY <1>3, <1>4, <1>5, <1>6, <2>1 DEF ChatInv, OneRun
<1>10. ~strayed => ~loading
  BY <1>2 DEF ChatInv, OneRun
<1>11. OneLiveLoad' /\ LoadsAreFresh'
  BY <1>1, <1>10 DEF ChatInv, OneLiveLoad, LoadsAreFresh, Live
<1>12. ShownSoFar'
  <2> SUFFICES ASSUME ~strayed, known, ~loading, selected # NoAgent
               PROVE  transcript = Shows(selected, TurnsShown', IF InFlight("prompt") THEN TRUE ELSE FALSE)
    BY <1>1, <1>2, <1>6 DEF ShownSoFar
  <2>1. \A q \in RunKinds : InFlight(q) => q = r
    BY <1>2 DEF ChatInv, OneRun
  <2>2. ~TurnUnderWay
    BY <1>1, <2>1 DEF TurnUnderWay, InFlight
  <2>3. TurnUnderWay' <=> a = selected
    BY <1>1, <1>3, <1>4, <1>6, <2>1 DEF TurnUnderWay, InFlight, a
  <2>4. selected \in Agents /\ turns[selected] \in Nat
    BY DEF ChatInv, ChatTypes, SomeAgent
  <2>5. TurnsShown' = turns[selected]
    <3>1. CASE a = selected
      BY <1>1, <1>2, <1>5, <2>3, <3>1 DEF TurnsShown
    <3>2. CASE a # selected
      BY <1>1, <1>5, <2>3, <2>4, <3>2 DEF TurnsShown
    <3> QED
      BY <3>1, <3>2
  <2> QED
    BY <2>2, <2>5 DEF ChatInv, ShownSoFar, TurnsShown
<1> QED
  BY <1>7, <1>8, <1>9, <1>11, <1>12 DEF ChatInv

(* A run ends: the other one, if any, goes on. *)
LEMMA EndsKeeps ==
    ASSUME ChatInv, NEW r \in RunKinds, InFlight(r), Ends(r), strayed' \/ (~strayed /\ strayed' = strayed),
           ShownSoFar'
    PROVE  ChatInv'
<1>1. /\ running' \in [RunKinds -> RunningRows] /\ running'[r].at = "idle"
      /\ \A q \in RunKinds \ {r} : running'[q] = running[q]
  BY EmptyRows DEF Ends, ChatInv, ChatTypes
<1>2. UNCHANGED <<turns, selected, loads, loading>>
  BY DEF Ends
<1>3. ChatTypes'
  BY <1>1, <1>2 DEF ChatInv, ChatTypes, InFlight
<1>4. OneRun' /\ PromptsAreOwn'
  BY <1>1, <1>2 DEF ChatInv, OneRun, PromptsAreOwn, InFlight, RunKinds
<1> QED
  BY <1>2, <1>3, <1>4, LoadsKept DEF ChatInv

(* What a run shows when it ends, unless it strayed. *)
LEMMA EndShown ==
    ASSUME ChatInv, NEW r \in RunKinds, InFlight(r), Ends(r), ~strayed, selected # NoAgent,
           transcript' = Shows(selected, turns[selected], FALSE)
    PROVE  transcript' = Shows(selected', TurnsShown', IF InFlight("prompt")' THEN TRUE ELSE FALSE)
<1>1. UNCHANGED <<turns, selected>> /\ \A q \in RunKinds : running'[q].at = "idle"
  BY EmptyRows DEF Ends, ChatInv, ChatTypes, OneRun, InFlight
<1>2. ~TurnUnderWay' /\ ~InFlight("prompt")'
  BY <1>1 DEF TurnUnderWay, InFlight, RunKinds
<1> QED
  BY <1>1, <1>2 DEF TurnsShown

LEMMA EndStepsKeep ==
    ASSUME ChatInv, NEW r \in RunKinds,
           \/ ApplyConversation(r) \/ OnlyReport(r) \/ RunFails(r)
           \/ r = "prompt" /\ AppendReply
           \/ r = "continuation" /\ Denied
    PROVE  ChatInv'
<1>1. Ends(r) /\ InFlight(r) /\ (strayed' \/ strayed' = strayed)
  BY DEF ApplyConversation, OnlyReport, RunFails, AppendReply, Denied, InFlight
<1>2. ASSUME ~strayed', known', ~loading, selected # NoAgent
      PROVE  transcript' = Shows(selected, turns[selected], FALSE)
  <2>1. ~RunFails(r) /\ ~strayed
    <3>1. ~RunFails(r)
      BY <1>2 DEF RunFails
    <3>2. ~strayed
      BY <1>1, <1>2
    <3> QED
      BY <3>1, <3>2
  <2>2. /\ running[r].by = selected /\ \A q \in RunKinds : InFlight(q) => q = r
        /\ running[r].at = "ran" => running[r].turns = turns[running[r].agent]
    BY <1>1, <2>1 DEF ChatInv, OneRun
  <2>3. CASE ApplyConversation(r)
    BY <2>2, <2>3 DEF ApplyConversation, ForTranscript
  <2>4. ASSUME known PROVE transcript = Shows(selected, TurnsShown, IF InFlight("prompt") THEN TRUE ELSE FALSE)
    BY <1>2, <2>1, <2>4 DEF ChatInv, ShownSoFar
  <2>5. CASE OnlyReport(r)
    <3>1. ~TurnUnderWay
      BY <2>2, <2>5 DEF OnlyReport, ForTranscript, TurnUnderWay, InFlight
    <3>2. r # "prompt"
      BY <1>1, <2>5 DEF OnlyReport, ForTranscript, ChatInv, PromptsAreOwn
    <3>3. ~InFlight("prompt")
      BY <2>2, <3>2 DEF RunKinds
    <3>4. known /\ transcript' = transcript
      BY <1>2, <2>5 DEF OnlyReport
    <3> QED
      BY <2>4, <3>1, <3>3, <3>4 DEF TurnsShown
  <2>6. CASE r = "prompt" /\ AppendReply
    <3>1. running[r].agent = selected /\ running[r].at = "ran"
      BY <1>1, <2>2, <2>6 DEF AppendReply, ChatInv, PromptsAreOwn
    <3>2. TurnUnderWay
      BY <3>1 DEF TurnUnderWay
    <3>3. known /\ transcript' = Shows(transcript.of, transcript.turns + 1, FALSE)
      BY <1>2, <2>6 DEF AppendReply
    <3>4. transcript.of = selected /\ transcript.turns = turns[selected] - 1
      BY <2>4, <3>2, <3>3 DEF TurnsShown, Shows
    <3>5. turns[selected] \in Nat
      BY <1>1, <3>1 DEF ChatInv, ChatTypes
    <3>6. transcript.turns + 1 = turns[selected]
      BY <3>4, <3>5
    <3> QED
      BY <3>3, <3>4, <3>6
  <2>7. CASE r = "continuation" /\ Denied
    <3>1. ~TurnUnderWay
      BY <2>2, <2>7 DEF Denied, TurnUnderWay, InFlight
    <3>2. ~InFlight("prompt")
      BY <2>2, <2>7 DEF RunKinds
    <3>3. known /\ transcript' = transcript
      BY <1>2, <2>7 DEF Denied
    <3> QED
      BY <2>4, <3>1, <3>2, <3>3 DEF TurnsShown
  <2> QED
    BY <2>1, <2>3, <2>5, <2>6, <2>7
<1>3. UNCHANGED <<turns, selected, loading>>
  BY <1>1 DEF Ends
<1>4. strayed' \/ (~strayed /\ strayed' = strayed)
  BY <1>1
<1>5. ShownSoFar'
  BY <1>1, <1>2, <1>3, <1>4, EndShown DEF ShownSoFar
<1> QED
  BY <1>1, <1>4, <1>5, EndsKeeps

LEMMA ChatStep == ChatInv /\ [ChatNext]_chatVars => ChatInv'
<1> SUFFICES ASSUME ChatInv, [ChatNext]_chatVars PROVE ChatInv'
  OBVIOUS
<1>0. "prompt" \in RunKinds /\ "continuation" \in RunKinds
  BY DEF RunKinds
<1>1. CASE UNCHANGED chatVars
  BY <1>1 DEF chatVars, ChatInv, ChatTypes, OneLiveLoad, LoadsAreFresh, OneRun, PromptsAreOwn,
         ShownSoFar, Live, InFlight, TurnsShown, TurnUnderWay
<1>2. CASE Submit
  <2>1. /\ selected \in Agents /\ Starts("prompt", selected, "sent")
        /\ UNCHANGED <<turns, selected, loads, loading, known>>
        /\ transcript' = [transcript EXCEPT !.waiting = TRUE]
    BY <1>2 DEF Submit, ChatInv, ChatTypes, SomeAgent
  <2> QED
    BY <1>0, <2>1, StartsKeeps
<1>3. ASSUME NEW a \in Agents, Decide(a) PROVE ChatInv'
  BY <1>0, <1>3, StartsKeeps DEF Decide
<1> QED
  BY <1>0, <1>1, <1>2, <1>3, SelectKeeps, ServerReadsKeeps, LoadEndKeeps, ContinueKeeps,
     ServerRunsKeeps, EndStepsKeep DEF ChatNext

(* However the user switches agents while loads, prompts and continuations are  *)
(* under way, a quiet transcript is the selected agent's conversation.          *)
THEOREM TranscriptIsConversation == ChatSpec => []ConversationIsShown
<1>1. ChatInit => ChatInv
  <2> SUFFICES ASSUME ChatInit PROVE ChatInv
    OBVIOUS
  <2>1. loads \in [Loads -> LoadRows] /\ \A l \in Loads : loads[l] = NoLoad
    BY EmptyRows DEF ChatInit
  <2>2. running \in [RunKinds -> RunningRows] /\ \A r \in RunKinds : running[r].at = "idle"
    BY EmptyRows DEF ChatInit
  <2>3. turns \in [Agents -> Nat] /\ selected \in SomeAgent /\ selected = NoAgent
    BY DEF ChatInit, SomeAgent
  <2>4. "prompt" \in RunKinds
    BY DEF RunKinds
  <2> QED
    BY <2>1, <2>2, <2>3, <2>4 DEF ChatInv, ChatTypes, OneLiveLoad, LoadsAreFresh, OneRun,
       PromptsAreOwn, ShownSoFar, Live, InFlight
<1>2. ChatInv => ConversationIsShown
  <2> SUFFICES ASSUME ChatInv, selected # NoAgent, ~loading, Quiet, known, ~strayed
               PROVE  transcript = Shows(selected, turns[selected], FALSE)
    BY DEF ConversationIsShown
  <2>1. ~InFlight("prompt") /\ ~TurnUnderWay
    BY DEF Quiet, InFlight, TurnUnderWay, RunKinds
  <2> QED
    BY <2>1 DEF ChatInv, ShownSoFar, TurnsShown
<1> QED
  BY <1>1, <1>2, ChatStep, PTL DEF ChatSpec

-----------------------------------------------------------------------------
(* Clearances of the vault. *)

TicketStates == Terms \cup {"free", "lapsed", "gone"}
GrantRows    == [at : {"rest", "find", "update", "create", "renew", "delete"},
                 row : Tickets \cup {NoTicket}, want : Terms, scope : Scopes]
SearchStages == {"rest", "list", "connection", "clearance", "read"}
SearchRows   == [at : SearchStages, aim : Scopes]

ClearanceTypeOK ==
    /\ clearance \in [Tickets -> TicketStates]
    /\ granting \in [Grants -> GrantRows]
    /\ searching \in [Searches -> SearchRows]
    /\ decided \in [Scopes -> Tickets \cup {NoTicket}]
    /\ doubled \in [Scopes -> BOOLEAN]
    /\ seen \in [Searches -> SUBSET (Scopes \cup {"connection"})]

(* Without doubles the only row of a kind is the one of the latest decision. *)
OneHeld == \A k \in Scopes : ~doubled[k] => HeldFor(k) \subseteq {decided[k]}

(* A request that found a row found one of its kind. *)
RowsFit == \A g \in Grants : granting[g].at = "update" =>
              granting[g].row \in Tickets /\ granting[g].row[1] = granting[g].scope

(* What a search has passed it has seen in force. *)
SeenFor(s, k) == k \in seen[s] \/ Null \in seen[s]
HasSeen(s) ==
    /\ searching[s].at \in {"clearance", "read"} => "connection" \in seen[s]
    /\ searching[s].at = "read" /\ searching[s].aim # Null => SeenFor(s, searching[s].aim)
    /\ searching[s].at = "read" /\ searching[s].aim = Null => \E k \in Scopes : k \in seen[s]

ClearanceInv == ClearanceTypeOK /\ OneHeld /\ RowsFit /\ \A s \in Searches : HasSeen(s)

LEMMA ScopesOfRows == ASSUME NEW t \in Tickets PROVE t[1] \in Scopes
  BY DEF Tickets

LEMMA NullIsScope == Null \in Scopes
  BY DEF Scopes

LEMMA RestingIsRow == Resting \in GrantRows /\ Calm \in SearchRows
  BY NullIsScope DEF Resting, GrantRows, Terms, Calm, SearchRows, SearchStages

LEMMA InForceType == InForce \subseteq Scopes \cup {"connection"}
  BY DEF InForce

(* The record grows while a search is under way. *)
LEMMA WitnessGrows ==
    ASSUME Witness, NEW s \in Searches, searching'[s].at # "rest"
    PROVE  (\A what \in seen[s] : what \in seen'[s]) /\ \A what \in InForce' : what \in seen'[s]
  BY DEF Witness

LEMMA WitnessType ==
    ASSUME ClearanceInv, Witness PROVE seen' \in [Searches -> SUBSET (Scopes \cup {"connection"})]
<1>1. InForce' \subseteq Scopes \cup {"connection"}
  BY DEF InForce
<1> QED
  BY <1>1 DEF Witness, ClearanceInv, ClearanceTypeOK

(* A search that stays where it is keeps what it has seen. *)
LEMMA SearchKept ==
    ASSUME ClearanceInv, Witness, NEW s \in Searches, searching'[s] = searching[s]
    PROVE  HasSeen(s)'
<1>1. HasSeen(s)
  BY DEF ClearanceInv
<1>2. CASE searching'[s].at = "rest"
  BY <1>2 DEF HasSeen
<1>3. CASE searching'[s].at # "rest"
  BY <1>1, <1>3, WitnessGrows DEF HasSeen, SeenFor
<1> QED
  BY <1>2, <1>3

(* Steps of the user and of time: what is held stays what was decided. *)
LEMMA RowStepKeeps ==
    ASSUME ClearanceInv, Witness, searching' = searching,
           clearance' \in [Tickets -> TicketStates], granting' \in [Grants -> GrantRows],
           decided' \in [Scopes -> Tickets \cup {NoTicket}], doubled' \in [Scopes -> BOOLEAN],
           OneHeld', RowsFit'
    PROVE  ClearanceInv'
  BY WitnessType, SearchKept DEF ClearanceInv, ClearanceTypeOK

(* A request goes on with no row, or with one of its kind, or is answered. *)
LEMMA StepIsRow ==
    ASSUME ClearanceInv, NEW g \in Grants,
           NEW at \in {"rest", "find", "update", "create", "renew", "delete"},
           NEW row \in Tickets \cup {NoTicket}, Step(g, at, row),
           at = "update" => row \in Tickets /\ row[1] = granting[g].scope
    PROVE  granting' \in [Grants -> GrantRows] /\ RowsFit'
<1>1. granting \in [Grants -> GrantRows] /\ RowsFit
  BY DEF ClearanceInv, ClearanceTypeOK
<1>2. granting' = [granting EXCEPT ![g] = [granting[g] EXCEPT !.at = at, !.row = row]]
  BY DEF Step
<1>3. DEFINE e == [granting[g] EXCEPT !.at = at, !.row = row]
<1>4. e \in GrantRows /\ e.at = at /\ e.row = row /\ e.scope = granting[g].scope
  BY <1>1 DEF GrantRows
<1> HIDE DEF e
<1>5. granting'[g] = e /\ \A h \in Grants \ {g} : granting'[h] = granting[h]
  BY <1>1, <1>2 DEF e
<1>6. granting' \in [Grants -> GrantRows]
  BY <1>1, <1>2, <1>4 DEF e
<1>7. RowsFit'
  BY <1>1, <1>4, <1>5 DEF RowsFit
<1> QED
  BY <1>6, <1>7

LEMMA FreshIsRow ==
    ASSUME ClearanceInv, NEW g \in Grants, NEW e \in GrantRows, e.at # "update",
           granting' = [granting EXCEPT ![g] = e]
    PROVE  granting' \in [Grants -> GrantRows] /\ RowsFit'
  BY DEF ClearanceInv, ClearanceTypeOK, RowsFit

LEMMA AnswerIsRow ==
    ASSUME ClearanceInv, NEW g \in Grants, Answer(g)
    PROVE  granting' \in [Grants -> GrantRows] /\ RowsFit'
  BY RestingIsRow, FreshIsRow DEF Answer, Resting

LEMMA DropKeeps ==
    ASSUME ClearanceInv, NEW those \in SUBSET Tickets, Drop(those),
           NEW scopes \in SUBSET Scopes, \A k \in scopes : HeldFor(k) \subseteq those,
           decided' = [k \in Scopes |-> IF k \in scopes THEN NoTicket ELSE decided[k]],
           doubled' = [k \in Scopes |-> IF k \in scopes THEN FALSE ELSE doubled[k]]
    PROVE  /\ clearance' \in [Tickets -> TicketStates] /\ decided' \in [Scopes -> Tickets \cup {NoTicket}]
           /\ doubled' \in [Scopes -> BOOLEAN] /\ OneHeld'
<1>1. /\ clearance \in [Tickets -> TicketStates] /\ OneHeld
      /\ decided \in [Scopes -> Tickets \cup {NoTicket}] /\ doubled \in [Scopes -> BOOLEAN]
  BY DEF ClearanceInv, ClearanceTypeOK
<1>2. clearance' \in [Tickets -> TicketStates]
      /\ \A t \in Tickets : clearance'[t] = IF t \in those THEN "gone" ELSE clearance[t]
  BY <1>1 DEF Drop, TicketStates
<1>3. \A k \in Scopes : HeldFor(k)' \subseteq HeldFor(k) \ those
  BY <1>2 DEF HeldFor, Held, Terms
<1>4. OneHeld'
  BY <1>1, <1>3 DEF OneHeld
<1> QED
  BY <1>1, <1>2, <1>4

(* One row of a kind gets the latest decision on it. *)
LEMMA RowWriteKeeps ==
    ASSUME ClearanceInv, NEW k \in Scopes, NEW t \in Tickets, t[1] = k, NEW want \in Terms,
           clearance' = [clearance EXCEPT ![t] = want], decided' = [decided EXCEPT ![k] = t],
           NEW d \in BOOLEAN, doubled' = [doubled EXCEPT ![k] = d],
           d \/ HeldFor(k) \subseteq {t}
    PROVE  /\ clearance' \in [Tickets -> TicketStates] /\ decided' \in [Scopes -> Tickets \cup {NoTicket}]
           /\ doubled' \in [Scopes -> BOOLEAN] /\ OneHeld'
<1>1. /\ clearance \in [Tickets -> TicketStates] /\ OneHeld
      /\ decided \in [Scopes -> Tickets \cup {NoTicket}] /\ doubled \in [Scopes -> BOOLEAN]
  BY DEF ClearanceInv, ClearanceTypeOK
<1>2. clearance' \in [Tickets -> TicketStates]
      /\ \A u \in Tickets : clearance'[u] = IF u = t THEN want ELSE clearance[u]
  BY <1>1 DEF TicketStates
<1>3. \A l \in Scopes \ {k} : HeldFor(l)' \subseteq HeldFor(l)
  BY <1>2 DEF HeldFor, Held
<1>4. HeldFor(k)' \subseteq HeldFor(k) \cup {t}
  BY <1>2 DEF HeldFor, Held
<1>5. /\ decided'[k] = t /\ doubled'[k] = d
      /\ \A l \in Scopes \ {k} : decided'[l] = decided[l] /\ doubled'[l] = doubled[l]
  BY <1>1
<1>6. OneHeld'
  BY <1>1, <1>3, <1>4, <1>5 DEF OneHeld
<1> QED
  BY <1>1, <1>2, <1>6

(* A search goes on: what it passes now is in force now. *)
LEMMA MoveKeeps ==
    ASSUME ClearanceInv, Witness, NEW s \in Searches, NEW from \in SearchStages, NEW to \in SearchStages,
           NEW aim \in Scopes, MoveOn(s, from, to, aim),
           to \in {"clearance", "read"} => from \in {"connection", "clearance"},
           from = "connection" /\ to \in {"clearance", "read"} => connection = "live",
           to = "read" /\ aim # Null => from = "clearance" /\ (Cleared(aim) \/ Cleared(Null)),
           to = "read" /\ aim = Null => from = "clearance" /\ \E k \in Scopes : Cleared(k)
    PROVE  ClearanceInv'
<1>1. UNCHANGED <<clearance, connection, granting, decided, doubled>>
      /\ searching[s].at = from /\ searching' = [searching EXCEPT ![s] = [at |-> to, aim |-> aim]]
  BY DEF MoveOn
<1>2. [at |-> to, aim |-> aim] \in SearchRows
  BY DEF SearchRows
<1>3. searching' \in [Searches -> SearchRows] /\ searching'[s].at = to /\ searching'[s].aim = aim
      /\ \A r \in Searches \ {s} : searching'[r] = searching[r]
  BY <1>1, <1>2 DEF ClearanceInv, ClearanceTypeOK
<1>4. InForce' = InForce
  BY <1>1 DEF InForce, Cleared, Valid
<1>5. \A r \in Searches \ {s} : HasSeen(r)'
  BY <1>3, SearchKept
<1>6. HasSeen(s)'
  <2>1. to # "rest" => (\A what \in seen[s] : what \in seen'[s]) /\ \A what \in InForce : what \in seen'[s]
    BY <1>3, <1>4, WitnessGrows
  <2>2. connection = "live" => "connection" \in InForce
    BY DEF InForce
  <2>3. \A k \in Scopes : Cleared(k) => k \in InForce
    BY DEF InForce
  <2>4. from = "clearance" => "connection" \in seen[s]
    BY <1>1 DEF ClearanceInv, HasSeen
  <2>5. to \in {"clearance", "read"} => "connection" \in seen'[s]
    BY <2>1, <2>2, <2>4
  <2>6. to = "read" /\ aim # Null => aim \in seen'[s] \/ Null \in seen'[s]
    BY <2>1, <2>3, NullIsScope
  <2>7. to = "read" /\ aim = Null => \E k \in Scopes : k \in seen'[s]
    BY <2>1, <2>3
  <2> QED
    BY <1>3, <2>5, <2>6, <2>7 DEF HasSeen, SeenFor
<1>7. OneHeld' /\ RowsFit'
  BY <1>1 DEF ClearanceInv, OneHeld, RowsFit, HeldFor, Held
<1> QED
  BY <1>1, <1>3, <1>5, <1>6, <1>7, WitnessType DEF ClearanceInv, ClearanceTypeOK

LEMMA ClearanceStepKeeps == ClearanceInv /\ [ClearanceNext]_clearanceVars => ClearanceInv'
<1> SUFFICES ASSUME ClearanceInv, [ClearanceNext]_clearanceVars PROVE ClearanceInv'
  OBVIOUS
<1>0. /\ clearance \in [Tickets -> TicketStates] /\ granting \in [Grants -> GrantRows]
      /\ searching \in [Searches -> SearchRows] /\ decided \in [Scopes -> Tickets \cup {NoTicket}]
      /\ doubled \in [Scopes -> BOOLEAN] /\ OneHeld /\ RowsFit
  BY DEF ClearanceInv, ClearanceTypeOK
<1>1. CASE UNCHANGED clearanceVars
  BY <1>1 DEF clearanceVars, ClearanceInv, ClearanceTypeOK, OneHeld, RowsFit, HeldFor, Held, HasSeen, SeenFor
<1>2. ASSUME ClearanceNext, UNCHANGED <<clearance, decided, doubled, searching>>,
             granting' \in [Grants -> GrantRows], RowsFit'
      PROVE  ClearanceInv'
  <2>1. OneHeld'
    BY <1>0, <1>2 DEF OneHeld, HeldFor, Held
  <2> QED
    BY <1>0, <1>2, <2>1, RowStepKeeps DEF ClearanceNext
<1>3. ASSUME ClearanceNext, NEW g \in Grants, NEW want \in Terms, NEW at \in {"find", "delete"},
             NEW k \in Scopes, AskForChange(g, at, want, k)
      PROVE  ClearanceInv'
  <2>1. [at |-> at, row |-> NoTicket, want |-> want, scope |-> k] \in GrantRows
    BY DEF GrantRows
  <2>2. granting' \in [Grants -> GrantRows] /\ RowsFit'
    BY <1>3, <2>1, FreshIsRow DEF AskForChange
  <2> QED
    BY <1>2, <1>3, <2>2 DEF AskForChange
<1>4. ASSUME ClearanceNext, NEW g \in Grants, FindExisting(g) PROVE ClearanceInv'
  <2>1. CASE Step(g, "create", NoTicket)
    BY <1>2, <1>4, <2>1, StepIsRow DEF FindExisting
  <2>2. ASSUME NEW t \in HeldFor(granting[g].scope), Step(g, "update", t) PROVE ClearanceInv'
    <3>1. t \in Tickets /\ t[1] = granting[g].scope
      BY DEF HeldFor, Held
    <3>2. granting' \in [Grants -> GrantRows] /\ RowsFit'
      BY <2>2, <3>1, StepIsRow
    <3> QED
      BY <1>2, <1>4, <3>2 DEF FindExisting
  <2> QED
    BY <1>4, <2>1, <2>2 DEF FindExisting
<1>5. ASSUME ClearanceNext, NEW g \in Grants, UpdateClearance(g) PROVE ClearanceInv'
  <2> DEFINE t == granting[g].row
             k == granting[g].scope
  <2>1. t \in Held /\ t \in Tickets /\ t[1] = k /\ k \in Scopes /\ granting[g].want \in Terms
    BY <1>0, <1>5 DEF UpdateClearance, Held, GrantRows, RowsFit
  <2>2. /\ clearance' = [clearance EXCEPT ![t] = granting[g].want] /\ decided' = [decided EXCEPT ![k] = t]
        /\ doubled' = [doubled EXCEPT ![k] = doubled[k]] /\ searching' = searching
    BY <1>0, <1>5 DEF UpdateClearance
  <2>3. doubled[k] \/ HeldFor(k) \subseteq {t}
    BY <1>0, <2>1 DEF OneHeld, HeldFor
  <2>4. doubled[k] \in BOOLEAN
    BY <1>0, <2>1
  <2>5. /\ clearance' \in [Tickets -> TicketStates] /\ decided' \in [Scopes -> Tickets \cup {NoTicket}]
        /\ doubled' \in [Scopes -> BOOLEAN] /\ OneHeld'
    BY <2>1, <2>2, <2>3, <2>4, RowWriteKeeps
  <2>6. granting' \in [Grants -> GrantRows] /\ RowsFit'
    BY <1>5, StepIsRow DEF UpdateClearance
  <2> QED
    BY <1>5, <2>2, <2>5, <2>6, RowStepKeeps DEF ClearanceNext
<1>6. ASSUME ClearanceNext, NEW g \in Grants, CreateClearance(g) PROVE ClearanceInv'
  <2> DEFINE k == granting[g].scope
  <2>1. k \in Scopes /\ granting[g].want \in Terms
    BY <1>0 DEF GrantRows
  <2>2. PICK t \in Tickets : /\ t[1] = k
                             /\ clearance' = [clearance EXCEPT ![t] = granting[g].want]
                             /\ decided' = [decided EXCEPT ![k] = t]
    BY <1>6 DEF CreateClearance
  <2> DEFINE d == doubled[k] \/ HeldFor(k) # {}
  <2>3. doubled' = [doubled EXCEPT ![k] = d] /\ searching' = searching
    BY <1>6 DEF CreateClearance
  <2>4. d \in BOOLEAN /\ (d \/ HeldFor(k) \subseteq {t})
    BY <1>0, <2>1
  <2> HIDE DEF d
  <2>5. /\ clearance' \in [Tickets -> TicketStates] /\ decided' \in [Scopes -> Tickets \cup {NoTicket}]
        /\ doubled' \in [Scopes -> BOOLEAN] /\ OneHeld'
    BY <2>1, <2>2, <2>3, <2>4, RowWriteKeeps
  <2>6. granting' \in [Grants -> GrantRows] /\ RowsFit'
    BY <1>6, StepIsRow DEF CreateClearance
  <2> QED
    BY <1>6, <2>3, <2>5, <2>6, RowStepKeeps DEF ClearanceNext
<1>7. ASSUME ClearanceNext, NEW g \in Grants, RenewConnection(g) \/ RequestFails(g) PROVE ClearanceInv'
  <2>1. granting' \in [Grants -> GrantRows] /\ RowsFit'
    BY <1>7, AnswerIsRow DEF RenewConnection, RequestFails
  <2> QED
    BY <1>2, <1>7, <2>1 DEF RenewConnection, RequestFails
<1>8. ASSUME ClearanceNext, NEW g \in Grants, Revoke(g) PROVE ClearanceInv'
  <2> DEFINE k == granting[g].scope
             scopes == {k}
  <2>1. k \in Scopes /\ scopes \in SUBSET Scopes
    BY <1>0 DEF GrantRows
  <2>2. HeldFor(k) \in SUBSET Tickets
    BY DEF HeldFor, Held
  <2>3. /\ decided' = [l \in Scopes |-> IF l \in scopes THEN NoTicket ELSE decided[l]]
        /\ doubled' = [l \in Scopes |-> IF l \in scopes THEN FALSE ELSE doubled[l]]
        /\ Drop(HeldFor(k)) /\ searching' = searching
    BY <1>0, <1>8 DEF Revoke
  <2>4. \A l \in scopes : HeldFor(l) \subseteq HeldFor(k)
    OBVIOUS
  <2> HIDE DEF scopes
  <2>5. /\ clearance' \in [Tickets -> TicketStates] /\ decided' \in [Scopes -> Tickets \cup {NoTicket}]
        /\ doubled' \in [Scopes -> BOOLEAN] /\ OneHeld'
    BY <2>1, <2>2, <2>3, <2>4, DropKeeps
  <2>6. granting' \in [Grants -> GrantRows] /\ RowsFit'
    BY <1>8, AnswerIsRow DEF Revoke
  <2> QED
    BY <1>8, <2>3, <2>5, <2>6, RowStepKeeps DEF ClearanceNext
<1>9. ASSUME ClearanceNext, RemoveAgent PROVE ClearanceInv'
  <2>1. Held \in SUBSET Tickets /\ \A k \in Scopes : HeldFor(k) \subseteq Held
    BY DEF HeldFor, Held
  <2>2. /\ decided' = [l \in Scopes |-> IF l \in Scopes THEN NoTicket ELSE decided[l]]
        /\ doubled' = [l \in Scopes |-> IF l \in Scopes THEN FALSE ELSE doubled[l]]
        /\ Drop(Held) /\ searching' = searching /\ granting' = granting
    BY <1>9 DEF RemoveAgent
  <2>3. /\ clearance' \in [Tickets -> TicketStates] /\ decided' \in [Scopes -> Tickets \cup {NoTicket}]
        /\ doubled' \in [Scopes -> BOOLEAN] /\ OneHeld'
    BY <2>1, <2>2, DropKeeps
  <2>4. granting' \in [Grants -> GrantRows] /\ RowsFit'
    BY <1>0, <2>2 DEF RowsFit
  <2> QED
    BY <1>9, <2>2, <2>3, <2>4, RowStepKeeps DEF ClearanceNext
<1>10. ASSUME ClearanceNext, NEW t \in Tickets, ClearanceLapses(t) PROVE ClearanceInv'
  <2>1. clearance' \in [Tickets -> TicketStates] /\ clearance[t] \in Terms
        /\ \A u \in Tickets : clearance'[u] = IF u = t THEN "lapsed" ELSE clearance[u]
    BY <1>0, <1>10 DEF ClearanceLapses, TicketStates, Terms
  <2>2. \A k \in Scopes : HeldFor(k)' \subseteq HeldFor(k)
    BY <2>1 DEF HeldFor, Held
  <2>3. OneHeld' /\ RowsFit'
    BY <1>0, <1>10, <2>2 DEF ClearanceLapses, OneHeld, RowsFit
  <2> QED
    BY <1>0, <1>10, <2>1, <2>3, RowStepKeeps DEF ClearanceNext, ClearanceLapses
<1>11. ASSUME ClearanceNext, ConnectionLapses PROVE ClearanceInv'
  <2>1. RowsFit'
    BY <1>0, <1>11 DEF ConnectionLapses, RowsFit
  <2> QED
    BY <1>0, <1>2, <1>11, <2>1 DEF ConnectionLapses
<1>12. ASSUME ClearanceNext, NEW s \in Searches,
              StartSearch(s) \/ ListClearances(s) \/ JudgeConnection(s) \/ ReadNotes(s)
       PROVE  ClearanceInv'
  <2>1. "rest" \in SearchStages /\ "list" \in SearchStages /\ "connection" \in SearchStages
        /\ "clearance" \in SearchStages /\ "read" \in SearchStages
    BY DEF SearchStages
  <2>2. searching[s].aim \in Scopes /\ Null \in Scopes /\ Kinds \subseteq Scopes
    BY <1>0 DEF SearchRows, Scopes
  <2>3. \/ \E aim \in Scopes : \/ MoveOn(s, "rest", "list", aim) \/ MoveOn(s, "rest", "connection", aim)
                               \/ MoveOn(s, "list", "connection", aim) \/ MoveOn(s, "list", "rest", aim)
                               \/ MoveOn(s, "connection", "rest", aim) \/ MoveOn(s, "read", "rest", aim)
        \/ \E aim \in Scopes : connection = "live" /\ MoveOn(s, "connection", "clearance", aim)
    BY <1>12, <2>2 DEF StartSearch, ListClearances, JudgeConnection, ReadNotes, Proceed, Finish
  <2>4. Witness
    BY <1>12 DEF ClearanceNext
  <2> QED
    BY <2>1, <2>3, <2>4, MoveKeeps
<1>13. ASSUME ClearanceNext, NEW s \in Searches, JudgeClearance(s) PROVE ClearanceInv'
  <2> DEFINE aim == searching[s].aim
  <2>1. "rest" \in SearchStages /\ "clearance" \in SearchStages /\ "read" \in SearchStages /\ Witness
    BY <1>13 DEF SearchStages, ClearanceNext
  <2>2. aim \in Scopes /\ Null \in Scopes
    BY <1>0 DEF SearchRows, Scopes
  <2>3. CASE MoveOn(s, "clearance", "rest", Null)
    BY <2>1, <2>2, <2>3, MoveKeeps
  <2>4. ASSUME NEW t \in Held, aim # Null => t[1] \in {aim, Null}, Valid(t),
               MoveOn(s, "clearance", "read", aim)
        PROVE  ClearanceInv'
    <3>1. t \in Tickets /\ t[1] \in Scopes
      BY ScopesOfRows DEF Held
    <3>2. Cleared(t[1])
      BY <1>0, <2>4, <3>1, TicketAssumption DEF OneHeld, HeldFor, Cleared
    <3> QED
      BY <2>1, <2>2, <2>4, <3>1, <3>2, MoveKeeps
  <2>5. \/ MoveOn(s, "clearance", "rest", Null)
        \/ \E t \in Held : (aim # Null => t[1] \in {aim, Null}) /\ Valid(t) /\ MoveOn(s, "clearance", "read", aim)
    BY <1>13 DEF JudgeClearance, Matching, HeldFor, Proceed, Finish
  <2> QED
    BY <2>3, <2>4, <2>5
<1>14. "open" \in Terms
  BY DEF Terms
<1> QED
  BY <1>1, <1>3, <1>4, <1>5, <1>6, <1>7, <1>8, <1>9, <1>10, <1>11, <1>12, <1>13, <1>14
  DEF ClearanceNext, ClearanceStep

(* For any number of kinds, grants, revocations, rows and searches in flight, a  *)
(* search reads a kind only under a clearance for it, or for no kind, that was   *)
(* in force during the search; one of an unknown kind under any that was.        *)
THEOREM ReadsAreCleared == ClearanceSpec => []ReadIsCleared
<1>1. ClearanceInit => ClearanceInv
  <2> SUFFICES ASSUME ClearanceInit PROVE ClearanceInv
    OBVIOUS
  <2>1. ClearanceTypeOK
    BY RestingIsRow DEF ClearanceInit, ClearanceTypeOK, TicketStates, SearchStages
  <2>2. OneHeld /\ RowsFit
    BY DEF ClearanceInit, OneHeld, HeldFor, Held, Terms, RowsFit, Resting
  <2>3. \A s \in Searches : searching[s].at = "rest"
    BY DEF ClearanceInit, Calm
  <2> QED
    BY <2>1, <2>2, <2>3 DEF ClearanceInv, HasSeen
<1>2. ClearanceInv => ReadIsCleared
  BY TicketAssumption DEF ClearanceInv, ClearanceTypeOK, ReadIsCleared, HasSeen, SeenFor, Allows, SearchRows, Scopes
<1> QED
  BY <1>1, <1>2, ClearanceStepKeeps, PTL DEF ClearanceSpec

-----------------------------------------------------------------------------
(* Models of the desktop. *)

FileNames   == Files \cup {NoFile}
Qualities   == {"hole", "good", "bad"}
InstallRows == [at : {"none", "fetch", "write", "restart"}, file : FileNames, received : Nat, checksum : {"good", "bad"}]

ModelTypeOK ==
    /\ stored \in [Files -> [1..Chunks -> Qualities]]
    /\ partial \in FileNames /\ target \in FileNames /\ loaded \in FileNames
    /\ installs \in [Installs -> InstallRows]
    /\ mixed \subseteq Files

NamesApart == partial # NoFile => partial # target /\ partial # loaded

(* An installation that shares its file with nobody has it to itself, and what *)
(* it received and found right is what the file has.                           *)
OwnsFile(i) ==
    LET f == installs[i].file
    IN  installs[i].at = "write" =>
            /\ f \in Files
            /\ f \notin mixed =>
                 /\ f # target /\ f # loaded
                 /\ \A j \in Installs : Writing(j, f) => j = i
                 /\ installs[i].checksum = "good" => \A k \in 1..Chunks : k <= installs[i].received => stored[f][k] = "good"

NothingReceived == \A i \in Installs : installs[i].at = "fetch" => installs[i].received = 0

ModelInv ==
    /\ ModelTypeOK
    /\ NothingReceived
    /\ NamesApart
    /\ \A i \in Installs : OwnsFile(i)
    /\ WeightsAreVerified

LEMMA NoInstallIsRow == NoInstall \in InstallRows /\ NoInstall.at = "none"
  BY DEF NoInstall, InstallRows, FileNames

LEMMA BlankIsFile == Blank \in [1..Chunks -> Qualities]
  BY DEF Blank, Qualities

(* Steps after which fewer write and fewer names are given. *)
LEMMA FewerKeeps ==
    ASSUME ModelInv, stored' = stored, mixed' = mixed,
           partial' \in {partial, NoFile}, target' \in {target, NoFile},
           loaded' \in {loaded, NoFile, target},
           installs' \in [Installs -> InstallRows],
           \A i \in Installs : installs'[i] = installs[i]
              \/ (installs'[i].at # "write" /\ (installs'[i].at = "fetch" => installs'[i].received = 0))
    PROVE  ModelInv'
<1>0. NoFile \notin Files
  BY FilesAssumption
<1>1. ModelTypeOK' /\ NamesApart'
  BY DEF ModelInv, ModelTypeOK, NamesApart, FileNames
<1>5. NothingReceived'
  BY DEF ModelInv, NothingReceived
<1>2. \A i \in Installs, f \in Files : Writing(i, f)' => Writing(i, f)
  BY DEF Writing
<1>3. ASSUME NEW i \in Installs PROVE OwnsFile(i)'
  BY <1>0, <1>2 DEF ModelInv, OwnsFile
<1>4. WeightsAreVerified'
  BY <1>0 DEF ModelInv, WeightsAreVerified, Whole
<1> QED
  BY <1>1, <1>3, <1>4, <1>5 DEF ModelInv

LEMMA OpenPartialKeeps ==
    ASSUME ModelInv, NEW i \in Installs, OpenPartial(i) PROVE ModelInv'
<1>0. NoFile \notin Files /\ ModelTypeOK /\ NamesApart
  BY FilesAssumption DEF ModelInv
<1>1. PICK f \in Files :
        /\ f = partial \/ (partial = NoFile /\ f \notin InUse)
        /\ partial' = f
        /\ stored' = [stored EXCEPT ![f] = Blank]
        /\ installs' = [installs EXCEPT ![i].at = "write", ![i].file = f]
        /\ mixed' = IF \E j \in Installs : Writing(j, f) THEN mixed \cup {f} ELSE mixed \ {f}
  BY DEF OpenPartial
<1>2. target' = target /\ loaded' = loaded /\ installs[i].at = "fetch"
  BY DEF OpenPartial
<1>3. f # target /\ f # loaded
  BY <1>0, <1>1 DEF NamesApart, InUse
<1>4. installs[i] \in InstallRows /\ installs \in [Installs -> InstallRows]
  BY <1>0 DEF ModelTypeOK
<1>5. /\ installs' \in [Installs -> InstallRows]
      /\ installs'[i] = [installs[i] EXCEPT !.at = "write", !.file = f]
      /\ \A j \in Installs \ {i} : installs'[j] = installs[j]
  <2>1. [installs[i] EXCEPT !.at = "write", !.file = f] \in InstallRows
    BY <1>4 DEF InstallRows, FileNames
  <2>2. installs' = [installs EXCEPT ![i] = [installs[i] EXCEPT !.at = "write", !.file = f]]
    BY <1>1, <1>4
  <2> QED
    BY <1>4, <2>1, <2>2
<1>6. installs'[i].at = "write" /\ installs'[i].file = f
  BY <1>4, <1>5 DEF InstallRows
<1>7. /\ stored' \in [Files -> [1..Chunks -> Qualities]]
      /\ \A g \in Files \ {f} : stored'[g] = stored[g]
  BY <1>0, <1>1, BlankIsFile DEF ModelTypeOK
<1>8. \A g \in Files \ {f} : g \in mixed' <=> g \in mixed
  BY <1>1
<1>9. ModelTypeOK' /\ NamesApart'
  BY <1>0, <1>1, <1>2, <1>3, <1>5, <1>7 DEF ModelTypeOK, NamesApart, FileNames
<1>10. WeightsAreVerified'
  <2>1. ASSUME NEW g \in Files, g \notin mixed', g = target \/ g = loaded PROVE Whole(g)'
    <3>1. g # f
      BY <1>3, <2>1
    <3>2. Whole(g)
      BY <1>8, <2>1, <3>1 DEF ModelInv, WeightsAreVerified
    <3> QED
      BY <1>7, <3>1, <3>2 DEF Whole
  <2> QED
    BY <1>2, <2>1 DEF WeightsAreVerified
<1>11. ASSUME NEW j \in Installs PROVE OwnsFile(j)'
  <2>1. CASE j = i
    <3>1. f \notin mixed' => \A n \in Installs : ~Writing(n, f)
      BY <1>1
    <3>2. f \notin mixed' => \A n \in Installs : Writing(n, f)' => n = i
      BY <1>5, <3>1 DEF Writing
    <3>3. installs'[i].received = 0
      BY <1>2, <1>4, <1>5 DEF InstallRows, ModelInv, NothingReceived
    <3> QED
      BY <1>2, <1>3, <1>6, <2>1, <3>2, <3>3 DEF OwnsFile
  <2>2. CASE j # i
    <3> DEFINE g == installs[j].file
    <3> SUFFICES ASSUME installs[j].at = "write" PROVE OwnsFile(j)'
      BY <1>5, <2>2 DEF OwnsFile
    <3>1. g \in Files /\ OwnsFile(j) /\ installs'[j] = installs[j]
      BY <1>5, <2>2 DEF ModelInv, OwnsFile
    <3>2. CASE g = f
      <4>1. Writing(j, f)
        BY <3>2 DEF Writing
      <4>2. g \in mixed'
        BY <1>1, <3>2, <4>1
      <4> QED
        BY <3>1, <4>2 DEF OwnsFile
    <3>3. CASE g # f
      <4>1. \A n \in Installs : Writing(n, g)' => Writing(n, g)
        BY <1>5, <1>6, <3>1, <3>3 DEF Writing
      <4> QED
        BY <1>2, <1>7, <1>8, <3>1, <3>3, <4>1 DEF OwnsFile
    <3> QED
      BY <3>2, <3>3
  <2> QED
    BY <2>1, <2>2
<1>12. NothingReceived'
  BY <1>5, <1>6 DEF ModelInv, NothingReceived
<1> QED
  BY <1>9, <1>10, <1>11, <1>12 DEF ModelInv

LEMMA WriteChunkKeeps ==
    ASSUME ModelInv, NEW i \in Installs, NEW quality \in {"good", "bad"}, WriteChunk(i, quality)
    PROVE  ModelInv'
<1> DEFINE n == installs[i].received + 1
           f == installs[i].file
           sum == IF quality = "good" THEN installs[i].checksum ELSE "bad"
           row == [installs[i] EXCEPT !.received = n, !.checksum = sum]
<1>1. ModelTypeOK /\ OwnsFile(i) /\ installs[i].at = "write" /\ installs[i] \in InstallRows
  BY DEF ModelInv, ModelTypeOK, WriteChunk
<1>2. f \in Files /\ installs[i].received \in Nat
  BY <1>1 DEF OwnsFile, InstallRows
<1>3. n \in 1..Chunks
  BY <1>2, FilesAssumption DEF WriteChunk
<1>4. UNCHANGED <<partial, target, loaded, mixed>>
  BY DEF WriteChunk
<1>5. stored' = [stored EXCEPT ![f] = [stored[f] EXCEPT ![n] = quality]]
  BY <1>1, <1>2, <1>3 DEF WriteChunk, ModelTypeOK
<1>6. stored[f] \in [1..Chunks -> Qualities] /\ quality \in Qualities
  BY <1>1, <1>2 DEF ModelTypeOK, Qualities
<1>7. /\ stored' \in [Files -> [1..Chunks -> Qualities]]
      /\ stored'[f][n] = quality
      /\ \A k \in 1..Chunks : k # n => stored'[f][k] = stored[f][k]
      /\ \A g \in Files \ {f} : stored'[g] = stored[g]
  BY <1>1, <1>2, <1>3, <1>5, <1>6 DEF ModelTypeOK
<1>16. sum \in {"good", "bad"} /\ (sum = "good" => installs[i].checksum = "good" /\ quality = "good")
  BY <1>1 DEF InstallRows
<1>9. installs' = [installs EXCEPT ![i] = row]
  BY <1>1 DEF WriteChunk, ModelTypeOK
<1> HIDE DEF sum
<1>8. row \in InstallRows /\ row.at = "write" /\ row.file = f /\ row.received = n /\ row.checksum = sum
  <2>1. n \in Nat /\ installs[i].file = f
    BY <1>2
  <2> HIDE DEF n, f
  <2> QED
    BY <1>1, <1>16, <2>1 DEF InstallRows
<1> HIDE DEF row
<1>10. installs' \in [Installs -> InstallRows] /\ installs'[i] = row
       /\ \A j \in Installs \ {i} : installs'[j] = installs[j]
  BY <1>1, <1>8, <1>9 DEF ModelTypeOK
<1>11. \A j \in Installs, g \in Files : Writing(j, g)' <=> Writing(j, g)
  BY <1>1, <1>8, <1>10 DEF Writing
<1> HIDE DEF n, f
<1>12. ModelTypeOK' /\ NamesApart' /\ NothingReceived'
  BY <1>4, <1>7, <1>8, <1>10 DEF ModelInv, ModelTypeOK, NamesApart, NothingReceived
<1>13. WeightsAreVerified'
  <2>1. ASSUME NEW g \in Files, g \notin mixed, g = target \/ g = loaded PROVE Whole(g)'
    <3>1. g # f
      BY <1>1, <2>1 DEF OwnsFile, f
    <3> QED
      BY <1>7, <2>1, <3>1 DEF ModelInv, WeightsAreVerified, Whole
  <2> QED
    BY <1>4, <2>1 DEF WeightsAreVerified
<1>14. ASSUME NEW j \in Installs \ {i} PROVE OwnsFile(j)'
  <2>1. OwnsFile(j) /\ installs'[j] = installs[j]
    BY <1>10 DEF ModelInv
  <2>2. installs[j].at = "write" /\ installs[j].file \notin mixed => installs[j].file # f
    BY <1>1, <2>1 DEF OwnsFile, Writing, f
  <2> QED
    BY <1>4, <1>7, <1>11, <2>1, <2>2 DEF OwnsFile
<1>15. OwnsFile(i)'
  <2>1. f \notin mixed => /\ f # target /\ f # loaded
                          /\ \A j \in Installs : Writing(j, f) => j = i
                          /\ installs[i].checksum = "good" => \A k \in 1..Chunks : k <= installs[i].received => stored[f][k] = "good"
    BY <1>1 DEF OwnsFile, f
  <2>2. f \notin mixed /\ sum = "good" => \A k \in 1..Chunks : k <= n => stored'[f][k] = "good"
    <3> SUFFICES ASSUME f \notin mixed, sum = "good", NEW k \in 1..Chunks, k <= n PROVE stored'[f][k] = "good"
      OBVIOUS
    <3>0. installs[i].checksum = "good" /\ quality = "good"
      BY <1>16
    <3>1. CASE k = n
      BY <1>7, <3>0, <3>1
    <3>2. CASE k # n
      <4>1. k <= installs[i].received
        BY <1>2, <3>2 DEF n
      <4>2. stored[f][k] = "good"
        BY <1>2, <2>1, <3>0, <4>1
      <4> QED
        BY <1>7, <3>2, <4>2
    <3> QED
      BY <3>1, <3>2
  <2>3. installs'[i].at = "write" /\ installs'[i].file = f /\ installs'[i].received = n
        /\ installs'[i].checksum = sum
    BY <1>8, <1>10
  <2>4. f \notin mixed' => /\ f # target' /\ f # loaded'
                           /\ \A j \in Installs : installs'[j].at = "write" /\ installs'[j].file = f => j = i
    <3>1. f \notin mixed' => f # target' /\ f # loaded' /\ \A j \in Installs : Writing(j, f) => j = i
      BY <1>4, <2>1
    <3>2. ASSUME NEW j \in Installs, installs'[j].at = "write", installs'[j].file = f PROVE Writing(j, f)
      BY <1>1, <1>8, <1>10, <3>2 DEF Writing, f
    <3> QED
      BY <3>1, <3>2
  <2>5. f \notin mixed' => (sum = "good" => \A k \in 1..Chunks : k <= n => stored'[f][k] = "good")
    BY <1>4, <2>2
  <2> QED
    BY <1>2, <2>3, <2>4, <2>5 DEF OwnsFile, Writing
<1> QED
  BY <1>12, <1>13, <1>14, <1>15 DEF ModelInv

LEMMA RenameKeeps ==
    ASSUME ModelInv, NEW i \in Installs, Rename(i) PROVE ModelInv'
<1> DEFINE row == [installs[i] EXCEPT !.at = "restart", !.file = NoFile]
<1>1. /\ ModelTypeOK /\ NamesApart /\ OwnsFile(i) /\ installs[i] \in InstallRows /\ NoFile \notin Files
      /\ installs[i].at = "write"
  BY FilesAssumption DEF ModelInv, ModelTypeOK, Rename
<1>2. /\ partial \in Files /\ target' = partial /\ partial' = NoFile
      /\ stored' = stored /\ loaded' = loaded
      /\ mixed' = IF partial # installs[i].file THEN mixed \cup {partial} ELSE mixed
  BY <1>1 DEF Rename, ModelTypeOK, FileNames
<1>3. row \in InstallRows /\ row.at = "restart"
  BY <1>1 DEF InstallRows, FileNames
<1>4. installs' = [installs EXCEPT ![i] = row]
  BY <1>1 DEF Rename, ModelTypeOK
<1> HIDE DEF row
<1>5. installs' \in [Installs -> InstallRows] /\ installs'[i] = row
      /\ \A j \in Installs \ {i} : installs'[j] = installs[j]
  BY <1>1, <1>3, <1>4 DEF ModelTypeOK
<1>6. \A j \in Installs, g \in Files : Writing(j, g)' => j # i /\ Writing(j, g)
  BY <1>3, <1>5 DEF Writing
<1>7. ModelTypeOK' /\ NamesApart' /\ NothingReceived'
  BY <1>1, <1>2, <1>3, <1>5 DEF ModelInv, ModelTypeOK, NamesApart, FileNames, NothingReceived
<1>8. partial \notin mixed' => partial = installs[i].file /\ partial \notin mixed
  BY <1>2
<1>9. partial \notin mixed' => Whole(partial)
  <2>1. installs[i].received = Chunks /\ installs[i].checksum = "good"
    BY DEF Rename, Verified
  <2> QED
    BY <1>1, <1>8, <2>1, FilesAssumption DEF OwnsFile, Whole
<1>10. WeightsAreVerified'
  <2>1. ASSUME NEW g \in Files, g \notin mixed', g = partial \/ g = loaded PROVE Whole(g)'
    BY <1>2, <1>9, <2>1 DEF ModelInv, WeightsAreVerified, Whole
  <2> QED
    BY <1>2, <2>1 DEF WeightsAreVerified
<1>11. ASSUME NEW j \in Installs, installs'[j].at = "write" PROVE OwnsFile(j)'
  <2>1. j # i /\ installs'[j] = installs[j] /\ OwnsFile(j)
    BY <1>3, <1>5, <1>11 DEF ModelInv
  <2>2. installs[j].file \notin mixed' => installs[j].file # partial
    <3> SUFFICES ASSUME installs[j].file = partial, partial \notin mixed' PROVE FALSE
      OBVIOUS
    <3>1. Writing(j, partial)
      BY <1>11, <2>1 DEF Writing
    <3> QED
      BY <1>1, <1>8, <2>1, <3>1 DEF OwnsFile
  <2>3. installs[j].file \notin mixed' => installs[j].file \notin mixed
    BY <1>2
  <2> QED
    BY <1>2, <1>6, <1>11, <2>1, <2>2, <2>3 DEF OwnsFile
<1>12. \A j \in Installs : OwnsFile(j)'
  BY <1>11 DEF OwnsFile
<1> QED
  BY <1>7, <1>10, <1>12 DEF ModelInv

LEMMA ModelStepKeeps == ModelInv /\ [ModelNext]_modelVars => ModelInv'
<1> SUFFICES ASSUME ModelInv, [ModelNext]_modelVars PROVE ModelInv'
  OBVIOUS
<1>0. installs \in [Installs -> InstallRows]
  BY DEF ModelInv, ModelTypeOK
<1>1. ASSUME stored' = stored, mixed' = mixed, partial' = partial, installs' = installs,
             target' \in {target, NoFile}, loaded' \in {loaded, NoFile, target}
      PROVE  ModelInv'
  BY <1>0, <1>1, FewerKeeps
<1>2. CASE UNCHANGED modelVars
  BY <1>1, <1>2 DEF modelVars
<1>3. ASSUME NEW i \in Installs, EndInstall(i), UNCHANGED <<stored, mixed, target>>,
             partial' \in {partial, NoFile}, loaded' \in {loaded, NoFile}
      PROVE  ModelInv'
  <2>1. installs' \in [Installs -> InstallRows] /\ installs'[i] = NoInstall
        /\ \A j \in Installs \ {i} : installs'[j] = installs[j]
    BY <1>0, <1>3, NoInstallIsRow DEF EndInstall
  <2> QED
    BY <1>3, <2>1, NoInstallIsRow, FewerKeeps
<1>4. ASSUME NEW i \in Installs, BeginInstall(i) PROVE ModelInv'
  <2>1. PICK at \in {"restart", "fetch"} : installs' = [installs EXCEPT ![i].at = at]
    BY <1>4 DEF BeginInstall
  <2>2. installs[i] = NoInstall /\ [NoInstall EXCEPT !.at = at] \in InstallRows
        /\ [NoInstall EXCEPT !.at = at].at = at /\ [NoInstall EXCEPT !.at = at].received = 0
    BY <1>4, <2>1 DEF BeginInstall, NoInstall, InstallRows, FileNames
  <2>3. installs' = [installs EXCEPT ![i] = [NoInstall EXCEPT !.at = at]]
    BY <1>0, <2>1, <2>2
  <2>4. installs' \in [Installs -> InstallRows] /\ installs'[i].at # "write" /\ installs'[i].received = 0
        /\ \A j \in Installs \ {i} : installs'[j] = installs[j]
    BY <1>0, <2>1, <2>2, <2>3
  <2> QED
    BY <1>4, <2>4, FewerKeeps DEF BeginInstall
<1>5. ASSUME NEW i \in Installs, Discard(i) \/ StopOldServer(i) \/ InstallFails(i) PROVE ModelInv'
  BY <1>3, <1>5 DEF Discard, StopOldServer, InstallFails, Stop
<1>6. CASE Quit
  <2>1. installs' \in [Installs -> InstallRows] /\ \A j \in Installs : installs'[j] = NoInstall
    BY <1>6, NoInstallIsRow DEF Quit
  <2> QED
    BY <1>6, <2>1, NoInstallIsRow, FewerKeeps DEF Quit, Stop
<1>7. CASE BeginRemoval \/ DeleteTarget \/ LoadWeights \/ LlamaDies
  BY <1>1, <1>7 DEF BeginRemoval, DeleteTarget, LoadWeights, LlamaDies, Stop
<1>8. ASSUME NEW p \in Prompts, PreferModel(p) \/ DropWrongSize(p) \/ EnsureRunning(p) PROVE ModelInv'
  BY <1>1, <1>8 DEF PreferModel, DropWrongSize, EnsureRunning
<1> QED
  BY <1>2, <1>4, <1>5, <1>6, <1>7, <1>8, OpenPartialKeeps, WriteChunkKeeps, RenameKeeps DEF ModelNext

(* For any number of installations, requests and chunks, cut and repeated as    *)
(* they may be, only weights with the right checksum are installed or loaded,   *)
(* but for files that installations shared.                                     *)
THEOREM ModelsAreVerified == ModelSpec => []WeightsAreVerified
<1>1. ModelInit => ModelInv
  <2> SUFFICES ASSUME ModelInit PROVE ModelInv
    OBVIOUS
  <2>1. ModelTypeOK
    BY NoInstallIsRow, BlankIsFile DEF ModelInit, ModelTypeOK, FileNames
  <2>2. WeightsAreVerified
    BY FilesAssumption DEF ModelInit, WeightsAreVerified
  <2> QED
    BY <2>1, <2>2, NoInstallIsRow DEF ModelInit, ModelInv, NamesApart, OwnsFile, NothingReceived
<1>2. ModelInv => WeightsAreVerified
  BY DEF ModelInv
<1> QED
  BY <1>1, <1>2, ModelStepKeeps, PTL DEF ModelSpec

-----------------------------------------------------------------------------
(* Provider connections: the token that is kept. *)

LinkRows  == [id : Nat, status : LinkStatuses, token : Nat]
Stages    == {"none", "create", "delete", "mark", "ask", "store", "giveUp", "judge", "record", "try"}
Handlings == [op : {"none", "signIn", "disconnect", "run", "validate", "test", "refresh"},
              at : Stages, row : LinkRows, answer : Nat]

TokenTypes ==
    /\ issued \in Nat /\ issued <= MaxTokens
    /\ consented \in Nat /\ consented <= issued
    /\ links \in [LinkIds -> LinkRows] /\ crossed \in [LinkIds -> BOOLEAN]
    /\ handling \in [Requests -> Handlings]

AtRow(q) == handling[q].at \notin {"none", "create"}

(* A token that was issued; the last one is known at the row consented to only. *)
Known(i, t) == t <= issued /\ (i # consented => t # issued)

(* Rows, and calls that hold one, know its id and a token of it. *)
IdsFit ==
    /\ \A i \in LinkIds : links[i] # NoLink =>
          links[i].id = i /\ i <= issued /\ Known(i, links[i].token)
    /\ \A q \in Requests :
          /\ AtRow(q) => /\ handling[q].row.id \in LinkIds /\ handling[q].row.id <= issued
                         /\ Known(handling[q].row.id, handling[q].row.token)
          /\ ~AtRow(q) => handling[q].row.id = 0
          /\ handling[q].at = "store" => Known(handling[q].row.id, handling[q].answer)

(* A sign-in that is to create its row has an id of its own, and the last token *)
(* if no consent came after it.                                                 *)
SignInsApart ==
    \A p \in Requests : handling[p].at = "create" =>
        LET i == handling[p].answer
        IN  /\ i \in LinkIds /\ i <= issued /\ links[i] = NoLink
            /\ (i = consented <=> i = issued)
            /\ \A q \in Requests : handling[q].row.id # i
            /\ \A q \in Requests \ {p} : handling[q].at = "create" => handling[q].answer # i

(* The row consented to is there; a call holds it. *)
Present     == consented \in LinkIds /\ links[consented] # NoLink
HoldsNow(q) == Present /\ handling[q].row.id = consented

InRefresh(q) == handling[q].at \in {"mark", "ask", "store", "giveUp"}

ActiveIsCurrent == links[consented].status = "active" => links[consented].token = issued

(* What a call knows of this row. *)
KnowsToken(q) ==
    /\ handling[q].at \in {"judge", "record", "try"} /\ handling[q].row.status = "active"
          => links[consented].token = issued
    /\ handling[q].at \in {"ask", "store"} => links[consented].status # "active"
    /\ handling[q].at = "store" => handling[q].answer = issued

TokenIsKept ==
    Present /\ ~crossed[consented] =>
        /\ ActiveIsCurrent
        /\ \A q \in Requests : HoldsNow(q) => KnowsToken(q)
        /\ \A p, q \in Requests :
              HoldsNow(p) /\ HoldsNow(q) /\ p # q /\ InRefresh(p) => handling[q].at = "delete"

IdsInv   == TokenTypes /\ IdsFit /\ SignInsApart
TokenInv == IdsInv /\ TokenIsKept

LEMMA NoLinkIsRow ==
    /\ NoLink \in LinkRows /\ NoLink.id = 0 /\ NoLink.token = 0 /\ NoLink.status # "active"
    /\ Unhandled \in Handlings /\ Unhandled.at = "none" /\ Unhandled.row = NoLink
    /\ Unhandled.op = "none" /\ Unhandled.answer = 0
  BY DEF NoLink, Unhandled, LinkRows, Handlings, Stages, LinkStatuses

LEMMA TokenStarts == TokenInit => TokenInv
<1> SUFFICES ASSUME TokenInit PROVE TokenInv
  OBVIOUS
<1>1. TokenTypes
  BY NoLinkIsRow, MaxTokensAssumption DEF TokenInit, TokenTypes
<1>2. IdsFit /\ SignInsApart
  BY NoLinkIsRow DEF TokenInit, IdsFit, SignInsApart, AtRow
<1>3. TokenIsKept
  BY DEF TokenInit, TokenIsKept, Present, LinkIds
<1> QED
  BY <1>1, <1>2, <1>3 DEF TokenInv, IdsInv

(* Ids and tokens are numbers. *)
LEMMA TokenNumbers ==
    ASSUME TokenTypes
    PROVE  /\ \A i \in LinkIds : i \in Nat /\ i # 0 /\ links[i] \in LinkRows /\ links[i].token \in Nat
           /\ \A q \in Requests : /\ handling[q] \in Handlings /\ handling[q].row \in LinkRows
                                  /\ handling[q].row.id \in Nat /\ handling[q].row.token \in Nat
                                  /\ handling[q].answer \in Nat
  BY MaxTokensAssumption DEF TokenTypes, LinkRows, Handlings, LinkIds

(* A call goes on with another record; the other calls stay. *)
LEMMA HandledAsKeeps ==
    ASSUME TokenTypes, NEW q \in Requests, NEW call \in Handlings, HandledAs(q, call)
    PROVE  /\ handling' \in [Requests -> Handlings]
           /\ handling'[q] = call
           /\ \A p \in Requests \ {q} : handling'[p] = handling[p]
  BY DEF TokenTypes, HandledAs

(* A call that goes to another step keeps its row and the answer it has. *)
LEMMA StepIsHandling ==
    ASSUME TokenTypes, NEW q \in Requests, NEW at \in Stages
    PROVE  /\ [handling[q] EXCEPT !.at = at] \in Handlings
           /\ [handling[q] EXCEPT !.at = at].at = at
           /\ [handling[q] EXCEPT !.at = at].op = handling[q].op
           /\ [handling[q] EXCEPT !.at = at].row = handling[q].row
           /\ [handling[q] EXCEPT !.at = at].answer = handling[q].answer
  BY DEF TokenTypes, Handlings

(* A row is put in the place of the one a call holds. *)
LEMMA PutLinkKeeps ==
    ASSUME IdsInv, NEW q \in Requests, AtRow(q), NEW row \in LinkRows, PutLink(q, row)
    PROVE  /\ handling[q].row.id \in LinkIds /\ links' \in [LinkIds -> LinkRows]
           /\ links'[handling[q].row.id] = row
           /\ \A i \in LinkIds \ {handling[q].row.id} : links'[i] = links[i]
<1>1. handling[q].row.id \in LinkIds /\ links \in [LinkIds -> LinkRows]
  BY DEF IdsInv, IdsFit, TokenTypes
<1> QED
  BY <1>1 DEF PutLink

(* A call that holds a row goes on, or ends, and writes the row or leaves it.  *)
LEMMA CallStepKeeps ==
    ASSUME IdsInv, NEW q \in Requests, AtRow(q), UNCHANGED <<issued, consented>>,
           crossed' \in [LinkIds -> BOOLEAN],
           NEW call \in Handlings, HandledAs(q, call), call.at # "create",
           call.at = "none" => call.row.id = 0,
           call.at # "none" => /\ call.row.id = handling[q].row.id
                               /\ Known(handling[q].row.id, call.row.token),
           call.at = "store" => Known(handling[q].row.id, call.answer),
           NEW row \in LinkRows, PutLink(q, row),
           \/ row = NoLink
           \/ /\ HoldsLink(q) /\ row.id = handling[q].row.id
              /\ Known(handling[q].row.id, row.token)
    PROVE  IdsInv'
<1>1. /\ handling' \in [Requests -> Handlings]
      /\ handling'[q] = call
      /\ \A p \in Requests \ {q} : handling'[p] = handling[p]
  BY HandledAsKeeps DEF IdsInv
<1>2. /\ handling[q].row.id \in LinkIds /\ links' \in [LinkIds -> LinkRows]
      /\ links'[handling[q].row.id] = row
      /\ \A i \in LinkIds \ {handling[q].row.id} : links'[i] = links[i]
  BY PutLinkKeeps
<1>3. TokenTypes'
  BY <1>1, <1>2 DEF IdsInv, TokenTypes, LinkIds
<1>4. IdsFit'
  <2>1. \A i, t : Known(i, t)' <=> Known(i, t)
    BY DEF Known
  <2>2. \A i \in LinkIds : links'[i] # NoLink =>
            links'[i].id = i /\ i <= issued /\ Known(i, links'[i].token)
    BY <1>2 DEF IdsInv, IdsFit, HoldsLink, OwnLink
  <2>3. \A p \in Requests \ {q} : AtRow(p)' <=> AtRow(p)
    BY <1>1 DEF AtRow
  <2>4. AtRow(q)' <=> call.at # "none"
    BY <1>1 DEF AtRow
  <2>5. LinkIds' = LinkIds
    BY DEF LinkIds
  <2> QED
    BY <1>1, <1>2, <2>1, <2>2, <2>3, <2>4, <2>5 DEF IdsInv, IdsFit
<1>5. SignInsApart'
  <2> SUFFICES ASSUME NEW p \in Requests, (handling[p].at = "create")'
               PROVE  LET i == handling[p].answer
                      IN  (/\ i \in LinkIds /\ i <= issued /\ links[i] = NoLink
                           /\ (i = consented <=> i = issued)
                           /\ \A r \in Requests : handling[r].row.id # i
                           /\ \A r \in Requests \ {p} :
                                 handling[r].at = "create" => handling[r].answer # i)'
    BY DEF SignInsApart
  <2>1. p # q /\ handling'[p] = handling[p] /\ handling[p].at = "create"
    BY <1>1
  <2> DEFINE i == handling[p].answer
  <2>2. /\ i \in LinkIds /\ i <= issued /\ links[i] = NoLink /\ (i = consented <=> i = issued)
        /\ \A r \in Requests : handling[r].row.id # i
        /\ \A r \in Requests \ {p} : handling[r].at = "create" => handling[r].answer # i
    BY <2>1 DEF IdsInv, SignInsApart
  <2>3. i # 0 /\ i # handling[q].row.id /\ links'[i] = NoLink
    BY <1>2, <2>2, TokenNumbers DEF IdsInv
  <2>4. \A r \in Requests : handling'[r].row.id # i
    BY <1>1, <2>2, <2>3
  <2>5. \A r \in Requests \ {p} : handling'[r].at = "create" => handling'[r].answer # i
    BY <1>1, <2>2
  <2>6. LinkIds' = LinkIds
    BY DEF LinkIds
  <2> QED
    BY <2>1, <2>2, <2>3, <2>4, <2>5, <2>6
<1> QED
  BY <1>3, <1>4, <1>5 DEF IdsInv

(* A call that does not hold the row consented to when it has done its step    *)
(* leaves what is known of this row as it was.                                 *)
LEMMA ApartKeeps ==
    ASSUME TokenIsKept, NEW q \in Requests,
           \A p \in Requests \ {q} : handling'[p] = handling[p],
           UNCHANGED <<issued, consented>>,
           consented \in LinkIds => UNCHANGED <<links[consented], crossed[consented]>>,
           ~HoldsNow(q)'
    PROVE  TokenIsKept'
<1> SUFFICES ASSUME (Present /\ ~crossed[consented])'
             PROVE  (/\ ActiveIsCurrent
                     /\ \A p \in Requests : HoldsNow(p) => KnowsToken(p)
                     /\ \A p, r \in Requests :
                           HoldsNow(p) /\ HoldsNow(r) /\ p # r /\ InRefresh(p) => handling[r].at = "delete")'
  BY DEF TokenIsKept
<1>1. Present /\ ~crossed[consented] /\ links'[consented] = links[consented]
  BY DEF Present, LinkIds
<1>2. \A p \in Requests \ {q} : /\ HoldsNow(p)' <=> HoldsNow(p)
                                /\ InRefresh(p)' <=> InRefresh(p)
                                /\ KnowsToken(p)' <=> KnowsToken(p)
  BY <1>1 DEF HoldsNow, InRefresh, KnowsToken, Present, LinkIds
<1>3. ActiveIsCurrent'
  BY <1>1 DEF TokenIsKept, ActiveIsCurrent
<1> QED
  BY <1>1, <1>2, <1>3 DEF TokenIsKept

(* A call that ends leaves everything else as it is. *)
LEMMA EndKeeps ==
    ASSUME TokenInv, NEW q \in Requests, IsThrough(q), UNCHANGED <<links, issued, consented, crossed>>
    PROVE  TokenInv'
<1>1. /\ handling' \in [Requests -> Handlings]
      /\ handling'[q] = Unhandled
      /\ \A p \in Requests \ {q} : handling'[p] = handling[p]
  BY HandledAsKeeps, NoLinkIsRow DEF IsThrough, TokenInv, IdsInv
<1>2. TokenTypes'
  BY <1>1 DEF TokenInv, IdsInv, TokenTypes, LinkIds
<1>3. IdsFit'
  BY <1>1, NoLinkIsRow DEF TokenInv, IdsInv, TokenTypes, IdsFit, AtRow, Known, LinkIds
<1>4. SignInsApart'
  <2>1. \A i \in LinkIds : i # 0
    BY TokenNumbers DEF TokenInv, IdsInv
  <2> QED
    BY <1>1, <2>1, NoLinkIsRow DEF TokenInv, IdsInv, SignInsApart, LinkIds
<1>5. TokenIsKept'
  <2>1. ~HoldsNow(q)'
    BY <1>1, NoLinkIsRow, MaxTokensAssumption DEF HoldsNow, Present, LinkIds
  <2> QED
    BY <1>1, <2>1, ApartKeeps DEF TokenInv
<1> QED
  BY <1>2, <1>3, <1>4, <1>5 DEF TokenInv, IdsInv

(* A call that goes on to another step with the row it has. *)
LEMMA GoingKeeps ==
    ASSUME TokenInv, NEW q \in Requests, AtRow(q), UNCHANGED <<links, issued, consented, crossed>>,
           NEW at \in Stages \ {"none", "create", "ask", "store", "mark"}, GoesTo(q, at),
           at = "giveUp" => InRefresh(q),
           at \in {"judge", "record", "try"} =>
               handling[q].at \in {"judge", "record", "try"}
    PROVE  TokenInv'
<1> DEFINE call == [handling[q] EXCEPT !.at = at]
<1>0. /\ call \in Handlings /\ call.at = at
      /\ call.op = handling[q].op /\ call.row = handling[q].row
      /\ call.answer = handling[q].answer
  BY StepIsHandling, NoLinkIsRow DEF TokenInv, IdsInv
<1>1. /\ handling' \in [Requests -> Handlings]
      /\ handling'[q] = call
      /\ \A p \in Requests \ {q} : handling'[p] = handling[p]
  BY <1>0, HandledAsKeeps DEF GoesTo, TokenInv, IdsInv
<1> HIDE DEF call
<1>2. TokenTypes'
  BY <1>1 DEF TokenInv, IdsInv, TokenTypes, LinkIds
<1>3. IdsFit'
  BY <1>0, <1>1 DEF TokenInv, IdsInv, IdsFit, AtRow, Stages, Known, LinkIds
<1>4. SignInsApart'
  BY <1>0, <1>1 DEF TokenInv, IdsInv, SignInsApart, AtRow, Stages, LinkIds
<1>5. TokenIsKept'
  BY <1>0, <1>1
     DEF TokenInv, TokenIsKept, ActiveIsCurrent, HoldsNow, KnowsToken, InRefresh, Stages, Present, LinkIds
<1> QED
  BY <1>2, <1>3, <1>4, <1>5 DEF TokenInv, IdsInv

(* A write by id, and what the writer must know. *)
LEMMA WriteKeeps ==
    ASSUME TokenInv, NEW q \in Requests, AtRow(q), handling[q].at # "delete",
           NEW row \in LinkRows, row.id = OwnLink(q).id, Known(handling[q].row.id, row.token),
           NEW at \in {"none", "judge", "record", "try"}, WriteLink(q, row, at),
           HoldsNow(q) /\ ~crossed[consented] =>
               /\ row.status = "active" => row.token = issued
               /\ \/ \A p \in Requests \ {q} : HoldsNow(p) => handling[p].at = "delete"
                  \/ row.token = links[consented].token /\ ~InRefresh(q)
    PROVE  TokenInv'
<1>1. CASE ~HoldsLink(q)
  BY <1>1, EndKeeps DEF WriteLink
<1>2. CASE HoldsLink(q)
  <2> DEFINE call == IF at = "none" THEN Unhandled
                     ELSE [handling[q] EXCEPT !.at = at, !.row = row]
  <2>1. handling[q].row.id \in LinkIds /\ row.id = handling[q].row.id /\ row.id # 0
    BY <1>2, TokenNumbers DEF HoldsLink, OwnLink, TokenInv, IdsInv, IdsFit
  <2>2. at \in Stages
    BY DEF Stages
  <2>3. /\ call \in Handlings /\ call.at = at
        /\ at = "none" => call.row = NoLink
        /\ at # "none" => call.row = row
    <3>1. CASE at = "none"
      BY <3>1, NoLinkIsRow
    <3>2. CASE at # "none"
      <4> DEFINE next == [handling[q] EXCEPT !.at = at, !.row = row]
      <4>1. TokenTypes
        BY DEF TokenInv, IdsInv
      <4>2. next \in Handlings /\ next.at = at /\ next.row = row
        BY <2>2, <4>1 DEF TokenTypes, Handlings
      <4>3. call = next
        BY <3>2
      <4> HIDE DEF call, next
      <4> QED
        BY <3>2, <4>2, <4>3
    <3> QED
      BY <3>1, <3>2
  <2>4. PutLink(q, row) /\ UNCHANGED <<issued, consented, crossed>> /\ HandledAs(q, call)
    BY <1>2 DEF WriteLink, IsThrough
  <2> HIDE DEF call
  <2>5. /\ handling' \in [Requests -> Handlings]
        /\ handling'[q] = call
        /\ \A p \in Requests \ {q} : handling'[p] = handling[p]
    BY <2>3, <2>4, HandledAsKeeps DEF TokenInv, IdsInv
  <2>6. /\ links'[handling[q].row.id] = row
        /\ \A i \in LinkIds \ {handling[q].row.id} : links'[i] = links[i]
    BY <2>4, PutLinkKeeps DEF TokenInv
  <2>7. IdsInv'
    <3>1. crossed' \in [LinkIds -> BOOLEAN]
      BY <2>4 DEF TokenInv, IdsInv, TokenTypes
    <3> QED
      BY <1>2, <2>1, <2>3, <2>4, <3>1, NoLinkIsRow, CallStepKeeps DEF TokenInv
  <2>8. TokenIsKept'
    <3>1. CASE ~HoldsNow(q)
      <4>1. handling[q].row.id # consented
        BY <1>2, <2>1, <3>1 DEF HoldsNow, Present, HoldsLink, OwnLink
      <4>2. ~HoldsNow(q)'
        BY <2>1, <2>3, <2>4, <2>5, <4>1, NoLinkIsRow, TokenNumbers DEF HoldsNow, Present, LinkIds, TokenInv, IdsInv
      <4> QED
        BY <2>4, <2>5, <2>6, <4>1, <4>2, ApartKeeps DEF TokenInv
    <3>2. CASE HoldsNow(q)
      <4> SUFFICES ASSUME ~crossed[consented] PROVE TokenIsKept'
        BY <2>4 DEF TokenIsKept
      <4>0. /\ Present /\ handling[q].row.id = consented /\ links'[consented] = row /\ Present'
        BY <2>1, <2>4, <2>6, <3>2, NoLinkIsRow DEF HoldsNow, Present, LinkIds
      <4>1. ~InRefresh(q)' /\ ActiveIsCurrent'
        BY <2>3, <2>4, <2>5, <3>2, <4>0 DEF InRefresh, ActiveIsCurrent
      <4>2. \A p \in Requests \ {q} : HoldsNow(p)' <=> HoldsNow(p)
        BY <2>4, <2>5, <4>0 DEF HoldsNow
      <4>3. \A p \in Requests \ {q} : HoldsNow(p) /\ InRefresh(p) => handling[q].at = "delete"
        BY <3>2, <4>0 DEF TokenInv, TokenIsKept
      <4>4. \A p \in Requests \ {q} : HoldsNow(p) => KnowsToken(p)
        BY <4>0 DEF TokenInv, TokenIsKept
      <4>5. KnowsToken(q)' \/ ~HoldsNow(q)'
        <5>1. CASE at = "none"
          BY <2>3, <2>5, <5>1 DEF KnowsToken
        <5>2. CASE at # "none"
          <6>1. (handling[q].at \notin {"ask", "store"})' /\ handling'[q].row = row
            BY <2>3, <2>5, <5>2
          <6> QED
            BY <2>4, <3>2, <4>0, <6>1 DEF KnowsToken
        <5> QED
          BY <5>1, <5>2
      <4>6. ASSUME NEW p \in Requests \ {q}, HoldsNow(p) PROVE KnowsToken(p)'
        <5>1. CASE handling[p].at = "delete"
          BY <2>5, <5>1 DEF KnowsToken
        <5>2. CASE handling[p].at # "delete"
          <6>1. row.token = links[consented].token /\ ~InRefresh(q)
            BY <3>2, <4>6, <5>2
          <6>2. ~InRefresh(p)
            BY <4>3, <4>6
          <6> QED
            BY <2>4, <2>5, <4>0, <4>4, <4>6, <6>1, <6>2 DEF KnowsToken, InRefresh
        <5> QED
          BY <5>1, <5>2
      <4>7. ASSUME NEW p1 \in Requests, NEW p2 \in Requests, HoldsNow(p1)', HoldsNow(p2)', p1 # p2,
                   InRefresh(p1)'
            PROVE  (handling[p2].at = "delete")'
        <5>1. p1 # q /\ InRefresh(p1) /\ HoldsNow(p1)
          BY <2>5, <4>1, <4>2, <4>7 DEF InRefresh
        <5>2. p2 # q
          BY <4>3, <5>1
        <5> QED
          BY <2>5, <4>0, <4>2, <4>7, <5>1, <5>2 DEF TokenInv, TokenIsKept
      <4> QED
        BY <4>1, <4>2, <4>5, <4>6, <4>7 DEF TokenIsKept
    <3> QED
      BY <3>1, <3>2
  <2> QED
    BY <2>7, <2>8 DEF TokenInv
<1> QED
  BY <1>1, <1>2

(* A row that a call holds, and is there, is one. *)
LEMMA OwnLinkIsRow ==
    ASSUME IdsInv, NEW q \in Requests, AtRow(q)
    PROVE  /\ OwnLink(q) \in LinkRows /\ handling[q].row.id \in LinkIds
           /\ HoldsLink(q) => Known(handling[q].row.id, OwnLink(q).token)
  BY TokenNumbers DEF IdsInv, IdsFit, OwnLink, HoldsLink

(* A row with another status. *)
LEMMA RowWithStatus ==
    ASSUME NEW link \in LinkRows, NEW status \in LinkStatuses
    PROVE  LET row == [link EXCEPT !.status = status]
           IN  /\ row \in LinkRows
               /\ row.id = link.id /\ row.status = status /\ row.token = link.token
  BY DEF LinkRows

LEMMA SetLinkStatusKeeps ==
    ASSUME TokenInv, NEW i \in LinkIds, NEW status \in Chosen, SetLinkStatus(i, status) PROVE TokenInv'
<1>1. links[i] \in LinkRows /\ links[i] # NoLink /\ links[i].id = i /\ i # 0 /\ status \in LinkStatuses
  BY TokenNumbers, ChosenAssumption DEF SetLinkStatus, TokenInv, IdsInv, IdsFit
<1> DEFINE row == [links[i] EXCEPT !.status = status]
<1>2. /\ row \in LinkRows
      /\ row.id = i /\ row.status = status /\ row.token = links[i].token
  BY <1>1, RowWithStatus
<1>3. /\ links' = [links EXCEPT ![i] = row] /\ UNCHANGED <<issued, consented, handling>>
      /\ crossed' = [crossed EXCEPT ![i] = @ \/ (status = "active" /\ links[i].status # "active")]
      /\ links \in [LinkIds -> LinkRows] /\ crossed \in [LinkIds -> BOOLEAN]
  BY <1>1 DEF SetLinkStatus, TokenInv, IdsInv, TokenTypes, LinkRows
<1> HIDE DEF row
<1>4. /\ links'[i] = row /\ row # NoLink
      /\ \A j \in LinkIds \ {i} : links'[j] = links[j] /\ crossed'[j] = crossed[j]
      /\ crossed'[i] = (crossed[i] \/ (status = "active" /\ links[i].status # "active"))
  BY <1>1, <1>2, <1>3, NoLinkIsRow
<1>5. IdsInv'
  <2>1. TokenTypes'
    BY <1>2, <1>3 DEF TokenInv, IdsInv, TokenTypes, LinkIds
  <2>2. IdsFit'
    BY <1>1, <1>2, <1>3, <1>4 DEF TokenInv, IdsInv, IdsFit, AtRow, Known, LinkIds
  <2>3. SignInsApart'
    BY <1>1, <1>3, <1>4 DEF TokenInv, IdsInv, SignInsApart, LinkIds
  <2> QED
    BY <2>1, <2>2, <2>3 DEF IdsInv
<1>6. TokenIsKept'
  <2>1. \A q \in Requests : (HoldsNow(q)' <=> HoldsNow(q)) /\ (InRefresh(q)' <=> InRefresh(q))
    BY <1>1, <1>3, <1>4 DEF HoldsNow, Present, InRefresh, LinkIds
  <2>2. (Present /\ ~crossed[consented])' =>
           /\ Present /\ ~crossed[consented]
           /\ links'[consented].token = links[consented].token
           /\ links'[consented].status = "active" => links[consented].status = "active"
    BY <1>1, <1>2, <1>3, <1>4 DEF Present, LinkIds
  <2> QED
    BY <1>3, <2>1, <2>2 DEF TokenInv, TokenIsKept, ActiveIsCurrent, KnowsToken
<1> QED
  BY <1>5, <1>6 DEF TokenInv

LEMMA ReplaceTokenKeeps == ASSUME TokenInv, NEW i \in LinkIds, ReplaceToken(i) PROVE TokenInv'
<1>1. /\ links[i] \in LinkRows /\ links[i] # NoLink /\ links[i].id = i /\ i \in Nat /\ i # 0
      /\ issued \in Nat /\ i <= issued /\ TokenTypes
  BY TokenNumbers DEF ReplaceToken, TokenInv, IdsInv, IdsFit, TokenTypes
<1> DEFINE row == [links[i] EXCEPT !.status = "active", !.token = issued + 1]
<1>2. row \in LinkRows /\ row.id = i /\ row.token = issued + 1
  <2>1. issued + 1 \in Nat /\ "active" \in LinkStatuses
    BY <1>1 DEF LinkStatuses
  <2> QED
    BY <1>1, <2>1 DEF LinkRows
<1>3. /\ links' = [links EXCEPT ![i] = row] /\ UNCHANGED handling
      /\ issued' = issued + 1 /\ issued < MaxTokens /\ consented' = i
      /\ crossed' = [crossed EXCEPT ![i] = CallsOn(i) # {}]
      /\ links \in [LinkIds -> LinkRows] /\ crossed \in [LinkIds -> BOOLEAN]
  BY <1>1 DEF ReplaceToken, Consent, TokenTypes, LinkRows
<1> HIDE DEF row
<1>4. /\ links'[i] = row /\ row # NoLink
      /\ \A j \in LinkIds \ {i} : links'[j] = links[j]
      /\ crossed'[i] = (CallsOn(i) # {})
  BY <1>1, <1>2, <1>3, NoLinkIsRow
<1>5. TokenTypes'
  BY <1>1, <1>2, <1>3, MaxTokensAssumption DEF TokenTypes, LinkIds
<1>6. IdsFit'
  <2>1. ASSUME NEW j \in LinkIds, links'[j] # NoLink
        PROVE  (links[j].id = j /\ j <= issued /\ Known(j, links[j].token))'
    <3>1. CASE j = i
      BY <1>1, <1>2, <1>3, <1>4, <3>1 DEF Known
    <3>2. CASE j # i
      <4>1. links[j] # NoLink /\ links'[j] = links[j]
        BY <1>4, <2>1, <3>2
      <4>2. links[j].id = j /\ j <= issued /\ links[j].token <= issued /\ links[j].token \in Nat /\ j \in Nat
        BY <1>1, <4>1, TokenNumbers DEF TokenInv, IdsInv, IdsFit, Known
      <4> QED
        BY <1>1, <1>3, <4>1, <4>2 DEF Known
    <3> QED
      BY <3>1, <3>2
  <2>2. ASSUME NEW q \in Requests
        PROVE  (/\ AtRow(q) => /\ handling[q].row.id \in LinkIds /\ handling[q].row.id <= issued
                               /\ Known(handling[q].row.id, handling[q].row.token)
                /\ ~AtRow(q) => handling[q].row.id = 0
                /\ handling[q].at = "store" => Known(handling[q].row.id, handling[q].answer))'
    <3>1. /\ handling[q].row.id \in Nat /\ handling[q].row.token \in Nat /\ handling[q].answer \in Nat
      BY <1>1, TokenNumbers
    <3>2. /\ AtRow(q) => handling[q].row.id \in LinkIds /\ handling[q].row.id <= issued
                         /\ handling[q].row.token <= issued
          /\ ~AtRow(q) => handling[q].row.id = 0
          /\ handling[q].at = "store" => handling[q].answer <= issued
      BY DEF TokenInv, IdsInv, IdsFit, Known
    <3> QED
      BY <1>1, <1>3, <3>1, <3>2 DEF Known, AtRow, LinkIds
  <2>3. LinkIds' = LinkIds
    BY DEF LinkIds
  <2> QED
    BY <2>1, <2>2, <2>3 DEF IdsFit
<1>7. SignInsApart'
  <2>1. ASSUME NEW p \in Requests, handling[p].at = "create"
        PROVE  /\ handling[p].answer # i /\ handling[p].answer <= issued' /\ handling[p].answer # issued'
    <3>1. handling[p].answer \in Nat
      BY <1>1, TokenNumbers
    <3>2. handling[p].answer <= issued /\ handling[p].answer # i
      BY <1>1, <2>1 DEF TokenInv, IdsInv, SignInsApart
    <3> QED
      BY <1>1, <1>3, <3>1, <3>2
  <2> QED
    BY <1>3, <1>4, <2>1 DEF TokenInv, IdsInv, SignInsApart, LinkIds
<1>8. TokenIsKept'
  <2>1. ASSUME ~crossed'[i] PROVE \A q \in Requests : ~HoldsNow(q)'
    BY <1>3, <1>4, <2>1 DEF HoldsNow, CallsOn
  <2>2. ActiveIsCurrent'
    BY <1>2, <1>3, <1>4 DEF ActiveIsCurrent
  <2> QED
    BY <1>3, <2>1, <2>2 DEF TokenIsKept
<1> QED
  BY <1>5, <1>6, <1>7, <1>8 DEF TokenInv, IdsInv

(* Writes of a call that asks, judges or gives up. *)
LEMMA StoreTokenKeeps ==
    ASSUME TokenInv, NEW q \in Requests, StoreToken(q) PROVE TokenInv'
<1>1. /\ handling[q].at = "store" /\ AtRow(q) /\ InRefresh(q) /\ IdsInv
      /\ handling[q] \in Handlings /\ handling[q].answer \in Nat
  BY TokenNumbers DEF StoreToken, AtRow, InRefresh, TokenInv, IdsInv
<1>2. OwnLink(q) \in LinkRows /\ "active" \in LinkStatuses
  BY <1>1, OwnLinkIsRow DEF LinkStatuses
<1> DEFINE row == [OwnLink(q) EXCEPT !.status = "active", !.token = handling[q].answer]
<1>3. /\ row \in LinkRows
      /\ row.id = OwnLink(q).id /\ row.status = "active" /\ row.token = handling[q].answer
  BY <1>1, <1>2 DEF LinkRows
<1>4. WriteLink(q, row, Rest(q)) /\ Rest(q) \in {"none", "judge", "record", "try"}
  BY DEF StoreToken, Rest
<1> HIDE DEF row
<1>5. Known(handling[q].row.id, row.token)
  BY <1>1, <1>3 DEF IdsInv, IdsFit
<1>6. HoldsNow(q) /\ ~crossed[consented] =>
         /\ row.token = issued
         /\ \A p \in Requests \ {q} : HoldsNow(p) => handling[p].at = "delete"
  BY <1>1, <1>3 DEF TokenInv, TokenIsKept, KnowsToken, HoldsNow
<1> QED
  BY <1>1, <1>3, <1>4, <1>5, <1>6, WriteKeeps

(* A write of another status alone. *)
LEMMA StatusKeeps ==
    ASSUME TokenInv, NEW q \in Requests, AtRow(q), handling[q].at # "delete",
           NEW status \in LinkStatuses, NEW at \in {"none", "judge", "record", "try"},
           WriteLink(q, [OwnLink(q) EXCEPT !.status = status], at),
           HoldsNow(q) /\ ~crossed[consented] =>
               /\ status = "active" => links[consented].token = issued
               /\ ~InRefresh(q) \/ \A p \in Requests \ {q} : HoldsNow(p) => handling[p].at = "delete"
    PROVE  TokenInv'
<1> DEFINE row == [OwnLink(q) EXCEPT !.status = status]
<1>1. OwnLink(q) \in LinkRows /\ (HoldsLink(q) => Known(handling[q].row.id, OwnLink(q).token))
  BY OwnLinkIsRow DEF TokenInv
<1>2. /\ row \in LinkRows
      /\ row.id = OwnLink(q).id /\ row.status = status /\ row.token = OwnLink(q).token
  BY <1>1, RowWithStatus
<1>3. WriteLink(q, row, at)
  OBVIOUS
<1> HIDE DEF row
<1>4. CASE ~HoldsLink(q)
  BY <1>3, <1>4, EndKeeps DEF WriteLink
<1>5. CASE HoldsLink(q)
  <2>1. HoldsNow(q) => OwnLink(q) = links[consented]
    BY DEF HoldsNow, OwnLink
  <2> QED
    BY <1>1, <1>2, <1>3, <1>5, <2>1, WriteKeeps
<1> QED
  BY <1>4, <1>5

LEMMA GiveUpKeeps ==
    ASSUME TokenInv, NEW q \in Requests, GiveUp(q) PROVE TokenInv'
<1>1. /\ handling[q].at = "giveUp" /\ AtRow(q) /\ InRefresh(q)
      /\ "reconnect_required" \in LinkStatuses
      /\ Rest(q) \in {"none", "judge", "record", "try"}
      /\ WriteLink(q, [OwnLink(q) EXCEPT !.status = "reconnect_required"], Rest(q))
  BY DEF GiveUp, AtRow, InRefresh, LinkStatuses, Rest
<1>2. HoldsNow(q) /\ ~crossed[consented] =>
         \A p \in Requests \ {q} : HoldsNow(p) => handling[p].at = "delete"
  BY <1>1 DEF TokenInv, TokenIsKept, HoldsNow
<1> QED
  BY <1>1, <1>2, StatusKeeps

(* A write of a status by a call that does not refresh. *)
LEMMA StatusWriteKeeps ==
    ASSUME TokenInv, NEW q \in Requests, handling[q].at \in {"judge", "record", "try"},
           NEW status \in LinkStatuses, NEW at \in {"none", "record", "try"},
           WriteLink(q, [OwnLink(q) EXCEPT !.status = status], at),
           status = "active" => handling[q].row.status = "active"
    PROVE  TokenInv'
<1>1. AtRow(q) /\ ~InRefresh(q) /\ handling[q].at # "delete"
  BY DEF AtRow, InRefresh
<1>2. HoldsNow(q) /\ ~crossed[consented] => (status = "active" => links[consented].token = issued)
  BY DEF TokenInv, TokenIsKept, KnowsToken, HoldsNow
<1> QED
  BY <1>1, <1>2, StatusKeeps

LEMMA JudgeLinkKeeps ==
    ASSUME TokenInv, NEW q \in Requests, JudgeLink(q) PROVE TokenInv'
<1> DEFINE next == After(handling[q].op)
<1>1. /\ handling[q].at = "judge" /\ next \in {"none", "record", "try"} /\ AtRow(q)
      /\ "expired" \in LinkStatuses /\ "error" \in LinkStatuses
  BY DEF JudgeLink, After, AtRow, LinkStatuses
<1>2. CASE /\ IF next = "none" THEN IsThrough(q) ELSE GoesTo(q, next)
           /\ UNCHANGED <<links, issued, consented, granted, crossed>>
  <2>1. CASE next = "none"
    BY <1>2, <2>1, EndKeeps
  <2>2. CASE next # "none"
    <3>1. /\ next \in Stages \ {"none", "create", "ask", "store", "mark"}
          /\ next # "giveUp" /\ GoesTo(q, next)
      BY <1>1, <1>2, <2>2 DEF Stages
    <3> HIDE DEF next
    <3> QED
      BY <1>1, <1>2, <3>1, GoingKeeps
  <2> QED
    BY <2>1, <2>2
<1>3. CASE \E status \in {"expired", "error"} :
              WriteLink(q, [OwnLink(q) EXCEPT !.status = status], next)
  BY <1>1, <1>3, StatusWriteKeeps
<1> QED
  BY <1>2, <1>3 DEF JudgeLink

LEMMA RecordVerdictKeeps ==
    ASSUME TokenInv, NEW q \in Requests, RecordVerdict(q) PROVE TokenInv'
<1>1. PICK status \in IF handling[q].row.status = "active"
                      THEN {"active"} ELSE {"expired", "error"} :
         WriteLink(q, [OwnLink(q) EXCEPT !.status = status], "none")
  BY DEF RecordVerdict
<1>2. /\ handling[q].at = "record" /\ status \in LinkStatuses
      /\ status = "active" => handling[q].row.status = "active"
  BY DEF RecordVerdict, LinkStatuses
<1> QED
  BY <1>1, <1>2, StatusWriteKeeps

LEMMA RecordTestKeeps ==
    ASSUME TokenInv, NEW q \in Requests, RecordTest(q) PROVE TokenInv'
<1>1. PICK status \in IF handling[q].row.status = "active"
                      THEN {"active", "reconnect_required", "error"}
                      ELSE {handling[q].row.status, "expired"} :
         WriteLink(q, [OwnLink(q) EXCEPT !.status = status], "none")
  BY DEF RecordTest
<1>2. handling[q] \in Handlings
  BY DEF TokenInv, IdsInv, TokenTypes
<1>3. /\ handling[q].at = "try" /\ status \in LinkStatuses
      /\ status = "active" => handling[q].row.status = "active"
  BY <1>2 DEF RecordTest, LinkStatuses, Handlings, LinkRows
<1> QED
  BY <1>1, <1>3, StatusWriteKeeps

(* Calls that begin, and calls that speak to the provider. *)
LEMMA ExchangeCodeKeeps ==
    ASSUME TokenInv, NEW q \in Requests, ExchangeCode(q) PROVE TokenInv'
<1> DEFINE call == [op |-> "signIn", at |-> "create", row |-> NoLink, answer |-> issued + 1]
<1>1. /\ issued \in Nat /\ issued' = issued + 1 /\ issued < MaxTokens /\ consented' = issued + 1
      /\ HandledAs(q, call) /\ UNCHANGED <<links, crossed>> /\ TokenTypes
      /\ handling[q] = Unhandled
  BY DEF ExchangeCode, Consent, TokenInv, IdsInv, TokenTypes
<1>2. /\ call \in Handlings /\ call.at = "create"
      /\ call.row = NoLink /\ call.answer = issued + 1
  BY <1>1, NoLinkIsRow DEF Handlings, Stages
<1> HIDE DEF call
<1>3. /\ handling' \in [Requests -> Handlings]
      /\ handling'[q] = call
      /\ \A p \in Requests \ {q} : handling'[p] = handling[p]
  BY <1>1, <1>2, HandledAsKeeps
<1>4. TokenTypes'
  BY <1>1, <1>3, MaxTokensAssumption DEF TokenTypes, LinkIds
<1>5. LinkIds' = LinkIds /\ issued + 1 \in LinkIds
  BY <1>1, MaxTokensAssumption DEF LinkIds
<1>6. IdsFit'
  <2>1. ASSUME NEW j \in LinkIds, links[j] # NoLink
        PROVE  (links[j].id = j /\ j <= issued /\ Known(j, links[j].token))'
    <3>1. links[j].id = j /\ j <= issued /\ links[j].token <= issued /\ links[j].token \in Nat /\ j \in Nat
      BY <1>1, <2>1, TokenNumbers DEF TokenInv, IdsInv, IdsFit, Known
    <3> QED
      BY <1>1, <3>1 DEF Known
  <2>2. ASSUME NEW p \in Requests \ {q}
        PROVE  (/\ AtRow(p) => /\ handling[p].row.id \in LinkIds /\ handling[p].row.id <= issued
                               /\ Known(handling[p].row.id, handling[p].row.token)
                /\ ~AtRow(p) => handling[p].row.id = 0
                /\ handling[p].at = "store" => Known(handling[p].row.id, handling[p].answer))'
    <3>1. /\ handling[p].row.id \in Nat /\ handling[p].row.token \in Nat /\ handling[p].answer \in Nat
      BY <1>1, TokenNumbers
    <3>2. /\ AtRow(p) => handling[p].row.id \in LinkIds /\ handling[p].row.id <= issued
                         /\ handling[p].row.token <= issued
          /\ ~AtRow(p) => handling[p].row.id = 0
          /\ handling[p].at = "store" => handling[p].answer <= issued
      BY DEF TokenInv, IdsInv, IdsFit, Known
    <3> QED
      BY <1>1, <1>3, <1>5, <3>1, <3>2 DEF Known, AtRow
  <2>3. ~AtRow(q)' /\ handling'[q].row.id = 0 /\ handling'[q].at # "store"
    BY <1>2, <1>3, NoLinkIsRow DEF AtRow
  <2> QED
    BY <1>1, <1>5, <2>1, <2>2, <2>3 DEF IdsFit
<1>7. /\ links[issued + 1] = NoLink
      /\ \A p \in Requests : handling[p].row.id # issued + 1
      /\ \A p \in Requests : handling[p].at = "create" => handling[p].answer <= issued /\ handling[p].answer \in Nat
  <2>1. \A p \in Requests : handling[p].row.id <= issued /\ handling[p].row.id \in Nat /\ handling[p].answer \in Nat
    BY <1>1, TokenNumbers DEF TokenInv, IdsInv, IdsFit
  <2> QED
    BY <1>1, <1>5, <2>1 DEF TokenInv, IdsInv, IdsFit, SignInsApart
<1>8. SignInsApart'
  <2>1. ASSUME NEW p \in Requests \ {q}, handling[p].at = "create"
        PROVE  LET i == handling[p].answer
               IN  /\ i \in LinkIds /\ i <= issued /\ i # issued + 1 /\ i <= issued + 1 /\ links[i] = NoLink /\ i # 0
                   /\ \A r \in Requests : handling[r].row.id # i
                   /\ \A r \in Requests \ {p} : handling[r].at = "create" => handling[r].answer # i
    BY <1>1, <1>7, <2>1, TokenNumbers DEF TokenInv, IdsInv, SignInsApart
  <2>2. handling'[q].row.id = 0 /\ 0 # issued + 1
    BY <1>1, <1>2, <1>3, NoLinkIsRow
  <2>3. ASSUME NEW p \in Requests \ {q}, handling'[p].at = "create"
        PROVE  (LET i == handling[p].answer
                IN  /\ i \in LinkIds /\ i <= issued /\ links[i] = NoLink
                    /\ (i = consented <=> i = issued)
                    /\ \A r \in Requests : handling[r].row.id # i
                    /\ \A r \in Requests \ {p} : handling[r].at = "create" => handling[r].answer # i)'
    <3>1. handling'[p] = handling[p] /\ handling[p].at = "create"
      BY <1>3, <2>3
    <3>2. \A r \in Requests : handling'[r].row.id # handling[p].answer
      BY <1>3, <2>1, <2>2, <3>1
    <3>3. \A r \in Requests \ {p} : handling'[r].at = "create" => handling'[r].answer # handling[p].answer
      BY <1>2, <1>3, <2>1, <3>1
    <3> QED
      BY <1>1, <1>5, <2>1, <3>1, <3>2, <3>3
  <2>4. (LET i == handling[q].answer
         IN  /\ i \in LinkIds /\ i <= issued /\ links[i] = NoLink
             /\ (i = consented <=> i = issued)
             /\ \A r \in Requests : handling[r].row.id # i
             /\ \A r \in Requests \ {q} : handling[r].at = "create" => handling[r].answer # i)'
    <3>1. \A r \in Requests : handling'[r].row.id # issued + 1
      BY <1>3, <1>7, <2>2
    <3>2. \A r \in Requests \ {q} : handling'[r].at = "create" => handling'[r].answer # issued + 1
      BY <1>3, <2>1
    <3> QED
      BY <1>1, <1>2, <1>3, <1>5, <1>7, <3>1, <3>2
  <2> QED
    BY <2>3, <2>4 DEF SignInsApart
<1>9. TokenIsKept'
  BY <1>1, <1>7 DEF TokenIsKept, Present
<1> QED
  BY <1>4, <1>6, <1>8, <1>9 DEF TokenInv, IdsInv

LEMMA CreateLinkKeeps ==
    ASSUME TokenInv, NEW q \in Requests, CreateLink(q) PROVE TokenInv'
<1> DEFINE i   == handling[q].answer
           row == [id |-> i, status |-> "active", token |-> i]
<1>1. /\ handling[q].at = "create" /\ issued \in Nat /\ TokenTypes /\ i \in Nat
      /\ links' = [links EXCEPT ![i] = row] /\ UNCHANGED <<issued, consented, crossed>> /\ IsThrough(q)
  BY TokenNumbers DEF CreateLink, TokenInv, IdsInv, TokenTypes
<1>2. /\ i \in LinkIds /\ i <= issued /\ i # 0 /\ links[i] = NoLink /\ (i = consented <=> i = issued)
      /\ \A r \in Requests : handling[r].row.id # i
      /\ \A r \in Requests \ {q} : handling[r].at = "create" => handling[r].answer # i
  BY <1>1, TokenNumbers DEF TokenInv, IdsInv, SignInsApart
<1>3. row \in LinkRows /\ row.id = i /\ row.token = i
  <2>1. "active" \in LinkStatuses
    BY DEF LinkStatuses
  <2> QED
    BY <1>1, <2>1 DEF LinkRows
<1> HIDE DEF row, i
<1>4. /\ handling' \in [Requests -> Handlings]
      /\ handling'[q] = Unhandled
      /\ \A p \in Requests \ {q} : handling'[p] = handling[p]
  BY <1>1, HandledAsKeeps, NoLinkIsRow DEF IsThrough
<1>5. /\ links' \in [LinkIds -> LinkRows] /\ links'[i] = row /\ LinkIds' = LinkIds
      /\ \A j \in LinkIds \ {i} : links'[j] = links[j]
  BY <1>1, <1>2, <1>3 DEF TokenTypes, LinkIds
<1>6. TokenTypes'
  BY <1>1, <1>4, <1>5 DEF TokenTypes
<1>7. IdsFit'
  <2>1. Known(i, i)
    BY <1>2 DEF TokenInv, IdsInv, Known, TokenTypes, LinkIds
  <2>2. \A j \in LinkIds : links'[j] # NoLink =>
           links'[j].id = j /\ j <= issued /\ Known(j, links'[j].token)
    BY <1>2, <1>3, <1>5, <2>1 DEF TokenInv, IdsInv, IdsFit
  <2>3. \A j, t : Known(j, t)' <=> Known(j, t)
    BY <1>1 DEF Known
  <2>4. ~AtRow(q)' /\ handling'[q].row.id = 0 /\ handling'[q].at # "store"
    BY <1>4, NoLinkIsRow DEF AtRow
  <2>5. \A p \in Requests \ {q} : AtRow(p)' <=> AtRow(p)
    BY <1>4 DEF AtRow
  <2> QED
    BY <1>1, <1>4, <1>5, <2>2, <2>3, <2>4, <2>5 DEF TokenInv, IdsInv, IdsFit
<1>8. SignInsApart'
  BY <1>1, <1>2, <1>4, <1>5, NoLinkIsRow, TokenNumbers DEF TokenInv, IdsInv, SignInsApart
<1>9. TokenIsKept'
  <2>1. CASE consented = i
    <3>1. \A p \in Requests : ~HoldsNow(p)'
      BY <1>1, <1>2, <1>4, <2>1, NoLinkIsRow DEF HoldsNow
    <3>2. ActiveIsCurrent'
      BY <1>1, <1>2, <1>3, <1>5, <2>1 DEF ActiveIsCurrent
    <3> QED
      BY <3>1, <3>2 DEF TokenIsKept
  <2>2. CASE consented # i
    <3>1. ~HoldsNow(q)'
      BY <1>1, <1>4, NoLinkIsRow, TokenNumbers DEF HoldsNow, Present, LinkIds
    <3> QED
      BY <1>1, <1>4, <1>5, <2>2, <3>1, ApartKeeps DEF TokenInv
  <2> QED
    BY <2>1, <2>2
<1> QED
  BY <1>6, <1>7, <1>8, <1>9 DEF TokenInv, IdsInv

(* A call that is to hold a row which is there. *)
LEMMA HoldingKeeps ==
    ASSUME TokenInv, NEW q \in Requests, handling[q] = Unhandled, NEW i \in LinkIds, links[i] # NoLink,
           NEW call \in Handlings, HandledAs(q, call), UNCHANGED <<links, issued, consented>>,
           call.row = links[i], call.answer = 0, call.at \in {"delete", "mark", "giveUp", "judge"},
           NEW b \in BOOLEAN, crossed' = [crossed EXCEPT ![i] = @ \/ b],
           ~b => /\ call.at = "judge" => \A p \in CallsOn(i) : ~InRefresh(p)
                 /\ call.at \in {"mark", "giveUp"} => CallsOn(i) = {}
    PROVE  TokenInv'
<1>1. /\ links[i] \in LinkRows /\ links[i].id = i /\ i # 0 /\ i <= issued /\ Known(i, links[i].token)
      /\ TokenTypes
  BY TokenNumbers DEF TokenInv, IdsInv, IdsFit
<1>2. /\ handling' \in [Requests -> Handlings]
      /\ handling'[q] = call
      /\ \A p \in Requests \ {q} : handling'[p] = handling[p]
  BY <1>1, HandledAsKeeps
<1>3. /\ crossed' \in [LinkIds -> BOOLEAN] /\ crossed'[i] = (crossed[i] \/ b)
      /\ \A j \in LinkIds \ {i} : crossed'[j] = crossed[j]
  BY <1>1 DEF TokenTypes
<1>4. TokenTypes'
  BY <1>1, <1>2, <1>3 DEF TokenTypes, LinkIds
<1>5. IdsFit'
  <2>1. AtRow(q)' /\ handling'[q].at # "store" /\ handling'[q].row = links[i]
    BY <1>2 DEF AtRow
  <2>2. \A p \in Requests \ {q} : AtRow(p)' <=> AtRow(p)
    BY <1>2 DEF AtRow
  <2>3. \A j, t : Known(j, t)' <=> Known(j, t)
    BY DEF Known
  <2>4. LinkIds' = LinkIds
    BY DEF LinkIds
  <2> QED
    BY <1>1, <1>2, <2>1, <2>2, <2>3, <2>4 DEF TokenInv, IdsInv, IdsFit
<1>6. SignInsApart'
  <2>1. \A p \in Requests : handling[p].at = "create" => handling[p].answer # i
    BY DEF TokenInv, IdsInv, SignInsApart
  <2>2. handling'[q].row.id = i /\ handling'[q].at # "create"
    BY <1>1, <1>2
  <2> QED
    BY <1>2, <2>1, <2>2 DEF TokenInv, IdsInv, SignInsApart, LinkIds
<1>7. TokenIsKept'
  <2>1. CASE consented # i
    <3>1. ~HoldsNow(q)'
      BY <1>1, <1>2, <2>1 DEF HoldsNow
    <3> QED
      BY <1>2, <1>3, <2>1, <3>1, ApartKeeps DEF TokenInv
  <2>2. CASE consented = i
    <3> SUFFICES ASSUME ~crossed'[i] PROVE TokenIsKept'
      BY <2>2 DEF TokenIsKept
    <3>0. ~crossed[i] /\ ~b /\ Present /\ Present'
      BY <1>3, <2>2 DEF Present, LinkIds
    <3>1. ActiveIsCurrent
      BY <2>2, <3>0 DEF TokenInv, TokenIsKept
    <3>2. KnowsToken(q)' /\ ActiveIsCurrent'
      BY <1>2, <2>2, <3>1 DEF KnowsToken, ActiveIsCurrent
    <3>3. ASSUME NEW p \in Requests \ {q}
          PROVE  /\ HoldsNow(p)' <=> HoldsNow(p)
                 /\ InRefresh(p)' <=> InRefresh(p)
                 /\ KnowsToken(p)' <=> KnowsToken(p)
                 /\ handling[p].at = handling'[p].at
      BY <1>2, <3>0, <3>3 DEF HoldsNow, InRefresh, KnowsToken
    <3>4. ASSUME NEW p \in Requests \ {q}, HoldsNow(p), InRefresh(p)
          PROVE  (handling[q].at = "delete")'
      BY <1>2, <2>2, <3>0, <3>4 DEF HoldsNow, CallsOn
    <3>5. ASSUME NEW p \in Requests \ {q}, HoldsNow(p), InRefresh(q)'
          PROVE  FALSE
      BY <1>2, <2>2, <3>0, <3>5 DEF HoldsNow, CallsOn, InRefresh
    <3>6. \A p \in Requests \ {q} : HoldsNow(p) => KnowsToken(p)
      BY <2>2, <3>0 DEF TokenInv, TokenIsKept
    <3>7. \A p, r \in Requests \ {q} :
             HoldsNow(p) /\ HoldsNow(r) /\ p # r /\ InRefresh(p) => handling[r].at = "delete"
      BY <2>2, <3>0 DEF TokenInv, TokenIsKept
    <3>8. ASSUME NEW p \in Requests, HoldsNow(p)' PROVE KnowsToken(p)'
      BY <3>2, <3>3, <3>6, <3>8
    <3>9. ASSUME NEW p \in Requests, NEW r \in Requests, HoldsNow(p)', HoldsNow(r)', p # r, InRefresh(p)'
          PROVE  (handling[r].at = "delete")'
      <4>1. CASE p = q
        BY <3>3, <3>5, <3>9, <4>1
      <4>2. CASE r = q
        BY <3>3, <3>4, <3>9, <4>2
      <4>3. CASE p # q /\ r # q
        BY <3>3, <3>7, <3>9, <4>3
      <4> QED
        BY <4>1, <4>2, <4>3
    <3> QED
      BY <3>2, <3>8, <3>9 DEF TokenIsKept
  <2> QED
    BY <2>1, <2>2
<1> QED
  BY <1>4, <1>5, <1>6, <1>7 DEF TokenInv, IdsInv

LEMMA DisconnectKeeps ==
    ASSUME TokenInv, NEW q \in Requests, NEW i \in LinkIds, Disconnect(q, i) PROVE TokenInv'
<1> DEFINE call == [op |-> "disconnect", at |-> "delete", row |-> links[i], answer |-> 0]
<1>1. links[i] \in LinkRows /\ crossed \in [LinkIds -> BOOLEAN]
  BY DEF TokenInv, IdsInv, TokenTypes
<1>2. /\ call \in Handlings /\ call.at = "delete" /\ call.row = links[i] /\ call.answer = 0
  BY <1>1 DEF Handlings, Stages
<1>3. /\ handling[q] = Unhandled /\ links[i] # NoLink /\ HandledAs(q, call)
      /\ UNCHANGED <<links, issued, consented, crossed>>
  BY DEF Disconnect
<1>4. crossed' = [crossed EXCEPT ![i] = @ \/ FALSE]
  BY <1>1, <1>3
<1> HIDE DEF call
<1> QED
  BY <1>2, <1>3, <1>4, HoldingKeeps

LEMMA BeginCallKeeps ==
    ASSUME TokenInv, NEW q \in Requests, NEW i \in LinkIds,
           NEW op \in {"run", "validate", "test", "refresh"}, BeginCall(q, op, i)
    PROVE  TokenInv'
<1>1. PICK due \in BOOLEAN :
         LET renews == ShouldRefresh(links[i], op, due)
         IN  /\ renews \/ op # "refresh"
             /\ \E at \in IF renews THEN {"mark", "giveUp"} ELSE {"judge"} :
                   HandledAs(q, [op |-> op, at |-> at, row |-> links[i], answer |-> 0])
             /\ crossed' = [crossed EXCEPT
                              ![i] = @ \/ (CallsOn(i) # {} /\ (renews \/ Refreshing(i)))]
  BY DEF BeginCall
<1> DEFINE renews == ShouldRefresh(links[i], op, due)
           b == CallsOn(i) # {} /\ (renews \/ Refreshing(i))
<1>2. PICK at \in IF renews THEN {"mark", "giveUp"} ELSE {"judge"} :
         HandledAs(q, [op |-> op, at |-> at, row |-> links[i], answer |-> 0])
  BY <1>1
<1> DEFINE call == [op |-> op, at |-> at, row |-> links[i], answer |-> 0]
<1>3. links[i] \in LinkRows /\ at \in {"mark", "giveUp", "judge"}
  BY <1>2 DEF TokenInv, IdsInv, TokenTypes
<1>4. /\ call \in Handlings /\ call.at = at /\ call.row = links[i] /\ call.answer = 0
  BY <1>3 DEF Handlings, Stages
<1>5. /\ handling[q] = Unhandled /\ links[i] # NoLink /\ HandledAs(q, call)
      /\ UNCHANGED <<links, issued, consented>>
  BY <1>2 DEF BeginCall
<1>6. crossed' = [crossed EXCEPT ![i] = @ \/ b]
  BY <1>1
<1>7. b \in BOOLEAN
  OBVIOUS
<1>8. at = "judge" <=> ~renews
  BY <1>2
<1>9. ~b => /\ at = "judge" => \A p \in CallsOn(i) : ~InRefresh(p)
            /\ at \in {"mark", "giveUp"} => CallsOn(i) = {}
  BY <1>8 DEF Refreshing, InRefresh
<1> HIDE DEF call, b
<1> QED
  BY <1>3, <1>4, <1>5, <1>6, <1>7, <1>9, HoldingKeeps

LEMMA DeleteLinkKeeps ==
    ASSUME TokenInv, NEW q \in Requests, DeleteLink(q) PROVE TokenInv'
<1>1. CASE ~HoldsLink(q)
  BY <1>1, EndKeeps DEF DeleteLink
<1>2. CASE HoldsLink(q)
  <2>1. /\ PutLink(q, NoLink) /\ HandledAs(q, Unhandled) /\ UNCHANGED <<issued, consented, crossed>>
        /\ AtRow(q) /\ IdsInv /\ crossed \in [LinkIds -> BOOLEAN]
    BY <1>2 DEF DeleteLink, IsThrough, AtRow, TokenInv, IdsInv, TokenTypes
  <2>2. IdsInv'
    BY <2>1, NoLinkIsRow, CallStepKeeps
  <2>3. \A p \in Requests \ {q} : handling'[p] = handling[p]
    BY <2>1, NoLinkIsRow, HandledAsKeeps DEF IdsInv
  <2>4. handling'[q] = Unhandled
    BY <2>1, NoLinkIsRow, HandledAsKeeps DEF IdsInv
  <2>5. /\ handling[q].row.id \in LinkIds /\ links'[handling[q].row.id] = NoLink
        /\ \A i \in LinkIds \ {handling[q].row.id} : links'[i] = links[i]
    BY <2>1, NoLinkIsRow, PutLinkKeeps
  <2>6. TokenIsKept'
    <3>1. CASE consented = handling[q].row.id
      BY <2>1, <2>5, <3>1 DEF TokenIsKept, Present
    <3>2. CASE consented # handling[q].row.id
      <4>1. ~HoldsNow(q)'
        BY <2>1, <2>2, <2>4, NoLinkIsRow, MaxTokensAssumption DEF HoldsNow, Present, LinkIds
      <4> QED
        BY <2>1, <2>3, <2>5, <3>2, <4>1, ApartKeeps DEF TokenInv
    <3> QED
      BY <3>1, <3>2
  <2> QED
    BY <2>2, <2>6 DEF TokenInv
<1> QED
  BY <1>1, <1>2

LEMMA MarkRefreshingKeeps ==
    ASSUME TokenInv, NEW q \in Requests, MarkRefreshing(q) PROVE TokenInv'
<1>1. CASE ~HoldsLink(q)
  BY <1>1, EndKeeps DEF MarkRefreshing
<1>2. CASE HoldsLink(q)
  <2> DEFINE row  == [OwnLink(q) EXCEPT !.status = "refreshing"]
             call == [handling[q] EXCEPT !.at = "ask"]
  <2>1. /\ PutLink(q, row) /\ HandledAs(q, call) /\ UNCHANGED <<issued, consented, crossed>>
        /\ handling[q].at = "mark" /\ AtRow(q) /\ InRefresh(q) /\ IdsInv
        /\ crossed \in [LinkIds -> BOOLEAN]
    BY <1>2 DEF MarkRefreshing, GoesTo, AtRow, InRefresh, TokenInv, IdsInv, TokenTypes
  <2>2. OwnLink(q) \in LinkRows /\ handling[q].row.id \in LinkIds /\ Known(handling[q].row.id, OwnLink(q).token)
    BY <1>2, <2>1, OwnLinkIsRow
  <2>3. /\ row \in LinkRows /\ row.status = "refreshing"
        /\ row.id = OwnLink(q).id /\ row.token = OwnLink(q).token
    BY <2>2, RowWithStatus DEF LinkStatuses
  <2>4. /\ call \in Handlings /\ call.at = "ask"
        /\ call.row = handling[q].row /\ call.answer = handling[q].answer
    <3>1. "ask" \in Stages
      BY DEF Stages
    <3> QED
      BY <2>1, <3>1, StepIsHandling DEF IdsInv
  <2> HIDE DEF row, call
  <2>5. /\ handling' \in [Requests -> Handlings]
        /\ handling'[q] = call
        /\ \A p \in Requests \ {q} : handling'[p] = handling[p]
    BY <2>1, <2>4, HandledAsKeeps DEF IdsInv
  <2>6. /\ links'[handling[q].row.id] = row
        /\ \A i \in LinkIds \ {handling[q].row.id} : links'[i] = links[i]
    BY <2>1, <2>3, PutLinkKeeps
  <2>7. row.id = handling[q].row.id /\ Known(handling[q].row.id, handling[q].row.token) /\ row.id # 0
    BY <1>2, <2>1, <2>2, <2>3, TokenNumbers DEF IdsInv, IdsFit, HoldsLink, OwnLink
  <2>8. IdsInv'
    BY <1>2, <2>1, <2>2, <2>3, <2>4, <2>7, CallStepKeeps
  <2>9. TokenIsKept'
    <3>1. CASE ~HoldsNow(q)
      <4>1. handling[q].row.id # consented
        BY <1>2, <2>2, <3>1 DEF HoldsNow, Present, HoldsLink, OwnLink
      <4>2. ~HoldsNow(q)'
        BY <2>1, <2>4, <2>5, <4>1 DEF HoldsNow
      <4> QED
        BY <2>1, <2>5, <2>6, <4>1, <4>2, ApartKeeps DEF TokenInv
    <3>2. CASE HoldsNow(q)
      <4>0. /\ Present /\ handling[q].row.id = consented /\ links'[consented] = row /\ Present'
        BY <2>1, <2>6, <2>7, <3>2, NoLinkIsRow DEF HoldsNow, Present, LinkIds
      <4>1. ~crossed[consented] => \A p \in Requests \ {q} : HoldsNow(p) => handling[p].at = "delete"
        BY <2>1, <3>2, <4>0 DEF TokenInv, TokenIsKept
      <4>2. \A p \in Requests \ {q} : HoldsNow(p)' <=> HoldsNow(p)
        BY <2>1, <2>5, <4>0 DEF HoldsNow
      <4>3. KnowsToken(q)' /\ ActiveIsCurrent'
        BY <2>1, <2>3, <2>4, <2>5, <4>0 DEF KnowsToken, ActiveIsCurrent
      <4> QED
        BY <2>1, <2>5, <4>1, <4>2, <4>3 DEF TokenIsKept, KnowsToken, InRefresh
    <3> QED
      BY <3>1, <3>2
  <2> QED
    BY <2>8, <2>9 DEF TokenInv
<1> QED
  BY <1>1, <1>2

(* The provider took the token, and its answer came or was lost. *)
LEMMA TokenTakenKeeps ==
    ASSUME TokenInv, NEW q \in Requests, handling[q].at = "ask", handling[q].row.token = issued,
           issued' \in {issued, issued + 1}, issued' <= MaxTokens,
           NEW call \in Handlings, HandledAs(q, call),
           call.at \in {"store", "giveUp"}, call.row = handling[q].row,
           call.at = "store" => call.answer = issued',
           UNCHANGED <<links, consented, crossed>>
    PROVE  TokenInv'
<1>1. /\ issued \in Nat /\ consented \in Nat /\ consented <= issued /\ AtRow(q) /\ InRefresh(q) /\ TokenTypes
  BY DEF TokenInv, IdsInv, TokenTypes, AtRow, InRefresh
<1>2. /\ handling' \in [Requests -> Handlings]
      /\ handling'[q] = call
      /\ \A p \in Requests \ {q} : handling'[p] = handling[p]
  BY <1>1, HandledAsKeeps
<1>3. issued' \in Nat /\ issued <= issued'
  BY <1>1
<1>4. handling[q].row.id = consented /\ consented \in LinkIds
  BY <1>1 DEF TokenInv, IdsInv, IdsFit, Known
<1>5. TokenTypes'
  BY <1>1, <1>2, <1>3 DEF TokenTypes, LinkIds
<1>7. IdsFit'
  <2>1. ASSUME NEW j \in LinkIds, links[j] # NoLink
        PROVE  (links[j].id = j /\ j <= issued /\ Known(j, links[j].token))'
    <3>1. links[j].id = j /\ j <= issued /\ Known(j, links[j].token) /\ links[j].token \in Nat /\ j \in Nat
      BY <1>1, <2>1, TokenNumbers DEF TokenInv, IdsInv, IdsFit
    <3> QED
      BY <1>1, <1>3, <3>1 DEF Known
  <2>2. ASSUME NEW p \in Requests
        PROVE  (/\ AtRow(p) => /\ handling[p].row.id \in LinkIds /\ handling[p].row.id <= issued
                               /\ Known(handling[p].row.id, handling[p].row.token)
                /\ ~AtRow(p) => handling[p].row.id = 0
                /\ handling[p].at = "store" => Known(handling[p].row.id, handling[p].answer))'
    <3>1. /\ handling'[p].row = handling[p].row /\ (AtRow(p)' <=> AtRow(p)) /\ LinkIds' = LinkIds
      BY <1>1, <1>2 DEF AtRow, LinkIds
    <3>2. /\ handling[p].row.id \in Nat /\ handling[p].row.token \in Nat /\ handling[p].answer \in Nat
      BY <1>1, TokenNumbers
    <3>3. /\ AtRow(p) => handling[p].row.id \in LinkIds /\ handling[p].row.id <= issued
                         /\ Known(handling[p].row.id, handling[p].row.token)
          /\ ~AtRow(p) => handling[p].row.id = 0
          /\ handling[p].at = "store" => Known(handling[p].row.id, handling[p].answer)
      BY DEF TokenInv, IdsInv, IdsFit
    <3>4. (handling[p].at = "store" => Known(handling[p].row.id, handling[p].answer))'
      <4>1. CASE p = q
        BY <1>1, <1>2, <1>3, <1>4, <4>1 DEF Known
      <4>2. CASE p # q
        BY <1>1, <1>2, <1>3, <3>2, <3>3, <4>2 DEF Known
      <4> QED
        BY <4>1, <4>2
    <3>5. AtRow(p) => (handling[p].row.id <= issued /\ Known(handling[p].row.id, handling[p].row.token))'
      BY <1>1, <1>3, <3>1, <3>2, <3>3 DEF Known
    <3> QED
      BY <3>1, <3>3, <3>4, <3>5
  <2> QED
    BY <2>1, <2>2 DEF IdsFit, LinkIds
<1>8. SignInsApart'
  <2>1. ASSUME NEW p \in Requests, handling[p].at = "create"
        PROVE  /\ p # q /\ handling[p].answer # consented /\ handling[p].answer # issued'
               /\ handling[p].answer <= issued'
    <3>1. handling[p].answer \in Nat
      BY <1>1, TokenNumbers
    <3>2. /\ p # q /\ handling[p].answer # consented /\ handling[p].answer <= issued
          /\ handling[p].answer # issued
      BY <1>4, <2>1 DEF TokenInv, IdsInv, SignInsApart
    <3> QED
      BY <1>1, <1>3, <3>1, <3>2
  <2>2. ASSUME NEW p \in Requests
        PROVE  /\ handling'[p].row = handling[p].row
               /\ handling'[p].at = "create" => handling'[p] = handling[p]
    BY <1>2
  <2> QED
    BY <2>1, <2>2 DEF TokenInv, IdsInv, SignInsApart, LinkIds
<1>9. TokenIsKept'
  <2> SUFFICES ASSUME Present, ~crossed[consented] PROVE TokenIsKept'
    BY DEF TokenIsKept, Present, LinkIds
  <2>0. HoldsNow(q) /\ Present'
    BY <1>4 DEF HoldsNow, Present, LinkIds
  <2>1. \A p \in Requests \ {q} : HoldsNow(p) => handling[p].at = "delete"
    BY <1>1, <2>0 DEF TokenInv, TokenIsKept
  <2>2. links[consented].status # "active"
    BY <2>0 DEF TokenInv, TokenIsKept, KnowsToken
  <2>3. \A p \in Requests \ {q} : HoldsNow(p)' <=> HoldsNow(p)
    BY <1>2, <2>0 DEF HoldsNow
  <2>4. KnowsToken(q)' /\ ActiveIsCurrent'
    BY <1>2, <2>2 DEF KnowsToken, ActiveIsCurrent
  <2> QED
    BY <1>2, <2>1, <2>3, <2>4 DEF TokenIsKept, KnowsToken, InRefresh
<1> QED
  BY <1>5, <1>7, <1>8, <1>9 DEF TokenInv, IdsInv

LEMMA AskProviderKeeps ==
    ASSUME TokenInv, NEW q \in Requests, AskProvider(q) PROVE TokenInv'
<1> DEFINE given == [handling[q] EXCEPT !.at = "store", !.answer = issued']
           lost  == [handling[q] EXCEPT !.at = "giveUp"]
<1>1. /\ handling[q].at = "ask" /\ UNCHANGED <<links, consented, crossed>> /\ TokenTypes
      /\ handling[q] \in Handlings /\ issued \in Nat
      /\ AtRow(q) /\ InRefresh(q) /\ "giveUp" \in Stages /\ "store" \in Stages
  BY DEF AskProvider, TokenInv, IdsInv, TokenTypes, AtRow, InRefresh, Stages
<1>2. /\ lost \in Handlings /\ lost.at = "giveUp" /\ lost.row = handling[q].row
  BY <1>1, StepIsHandling
<1>3. CASE /\ handling[q].row.token = issued /\ issued' \in {issued, issued + 1} /\ issued' <= MaxTokens
           /\ HandledAs(q, given) \/ HandledAs(q, lost)
  <2>1. issued' \in Nat
    BY <1>1, <1>3
  <2>2. /\ given \in Handlings /\ given.at = "store" /\ given.row = handling[q].row
        /\ given.answer = issued'
    BY <1>1, <2>1 DEF Handlings
  <2> HIDE DEF given, lost
  <2>3. CASE HandledAs(q, given)
    BY <1>1, <1>3, <2>2, <2>3, TokenTakenKeeps
  <2>4. CASE HandledAs(q, lost)
    BY <1>1, <1>2, <1>3, <2>4, TokenTakenKeeps
  <2> QED
    BY <1>3, <2>3, <2>4
<1>4. CASE GoesTo(q, "giveUp") /\ UNCHANGED issued
  <2>1. "giveUp" \in Stages \ {"none", "create", "ask", "store", "mark"}
    BY <1>1
  <2> QED
    BY <1>1, <1>4, <2>1, GoingKeeps
<1> QED
  BY <1>3, <1>4 DEF AskProvider, GoesTo

LEMMA StoreFailsKeeps ==
    ASSUME TokenInv, NEW q \in Requests, StoreFails(q) PROVE TokenInv'
<1>1. /\ AtRow(q) /\ InRefresh(q) /\ GoesTo(q, "giveUp")
      /\ UNCHANGED <<links, issued, consented, crossed>>
      /\ "giveUp" \in Stages \ {"none", "create", "ask", "store", "mark"}
  BY DEF StoreFails, AtRow, InRefresh, Stages
<1> QED
  BY <1>1, GoingKeeps

LEMMA TokenStep == TokenInv /\ [TokenNext]_tokenVars => TokenInv'
<1> SUFFICES ASSUME TokenInv, [TokenNext]_tokenVars PROVE TokenInv'
  OBVIOUS
<1>1. CASE UNCHANGED <<links, issued, consented, handling, crossed>>
  BY <1>1 DEF TokenInv, IdsInv, TokenTypes, IdsFit, SignInsApart, TokenIsKept, ActiveIsCurrent,
     HoldsNow, AtRow, KnowsToken, InRefresh, Known, Present, LinkIds
<1>2. ASSUME NEW i \in LinkIds, NEW status \in Chosen, SetLinkStatus(i, status) PROVE TokenInv'
  BY <1>2, SetLinkStatusKeeps
<1>3. ASSUME NEW i \in LinkIds, ReplaceToken(i) PROVE TokenInv'
  BY <1>3, ReplaceTokenKeeps
<1>4. CASE Withdraw
  BY <1>1, <1>4 DEF Withdraw
<1>5. ASSUME NEW q \in Requests, RequestStep(q) PROVE TokenInv'
  <2>1. CASE ExchangeCode(q) \/ CreateLink(q) \/ DeleteLink(q)
    BY <2>1, ExchangeCodeKeeps, CreateLinkKeeps, DeleteLinkKeeps
  <2>2. CASE \E i \in LinkIds : \/ Disconnect(q, i)
                                \/ \E op \in {"run", "validate", "test", "refresh"} : BeginCall(q, op, i)
    BY <2>2, DisconnectKeeps, BeginCallKeeps
  <2>3. CASE MarkRefreshing(q) \/ AskProvider(q)
    BY <2>3, MarkRefreshingKeeps, AskProviderKeeps
  <2>4. CASE StoreToken(q) \/ StoreFails(q) \/ GiveUp(q)
    BY <2>4, StoreTokenKeeps, StoreFailsKeeps, GiveUpKeeps
  <2>5. CASE JudgeLink(q) \/ RecordVerdict(q) \/ RecordTest(q)
    BY <2>5, JudgeLinkKeeps, RecordVerdictKeeps, RecordTestKeeps
  <2>6. CASE AbandonRequest(q)
    BY <2>6, EndKeeps DEF AbandonRequest
  <2> QED
    BY <1>5, <2>1, <2>2, <2>3, <2>4, <2>5, <2>6 DEF RequestStep
<1> QED
  BY <1>1, <1>2, <1>3, <1>4, <1>5 DEF TokenNext, tokenVars

(* For any number of rows and calls: whatever answers were lost and wherever    *)
(* calls died (refreshOAuthConnection), and whatever was done with the rows of  *)
(* earlier consents, the row that was consented to last holds, while it is      *)
(* active and nothing crossed it, the last token issued.                        *)
THEOREM TokensStayCurrent == TokenSpec => []ActiveHoldsCurrentToken
<1>1. TokenInv => ActiveHoldsCurrentToken
  BY NoLinkIsRow DEF TokenInv, TokenIsKept, ActiveIsCurrent, Present, ActiveHoldsCurrentToken
<1> QED
  BY <1>1, TokenStarts, TokenStep, PTL DEF TokenSpec

-----------------------------------------------------------------------------
(* The vault's notes. *)

NoteRows  == [state : {"free", "held", "gone"}, label : Nat, body : Nat, sealed : BOOLEAN]
NoteCalls == [at : {"none", "file", "find", "update", "create", "edit", "delete"},
              row : Rows \cup {NoRow}, text : Nat, saw : SUBSET Rows]
Sealings  == [at : {"read", "write", "done"}, row : Rows \cup {NoRow}, body : Nat]

NotesTypes ==
    /\ file \in Nat /\ contents \in Nat /\ wanted \in Nat \cup {NoRow}
    /\ announced \in BOOLEAN /\ undone \in BOOLEAN
    /\ notes \in [Rows -> NoteRows] /\ tasks \in [Tasks -> NoteCalls] /\ sealing \in Sealings

(* Only the row of an older version is in clear, and the encryption has it.     *)
OneInClear ==
    /\ \A r, s \in Stored : ~ notes[r].sealed /\ ~ notes[s].sealed => r = s
    /\ sealing.at = "write" => \A r \in Stored : notes[r].sealed \/ r = sealing.row
    /\ sealing.at = "done" => \A r \in Stored : notes[r].sealed

(* A row is made beside none. *)
SawNone == \A t \in Tasks : tasks[t].at = "create" => tasks[t].saw = {}

OneRow == \A r, s \in Stored : r = s

(* What is wanted is there, or somebody will still see to it. *)
SeesToIt(t) ==
    \/ tasks[t].at = "file"
    \/ tasks[t].at \in {"find", "update", "create"} /\ tasks[t].text = wanted
InHand == AsWanted \/ announced \/ \E t \in Tasks : SeesToIt(t)

NotesInv == NotesTypes /\ OneInClear /\ SawNone /\ (~ undone => OneRow /\ InHand)

LEMMA NoteRecords ==
    /\ NoNote \in NoteRows /\ OldNote \in NoteRows /\ NoTask \in NoteCalls /\ Unread \in Sealings
    /\ \A text \in Nat : NewNote(text) \in NoteRows /\ NewNote(text).state = "held"
                         /\ NewNote(text).label = text /\ NewNote(text).body = text
                         /\ NewNote(text).sealed
    /\ NoNote.state = "free" /\ OldNote.label = 0 /\ OldNote.body = 0 /\ NoTask.at = "none"
    /\ NoRow \notin Rows /\ NoRow \notin Nat
  BY ContentsAssumption
     DEF NoNote, OldNote, NewNote, NoTask, Unread, NoteRows, NoteCalls, Sealings

LEMMA NotesStart == NotesInit => NotesInv
<1> SUFFICES ASSUME NotesInit PROVE NotesInv
  OBVIOUS
<1> USE NoteRecords
<1>1. NotesTypes /\ SawNone
  <2>1. 0 \in Nat /\ \A t \in Tasks : tasks[t] = NoTask
    BY DEF NotesInit
  <2>2. notes \in [Rows -> NoteRows] /\ wanted \in Nat \cup {NoRow}
    BY <2>1 DEF NotesInit
  <2>3. tasks \in [Tasks -> NoteCalls]
    BY DEF NotesInit
  <2> QED
    BY <2>1, <2>2, <2>3 DEF NotesInit, NotesTypes, SawNone
<1>2. sealing.at = "read"
  BY DEF NotesInit, Unread
<1>3. CASE notes = [r \in Rows |-> NoNote] /\ wanted = NoRow
  <2>1. Stored = {}
    BY <1>3 DEF Stored
  <2> QED
    BY <1>1, <1>2, <1>3, <2>1 DEF NotesInv, OneInClear, OneRow, InHand, AsWanted
<1>4. ASSUME NEW old \in Rows, notes = [r \in Rows |-> IF r = old THEN OldNote ELSE NoNote], wanted = 0
      PROVE  NotesInv
  <2>1. Stored = {old} /\ notes[old] = OldNote
    BY <1>4 DEF Stored, OldNote, NoNote
  <2>2. AsWanted
    BY <1>4, <2>1 DEF AsWanted
  <2> QED
    BY <1>1, <1>2, <2>1, <2>2 DEF NotesInv, OneInClear, OneRow, InHand
<1> QED
  BY <1>3, <1>4 DEF NotesInit

(* Calls that leave the rows alone. *)
LEMMA CallKeeps ==
    ASSUME NotesInv, NEW t \in Tasks,
           NEW at \in {"file", "find", "update", "create", "edit", "delete"},
           NEW row \in Rows \cup {NoRow}, NEW text \in Nat, NEW saw \in SUBSET Rows,
           Task(t, at, row, text, saw), UNCHANGED <<file, notes, sealing, contents, undone>>,
           announced' \in BOOLEAN, wanted' \in Nat \cup {NoRow}, at = "create" => saw = {},
           \/ at = "file" /\ tasks[t] = NoTask /\ wanted' = wanted
           \/ at \in {"edit", "delete"} /\ tasks[t] = NoTask /\ wanted' = wanted /\ announced' = announced
           \/ at = "find" /\ text = wanted'
           \/ /\ at \in {"update", "create"} /\ text = tasks[t].text /\ wanted' = wanted
              /\ tasks[t].at = "find" /\ announced' = announced
    PROVE  NotesInv'
<1> USE NoteRecords
<1>1. NotesTypes /\ OneInClear /\ SawNone /\ Stored' = Stored
  BY DEF NotesInv, Stored
<1>3. tasks' = [tasks EXCEPT ![t] = [at |-> at, row |-> row, text |-> text, saw |-> saw]]
  BY DEF Task
<1> DEFINE call == [at |-> at, row |-> row, text |-> text, saw |-> saw]
<1>4. /\ call \in NoteCalls /\ call.at = at /\ call.text = text /\ call.saw = saw
  BY DEF NoteCalls
<1> HIDE DEF call
<1>5. /\ tasks' \in [Tasks -> NoteCalls] /\ tasks'[t] = call
      /\ \A u \in Tasks : u # t => tasks'[u] = tasks[u]
  BY <1>1, <1>3, <1>4 DEF NotesTypes, call
<1>6. NotesTypes'
  BY <1>1, <1>5 DEF NotesTypes
<1>7. OneInClear' /\ SawNone' /\ (OneRow => OneRow')
  BY <1>1, <1>3, <1>4, <1>5 DEF OneInClear, SawNone, OneRow
<1>8. InHand => InHand'
  <2>1. CASE at \in {"file", "find"}
    BY <1>3, <1>4, <1>5, <2>1 DEF InHand, SeesToIt
  <2>2. CASE at \in {"edit", "delete", "update", "create"}
    <3>1. AsWanted => AsWanted'
      BY <1>1, <1>3, <2>2 DEF AsWanted
    <3>2. \A u \in Tasks : SeesToIt(u) => SeesToIt(u)'
      BY <1>3, <1>4, <1>5, <2>2 DEF SeesToIt
    <3> QED
      BY <1>3, <2>2, <3>1, <3>2 DEF InHand
  <2> QED
    BY <2>1, <2>2
<1> QED
  BY <1>1, <1>6, <1>7, <1>8 DEF NotesInv

LEMMA CallsKeep ==
    ASSUME NotesInv, NEW t \in Tasks,
           \/ WatcherCalls(t) \/ Reindex(t) \/ ReadFile(t) \/ FindNote(t)
           \/ OpenNote(t, "edit") \/ OpenNote(t, "delete")
    PROVE  NotesInv'
<1>1. NotesTypes /\ Stored \subseteq Rows /\ tasks[t].text \in Nat
  BY DEF NotesInv, NotesTypes, NoteCalls, Stored
<1>2. NoRow \in Rows \cup {NoRow} /\ {} \in SUBSET Rows /\ 0 \in Nat
  OBVIOUS
<1>3. CASE WatcherCalls(t)
  BY <1>1, <1>2, <1>3, CallKeeps DEF WatcherCalls, NotesTypes
<1>4. CASE Reindex(t)
  BY <1>1, <1>2, <1>4, CallKeeps DEF Reindex, NotesTypes
<1>5. CASE ReadFile(t)
  BY <1>1, <1>2, <1>5, CallKeeps DEF ReadFile, NotesTypes
<1>6. CASE FindNote(t)
  <2>1. ASSUME NEW r \in Stored, Task(t, "update", r, tasks[t].text, Stored) PROVE NotesInv'
    BY <1>1, <1>6, <2>1, CallKeeps DEF FindNote, NotesTypes
  <2>2. ASSUME Stored = {}, Task(t, "create", NoRow, tasks[t].text, Stored) PROVE NotesInv'
    BY <1>1, <1>2, <1>6, <2>2, CallKeeps DEF FindNote, NotesTypes
  <2> QED
    BY <1>6, <2>1, <2>2 DEF FindNote
<1>7. ASSUME NEW op \in {"edit", "delete"}, OpenNote(t, op) PROVE NotesInv'
  <2>1. PICK r \in Stored : Task(t, op, r, 0, {})
    BY <1>7 DEF OpenNote
  <2> QED
    BY <1>1, <1>2, <1>7, <2>1, CallKeeps DEF OpenNote, NotesTypes
<1> QED
  BY <1>3, <1>4, <1>5, <1>6, <1>7

LEMMA SaveKeeps ==
    ASSUME NotesInv, SaveFile
    PROVE  NotesInv'
<1>1. /\ UNCHANGED <<notes, tasks, sealing>> /\ Stored' = Stored
      /\ contents' = contents + 1 /\ file' = contents + 1 /\ wanted' = contents + 1
      /\ announced' = (sealing.at = "done") /\ undone' = (undone \/ sealing.at # "done")
  BY DEF SaveFile, Anew, Stored
<1>2. NotesTypes'
  BY <1>1 DEF NotesInv, NotesTypes
<1>3. OneInClear' /\ SawNone' /\ (OneRow => OneRow')
  BY <1>1 DEF NotesInv, OneInClear, SawNone, OneRow
<1>4. ~ undone' => ~ undone /\ announced'
  BY <1>1
<1> QED
  BY <1>2, <1>3, <1>4 DEF NotesInv, InHand

(* A call writes a row, or makes it, and ends. *)
LEMMA NoteKeeps ==
    ASSUME NotesInv, NEW t \in Tasks, NEW r \in Rows, NEW text \in Nat,
           tasks' = [tasks EXCEPT ![t] = NoTask], notes' = [notes EXCEPT ![r] = NewNote(text)],
           UNCHANGED <<announced, sealing>>,
           file' \in Nat, contents' \in Nat, wanted' \in Nat \cup {NoRow}, undone' \in BOOLEAN,
           ~ undone' =>
               /\ ~ undone /\ Stored \subseteq {r}
               /\ wanted' = text \/ (wanted' = wanted /\ ~ AsWanted /\ tasks[t].text # wanted
                                     /\ tasks[t].at \in {"update", "create"})
    PROVE  NotesInv'
<1> USE NoteRecords
<1>1. NotesTypes /\ OneInClear /\ SawNone
  BY DEF NotesInv
<1>2. /\ notes'[r] = NewNote(text) /\ \A s \in Rows : s # r => notes'[s] = notes[s]
      /\ tasks'[t] = NoTask /\ \A u \in Tasks : u # t => tasks'[u] = tasks[u]
  BY <1>1 DEF NotesTypes
<1>3. Stored' = Stored \cup {r}
  BY <1>2 DEF Stored
<1>4. NotesTypes'
  BY <1>1 DEF NotesTypes
<1>5. OneInClear'
  BY <1>1, <1>2, <1>3 DEF OneInClear, Stored
<1>6. SawNone'
  BY <1>1, <1>2 DEF SawNone
<1>7. ASSUME ~ undone' PROVE OneRow' /\ InHand'
  <2>1. Stored' = {r} /\ InHand
    BY <1>3, <1>7 DEF NotesInv
  <2>2. CASE wanted' = text
    <3>1. AsWanted'
      BY <1>2, <2>1, <2>2 DEF AsWanted
    <3> QED
      BY <2>1, <3>1 DEF OneRow, InHand
  <2>3. CASE wanted' = wanted /\ ~ AsWanted /\ tasks[t].text # wanted /\ tasks[t].at \in {"update", "create"}
    <3>1. \A u \in Tasks : SeesToIt(u) => SeesToIt(u)'
      BY <1>2, <2>3 DEF SeesToIt
    <3> QED
      BY <2>1, <2>3, <3>1 DEF OneRow, InHand
  <2> QED
    BY <1>7, <2>2, <2>3
<1> QED
  BY <1>4, <1>5, <1>6, <1>7 DEF NotesInv

LEMMA UpdateKeeps ==
    ASSUME NotesInv, NEW t \in Tasks, UpdateNote(t) \/ CreateNote(t) \/ EditNote(t)
    PROVE  NotesInv'
<1>1. NotesTypes /\ SawNone /\ tasks[t].text \in Nat
  BY DEF NotesInv, NotesTypes, NoteCalls
<1>2. CASE UpdateNote(t)
  <2> DEFINE r == tasks[t].row
  <2>1. r \in Stored /\ r \in Rows
    BY <1>2 DEF UpdateNote, Stored
  <2>2. /\ tasks' = [tasks EXCEPT ![t] = NoTask] /\ notes' = [notes EXCEPT ![r] = NewNote(tasks[t].text)]
        /\ UNCHANGED <<file, announced, sealing, contents, wanted>> /\ tasks[t].at = "update"
        /\ undone' = (undone \/ (AsWanted /\ wanted # tasks[t].text))
    BY <1>2 DEF UpdateNote, EndTask, Undoes
  <2>3. ~ undone => Stored \subseteq {r}
    BY <2>1 DEF NotesInv, OneRow
  <2> QED
    BY <1>1, <2>1, <2>2, <2>3, NoteKeeps DEF NotesTypes
<1>3. CASE CreateNote(t)
  <2>1. PICK r \in Rows : notes' = [notes EXCEPT ![r] = NewNote(tasks[t].text)]
    BY <1>3 DEF CreateNote
  <2>2. /\ tasks' = [tasks EXCEPT ![t] = NoTask]
        /\ UNCHANGED <<file, announced, sealing, contents, wanted>> /\ tasks[t].at = "create"
        /\ undone' = (undone \/ (AsWanted /\ wanted # tasks[t].text) \/ Stored # {})
    BY <1>1, <1>3 DEF CreateNote, EndTask, Undoes, SawNone
  <2> QED
    BY <1>1, <2>1, <2>2, NoteKeeps DEF NotesTypes
<1>4. CASE EditNote(t)
  <2> DEFINE r == tasks[t].row
  <2>1. r \in Stored /\ r \in Rows
    BY <1>4 DEF EditNote, Stored
  <2>2. /\ tasks' = [tasks EXCEPT ![t] = NoTask] /\ notes' = [notes EXCEPT ![r] = NewNote(contents + 1)]
        /\ UNCHANGED <<file, announced, sealing, undone>>
        /\ wanted' = contents + 1 /\ contents' = contents + 1
    BY <1>4 DEF EditNote, EndTask, Anew
  <2>3. ~ undone => Stored \subseteq {r}
    BY <2>1 DEF NotesInv, OneRow
  <2>4. contents + 1 \in Nat
    BY <1>1 DEF NotesTypes
  <2> QED
    BY <1>1, <2>1, <2>2, <2>3, <2>4, NoteKeeps DEF NotesTypes
<1> QED
  BY <1>2, <1>3, <1>4

LEMMA DeleteKeeps ==
    ASSUME NotesInv, NEW t \in Tasks, DeleteNote(t)
    PROVE  NotesInv'
<1> USE NoteRecords
<1> DEFINE r == tasks[t].row
<1>1. NotesTypes /\ OneInClear /\ SawNone
  BY DEF NotesInv
<1>2. /\ r \in Stored /\ r \in Rows /\ tasks' = [tasks EXCEPT ![t] = NoTask]
      /\ notes' = [notes EXCEPT ![r].state = "gone"] /\ wanted' = NoRow
      /\ UNCHANGED <<file, announced, sealing, contents, undone>>
  BY DEF DeleteNote, EndTask, Stored
<1>3. notes[r] \in NoteRows /\ [notes[r] EXCEPT !.state = "gone"] \in NoteRows
  BY <1>1, <1>2 DEF NotesTypes, NoteRows
<1>4. /\ notes' \in [Rows -> NoteRows] /\ notes'[r].state = "gone"
      /\ \A s \in Rows : s # r => notes'[s] = notes[s]
      /\ tasks'[t] = NoTask /\ \A u \in Tasks : u # t => tasks'[u] = tasks[u]
  <2>1. notes' = [notes EXCEPT ![r] = [notes[r] EXCEPT !.state = "gone"]]
    BY <1>1, <1>2 DEF NotesTypes
  <2>2. [notes[r] EXCEPT !.state = "gone"].state = "gone"
    BY <1>3 DEF NoteRows
  <2> QED
    BY <1>1, <1>2, <1>3, <2>1, <2>2 DEF NotesTypes
<1>5. Stored' = Stored \ {r}
  BY <1>2, <1>4 DEF Stored
<1>6. NotesTypes'
  BY <1>1, <1>2, <1>4 DEF NotesTypes
<1>7. OneInClear' /\ SawNone'
  BY <1>1, <1>2, <1>4, <1>5 DEF OneInClear, SawNone, Stored
<1>8. ~ undone => OneRow' /\ AsWanted'
  BY <1>2, <1>5 DEF NotesInv, OneRow, AsWanted
<1> QED
  BY <1>2, <1>6, <1>7, <1>8 DEF NotesInv, InHand

(* A call or all of them are cut short. *)
LEMMA CutKeeps ==
    ASSUME NotesInv, ProcessEnds \/ \E t \in Tasks : TaskFails(t)
    PROVE  NotesInv'
<1> USE NoteRecords
<1>1. NotesTypes /\ OneInClear /\ SawNone
  BY DEF NotesInv
<1>2. /\ UNCHANGED <<file, notes, contents, wanted>> /\ Stored' = Stored
      /\ announced' \in {announced, FALSE} /\ sealing' \in {sealing, Unread}
      /\ undone' = (undone \/ ~ AsWanted)
      /\ \A u \in Tasks : tasks'[u] \in {tasks[u], NoTask}
      /\ tasks' \in [Tasks -> NoteCalls]
  <2>1. CASE ProcessEnds
    BY <2>1 DEF ProcessEnds, Stored
  <2>2. ASSUME NEW t \in Tasks, TaskFails(t)
        PROVE  /\ \A u \in Tasks : tasks'[u] \in {tasks[u], NoTask}
               /\ tasks' \in [Tasks -> NoteCalls]
    BY <1>1, <2>2 DEF TaskFails, EndTask, NotesTypes
  <2>3. CASE \E t \in Tasks : TaskFails(t)
    BY <2>2, <2>3 DEF TaskFails, Stored
  <2> QED
    BY <2>1, <2>3
<1>3. NotesTypes' /\ SawNone'
  BY <1>1, <1>2 DEF NotesTypes, SawNone
<1>4. OneInClear'
  BY <1>1, <1>2 DEF OneInClear, Unread
<1>5. ~ undone' => ~ undone /\ AsWanted' /\ (OneRow => OneRow')
  BY <1>1, <1>2 DEF AsWanted, OneRow, NotesTypes
<1> QED
  BY <1>3, <1>4, <1>5 DEF NotesInv, InHand

LEMMA SealKeeps ==
    ASSUME NotesInv, SealRead \/ SealWrite
    PROVE  NotesInv'
<1> USE NoteRecords
<1>1. NotesTypes /\ OneInClear /\ SawNone
  BY DEF NotesInv
<1>2. CASE SealRead
  <2>1. UNCHANGED <<file, announced, notes, tasks, contents, wanted, undone>> /\ Stored' = Stored
    BY <1>2 DEF SealRead, Stored
  <2>2. \/ \E r \in Stored : ~ notes[r].sealed /\ sealing' = [at |-> "write", row |-> r, body |-> notes[r].body]
        \/ (\A r \in Stored : notes[r].sealed) /\ sealing' = [Unread EXCEPT !.at = "done"]
    BY <1>2 DEF SealRead
  <2>3. sealing' \in Sealings /\ OneInClear'
    <3>1. ASSUME NEW r \in Stored, ~ notes[r].sealed,
                 sealing' = [at |-> "write", row |-> r, body |-> notes[r].body]
          PROVE  sealing' \in Sealings /\ OneInClear'
      <4>1. r \in Rows /\ notes[r].body \in Nat
        BY <1>1, <3>1 DEF Stored, NotesTypes, NoteRows
      <4> QED
        BY <1>1, <2>1, <3>1, <4>1 DEF OneInClear, Sealings
    <3>2. ASSUME \A r \in Stored : notes[r].sealed, sealing' = [Unread EXCEPT !.at = "done"]
          PROVE  sealing' \in Sealings /\ OneInClear'
      BY <1>1, <2>1, <3>2 DEF OneInClear, Sealings, Unread
    <3> QED
      BY <2>2, <3>1, <3>2
  <2>4. NotesTypes' /\ SawNone'
    BY <1>1, <2>1, <2>3 DEF NotesTypes, SawNone
  <2> QED
    BY <2>1, <2>3, <2>4 DEF NotesInv, OneRow, InHand, AsWanted, SeesToIt
<1>3. CASE SealWrite
  <2> DEFINE r == sealing.row
             new == [notes[r] EXCEPT !.body = sealing.body, !.sealed = TRUE]
  <2>1. /\ sealing.at = "write" /\ r \in Stored /\ r \in Rows
        /\ notes' = [notes EXCEPT ![r].body = sealing.body, ![r].sealed = TRUE]
        /\ undone' = (undone \/ notes[r].body # sealing.body)
        /\ sealing' = [Unread EXCEPT !.at = "done"]
        /\ UNCHANGED <<file, announced, tasks, contents, wanted>>
    BY <1>3 DEF SealWrite, Stored
  <2>2. /\ new \in NoteRows /\ new.body = sealing.body /\ new.sealed
        /\ new.label = notes[r].label /\ new.state = notes[r].state
    BY <1>1, <2>1 DEF NotesTypes, NoteRows, Sealings
  <2>3. notes' = [notes EXCEPT ![r] = new]
    BY <1>1, <2>1 DEF NotesTypes, NoteRows
  <2> HIDE DEF new
  <2>4. /\ notes' \in [Rows -> NoteRows] /\ notes'[r] = new
        /\ \A s \in Rows : s # r => notes'[s] = notes[s]
    BY <1>1, <2>1, <2>2, <2>3 DEF NotesTypes
  <2>5. Stored' = Stored
    BY <2>2, <2>4 DEF Stored
  <2>6. sealing' \in Sealings /\ sealing'.at = "done"
    BY <2>1 DEF Sealings, Unread
  <2>7. OneInClear'
    BY <1>1, <2>1, <2>2, <2>4, <2>5, <2>6 DEF OneInClear, Stored
  <2>8. NotesTypes' /\ SawNone'
    BY <1>1, <2>1, <2>4, <2>6 DEF NotesTypes, SawNone
  <2>9. ~ undone' => ~ undone /\ (AsWanted => AsWanted')
    <3> SUFFICES ASSUME ~ undone', AsWanted PROVE AsWanted'
      BY <2>1
    <3>1. notes'[r].label = notes[r].label /\ notes'[r].body = notes[r].body
      BY <2>1, <2>2, <2>4
    <3> QED
      BY <2>1, <2>4, <2>5, <3>1 DEF AsWanted
  <2>10. (OneRow => OneRow') /\ (\A t \in Tasks : SeesToIt(t) => SeesToIt(t)')
    BY <2>1, <2>5 DEF OneRow, SeesToIt
  <2> QED
    BY <2>1, <2>7, <2>8, <2>9, <2>10 DEF NotesInv, InHand
<1> QED
  BY <1>2, <1>3

LEMMA NotesStep == NotesInv /\ [NotesNext]_notesVars => NotesInv'
<1> SUFFICES ASSUME NotesInv, [NotesNext]_notesVars PROVE NotesInv'
  OBVIOUS
<1>1. CASE UNCHANGED notesVars
  BY <1>1 DEF notesVars, NotesInv, NotesTypes, OneInClear, SawNone, OneRow, InHand, AsWanted,
     SeesToIt, Stored
<1> QED
  BY <1>1, SaveKeeps, CallsKeep, UpdateKeeps, DeleteKeeps, CutKeeps, SealKeeps DEF NotesNext

(* However indexings, edits, deletions, the encryption of old rows and crashes  *)
(* interleave, a vault with nothing under way holds what was last asked of it,  *)
(* unless a call undid it, and after the encryption no row is in clear.         *)
THEOREM QuietVaultsAreCurrent == NotesSpec => []QuietVaultIsCurrent
<1>1. NotesInv => QuietVaultIsCurrent
  <2> SUFFICES ASSUME NotesInv, \A t \in Tasks : tasks[t] = NoTask, ~ announced, ~ undone
               PROVE  AsWanted
    BY DEF NotesInv, OneInClear, QuietVaultIsCurrent
  <2> QED
    BY NoteRecords DEF NotesInv, InHand, SeesToIt
<1> QED
  BY <1>1, NotesStart, NotesStep, PTL DEF NotesSpec

-----------------------------------------------------------------------------
(* Bookings: the queue's steps, and the version the provider holds. *)

BookingTypeOK ==
    /\ QueueTypeOK
    /\ truth \in 0..LastVersion
    /\ appointment \in [BookingVersions -> 0..LastVersion]
    /\ life \in [BookingVersions -> 0..LastVersion]
    /\ agent \in Places /\ place \in [Jobs -> [Claims -> Places]]
    /\ raced \in BOOLEAN

(* Every job is about one version. *)
LEMMA BookingJobs ==
    /\ \A v \in BookingVersions :
        /\ Webhook(v) \in Jobs /\ Reconciliation(v) \in Jobs
        /\ Event(Webhook(v)) = v /\ Event(Reconciliation(v)) = v
        /\ \A u \in BookingVersions : Webhook(v) # Reconciliation(u)
    /\ \A j \in Jobs :
        /\ Event(j) \in BookingVersions
        /\ \/ j = Webhook(Event(j)) /\ j # Reconciliation(Event(j))
           \/ j = Reconciliation(Event(j)) /\ j # Webhook(Event(j))
  BY JobsAssumption DEF Webhook, Reconciliation, Event

LEMMA BookingRecords ==
    /\ LastVersion \in Nat \ {0} /\ BookingVersions \subseteq 0..LastVersion
    /\ Nowhere \in Places /\ Nowhere.stage = "none" /\ Nowhere.version = 0
    /\ \A s \in BookingStages, k, v \in 0..LastVersion :
        /\ Place(s, k, v) \in Places
        /\ Place(s, k, v).stage = s /\ Place(s, k, v).row = k /\ Place(s, k, v).version = v
    /\ \A p \in Places :
        p.stage \in BookingStages /\ p.row \in 0..LastVersion /\ p.version \in 0..LastVersion
  BY BoundsAssumption
     DEF Nowhere, Place, Places, BookingStages, BookingVersions

(* A write keeps a table a table, and what findFirst returns is a row or none. *)
LEMMA RowsWritten ==
    ASSUME NEW table \in [BookingVersions -> 0..LastVersion], NEW rowset, NEW v \in 0..LastVersion
    PROVE  /\ Written(table, rowset, v) \in [BookingVersions -> 0..LastVersion]
           /\ \A k \in BookingVersions :
                Written(table, rowset, v)[k] = IF k \in rowset THEN v ELSE table[k]
  BY DEF Written

LEMMA RowsFound ==
    ASSUME NEW table, NEW v
    PROVE  /\ Reached(table, v) \subseteq BookingVersions /\ Bearing(table, v) \subseteq BookingVersions
           /\ FirstOf(Reached(table, v)) \subseteq 0..LastVersion
           /\ FirstOf(Bearing(table, v)) \subseteq 0..LastVersion /\ FirstOf({}) \subseteq 0..LastVersion
<1>1. ASSUME NEW S, S \subseteq BookingVersions PROVE FirstOf(S) \subseteq 0..LastVersion
  <2>1. FirstOf(S) = {0} \/ FirstOf(S) = S
    BY DEF FirstOf
  <2>2. 0 \in 0..LastVersion /\ S \subseteq 0..LastVersion
    BY <1>1, BookingRecords
  <2> QED
    BY <2>1, <2>2
<1>2. Reached(table, v) \subseteq BookingVersions /\ Bearing(table, v) \subseteq BookingVersions
  BY DEF Reached, Bearing
<1>3. {} \subseteq BookingVersions
  OBVIOUS
<1> QED
  BY <1>1, <1>2, <1>3

LEMMA BookingInitType == BookingInit => BookingTypeOK /\ Queue!Init
<1> SUFFICES ASSUME BookingInit PROVE BookingTypeOK /\ Queue!Init
  OBVIOUS
<1>1. QueueTypeOK /\ Queue!Init
  BY QueueInitType DEF BookingInit
<1>2. 0 \in 0..LastVersion
  BY BookingRecords
<1> QED
  BY <1>1, <1>2, BookingRecords DEF BookingInit, BookingTypeOK, Unbooked

(* An execution moves on, and no other with it. *)
LEMMA ExecutionMoves ==
    ASSUME BookingTypeOK, NEW j \in Jobs, NEW n \in Claims, NEW from \in BookingStages,
           NEW stage \in BookingStages, NEW r \in 0..LastVersion, NEW v \in 0..LastVersion,
           Moves(j, n, from, stage, r, v)
    PROVE  /\ place' \in [Jobs -> [Claims -> Places]]
           /\ place[j][n].stage = from
           /\ place'[j][n].stage = stage /\ place'[j][n].row = r /\ place'[j][n].version = v
           /\ \A k \in Jobs, m \in Claims : k # j \/ m # n => place'[k][m] = place[k][m]
<1> DEFINE there == Place(stage, r, v)
<1>1. there \in Places /\ there.stage = stage /\ there.row = r /\ there.version = v
  BY BookingRecords
<1>2. place[j][n].stage = from /\ place' = [place EXCEPT ![j][n] = there]
  BY DEF Moves
<1> HIDE DEF there
<1> QED
  BY <1>1, <1>2 DEF BookingTypeOK

(* A place is somewhere exactly while its execution runs. *)
PlacesMatch == \A j \in Jobs, n \in Claims : n \in working[j] <=> place[j][n].stage # "none"

Works(j, n) == Run(j, n) \/ ExecutionFails(j, n)

Unfinished == {"waiting", "dead_letter"}

(* Of the queue, an execution does nothing, enqueues the reconciliation of its  *)
(* event, or ends; it succeeds at the end of its work only.                     *)
Silent(j, n)   == UNCHANGED queue /\ place'[j][n].stage # "none"
Enqueues(j, n) ==
    /\ j = Webhook(Event(j)) /\ EnqueueJob(Reconciliation(Event(j)))
    /\ place'[j][n].stage # "none"
Closes(j, n) ==
    /\ place'[j][n].stage = "none"
    /\ \/ StopJob(j, n)
       \/ \E verdict \in Unfinished : ConcludeJob(j, n, verdict)
       \/ place[j][n].stage = "succeeding" /\ ConcludeJob(j, n, "succeeded") /\ UNCHANGED rows

LEMMA FailsUnfinished ==
    ASSUME NEW j, NEW n, FailJob(j, n)
    PROVE  \E verdict \in Unfinished : ConcludeJob(j, n, verdict)
  BY DEF FailJob, Unfinished

LEMMA WorkKinds ==
    ASSUME BookingTypeOK, PlacesMatch, NEW j \in Jobs, NEW n \in Claims, Works(j, n)
    PROVE  /\ place' \in [Jobs -> [Claims -> Places]] /\ place[j][n].stage # "none"
           /\ \A k \in Jobs, m \in Claims : k # j \/ m # n => place'[k][m] = place[k][m]
           /\ Silent(j, n) \/ Enqueues(j, n) \/ Closes(j, n)
<1> USE BookingJobs, BookingRecords
<1> DEFINE Kept == /\ place' \in [Jobs -> [Claims -> Places]] /\ place[j][n].stage # "none"
                   /\ \A k \in Jobs, m \in Claims : k # j \/ m # n => place'[k][m] = place[k][m]
<1> DEFINE v == Event(j)
<1>0. v \in BookingVersions /\ v \in 0..LastVersion /\ 0 \in 0..LastVersion
  OBVIOUS
<1>a. place[j][n] \in Places
  BY DEF BookingTypeOK
<1>1. CASE j = Webhook(v) /\ FindBooking(v, n)
  <2>1. PICK k \in FirstOf(Reached(appointment, v)) : Moves(j, n, "finding", "enqueuing", k, v)
    BY <1>1 DEF FindBooking
  <2>2. k \in 0..LastVersion /\ UNCHANGED queue
    BY <1>1, RowsFound DEF FindBooking
  <2> HIDE DEF v
  <2> QED
    BY <1>0, <2>1, <2>2, ExecutionMoves DEF BookingStages, Silent
<1>2. CASE j = Webhook(v) /\ EnqueueReconciliation(v, n)
  <2> DEFINE u == place[j][n].row
             s == IF u = 0 THEN "succeeding" ELSE "appointing"
  <2>1. u \in 0..LastVersion /\ s \in BookingStages /\ s # "none"
    BY <1>a DEF BookingStages
  <2>2. Moves(j, n, "enqueuing", s, u, v) /\ EnqueueJob(Reconciliation(v))
    BY <1>2 DEF EnqueueReconciliation
  <2>3. j = Webhook(Event(j))
    BY <1>2
  <2>4. Kept /\ place'[j][n].stage = s
    BY <1>0, <2>1, <2>2, ExecutionMoves DEF BookingStages
  <2> QED
    BY <2>1, <2>2, <2>3, <2>4 DEF Enqueues
<1>3. CASE j = Reconciliation(v) /\ FindCorrelation(v, n)
  <2>1. CASE Moves(j, n, "finding", "none", 0, 0) /\ FailJob(j, n)
    BY <1>0, <2>1, ExecutionMoves, FailsUnfinished DEF BookingStages, Closes
  <2>2. ASSUME NEW k \in Reached(appointment, v),
               Moves(j, n, "finding", "connecting", k, 0), UNCHANGED queue
        PROVE  Kept /\ Silent(j, n)
    <3>1. k \in 0..LastVersion
      BY RowsFound
    <3> QED
      BY <1>0, <2>2, <3>1, ExecutionMoves DEF BookingStages, Silent
  <2> QED
    BY <1>3, <2>1, <2>2 DEF FindCorrelation, Leaves
<1>4. CASE j = Reconciliation(v) /\ CheckConnection(v, n)
  <2>1. CASE connected
    <3>1. Moves(j, n, "connecting", "fetching", place[j][n].row, 0) /\ UNCHANGED queue
      BY <1>4, <2>1 DEF CheckConnection
    <3> QED
      BY <1>0, <1>a, <3>1, ExecutionMoves DEF BookingStages, Silent
  <2>2. CASE ~connected
    <3>1. Moves(j, n, "connecting", "none", 0, 0) /\ FailJob(j, n)
      BY <1>4, <2>2 DEF CheckConnection, Leaves
    <3> QED
      BY <1>0, <3>1, ExecutionMoves, FailsUnfinished DEF BookingStages, Closes
  <2> QED
    BY <2>1, <2>2
<1>5. CASE j = Reconciliation(v) /\ Fetch(v, n)
  <2>1. PICK w \in v..truth : Moves(j, n, "fetching", "appointing", place[j][n].row, w)
    BY <1>5 DEF Fetch
  <2>2. w \in 0..LastVersion /\ UNCHANGED queue
    BY <1>0, <1>5 DEF Fetch, BookingTypeOK
  <2> QED
    BY <1>a, <2>1, <2>2, ExecutionMoves DEF BookingStages, Silent
<1>6. CASE WriteAppointment(j, n)
  <2> DEFINE r == place[j][n].row
             u == place[j][n].version
  <2>1. Moves(j, n, "appointing", "living", r, u) /\ UNCHANGED queue
    BY <1>6 DEF WriteAppointment
  <2>2. r \in 0..LastVersion /\ u \in 0..LastVersion
    BY <1>a
  <2> HIDE DEF r, u
  <2> QED
    BY <2>1, <2>2, ExecutionMoves DEF BookingStages, Silent
<1>7. CASE WriteLife(j, n)
  <2>1. Moves(j, n, "living", "succeeding", 0, 0) /\ UNCHANGED queue
    BY <1>7 DEF WriteLife
  <2> QED
    BY <1>0, <2>1, ExecutionMoves DEF BookingStages, Silent
<1>8. CASE Succeed(j, n)
  <2>1. Moves(j, n, "succeeding", "none", 0, 0) /\ ConcludeJob(j, n, "succeeded") /\ UNCHANGED rows
    BY <1>8 DEF Succeed, Leaves
  <2> QED
    BY <1>0, <2>1, ExecutionMoves DEF BookingStages, Closes
<1>9. CASE ExecutionFails(j, n)
  <2>1. place' = [place EXCEPT ![j][n] = Nowhere] /\ place[j][n] # Nowhere
    BY <1>9 DEF ExecutionFails
  <2>3. StopJob(j, n) \/ (\E verdict \in Unfinished : ConcludeJob(j, n, verdict))
    BY <1>9, FailsUnfinished DEF ExecutionFails
  <2>2. place[j][n].stage # "none"
    BY <2>3 DEF StopJob, ConcludeJob, PlacesMatch
  <2>4. Kept /\ place'[j][n].stage = "none"
    BY <2>1, <2>2 DEF BookingTypeOK
  <2> QED
    BY <2>3, <2>4 DEF Closes
<1> QED
  BY <1>1, <1>2, <1>3, <1>4, <1>5, <1>6, <1>7, <1>8, <1>9 DEF Works, Run

(* What becomes of the queue and the other variables while an execution works. *)
LEMMA WorkOnQueue ==
    ASSUME BookingTypeOK, PlacesMatch, NEW j \in Jobs, NEW n \in Claims, Works(j, n)
    PROVE  /\ QueueStep /\ PlacesMatch'
           /\ n \in working[j] /\ UNCHANGED <<holder, truth, agent, uid, raced, astray>>
           /\ \A k \in Jobs : working'[k] \subseteq working[k]
           /\ \A k \in Jobs : k # j /\ phase'[k] # phase[k] =>
                /\ j = Webhook(Event(j)) /\ k = Reconciliation(Event(j))
                /\ phase[k] = "absent" /\ phase'[k] = "waiting"
           /\ n \in working'[j] => phase'[j] = phase[j]
           /\ \/ phase'[j] \in {phase[j]} \cup Unfinished
              \/ place[j][n].stage = "succeeding" /\ UNCHANGED rows
<1> USE BookingJobs
<1>1. /\ place[j][n].stage # "none"
      /\ \A k \in Jobs, m \in Claims : k # j \/ m # n => place'[k][m] = place[k][m]
      /\ Silent(j, n) \/ Enqueues(j, n) \/ Closes(j, n)
  BY WorkKinds
<1>2. n \in working[j]
  BY <1>1 DEF PlacesMatch
<1>3. UNCHANGED <<truth, agent, uid, raced, astray>>
  BY DEF Works, Run, ExecutionFails, FindBooking, EnqueueReconciliation, FindCorrelation,
         CheckConnection, Fetch, WriteAppointment, WriteLife, Succeed, Outside
<1>4. CASE Silent(j, n)
  <2>1. UNCHANGED <<phase, holder, working>> /\ place'[j][n].stage # "none"
    BY <1>4 DEF Silent, queue
  <2>2. PlacesMatch'
    BY <1>1, <1>2, <2>1 DEF PlacesMatch
  <2> QED
    BY <1>2, <1>3, <2>1, <2>2 DEF QueueStep, queue
<1>5. CASE Enqueues(j, n)
  <2> DEFINE r == Reconciliation(Event(j))
  <2>1. r \in Jobs /\ r # j /\ j = Webhook(Event(j)) /\ EnqueueJob(r) /\ place'[j][n].stage # "none"
    BY <1>5 DEF Enqueues
  <2>2. UNCHANGED <<holder, working>>
    BY <2>1 DEF EnqueueJob
  <2>3. \A k \in Jobs : phase'[k] # phase[k] => k = r /\ phase[k] = "absent" /\ phase'[k] = "waiting"
    BY <2>1 DEF EnqueueJob, BookingTypeOK, QueueTypeOK
  <2>4. PlacesMatch'
    BY <1>1, <1>2, <2>1, <2>2 DEF PlacesMatch
  <2> QED
    BY <1>2, <1>3, <2>1, <2>2, <2>3, <2>4 DEF QueueStep, Operation
<1>6. CASE Closes(j, n)
  <2>1. PICK verdict \in {"waiting", "dead_letter", "succeeded"} :
          /\ StopJob(j, n) \/ ConcludeJob(j, n, verdict)
          /\ verdict = "succeeded" => StopJob(j, n) \/ (place[j][n].stage = "succeeding" /\ UNCHANGED rows)
    BY <1>6 DEF Closes, Unfinished
  <2>2. /\ holder' = holder /\ working' = [working EXCEPT ![j] = @ \ {n}]
        /\ phase' = phase \/ phase' = [phase EXCEPT ![j] = verdict]
        /\ phase' = phase \/ ~StopJob(j, n)
    BY <2>1 DEF StopJob, ConcludeJob
  <2>3. \A k \in Jobs : k # j => phase'[k] = phase[k] /\ working'[k] = working[k]
    BY <2>2 DEF BookingTypeOK, QueueTypeOK
  <2>4. working'[j] = working[j] \ {n} /\ phase'[j] \in {phase[j], verdict}
    BY <2>2 DEF BookingTypeOK, QueueTypeOK
  <2>5. \/ phase'[j] \in {phase[j]} \cup Unfinished
        \/ place[j][n].stage = "succeeding" /\ UNCHANGED rows
    BY <2>1, <2>2, <2>4 DEF Unfinished
  <2>6. PlacesMatch'
    <3>1. place'[j][n].stage = "none"
      BY <1>6 DEF Closes
    <3> QED
      BY <1>1, <2>3, <2>4, <3>1 DEF PlacesMatch
  <2>7. QueueStep
    BY <2>1 DEF QueueStep, Operation, Verdicts
  <2> QED
    BY <1>2, <1>3, <2>2, <2>3, <2>4, <2>5, <2>6, <2>7
<1> QED
  BY <1>1, <1>4, <1>5, <1>6

LEMMA WorkType ==
    ASSUME BookingTypeOK, PlacesMatch, NEW j \in Jobs, NEW n \in Claims, Works(j, n)
    PROVE  BookingTypeOK'
<1>1. QueueTypeOK' /\ place' \in [Jobs -> [Claims -> Places]] /\ UNCHANGED <<truth, agent, raced>>
  BY WorkKinds, WorkOnQueue, QueueStepsRefine DEF BookingTypeOK
<1>2. place[j][n].version \in 0..LastVersion
  BY BookingRecords DEF BookingTypeOK
<1>3. /\ appointment' \in [BookingVersions -> 0..LastVersion]
      /\ life' \in [BookingVersions -> 0..LastVersion]
  <2>1. UNCHANGED rows \/ WriteAppointment(j, n) \/ WriteLife(j, n)
    BY DEF Works, Run, ExecutionFails, FindBooking, EnqueueReconciliation, FindCorrelation,
           CheckConnection, Fetch, Succeed
  <2> QED
    BY <1>2, <2>1, RowsWritten DEF BookingTypeOK, rows, WriteAppointment, WriteLife
<1> QED
  BY <1>1, <1>3 DEF BookingTypeOK

(* The steps outside an execution, as to types. *)
LEMMA AgentType ==
    ASSUME BookingTypeOK, PlacesMatch,
           \/ Request \/ SyncFind \/ SyncAppointment \/ SyncLife \/ AgentFails
           \/ ProviderChanges \/ ConnectionChanges
    PROVE  BookingTypeOK' /\ PlacesMatch' /\ UNCHANGED <<queue, place>>
<1> USE BookingRecords
<1>1. UNCHANGED <<queue, place>>
  BY DEF Request, SyncFind, SyncAppointment, SyncLife, AgentFails, ProviderChanges, ConnectionChanges
<1>2. QueueTypeOK' /\ PlacesMatch' /\ place' \in [Jobs -> [Claims -> Places]]
  BY <1>1 DEF BookingTypeOK, QueueTypeOK, PlacesMatch, queue
<1>3. agent.version \in 0..LastVersion
  BY DEF BookingTypeOK
<1>4. CASE Request
  <2>1. truth + 1 \in 0..LastVersion
    BY <1>4 DEF Request, BookingTypeOK
  <2>2. agent' = Place("finding", 0, truth + 1) /\ "finding" \in BookingStages
    BY <1>4 DEF Request, BookingStages
  <2> QED
    BY <1>1, <1>2, <1>4, <2>1, <2>2 DEF Request, BookingTypeOK, rows, Busy
<1>5. CASE SyncFind
  <2>1. PICK k \in FirstOf(Prior(appointment)) : agent' = Place("appointing", k, agent.version)
    BY <1>5 DEF SyncFind
  <2>2. k \in 0..LastVersion /\ "appointing" \in BookingStages
    BY RowsFound DEF Prior, BookingStages
  <2> QED
    BY <1>1, <1>2, <1>3, <1>5, <2>1, <2>2 DEF SyncFind, BookingTypeOK, rows
<1>6. CASE SyncAppointment
  <2>1. Place("living", 0, agent.version) \in Places
    BY <1>3 DEF BookingStages
  <2>2. appointment' \in [BookingVersions -> 0..LastVersion] /\ agent' \in Places
    BY <1>3, <1>6, <2>1, RowsWritten DEF SyncAppointment, BookingTypeOK
  <2> QED
    BY <1>1, <1>2, <1>6, <2>2 DEF SyncAppointment, BookingTypeOK
<1>9. CASE SyncLife
  <2> DEFINE those == IF Prior(life) = {} THEN {agent.version} ELSE Prior(life)
  <2>1. life' = Written(life, those, agent.version)
    BY <1>9 DEF SyncLife
  <2>2. life \in [BookingVersions -> 0..LastVersion]
    BY DEF BookingTypeOK
  <2> HIDE DEF those
  <2>4. agent.version \in 0..LastVersion
    BY <1>3
  <2>5. Written(life, those, agent.version) \in [BookingVersions -> 0..LastVersion]
    BY <2>2, <2>4, RowsWritten
  <2>3. life' \in [BookingVersions -> 0..LastVersion]
    BY <2>1, <2>5
  <2> QED
    BY <1>1, <1>2, <1>9, <2>3 DEF SyncLife, BookingTypeOK
<1>10. CASE AgentFails
  BY <1>1, <1>2, <1>10 DEF AgentFails, BookingTypeOK, rows
<1>7. CASE ProviderChanges
  <2>1. truth + 1 \in 0..LastVersion
    BY <1>7 DEF ProviderChanges, BookingTypeOK
  <2> QED
    BY <1>1, <1>2, <1>7, <2>1 DEF ProviderChanges, BookingTypeOK, rows
<1>8. CASE ConnectionChanges
  BY <1>1, <1>2, <1>8 DEF ConnectionChanges, BookingTypeOK, rows
<1> QED
  BY <1>4, <1>5, <1>6, <1>7, <1>8, <1>9, <1>10

LEMMA PollType ==
    ASSUME BookingTypeOK, PlacesMatch, NEW j \in Jobs,
           StartJob(j) \/ LeaseLapses(j) \/ \E v \in BookingVersions : j = Webhook(v) /\ Deliver(v)
    PROVE  BookingTypeOK' /\ PlacesMatch' /\ QueueStep
<1> USE BookingRecords
<1>1. QueueStep
  BY DEF StartJob, LeaseLapses, Deliver, QueueStep, Operation
<1>2. QueueTypeOK'
  BY <1>1, QueueStepsRefine DEF BookingTypeOK
<1>3. CASE StartJob(j)
  <2> DEFINE n == holder[j] + 1
             there == Place("finding", 0, 0)
  <2>1. n \in Claims
    BY <1>3, MaxClaimsAssumption DEF BookingTypeOK, QueueTypeOK, StartJob, ClaimJob, Claims
  <2>2. there \in Places /\ there.stage = "finding"
    BY DEF BookingStages
  <2>3. /\ working' = [working EXCEPT ![j] = @ \cup {n}]
        /\ place' = [place EXCEPT ![j][n] = there]
    BY <1>3 DEF StartJob, ClaimJob
  <2> HIDE DEF n, there
  <2>4. place' \in [Jobs -> [Claims -> Places]] /\ PlacesMatch'
    BY <2>1, <2>2, <2>3 DEF BookingTypeOK, QueueTypeOK, PlacesMatch
  <2>5. raced' \in BOOLEAN
    BY <1>3 DEF StartJob
  <2> QED
    BY <1>1, <1>2, <1>3, <2>4, <2>5 DEF StartJob, BookingTypeOK, rows
<1>4. CASE LeaseLapses(j) \/ \E v \in BookingVersions : Deliver(v)
  <2>1. UNCHANGED <<working, truth, appointment, life, agent, place, raced>>
    BY <1>4 DEF LeaseLapses, LapseJob, Deliver, EnqueueJob, rows
  <2> QED
    BY <1>1, <1>2, <2>1 DEF BookingTypeOK, PlacesMatch
<1> QED
  BY <1>3, <1>4

LEMMA BookingNextType ==
    BookingTypeOK /\ PlacesMatch /\ [BookingNext]_bookingVars
        => BookingTypeOK' /\ PlacesMatch' /\ QueueStep
<1> SUFFICES ASSUME BookingTypeOK, PlacesMatch, [BookingNext]_bookingVars
             PROVE  BookingTypeOK' /\ PlacesMatch' /\ QueueStep
  OBVIOUS
<1>1. CASE \/ Request \/ SyncFind \/ SyncAppointment \/ SyncLife \/ AgentFails
           \/ ProviderChanges \/ ConnectionChanges
  BY <1>1, AgentType DEF QueueStep
<1>2. ASSUME NEW v \in BookingVersions, Deliver(v) PROVE BookingTypeOK' /\ PlacesMatch' /\ QueueStep
  BY <1>2, PollType, BookingJobs
<1>3. ASSUME NEW j \in Jobs, StartJob(j) \/ LeaseLapses(j)
      PROVE  BookingTypeOK' /\ PlacesMatch' /\ QueueStep
  BY <1>3, PollType
<1>4. ASSUME NEW j \in Jobs, NEW n \in Claims, Works(j, n)
      PROVE  BookingTypeOK' /\ PlacesMatch' /\ QueueStep
  BY <1>4, WorkType, WorkOnQueue
<1>5. CASE UNCHANGED bookingVars
  BY <1>5 DEF bookingVars, BookingTypeOK, QueueTypeOK, PlacesMatch, QueueStep, queue
<1> QED
  BY <1>1, <1>2, <1>3, <1>4, <1>5 DEF BookingNext, Works

(* The jobs of a booking live as LeasedQueue promises. *)
THEOREM BookingJobsImplementLeasedQueue == BookingSpec => Queue!Spec
<1>1. BookingInit => BookingTypeOK /\ PlacesMatch /\ Queue!Init
  BY BookingInitType, BookingRecords DEF BookingInit, QueueInit, PlacesMatch
<1>2. BookingTypeOK /\ [BookingNext]_bookingVars /\ PlacesMatch => [Queue!Next]_(Queue!vars)
  BY BookingNextType, QueueStepsRefine DEF BookingTypeOK
<1> QED
  BY <1>1, <1>2, BookingNextType, PTL DEF BookingSpec, Queue!Spec

(* While nothing has raced one writer is at work at a time, and whatever puts   *)
(* the booking out of date leaves a reconciliation that has yet to succeed.     *)
OneWriter ==
    /\ \A e, f \in Executing : e = f
    /\ agent # Nowhere => Executing = {}

ExecutionHolds ==
    \A j \in Jobs, n \in Claims :
        n \in working[j] => holder[j] = n /\ phase[j] \in {"held", "waiting"}

UntoldIsAbsent == \A j \in Jobs : Event(j) > truth => phase[j] = "absent"

LatestUnasked == phase[Reconciliation(truth)] = "absent"

AgentIsAhead == agent # Nowhere => truth > 0 /\ LatestUnasked

EventIsAhead ==
    \A v \in BookingVersions, n \in Claims :
        n \in working[Webhook(v)] => phase[Reconciliation(v)] \in {"absent", "waiting"}

Excused == LatestUnasked \/ astray

(* Unless excused, the reconciliation in hand is about the current uid, has found *)
(* a row and has been told the latest version.                                    *)
OnCourse ==
    \A v \in BookingVersions, n \in Claims :
        n \in working[Reconciliation(v)] => Excused \/ uid[v] = uid[truth]

RowInHand ==
    \A v \in BookingVersions, n \in Claims :
        place[Reconciliation(v)][n].stage \in {"connecting", "fetching", "appointing"} =>
            place[Reconciliation(v)][n].row \in BookingVersions

Shown == \E k \in BookingVersions : appointment[k] = truth

FetchedIsLatest ==
    \A v \in BookingVersions, n \in Claims :
        LET p == place[Reconciliation(v)][n]
        IN  /\ p.stage = "appointing" => Excused \/ p.version = truth
            /\ p.stage = "living" => Excused \/ (p.version = truth /\ Shown)
            /\ p.stage = "succeeding" => Excused \/ Agrees

Owed == \E v \in 1..truth : phase[Reconciliation(v)] # "succeeded"

OwedOrRight == truth > 0 => Agrees \/ Owed \/ astray

Serial ==
    /\ OneWriter /\ ExecutionHolds /\ UntoldIsAbsent /\ AgentIsAhead /\ EventIsAhead
    /\ OnCourse /\ RowInHand /\ FetchedIsLatest /\ OwedOrRight

BookingInv == BookingTypeOK /\ PlacesMatch /\ (~raced => Serial)

LEMMA BookingStarts == BookingInit => BookingInv
<1> SUFFICES ASSUME BookingInit PROVE BookingInv
  OBVIOUS
<1>1. BookingTypeOK /\ PlacesMatch
  BY BookingInitType, BookingRecords DEF BookingInit, QueueInit, PlacesMatch
<1>2. Executing = {} /\ \A j \in Jobs : working[j] = {} /\ phase[j] = "absent"
  BY DEF BookingInit, QueueInit, Executing
<1>3. OneWriter /\ ExecutionHolds /\ UntoldIsAbsent /\ EventIsAhead
  BY <1>2, BookingJobs DEF OneWriter, ExecutionHolds, UntoldIsAbsent, EventIsAhead
<1>4. AgentIsAhead /\ OwedOrRight
  BY DEF BookingInit, AgentIsAhead, OwedOrRight
<1>5. OnCourse /\ RowInHand /\ FetchedIsLatest
  BY <1>2, BookingJobs, BookingRecords DEF BookingInit, OnCourse, RowInHand, FetchedIsLatest
<1> QED
  BY <1>1, <1>3, <1>4, <1>5 DEF BookingInv, Serial

(* A version of which no reconciliation was asked is owed. *)
LEMMA UnaskedIsOwed ==
    ASSUME BookingTypeOK, truth > 0, LatestUnasked
    PROVE  Owed
<1>1. truth \in 1..truth
  BY BookingRecords DEF BookingTypeOK
<1> QED
  BY <1>1 DEF LatestUnasked, Owed

LEMMA ExecutionPairs ==
    /\ Executing = {} <=> \A j \in Jobs, n \in Claims : n \notin working[j]
    /\ (\A e, f \in Executing : e = f)
         <=> \A j, k \in Jobs, n, m \in Claims : n \in working[j] /\ m \in working[k] => j = k /\ n = m
<1>1. \A j \in Jobs, n \in Claims : n \in working[j] => <<j, n>> \in Executing
  BY DEF Executing
<1>2. \A e \in Executing : e[1] \in Jobs /\ e[2] \in Claims /\ e[2] \in working[e[1]] /\ e = <<e[1], e[2]>>
  BY DEF Executing
<1>4. Executing = {} <=> \A j \in Jobs, n \in Claims : n \notin working[j]
  BY <1>1, <1>2
<1>5. ASSUME \A e, f \in Executing : e = f,
             NEW j \in Jobs, NEW k \in Jobs, NEW n \in Claims, NEW m \in Claims,
             n \in working[j], m \in working[k]
      PROVE  j = k /\ n = m
  <2>1. <<j, n>> \in Executing /\ <<k, m>> \in Executing
    BY <1>1, <1>5
  <2>2. <<j, n>> = <<k, m>>
    BY <1>5, <2>1
  <2> QED
    BY <2>2
<1>6. ASSUME \A j, k \in Jobs, n, m \in Claims : n \in working[j] /\ m \in working[k] => j = k /\ n = m,
             NEW e \in Executing, NEW f \in Executing
      PROVE  e = f
  BY <1>2, <1>6
<1> QED
  BY <1>4, <1>5, <1>6

(* With no execution at all, most of it holds. *)
LEMMA NoExecution ==
    ASSUME BookingTypeOK, PlacesMatch, Executing = {}
    PROVE  /\ OneWriter /\ ExecutionHolds /\ EventIsAhead
           /\ OnCourse /\ RowInHand /\ FetchedIsLatest
<1>1. \A j \in Jobs, n \in Claims : n \notin working[j] /\ place[j][n].stage = "none"
  BY ExecutionPairs DEF PlacesMatch
<1> QED
  BY <1>1, BookingJobs
     DEF OneWriter, ExecutionHolds, EventIsAhead, OnCourse, RowInHand, FetchedIsLatest

LEMMA AgentKeepsSerial ==
    ASSUME BookingInv, BookingTypeOK', PlacesMatch', UNCHANGED <<queue, place>>, ~raced',
           \/ Request \/ SyncFind \/ SyncAppointment \/ SyncLife \/ AgentFails
           \/ ProviderChanges \/ ConnectionChanges
    PROVE  Serial'
<1>0. ~raced
  BY DEF Request, SyncFind, SyncAppointment, SyncLife, AgentFails, ProviderChanges, ConnectionChanges
<1>1. Serial /\ BookingTypeOK /\ PlacesMatch
  BY <1>0 DEF BookingInv
<1>2. phase' = phase /\ holder' = holder /\ working' = working /\ place' = place /\ Executing' = Executing
  BY DEF queue, Executing
<1>3. ExecutionHolds' /\ EventIsAhead' /\ RowInHand'
  BY <1>1, <1>2 DEF Serial, ExecutionHolds, EventIsAhead, RowInHand
<1>4. truth \in 0..LastVersion /\ LastVersion \in Nat
  BY <1>1, BookingRecords DEF BookingTypeOK
<1>5. CASE Request \/ ProviderChanges
  <2>1. truth' = truth + 1 /\ truth' \in BookingVersions
    BY <1>4, <1>5 DEF Request, ProviderChanges, BookingVersions
  <2>2. UntoldIsAbsent'
    BY <1>1, <1>2, <1>4, <2>1, BookingJobs DEF Serial, UntoldIsAbsent, BookingVersions, Event
  <2>3. LatestUnasked'
    BY <1>1, <1>2, <1>4, <2>1, BookingJobs DEF Serial, UntoldIsAbsent, LatestUnasked
  <2>4. OwedOrRight' /\ AgentIsAhead' /\ FetchedIsLatest' /\ OnCourse'
    <3>1. Owed' /\ truth' > 0
      BY <1>4, <2>1, <2>3 DEF Owed, LatestUnasked
    <3> QED
      BY <2>3, <3>1 DEF OwedOrRight, AgentIsAhead, FetchedIsLatest, OnCourse, Excused
  <2>5. OneWriter'
    <3>1. CASE Request
      <4>1. Executing = {}
        BY <3>1 DEF Request, Busy
      <4> QED
        BY <1>2, <4>1 DEF OneWriter
    <3>2. CASE ProviderChanges
      BY <1>1, <1>2, <3>2 DEF ProviderChanges, Serial, OneWriter
    <3> QED
      BY <1>5, <3>1, <3>2
  <2> QED
    BY <1>3, <2>2, <2>4, <2>5 DEF Serial
<1>6. CASE SyncFind \/ SyncAppointment \/ SyncLife \/ AgentFails
  <2>1. agent # Nowhere /\ truth' = truth
    BY <1>6, BookingRecords DEF SyncFind, SyncAppointment, SyncLife, AgentFails
  <2>2. Executing' = {} /\ truth > 0 /\ LatestUnasked
    BY <1>1, <1>2, <2>1 DEF Serial, OneWriter, AgentIsAhead
  <2>3. LatestUnasked' /\ truth' > 0
    BY <1>2, <2>1, <2>2 DEF LatestUnasked
  <2>4. Owed'
    BY <1>2, <2>1, <2>2, <1>1, UnaskedIsOwed DEF Owed
  <2>5. UntoldIsAbsent'
    BY <1>1, <1>2, <2>1 DEF Serial, UntoldIsAbsent
  <2>6. OneWriter' /\ FetchedIsLatest' /\ OnCourse'
    BY <2>2, NoExecution, <2>3 DEF OneWriter, FetchedIsLatest, OnCourse, Excused
  <2> QED
    BY <1>3, <2>3, <2>4, <2>5, <2>6 DEF Serial, AgentIsAhead, OwedOrRight
<1>7. CASE ConnectionChanges
  BY <1>1, <1>2, <1>7
     DEF ConnectionChanges, rows, Serial, OneWriter, ExecutionHolds, UntoldIsAbsent, AgentIsAhead,
         EventIsAhead, OnCourse, RowInHand, FetchedIsLatest, OwedOrRight, Owed, Agrees, Shown, Reached,
         LatestUnasked, Excused
<1> QED
  BY <1>5, <1>6, <1>7

(* A job comes to wait: an event's is delivered, or any loses its lease. *)
LEMMA WaitingKeepsSerial ==
    ASSUME BookingInv, BookingTypeOK', PlacesMatch', ~raced', NEW j \in Jobs,
           LeaseLapses(j) \/ \E v \in BookingVersions : j = Webhook(v) /\ Deliver(v)
    PROVE  Serial'
<1>1. /\ UNCHANGED <<holder, working, truth, appointment, life, agent, place, uid, raced, astray>>
      /\ \/ phase[j] = "held" /\ phase' = [phase EXCEPT ![j] = "waiting"]
         \/ /\ phase' = IF phase[j] = "absent" THEN [phase EXCEPT ![j] = "waiting"] ELSE phase
            /\ \E v \in BookingVersions : j = Webhook(v) /\ v <= truth
  BY DEF LeaseLapses, LapseJob, Deliver, EnqueueJob, rows
<1>2. Serial /\ BookingTypeOK /\ PlacesMatch /\ truth \in Nat
  BY <1>1, BookingRecords DEF BookingInv, BookingTypeOK
<1>3. Executing' = Executing
  BY <1>1 DEF Executing
<1>4. \A k \in Jobs : phase'[k] = phase[k]
                        \/ (k = j /\ phase'[k] = "waiting" /\ phase[k] \in {"held", "absent"})
  BY <1>1, <1>2 DEF BookingTypeOK, QueueTypeOK
<1>5. \A v \in BookingVersions : phase[Reconciliation(v)] = "absent" => phase'[Reconciliation(v)] = "absent"
  BY <1>1, <1>2, BookingJobs DEF BookingTypeOK, QueueTypeOK
<1>6. truth > 0 => truth \in BookingVersions
  BY <1>1, <1>2, BookingRecords DEF BookingTypeOK, BookingVersions
<1>7. LatestUnasked /\ truth > 0 => LatestUnasked'
  BY <1>1, <1>5, <1>6 DEF LatestUnasked
<1>8. Event(j) <= truth
  BY <1>1, <1>2, BookingJobs DEF Serial, UntoldIsAbsent, BookingVersions
<1>9. OneWriter' /\ ExecutionHolds'
  BY <1>1, <1>2, <1>3, <1>4 DEF Serial, OneWriter, ExecutionHolds
<1>10. UntoldIsAbsent'
  BY <1>1, <1>2, <1>4, <1>8, BookingJobs DEF Serial, UntoldIsAbsent, BookingVersions
<1>11. AgentIsAhead' /\ EventIsAhead'
  <2>1. AgentIsAhead'
    BY <1>1, <1>2, <1>7 DEF Serial, AgentIsAhead
  <2>2. EventIsAhead'
    BY <1>1, <1>2, <1>4, BookingJobs DEF Serial, EventIsAhead
  <2> QED
    BY <2>1, <2>2
<1>12. OnCourse' /\ FetchedIsLatest' /\ RowInHand'
  <2>1. ASSUME NEW v \in BookingVersions, NEW n \in Claims, n \in working[Reconciliation(v)]
        PROVE  Excused => Excused'
    <3>1. truth > 0
      BY <1>2, <2>1, BookingJobs, BookingRecords
         DEF Serial, ExecutionHolds, UntoldIsAbsent, BookingVersions
    <3> QED
      BY <1>1, <1>7, <3>1 DEF Excused
  <2>2. \A v \in BookingVersions, n \in Claims :
          n \in working[Reconciliation(v)] <=> place[Reconciliation(v)][n].stage # "none"
    BY <1>2, BookingJobs DEF PlacesMatch
  <2>3. OnCourse' /\ RowInHand'
    BY <1>1, <1>2, <2>1 DEF Serial, OnCourse, RowInHand
  <2>4. Agrees' = Agrees /\ Shown' = Shown
    BY <1>1 DEF Agrees, Shown, Reached
  <2>5. FetchedIsLatest'
    BY <1>1, <1>2, <2>1, <2>2, <2>4 DEF Serial, FetchedIsLatest
  <2> QED
    BY <2>3, <2>5
<1>13. OwedOrRight'
  <2>1. Owed => Owed'
    <3> SUFFICES ASSUME NEW v \in 1..truth, phase[Reconciliation(v)] # "succeeded"
                 PROVE  phase'[Reconciliation(v)] # "succeeded"
      BY <1>1 DEF Owed
    <3>1. Reconciliation(v) \in Jobs
      BY <1>2, BookingJobs, BookingRecords DEF BookingTypeOK, BookingVersions
    <3> QED
      BY <1>4, <3>1
  <2> QED
    BY <1>1, <1>2, <2>1 DEF Serial, OwedOrRight, Agrees, Reached
<1> QED
  BY <1>9, <1>10, <1>11, <1>12, <1>13 DEF Serial

LEMMA StartKeepsSerial ==
    ASSUME BookingInv, BookingTypeOK', PlacesMatch', ~raced', NEW j \in Jobs, StartJob(j)
    PROVE  Serial'
<1> DEFINE n == holder[j] + 1
<1>1. /\ agent = Nowhere /\ Executing = {} /\ ~raced
      /\ j = Webhook(Event(j)) => phase[Reconciliation(Event(j))] = "absent"
      /\ UNCHANGED <<truth, appointment, life, agent, uid>>
      /\ astray' \/ uid[Event(j)] = uid[truth]
  BY DEF StartJob, Busy, rows
<1>2. Serial /\ BookingTypeOK /\ PlacesMatch
  BY <1>1 DEF BookingInv
<1>3. n \in Claims
  BY <1>2, MaxClaimsAssumption DEF BookingTypeOK, QueueTypeOK, StartJob, ClaimJob, Claims
<1>4. /\ phase[j] = "waiting" /\ phase' = [phase EXCEPT ![j] = "held"]
      /\ holder' = [holder EXCEPT ![j] = n] /\ working' = [working EXCEPT ![j] = @ \cup {n}]
      /\ place' = [place EXCEPT ![j][n] = Place("finding", 0, 0)]
  BY DEF StartJob, ClaimJob
<1> HIDE DEF n
<1>5. \A k \in Jobs, m \in Claims : m \notin working[k] /\ place[k][m].stage = "none"
  BY <1>1, <1>2, ExecutionPairs DEF PlacesMatch
<1>6. \A k \in Jobs, m \in Claims : m \in working'[k] => k = j /\ m = n
  BY <1>2, <1>3, <1>4, <1>5 DEF BookingTypeOK, QueueTypeOK
<1>7. /\ phase'[j] = "held" /\ holder'[j] = n
      /\ \A k \in Jobs : k # j => phase'[k] = phase[k]
  BY <1>2, <1>4 DEF BookingTypeOK, QueueTypeOK
<1>8. OneWriter' /\ AgentIsAhead'
  BY <1>1, <1>6 DEF OneWriter, AgentIsAhead, Executing
<1>9. ExecutionHolds'
  BY <1>6, <1>7 DEF ExecutionHolds
<1>10. UntoldIsAbsent'
  BY <1>1, <1>2, <1>4, <1>7 DEF Serial, UntoldIsAbsent
<1>11. EventIsAhead'
  BY <1>1, <1>6, <1>7, BookingJobs DEF EventIsAhead
<1>12. OnCourse' /\ RowInHand' /\ FetchedIsLatest'
  <2>1. \A k \in Jobs, m \in Claims : place'[k][m].stage \in {"none", "finding"}
    BY <1>2, <1>3, <1>4, <1>5, BookingRecords DEF BookingTypeOK, BookingStages
  <2>2. RowInHand' /\ FetchedIsLatest'
    BY <2>1, BookingJobs DEF RowInHand, FetchedIsLatest
  <2>3. OnCourse'
    BY <1>1, <1>6, BookingJobs DEF OnCourse, Excused
  <2> QED
    BY <2>2, <2>3
<1>13. OwedOrRight'
  <2>1. Event(j) \in 1..truth
    <3>1. Event(j) > truth => phase[j] = "absent"
      BY <1>2 DEF Serial, UntoldIsAbsent
    <3>2. Event(j) \in 1..LastVersion
      BY BookingJobs DEF BookingVersions
    <3>3. truth \in 0..LastVersion /\ LastVersion \in Nat
      BY <1>2, BookingRecords DEF BookingTypeOK
    <3>4. phase[j] # "absent"
      BY <1>4
    <3> QED
      BY <3>1, <3>2, <3>3, <3>4
  <2>2. phase'[Reconciliation(Event(j))] # "succeeded"
    BY <1>1, <1>7, BookingJobs
  <2> QED
    BY <1>1, <2>1, <2>2 DEF OwedOrRight, Owed
<1> QED
  BY <1>8, <1>9, <1>10, <1>11, <1>12, <1>13 DEF Serial

(* The executions of a reconciliation, from the provider's answer to its end.   *)
LEMMA FetchedStaysLatest ==
    ASSUME BookingTypeOK, PlacesMatch, Serial, Excused => Excused',
           NEW v \in BookingVersions, NEW n \in Claims, Works(Reconciliation(v), n),
           truth' = truth, uid' = uid, truth \in v..LastVersion
    PROVE  LET p == place'[Reconciliation(v)][n]
           IN  /\ p.stage \in {"connecting", "fetching", "appointing"} => p.row \in BookingVersions
               /\ p.stage = "appointing" => Excused' \/ p.version = truth
               /\ p.stage = "living" => Excused' \/ (p.version = truth /\ Shown')
               /\ p.stage = "succeeding" => Excused' \/ Agrees'
<1> DEFINE j == Reconciliation(v)
           p == place[j][n]
           q == place'[j][n]
<1> USE BookingJobs, BookingRecords
<1>1. Event(j) = v /\ j \in Jobs /\ j # Webhook(v)
  OBVIOUS
<1>2. p \in Places /\ truth \in 0..LastVersion /\ v \in 0..LastVersion /\ 0 \in 0..LastVersion
  BY <1>1 DEF BookingTypeOK
<1>3. /\ p.stage \in {"connecting", "fetching", "appointing"} => p.row \in BookingVersions
      /\ p.stage = "appointing" => Excused \/ p.version = truth
      /\ p.stage = "living" => Excused \/ (p.version = truth /\ Shown)
      /\ p.stage = "succeeding" => Excused \/ Agrees
      /\ p.stage # "none" => Excused \/ uid[v] = uid[truth]
  BY <1>1 DEF Serial, RowInHand, FetchedIsLatest, OnCourse, PlacesMatch
<1>4. CASE FindCorrelation(v, n)
  <2>1. CASE Moves(j, n, "finding", "none", 0, 0)
    BY <1>1, <1>2, <2>1, ExecutionMoves DEF BookingStages
  <2>2. ASSUME NEW k \in Reached(appointment, v), Moves(j, n, "finding", "connecting", k, 0)
        PROVE  q.stage = "connecting" /\ q.row \in BookingVersions
    <3>1. k \in BookingVersions
      BY RowsFound
    <3> QED
      BY <1>1, <1>2, <2>2, <3>1, ExecutionMoves DEF BookingStages
  <2> QED
    BY <1>4, <2>1, <2>2, <1>1, <1>2, ExecutionMoves DEF FindCorrelation, Leaves, BookingStages
<1>10. CASE CheckConnection(v, n)
  <2>1. Moves(j, n, "connecting", "fetching", p.row, 0) \/ Moves(j, n, "connecting", "none", 0, 0)
    BY <1>10 DEF CheckConnection, Leaves
  <2>2. p.stage = "connecting" /\ (q.stage = "none" \/ (q.stage = "fetching" /\ q.row = p.row))
    BY <1>1, <1>2, <2>1, ExecutionMoves DEF BookingStages
  <2> QED
    BY <1>3, <2>2
<1>5. CASE Fetch(v, n)
  <2>1. PICK w \in v..truth :
          /\ uid[w] = uid[v] /\ \A u \in w..truth : uid[u] = uid[v] => u = w
          /\ Moves(j, n, "fetching", "appointing", p.row, w)
    BY <1>5 DEF Fetch
  <2>2. w \in 0..LastVersion /\ truth \in w..truth
    BY <1>2, <2>1
  <2>3. p.stage = "fetching" /\ q.stage = "appointing" /\ q.row = p.row /\ q.version = w
    <3> DEFINE r == p.row
    <3>1. Moves(j, n, "fetching", "appointing", r, w) /\ r \in 0..LastVersion
      BY <1>2, <2>1
    <3> HIDE DEF r
    <3>2. p.stage = "fetching" /\ q.stage = "appointing" /\ q.row = r /\ q.version = w
      BY <1>1, <2>2, <3>1, ExecutionMoves DEF BookingStages
    <3> QED
      BY <3>2 DEF r
  <2>4. uid[v] = uid[truth] => w = truth
    BY <2>1, <2>2
  <2> QED
    BY <1>3, <2>3, <2>4
<1>6. CASE WriteAppointment(j, n)
  <2>1. /\ Moves(j, n, "appointing", "living", p.row, p.version)
        /\ appointment' = Written(appointment, {p.row}, p.version)
    BY <1>6 DEF WriteAppointment
  <2> DEFINE r == p.row
             u == p.version
  <2>2. p.stage = "appointing" /\ q.stage = "living" /\ q.version = u
    <3>1. Moves(j, n, "appointing", "living", r, u) /\ r \in 0..LastVersion /\ u \in 0..LastVersion
      BY <1>2, <2>1
    <3> HIDE DEF r, u
    <3> QED
      BY <1>1, <3>1, ExecutionMoves DEF BookingStages
  <2>3. r \in BookingVersions /\ appointment'[r] = u
    <3>1. r \in BookingVersions /\ u \in 0..LastVersion /\ appointment' = Written(appointment, {r}, u)
      BY <1>2, <1>3, <2>1, <2>2
    <3> HIDE DEF r, u
    <3> QED
      BY <3>1 DEF Written
  <2>4. u = truth => Shown'
    BY <2>3 DEF Shown
  <2> QED
    BY <1>3, <2>2, <2>4
<1>7. CASE WriteLife(j, n)
  <2>1. /\ Moves(j, n, "living", "succeeding", 0, 0) /\ appointment' = appointment
        /\ life' = Written(life, Reached(life, v), p.version)
    BY <1>1, <1>7 DEF WriteLife
  <2>2. p.stage = "living" /\ q.stage = "succeeding"
    BY <1>1, <1>2, <2>1, ExecutionMoves DEF BookingStages
  <2>3. ASSUME p.version = truth, Shown, uid[v] = uid[truth] PROVE Agrees'
    <3>1. \A k \in BookingVersions : life'[k] = IF k \in Reached(life, v) THEN truth ELSE life[k]
      BY <2>1, <2>3 DEF Written
    <3>2. ASSUME NEW k \in Reached(life, truth)' PROVE life'[k] = truth
      <4>1. k \in BookingVersions /\ life'[k] # 0 /\ (k = 1 \/ uid[life'[k]] = uid[truth])
        BY <3>2 DEF Reached
      <4>2. CASE life'[k] = life[k]
        <5>1. k \in Reached(life, v)
          BY <2>3, <4>1, <4>2 DEF Reached
        <5> QED
          BY <3>1, <4>1, <5>1
      <4> QED
        BY <3>1, <4>1, <4>2
    <3> QED
      BY <2>1, <2>3, <3>2 DEF Agrees, Shown
  <2> QED
    BY <1>3, <2>2, <2>3
<1>8. CASE Succeed(j, n)
  <2>1. Moves(j, n, "succeeding", "none", 0, 0)
    BY <1>8 DEF Succeed, Leaves
  <2> QED
    BY <1>1, <1>2, <2>1, ExecutionMoves DEF BookingStages
<1>9. CASE ExecutionFails(j, n)
  <2>1. place' = [place EXCEPT ![j][n] = Nowhere]
    BY <1>9 DEF ExecutionFails
  <2> QED
    BY <1>1, <2>1 DEF BookingTypeOK
<1> QED
  BY <1>1, <1>4, <1>5, <1>6, <1>7, <1>8, <1>9, <1>10 DEF Works, Run

LEMMA WorkKeepsSerial ==
    ASSUME BookingInv, BookingTypeOK', PlacesMatch', ~raced', NEW j \in Jobs, NEW n \in Claims, Works(j, n)
    PROVE  Serial'
<1>1. /\ n \in working[j] /\ UNCHANGED <<holder, truth, agent, uid, raced, astray>>
      /\ \A k \in Jobs : working'[k] \subseteq working[k]
      /\ \A k \in Jobs : k # j /\ phase'[k] # phase[k] =>
           /\ j = Webhook(Event(j)) /\ k = Reconciliation(Event(j))
           /\ phase[k] = "absent" /\ phase'[k] = "waiting"
      /\ n \in working'[j] => phase'[j] = phase[j]
      /\ \/ phase'[j] \in {phase[j]} \cup Unfinished
         \/ place[j][n].stage = "succeeding" /\ UNCHANGED rows
  BY WorkOnQueue DEF BookingInv
<1>2. Serial /\ BookingTypeOK /\ PlacesMatch
  BY <1>1 DEF BookingInv
<1>3. /\ \A k \in Jobs, m \in Claims : m \in working[k] => k = j /\ m = n
      /\ agent = Nowhere
  BY <1>1, <1>2, ExecutionPairs DEF Serial, OneWriter
<1>4. holder[j] = n /\ phase[j] \in {"held", "waiting"}
  BY <1>1, <1>2 DEF Serial, ExecutionHolds
<1>5. truth \in Nat /\ Event(j) <= truth /\ Event(j) \in 1..truth
  <2>1. truth \in Nat
    BY <1>2, BookingRecords DEF BookingTypeOK
  <2>2. Event(j) \in Nat \ {0}
    BY BookingJobs, BookingRecords DEF BookingVersions
  <2>3. ~(Event(j) > truth)
    BY <1>2, <1>4 DEF Serial, UntoldIsAbsent
  <2> QED
    BY <2>1, <2>2, <2>3
<1>6. truth \in BookingVersions
  BY <1>2, <1>5, BookingRecords DEF BookingTypeOK, BookingVersions
<1>7. OneWriter' /\ AgentIsAhead'
  BY <1>1, <1>3 DEF OneWriter, AgentIsAhead, Executing
<1>8. ExecutionHolds'
  BY <1>1, <1>3, <1>4 DEF ExecutionHolds
<1>9. UntoldIsAbsent'
  BY <1>1, <1>2, <1>4, <1>5, BookingJobs DEF Serial, UntoldIsAbsent
<1>10. \A u \in BookingVersions : j = Webhook(u) => phase'[Reconciliation(u)] \in {"absent", "waiting"}
  BY <1>1, <1>2, BookingJobs DEF Serial, EventIsAhead
<1>11. EventIsAhead'
  BY <1>1, <1>3, <1>10, BookingJobs DEF EventIsAhead
<1>12. CASE j = Webhook(Event(j))
  <2> DEFINE u == Event(j)
  <2>1. u \in BookingVersions /\ phase'[Reconciliation(u)] # "succeeded"
    BY <1>10, <1>12, BookingJobs
  <2>2. OwedOrRight'
    BY <1>1, <1>5, <2>1 DEF OwedOrRight, Owed
  <2>3. \A v \in BookingVersions, m \in Claims :
          place'[Reconciliation(v)][m].stage = "none" /\ m \notin working'[Reconciliation(v)]
    BY <1>1, <1>3, <1>12, BookingJobs DEF PlacesMatch
  <2>4. OnCourse' /\ RowInHand' /\ FetchedIsLatest'
    BY <2>3 DEF OnCourse, RowInHand, FetchedIsLatest
  <2> QED
    BY <1>7, <1>8, <1>9, <1>11, <2>2, <2>4 DEF Serial
<1>13. CASE j = Reconciliation(Event(j)) /\ j # Webhook(Event(j))
  <2> DEFINE u == Event(j)
  <2>1. \A k \in Jobs : k # j => phase'[k] = phase[k]
    BY <1>1, <1>13
  <2>2. LatestUnasked => LatestUnasked'
    BY <1>1, <1>4, <1>6, <2>1, BookingJobs DEF LatestUnasked
  <2>5. Excused => Excused'
    BY <1>1, <2>2 DEF Excused
  <2>6. OnCourse'
    BY <1>1, <1>2, <2>5, BookingJobs DEF Serial, OnCourse
  <2>3. RowInHand' /\ FetchedIsLatest'
    <3> SUFFICES ASSUME NEW v \in BookingVersions, NEW m \in Claims
                 PROVE  LET p == place'[Reconciliation(v)][m]
                        IN  /\ p.stage \in {"connecting", "fetching", "appointing"} =>
                                 p.row \in BookingVersions
                            /\ p.stage = "appointing" => Excused' \/ p.version = truth'
                            /\ p.stage = "living" => Excused' \/ (p.version = truth' /\ Shown')
                            /\ p.stage = "succeeding" => Excused' \/ Agrees'
      BY DEF RowInHand, FetchedIsLatest
    <3>1. CASE v = u /\ m = n
      <4>1. truth \in v..LastVersion
        BY <1>2, <1>5, <3>1 DEF BookingTypeOK
      <4> QED
        BY <1>1, <1>2, <1>13, <2>5, <3>1, <4>1, FetchedStaysLatest
    <3>2. CASE v # u \/ m # n
      <4>1. place'[Reconciliation(v)][m].stage = "none"
        BY <1>1, <1>3, <1>13, <3>2, BookingJobs DEF PlacesMatch
      <4> QED
        BY <4>1
    <3> QED
      BY <3>1, <3>2
  <2>4. OwedOrRight'
    <3>1. CASE phase'[j] # "succeeded"
      BY <1>1, <1>5, <1>13, <3>1 DEF OwedOrRight, Owed
    <3>2. CASE phase'[j] = "succeeded"
      <4>1. place[j][n].stage = "succeeding" /\ UNCHANGED rows
        BY <1>1, <1>4, <3>2 DEF Unfinished
      <4>2. Excused \/ Agrees
        BY <1>2, <1>13, <4>1, BookingJobs DEF Serial, FetchedIsLatest
      <4>3. CASE LatestUnasked
        <5>1. Owed'
          BY <1>1, <1>5, <2>2, <4>3 DEF LatestUnasked, Owed
        <5> QED
          BY <5>1 DEF OwedOrRight
      <4>4. CASE Agrees
        BY <1>1, <4>1, <4>4 DEF OwedOrRight, Agrees, Reached, rows
      <4>5. CASE astray
        BY <1>1, <4>5 DEF OwedOrRight
      <4> QED
        BY <4>2, <4>3, <4>4, <4>5 DEF Excused
    <3> QED
      BY <3>1, <3>2
  <2> QED
    BY <1>7, <1>8, <1>9, <1>11, <2>3, <2>4, <2>6 DEF Serial
<1> QED
  BY <1>12, <1>13, BookingJobs

LEMMA BookingStep == BookingInv /\ [BookingNext]_bookingVars => BookingInv'
<1> SUFFICES ASSUME BookingInv, [BookingNext]_bookingVars PROVE BookingInv'
  OBVIOUS
<1>1. BookingTypeOK' /\ PlacesMatch'
  BY BookingNextType DEF BookingInv
<1> SUFFICES ASSUME ~raced' PROVE Serial'
  BY <1>1 DEF BookingInv
<1>2. CASE \/ Request \/ SyncFind \/ SyncAppointment \/ SyncLife \/ AgentFails
           \/ ProviderChanges \/ ConnectionChanges
  BY <1>1, <1>2, AgentType, AgentKeepsSerial DEF BookingInv
<1>3. ASSUME NEW v \in BookingVersions, Deliver(v) PROVE Serial'
  BY <1>1, <1>3, BookingJobs, WaitingKeepsSerial
<1>4. ASSUME NEW j \in Jobs, StartJob(j) \/ LeaseLapses(j) PROVE Serial'
  BY <1>1, <1>4, StartKeepsSerial, WaitingKeepsSerial
<1>5. ASSUME NEW j \in Jobs, NEW n \in Claims, Works(j, n) PROVE Serial'
  BY <1>1, <1>5, WorkKeepsSerial
<1>6. CASE UNCHANGED bookingVars
  BY <1>6 DEF bookingVars, BookingInv, Serial, OneWriter, Executing, ExecutionHolds, UntoldIsAbsent,
     AgentIsAhead, EventIsAhead, OnCourse, RowInHand, FetchedIsLatest, OwedOrRight, Owed, Agrees,
     Shown, Reached, LatestUnasked, Excused
<1> QED
  BY <1>2, <1>3, <1>4, <1>5, <1>6 DEF BookingNext, Works

(* For any number of versions, uids, claims and executions: events may come     *)
(* late, out of order and twice, and calls may be cut short; while no two        *)
(* writers overlap and no event's job runs again, a booking of which every       *)
(* version's reconciliation succeeded is shown as the provider has it            *)
(* (registerCalComWebhookJobHandler), except that the last job to run must not   *)
(* have been about a uid that a reschedule had replaced (syncBooking).           *)
THEOREM BookingsConverge == BookingSpec => []SerialRunsConverge
<1>1. BookingInv => SerialRunsConverge
  BY DEF BookingInv, Serial, OwedOrRight, Owed, SerialRunsConverge, AllHandled
<1> QED
  BY <1>1, BookingStarts, BookingStep, PTL DEF BookingSpec

(* What makes them come true: a job is of a version that exists, an execution is *)
(* of a job that was enqueued, and an event's own writes come after its request. *)
RunningIsEnqueued == \A j \in Jobs, n \in Claims : n \in working[j] => phase[j] # "absent"

AskedBeforeWritten ==
    \A v \in BookingVersions, n \in Claims :
        place[Webhook(v)][n].stage \in {"appointing", "living", "succeeding"} =>
            phase[Reconciliation(v)] # "absent"

FollowUpInv ==
    /\ BookingTypeOK /\ PlacesMatch
    /\ UntoldIsAbsent /\ RunningIsEnqueued /\ AskedBeforeWritten /\ EventsAreFollowedUp

(* No step of the queue takes a job back, and none makes up an execution. *)
LEMMA JobsStay ==
    ASSUME QueueTypeOK, QueueStep, NEW j \in Jobs
    PROVE  /\ phase[j] # "absent" => phase'[j] # "absent"
           /\ \A n \in Claims : n \in working'[j] => n \in working[j] \/ phase'[j] = "held"
<1>1. CASE UNCHANGED queue
  BY <1>1 DEF queue
<1>2. ASSUME NEW k \in Jobs, Operation(k)
      PROVE  /\ phase[j] # "absent" => phase'[j] # "absent"
             /\ \A n \in Claims : n \in working'[j] => n \in working[j] \/ phase'[j] = "held"
  <2>0. \/ EnqueueJob(k) \/ ClaimJob(k) \/ LapseJob(k) \/ WithdrawJob(k)
        \/ \E n \in Claims : StopJob(k, n)
        \/ \E n \in Claims, verdict \in Verdicts : ConcludeJob(k, n, verdict)
    BY <1>2 DEF Operation, FailJob, Verdicts
  <2>1. \/ phase' = phase
        \/ \E to \in Phases \ {"absent"} : phase' = [phase EXCEPT ![k] = to]
    BY <2>0 DEF EnqueueJob, ClaimJob, LapseJob, ConcludeJob, StopJob, WithdrawJob,
                Phases, SettledJob, Verdicts
  <2>2. \/ ClaimJob(k)
        \/ working' = working
        \/ \E n \in Claims : working' = [working EXCEPT ![k] = @ \ {n}]
    BY <2>0 DEF EnqueueJob, LapseJob, ConcludeJob, StopJob, WithdrawJob
  <2>3. ClaimJob(k) => /\ phase' = [phase EXCEPT ![k] = "held"]
                       /\ working' = [working EXCEPT ![k] = @ \cup {holder[k] + 1}]
    BY DEF ClaimJob
  <2>4. phase[j] # "absent" => phase'[j] # "absent"
    BY <2>1 DEF QueueTypeOK
  <2>5. \A n \in Claims : n \in working'[j] => n \in working[j] \/ phase'[j] = "held"
    BY <2>2, <2>3 DEF QueueTypeOK
  <2> QED
    BY <2>4, <2>5
<1> QED
  BY <1>1, <1>2 DEF QueueStep

(* Versions only grow, and a job enters the queue for one that exists. *)
LEMMA VersionsGrow ==
    ASSUME BookingTypeOK, PlacesMatch, [BookingNext]_bookingVars
    PROVE  truth' \in truth..LastVersion
<1>0. truth \in 0..LastVersion /\ LastVersion \in Nat /\ truth' \in 0..LastVersion
  BY BookingRecords, BookingNextType DEF BookingTypeOK
<1>1. truth' = truth \/ truth' = truth + 1
  BY WorkOnQueue
     DEF BookingNext, Works, bookingVars, Request, SyncFind, SyncAppointment, SyncLife, AgentFails,
         ProviderChanges, ConnectionChanges, Deliver, StartJob, LeaseLapses
<1> QED
  BY <1>0, <1>1

LEMMA JobsAreTold ==
    ASSUME FollowUpInv, [BookingNext]_bookingVars
    PROVE  UntoldIsAbsent' /\ RunningIsEnqueued'
<1>1. QueueTypeOK /\ QueueStep /\ truth' \in truth..LastVersion
  BY BookingNextType, VersionsGrow DEF FollowUpInv, BookingTypeOK
<1>2. truth \in Nat
  BY BookingRecords DEF FollowUpInv, BookingTypeOK
<1>3. ASSUME NEW j \in Jobs, phase[j] = "absent", phase'[j] # "absent"
      PROVE  Event(j) <= truth
  <2>1. CASE \/ Request \/ SyncFind \/ SyncAppointment \/ SyncLife \/ AgentFails
             \/ ProviderChanges \/ ConnectionChanges
    BY <1>3, <2>1, AgentType DEF FollowUpInv, queue
  <2>2. ASSUME NEW v \in BookingVersions, Deliver(v) PROVE Event(j) <= truth
    BY <1>3, <2>2, BookingJobs DEF Deliver, EnqueueJob, FollowUpInv, BookingTypeOK, QueueTypeOK
  <2>3. ASSUME NEW k \in Jobs, StartJob(k) \/ LeaseLapses(k) PROVE FALSE
    BY <1>3, <2>3 DEF StartJob, ClaimJob, LeaseLapses, LapseJob, FollowUpInv, BookingTypeOK, QueueTypeOK
  <2>4. ASSUME NEW k \in Jobs, NEW n \in Claims, Works(k, n) PROVE Event(j) <= truth
    <3>1. n \in working[k] /\ phase[k] # "absent"
      BY <2>4, WorkOnQueue DEF FollowUpInv, RunningIsEnqueued
    <3>2. Event(k) \in BookingVersions /\ ~(Event(k) > truth)
      BY <3>1, BookingJobs DEF FollowUpInv, UntoldIsAbsent
    <3>3. j = Reconciliation(Event(k))
      BY <1>3, <2>4, <3>1, WorkOnQueue DEF FollowUpInv
    <3> QED
      BY <1>2, <3>2, <3>3, BookingJobs, BookingRecords DEF BookingVersions
  <2>5. CASE UNCHANGED bookingVars
    BY <1>3, <2>5 DEF bookingVars
  <2> QED
    BY <2>1, <2>2, <2>3, <2>4, <2>5 DEF BookingNext, Works
<1>4. UntoldIsAbsent'
  <2> SUFFICES ASSUME NEW j \in Jobs, Event(j) > truth', phase'[j] # "absent" PROVE FALSE
    BY DEF UntoldIsAbsent
  <2>1. Event(j) \in Nat /\ Event(j) > truth
    BY <1>1, <1>2, BookingJobs, BookingRecords DEF BookingVersions
  <2> QED
    BY <1>2, <1>3, <2>1 DEF FollowUpInv, UntoldIsAbsent
<1>5. RunningIsEnqueued'
  BY <1>1, JobsStay DEF FollowUpInv, RunningIsEnqueued
<1> QED
  BY <1>4, <1>5

(* While no execution moves and no job succeeds, a request once made stays. *)
LEMMA RequestsStay ==
    ASSUME FollowUpInv, [BookingNext]_bookingVars,
           \A j \in Jobs, n \in Claims :
               place'[j][n] = place[j][n] \/ place'[j][n].stage \in {"none", "finding"},
           \A j \in Jobs : phase'[j] = "succeeded" => phase[j] = "succeeded"
    PROVE  AskedBeforeWritten' /\ EventsAreFollowedUp'
<1>1. QueueTypeOK /\ QueueStep /\ truth' \in truth..LastVersion /\ truth \in Nat
  BY BookingNextType, VersionsGrow, BookingRecords DEF FollowUpInv, BookingTypeOK
<1>2. \A v \in BookingVersions :
        phase[Reconciliation(v)] # "absent" => phase'[Reconciliation(v)] # "absent"
  BY <1>1, JobsStay, BookingJobs
<1>3. AskedBeforeWritten'
  BY <1>2, BookingJobs DEF FollowUpInv, AskedBeforeWritten
<1>4. ASSUME NEW v \in BookingVersions, NEW n \in Claims,
             place'[Reconciliation(v)][n].stage \in {"appointing", "living"}
      PROVE  place'[Reconciliation(v)][n].version \in v..truth'
  <2>1. place'[Reconciliation(v)][n] = place[Reconciliation(v)][n]
    BY <1>4, BookingJobs
  <2>2. place'[Reconciliation(v)][n].version \in v..truth
    BY <1>4, <2>1 DEF FollowUpInv, EventsAreFollowedUp
  <2>3. v \in Nat /\ LastVersion \in Nat
    BY BookingRecords DEF BookingVersions
  <2> QED
    BY <1>1, <2>2, <2>3
<1> QED
  BY <1>2, <1>3, <1>4, BookingJobs DEF FollowUpInv, EventsAreFollowedUp

(* Where an execution gets to: an event's first write follows its request, and a *)
(* reconciliation's version is one it has just been told, no older than its      *)
(* event.                                                                        *)
LEMMA WorkMoves ==
    ASSUME BookingTypeOK, PlacesMatch, NEW j \in Jobs, NEW n \in Claims, Works(j, n)
    PROVE  /\ place'[j][n].stage \in {"appointing", "living", "succeeding"} =>
                \/ place[j][n].stage \in {"appointing", "living", "succeeding"}
                \/ j = Webhook(Event(j)) /\ phase'[Reconciliation(Event(j))] # "absent"
                \/ j = Reconciliation(Event(j)) /\ place'[j][n].version \in Event(j)..truth
           /\ place'[j][n].stage \in {"appointing", "living"} /\ j = Reconciliation(Event(j)) =>
                \/ place'[j][n].version \in Event(j)..truth
                \/ place[j][n].stage = "appointing" /\ place'[j][n].version = place[j][n].version
<1> DEFINE v == Event(j)
           Here == {"appointing", "living", "succeeding"}
<1>0. v \in BookingVersions /\ v \in 0..LastVersion /\ 0 \in 0..LastVersion
  BY BookingJobs, BookingRecords
<1>a. place[j][n] \in Places /\ place[j][n].row \in 0..LastVersion /\ place[j][n].version \in 0..LastVersion
  BY BookingRecords DEF BookingTypeOK
<1>1. CASE j = Webhook(v) /\ FindBooking(v, n)
  <2>1. PICK k \in FirstOf(Reached(appointment, v)) : Moves(j, n, "finding", "enqueuing", k, v)
    BY <1>1 DEF FindBooking
  <2>2. k \in 0..LastVersion
    BY RowsFound
  <2> HIDE DEF v
  <2> QED
    BY <1>0, <2>1, <2>2, ExecutionMoves DEF BookingStages
<1>2. CASE j = Webhook(v) /\ EnqueueReconciliation(v, n)
  <2>1. phase'[Reconciliation(v)] # "absent"
    BY <1>0, <1>2, BookingJobs DEF EnqueueReconciliation, EnqueueJob, BookingTypeOK, QueueTypeOK
  <2> QED
    BY <1>0, <1>2, <2>1, BookingJobs
<1>3. CASE j = Reconciliation(v) /\ FindCorrelation(v, n)
  <2>1. CASE Moves(j, n, "finding", "none", 0, 0)
    BY <1>0, <2>1, ExecutionMoves DEF BookingStages
  <2>2. ASSUME NEW k \in Reached(appointment, v), Moves(j, n, "finding", "connecting", k, 0)
        PROVE  place'[j][n].stage = "connecting"
    <3>1. k \in 0..LastVersion
      BY RowsFound, BookingRecords
    <3> QED
      BY <1>0, <2>2, <3>1, ExecutionMoves DEF BookingStages
  <2>3. place'[j][n].stage \in {"none", "connecting"}
    BY <1>0, <1>3, <2>1, <2>2, ExecutionMoves DEF FindCorrelation, Leaves, BookingStages
  <2> QED
    BY <2>3
<1>4. CASE j = Reconciliation(v) /\ CheckConnection(v, n)
  <2>1. Moves(j, n, "connecting", "fetching", place[j][n].row, 0) \/ Moves(j, n, "connecting", "none", 0, 0)
    BY <1>4 DEF CheckConnection, Leaves
  <2> QED
    BY <1>0, <1>a, <2>1, ExecutionMoves DEF BookingStages
<1>5. CASE j = Reconciliation(v) /\ Fetch(v, n)
  <2>1. PICK w \in v..truth : Moves(j, n, "fetching", "appointing", place[j][n].row, w)
    BY <1>5 DEF Fetch
  <2>2. w \in 0..LastVersion
    BY <1>0, BookingRecords DEF BookingTypeOK
  <2>3. place'[j][n].version \in v..truth
    BY <1>a, <2>1, <2>2, ExecutionMoves DEF BookingStages
  <2> QED
    BY <1>5, <2>3
<1>6. CASE WriteAppointment(j, n)
  <2>1. Moves(j, n, "appointing", "living", place[j][n].row, place[j][n].version)
    BY <1>6 DEF WriteAppointment
  <2>2. place[j][n].stage = "appointing" /\ place'[j][n].version = place[j][n].version
    BY <1>a, <2>1, ExecutionMoves DEF BookingStages
  <2> QED
    BY <2>2
<1>7. CASE WriteLife(j, n)
  <2>1. Moves(j, n, "living", "succeeding", 0, 0)
    BY <1>7 DEF WriteLife
  <2>2. place[j][n].stage = "living" /\ place'[j][n].stage = "succeeding"
    BY <1>0, <2>1, ExecutionMoves DEF BookingStages
  <2> QED
    BY <2>2
<1>8. CASE Succeed(j, n)
  <2>1. Moves(j, n, "succeeding", "none", 0, 0)
    BY <1>8 DEF Succeed, Leaves
  <2> QED
    BY <1>0, <2>1, ExecutionMoves DEF BookingStages
<1>9. CASE ExecutionFails(j, n)
  <2>1. place'[j][n].stage = "none"
    BY <1>9, BookingRecords DEF ExecutionFails, BookingTypeOK
  <2> QED
    BY <2>1
<1> QED
  BY <1>1, <1>2, <1>3, <1>4, <1>5, <1>6, <1>7, <1>8, <1>9 DEF Works, Run

LEMMA WorkFollowsUp ==
    ASSUME FollowUpInv, NEW j \in Jobs, NEW n \in Claims, Works(j, n)
    PROVE  AskedBeforeWritten' /\ EventsAreFollowedUp'
<1>1. BookingTypeOK /\ PlacesMatch /\ QueueTypeOK /\ QueueStep /\ n \in working[j]
  BY WorkOnQueue DEF FollowUpInv, BookingTypeOK
<1>2. /\ \A k \in Jobs, m \in Claims : k # j \/ m # n => place'[k][m] = place[k][m]
      /\ truth' = truth
      /\ \A k \in Jobs : k # j /\ phase'[k] # phase[k] => phase'[k] = "waiting"
      /\ phase'[j] \in {phase[j], "waiting", "dead_letter"} \/ place[j][n].stage = "succeeding"
  BY <1>1, WorkKinds, WorkOnQueue DEF Unfinished
<1>3. \A v \in BookingVersions :
        phase[Reconciliation(v)] # "absent" => phase'[Reconciliation(v)] # "absent"
  BY <1>1, JobsStay, BookingJobs
<1>4. AskedBeforeWritten'
  <2> SUFFICES ASSUME NEW v \in BookingVersions, NEW m \in Claims,
                      place'[Webhook(v)][m].stage \in {"appointing", "living", "succeeding"}
               PROVE  phase'[Reconciliation(v)] # "absent"
    BY DEF AskedBeforeWritten
  <2>1. CASE Webhook(v) = j /\ m = n
    <3>1. \/ place[j][n].stage \in {"appointing", "living", "succeeding"}
          \/ phase'[Reconciliation(v)] # "absent"
      BY <1>1, <2>1, WorkMoves, BookingJobs
    <3> QED
      BY <1>3, <2>1, <3>1 DEF FollowUpInv, AskedBeforeWritten
  <2>2. CASE ~(Webhook(v) = j /\ m = n)
    BY <1>2, <1>3, <2>2, BookingJobs DEF FollowUpInv, AskedBeforeWritten
  <2> QED
    BY <2>1, <2>2
<1>5. ASSUME NEW v \in BookingVersions, phase'[Webhook(v)] = "succeeded"
      PROVE  phase'[Reconciliation(v)] # "absent"
  <2>1. \/ phase[Webhook(v)] = "succeeded"
        \/ Webhook(v) = j /\ place[j][n].stage = "succeeding"
    BY <1>2, <1>5, BookingJobs
  <2>2. phase[Reconciliation(v)] # "absent"
    BY <2>1 DEF FollowUpInv, AskedBeforeWritten, EventsAreFollowedUp
  <2> QED
    BY <1>3, <2>2
<1>6. ASSUME NEW v \in BookingVersions, NEW m \in Claims,
             place'[Reconciliation(v)][m].stage \in {"appointing", "living"}
      PROVE  place'[Reconciliation(v)][m].version \in v..truth'
  <2> DEFINE r == Reconciliation(v)
  <2>0. r \in Jobs /\ Event(r) = v
    BY BookingJobs
  <2>1. CASE r = j /\ m = n
    <3>1. \/ place'[r][m].version \in v..truth
          \/ place[r][m].stage = "appointing" /\ place'[r][m].version = place[r][m].version
      BY <1>1, <1>6, <2>0, <2>1, WorkMoves
    <3>2. v \in Nat /\ truth \in Nat /\ v <= truth
      <4>1. phase[j] # "absent"
        BY <1>1 DEF FollowUpInv, RunningIsEnqueued
      <4> QED
        BY <1>1, <2>0, <2>1, <4>1, BookingRecords
           DEF FollowUpInv, UntoldIsAbsent, BookingVersions, BookingTypeOK
    <3> QED
      BY <1>2, <3>1, <3>2 DEF FollowUpInv, EventsAreFollowedUp
  <2>2. CASE ~(r = j /\ m = n)
    <3>1. place'[r][m] = place[r][m]
      BY <1>2, <2>0, <2>2
    <3> QED
      BY <1>2, <1>6, <3>1 DEF FollowUpInv, EventsAreFollowedUp
  <2> QED
    BY <2>1, <2>2
<1> QED
  BY <1>4, <1>5, <1>6 DEF EventsAreFollowedUp

LEMMA FollowUpStep == FollowUpInv /\ [BookingNext]_bookingVars => FollowUpInv'
<1> SUFFICES ASSUME FollowUpInv, [BookingNext]_bookingVars PROVE FollowUpInv'
  OBVIOUS
<1>1. BookingTypeOK' /\ PlacesMatch' /\ UntoldIsAbsent' /\ RunningIsEnqueued'
  BY BookingNextType, JobsAreTold DEF FollowUpInv
<1>2. CASE \/ Request \/ SyncFind \/ SyncAppointment \/ SyncLife \/ AgentFails
           \/ ProviderChanges \/ ConnectionChanges
  <2>1. place' = place /\ phase' = phase
    BY <1>2, AgentType DEF FollowUpInv, queue
  <2> QED
    BY <1>1, <2>1, RequestsStay DEF FollowUpInv
<1>3. ASSUME NEW v \in BookingVersions, Deliver(v) PROVE AskedBeforeWritten' /\ EventsAreFollowedUp'
  <2>1. place' = place /\ \A j \in Jobs : phase'[j] = "succeeded" => phase[j] = "succeeded"
    BY <1>3, BookingJobs DEF Deliver, EnqueueJob, FollowUpInv, BookingTypeOK, QueueTypeOK
  <2> QED
    BY <2>1, RequestsStay
<1>4. ASSUME NEW j \in Jobs, LeaseLapses(j) PROVE AskedBeforeWritten' /\ EventsAreFollowedUp'
  <2>1. place' = place /\ \A k \in Jobs : phase'[k] = "succeeded" => phase[k] = "succeeded"
    BY <1>4 DEF LeaseLapses, LapseJob, FollowUpInv, BookingTypeOK, QueueTypeOK
  <2> QED
    BY <2>1, RequestsStay
<1>5. ASSUME NEW j \in Jobs, StartJob(j) PROVE AskedBeforeWritten' /\ EventsAreFollowedUp'
  <2> DEFINE m == holder[j] + 1
             there == Place("finding", 0, 0)
  <2>1. there.stage = "finding" /\ place' = [place EXCEPT ![j][m] = there]
    BY <1>5 DEF StartJob, Place
  <2>2. phase' = [phase EXCEPT ![j] = "held"]
    BY <1>5 DEF StartJob, ClaimJob
  <2> HIDE DEF m, there
  <2>3. \A k \in Jobs, n \in Claims : place'[k][n] = place[k][n] \/ place'[k][n].stage = "finding"
    BY <2>1 DEF FollowUpInv, BookingTypeOK
  <2>4. \A k \in Jobs : phase'[k] = "succeeded" => phase[k] = "succeeded"
    BY <2>2 DEF FollowUpInv, BookingTypeOK, QueueTypeOK
  <2> QED
    BY <2>3, <2>4, RequestsStay
<1>6. ASSUME NEW j \in Jobs, NEW n \in Claims, Works(j, n)
      PROVE  AskedBeforeWritten' /\ EventsAreFollowedUp'
  BY <1>6, WorkFollowsUp
<1>7. CASE UNCHANGED bookingVars
  <2>1. place' = place /\ phase' = phase
    BY <1>7 DEF bookingVars
  <2> QED
    BY <1>1, <2>1, RequestsStay DEF FollowUpInv
<1> QED
  BY <1>1, <1>2, <1>3, <1>4, <1>5, <1>6, <1>7 DEF BookingNext, Works, FollowUpInv

(* However executions overlap and fail: an event's job succeeds only after its   *)
(* reconciliation was enqueued (registerCalComWebhookJobHandler), and that one   *)
(* writes a version no older than the event it was enqueued for.                 *)
THEOREM EventsFollowedUp == BookingSpec => []EventsAreFollowedUp
<1>1. BookingInit => FollowUpInv
  <2> SUFFICES ASSUME BookingInit PROVE FollowUpInv
    OBVIOUS
  <2>1. BookingTypeOK /\ PlacesMatch
    BY BookingInitType, BookingRecords DEF BookingInit, QueueInit, PlacesMatch
  <2>2. /\ \A j \in Jobs : phase[j] = "absent" /\ working[j] = {}
        /\ \A j \in Jobs, n \in Claims : place[j][n].stage = "none"
    BY BookingRecords DEF BookingInit, QueueInit
  <2>3. UntoldIsAbsent /\ RunningIsEnqueued
    BY <2>2 DEF UntoldIsAbsent, RunningIsEnqueued
  <2>4. AskedBeforeWritten /\ EventsAreFollowedUp
    BY <2>2, BookingJobs DEF AskedBeforeWritten, EventsAreFollowedUp
  <2> QED
    BY <2>1, <2>3, <2>4 DEF FollowUpInv
<1> QED
  BY <1>1, FollowUpStep, PTL DEF BookingSpec, FollowUpInv
=============================================================================
