-------------------------- MODULE ApprovedActions --------------------------
(***************************************************************************)
(* Actions an agent may take only with the user's approval, from the chat  *)
(* turn that asks for one to the turn that continues it: executeConnector  *)
(* and executeTool up to their approval gates, createHitlRequest and       *)
(* decideHitlRequest, consumeApprovedHitlRequest, the resumed execution,   *)
(* closeApprovalGateRun and finishLifeTransactionForApproval.              *)
(*                                                                         *)
(* Every database or provider call is one step.  The turns of one user     *)
(* with one agent interleave (two devices, a double click), any of them    *)
(* may end with an error, and the web process may die with all of them.    *)
(***************************************************************************)
EXTENDS Naturals, Sequences, LifeTransitions

CONSTANTS
    Gated,     \* actions that wait at an approval gate of the runtime
    Hosted,    \* hosted checkouts: their approvals carry no tool to resume
    Turns,     \* chat turns that say "continue" and can be in flight together
    None       \* no action

Actions == Gated \cup Hosted

ASSUME ActionsAssumption == Gated \cap Hosted = {} /\ None \notin Actions

(* Schema-gated actions of adapters that keep no tool run, those of runtimes   *)
(* that record one, and tools that executeTool itself gates.                   *)
Kinds == {"direct", "tracked", "tool"}

VARIABLES
    kind,       \* kind[a]: the gate of a, which its provider decides
    ask,        \* ask[a]: where the turn that asks for a is
    hitl,       \* hitl[a]: its HitlRequest
    decisions,  \* the granted requests, in the order of decidedAt
    gate,       \* gate[a]: the tool run that waits for the approval
    run,        \* run[a]: the tool run under the key approved-hitl:<id>
    performed,  \* performed[a]: how often the provider has done a
    life,       \* life[a]: the LifeTransaction row, and whether it names the request
    cancel,     \* cancel[a]: the client's cancellation of that row
    turn,       \* turn[t]: where a continuing turn is, and what it holds
    cut         \* the actions whose continuation did not run to its end

vars == <<kind, ask, hitl, decisions, gate, run, performed, life, cancel, turn, cut>>

Schema == {a \in Gated : kind[a] # "tool"}

Runs == {"none", "running", "waiting_for_approval", "succeeded", "blocked", "failed"}

HitlRequests == [status : {"none", "pending_human_approval", "success", "blocked_by_policy"},
                 live : BOOLEAN, continued : BOOLEAN]
LifeRows     == [state : States \cup {"absent"}, linked : BOOLEAN]
Cancels      == [stage : {"none", "writing"}, linked : BOOLEAN]

NoRequest == [status |-> "none", live |-> FALSE, continued |-> FALSE]
NoLife    == [state |-> "absent", linked |-> FALSE]
NoCancel  == [stage |-> "none", linked |-> FALSE]
Idle      == [stage |-> "idle", act |-> None, outcome |-> "none"]

TurnStages == {"idle", "found", "checking", "starting", "calling", "marking", "closing",
               "finishing", "preparing", "executing", "ending", "settling"}
TurnRecords == [stage : TurnStages, act : Actions \cup {None}, outcome : {"none", "ok", "blocked"}]

Init ==
    /\ kind \in [Gated -> Kinds]
    /\ ask = [a \in Actions |-> "idle"]
    /\ hitl = [a \in Actions |-> NoRequest]
    /\ decisions = <<>>
    /\ gate = [a \in Actions |-> "none"]
    /\ run = [a \in Actions |-> "none"]
    /\ performed = [a \in Actions |-> 0]
    /\ life = [a \in Actions |-> NoLife]
    /\ cancel = [a \in Actions |-> NoCancel]
    /\ turn = [t \in Turns |-> Idle]
    /\ cut = {}

-----------------------------------------------------------------------------
(* The turn that asks.  A client's retry is another turn and another action. *)
Asks(a, from, to) == ask[a] = from /\ ask' = [ask EXCEPT ![a] = to]

(* startProviderRun, or the run executeTool creates before its policy check. *)
StartGateRun(a) ==
    /\ a \notin Hosted
    /\ Asks(a, "idle", "requesting")
    /\ gate' = [gate EXCEPT ![a] = "running"]
    /\ UNCHANGED <<kind, hitl, decisions, run, performed, life, cancel, turn, cut>>

Requested(a) == hitl' = [hitl EXCEPT ![a] = [status |-> "pending_human_approval", live |-> TRUE,
                                            continued |-> FALSE]]

(* createHitlRequest; a hosted checkout calls it from its own prepare endpoint. *)
CreateHitlRequest(a) ==
    /\ IF a \in Hosted THEN Asks(a, "idle", "done") ELSE Asks(a, "requesting", "marking")
    /\ Requested(a)
    /\ UNCHANGED <<kind, decisions, gate, run, performed, life, cancel, turn, cut>>

(* The run is marked as waiting by id alone, though the user already sees the  *)
(* request.  A schema gate whose capability transacts goes on to its life row. *)
MarkWaiting(a) ==
    /\ \/ a \in Schema /\ Asks(a, "marking", "planning")
       \/ Asks(a, "marking", "done")
    /\ gate' = [gate EXCEPT ![a] = "waiting_for_approval"]
    /\ UNCHANGED <<kind, hitl, decisions, run, performed, life, cancel, turn, cut>>

(* persistAwaitingLifeApproval, first its insert ... *)
PersistLife(a) ==
    /\ Asks(a, "planning", "linking")
    /\ life' = [life EXCEPT ![a].state = "awaiting_approval"]
    /\ UNCHANGED <<kind, hitl, decisions, gate, run, performed, cancel, turn, cut>>

(* ... then the update that makes the row name the request. *)
LinkLife(a) ==
    /\ Asks(a, "linking", "done")
    /\ life' = [life EXCEPT ![a].linked = TRUE]
    /\ UNCHANGED <<kind, hitl, decisions, gate, run, performed, cancel, turn, cut>>

(* A call of the asking turn throws.  Within createHitlRequest that may be     *)
(* before or after the request exists, and executeTool then fails its run.     *)
AskFails(a) ==
    /\ ask[a] \in {"requesting", "marking", "planning", "linking"}
    /\ ask' = [ask EXCEPT ![a] = "done"]
    /\ \/ ask[a] = "requesting" /\ Requested(a)
       \/ UNCHANGED hitl
    /\ gate' = IF a \in Gated \ Schema /\ ask[a] = "requesting" THEN [gate EXCEPT ![a] = "failed"] ELSE gate
    /\ UNCHANGED <<kind, decisions, run, performed, life, cancel, turn, cut>>

-----------------------------------------------------------------------------
(* The user, and the clock. *)

(* decideHitlRequest: a compare-and-set on pending and unexpired. *)
DecideHitlRequest(a) ==
    /\ hitl[a].status = "pending_human_approval" /\ hitl[a].live
    /\ \/ /\ hitl' = [hitl EXCEPT ![a].status = "success"]
          /\ decisions' = Append(decisions, a)
       \/ /\ hitl' = [hitl EXCEPT ![a].status = "blocked_by_policy"]
          /\ UNCHANGED decisions
    /\ UNCHANGED <<kind, ask, gate, run, performed, life, cancel, turn, cut>>

Expire(a) ==
    /\ hitl[a].live
    /\ hitl' = [hitl EXCEPT ![a].live = FALSE]
    /\ UNCHANGED <<kind, ask, decisions, gate, run, performed, life, cancel, turn, cut>>

(* The client cancels the life row: a read and a check, ... *)
CancelRead(a) ==
    /\ cancel[a].stage = "none" /\ MayMove(life[a].state, "cancelled")
    /\ cancel' = [cancel EXCEPT ![a] = [stage |-> "writing", linked |-> life[a].linked]]
    /\ UNCHANGED <<kind, ask, hitl, decisions, gate, run, performed, life, turn, cut>>

(* ... then an update by id alone, which writes back the request it read. *)
CancelWrite(a) ==
    /\ cancel[a].stage = "writing"
    /\ life' = [life EXCEPT ![a] = [state |-> "cancelled", linked |-> cancel[a].linked]]
    /\ cancel' = [cancel EXCEPT ![a] = NoCancel]
    /\ UNCHANGED <<kind, ask, hitl, decisions, gate, run, performed, turn, cut>>

-----------------------------------------------------------------------------
(* The turn that continues an approved action. *)
At(t, stage) == turn[t].stage = stage
Goto(t, stage) == turn' = [turn EXCEPT ![t].stage = stage]
Decide(t, stage, outcome) == turn' = [turn EXCEPT ![t].stage = stage, ![t].outcome = outcome]
Leave(t) == turn' = [turn EXCEPT ![t] = Idle]

Continuable(a) == hitl[a].status = "success" /\ hitl[a].live /\ ~hitl[a].continued

(* The latest decision among the approvals that can still be continued. *)
FindApproved(t) ==
    /\ At(t, "idle")
    /\ \E i \in DOMAIN decisions :
          /\ Continuable(decisions[i])
          /\ \A j \in DOMAIN decisions : j > i => ~Continuable(decisions[j])
          /\ turn' = [turn EXCEPT ![t] = [Idle EXCEPT !.stage = "found", !.act = decisions[i]]]
    /\ UNCHANGED <<kind, ask, hitl, decisions, gate, run, performed, life, cancel, cut>>

(* Definitions named Bad... are the faulty variants the project's mutants     *)
(* put in place of the definition that follows them.                          *)
BadConsume(t) ==
    /\ At(t, "found")
    /\ LET a == turn[t].act
       IN  IF hitl[a].status = "success" /\ ~hitl[a].continued
           THEN /\ hitl' = [hitl EXCEPT ![a].continued = TRUE]
                /\ CASE a \in Schema -> Goto(t, "checking")
                     [] a \in Gated \ Schema -> Goto(t, "starting")
                     [] OTHER        -> Leave(t)
           ELSE Leave(t) /\ UNCHANGED hitl
    /\ UNCHANGED <<kind, ask, decisions, gate, run, performed, life, cancel, cut>>

(* The compare-and-set on continuedAt and expiresAt.  What it consumed is resumed by the      *)
(* kind of its gate; the approval of a hosted checkout names no tool and is     *)
(* refused, consumed or not.                                                    *)
Consume(t) ==
    /\ At(t, "found")
    /\ LET a == turn[t].act
       IN  IF Continuable(a)
           THEN /\ hitl' = [hitl EXCEPT ![a].continued = TRUE]
                /\ CASE a \in Schema -> Goto(t, "checking")
                     [] a \in Gated \ Schema -> Goto(t, "starting")
                     [] OTHER        -> Leave(t)
           ELSE Leave(t) /\ UNCHANGED hitl
    /\ UNCHANGED <<kind, ask, decisions, gate, run, performed, life, cancel, cut>>

(* executeConnector up to its first attempt: the cohort, the provider, its      *)
(* readiness, the input and the connection may each block the action.  Such a   *)
(* block names no tool run, so that the gate run is taken for it and not closed. *)
CheckConnector(t) ==
    /\ At(t, "checking")
    /\ \/ Goto(t, IF kind[turn[t].act] = "direct" THEN "calling" ELSE "starting")
       \/ Decide(t, "finishing", "blocked")
    /\ UNCHANGED <<kind, ask, hitl, decisions, gate, run, performed, life, cancel, cut>>

AfterRun(t) == IF turn[t].act \in Schema THEN "closing" ELSE "finishing"

(* The run under the approval's own key: a finished one is replayed, and while  *)
(* one is running the insert of another fails.                                  *)
StartRun(t) ==
    /\ At(t, "starting")
    /\ LET a == turn[t].act
       IN  CASE run[a] = "none"    -> run' = [run EXCEPT ![a] = "running"] /\ Goto(t, "calling")
             [] run[a] = "running" -> UNCHANGED run /\ Leave(t)
             [] OTHER -> UNCHANGED run /\ Decide(t, AfterRun(t), IF run[a] = "succeeded" THEN "ok" ELSE "blocked")
    /\ UNCHANGED <<kind, ask, hitl, decisions, gate, performed, life, cancel, cut>>

(* The provider did it and said so, did it but the answer was lost, or did not. *)
(* An action that carries an approval is never attempted again.                 *)
ProviderCall(t) ==
    /\ At(t, "calling")
    /\ LET a == turn[t].act
           next == IF kind[a] = "direct" THEN "closing" ELSE "marking"
       IN  \/ /\ performed' = [performed EXCEPT ![a] = @ + 1]
              /\ Decide(t, next, "ok") \/ Decide(t, next, "blocked")
           \/ Decide(t, next, "blocked") /\ UNCHANGED performed
    /\ UNCHANGED <<kind, ask, hitl, decisions, gate, run, life, cancel, cut>>

(* What a run ends as; every failure of an adapter is a block. *)
Closed(outcome) == IF outcome = "ok" THEN "succeeded" ELSE "blocked"

BadMarkRun(t) ==
    /\ At(t, "marking")
    /\ run' = IF turn[t].outcome = "ok" THEN [run EXCEPT ![turn[t].act] = "succeeded"] ELSE run
    /\ Goto(t, AfterRun(t))
    /\ UNCHANGED <<kind, ask, hitl, decisions, gate, performed, life, cancel, cut>>

(* markSucceeded, markBlocked; a tool's own gate run is not touched again. *)
MarkRun(t) ==
    /\ At(t, "marking")
    /\ run' = [run EXCEPT ![turn[t].act] = Closed(turn[t].outcome)]
    /\ Goto(t, AfterRun(t))
    /\ UNCHANGED <<kind, ask, hitl, decisions, gate, performed, life, cancel, cut>>

BadCloseGateRun(t) ==
    /\ At(t, "closing")
    /\ gate' = [gate EXCEPT ![turn[t].act] = "succeeded"]
    /\ Goto(t, "finishing")
    /\ UNCHANGED <<kind, ask, hitl, decisions, run, performed, life, cancel, cut>>

(* closeApprovalGateRun *)
CloseGateRun(t) ==
    /\ At(t, "closing")
    /\ gate' = [gate EXCEPT ![turn[t].act] = Closed(turn[t].outcome)]
    /\ Goto(t, "finishing")
    /\ UNCHANGED <<kind, ask, hitl, decisions, run, performed, life, cancel, cut>>

BadFinishRead(t) ==
    /\ At(t, "finishing")
    /\ IF life[turn[t].act].linked
       THEN Goto(t, "ending")
       ELSE Leave(t)
    /\ UNCHANGED <<kind, ask, hitl, decisions, gate, run, performed, life, cancel, cut>>

(* finishLifeTransactionForApproval looks for a row that names the request; one *)
(* that still awaits the approval is first moved to executing.                  *)
FinishRead(t) ==
    /\ At(t, "finishing")
    /\ IF life[turn[t].act].linked
       THEN Goto(t, IF life[turn[t].act].state = "awaiting_approval" THEN "preparing" ELSE "ending")
       ELSE Leave(t)
    /\ UNCHANGED <<kind, ask, hitl, decisions, gate, run, performed, life, cancel, cut>>

(* Each of the two transitions reads the row and checks the move ... *)
Target(t) ==
    IF turn[t].stage \in {"preparing", "executing"} THEN "executing"
    ELSE IF turn[t].outcome = "ok" THEN "confirmed" ELSE "failed"

TransitionRead(t) ==
    /\ turn[t].stage \in {"preparing", "ending"}
    /\ IF MayMove(life[turn[t].act].state, Target(t))
       THEN Goto(t, IF At(t, "preparing") THEN "executing" ELSE "settling")
       ELSE Leave(t)
    /\ UNCHANGED <<kind, ask, hitl, decisions, gate, run, performed, life, cancel, cut>>

(* ... then updates it by id alone, and writes back the request it read. *)
TransitionWrite(t) ==
    /\ turn[t].stage \in {"executing", "settling"}
    /\ life' = [life EXCEPT ![turn[t].act] = [state |-> Target(t), linked |-> TRUE]]
    /\ IF At(t, "executing") THEN Goto(t, "ending") ELSE Leave(t)
    /\ UNCHANGED <<kind, ask, hitl, decisions, gate, run, performed, cancel, cut>>

-----------------------------------------------------------------------------
(* A call of the turn throws where nothing catches it: what came before stays, *)
(* and a consumed approval is not given back.                                   *)
Continuing(t) == turn[t].stage \notin {"idle", "found"}

TurnFails(t) ==
    /\ ~At(t, "idle") /\ ~At(t, "calling")
    /\ cut' = IF Continuing(t) THEN cut \cup {turn[t].act} ELSE cut
    /\ Leave(t)
    /\ UNCHANGED <<kind, ask, hitl, decisions, gate, run, performed, life, cancel>>

(* The web process dies, and nobody takes up the turns it was serving. *)
Crash ==
    /\ cut' = cut \cup {turn[t].act : t \in {u \in Turns : Continuing(u)}}
    /\ turn' = [t \in Turns |-> Idle]
    /\ ask' = [a \in Actions |-> IF ask[a] = "idle" THEN "idle" ELSE "done"]
    /\ cancel' = [a \in Actions |-> NoCancel]
    /\ <<turn, ask, cancel>>' # <<turn, ask, cancel>>
    /\ UNCHANGED <<kind, hitl, decisions, gate, run, performed, life>>

Ask(a) == StartGateRun(a) \/ CreateHitlRequest(a) \/ MarkWaiting(a) \/ PersistLife(a)
            \/ LinkLife(a) \/ AskFails(a)

User(a) == DecideHitlRequest(a) \/ Expire(a) \/ CancelRead(a) \/ CancelWrite(a)

Proceed(t) ==
    \/ Consume(t) \/ CheckConnector(t) \/ StartRun(t) \/ ProviderCall(t) \/ MarkRun(t)
    \/ CloseGateRun(t) \/ FinishRead(t) \/ TransitionRead(t) \/ TransitionWrite(t)

Next ==
    \/ \E a \in Actions : Ask(a) \/ User(a)
    \/ \E t \in Turns : FindApproved(t) \/ Proceed(t) \/ TurnFails(t)
    \/ Crash

Spec == Init /\ [][Next]_vars

(* An awaited call returns, unless it throws or the process dies. *)
Fairness == \A t \in Turns : WF_vars(Proceed(t))

FairSpec == Spec /\ Fairness

-----------------------------------------------------------------------------
(* Properties. *)

(* Every variable holds values of its kind. *)
TypeOK ==
    /\ kind \in [Gated -> Kinds]
    /\ ask \in [Actions -> {"idle", "requesting", "marking", "planning", "linking", "done"}]
    /\ hitl \in [Actions -> HitlRequests]
    /\ decisions \in Seq(Actions)
    /\ gate \in [Actions -> Runs] /\ run \in [Actions -> Runs]
    /\ performed \in [Actions -> Nat]
    /\ life \in [Actions -> LifeRows]
    /\ cancel \in [Actions -> Cancels]
    /\ turn \in [Turns -> TurnRecords]
    /\ cut \subseteq Actions

(* However many turns continue at once, and wherever they fail or die, a      *)
(* provider does an approved action at most once: the compare-and-set on       *)
(* continuedAt is all that guards the adapters without a tool run.             *)
AtMostOnce == \A a \in Actions : performed[a] <= 1

(* Why: what is performed was consumed first, by the one turn that won, and     *)
(* that turn comes past the provider call once.                                *)
TurnsKnowTheirAction == \A t \in Turns : ~At(t, "idle") => turn[t].act \in Actions

MayPerform(t) == turn[t].stage \in {"checking", "starting", "calling"}

UsedByOneTurn ==
    /\ \A a \in Actions : ask[a] \in {"idle", "requesting"} => hitl[a] = NoRequest
    /\ \A a \in Actions : ~hitl[a].continued => performed[a] = 0
    /\ \A t \in Turns : Continuing(t) => hitl[turn[t].act].continued
    /\ \A t \in Turns : MayPerform(t) => performed[turn[t].act] = 0
    /\ \A t, u \in Turns :
          Continuing(t) /\ Continuing(u) /\ turn[t].act = turn[u].act => t = u

(* What a gate run, a tool run or a life transaction reports as done, the      *)
(* provider has done, although the three are written by different calls of     *)
(* turns that block, fail and are cancelled on the way.                        *)
ReportedDoneIsPerformed ==
    \A a \in Actions :
        \/ gate[a] = "succeeded" \/ run[a] = "succeeded" \/ life[a].state = "confirmed"
        => performed[a] > 0

(* What a HitlRequest is to the user. *)
PhaseOf(request) ==
    CASE request.status = "none" -> "none"
      [] request.status = "pending_human_approval" -> "open"
      [] request.status = "blocked_by_policy" -> "denied"
      [] OTHER -> IF request.continued THEN "used" ELSE "granted"

(* The life of an approval is that of SingleUseApproval: no request is decided *)
(* or continued that has expired, none is continued that was denied, none      *)
(* twice, and nothing happens without one, although what findApproved read may *)
(* have expired or been continued by the time it is consumed.                  *)
Promise == INSTANCE SingleUseApproval WITH
    phase <- [a \in Actions |-> PhaseOf(hitl[a])],
    valid <- [a \in Actions |-> hitl[a].live],
    effects <- performed

ImplementsSingleUseApproval == Promise!Spec

(* A turn that comes to finish a life row which names its approval leaves the  *)
(* row settled, also when the client cancels it between the two transitions,   *)
(* unless the turn fails on the way.                                           *)
FinishedRowSettles ==
    \A t \in Turns, a \in Actions :
        At(t, "finishing") /\ turn[t].act = a /\ life[a].linked
            ~> life[a].state \in {"confirmed", "failed", "cancelled"} \/ a \in cut

(* A tool run stays running, which no retry can get past, only when the turn   *)
(* that started it failed or died.                                             *)
OnlyCutRunsStayOpen ==
    \A a \in Actions : run[a] = "running" ~> run[a] # "running" \/ a \in cut

(* Why: what is open has a turn at it, which has its next step to take, unless  *)
(* that turn failed or died: nobody takes up a tool run or a life row that was  *)
(* left open, so that the turn which opened it must never leave by another way. *)
HasTurn(a, stages) == \E t \in Turns : turn[t].act = a /\ turn[t].stage \in stages

OpenWorkHasItsTurn ==
    \A a \in Actions \ cut :
        /\ run[a] = "running" => HasTurn(a, {"calling", "marking"})
        /\ life[a].state = "executing" => HasTurn(a, {"ending", "settling"})

=============================================================================
