----------------------- MODULE ApprovedActionsProofs -----------------------
(* Theorems about ApprovedActions, for every set of actions and turns. *)
EXTENDS ApprovedActions, TLAPS

TypeInv == TypeOK /\ TurnsKnowTheirAction

LEMMA IdleIsTurn == Idle \in TurnRecords
  BY DEF Idle, TurnRecords, TurnStages

LEMMA InitType == Init => TypeInv
<1> SUFFICES ASSUME Init PROVE TypeInv
  OBVIOUS
<1>1. decisions \in Seq(Actions)
  BY DEF Init
<1>2. turn \in [Turns -> TurnRecords] /\ TurnsKnowTheirAction
  BY IdleIsTurn DEF Init, TurnsKnowTheirAction, At, Idle
<1> QED
  BY <1>1, <1>2 DEF Init, TypeInv, TypeOK, HitlRequests, LifeRows, Cancels, Runs, NoRequest, NoLife, NoCancel

(* The three ways a turn moves keep the turns' type. *)
LEMMA TurnMoves ==
    ASSUME TypeInv, NEW t \in Turns,
           \/ turn' = turn
           \/ Leave(t)
           \/ ~At(t, "idle") /\ \E stage \in TurnStages : Goto(t, stage)
           \/ ~At(t, "idle") /\ \E stage \in TurnStages, outcome \in {"ok", "blocked"} :
                  Decide(t, stage, outcome)
           \/ \E a \in Actions : turn' = [turn EXCEPT ![t] = [Idle EXCEPT !.stage = "found", !.act = a]]
    PROVE  turn' \in [Turns -> TurnRecords] /\ TurnsKnowTheirAction'
<1>1. turn \in [Turns -> TurnRecords]
  BY DEF TypeInv, TypeOK
<1>2. CASE turn' = turn
  BY <1>1, <1>2 DEF TypeInv, TurnsKnowTheirAction, At
<1>3. CASE Leave(t)
  BY <1>1, <1>3, IdleIsTurn DEF TypeInv, TurnsKnowTheirAction, At, Leave, Idle
<1>4. CASE ~At(t, "idle") /\ \E stage \in TurnStages : Goto(t, stage)
  <2>1. PICK stage \in TurnStages : Goto(t, stage)
    BY <1>4
  <2>2. turn' = [turn EXCEPT ![t] = [turn[t] EXCEPT !.stage = stage]]
    BY <2>1 DEF Goto
  <2>3. [turn[t] EXCEPT !.stage = stage] \in TurnRecords
    BY <1>1 DEF TurnRecords
  <2> QED
    BY <1>1, <1>4, <2>2, <2>3 DEF TypeInv, TurnsKnowTheirAction, At, TurnRecords
<1>5. CASE ~At(t, "idle") /\ \E stage \in TurnStages, outcome \in {"ok", "blocked"} :
              Decide(t, stage, outcome)
  <2>1. PICK stage \in TurnStages, outcome \in {"ok", "blocked"} : Decide(t, stage, outcome)
    BY <1>5
  <2>2. turn' = [turn EXCEPT ![t] = [turn[t] EXCEPT !.stage = stage, !.outcome = outcome]]
    BY <2>1, <1>1 DEF Decide, TurnRecords
  <2>3. [turn[t] EXCEPT !.stage = stage, !.outcome = outcome] \in TurnRecords
    BY <1>1 DEF TurnRecords
  <2> QED
    BY <1>1, <1>5, <2>2, <2>3 DEF TypeInv, TurnsKnowTheirAction, At, TurnRecords
<1>6. CASE \E a \in Actions : turn' = [turn EXCEPT ![t] = [Idle EXCEPT !.stage = "found", !.act = a]]
  <2>1. PICK a \in Actions : turn' = [turn EXCEPT ![t] = [Idle EXCEPT !.stage = "found", !.act = a]]
    BY <1>6
  <2>2. [Idle EXCEPT !.stage = "found", !.act = a] \in TurnRecords
    BY DEF TurnRecords, Idle, TurnStages
  <2> QED
    BY <1>1, <2>1, <2>2 DEF TypeInv, TurnsKnowTheirAction, At, Idle
<1> QED
  BY <1>2, <1>3, <1>4, <1>5, <1>6

LEMMA AskType ==
    ASSUME TypeInv, NEW a \in Actions, Ask(a)
    PROVE  TypeInv'
<1>1. TurnsKnowTheirAction' /\ turn' = turn
  BY DEF TypeInv, TurnsKnowTheirAction, At, Ask, StartGateRun, CreateHitlRequest, MarkWaiting,
         PersistLife, LinkLife, AskFails
<1>2. hitl' = hitl \/ Requested(a)
  BY DEF Ask, StartGateRun, CreateHitlRequest, MarkWaiting, PersistLife, LinkLife, AskFails
<1>3. hitl' \in [Actions -> HitlRequests]
  <2>1. [status |-> "pending_human_approval", live |-> TRUE, continued |-> FALSE] \in HitlRequests
    BY DEF HitlRequests
  <2> QED
    BY <1>2, <2>1 DEF TypeInv, TypeOK, Requested
<1>4. \E status \in Runs : gate' = [gate EXCEPT ![a] = status] \/ gate' = gate
  BY DEF Ask, StartGateRun, CreateHitlRequest, MarkWaiting, PersistLife, LinkLife, AskFails, Runs
<1>5. gate' \in [Actions -> Runs]
  BY <1>4 DEF TypeInv, TypeOK
<1>6. \/ life' = life \/ life' = [life EXCEPT ![a].state = "awaiting_approval"]
      \/ life' = [life EXCEPT ![a].linked = TRUE]
  BY DEF Ask, StartGateRun, CreateHitlRequest, MarkWaiting, PersistLife, LinkLife, AskFails
<1>7. life' \in [Actions -> LifeRows]
  <2>1. life[a] \in LifeRows
    BY DEF TypeInv, TypeOK
  <2>2. /\ [life[a] EXCEPT !.state = "awaiting_approval"] \in LifeRows
        /\ [life[a] EXCEPT !.linked = TRUE] \in LifeRows
    BY <2>1 DEF LifeRows, States
  <2> QED
    BY <1>6, <2>2 DEF TypeInv, TypeOK
<1>8. \E stage \in {"requesting", "marking", "planning", "linking", "done"} : ask' = [ask EXCEPT ![a] = stage]
  BY DEF Ask, StartGateRun, CreateHitlRequest, MarkWaiting, PersistLife, LinkLife, AskFails, Asks
<1>9. UNCHANGED <<kind, decisions, run, performed, cancel, turn, cut>>
  BY DEF Ask, StartGateRun, CreateHitlRequest, MarkWaiting, PersistLife, LinkLife, AskFails
<1> QED
  BY <1>1, <1>3, <1>5, <1>7, <1>8, <1>9 DEF TypeInv, TypeOK

LEMMA UserType ==
    ASSUME TypeInv, NEW a \in Actions, User(a)
    PROVE  TypeInv'
<1>1. TurnsKnowTheirAction' /\ UNCHANGED <<kind, ask, gate, run, performed, turn, cut>>
  BY DEF TypeInv, TurnsKnowTheirAction, At, User, DecideHitlRequest, Expire, CancelRead, CancelWrite
<1>2. hitl[a] \in HitlRequests /\ life[a] \in LifeRows /\ cancel[a] \in Cancels
  BY DEF TypeInv, TypeOK
<1>3. CASE DecideHitlRequest(a)
  <2>1. /\ [hitl[a] EXCEPT !.status = "success"] \in HitlRequests
        /\ [hitl[a] EXCEPT !.status = "blocked_by_policy"] \in HitlRequests
    BY <1>2 DEF HitlRequests
  <2>2. hitl' \in [Actions -> HitlRequests]
    BY <1>3, <2>1 DEF DecideHitlRequest, TypeInv, TypeOK
  <2>3. decisions' \in Seq(Actions)
    <3>1. decisions \in Seq(Actions) /\ (decisions' = decisions \/ decisions' = Append(decisions, a))
      BY <1>3 DEF DecideHitlRequest, TypeInv, TypeOK
    <3> QED
      BY <3>1
  <2> QED
    BY <1>1, <1>3, <2>2, <2>3 DEF TypeInv, TypeOK, DecideHitlRequest
<1>4. CASE Expire(a)
  <2>1. [hitl[a] EXCEPT !.live = FALSE] \in HitlRequests
    BY <1>2 DEF HitlRequests
  <2> QED
    BY <1>1, <1>4, <2>1 DEF TypeInv, TypeOK, Expire
<1>5. CASE CancelRead(a)
  BY <1>1, <1>2, <1>5 DEF TypeInv, TypeOK, CancelRead, Cancels, LifeRows
<1>6. CASE CancelWrite(a)
  BY <1>1, <1>2, <1>6 DEF TypeInv, TypeOK, CancelWrite, NoCancel, Cancels, LifeRows, States
<1> QED
  BY <1>3, <1>4, <1>5, <1>6 DEF User

LEMMA ProceedType ==
    ASSUME TypeInv, NEW t \in Turns, FindApproved(t) \/ Proceed(t) \/ TurnFails(t)
    PROVE  TypeInv'
<1> DEFINE a == turn[t].act
<1>1. ~At(t, "idle") => a \in Actions
  BY DEF TypeInv, TurnsKnowTheirAction
<1>2. turn' \in [Turns -> TurnRecords] /\ TurnsKnowTheirAction'
  <2>1. CASE FindApproved(t)
    <3>1. PICK i \in DOMAIN decisions :
             turn' = [turn EXCEPT ![t] = [Idle EXCEPT !.stage = "found", !.act = decisions[i]]]
      BY <2>1 DEF FindApproved
    <3>2. decisions[i] \in Actions
      BY DEF TypeInv, TypeOK
    <3> QED
      BY <3>1, <3>2, TurnMoves
  <2>2. CASE TurnFails(t)
    BY <2>2, TurnMoves DEF TurnFails
  <2>3. CASE Consume(t) \/ CheckConnector(t) \/ StartRun(t)
    BY <2>3, TurnMoves DEF Consume, CheckConnector, StartRun, AfterRun, TurnStages, At
  <2>4. CASE ProviderCall(t) \/ MarkRun(t) \/ CloseGateRun(t)
    BY <2>4, TurnMoves DEF ProviderCall, MarkRun, CloseGateRun, AfterRun, TurnStages, At
  <2>5. CASE FinishRead(t) \/ TransitionRead(t) \/ TransitionWrite(t)
    BY <2>5, TurnMoves DEF FinishRead, TransitionRead, TransitionWrite, TurnStages, At
  <2> QED
    BY <2>1, <2>2, <2>3, <2>4, <2>5 DEF Proceed
<1>3. UNCHANGED <<kind, ask, decisions, cancel>>
  BY DEF FindApproved, TurnFails, Proceed, Consume, CheckConnector, StartRun, ProviderCall, MarkRun,
         CloseGateRun, FinishRead, TransitionRead, TransitionWrite
<1>4. hitl' = hitl \/ (~At(t, "idle") /\ hitl' = [hitl EXCEPT ![a] = [hitl[a] EXCEPT !.continued = TRUE]])
  BY DEF FindApproved, TurnFails, Proceed, Consume, CheckConnector, StartRun, ProviderCall, MarkRun,
         CloseGateRun, FinishRead, TransitionRead, TransitionWrite, At
<1>5. /\ gate' = gate \/ \E status \in Runs : gate' = [gate EXCEPT ![a] = status]
      /\ run' = run \/ \E status \in Runs : run' = [run EXCEPT ![a] = status]
  BY DEF FindApproved, TurnFails, Proceed, Consume, CheckConnector, StartRun, ProviderCall, MarkRun,
         CloseGateRun, FinishRead, TransitionRead, TransitionWrite, Closed, Runs
<1>6. performed' = performed \/ performed' = [performed EXCEPT ![a] = performed[a] + 1]
  BY DEF FindApproved, TurnFails, Proceed, Consume, CheckConnector, StartRun, ProviderCall, MarkRun,
         CloseGateRun, FinishRead, TransitionRead, TransitionWrite
<1>7. life' = life \/ \E state \in States : life' = [life EXCEPT ![a] = [state |-> state, linked |-> TRUE]]
  BY DEF FindApproved, TurnFails, Proceed, Consume, CheckConnector, StartRun, ProviderCall, MarkRun,
         CloseGateRun, FinishRead, TransitionRead, TransitionWrite, Target, States
<1>8. cut' = cut \/ (~At(t, "idle") /\ cut' = cut \cup {a})
  BY DEF FindApproved, TurnFails, Proceed, Consume, CheckConnector, StartRun, ProviderCall, MarkRun,
         CloseGateRun, FinishRead, TransitionRead, TransitionWrite
<1>9. performed' \in [Actions -> Nat] /\ cut' \subseteq Actions
  BY <1>1, <1>6, <1>8 DEF TypeInv, TypeOK
<1>10. hitl' \in [Actions -> HitlRequests]
  <2>1. \A h \in HitlRequests : [h EXCEPT !.continued = TRUE] \in HitlRequests
    BY DEF HitlRequests
  <2> QED
    <3>1. hitl \in [Actions -> HitlRequests]
      BY DEF TypeInv, TypeOK
    <3>2. CASE ~At(t, "idle")
      <4>1. a \in Actions /\ hitl[a] \in HitlRequests
        BY <1>1, <3>1, <3>2
      <4>2. [hitl[a] EXCEPT !.continued = TRUE] \in HitlRequests
        BY <2>1, <4>1
      <4> QED
        BY <1>4, <3>1, <4>1, <4>2
    <3> QED
      BY <1>4, <3>1, <3>2
<1>11. gate' \in [Actions -> Runs] /\ run' \in [Actions -> Runs]
       /\ life' \in [Actions -> LifeRows]
  <2>1. \A state \in States : [state |-> state, linked |-> TRUE] \in LifeRows
    BY DEF LifeRows
  <2> QED
    BY <1>5, <1>7, <2>1 DEF TypeInv, TypeOK
<1> QED
  BY <1>2, <1>3, <1>9, <1>10, <1>11 DEF TypeInv, TypeOK

LEMMA CrashType ==
    ASSUME TypeInv, Crash
    PROVE  TypeInv'
<1>1. turn' \in [Turns -> TurnRecords] /\ TurnsKnowTheirAction'
  BY IdleIsTurn DEF Crash, TurnsKnowTheirAction, At, Idle
<1>2. cut' \subseteq Actions
  BY DEF TypeInv, TypeOK, TurnsKnowTheirAction, Crash, Continuing, At
<1> QED
  BY <1>1, <1>2 DEF TypeInv, TypeOK, Crash, Cancels, NoCancel

LEMMA NextType == TypeInv /\ [Next]_vars => TypeInv'
<1> SUFFICES ASSUME TypeInv, [Next]_vars PROVE TypeInv'
  OBVIOUS
<1>1. CASE \E a \in Actions : Ask(a) \/ User(a)
  BY <1>1, AskType, UserType
<1>2. CASE \E t \in Turns : FindApproved(t) \/ Proceed(t) \/ TurnFails(t)
  BY <1>2, ProceedType
<1>3. CASE Crash
  BY <1>3, CrashType
<1>4. CASE UNCHANGED vars
  BY <1>4 DEF vars, TypeInv, TypeOK, TurnsKnowTheirAction, At
<1> QED
  BY <1>1, <1>2, <1>3, <1>4 DEF Next

(* TypeOK, for every set of actions and turns. *)
THEOREM TypeCorrect == Spec => []TypeOK
<1>1. TypeInv => TypeOK
  BY DEF TypeInv
<1> QED
  BY <1>1, InitType, NextType, PTL DEF Spec

-----------------------------------------------------------------------------
(* At most once.  The argument is about the one turn that consumed. *)
Once == UsedByOneTurn /\ AtMostOnce

(* What Once says depends on these only. *)
LEMMA OnceKept ==
    ASSUME TypeInv, Once,
           UNCHANGED <<turn, performed>>,
           \A a \in Actions : hitl'[a].continued = hitl[a].continued,
           \A a \in Actions : ask'[a] \in {"idle", "requesting"} =>
               ask[a] \in {"idle", "requesting"} /\ hitl'[a] = hitl[a]
    PROVE  Once'
  BY DEF Once, UsedByOneTurn, AtMostOnce, TypeInv, TurnsKnowTheirAction, At, Continuing, MayPerform

LEMMA AskOnce ==
    ASSUME TypeInv, Once, NEW a \in Actions, Ask(a)
    PROVE  Once'
<1>1. UNCHANGED <<turn, performed>>
  BY DEF Ask, StartGateRun, CreateHitlRequest, MarkWaiting, PersistLife, LinkLife, AskFails
<1>2. hitl' = hitl \/ (Requested(a) /\ ask[a] \in {"idle", "requesting"} /\ ask'[a] \in {"marking", "done"})
  BY DEF TypeInv, TypeOK, Ask, StartGateRun, CreateHitlRequest, Asks, MarkWaiting, PersistLife, LinkLife, AskFails
<1>3. hitl[a].continued = FALSE \/ hitl' = hitl
  BY <1>2 DEF Once, UsedByOneTurn, NoRequest
<1>4. \A b \in Actions : hitl'[b].continued = hitl[b].continued
  <2>1. CASE hitl' = hitl
    BY <2>1
  <2>2. CASE Requested(a) /\ hitl[a].continued = FALSE
    <3>1. hitl'[a].continued = FALSE
      BY <2>2 DEF Requested, TypeInv, TypeOK
    <3>2. \A b \in Actions : b # a => hitl'[b] = hitl[b]
      BY <2>2 DEF Requested, TypeInv, TypeOK
    <3> QED
      BY <2>2, <3>1, <3>2
  <2> QED
    BY <1>2, <1>3, <2>1, <2>2
<1>5. \A b \in Actions : b # a => hitl'[b] = hitl[b] /\ ask'[b] = ask[b]
  BY <1>2 DEF Requested, TypeInv, TypeOK, Ask, StartGateRun, CreateHitlRequest, Asks, MarkWaiting,
         PersistLife, LinkLife, AskFails
<1>6. ask'[a] \in {"idle", "requesting"} => ask[a] \in {"idle", "requesting"} /\ hitl' = hitl
  BY <1>2 DEF TypeInv, TypeOK, Ask, StartGateRun, CreateHitlRequest, Asks, MarkWaiting,
         PersistLife, LinkLife, AskFails
<1> QED
  BY <1>1, <1>4, <1>5, <1>6, OnceKept

LEMMA UserOnce ==
    ASSUME TypeInv, Once, NEW a \in Actions, User(a)
    PROVE  Once'
<1>1. UNCHANGED <<turn, performed, ask>>
  BY DEF User, DecideHitlRequest, Expire, CancelRead, CancelWrite
<1>2. hitl' = hitl \/ (hitl[a].live /\ \E h \in HitlRequests : h.continued = hitl[a].continued
                                                          /\ hitl' = [hitl EXCEPT ![a] = h])
  <2>1. \A h \in HitlRequests : /\ [h EXCEPT !.status = "success"] \in HitlRequests
                                /\ [h EXCEPT !.status = "blocked_by_policy"] \in HitlRequests
                                /\ [h EXCEPT !.live = FALSE] \in HitlRequests
    BY DEF HitlRequests
  <2>2. hitl[a] \in HitlRequests
    BY DEF TypeInv, TypeOK
  <2>3. \A h \in HitlRequests : /\ [h EXCEPT !.status = "success"].continued = h.continued
                                /\ [h EXCEPT !.status = "blocked_by_policy"].continued = h.continued
                                /\ [h EXCEPT !.live = FALSE].continued = h.continued
    BY DEF HitlRequests
  <2>4. \/ hitl' = hitl
        \/ /\ hitl[a].live
           /\ \/ hitl' = [hitl EXCEPT ![a] = [hitl[a] EXCEPT !.status = "success"]]
              \/ hitl' = [hitl EXCEPT ![a] = [hitl[a] EXCEPT !.status = "blocked_by_policy"]]
              \/ hitl' = [hitl EXCEPT ![a] = [hitl[a] EXCEPT !.live = FALSE]]
    BY DEF User, DecideHitlRequest, Expire, CancelRead, CancelWrite
  <2> QED
    BY <2>1, <2>2, <2>3, <2>4
<1>3. ask[a] \in {"idle", "requesting"} => hitl' = hitl
  BY <1>2 DEF Once, UsedByOneTurn, NoRequest
<1>4. \A b \in Actions : hitl'[b].continued = hitl[b].continued /\ (b # a => hitl'[b] = hitl[b])
  BY <1>2 DEF TypeInv, TypeOK
<1> QED
  BY <1>1, <1>3, <1>4, OnceKept

(* A turn that goes on with its action, but past no provider call. *)
LEMMA TurnOnce ==
    ASSUME TypeInv, Once, NEW t \in Turns, UNCHANGED <<hitl, performed, ask>>,
           NEW e \in TurnRecords, turn' = [turn EXCEPT ![t] = e],
           \/ e.stage \in {"idle", "found"}
           \/ /\ Continuing(t) /\ e.act = turn[t].act
              /\ e.stage \in {"checking", "starting", "calling"} => MayPerform(t)
    PROVE  Once'
<1>1. \A u \in Turns : Continuing(u)' => Continuing(u) /\ turn'[u].act = turn[u].act
  BY DEF Continuing, TypeInv, TypeOK
<1>2. \A u \in Turns : MayPerform(u)' => MayPerform(u) /\ turn'[u].act = turn[u].act
  BY DEF Continuing, MayPerform, TypeInv, TypeOK
<1> QED
  BY <1>1, <1>2 DEF Once, UsedByOneTurn, AtMostOnce

LEMMA ConsumeOnce ==
    ASSUME TypeInv, Once, NEW t \in Turns, Consume(t)
    PROVE  Once'
<1> DEFINE a == turn[t].act
<1>1. a \in Actions /\ turn[t] \in TurnRecords
  BY DEF TypeInv, TypeOK, TurnsKnowTheirAction, Consume, At
<1>2. CASE ~Continuable(a)
  BY <1>1, <1>2, IdleIsTurn, TurnOnce DEF Consume, Leave, Idle
<1>3. CASE Continuable(a)
  <2>1. /\ ~hitl[a].continued /\ performed[a] = 0
        /\ \A u \in Turns : Continuing(u) => turn[u].act # a
    BY <1>1, <1>3 DEF Continuable, Once, UsedByOneTurn
  <2>2. ask[a] \notin {"idle", "requesting"}
    BY <1>1, <1>3 DEF Continuable, Once, UsedByOneTurn, NoRequest
  <2>3. /\ \A b \in Actions : b # a => hitl'[b] = hitl[b]
        /\ hitl'[a].continued = TRUE
    BY <1>1, <1>3 DEF Consume, TypeInv, TypeOK, HitlRequests
  <2>4. \A u \in Turns : u # t => turn'[u] = turn[u]
    BY <1>3 DEF Consume, Goto, Leave, TypeInv, TypeOK
  <2>5. turn'[t].act = a \/ turn'[t] = Idle
    BY <1>1, <1>3 DEF Consume, Goto, Leave, TypeInv, TypeOK, TurnRecords
  <2>6. UNCHANGED <<performed, ask>>
    BY DEF Consume
  <2>7. ~(Idle.stage \notin {"idle", "found"}) /\ Idle.stage \notin {"checking", "starting", "calling"}
    BY DEF Idle
  <2> QED
    BY <1>1, <2>1, <2>2, <2>3, <2>4, <2>5, <2>6, <2>7
       DEF Once, UsedByOneTurn, AtMostOnce, Continuing, MayPerform, TypeInv, TurnsKnowTheirAction, At
<1> QED
  BY <1>2, <1>3

LEMMA ProviderCallOnce ==
    ASSUME TypeInv, Once, NEW t \in Turns, ProviderCall(t)
    PROVE  Once'
<1> DEFINE a == turn[t].act
<1>1. a \in Actions /\ turn[t] \in TurnRecords /\ turn[t].stage = "calling"
  BY DEF TypeInv, TypeOK, TurnsKnowTheirAction, ProviderCall, At
<1>2. Continuing(t) /\ MayPerform(t) /\ performed[a] = 0 /\ hitl[a].continued
  BY <1>1 DEF Continuing, MayPerform, Once, UsedByOneTurn
<1>3. /\ \A u \in Turns : u # t => turn'[u] = turn[u]
      /\ turn'[t].act = a /\ turn'[t].stage \in {"closing", "marking"}
  BY <1>1 DEF ProviderCall, Decide, TypeInv, TypeOK, TurnRecords
<1>4. /\ \A b \in Actions : b # a => performed'[b] = performed[b]
      /\ performed'[a] \in {0, 1}
  BY <1>1, <1>2 DEF ProviderCall, TypeInv, TypeOK
<1>5. UNCHANGED <<hitl, ask>>
  BY DEF ProviderCall
<1>6. \A u \in Turns : u # t /\ Continuing(u) => turn[u].act # a
  BY <1>2 DEF Once, UsedByOneTurn
<1>7. \A u \in Turns : MayPerform(u) => Continuing(u)
  BY DEF MayPerform, Continuing
<1> QED
  BY <1>1, <1>2, <1>3, <1>4, <1>5, <1>6, <1>7
     DEF Once, UsedByOneTurn, AtMostOnce, Continuing, MayPerform, TypeInv, TurnsKnowTheirAction, At

(* Every other step of a turn is one of TurnOnce. *)
LEMMA OtherTurnsOnce ==
    ASSUME TypeInv, Once, NEW t \in Turns,
           \/ FindApproved(t) \/ TurnFails(t)
           \/ CheckConnector(t) \/ StartRun(t) \/ MarkRun(t) \/ CloseGateRun(t)
           \/ FinishRead(t) \/ TransitionRead(t) \/ TransitionWrite(t)
    PROVE  Once'
<1>1. UNCHANGED <<hitl, performed, ask>>
  BY DEF FindApproved, TurnFails, CheckConnector, StartRun, MarkRun, CloseGateRun, FinishRead,
         TransitionRead, TransitionWrite
<1>2. turn[t] \in TurnRecords
  BY DEF TypeInv, TypeOK
<1>3. CASE FindApproved(t)
  <2>1. PICK i \in DOMAIN decisions :
           turn' = [turn EXCEPT ![t] = [Idle EXCEPT !.stage = "found", !.act = decisions[i]]]
    BY <1>3 DEF FindApproved
  <2>2. decisions[i] \in Actions
    BY DEF TypeInv, TypeOK
  <2>3. [Idle EXCEPT !.stage = "found", !.act = decisions[i]] \in TurnRecords
    BY <2>2 DEF TurnRecords, Idle, TurnStages
  <2>4. [Idle EXCEPT !.stage = "found", !.act = decisions[i]].stage = "found"
    BY DEF Idle
  <2> QED
    BY <1>1, <2>1, <2>3, <2>4, TurnOnce
<1>4. CASE Leave(t)
  <2>1. turn' = [turn EXCEPT ![t] = Idle] /\ Idle.stage = "idle"
    BY <1>4 DEF Leave, Idle
  <2> QED
    BY <1>1, <2>1, IdleIsTurn, TurnOnce
<1>5. CASE CheckConnector(t) \/ (StartRun(t) /\ ~Leave(t))
  <2>1. Continuing(t) /\ MayPerform(t)
    BY <1>5 DEF CheckConnector, StartRun, At, Continuing, MayPerform
  <2>2. \/ \E stage \in TurnStages : Goto(t, stage)
        \/ \E stage \in TurnStages, outcome \in {"ok", "blocked"} : Decide(t, stage, outcome)
    BY <1>5 DEF CheckConnector, StartRun, AfterRun, TurnStages
  <2>3. CASE \E stage \in TurnStages : Goto(t, stage)
    <3>1. PICK stage \in TurnStages : turn' = [turn EXCEPT ![t] = [turn[t] EXCEPT !.stage = stage]]
      BY <2>3 DEF Goto
    <3>2. /\ [turn[t] EXCEPT !.stage = stage] \in TurnRecords
          /\ [turn[t] EXCEPT !.stage = stage].act = turn[t].act
      BY <1>2 DEF TurnRecords
    <3> QED
      BY <1>1, <2>1, <3>1, <3>2, TurnOnce
  <2>4. CASE \E stage \in TurnStages, outcome \in {"ok", "blocked"} : Decide(t, stage, outcome)
    <3>0. PICK stage \in TurnStages, outcome \in {"ok", "blocked"} : Decide(t, stage, outcome)
      BY <2>4
    <3>1. turn' = [turn EXCEPT ![t] = [turn[t] EXCEPT !.stage = stage, !.outcome = outcome]]
      <4>1. turn \in [Turns -> TurnRecords]
        BY DEF TypeInv, TypeOK
      <4> QED
        BY <3>0, <4>1 DEF Decide, TurnRecords
    <3>2. /\ [turn[t] EXCEPT !.stage = stage, !.outcome = outcome] \in TurnRecords
          /\ [turn[t] EXCEPT !.stage = stage, !.outcome = outcome].act = turn[t].act
      BY <1>2 DEF TurnRecords
    <3> QED
      BY <1>1, <2>1, <3>1, <3>2, TurnOnce
  <2> QED
    BY <2>2, <2>3, <2>4
<1>6. CASE ~Leave(t) /\ (MarkRun(t) \/ CloseGateRun(t) \/ FinishRead(t) \/ TransitionRead(t) \/ TransitionWrite(t))
  <2>1. \E stage \in TurnStages \ {"checking", "starting", "calling"} :
            turn' = [turn EXCEPT ![t] = [turn[t] EXCEPT !.stage = stage]]
    BY <1>6 DEF MarkRun, CloseGateRun, FinishRead, TransitionRead, TransitionWrite, Goto, AfterRun, TurnStages
  <2>2. PICK stage \in TurnStages \ {"checking", "starting", "calling"} :
            turn' = [turn EXCEPT ![t] = [turn[t] EXCEPT !.stage = stage]]
    BY <2>1
  <2>3. /\ [turn[t] EXCEPT !.stage = stage] \in TurnRecords
        /\ [turn[t] EXCEPT !.stage = stage].act = turn[t].act
        /\ [turn[t] EXCEPT !.stage = stage].stage = stage
    BY <1>2 DEF TurnRecords
  <2>4. Continuing(t)
    BY <1>6 DEF MarkRun, CloseGateRun, FinishRead, TransitionRead, TransitionWrite, At, Continuing
  <2> QED
    BY <1>1, <2>2, <2>3, <2>4, TurnOnce
<1> QED
  BY <1>3, <1>4, <1>5, <1>6 DEF TurnFails

LEMMA CrashOnce ==
    ASSUME TypeInv, Once, Crash
    PROVE  Once'
<1>1. \A t \in Turns : ~Continuing(t)' /\ ~MayPerform(t)'
  BY DEF Crash, Idle, Continuing, MayPerform
<1>2. UNCHANGED <<hitl, performed>>
  BY DEF Crash
<1>3. \A a \in Actions : ask'[a] \in {"idle", "requesting"} => ask[a] = "idle"
  BY DEF Crash
<1> QED
  BY <1>1, <1>2, <1>3 DEF Once, UsedByOneTurn, AtMostOnce

LEMMA InitOnce == Init => Once
  BY DEF Init, Once, UsedByOneTurn, AtMostOnce, Idle, Continuing, MayPerform

LEMMA NextOnce == TypeInv /\ Once /\ [Next]_vars => Once'
<1> SUFFICES ASSUME TypeInv, Once, [Next]_vars PROVE Once'
  OBVIOUS
<1>1. CASE \E a \in Actions : Ask(a) \/ User(a)
  BY <1>1, AskOnce, UserOnce
<1>2. CASE \E t \in Turns : FindApproved(t) \/ Proceed(t) \/ TurnFails(t)
  BY <1>2, ConsumeOnce, ProviderCallOnce, OtherTurnsOnce DEF Proceed
<1>3. CASE Crash
  BY <1>3, CrashOnce
<1>4. CASE UNCHANGED vars
  BY <1>4, OnceKept DEF vars
<1> QED
  BY <1>1, <1>2, <1>3, <1>4 DEF Next

(* AtMostOnce: for any number of actions of any kind and of racing turns that  *)
(* fail and die anywhere, a provider does an approved action at most once.     *)
THEOREM PerformedOnce == Spec => []AtMostOnce
<1>1. Once => AtMostOnce
  BY DEF Once
<1> QED
  BY <1>1, InitOnce, NextOnce, InitType, NextType, PTL DEF Spec

-----------------------------------------------------------------------------
(* The refinement.  What is continued was granted, and a request has only five *)
(* ways to change.                                                             *)
Granted == \A a \in Actions : hitl[a].continued => hitl[a].status = "success"

Changes(h, g) ==
    \/ g = h
    \/ h = NoRequest /\ g = [status |-> "pending_human_approval", live |-> TRUE, continued |-> FALSE]
    \/ /\ h.status = "pending_human_approval" /\ h.live
       /\ \E s \in {"success", "blocked_by_policy"} : g = [h EXCEPT !.status = s]
    \/ g = [h EXCEPT !.live = FALSE]
    \/ h.status = "success" /\ h.live /\ ~h.continued /\ g = [h EXCEPT !.continued = TRUE]

LEMMA ChangesGoOn ==
    ASSUME NEW h \in HitlRequests, NEW g, Changes(h, g), h.continued => h.status = "success"
    PROVE  /\ g.continued => g.status = "success"
           /\ Promise!Onward(PhaseOf(h), PhaseOf(g), h.live)
           /\ Promise!StaysValid(PhaseOf(h), PhaseOf(g), h.live, g.live)
<1>1. CASE g = h
  BY <1>1 DEF Promise!Onward, Promise!StaysValid
<1>2. CASE h = NoRequest /\ g = [status |-> "pending_human_approval", live |-> TRUE, continued |-> FALSE]
  BY <1>2 DEF Promise!Onward, Promise!StaysValid, PhaseOf, NoRequest
<1>3. CASE /\ h.status = "pending_human_approval" /\ h.live
           /\ \E s \in {"success", "blocked_by_policy"} : g = [h EXCEPT !.status = s]
  <2>1. ~h.continued
    BY <1>3
  <2>2. ~g.continued /\ g.status \in {"success", "blocked_by_policy"}
    BY <1>3, <2>1 DEF HitlRequests
  <2>3. PhaseOf(h) = "open" /\ PhaseOf(g) \in {"denied", "granted"}
    BY <1>3, <2>2 DEF PhaseOf
  <2> QED
    BY <1>3, <2>2, <2>3 DEF Promise!Onward, Promise!StaysValid
<1>4. CASE g = [h EXCEPT !.live = FALSE]
  <2>1. g.status = h.status /\ g.continued = h.continued /\ ~g.live
    BY <1>4 DEF HitlRequests
  <2> QED
    BY <2>1 DEF Promise!Onward, Promise!StaysValid, PhaseOf
<1>5. CASE h.status = "success" /\ h.live /\ ~h.continued /\ g = [h EXCEPT !.continued = TRUE]
  <2>1. g.status = "success" /\ g.continued = TRUE
    BY <1>5 DEF HitlRequests
  <2>2. PhaseOf(h) = "granted" /\ PhaseOf(g) = "used"
    BY <1>5, <2>1 DEF PhaseOf
  <2> QED
    BY <1>5, <2>1, <2>2 DEF Promise!Onward, Promise!StaysValid
<1> QED
  BY <1>1, <1>2, <1>3, <1>4, <1>5 DEF Changes

LEMMA RequestChanges ==
    ASSUME TypeInv, Once, [Next]_vars, NEW a \in Actions
    PROVE  Changes(hitl[a], hitl'[a])
<1>0. hitl \in [Actions -> HitlRequests]
  BY DEF TypeInv, TypeOK
<1>1. ASSUME NEW b \in Actions, Ask(b) PROVE Changes(hitl[a], hitl'[a])
  <2>1. hitl' = hitl \/ (Requested(b) /\ hitl[b] = NoRequest)
    BY <1>1 DEF Ask, StartGateRun, CreateHitlRequest, Asks, MarkWaiting, PersistLife, LinkLife, AskFails,
           Once, UsedByOneTurn
  <2> QED
    BY <1>0, <2>1 DEF Requested, Changes
<1>2. ASSUME NEW b \in Actions, User(b) PROVE Changes(hitl[a], hitl'[a])
  BY <1>0, <1>2 DEF User, DecideHitlRequest, Expire, CancelRead, CancelWrite, Changes
<1>3. ASSUME NEW t \in Turns, FindApproved(t) \/ Proceed(t) \/ TurnFails(t) PROVE Changes(hitl[a], hitl'[a])
  <2>1. CASE Consume(t)
    BY <1>0, <2>1 DEF Consume, Continuable, Changes
  <2>2. CASE ~Consume(t)
    <3>1. hitl' = hitl
      BY <1>3, <2>2 DEF FindApproved, TurnFails, Proceed, CheckConnector, StartRun, ProviderCall, MarkRun,
             CloseGateRun, FinishRead, TransitionRead, TransitionWrite
    <3> QED
      BY <3>1 DEF Changes
  <2> QED
    BY <2>1, <2>2
<1>4. CASE Crash \/ UNCHANGED vars
  BY <1>4 DEF Crash, vars, Changes
<1> QED
  BY <1>1, <1>2, <1>3, <1>4 DEF Next

LEMMA GrantedKept == TypeInv /\ Once /\ Granted /\ [Next]_vars => Granted'
<1> SUFFICES ASSUME TypeInv, Once, Granted, [Next]_vars, NEW a \in Actions
             PROVE  hitl'[a].continued => hitl'[a].status = "success"
  BY DEF Granted
<1>1. hitl[a] \in HitlRequests /\ (hitl[a].continued => hitl[a].status = "success")
  BY DEF TypeInv, TypeOK, Granted
<1> QED
  BY <1>1, RequestChanges, ChangesGoOn

(* A request goes the way of an approval. *)
LEMMA RequestGoesOn ==
    ASSUME TypeInv, Once, Granted, [Next]_vars, NEW a \in Actions
    PROVE  /\ PhaseOf(hitl'[a]) \in Promise!Phases
           /\ Promise!Onward(PhaseOf(hitl[a]), PhaseOf(hitl'[a]), hitl[a].live)
           /\ hitl'[a].live \in BOOLEAN
           /\ Promise!StaysValid(PhaseOf(hitl[a]), PhaseOf(hitl'[a]), hitl[a].live, hitl'[a].live)
<1>1. hitl[a] \in HitlRequests /\ (hitl[a].continued => hitl[a].status = "success")
  BY DEF TypeInv, TypeOK, Granted
<1>2. hitl'[a] \in HitlRequests
  BY NextType DEF TypeInv, TypeOK
<1>3. PhaseOf(hitl'[a]) \in Promise!Phases
  BY <1>2 DEF PhaseOf, Promise!Phases, HitlRequests
<1>4. /\ Promise!Onward(PhaseOf(hitl[a]), PhaseOf(hitl'[a]), hitl[a].live)
      /\ Promise!StaysValid(PhaseOf(hitl[a]), PhaseOf(hitl'[a]), hitl[a].live, hitl'[a].live)
  BY <1>1, RequestChanges, ChangesGoOn
<1>5. hitl'[a].live \in BOOLEAN
  BY <1>2 DEF HitlRequests
<1> QED
  BY <1>3, <1>4, <1>5

(* What a step performs was used, and had no effect before. *)
LEMMA EffectFollowsUse ==
    ASSUME TypeInv, Once, Granted, [Next]_vars, NEW a \in Actions
    PROVE  \/ performed'[a] = performed[a]
           \/ PhaseOf(hitl[a]) = "used" /\ performed[a] = 0 /\ performed'[a] = 1
<1>1. ASSUME NEW t \in Turns, ProviderCall(t)
      PROVE  performed'[a] = performed[a] \/ (PhaseOf(hitl[a]) = "used" /\ performed[a] = 0 /\ performed'[a] = 1)
  <2> DEFINE b == turn[t].act
  <2>1. b \in Actions /\ Continuing(t) /\ MayPerform(t)
    BY <1>1 DEF ProviderCall, At, Continuing, MayPerform, TypeInv, TurnsKnowTheirAction
  <2>2. hitl[b].continued /\ performed[b] = 0
    BY <2>1 DEF Once, UsedByOneTurn
  <2>3. PhaseOf(hitl[b]) = "used"
    BY <2>1, <2>2 DEF Granted, PhaseOf
  <2>4. performed' = performed \/ performed' = [performed EXCEPT ![b] = performed[b] + 1]
    BY <1>1 DEF ProviderCall
  <2> QED
    BY <2>1, <2>2, <2>3, <2>4 DEF TypeInv, TypeOK
<1>2. ASSUME ~\E t \in Turns : ProviderCall(t) PROVE performed' = performed
  BY <1>2 DEF Next, vars, Ask, StartGateRun, CreateHitlRequest, MarkWaiting, PersistLife, LinkLife, AskFails,
         User, DecideHitlRequest, Expire, CancelRead, CancelWrite, Crash, FindApproved, TurnFails, Proceed,
         Consume, CheckConnector, StartRun, MarkRun, CloseGateRun, FinishRead, TransitionRead, TransitionWrite
<1> QED
  BY <1>1, <1>2

(* ImplementsSingleUseApproval: the requests, tool runs and turns of the chat  *)
(* runtime keep the promise of SingleUseApproval, whatever fails or dies.      *)
THEOREM KeepsPromise == Spec => ImplementsSingleUseApproval
<1>1. Init => Promise!Init
  BY DEF Init, Promise!Init, PhaseOf, NoRequest
<1>2. Init => Granted
  BY DEF Init, Granted, NoRequest
<1>3. TypeInv /\ Once /\ Granted /\ [Next]_vars => [Promise!Next]_(Promise!vars)
  <2> SUFFICES ASSUME TypeInv, Once, Granted, [Next]_vars PROVE Promise!Next
    OBVIOUS
  <2>1. performed' \in [Actions -> {0, 1}]
    <3>1. performed' \in [Actions -> Nat] /\ \A a \in Actions : performed'[a] <= 1
      BY NextType, NextOnce DEF TypeInv, TypeOK, Once, AtMostOnce
    <3> QED
      BY <3>1
  <2> QED
    BY <2>1, RequestGoesOn, EffectFollowsUse DEF Promise!Next, Promise!TakesEffect
<1> QED
  BY <1>1, <1>2, <1>3, InitOnce, NextOnce, InitType, NextType, GrantedKept, PTL
     DEF Spec, ImplementsSingleUseApproval, Promise!Spec

-----------------------------------------------------------------------------
(* What is reported.  A turn that thinks its action was done is right. *)
OkIsPerformed ==
    \A t \in Turns : turn[t].outcome = "ok" => turn[t].act \in Actions /\ performed[turn[t].act] > 0

Reported == ReportedDoneIsPerformed /\ OkIsPerformed

(* Nothing new is reported, and no turn learns anything. *)
LEMMA ReportedKept ==
    ASSUME TypeInv, Reported, performed' = performed,
           \A a \in Actions :
              /\ gate'[a] = "succeeded" => gate[a] = "succeeded"
              /\ run'[a] = "succeeded" => run[a] = "succeeded"
              /\ life'[a].state = "confirmed" => life[a].state = "confirmed",
           \A t \in Turns : turn'[t].outcome = "ok" =>
              turn[t].outcome = "ok" /\ turn'[t].act = turn[t].act
    PROVE  Reported'
  BY DEF Reported, ReportedDoneIsPerformed, OkIsPerformed

(* How a turn's record changes. *)
LEMMA TurnKeepsOutcome ==
    ASSUME TypeInv, NEW t \in Turns,
           \/ Leave(t)
           \/ \E stage \in TurnStages : Goto(t, stage)
           \/ \E stage \in TurnStages : Decide(t, stage, "blocked")
           \/ \E i \in DOMAIN decisions :
                 turn' = [turn EXCEPT ![t] = [Idle EXCEPT !.stage = "found", !.act = decisions[i]]]
    PROVE  \A u \in Turns : turn'[u].outcome = "ok" => turn[u].outcome = "ok" /\ turn'[u].act = turn[u].act
<1>1. turn \in [Turns -> TurnRecords] /\ Idle.outcome = "none"
  BY DEF TypeInv, TypeOK, Idle
<1>2. CASE Leave(t)
  BY <1>1, <1>2 DEF Leave
<1>3. CASE \E stage \in TurnStages : Goto(t, stage)
  <2>1. PICK stage \in TurnStages : turn' = [turn EXCEPT ![t] = [turn[t] EXCEPT !.stage = stage]]
    BY <1>3 DEF Goto
  <2>2. turn[t] \in TurnRecords
    BY <1>1
  <2>3. /\ [turn[t] EXCEPT !.stage = stage].outcome = turn[t].outcome
        /\ [turn[t] EXCEPT !.stage = stage].act = turn[t].act
    BY <2>2 DEF TurnRecords
  <2> QED
    BY <1>1, <2>1, <2>3
<1>4. CASE \E stage \in TurnStages : Decide(t, stage, "blocked")
  BY <1>1, <1>4 DEF Decide, TurnRecords
<1>5. CASE \E i \in DOMAIN decisions :
              turn' = [turn EXCEPT ![t] = [Idle EXCEPT !.stage = "found", !.act = decisions[i]]]
  <2>1. PICK i \in DOMAIN decisions :
           turn' = [turn EXCEPT ![t] = [Idle EXCEPT !.stage = "found", !.act = decisions[i]]]
    BY <1>5
  <2>2. [Idle EXCEPT !.stage = "found", !.act = decisions[i]].outcome = "none"
    BY DEF Idle
  <2> QED
    BY <1>1, <2>1, <2>2
<1> QED
  BY <1>2, <1>3, <1>4, <1>5

LEMMA AskReports ==
    ASSUME TypeInv, Reported, NEW a \in Actions, Ask(a) \/ User(a)
    PROVE  Reported'
<1>1. UNCHANGED <<run, performed, turn>>
  BY DEF Ask, StartGateRun, CreateHitlRequest, MarkWaiting, PersistLife, LinkLife, AskFails,
         User, DecideHitlRequest, Expire, CancelRead, CancelWrite
<1>2. gate' = gate \/ \E status \in Runs \ {"succeeded"} : gate' = [gate EXCEPT ![a] = status]
  BY DEF Ask, StartGateRun, CreateHitlRequest, MarkWaiting, PersistLife, LinkLife, AskFails,
         User, DecideHitlRequest, Expire, CancelRead, CancelWrite, Runs
<1>3. \/ life' = life
      \/ \E row \in LifeRows : /\ row.state = "confirmed" => life[a].state = "confirmed"
                               /\ life' = [life EXCEPT ![a] = row]
  <2>1. life[a] \in LifeRows /\ cancel[a] \in Cancels
    BY DEF TypeInv, TypeOK
  <2>2. CASE PersistLife(a)
    <3>1. [life[a] EXCEPT !.state = "awaiting_approval"] \in LifeRows
          /\ [life[a] EXCEPT !.state = "awaiting_approval"].state # "confirmed"
      BY <2>1 DEF LifeRows, States
    <3> QED
      BY <2>2, <3>1 DEF PersistLife
  <2>3. CASE LinkLife(a)
    <3>1. [life[a] EXCEPT !.linked = TRUE] \in LifeRows
          /\ [life[a] EXCEPT !.linked = TRUE].state = life[a].state
      BY <2>1 DEF LifeRows
    <3> QED
      BY <2>3, <3>1 DEF LinkLife
  <2>4. CASE CancelWrite(a)
    <3>1. [state |-> "cancelled", linked |-> cancel[a].linked] \in LifeRows
      BY <2>1 DEF LifeRows, Cancels, States
    <3> QED
      BY <2>4, <3>1 DEF CancelWrite
  <2> QED
    BY <2>2, <2>3, <2>4 DEF Ask, StartGateRun, CreateHitlRequest, MarkWaiting, AskFails,
       User, DecideHitlRequest, Expire, CancelRead
<1>4. gate \in [Actions -> Runs] /\ life \in [Actions -> LifeRows]
  BY DEF TypeInv, TypeOK
<1>5. \A b \in Actions : /\ gate'[b] = "succeeded" => gate[b] = "succeeded"
                         /\ life'[b].state = "confirmed" => life[b].state = "confirmed"
  BY <1>2, <1>3, <1>4
<1> QED
  BY <1>1, <1>5, ReportedKept

LEMMA StartRunReports ==
    ASSUME TypeInv, Reported, NEW t \in Turns, StartRun(t)
    PROVE  Reported'
<1> DEFINE a == turn[t].act
<1>1. a \in Actions /\ turn \in [Turns -> TurnRecords] /\ run \in [Actions -> Runs]
  BY DEF StartRun, At, TypeInv, TypeOK, TurnsKnowTheirAction
<1>2. UNCHANGED <<performed, gate, life>>
  BY DEF StartRun
<1>3. run' = run \/ run' = [run EXCEPT ![a] = "running"]
  BY DEF StartRun
<1>4. \A b \in Actions : run'[b] = "succeeded" => run[b] = "succeeded"
  BY <1>1, <1>3
<1>5. CASE run[a] = "succeeded"
  <2>1. performed[a] > 0
    BY <1>1, <1>5 DEF Reported, ReportedDoneIsPerformed
  <2>2. \A u \in Turns : turn'[u].act = turn[u].act /\ (u # t => turn'[u] = turn[u])
    BY <1>1, <1>5 DEF StartRun, Decide, TurnRecords
  <2> QED
    BY <1>1, <1>2, <1>4, <2>1, <2>2 DEF Reported, ReportedDoneIsPerformed, OkIsPerformed
<1>6. CASE run[a] # "succeeded"
  <2>1. Leave(t) \/ Goto(t, "calling") \/ Decide(t, AfterRun(t), "blocked")
    BY <1>6 DEF StartRun
  <2>2. "calling" \in TurnStages /\ AfterRun(t) \in TurnStages
    BY DEF AfterRun, TurnStages
  <2> QED
    BY <1>2, <1>4, <2>1, <2>2, TurnKeepsOutcome, ReportedKept
<1> QED
  BY <1>5, <1>6

LEMMA ProviderCallReports ==
    ASSUME TypeInv, Reported, NEW t \in Turns, ProviderCall(t)
    PROVE  Reported'
<1> DEFINE a == turn[t].act
<1>1. /\ a \in Actions /\ turn \in [Turns -> TurnRecords] /\ performed \in [Actions -> Nat]
      /\ UNCHANGED <<gate, run, life>>
  BY DEF ProviderCall, At, TypeInv, TypeOK, TurnsKnowTheirAction
<1>2. \A b \in Actions : performed[b] > 0 => performed'[b] > 0
  BY <1>1 DEF ProviderCall
<1>3. turn'[t].outcome = "ok" => performed'[a] > 0
  BY <1>1 DEF ProviderCall, Decide, TurnRecords
<1>4. \A u \in Turns : turn'[u].act = turn[u].act /\ (u # t => turn'[u] = turn[u])
  BY <1>1 DEF ProviderCall, Decide, TurnRecords
<1>5. ReportedDoneIsPerformed'
  BY <1>1, <1>2 DEF Reported, ReportedDoneIsPerformed
<1>6. ASSUME NEW u \in Turns, turn'[u].outcome = "ok"
      PROVE  turn'[u].act \in Actions /\ performed'[turn'[u].act] > 0
  <2>1. CASE u = t
    BY <1>1, <1>3, <1>4, <1>6, <2>1
  <2>2. CASE u # t
    <3>1. turn[u].act \in Actions /\ performed[turn[u].act] > 0
      BY <1>4, <1>6, <2>2 DEF Reported, OkIsPerformed
    <3> QED
      BY <1>2, <1>4, <3>1
  <2> QED
    BY <2>1, <2>2
<1> QED
  BY <1>5, <1>6 DEF Reported, OkIsPerformed

(* The writes that report: they say what the turn knows. *)
LEMMA WriteReports ==
    ASSUME TypeInv, Reported, NEW t \in Turns, MarkRun(t) \/ CloseGateRun(t) \/ TransitionWrite(t)
    PROVE  Reported'
<1> DEFINE a == turn[t].act
<1>1. a \in Actions /\ turn[t].stage # "idle"
  BY DEF MarkRun, CloseGateRun, TransitionWrite, At, TypeInv, TypeOK, TurnsKnowTheirAction
<1>2. performed' = performed
  BY DEF MarkRun, CloseGateRun, TransitionWrite
<1>3. Leave(t) \/ \E stage \in TurnStages : Goto(t, stage)
  BY DEF MarkRun, CloseGateRun, TransitionWrite, AfterRun, TurnStages
<1>4. \A u \in Turns : turn'[u].outcome = "ok" => turn[u].outcome = "ok" /\ turn'[u].act = turn[u].act
  BY <1>3, TurnKeepsOutcome
<1>5. CASE turn[t].outcome = "ok"
  <2>1. performed[a] > 0
    BY <1>5 DEF Reported, OkIsPerformed
  <2>2. \A b \in Actions : b # a => gate'[b] = gate[b] /\ run'[b] = run[b] /\ life'[b] = life[b]
    BY DEF MarkRun, CloseGateRun, TransitionWrite, TypeInv, TypeOK
  <2> QED
    BY <1>2, <1>4, <2>1, <2>2 DEF Reported, ReportedDoneIsPerformed, OkIsPerformed
<1>6. CASE turn[t].outcome # "ok"
  <2>1. /\ gate' = gate \/ gate' = [gate EXCEPT ![a] = "blocked"]
        /\ run' = run \/ run' = [run EXCEPT ![a] = "blocked"]
    BY <1>6 DEF MarkRun, CloseGateRun, TransitionWrite, Closed
  <2>2. life' = life \/ \E state \in {"executing", "failed"} :
                           life' = [life EXCEPT ![a] = [state |-> state, linked |-> TRUE]]
    BY <1>6 DEF MarkRun, CloseGateRun, TransitionWrite, Target
  <2>3. \A b \in Actions : /\ gate'[b] = "succeeded" => gate[b] = "succeeded"
                           /\ run'[b] = "succeeded" => run[b] = "succeeded"
    <3>1. gate \in [Actions -> Runs] /\ run \in [Actions -> Runs]
      BY DEF TypeInv, TypeOK
    <3> QED
      BY <1>1, <2>1, <3>1
  <2>4. \A b \in Actions : life'[b].state = "confirmed" => life[b].state = "confirmed"
    <3>1. life \in [Actions -> LifeRows]
      BY DEF TypeInv, TypeOK
    <3>2. \A state \in {"executing", "failed"} : [state |-> state, linked |-> TRUE].state # "confirmed"
      OBVIOUS
    <3> QED
      BY <1>1, <2>2, <3>1, <3>2
  <2> QED
    BY <1>2, <1>4, <2>3, <2>4, ReportedKept
<1> QED
  BY <1>5, <1>6

LEMMA OtherTurnsReport ==
    ASSUME TypeInv, Reported, NEW t \in Turns,
           \/ FindApproved(t) \/ TurnFails(t) \/ Consume(t) \/ CheckConnector(t)
           \/ FinishRead(t) \/ TransitionRead(t)
    PROVE  Reported'
<1>1. UNCHANGED <<performed, gate, run, life>>
  BY DEF FindApproved, TurnFails, Consume, CheckConnector, FinishRead, TransitionRead
<1>2. \/ Leave(t)
      \/ \E stage \in TurnStages : Goto(t, stage)
      \/ \E stage \in TurnStages : Decide(t, stage, "blocked")
      \/ \E i \in DOMAIN decisions :
            turn' = [turn EXCEPT ![t] = [Idle EXCEPT !.stage = "found", !.act = decisions[i]]]
  BY DEF FindApproved, TurnFails, Consume, CheckConnector, FinishRead, TransitionRead, TurnStages
<1>3. \A u \in Turns : turn'[u].outcome = "ok" => turn[u].outcome = "ok" /\ turn'[u].act = turn[u].act
  BY <1>2, TurnKeepsOutcome
<1> QED
  BY <1>1, <1>3, ReportedKept

LEMMA NextReported == TypeInv /\ Reported /\ [Next]_vars => Reported'
<1> SUFFICES ASSUME TypeInv, Reported, [Next]_vars PROVE Reported'
  OBVIOUS
<1>1. CASE Crash
  <2>1. UNCHANGED <<performed, gate, run, life>> /\ \A t \in Turns : turn'[t].outcome # "ok"
    BY <1>1 DEF Crash, Idle
  <2> QED
    BY <2>1, ReportedKept
<1>2. CASE UNCHANGED vars
  BY <1>2, ReportedKept DEF vars
<1> QED
  BY <1>1, <1>2, AskReports, StartRunReports, ProviderCallReports, WriteReports, OtherTurnsReport
     DEF Next, Proceed

(* ReportedDoneIsPerformed: runs, replays and life rows that say an action was  *)
(* done say so of one the provider did, in any order of turns and failures.    *)
THEOREM ReportsAreTrue == Spec => []ReportedDoneIsPerformed
<1>1. Init => Reported
  BY DEF Init, Reported, ReportedDoneIsPerformed, OkIsPerformed, Idle, NoLife
<1>2. Reported => ReportedDoneIsPerformed
  BY DEF Reported
<1> QED
  BY <1>1, <1>2, InitType, NextType, NextReported, PTL DEF Spec

-----------------------------------------------------------------------------
(* What is left open.  A run is only opened for an action that comes past     *)
(* MarkRun, so that "direct" ones, which do not, have none to leave.          *)
Tracked ==
    /\ \A a \in Actions : run[a] = "running" => kind[a] # "direct"
    /\ \A t \in Turns : turn[t].stage = "starting" => kind[turn[t].act] # "direct"

OpenInv == Tracked /\ OpenWorkHasItsTurn

(* The other turns go on as they were. *)
LEMMA OneTurnMoves ==
    ASSUME TypeInv, NEW t \in Turns, FindApproved(t) \/ Proceed(t) \/ TurnFails(t)
    PROVE  /\ \A u \in Turns : u # t => turn'[u] = turn[u]
           /\ ~At(t, "idle") => turn'[t] = Idle \/ turn'[t].act = turn[t].act
<1>1. turn \in [Turns -> TurnRecords]
  BY DEF TypeInv, TypeOK
<1>2. CASE FindApproved(t) \/ TurnFails(t)
  BY <1>1, <1>2 DEF FindApproved, TurnFails, Leave
<1>3. CASE Consume(t) \/ CheckConnector(t) \/ StartRun(t)
  BY <1>1, <1>3 DEF Consume, CheckConnector, StartRun, Leave, Goto, Decide, TurnRecords
<1>4. CASE ProviderCall(t) \/ MarkRun(t) \/ CloseGateRun(t)
  BY <1>1, <1>4 DEF ProviderCall, MarkRun, CloseGateRun, Leave, Goto, Decide, TurnRecords
<1>5. CASE FinishRead(t) \/ TransitionRead(t) \/ TransitionWrite(t)
  BY <1>1, <1>5 DEF FinishRead, TransitionRead, TransitionWrite, Leave, Goto, TurnRecords
<1> QED
  BY <1>2, <1>3, <1>4, <1>5 DEF Proceed

LEMMA TrackedStep == TypeInv /\ Tracked /\ [Next]_vars => Tracked'
<1> SUFFICES ASSUME TypeInv, Tracked, [Next]_vars PROVE Tracked'
  OBVIOUS
<1>0. turn \in [Turns -> TurnRecords] /\ run \in [Actions -> Runs]
  BY DEF TypeInv, TypeOK
<1>1. kind' = kind
  BY DEF Next, Ask, User, StartGateRun, CreateHitlRequest, MarkWaiting, PersistLife, LinkLife, AskFails,
         DecideHitlRequest, Expire, CancelRead, CancelWrite, FindApproved, TurnFails, Proceed, Consume,
         CheckConnector, StartRun, ProviderCall, MarkRun, CloseGateRun, FinishRead, TransitionRead,
         TransitionWrite, Crash, vars
<1>2. CASE run' = run /\ turn' = turn
  BY <1>1, <1>2 DEF Tracked
<1>3. CASE \E a \in Actions : Ask(a) \/ User(a)
  <2>1. run' = run /\ turn' = turn
    BY <1>3 DEF Ask, User, StartGateRun, CreateHitlRequest, MarkWaiting, PersistLife, LinkLife, AskFails,
         DecideHitlRequest, Expire, CancelRead, CancelWrite
  <2> QED
    BY <1>2, <2>1
<1>4. CASE Crash
  BY <1>1, <1>4 DEF Crash, Tracked, Idle
<1>5. ASSUME NEW t \in Turns, FindApproved(t) \/ Proceed(t) \/ TurnFails(t) PROVE Tracked'
  <2> DEFINE a == turn[t].act
  <2>1. ~At(t, "idle") => a \in Actions
    BY DEF TypeInv, TurnsKnowTheirAction
  <2>2. \A u \in Turns : u # t => turn'[u] = turn[u]
    BY <1>5, OneTurnMoves
  <2>3. turn'[t].stage = "starting" => kind[turn'[t].act] # "direct"
    <3>1. CASE Consume(t)
      BY <1>0, <3>1 DEF Consume, Goto, Leave, Idle, Schema, TurnRecords
    <3>2. CASE CheckConnector(t)
      BY <1>0, <3>2 DEF CheckConnector, Goto, Decide, TurnRecords
    <3>3. CASE FindApproved(t)
      <4>1. PICK i \in DOMAIN decisions :
               turn' = [turn EXCEPT ![t] = [Idle EXCEPT !.stage = "found", !.act = decisions[i]]]
        BY <3>3 DEF FindApproved
      <4>2. [Idle EXCEPT !.stage = "found", !.act = decisions[i]].stage = "found"
        BY DEF Idle
      <4> QED
        BY <1>0, <4>1, <4>2
    <3>4. CASE TurnFails(t)
      BY <1>0, <3>4 DEF TurnFails, Leave, Idle
    <3>5. CASE StartRun(t)
      BY <1>0, <3>5 DEF StartRun, Goto, Decide, Leave, Idle, AfterRun, TurnRecords
    <3>6. CASE ProviderCall(t) \/ MarkRun(t)
      BY <1>0, <3>6 DEF ProviderCall, MarkRun, Goto, Decide, AfterRun, TurnRecords
    <3>7. CASE CloseGateRun(t) \/ FinishRead(t) \/ TransitionRead(t) \/ TransitionWrite(t)
      BY <1>0, <3>7 DEF CloseGateRun, FinishRead, TransitionRead, TransitionWrite, Goto, Leave,
                        Idle, TurnRecords
    <3> QED
      BY <1>5, <3>1, <3>2, <3>3, <3>4, <3>5, <3>6, <3>7 DEF Proceed
  <2>4. \A b \in Actions : run'[b] = "running" => kind[b] # "direct"
    <3>1. CASE StartRun(t)
      BY <1>0, <2>1, <3>1 DEF StartRun, At, Tracked
    <3>2. CASE MarkRun(t)
      BY <1>0, <2>1, <3>2 DEF MarkRun, Closed, At, Tracked
    <3>3. CASE run' = run
      BY <3>3 DEF Tracked
    <3> QED
      BY <1>5, <3>1, <3>2, <3>3 DEF Proceed, FindApproved, TurnFails, Consume, CheckConnector,
         ProviderCall, CloseGateRun, FinishRead, TransitionRead, TransitionWrite
  <2> QED
    BY <1>1, <2>2, <2>3, <2>4 DEF Tracked
<1> QED
  BY <1>2, <1>3, <1>4, <1>5 DEF Next, vars

LEMMA OpenStep == TypeInv /\ OpenInv /\ [Next]_vars => OpenWorkHasItsTurn'
<1> SUFFICES ASSUME TypeInv, OpenInv, [Next]_vars, NEW a \in Actions, a \notin cut'
             PROVE  /\ run'[a] = "running" => HasTurn(a, {"calling", "marking"})'
                    /\ life'[a].state = "executing" => HasTurn(a, {"ending", "settling"})'
  BY DEF OpenWorkHasItsTurn
<1>0. /\ turn \in [Turns -> TurnRecords] /\ run \in [Actions -> Runs] /\ life \in [Actions -> LifeRows]
      /\ cancel \in [Actions -> Cancels]
  BY DEF TypeInv, TypeOK
<1>1. cut \subseteq cut'
  BY DEF Next, Ask, User, StartGateRun, CreateHitlRequest, MarkWaiting, PersistLife, LinkLife, AskFails,
         DecideHitlRequest, Expire, CancelRead, CancelWrite, FindApproved, TurnFails, Proceed, Consume,
         CheckConnector, StartRun, ProviderCall, MarkRun, CloseGateRun, FinishRead, TransitionRead,
         TransitionWrite, Crash, vars
<1>2. /\ run[a] = "running" => \E t \in Turns : turn[t].act = a /\ turn[t].stage \in {"calling", "marking"}
      /\ life[a].state = "executing" =>
            \E t \in Turns : turn[t].act = a /\ turn[t].stage \in {"ending", "settling"}
  BY <1>1 DEF OpenInv, OpenWorkHasItsTurn, HasTurn
<1>3. CASE \E b \in Actions : Ask(b) \/ User(b)
  <2>1. run' = run /\ turn' = turn
    BY <1>3 DEF Ask, User, StartGateRun, CreateHitlRequest, MarkWaiting, PersistLife, LinkLife, AskFails,
         DecideHitlRequest, Expire, CancelRead, CancelWrite
  <2>2. life'[a].state = "executing" => life[a].state = "executing"
    <3>1. PICK b \in Actions : Ask(b) \/ User(b)
      BY <1>3
    <3>2. \/ life' = life
          \/ life' = [life EXCEPT ![b].state = "awaiting_approval"]
          \/ life' = [life EXCEPT ![b].linked = TRUE]
          \/ life' = [life EXCEPT ![b] = [state |-> "cancelled", linked |-> cancel[b].linked]]
      BY <3>1 DEF Ask, User, StartGateRun, CreateHitlRequest, MarkWaiting, PersistLife, LinkLife, AskFails,
         DecideHitlRequest, Expire, CancelRead, CancelWrite
    <3> QED
      BY <1>0, <3>2 DEF LifeRows
  <2> QED
    BY <1>2, <2>1, <2>2 DEF HasTurn
<1>4. CASE Crash
  <2>1. \A t \in Turns : turn[t].act = a => turn[t].stage \in {"idle", "found"}
    BY <1>4 DEF Crash, Continuing
  <2> QED
    BY <1>2, <1>4, <2>1 DEF Crash
<1>5. ASSUME NEW t \in Turns, FindApproved(t) \/ Proceed(t) \/ TurnFails(t)
      PROVE  /\ run'[a] = "running" => HasTurn(a, {"calling", "marking"})'
             /\ life'[a].state = "executing" => HasTurn(a, {"ending", "settling"})'
  <2>1. \A u \in Turns : u # t => turn'[u] = turn[u]
    BY <1>5, OneTurnMoves
  <2>2. ~At(t, "idle") => turn[t].act \in Actions
    BY DEF TypeInv, TurnsKnowTheirAction
  <2>3. ASSUME run'[a] = "running"
        PROVE  HasTurn(a, {"calling", "marking"})'
    <3>1. CASE StartRun(t) /\ turn[t].act = a /\ run[a] = "none"
      <4>1. turn'[t].act = a /\ turn'[t].stage = "calling"
        BY <1>0, <3>1 DEF StartRun, Goto, TurnRecords
      <4> QED
        BY <4>1 DEF HasTurn
    <3>2. CASE ~(StartRun(t) /\ turn[t].act = a /\ run[a] = "none")
      <4>1. run[a] = "running" /\ ~(MarkRun(t) /\ turn[t].act = a)
        <5>1. CASE StartRun(t)
          BY <1>0, <2>3, <3>2, <5>1 DEF StartRun, MarkRun, At
        <5>2. CASE MarkRun(t)
          BY <1>0, <2>2, <2>3, <5>2 DEF MarkRun, Closed, At
        <5>3. CASE run' = run /\ ~MarkRun(t)
          BY <2>3, <5>3
        <5> QED
          BY <1>5, <5>1, <5>2, <5>3 DEF Proceed, FindApproved, TurnFails, Consume, CheckConnector,
             ProviderCall, CloseGateRun, FinishRead, TransitionRead, TransitionWrite, MarkRun, At
      <4>2. PICK u \in Turns : turn[u].act = a /\ turn[u].stage \in {"calling", "marking"}
        BY <1>2, <4>1
      <4>3. CASE u # t
        BY <2>1, <4>2, <4>3 DEF HasTurn
      <4>4. CASE u = t /\ ProviderCall(t)
        <5>1. kind[a] # "direct"
          BY <4>1 DEF OpenInv, Tracked
        <5>2. turn'[t].act = a /\ turn'[t].stage = "marking"
          BY <1>0, <4>2, <4>4, <5>1 DEF ProviderCall, Decide, TurnRecords
        <5> QED
          BY <5>2 DEF HasTurn
      <4>5. CASE u = t /\ ~ProviderCall(t)
        <5>1. TurnFails(t)
          BY <1>5, <4>1, <4>2, <4>5 DEF Proceed, FindApproved, Consume, CheckConnector, StartRun, MarkRun,
             CloseGateRun, FinishRead, TransitionRead, TransitionWrite, At
        <5> QED
          BY <4>2, <4>5, <5>1 DEF TurnFails, Continuing
      <4> QED
        BY <4>3, <4>4, <4>5
    <3> QED
      BY <3>1, <3>2
  <2>4. ASSUME life'[a].state = "executing"
        PROVE  HasTurn(a, {"ending", "settling"})'
    <3>1. CASE TransitionWrite(t) /\ turn[t].act = a
      <4>1. Target(t) = "executing"
        BY <1>0, <2>4, <3>1 DEF TransitionWrite
      <4>2. At(t, "executing")
        BY <3>1, <4>1 DEF TransitionWrite, Target, At
      <4>3. turn'[t].act = a /\ turn'[t].stage = "ending"
        BY <1>0, <3>1, <4>2 DEF TransitionWrite, Goto, TurnRecords
      <4> QED
        BY <4>3 DEF HasTurn
    <3>2. CASE ~(TransitionWrite(t) /\ turn[t].act = a)
      <4>1. life[a].state = "executing"
        BY <1>0, <1>5, <2>4, <3>2 DEF Proceed, FindApproved, TurnFails, Consume, CheckConnector, StartRun,
           ProviderCall, MarkRun, CloseGateRun, FinishRead, TransitionRead, TransitionWrite
      <4>2. PICK u \in Turns : turn[u].act = a /\ turn[u].stage \in {"ending", "settling"}
        BY <1>2, <4>1
      <4>3. CASE u # t
        BY <2>1, <4>2, <4>3 DEF HasTurn
      <4>4. CASE u = t /\ TransitionRead(t)
        <5>1. turn[t].stage = "ending" /\ Target(t) \in {"confirmed", "failed"}
          BY <4>2, <4>4 DEF TransitionRead, Target
        <5>2. MayMove("executing", Target(t))
          BY <5>1 DEF MayMove, Allowed
        <5>3. turn'[t].act = a /\ turn'[t].stage = "settling"
          BY <1>0, <4>1, <4>2, <4>4, <5>1, <5>2 DEF TransitionRead, Goto, At, TurnRecords
        <5> QED
          BY <5>3 DEF HasTurn
      <4>5. CASE u = t /\ ~TransitionRead(t)
        <5>1. TurnFails(t)
          BY <1>5, <3>2, <4>2, <4>5 DEF Proceed, FindApproved, Consume, CheckConnector, StartRun, ProviderCall,
             MarkRun, CloseGateRun, FinishRead, TransitionWrite, At
        <5> QED
          BY <4>2, <4>5, <5>1 DEF TurnFails, Continuing
      <4> QED
        BY <4>3, <4>4, <4>5
    <3> QED
      BY <3>1, <3>2
  <2> QED
    BY <2>3, <2>4
<1>6. CASE UNCHANGED vars
  BY <1>2, <1>6 DEF vars, HasTurn
<1> QED
  BY <1>3, <1>4, <1>5, <1>6 DEF Next

(* A tool run that stays running, which no retry can get past, and a life row   *)
(* that stays executing are those of a turn that failed or died: every other    *)
(* one has its turn at it, however many turns and cancellations interleave.     *)
THEOREM OpenWorkIsHeld == Spec => []OpenWorkHasItsTurn
<1>1. Init => OpenInv
  BY DEF Init, OpenInv, Tracked, OpenWorkHasItsTurn, Idle, NoLife
<1>2. OpenInv => OpenWorkHasItsTurn
  BY DEF OpenInv
<1> QED
  BY <1>1, <1>2, InitType, NextType, TrackedStep, OpenStep, PTL DEF Spec, OpenInv

=============================================================================
