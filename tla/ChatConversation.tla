-------------------------- MODULE ChatConversation -------------------------
(***************************************************************************)
(* The conversation a browser shows with the selected agent (useAgentChat) *)
(* while the user switches between agents, sends prompts and decides       *)
(* approvals.  Three things write the transcript when their answer comes:  *)
(* the load of a conversation, a prompt's run, and the run that continues  *)
(* an approved action.  A conversation is the number of its turns.         *)
(***************************************************************************)
EXTENDS Naturals

CONSTANTS
    Agents,
    Loads,          \* bound: loads in flight
    MaxTurns        \* bound: turns of one conversation

ASSUME MaxTurnsAssumption == MaxTurns \in Nat

VARIABLES
    turns,          \* turns[a]: the conversation as the server has it
    selected,
    loads,          \* loads[l]: whose conversation, whether answered, cancelled, and with what
    loading,        \* isConversationLoading
    transcript,     \* whose conversation is shown, its turns, and whether a prompt waits below
    known,          \* agentConversation # null
    running,        \* a prompt's run and an approval's continuation
    strayed         \* since the last quiet switch, an answer was late, lost or kept from the server

chatVars == <<turns, selected, loads, loading, transcript, known, running, strayed>>

RunKinds == {"prompt", "continuation"}
NoAgent == "none"
NoLoad == [of |-> NoAgent, answered |-> FALSE, cancelled |-> FALSE, turns |-> 0]
NoRunning == [at |-> "idle", agent |-> NoAgent, by |-> NoAgent, turns |-> 0]
LoadOf(a) == [NoLoad EXCEPT !.of = a]
Shows(a, n, waiting) == [of |-> a, turns |-> n, waiting |-> waiting]

InFlight(r) == running[r].at # "idle"
Quiet == \A r \in RunKinds : ~InFlight(r)

(* No agent is selected until the agents are there. *)
ChatInit ==
    /\ turns = [a \in Agents |-> 0] /\ selected = NoAgent
    /\ loads = [l \in Loads |-> NoLoad] /\ loading = FALSE
    /\ transcript = Shows(NoAgent, 0, FALSE) /\ known = FALSE /\ strayed = FALSE
    /\ running = [r \in RunKinds |-> NoRunning]

-----------------------------------------------------------------------------
(* Selecting an agent: the effect cancels the load before it and starts one. *)

Select(a) ==
    /\ a # selected /\ selected' = a
    /\ \E l \in Loads :
        /\ loads[l] = NoLoad
        /\ loads' = [k \in Loads |->
                        IF k = l THEN LoadOf(a)
                        ELSE IF loads[k] = NoLoad THEN NoLoad ELSE [loads[k] EXCEPT !.cancelled = TRUE]]
    /\ loading' = TRUE /\ strayed' = ~Quiet
    /\ UNCHANGED <<turns, transcript, known, running>>

ServerReads(l) ==
    /\ loads[l] # NoLoad /\ ~loads[l].answered
    /\ loads' = [loads EXCEPT ![l].answered = TRUE, ![l].turns = turns[loads[l].of]]
    /\ UNCHANGED <<turns, selected, loading, transcript, known, running, strayed>>

BadApplies(l) == TRUE
Applies(l) == ~loads[l].cancelled

Loaded(l) ==
    /\ loads[l].answered /\ loads' = [loads EXCEPT ![l] = NoLoad]
    /\ IF Applies(l)
       THEN /\ transcript' = Shows(loads[l].of, loads[l].turns, FALSE)
            /\ known' = TRUE /\ loading' = FALSE
       ELSE UNCHANGED <<transcript, known, loading>>
    /\ UNCHANGED <<turns, selected, running, strayed>>

LoadFails(l) ==
    /\ loads[l] # NoLoad /\ loads' = [loads EXCEPT ![l] = NoLoad]
    /\ IF Applies(l)
       THEN /\ transcript' = Shows(loads[l].of, 0, FALSE)
            /\ known' = FALSE /\ loading' = FALSE
       ELSE UNCHANGED <<transcript, known, loading>>
    /\ UNCHANGED <<turns, selected, running, strayed>>

-----------------------------------------------------------------------------
(* submitAgentPrompt, one at a time, and decideHitl, one at a time. *)

Starts(r, a, at) ==
    /\ ~InFlight(r)
    /\ running' = [running EXCEPT ![r] = [at |-> at, agent |-> a, by |-> selected, turns |-> 0]]
    /\ strayed' = (strayed \/ loading \/ ~Quiet)

Submit ==
    /\ selected # NoAgent /\ Starts("prompt", selected, "sent")
    /\ transcript' = [transcript EXCEPT !.waiting = TRUE]
    /\ UNCHANGED <<turns, selected, loads, loading, known>>

(* An approval of any agent may be decided; it continues with that agent. *)
Decide(a) ==
    /\ Starts("continuation", a, "deciding")
    /\ UNCHANGED <<turns, selected, loads, loading, transcript, known>>

ContinueApproved ==
    /\ running["continuation"].at = "deciding"
    /\ running' = [running EXCEPT !["continuation"].at = "sent"]
    /\ UNCHANGED <<turns, selected, loads, loading, transcript, known, strayed>>

ServerRuns(r) ==
    LET a == running[r].agent IN
    /\ running[r].at = "sent" /\ turns[a] < MaxTurns
    /\ turns' = [turns EXCEPT ![a] = @ + 1]
    /\ running' = [running EXCEPT ![r].at = "ran", ![r].turns = turns[a] + 1]
    /\ UNCHANGED <<selected, loads, loading, transcript, known, strayed>>

Ends(r) ==
    /\ running' = [running EXCEPT ![r] = NoRunning]
    /\ UNCHANGED <<turns, selected, loads, loading>>

(* A continuation writes the transcript if its agent was selected at the click. *)
ForTranscript(r) == running[r].agent = running[r].by

(* applyAgentRunResult: the answer brings the conversation ... *)
ApplyConversation(r) ==
    /\ running[r].at = "ran" /\ ForTranscript(r)
    /\ transcript' = Shows(running[r].agent, running[r].turns, FALSE) /\ known' = TRUE
    /\ Ends(r) /\ UNCHANGED strayed

(* ... or, with a plan made on the device, a reply to append. *)
AppendReply ==
    /\ running["prompt"].at = "ran"
    /\ transcript' = Shows(transcript.of, transcript.turns + 1, FALSE)
    /\ Ends("prompt") /\ UNCHANGED <<known, strayed>>

(* The approved action was another agent's. *)
OnlyReport(r) ==
    /\ running[r].at = "ran" /\ ~ForTranscript(r)
    /\ Ends(r) /\ UNCHANGED <<transcript, known, strayed>>

Denied ==
    /\ running["continuation"].at = "deciding"
    /\ Ends("continuation") /\ UNCHANGED <<transcript, known, strayed>>

(* A call rejects, or local-only mode answers on the device alone. *)
RunFails(r) ==
    /\ InFlight(r) /\ strayed' = TRUE
    /\ Ends(r) /\ UNCHANGED <<transcript, known>>

ChatNext ==
    \/ \E a \in Agents : Select(a) \/ Decide(a)
    \/ \E l \in Loads : ServerReads(l) \/ Loaded(l) \/ LoadFails(l)
    \/ Submit \/ ContinueApproved \/ AppendReply \/ Denied
    \/ \E r \in RunKinds : ServerRuns(r) \/ ApplyConversation(r) \/ OnlyReport(r) \/ RunFails(r)

ChatSpec == ChatInit /\ [][ChatNext]_chatVars

-----------------------------------------------------------------------------
(* Properties. *)

(* With nothing in flight, the transcript is the selected agent's conversation, *)
(* turn for turn, however the user switched back and forth.  Excepted, until    *)
(* the next switch with no run in flight, are runs that a switch, a load or     *)
(* another run overtook, or that failed; and a conversation that did not load.  *)
ConversationIsShown ==
    selected # NoAgent /\ ~loading /\ Quiet /\ known /\ ~strayed
        => transcript = Shows(selected, turns[selected], FALSE)
=============================================================================
