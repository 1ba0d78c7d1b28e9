---------------------------- MODULE ProviderRuns ---------------------------
(***************************************************************************)
(* Runs of one provider for one user (connectorExecutionService): the       *)
(* provider is taken from the registry, and the row of its definition, the  *)
(* user's connection and the provider's health are judged one await after   *)
(* another (providerHealthService) before it is called.  A run keeps the    *)
(* content it took, while the row is edited.                                *)
(***************************************************************************)
EXTENDS ProviderDefinitions

CONSTANTS
    Calls,     \* runs and health checks in flight
    Probed     \* contents that come with a health endpoint

ASSUME ProbedAssumption == Probed \subseteq 1..MaxVersions

VARIABLES
    health,     \* the healthStatus of the definition row
    account,    \* the user's connection: "active", or not
    calling,    \* calling[c]: what a run does next, the content it took, the health it read
    met         \* met[c]: what held at some moment since the run took its provider

callVars == <<health, account, calling, met>>
providerVars == <<definitionVars, callVars>>

Uncalled == [at |-> "none", content |-> 0, health |-> "unknown"]

ProviderInit ==
    /\ DefinitionInit
    /\ health = "unknown" /\ account = "active"
    /\ calling = [c \in Calls |-> Uncalled]
    /\ met = [c \in Calls |-> {}]

-----------------------------------------------------------------------------
(* Steps of a run. *)

Becomes(c, run) == calling' = [calling EXCEPT ![c] = run]
GoesOn(c, from, to) == calling[c].at = from /\ Becomes(c, [calling[c] EXCEPT !.at = to])
CallEnds(c) == Becomes(c, Uncalled)

(* resolveConnectorProvider; and the health check a moderator asks for. *)
Resolve(c, at) ==
    /\ calling[c] = Uncalled /\ registry # 0
    /\ Becomes(c, [at |-> at, content |-> registry, health |-> "unknown"])
    /\ UNCHANGED <<health, account>>

BadReadDefinition(c) ==
    /\ calling[c].at = "definition"
    /\ IF definition.status # "disabled"
       THEN Becomes(c, [calling[c] EXCEPT !.at = "connection", !.health = health])
       ELSE CallEnds(c)
    /\ UNCHANGED <<health, account>>

ReadDefinition(c) ==
    /\ calling[c].at = "definition"
    /\ IF definition.status = "active"
       THEN Becomes(c, [calling[c] EXCEPT !.at = "connection", !.health = health])
       ELSE CallEnds(c)
    /\ UNCHANGED <<health, account>>

(* The health that was read before decides what comes next. *)
AfterConnection(c) ==
    IF calling[c].content \in Probed
    THEN IF calling[c].health = "healthy" THEN "again" ELSE "probe"
    ELSE IF calling[c].health = "unhealthy" THEN "none" ELSE "again"

JudgeAccount(c) ==
    /\ calling[c].at = "connection"
    /\ IF account = "active" /\ AfterConnection(c) # "none"
       THEN GoesOn(c, "connection", AfterConnection(c))
       ELSE CallEnds(c)
    /\ UNCHANGED <<health, account>>

(* runProviderHealthCheck reads the row once more ... *)
ProbeRead(c) ==
    /\ \E at \in {"probe", "check"} :
        /\ calling[c].at = at
        /\ IF definition.status = "active" /\ calling[c].content \in Probed
           THEN GoesOn(c, at, IF at = "probe" THEN "asked" ELSE "checked")
           ELSE CallEnds(c)
    /\ UNCHANGED <<health, account>>

(* ... and writes what the endpoint, or the lack of an answer, says; a health  *)
(* that cannot be written counts as bad.                                       *)
ProbeAnswers(c, verdict) ==
    /\ calling[c].at \in {"asked", "checked"}
    /\ health' = verdict
    /\ IF calling[c].at = "asked" /\ verdict = "healthy"
       THEN GoesOn(c, "asked", "again")
       ELSE CallEnds(c)
    /\ UNCHANGED account

(* The connection is read again for its credentials, after which it is called. *)
JudgeAccountAgain(c) ==
    /\ calling[c].at = "again"
    /\ IF account = "active" THEN GoesOn(c, "again", "call") ELSE CallEnds(c)
    /\ UNCHANGED <<health, account>>

(* A further attempt of the run is made with what it has. *)
Call(c) ==
    /\ calling[c].at = "call"
    /\ CallEnds(c) \/ UNCHANGED calling
    /\ UNCHANGED <<health, account>>

(* Input that is not valid, an approval that is needed, a call that is rejected. *)
CallBreaks(c) ==
    /\ calling[c] # Uncalled
    /\ CallEnds(c)
    /\ UNCHANGED <<health, account>>

-----------------------------------------------------------------------------

RunStep(c) ==
    \/ \E at \in {"definition", "check"} : Resolve(c, at)
    \/ ReadDefinition(c) \/ JudgeAccount(c) \/ ProbeRead(c)
    \/ \E verdict \in {"healthy", "unhealthy"} : ProbeAnswers(c, verdict)
    \/ JudgeAccountAgain(c) \/ Call(c) \/ CallBreaks(c)

(* A refresh fails, the user disconnects, connects again ... *)
AccountChanges ==
    /\ account' = IF account = "active" THEN "other" ELSE "active"
    /\ UNCHANGED <<health, calling>>

ProviderStep ==
    \/ EditStep /\ UNCHANGED <<health, account, calling>>
    \/ Restart /\ calling' = [c \in Calls |-> Uncalled] /\ UNCHANGED <<health, account>>
    \/ (AccountChanges \/ \E c \in Calls : RunStep(c)) /\ UNCHANGED definitionVars

(* A copy of the row is outstanding, was crossed by another, or lost. *)
Unsettled == apart \/ \E e \in Copiers : editing[e].at \in {"load", "copy"}

(* What holds for a run at a moment. *)
Holds(c) ==
    {what \in {"offered", "unsettled", "active", "connected", "healthy"} :
        CASE what = "offered"   -> Served(definition) = calling[c].content
          [] what = "unsettled" -> Unsettled
          [] what = "active"    -> definition.status = "active"
          [] what = "connected" -> account = "active"
          [] what = "healthy"   -> health = "healthy"}

Record ==
    met' = [c \in Calls |->
              IF calling'[c].at = "none" THEN {} ELSE met[c] \cup Holds(c)']

ProviderNext == ProviderStep /\ Record

ProviderSpec == ProviderInit /\ [][ProviderNext]_providerVars

-----------------------------------------------------------------------------
(* Properties. *)

(* A provider that is called was, each at some moment since the run took it:    *)
(* active, connected, found healthy if it has a health endpoint, and offered    *)
(* with just that content by the row, unless copies of the row were outstanding *)
(* or had crossed.                                                              *)
RunsAreReady ==
    \A c \in Calls : calling[c].at = "call" =>
        /\ {"active", "connected"} \subseteq met[c]
        /\ {"offered", "unsettled"} \cap met[c] # {}
        /\ calling[c].content \in Probed => "healthy" \in met[c]
=============================================================================
