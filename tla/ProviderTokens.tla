--------------------------- MODULE ProviderTokens --------------------------
(***************************************************************************)
(* The OAuth connections of one user to one provider                       *)
(* (providerConnectionService, providerOAuthService).  Every consent makes *)
(* a row of its own, beside those of earlier ones.  Agents' runs, the      *)
(* user's validations, tests and refreshes read a row, exchange its        *)
(* refresh token when it is due, and write the row by id: no lease keeps   *)
(* them apart.  The provider knows one token of the user, the last one it  *)
(* issued, and replaces it when it is used.                                *)
(***************************************************************************)
EXTENDS Naturals

CONSTANTS
    Requests,     \* calls in flight
    Chosen,       \* statuses a user may set
    MaxTokens     \* bound: refresh tokens the provider issues

LinkStatuses == {"active", "refreshing", "expired", "reconnect_required", "revoked", "error",
                 "disabled"}

ASSUME MaxTokensAssumption == MaxTokens \in Nat \ {0}
ASSUME ChosenAssumption == Chosen \subseteq LinkStatuses

VARIABLES
    links,       \* links[i]: the ProviderConnection row whose first token was i, if there is one
    issued,      \* the last refresh token issued, the only one the provider takes
    consented,   \* the row of the last consent, made or still to be made
    granted,     \* the provider still honours the user's consent
    handling,    \* handling[q]: what a call does next, the row it holds, the provider's answer
    crossed      \* crossed[i]: a call ran beside a refresh of the row, or the user vouched for it

tokenVars == <<links, issued, consented, granted, handling, crossed>>

LinkIds == 1..MaxTokens

NoLink    == [id |-> 0, status |-> "disabled", token |-> 0]
Unhandled == [op |-> "none", at |-> "none", row |-> NoLink, answer |-> 0]

TokenInit ==
    /\ links = [i \in LinkIds |-> NoLink]
    /\ issued = 0 /\ consented = 0 /\ granted = FALSE
    /\ handling = [q \in Requests |-> Unhandled]
    /\ crossed = [i \in LinkIds |-> FALSE]

HandledAs(q, call) == handling' = [handling EXCEPT ![q] = call]
IsThrough(q) == HandledAs(q, Unhandled)
CallsOn(i)   == {q \in Requests : handling[q].row.id = i}

-----------------------------------------------------------------------------
(* Connections are made, edited by the user, and ended. *)

(* The user consents, and the provider issues a token for the row i. *)
Consent(i) ==
    /\ issued < MaxTokens
    /\ issued' = issued + 1
    /\ consented' = i
    /\ granted' = TRUE

(* completeProviderOAuth takes the state and exchanges the code, and looks for  *)
(* no row that is there ...                                                     *)
ExchangeCode(q) ==
    /\ handling[q] = Unhandled
    /\ Consent(issued + 1)
    /\ HandledAs(q, [op |-> "signIn", at |-> "create", row |-> NoLink, answer |-> issued + 1])
    /\ UNCHANGED <<links, crossed>>

(* ... and creates one, as a request that brings the credentials itself does.   *)
CreateLink(q) ==
    LET i == handling[q].answer
    IN  /\ handling[q].at = "create"
        /\ links' = [links EXCEPT ![i] = [id |-> i, status |-> "active", token |-> i]]
        /\ IsThrough(q)
        /\ UNCHANGED <<issued, consented, granted, crossed>>

(* updateProviderConnection: a status, or credentials the user got elsewhere,   *)
(* which make it active.                                                        *)
SetLinkStatus(i, status) ==
    /\ links[i] # NoLink
    /\ links' = [links EXCEPT ![i].status = status]
    /\ crossed' = [crossed EXCEPT ![i] = @ \/ (status = "active" /\ links[i].status # "active")]
    /\ UNCHANGED <<issued, consented, granted, handling>>

ReplaceToken(i) ==
    /\ links[i] # NoLink
    /\ Consent(i)
    /\ links' = [links EXCEPT ![i].status = "active", ![i].token = issued + 1]
    /\ crossed' = [crossed EXCEPT ![i] = CallsOn(i) # {}]
    /\ UNCHANGED handling

(* deleteProviderConnection revokes the consent first, at providers where it can. *)
Disconnect(q, i) ==
    /\ handling[q] = Unhandled /\ links[i] # NoLink
    /\ granted' \in {granted, FALSE}
    /\ HandledAs(q, [op |-> "disconnect", at |-> "delete", row |-> links[i], answer |-> 0])
    /\ UNCHANGED <<links, issued, consented, crossed>>

OwnLink(q)   == links[handling[q].row.id]
HoldsLink(q) == OwnLink(q) # NoLink
PutLink(q, row) == links' = [links EXCEPT ![handling[q].row.id] = row]

DeleteLink(q) ==
    /\ handling[q].at = "delete"
    /\ IF HoldsLink(q) THEN PutLink(q, NoLink) ELSE UNCHANGED links
    /\ IsThrough(q)
    /\ UNCHANGED <<issued, consented, granted, crossed>>

(* The consent is withdrawn at the provider. *)
Withdraw ==
    /\ granted /\ granted' = FALSE
    /\ UNCHANGED <<links, issued, consented, handling, crossed>>

-----------------------------------------------------------------------------
(* refreshOAuthConnection. *)

IsReconnectStatus(s) == s \in {"expired", "revoked", "reconnect_required"}

(* shouldRefreshConnection: a row may be due at any time, by the clock or by an *)
(* expiry that the user or the provider set.                                    *)
ShouldRefresh(row, op, due) ==
    /\ row.status \notin {"disabled", "revoked"}
    /\ op = "refresh" \/ due

Refreshing(i) == \E q \in CallsOn(i) : handling[q].at \in {"mark", "ask", "store", "giveUp"}

(* A validation, a test or a refresh reads the row it is asked for; a run the   *)
(* row written last, which may be any.  A provider that is no longer registered *)
(* has no configuration, and no token is refreshed.                             *)
BeginCall(q, op, i) ==
    /\ handling[q] = Unhandled /\ links[i] # NoLink
    /\ \E due \in BOOLEAN :
        LET refreshes == ShouldRefresh(links[i], op, due)
        IN  /\ refreshes \/ op # "refresh"
            /\ \E at \in IF refreshes THEN {"mark", "giveUp"} ELSE {"judge"} :
                  HandledAs(q, [op |-> op, at |-> at, row |-> links[i], answer |-> 0])
            /\ crossed' = [crossed EXCEPT
                             ![i] = @ \/ (CallsOn(i) # {} /\ (refreshes \/ Refreshing(i)))]
    /\ UNCHANGED <<links, issued, consented, granted>>

(* A write by id of the row the call holds, which it then holds as written; a   *)
(* row that is gone rejects the write.                                          *)
WriteLink(q, row, at) ==
    /\ IF HoldsLink(q)
       THEN /\ PutLink(q, row)
            /\ IF at = "none" THEN IsThrough(q)
               ELSE HandledAs(q, [handling[q] EXCEPT !.at = at, !.row = row])
       ELSE IsThrough(q) /\ UNCHANGED links
    /\ UNCHANGED <<issued, consented, granted, crossed>>

GoesTo(q, at) == HandledAs(q, [handling[q] EXCEPT !.at = at])

MarkRefreshing(q) ==
    /\ handling[q].at = "mark"
    /\ IF HoldsLink(q)
       THEN PutLink(q, [OwnLink(q) EXCEPT !.status = "refreshing"]) /\ GoesTo(q, "ask")
       ELSE IsThrough(q) /\ UNCHANGED links
    /\ UNCHANGED <<issued, consented, granted, crossed>>

(* The provider takes its last token while the consent stands, and may issue    *)
(* another one; its answer may be lost, or be a refusal.                        *)
AskProvider(q) ==
    /\ handling[q].at = "ask"
    /\ \/ /\ granted /\ handling[q].row.token = issued
          /\ issued' \in {issued, issued + 1} /\ issued' <= MaxTokens
          /\ \/ HandledAs(q, [handling[q] EXCEPT !.at = "store", !.answer = issued'])
             \/ GoesTo(q, "giveUp")
       \/ GoesTo(q, "giveUp") /\ UNCHANGED issued
    /\ UNCHANGED <<links, consented, granted, crossed>>

(* A refresh asked for by the user is then through. *)
Rest(q) == IF handling[q].op = "refresh" THEN "none" ELSE "judge"

(* What the provider said is written whole. *)
StoreToken(q) ==
    /\ handling[q].at = "store"
    /\ WriteLink(q, [OwnLink(q) EXCEPT !.status = "active", !.token = handling[q].answer], Rest(q))

BadGiveUp(q) ==
    /\ handling[q].at = "giveUp"
    /\ WriteLink(q, [OwnLink(q) EXCEPT !.status = handling[q].row.status], Rest(q))

(* markReconnectRequired. *)
GiveUp(q) ==
    /\ handling[q].at = "giveUp"
    /\ WriteLink(q, [OwnLink(q) EXCEPT !.status = "reconnect_required"], Rest(q))

(* The try block: a write of the answer that rejects ends as one that failed.  *)
StoreFails(q) ==
    /\ handling[q].at = "store"
    /\ GoesTo(q, "giveUp")
    /\ UNCHANGED <<links, issued, consented, granted, crossed>>

-----------------------------------------------------------------------------
(* What each call makes of it. *)

(* Where a run, a validation or a test goes on when it has been judged. *)
After(op) == IF op = "validate" THEN "record" ELSE IF op = "test" THEN "try" ELSE "none"

(* validateStoredConnection: what is due or grows old may have expired by now,  *)
(* and the provider may want more than the row has.                             *)
JudgeLink(q) ==
    /\ handling[q].at = "judge"
    /\ LET row  == handling[q].row
           next == After(handling[q].op)
       IN  \/ /\ IF next = "none" THEN IsThrough(q) ELSE GoesTo(q, next)
              /\ UNCHANGED <<links, issued, consented, granted, crossed>>
           \/ /\ ~IsReconnectStatus(row.status)
              /\ \E status \in {"expired", "error"} :
                    WriteLink(q, [OwnLink(q) EXCEPT !.status = status], next)

(* validateProviderConnection writes its verdict. *)
RecordVerdict(q) ==
    /\ handling[q].at = "record"
    /\ \E status \in IF handling[q].row.status = "active"
                     THEN {"active"} ELSE {"expired", "error"} :
          WriteLink(q, [OwnLink(q) EXCEPT !.status = status], "none")

(* testProviderConnection: a row that is not active keeps the status that was   *)
(* read, an active one gets the outcome of the test.                            *)
RecordTest(q) ==
    /\ handling[q].at = "try"
    /\ \E status \in IF handling[q].row.status = "active"
                     THEN {"active", "reconnect_required", "error"}
                     ELSE {handling[q].row.status, "expired"} :
          WriteLink(q, [OwnLink(q) EXCEPT !.status = status], "none")

(* A database call rejects, or the process dies. *)
AbandonRequest(q) ==
    /\ handling[q] # Unhandled
    /\ IsThrough(q)
    /\ UNCHANGED <<links, issued, consented, granted, crossed>>

RequestStep(q) ==
    \/ ExchangeCode(q) \/ CreateLink(q) \/ DeleteLink(q)
    \/ \E i \in LinkIds :
        Disconnect(q, i) \/ \E op \in {"run", "validate", "test", "refresh"} : BeginCall(q, op, i)
    \/ MarkRefreshing(q) \/ AskProvider(q) \/ StoreToken(q) \/ StoreFails(q) \/ GiveUp(q)
    \/ JudgeLink(q) \/ RecordVerdict(q) \/ RecordTest(q) \/ AbandonRequest(q)

TokenNext ==
    \/ \E i \in LinkIds :
        \/ \E status \in Chosen : SetLinkStatus(i, status)
        \/ ReplaceToken(i)
    \/ Withdraw
    \/ \E q \in Requests : RequestStep(q)

TokenSpec == TokenInit /\ [][TokenNext]_tokenVars

-----------------------------------------------------------------------------
(* Properties. *)

(* While it is active, the connection the user consented to last holds the      *)
(* token the provider will take next, through lost answers, refusals and deaths *)
(* between the answer and its writing, and whatever is done with the rows of    *)
(* earlier consents, unless a call ran beside a refresh or a replacement of the *)
(* row's token, or the user called the row active without a new one.  (An older *)
(* row stays active with a token that is spent, until it is refreshed.)         *)
ActiveHoldsCurrentToken ==
    \A i \in LinkIds :
        links[i].status = "active" /\ i = consented /\ ~crossed[i] => links[i].token = issued
=============================================================================
