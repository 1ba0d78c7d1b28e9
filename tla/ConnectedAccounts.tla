------------------------- MODULE ConnectedAccounts -------------------------
(***************************************************************************)
(* One connected Google or Microsoft account of a user: the OAuth link     *)
(* that connects it, the refresh of its access token under a lease in the  *)
(* row, and its disconnection (connectorAccountService).                   *)
(*                                                                         *)
(* A refresh reads the row, claims it, calls the provider and writes the   *)
(* answer by id alone; the callback of a link and a disconnection write by *)
(* id alone as well.  Each database or provider call is one step.          *)
(***************************************************************************)
EXTENDS Naturals, FiniteSets

CONSTANTS
    Links,      \* OAuth links the user may open
    Requests,   \* requests in flight: callbacks, token reads, disconnections
    MaxTokens,  \* bound: refresh tokens the provider issues
    MaxFaults,  \* bound: calls that throw and processes that die
    None

ASSUME BoundsAssumption == MaxTokens \in Nat /\ MaxFaults \in Nat
ASSUME NoneAssumption == None \notin Links

VARIABLES
    provider,   \* "google" or "microsoft", fixed
    account,    \* the ConnectedAccount row
    link,       \* link[l]: the OAuthAuthorization row
    exchanges,  \* exchanges[l]: how often the code of l was exchanged
    issued,     \* refresh tokens issued so far; they are numbered
    request,    \* request[r]: where a request is, and what it holds
    faults

vars == <<provider, account, link, exchanges, issued, request, faults>>

Statuses == {"none", "active", "refreshing", "expired", "error", "revoked"}
Tokens   == 0..MaxTokens     \* 0: no refresh token

Accounts == [status : Statuses, access : {"none", "fresh", "expired"}, refresh : Tokens,
             lease : {"none", "running", "lapsed"}]
LinkRows == {"none", "open", "consumed", "expired"}

CallbackStages == {"consuming", "exchanging", "connecting"}
RefreshStages  == {"expiring", "claiming", "fetching", "refreshed", "failing"}
Stages         == {"idle", "clearing"} \cup CallbackStages \cup RefreshStages

(* token is the refresh token that was read and, after the provider's answer,  *)
(* the one to write; held says that no write and no lapse has ended the lease. *)
RequestRecords == [stage : Stages, link : Links \cup {None}, token : Tokens, held : BOOLEAN]

NoAccount == [status |-> "none", access |-> "none", refresh |-> 0, lease |-> "none"]
Idle      == [stage |-> "idle", link |-> None, token |-> 0, held |-> FALSE]

Init ==
    /\ provider \in {"google", "microsoft"}
    /\ account = NoAccount
    /\ link = [l \in Links |-> "none"]
    /\ exchanges = [l \in Links |-> 0]
    /\ issued = 0
    /\ request = [r \in Requests |-> Idle]
    /\ faults = 0

At(r, stage) == request[r].stage = stage
Goto(r, stage) == request' = [request EXCEPT ![r].stage = stage]

(* Request r ends and writes the row, which ends whatever lease there was. *)
Write(r, row) ==
    /\ account' = row
    /\ request' = [q \in Requests |-> IF q = r THEN Idle ELSE [request[q] EXCEPT !.held = FALSE]]

-----------------------------------------------------------------------------
(* Connecting. *)

(* createOAuthAuthorization *)
Start(l) ==
    /\ link[l] = "none"
    /\ link' = [link EXCEPT ![l] = "open"]
    /\ UNCHANGED <<provider, account, exchanges, issued, request, faults>>

LinkExpires(l) ==
    /\ link[l] = "open"
    /\ link' = [link EXCEPT ![l] = "expired"]
    /\ UNCHANGED <<provider, account, exchanges, issued, request, faults>>

(* The provider redirects to the callback, and the browser may do it again. *)
Callback(r, l) ==
    /\ At(r, "idle") /\ link[l] # "none"
    /\ request' = [request EXCEPT ![r] = [Idle EXCEPT !.stage = "consuming", !.link = l]]
    /\ UNCHANGED <<provider, account, link, exchanges, issued, faults>>

(* Definitions named Bad... are the faulty variants the project's mutants     *)
(* put in place of the definition that follows them.                          *)
BadConsume(r) ==
    /\ At(r, "consuming")
    /\ IF link[request[r].link] # "expired"
       THEN link' = [link EXCEPT ![request[r].link] = "consumed"] /\ Goto(r, "exchanging")
       ELSE request' = [request EXCEPT ![r] = Idle] /\ UNCHANGED link
    /\ UNCHANGED <<provider, account, exchanges, issued, faults>>

(* consumeOAuthAuthorization: the compare-and-set decides. *)
Consume(r) ==
    /\ At(r, "consuming")
    /\ IF link[request[r].link] = "open"
       THEN link' = [link EXCEPT ![request[r].link] = "consumed"] /\ Goto(r, "exchanging")
       ELSE request' = [request EXCEPT ![r] = Idle] /\ UNCHANGED link
    /\ UNCHANGED <<provider, account, exchanges, issued, faults>>

(* What a token endpoint answers: an access token, with or without a new        *)
(* refresh token.                                                               *)
Answers(r, stage) ==
    \E new \in {0, issued + 1} \cap Tokens :
        /\ request' = [request EXCEPT ![r].stage = stage, ![r].token = new]
        /\ issued' = IF new = 0 THEN issued ELSE new

(* The exchange of the code, and the profile read. *)
Exchange(r) ==
    /\ At(r, "exchanging")
    /\ Answers(r, "connecting")
    /\ exchanges' = [exchanges EXCEPT ![request[r].link] = @ + 1]
    /\ UNCHANGED <<provider, account, link, faults>>

(* An answer without a refresh token leaves the stored one. *)
Stored(r) == IF request[r].token = 0 THEN account.refresh ELSE request[r].token

(* The upsert of completeGoogleOAuth and completeMicrosoftOAuth. *)
Connect(r) ==
    /\ At(r, "connecting")
    /\ Write(r, [status |-> "active", access |-> "fresh", refresh |-> Stored(r), lease |-> "none"])
    /\ UNCHANGED <<provider, link, exchanges, issued, faults>>

-----------------------------------------------------------------------------
(* Using the account.  A request that finds a fresh token, or none it may use, *)
(* changes nothing and is not started.                                         *)

AccessExpires ==
    /\ account.access = "fresh"
    /\ account' = [account EXCEPT !.access = "expired"]
    /\ UNCHANGED <<provider, link, exchanges, issued, request, faults>>

(* The read of getValidConnectorToken and getValidMicrosoftConnectorToken. *)
ReadToken(r) ==
    /\ At(r, "idle")
    /\ account.status \in {"active", "refreshing"} /\ account.access = "expired"
    /\ \/ /\ account.refresh # 0
          /\ request' = [request EXCEPT ![r] =
                [Idle EXCEPT !.stage = "claiming", !.token = account.refresh]]
       \/ /\ account.refresh = 0 /\ provider = "google"
          /\ request' = [request EXCEPT ![r] = [Idle EXCEPT !.stage = "expiring"]]
    /\ UNCHANGED <<provider, account, link, exchanges, issued, faults>>

(* Google only: no refresh token was read, so the account is marked expired. *)
MarkExpired(r) ==
    /\ At(r, "expiring")
    /\ Write(r, [account EXCEPT !.status = "expired"])
    /\ UNCHANGED <<provider, link, exchanges, issued, faults>>

BadClaimable == account.status = "active"

(* The account may have been refreshed, and be active again, since the read. *)
Claimable ==
    \/ account.status = "active"
    \/ account.status = "refreshing" /\ account.lease = "lapsed"

BadClaim(r) ==
    /\ At(r, "claiming")
    /\ IF account.status \in {"active", "refreshing"}
       THEN /\ account' = [account EXCEPT !.status = "refreshing", !.lease = "running"]
            /\ request' = [request EXCEPT ![r].stage = "fetching", ![r].held = TRUE]
       ELSE request' = [request EXCEPT ![r] = Idle] /\ UNCHANGED account
    /\ UNCHANGED <<provider, link, exchanges, issued, faults>>

Claim(r) ==
    /\ At(r, "claiming")
    /\ IF Claimable
       THEN /\ account' = [account EXCEPT !.status = "refreshing", !.lease = "running"]
            /\ request' = [request EXCEPT ![r].stage = "fetching", ![r].held = TRUE]
       ELSE request' = [request EXCEPT ![r] = Idle] /\ UNCHANGED account
    /\ UNCHANGED <<provider, link, exchanges, issued, faults>>

(* Two minutes after refreshStartedAt, whether or not its refresh still runs. *)
LeaseLapses ==
    /\ account.lease = "running"
    /\ account' = [account EXCEPT !.lease = "lapsed"]
    /\ request' = [r \in Requests |-> [request[r] EXCEPT !.held = FALSE]]
    /\ UNCHANGED <<provider, link, exchanges, issued, faults>>

(* The token endpoint refuses the refresh, or answers.  Google's answer to a    *)
(* refresh is read for its access token only.                                   *)
Refresh(r) ==
    /\ At(r, "fetching")
    /\ \/ Goto(r, "failing") /\ UNCHANGED issued
       \/ provider = "microsoft" /\ Answers(r, "refreshed")
       \/ /\ provider = "google"
          /\ request' = [request EXCEPT ![r].stage = "refreshed", ![r].token = 0]
          /\ UNCHANGED issued
    /\ UNCHANGED <<provider, account, link, exchanges, faults>>

(* The answer is written by id, whatever has become of the row. *)
SaveRefreshed(r) ==
    /\ At(r, "refreshed")
    /\ Write(r, [status |-> "active", access |-> "fresh", refresh |-> Stored(r), lease |-> "none"])
    /\ UNCHANGED <<provider, link, exchanges, issued, faults>>

(* So is the failure, in the catch block. *)
SaveFailure(r) ==
    /\ At(r, "failing")
    /\ Write(r, [account EXCEPT !.status = "error", !.lease = "none"])
    /\ UNCHANGED <<provider, link, exchanges, issued, faults>>

-----------------------------------------------------------------------------
(* Disconnecting: a read, for Google a call that revokes the grant and may     *)
(* fail, and an update by id.                                                  *)
Disconnect(r) ==
    /\ At(r, "idle") /\ account.status # "none"
    /\ request' = [request EXCEPT ![r] = [Idle EXCEPT !.stage = "clearing"]]
    /\ UNCHANGED <<provider, account, link, exchanges, issued, faults>>

BadClear(r) ==
    /\ At(r, "clearing")
    /\ Write(r, [account EXCEPT !.access = "none", !.refresh = 0, !.lease = "none"])
    /\ UNCHANGED <<provider, link, exchanges, issued, faults>>

Clear(r) ==
    /\ At(r, "clearing")
    /\ Write(r, [NoAccount EXCEPT !.status = "revoked"])
    /\ UNCHANGED <<provider, link, exchanges, issued, faults>>

-----------------------------------------------------------------------------
(* A call throws.  In the try of a refresh the catch block takes over, in the  *)
(* catch block and anywhere else the request ends; a consumed link stays so.   *)
Throws(r) ==
    /\ ~At(r, "idle") /\ faults < MaxFaults
    /\ faults' = faults + 1
    /\ IF request[r].stage \in {"fetching", "refreshed"}
       THEN Goto(r, "failing")
       ELSE request' = [request EXCEPT ![r] = Idle]
    /\ UNCHANGED <<provider, account, link, exchanges, issued>>

(* The process dies with every request it serves. *)
Crash ==
    /\ faults < MaxFaults
    /\ \E r \in Requests : ~At(r, "idle")
    /\ faults' = faults + 1
    /\ request' = [r \in Requests |-> Idle]
    /\ UNCHANGED <<provider, account, link, exchanges, issued>>

Proceed(r) ==
    \/ Consume(r) \/ Exchange(r) \/ Connect(r)
    \/ MarkExpired(r) \/ Claim(r) \/ Refresh(r) \/ SaveRefreshed(r) \/ SaveFailure(r)
    \/ Clear(r)

Next ==
    \/ \E l \in Links : Start(l) \/ LinkExpires(l)
    \/ \E r \in Requests :
          \/ \E l \in Links : Callback(r, l)
          \/ ReadToken(r) \/ Disconnect(r) \/ Proceed(r) \/ Throws(r)
    \/ AccessExpires \/ LeaseLapses \/ Crash

Spec == Init /\ [][Next]_vars

(* Awaited calls return, and the clock goes on. *)
Fairness == WF_vars(LeaseLapses) /\ \A r \in Requests : WF_vars(Proceed(r))

FairSpec == Spec /\ Fairness

-----------------------------------------------------------------------------
(* Properties. *)

(* Every variable holds values of its kind. *)
TypeOK ==
    /\ provider \in {"google", "microsoft"}
    /\ account \in Accounts
    /\ link \in [Links -> LinkRows]
    /\ exchanges \in [Links -> Nat]
    /\ issued \in Tokens
    /\ request \in [Requests -> RequestRecords]
    /\ faults \in 0..MaxFaults

(* However often and however concurrently the provider's redirect is followed, *)
(* the code of a link is exchanged at most once, failures and crashes included. *)
CodeExchangedOnce == \A l \in Links : exchanges[l] <= 1

(* An account that agents may use has an access token to give them, although   *)
(* refreshes, failures, connections and disconnections that started from older *)
(* rows write it one after the other.                                          *)
UsableHasToken == account.status \in {"active", "refreshing"} => account.access # "none"

(* A refresh whose lease has neither lapsed nor been ended by another write is *)
(* the only such refresh, and the row shows it.                                *)
LeaseIsExclusive ==
    /\ \A r, q \in Requests : request[r].held /\ request[q].held => r = q
    /\ (\E r \in Requests : request[r].held) =>
          account.status = "refreshing" /\ account.lease = "running"

(* As long as callers keep asking for the token, an account does not stay       *)
(* refreshing: a refresh that was cut short is taken over.                      *)
Asked == \E r \in Requests : At(r, "claiming")

RefreshEnds == []<>Asked => []<>(account.status # "refreshing")

(* Why: a refreshing account always has a lease, which lapses or has lapsed, so *)
(* that the next caller may take it over; and while the lease runs, a request   *)
(* is at the refresh, unless a call has thrown or a process has died.           *)
RefreshIsAttended ==
    account.status = "refreshing" =>
        \/ account.lease = "lapsed"
        \/ account.lease = "running" /\ (faults > 0 \/ \E r \in Requests : request[r].held)

=============================================================================
