--------------------------- MODULE VaultClearance --------------------------
(***************************************************************************)
(* An agent's clearances to read kinds of private notes.  The user grants  *)
(* and revokes them (permissionRoutes) and removes the agent               *)
(* (agentLifecycleService); a search of the agent (nativeAdapter) judges   *)
(* the connection and then a clearance row (permissionEngine), and reads   *)
(* the notes after that.  Nothing keeps the rows of one clearance unique,  *)
(* and a row or a search may come to no kind of notes: such a row clears   *)
(* every kind, and such a search, which names a kind that does not exist,  *)
(* reads every kind under any row it is given.                             *)
(***************************************************************************)
EXTENDS FiniteSets, Naturals

CONSTANTS
    Kinds,       \* the kinds of notes (VaultSchema)
    Null,        \* no kind
    MaxTickets,  \* bound: rows ever made for a kind; ids are not used again
    Grants,      \* requests of the user in flight
    Searches,    \* tool runs of the agent in flight
    NoTicket

Scopes  == Kinds \cup {Null}
Tickets == Scopes \X (1..MaxTickets)     \* rows, each of one scope

ASSUME TicketAssumption == NoTicket \notin Tickets /\ Null \notin Kinds /\ "connection" \notin Scopes

VARIABLES
    clearance,   \* clearance[t]: an AgentPermission row, and whether its expiresAt is over
    connection,  \* the UserConnection row: its token is "live" or "lapsed", or it is "absent"
    granting,    \* granting[g]: where a request stands, the row it found, what it writes for which scope
    searching,   \* searching[s]: where a search stands, and the kind it names
    decided,     \* decided[k]: the row the user's latest decision on k wrote; NoTicket after a revocation
    doubled,     \* doubled[k]: since the latest revocation a row was created beside another
    seen         \* seen[s]: what was in force at some moment of the search

clearanceVars == <<clearance, connection, granting, searching, decided, doubled, seen>>

Terms == {"open", "limited"}

Held     == {t \in Tickets : clearance[t] \in Terms \cup {"lapsed"}}
HeldFor(k) == {t \in Held : t[1] = k}
Valid(t) == clearance[t] \in Terms

Resting == [at |-> "rest", row |-> NoTicket, want |-> "open", scope |-> Null]
Calm    == [at |-> "rest", aim |-> Null]

ClearanceInit ==
    /\ clearance = [t \in Tickets |-> "free"]
    /\ connection = "live"
    /\ granting = [g \in Grants |-> Resting]
    /\ searching = [s \in Searches |-> Calm]
    /\ decided = [k \in Scopes |-> NoTicket]
    /\ doubled = [k \in Scopes |-> FALSE]
    /\ seen = [s \in Searches |-> {}]

-----------------------------------------------------------------------------
(* The user's requests. *)

Step(g, at, row) == granting' = [granting EXCEPT ![g].at = at, ![g].row = row]
Answer(g)        == granting' = [granting EXCEPT ![g] = Resting]

AskForChange(g, at, want, k) ==
    /\ granting[g] = Resting
    /\ connection # "absent"
    /\ granting' = [granting EXCEPT ![g] = [at |-> at, row |-> NoTicket, want |-> want, scope |-> k]]
    /\ UNCHANGED <<clearance, connection, searching, decided, doubled>>

FindExisting(g) ==
    /\ granting[g].at = "find"
    /\ LET rows == HeldFor(granting[g].scope)
       IN  \/ \E t \in rows : Step(g, "update", t)
           \/ rows = {} /\ Step(g, "create", NoTicket)
    /\ UNCHANGED <<clearance, connection, searching, decided, doubled>>

UpdateClearance(g) ==
    LET t == granting[g].row
    IN  /\ granting[g].at = "update"
        /\ t \in Held
        /\ clearance' = [clearance EXCEPT ![t] = granting[g].want]
        /\ decided' = [decided EXCEPT ![granting[g].scope] = t]
        /\ Step(g, "renew", NoTicket)
        /\ UNCHANGED <<connection, searching, doubled>>

CreateClearance(g) ==
    /\ granting[g].at = "create"
    /\ connection # "absent"
    /\ LET k == granting[g].scope
       IN  /\ \E t \in Tickets :
              /\ t[1] = k /\ clearance[t] = "free"
              /\ clearance' = [clearance EXCEPT ![t] = granting[g].want]
              /\ decided' = [decided EXCEPT ![k] = t]
           /\ doubled' = [doubled EXCEPT ![k] = @ \/ HeldFor(k) # {}]
    /\ Step(g, "renew", NoTicket)
    /\ UNCHANGED <<connection, searching>>

RenewConnection(g) ==
    /\ granting[g].at = "renew"
    /\ connection # "absent"
    /\ connection' = "live"
    /\ Answer(g)
    /\ UNCHANGED <<clearance, searching, decided, doubled>>

Drop(rows) == clearance' = [t \in Tickets |-> IF t \in rows THEN "gone" ELSE clearance[t]]

BadRevoke(g) ==
    LET k == granting[g].scope
    IN  /\ granting[g].at = "delete"
        /\ Drop({decided[k]})
        /\ decided' = [decided EXCEPT ![k] = NoTicket] /\ doubled' = [doubled EXCEPT ![k] = FALSE]
        /\ Answer(g)
        /\ UNCHANGED <<connection, searching>>

(* Every row of exactly this kind, or of none: a row of no kind outlives the   *)
(* revocations of the kinds.                                                   *)
Revoke(g) ==
    LET k == granting[g].scope
    IN  /\ granting[g].at = "delete"
        /\ Drop(HeldFor(k))
        /\ decided' = [decided EXCEPT ![k] = NoTicket] /\ doubled' = [doubled EXCEPT ![k] = FALSE]
        /\ Answer(g)
        /\ UNCHANGED <<connection, searching>>

(* A row that is gone, an agent that is, a rejected call or the end of the process. *)
RequestFails(g) ==
    /\ granting[g] # Resting
    /\ Answer(g)
    /\ UNCHANGED <<clearance, connection, searching, decided, doubled>>

(* In one transaction; the agent goes with its only connection. *)
RemoveAgent ==
    /\ connection # "absent"
    /\ Drop(Held)
    /\ connection' = "absent"
    /\ decided' = [k \in Scopes |-> NoTicket] /\ doubled' = [k \in Scopes |-> FALSE]
    /\ UNCHANGED <<granting, searching>>

-----------------------------------------------------------------------------
(* Time. *)

ClearanceLapses(t) ==
    /\ clearance[t] = "limited"
    /\ clearance' = [clearance EXCEPT ![t] = "lapsed"]
    /\ UNCHANGED <<connection, granting, searching, decided, doubled>>

ConnectionLapses ==
    /\ connection = "live"
    /\ connection' = "lapsed"
    /\ UNCHANGED <<clearance, granting, searching, decided, doubled>>

-----------------------------------------------------------------------------
(* The agent's searches. *)

MoveOn(s, from, to, aim) ==
    /\ searching[s].at = from
    /\ searching' = [searching EXCEPT ![s] = [at |-> to, aim |-> aim]]
    /\ UNCHANGED <<clearance, connection, granting, decided, doubled>>

Proceed(s, from, to) == MoveOn(s, from, to, searching[s].aim)
Finish(s, from)      == MoveOn(s, from, "rest", Null)

(* A search names a kind, or one that does not exist, which comes to no kind;   *)
(* one that names nothing asks first what it may read.                          *)
StartSearch(s) ==
    \/ MoveOn(s, "rest", "list", Null)
    \/ \E aim \in Scopes : MoveOn(s, "rest", "connection", aim)

(* Each of the kinds it finds is judged and read by itself: this is one of them. *)
ListClearances(s) ==
    \/ \E k \in Kinds : (\E t \in HeldFor(k) : Valid(t)) /\ MoveOn(s, "list", "connection", k)
    \/ (\A t \in Held : t[1] = Null \/ ~Valid(t)) /\ Finish(s, "list")

JudgeConnection(s) ==
    \/ connection = "live" /\ Proceed(s, "connection", "clearance")
    \/ connection # "live" /\ Finish(s, "connection")

(* The rows the query takes, in no order: those of the kind and those of none.  *)
(* For no kind the first condition is undefined, and lets every row pass or is  *)
(* dropped.                                                                     *)
Matching(aim) == IF aim = Null THEN {Held, HeldFor(Null)} ELSE {HeldFor(aim) \cup HeldFor(Null)}

JudgeClearance(s) ==
    \E rows \in Matching(searching[s].aim) :
        \/ \E t \in rows : Valid(t) /\ Proceed(s, "clearance", "read")
        \/ (rows = {} \/ \E t \in rows : ~Valid(t)) /\ Finish(s, "clearance")

(* The notes of the kind it names, and of every kind when it names none. *)
ReadNotes(s) == Finish(s, "read")

-----------------------------------------------------------------------------

ClearanceStep ==
    \/ \E g \in Grants :
        \/ \E k \in Scopes, want \in Terms : AskForChange(g, "find", want, k)
        \/ \E k \in Scopes : AskForChange(g, "delete", "open", k)
        \/ FindExisting(g) \/ UpdateClearance(g) \/ CreateClearance(g) \/ RenewConnection(g)
        \/ Revoke(g) \/ RequestFails(g)
    \/ RemoveAgent
    \/ \E t \in Tickets : ClearanceLapses(t)
    \/ ConnectionLapses
    \/ \E s \in Searches :
        StartSearch(s) \/ ListClearances(s) \/ JudgeConnection(s) \/ JudgeClearance(s) \/ ReadNotes(s)

(* What the user's decisions and the agent's session allow at a moment.  With *)
(* two rows the user has no one decision, and either may count.               *)
Cleared(k) == doubled[k] \/ (decided[k] # NoTicket /\ Valid(decided[k]))
InForce ==
    {k \in Scopes : Cleared(k)} \cup (IF connection = "live" THEN {"connection"} ELSE {})

Witness == seen' = [s \in Searches |-> IF searching'[s].at = "rest" THEN {} ELSE seen[s] \cup InForce']

ClearanceNext == ClearanceStep /\ Witness

ClearanceSpec == ClearanceInit /\ [][ClearanceNext]_clearanceVars

-----------------------------------------------------------------------------
(* Properties. *)

Allows(s, k) == {"connection", k} \subseteq seen[s] \/ {"connection", Null} \subseteq seen[s]

(* A search that goes on to read a kind of notes was allowed to: at some moment *)
(* since it began the user's latest decision on that kind, or on no kind, was a *)
(* clearance that had not lapsed, and at some moment the agent's session had    *)
(* not, unless rows of overlapping grants stood side by side.  A search that    *)
(* names a kind which does not exist, and reads the notes of all, needed some   *)
(* clearance only, of whichever kind.                                           *)
ReadIsCleared ==
    \A s \in Searches : searching[s].at = "read" =>
        IF searching[s].aim \in Kinds
        THEN Allows(s, searching[s].aim)
        ELSE \E k \in Scopes : Allows(s, k)
=============================================================================
