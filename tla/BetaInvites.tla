---------------------------- MODULE BetaInvites ----------------------------
(***************************************************************************)
(* The invitations of one private beta cohort (betaService): an invitation *)
(* is created under the cohort's limit, revoked, replaced or redeemed, and *)
(* expires.  A replacement bears the address of its original.  Moderators  *)
(* and invited users call at the same time; a database transaction is one  *)
(* step, the reads before it are another.                                  *)
(***************************************************************************)
EXTENDS Naturals, FiniteSets

CONSTANTS
    Invites,
    Users,      \* accounts, each with the address an invitation is for
    Callers,    \* calls in flight
    Limit,      \* of the cohort
    None

ASSUME LimitAssumption == Limit \in Nat
ASSUME NoneIsNoInvite == None \notin Invites /\ None \notin Users

VARIABLES
    invites,    \* invites[i]: the BetaInvite row; root is the first of its replacements
    calls,      \* calls[c]: what a call in flight has read
    renewed     \* replacements of invitations that had expired, and theirs

betaVars == <<invites, calls, renewed>>

InviteRows == [status : {"absent", "pending", "redeemed", "revoked", "replaced"}, fresh : BOOLEAN,
               email : Users \cup {None}, root : Invites \cup {None}, by : Users \cup {None}]
NoInvite == [status |-> "absent", fresh |-> FALSE, email |-> None, root |-> None, by |-> None]
NoCall   == [op |-> "none", invite |-> None, user |-> None]

BetaInit ==
    /\ invites = [i \in Invites |-> NoInvite]
    /\ calls = [c \in Callers |-> NoCall]
    /\ renewed = {}

Taking(status) == {i \in Invites : invites[i].status = status /\ invites[i].fresh}
Active         == Taking("pending") \cup Taking("redeemed")
Pending(u, root) == [status |-> "pending", fresh |-> TRUE, email |-> u, root |-> root, by |-> None]

BadCreateInvite(i, u) ==
    /\ invites[i] = NoInvite
    /\ Cardinality(Active) <= Limit
    /\ \A k \in Taking("pending") : invites[k].email # u
    /\ invites' = [invites EXCEPT ![i] = Pending(u, i)]
    /\ UNCHANGED <<calls, renewed>>

(* The limit is checked in the serializable transaction that creates the row. *)
CreateInvite(i, u) ==
    /\ invites[i] = NoInvite
    /\ Cardinality(Active) < Limit
    /\ \A k \in Taking("pending") : invites[k].email # u
    /\ invites' = [invites EXCEPT ![i] = Pending(u, i)]
    /\ UNCHANGED <<calls, renewed>>

Expire(i) ==
    /\ invites[i].fresh
    /\ invites' = [invites EXCEPT ![i].fresh = FALSE]
    /\ UNCHANGED <<calls, renewed>>

RevokeInvite(i) ==
    /\ invites[i].status = "pending"
    /\ invites' = [invites EXCEPT ![i].status = "revoked"]
    /\ UNCHANGED <<calls, renewed>>

Begin(c, op, i, u) ==
    /\ calls[c] = NoCall
    /\ calls' = [calls EXCEPT ![c] = [op |-> op, invite |-> i, user |-> u]]
    /\ UNCHANGED <<invites, renewed>>
End(c) == calls' = [calls EXCEPT ![c] = NoCall]

ReplaceRead(c, i) == invites[i].status = "pending" /\ Begin(c, "replace", i, None)

BadReplaceWrite(c, i) ==
    LET old == calls[c].invite
    IN  /\ calls[c].op = "replace" /\ invites[i] = NoInvite
        /\ invites' = [invites EXCEPT
                          ![i] = Pending(invites[old].email, invites[old].root)]
        /\ renewed' = IF invites[old].fresh /\ old \notin renewed THEN renewed ELSE renewed \cup {i}
        /\ End(c)

(* A compare-and-set and a fresh row, in one transaction; neither the expiry of *)
(* the original nor the limit is looked at.                                     *)
ReplaceWrite(c, i) ==
    LET old == calls[c].invite
    IN  /\ calls[c].op = "replace" /\ invites[i] = NoInvite
        /\ IF invites[old].status = "pending"
           THEN /\ invites' = [invites EXCEPT
                                  ![old].status = "replaced",
                                  ![i] = Pending(invites[old].email, invites[old].root)]
                /\ renewed' = IF invites[old].fresh /\ old \notin renewed THEN renewed ELSE renewed \cup {i}
           ELSE UNCHANGED <<invites, renewed>>
        /\ End(c)

(* The token finds the row whatever its status; the address must be the caller's. *)
RedeemRead(c, i, u) == invites[i].email = u /\ Begin(c, "redeem", i, u)

RedeemWrite(c) ==
    LET i == calls[c].invite
    IN  /\ calls[c].op = "redeem"
        /\ invites' = IF invites[i].status = "pending" /\ invites[i].fresh
                      THEN [invites EXCEPT ![i].status = "redeemed", ![i].by = calls[c].user]
                      ELSE invites
        /\ End(c)
        /\ UNCHANGED renewed

CallFails(c) == calls[c] # NoCall /\ End(c) /\ UNCHANGED <<invites, renewed>>

BetaNext ==
    \/ \E i \in Invites, u \in Users : CreateInvite(i, u)
    \/ \E i \in Invites : Expire(i) \/ RevokeInvite(i)
    \/ \E c \in Callers, i \in Invites : ReplaceRead(c, i) \/ ReplaceWrite(c, i)
    \/ \E c \in Callers, i \in Invites, u \in Users : RedeemRead(c, i, u)
    \/ \E c \in Callers : RedeemWrite(c) \/ CallFails(c)

BetaSpec == BetaInit /\ [][BetaNext]_betaVars

-----------------------------------------------------------------------------
(* Properties. *)

(* An invitation is redeemed once, however often and by however many calls it   *)
(* was replaced, revoked or redeemed at the same time.                          *)
OneAccessPerInvitation ==
    \A i, k \in Invites :
        invites[i].status = "redeemed" /\ invites[k].status = "redeemed"
            /\ invites[i].root = invites[k].root => i = k

(* The invitations that count stay within the limit, but for those that         *)
(* replaced an expired one, or replaced such a replacement.                     *)
LimitButForRenewals == Cardinality(Active \ renewed) <= Limit

=============================================================================
