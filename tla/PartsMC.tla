------------------------------ MODULE PartsMC ------------------------------
(***************************************************************************)
(* Small instances of components that share no state: invitations,         *)
(* workflows, listings, the provider registry and its runs, the activity   *)
(* log, the two protocols of the browser, the vault's clearances and its   *)
(* notes, the desktop's models, and provider connections.  A behaviour is  *)
(* about one of them, fixed in its first state.                            *)
(***************************************************************************)
EXTENDS BetaInvites, WorkflowRuns, ListingReview, ProviderRuns, ActivityChain,
        WorkspaceView, ChatConversation, VaultClearance, VaultNotes, LocalModels,
        ProviderTokens, TLC

VARIABLE part

Parts == {"invites", "workflow", "listing", "definition", "provider", "log", "view", "chat",
          "clearance", "notes", "model", "token"}

(* Ids are numbers, given out in their order; two clearance rows are ever made. *)
InOrder(used) == \A i \in used : 1..i \subseteq used
IdsInOrder ==
    /\ InOrder({i \in Invites : invites[i] # NoInvite})
    /\ \A k \in Scopes : InOrder({n \in 1..MaxTickets : clearance[<<k, n>>] # "free"})
    /\ Cardinality({t \in Tickets : clearance[t] # "free"}) <= 2
    /\ InOrder({r \in Rows : notes[r] # NoNote})

(* The runs of a provider are looked at with one edit at a time, and a start;   *)
(* connections with one call that holds a row, and a disconnection of this row, *)
(* beside sign-ins, as long as nothing is crossed.                              *)
OneEditor   == \A e, f \in Editors : editing[e] # AtRest /\ editing[f] # AtRest => e = f
OneReader   ==
    \A q, p \in Requests : q # p /\ handling[q].row # NoLink /\ handling[p].row # NoLink =>
        handling[q].row.id = handling[p].row.id /\ "disconnect" \in {handling[q].op, handling[p].op}
NoneCrossed == \A i \in LinkIds : ~crossed[i]

Init ==
    /\ part \in Parts
    /\ BetaInit /\ WorkflowInit /\ ListingInit /\ ProviderInit /\ ChainInit /\ ViewInit
    /\ ChatInit /\ ClearanceInit /\ NotesInit /\ ModelInit /\ TokenInit
    /\ IdsInOrder
    /\ part # "notes" => wanted = NoRow

vars == <<betaVars, workflowVars, listingVars, providerVars, chainVars, viewVars, chatVars,
          clearanceVars, notesVars, modelVars, tokenVars, part>>

PartNext ==
    \/ part = "invites" /\ BetaNext
        /\ UNCHANGED <<workflowVars, listingVars, providerVars, chainVars, viewVars, chatVars,
                       clearanceVars, notesVars, modelVars, tokenVars, part>>
    \/ part = "workflow" /\ WorkflowNext
        /\ UNCHANGED <<betaVars, listingVars, providerVars, chainVars, viewVars, chatVars,
                       clearanceVars, notesVars, modelVars, tokenVars, part>>
    \/ part = "listing" /\ ListingNext
        /\ UNCHANGED <<betaVars, workflowVars, providerVars, chainVars, viewVars, chatVars,
                       clearanceVars, notesVars, modelVars, tokenVars, part>>
    \/ part = "definition" /\ DefinitionNext
        /\ UNCHANGED <<callVars, betaVars, workflowVars, listingVars, chainVars, viewVars,
                       chatVars, clearanceVars, notesVars, modelVars, tokenVars, part>>
    \/ part = "provider" /\ ProviderNext /\ OneEditor'
        /\ UNCHANGED <<betaVars, workflowVars, listingVars, chainVars, viewVars, chatVars,
                       clearanceVars, notesVars, modelVars, tokenVars, part>>
    \/ part = "log" /\ ChainNext
        /\ UNCHANGED <<betaVars, workflowVars, listingVars, providerVars, viewVars, chatVars,
                       clearanceVars, notesVars, modelVars, tokenVars, part>>
    \/ part = "view" /\ ViewNext
        /\ UNCHANGED <<betaVars, workflowVars, listingVars, providerVars, chainVars, chatVars,
                       clearanceVars, notesVars, modelVars, tokenVars, part>>
    \/ part = "chat" /\ ChatNext
        /\ UNCHANGED <<betaVars, workflowVars, listingVars, providerVars, chainVars, viewVars,
                       clearanceVars, notesVars, modelVars, tokenVars, part>>
    \/ part = "clearance" /\ ClearanceNext
        /\ UNCHANGED <<betaVars, workflowVars, listingVars, providerVars, chainVars, viewVars,
                       chatVars, notesVars, modelVars, tokenVars, part>>
    \/ part = "notes" /\ NotesNext
        /\ UNCHANGED <<betaVars, workflowVars, listingVars, providerVars, chainVars, viewVars,
                       chatVars, clearanceVars, modelVars, tokenVars, part>>
    \/ part = "model" /\ ModelNext
        /\ UNCHANGED <<betaVars, workflowVars, listingVars, providerVars, chainVars, viewVars,
                       chatVars, clearanceVars, notesVars, tokenVars, part>>
    \/ part = "token" /\ TokenNext /\ OneReader' /\ NoneCrossed'
        /\ UNCHANGED <<betaVars, workflowVars, listingVars, providerVars, chainVars, viewVars,
                       chatVars, clearanceVars, notesVars, modelVars, part>>

Next == PartNext /\ IdsInOrder'

Spec == Init /\ [][Next]_vars

(* Calls in flight, and what they are about, differ only by name.  The parts *)
(* share their names, since a behaviour is about one of them.               *)
PartSymmetry == Permutations(Users) \cup Permutations(Callers)
=============================================================================
