------------------------ MODULE ProviderDefinitions ------------------------
(***************************************************************************)
(* A provider definition and its copy in the memory of the web process     *)
(* (providerDefinitionService, connectorProviderRegistryService).  Agents  *)
(* find providers in the registry.  Moderators and agent activation write  *)
(* the row first and copy what the write returned after it; a process that *)
(* starts copies what it finds in the database.                            *)
(***************************************************************************)
EXTENDS Naturals

CONSTANTS
    Editors,         \* requests that edit the definition
    MaxVersions      \* bound: contents (endpoint, actions, ...) of the definition

ASSUME MaxVersionsAssumption == MaxVersions \in Nat \ {0}

VARIABLES
    definition,    \* the ProviderDefinition row
    registry,      \* the content that is registered in memory; 0 for none
    editing,       \* editing[e]: what a request, or the start, does next and has read
    apart          \* since the last undisturbed write the copies may have crossed, or one was lost

definitionVars == <<definition, registry, editing, apart>>

(* The start of the process is one more copier. *)
Copiers == Editors \cup {"start"}
Absent == [status |-> "absent", content |-> 0]
AtRest == [at |-> "rest", row |-> Absent]

DefinitionInit ==
    /\ definition = Absent /\ registry = 0 /\ apart = FALSE
    /\ editing = [e \in Copiers |-> IF e = "start" THEN [AtRest EXCEPT !.at = "load"] ELSE AtRest]

BecomesEditing(e, at, row) == editing' = [editing EXCEPT ![e] = [at |-> at, row |-> row]]
CopyOutstanding(e) == \E f \in Copiers \ {e} : editing[f].at = "copy"

(* A row that was just written, or read, is to be copied. *)
ToCopy(e, row) ==
    /\ BecomesEditing(e, "copy", row)
    /\ apart' = CopyOutstanding(e)

CreateDefinition(e, status, content) ==
    /\ editing[e] = AtRest /\ definition = Absent
    /\ definition' = [status |-> status, content |-> content]
    /\ ToCopy(e, definition')
    /\ UNCHANGED registry

(* updateProviderDefinition reads the row ... *)
UpdateRead(e) ==
    /\ editing[e] = AtRest /\ definition # Absent
    /\ BecomesEditing(e, "update", definition)
    /\ UNCHANGED <<definition, registry, apart>>

(* ... and writes it whole, with the status it read unless one is given:  *)
(* activation of an agent's runtime gives "active".                       *)
UpdateWrite(e, status, content) ==
    /\ editing[e].at = "update"
    /\ definition' = [status |-> IF status = "as read" THEN editing[e].row.status ELSE status,
                      content |-> content]
    /\ ToCopy(e, definition')
    /\ UNCHANGED registry

SetStatus(e, status) ==
    /\ editing[e] = AtRest /\ definition # Absent
    /\ definition' = [definition EXCEPT !.status = status]
    /\ ToCopy(e, definition')
    /\ UNCHANGED registry

(* What a row puts in the registry. *)
Served(row) == IF row.status = "active" THEN row.content ELSE 0

BadCopy(e) ==
    /\ editing[e].at = "copy"
    /\ registry' = IF editing[e].row.status = "active" THEN editing[e].row.content ELSE registry
    /\ BecomesEditing(e, "rest", Absent)
    /\ UNCHANGED <<definition, apart>>

(* syncProviderDefinitionToRegistry unregisters what is there first. *)
Copy(e) ==
    /\ editing[e].at = "copy"
    /\ registry' = Served(editing[e].row)
    /\ BecomesEditing(e, "rest", Absent)
    /\ UNCHANGED <<definition, apart>>

(* loadActiveProviderDefinitionsIntoRegistry reads the active rows only. *)
LoadActive ==
    /\ editing["start"].at = "load"
    /\ IF definition.status = "active"
       THEN ToCopy("start", definition)
       ELSE BecomesEditing("start", "rest", Absent) /\ UNCHANGED apart
    /\ UNCHANGED <<definition, registry>>

(* A database call rejects: before it did anything, or its answer is lost. *)
CallRejects(e) ==
    /\ editing[e].at \in {"load", "update", "copy"}
    /\ BecomesEditing(e, "rest", Absent)
    /\ apart' = (apart \/ editing[e].at # "update")
    /\ UNCHANGED <<definition, registry>>

(* The process dies, with its registry and its requests, and starts again. *)
Restart ==
    /\ editing' = [e \in Copiers |-> IF e = "start" THEN [AtRest EXCEPT !.at = "load"] ELSE AtRest]
    /\ registry' = 0 /\ apart' = FALSE
    /\ UNCHANGED definition

EditStep ==
    \/ \E e \in Editors, s \in {"draft", "active", "disabled"} :
        \/ SetStatus(e, s)
        \/ \E c \in 1..MaxVersions : CreateDefinition(e, s, c)
    \/ \E e \in Editors, s \in {"draft", "active", "disabled", "as read"}, c \in 1..MaxVersions :
        UpdateWrite(e, s, c)
    \/ \E e \in Editors : UpdateRead(e)
    \/ \E e \in Copiers : Copy(e) \/ CallRejects(e)
    \/ LoadActive

DefinitionNext == EditStep \/ Restart

DefinitionSpec == DefinitionInit /\ [][DefinitionNext]_definitionVars

-----------------------------------------------------------------------------
(* Properties. *)

(* Once the start and every edit are through, agents find exactly what the row  *)
(* says: nothing while it is a draft or disabled, else its present content.     *)
(* Not if copies of two writes crossed or one was lost, until a write that no   *)
(* other one disturbs, or a restart, repairs it.                                *)
RegistryFollowsRow ==
    (\A e \in Copiers : editing[e].at \notin {"load", "copy"}) /\ ~apart
        => registry = Served(definition)
=============================================================================
