----------------------------- MODULE VaultNotes ----------------------------
(***************************************************************************)
(* One file of the vault and the rows that are made of it.  The watcher and *)
(* the user's reindex read the file, look for its row and write it          *)
(* (vaultWatcherService, vaultIndexService); the user edits and deletes the *)
(* row (vaultDocumentService); and the start of the server encrypts rows of *)
(* older versions, while it already serves (vaultMigrationService).  Every  *)
(* await is a step of its own, and nothing keeps the path unique.           *)
(***************************************************************************)
EXTENDS Naturals

CONSTANTS
    Rows,         \* bound: rows that are ever made
    Tasks,        \* indexings, edits and deletions in flight
    MaxContents,  \* bound: saves of the file and edits of the row
    NoRow

ASSUME ContentsAssumption == MaxContents \in Nat /\ NoRow \notin Rows \cup Nat

VARIABLES
    file,       \* the file's content: the number of the change that wrote it
    announced,  \* the watcher has an event to deliver
    notes,      \* notes[r]: a VaultDocument row
    tasks,      \* tasks[t]: where a call stands, what it writes, and the rows it saw
    sealing,    \* where the encryption of old rows stands, and what it read
    contents,   \* the number of changes so far
    wanted,     \* what the latest save, indexing, edit or deletion asked for
    undone      \* a call undid what was asked for, was cut short, or a save went unnoticed

notesVars == <<file, announced, notes, tasks, sealing, contents, wanted, undone>>

(* The title, hash and schema of a row, and what is encrypted in it. *)
NewNote(text) == [state |-> "held", label |-> text, body |-> text, sealed |-> TRUE]
NoNote        == [state |-> "free", label |-> 0, body |-> 0, sealed |-> FALSE]
OldNote       == [state |-> "held", label |-> 0, body |-> 0, sealed |-> FALSE]

Stored == {r \in Rows : notes[r].state = "held"}

NoTask == [at |-> "none", row |-> NoRow, text |-> 0, saw |-> {}]
Unread == [at |-> "read", row |-> NoRow, body |-> 0]

(* The file was indexed before encryption came, or never. *)
NotesInit ==
    /\ file = 0 /\ announced = FALSE /\ contents = 0 /\ undone = FALSE
    /\ \/ /\ notes = [r \in Rows |-> NoNote]
          /\ wanted = NoRow
       \/ /\ \E old \in Rows : notes = [r \in Rows |-> IF r = old THEN OldNote ELSE NoNote]
          /\ wanted = 0
    /\ tasks = [t \in Tasks |-> NoTask]
    /\ sealing = Unread

(* One row that holds what is wanted, in both its parts, or none. *)
AsWanted ==
    IF wanted = NoRow THEN Stored = {}
    ELSE \E r \in Rows : Stored = {r} /\ notes[r].label = wanted /\ notes[r].body = wanted

-----------------------------------------------------------------------------
(* The file and the indexing. *)

Anew == contents < MaxContents /\ contents' = contents + 1

(* The watcher starts after the encryption, and looks for changes only. *)
SaveFile ==
    /\ Anew
    /\ file' = contents + 1 /\ wanted' = contents + 1
    /\ announced' = (sealing.at = "done")
    /\ undone' = (undone \/ sealing.at # "done")
    /\ UNCHANGED <<notes, tasks, sealing>>

Task(t, at, row, text, saw) ==
    tasks' = [tasks EXCEPT ![t] = [at |-> at, row |-> row, text |-> text, saw |-> saw]]

WatcherCalls(t) ==
    /\ announced /\ tasks[t] = NoTask
    /\ announced' = FALSE
    /\ Task(t, "file", NoRow, 0, {})
    /\ UNCHANGED <<file, notes, sealing, contents, wanted, undone>>

Reindex(t) ==
    /\ tasks[t] = NoTask
    /\ Task(t, "file", NoRow, 0, {})
    /\ UNCHANGED <<file, announced, notes, sealing, contents, wanted, undone>>

ReadFile(t) ==
    /\ tasks[t].at = "file"
    /\ Task(t, "find", NoRow, file, {})
    /\ wanted' = file
    /\ UNCHANGED <<file, announced, notes, sealing, contents, undone>>

BadFindNote(t) ==
    LET same == {r \in Stored : notes[r].label = tasks[t].text}
    IN  /\ tasks[t].at = "find"
        /\ \/ \E r \in same : Task(t, "update", r, tasks[t].text, Stored)
           \/ same = {} /\ Task(t, "create", NoRow, tasks[t].text, Stored)
        /\ UNCHANGED <<file, announced, notes, sealing, contents, wanted, undone>>

FindNote(t) ==
    /\ tasks[t].at = "find"
    /\ \/ \E r \in Stored : Task(t, "update", r, tasks[t].text, Stored)
       \/ Stored = {} /\ Task(t, "create", NoRow, tasks[t].text, Stored)
    /\ UNCHANGED <<file, announced, notes, sealing, contents, wanted, undone>>

EndTask(t) == tasks' = [tasks EXCEPT ![t] = NoTask]
Undoes(t)  == AsWanted /\ wanted # tasks[t].text

UpdateNote(t) ==
    /\ tasks[t].at = "update"
    /\ tasks[t].row \in Stored
    /\ notes' = [notes EXCEPT ![tasks[t].row] = NewNote(tasks[t].text)]
    /\ undone' = (undone \/ Undoes(t))
    /\ EndTask(t)
    /\ UNCHANGED <<file, announced, sealing, contents, wanted>>

CreateNote(t) ==
    /\ tasks[t].at = "create"
    /\ \E r \in Rows : notes[r] = NoNote /\ notes' = [notes EXCEPT ![r] = NewNote(tasks[t].text)]
    /\ undone' = (undone \/ Undoes(t) \/ Stored # tasks[t].saw)
    /\ EndTask(t)
    /\ UNCHANGED <<file, announced, sealing, contents, wanted>>

-----------------------------------------------------------------------------
(* The user's edits and deletions. *)

OpenNote(t, op) ==
    /\ tasks[t] = NoTask
    /\ \E r \in Stored : Task(t, op, r, 0, {})
    /\ UNCHANGED <<file, announced, notes, sealing, contents, wanted, undone>>

EditNote(t) ==
    /\ tasks[t].at = "edit"
    /\ tasks[t].row \in Stored
    /\ Anew
    /\ notes' = [notes EXCEPT ![tasks[t].row] = NewNote(contents + 1)]
    /\ wanted' = contents + 1
    /\ EndTask(t)
    /\ UNCHANGED <<file, announced, sealing, undone>>

DeleteNote(t) ==
    /\ tasks[t].at = "delete"
    /\ tasks[t].row \in Stored
    /\ notes' = [notes EXCEPT ![tasks[t].row].state = "gone"]
    /\ wanted' = NoRow
    /\ EndTask(t)
    /\ UNCHANGED <<file, announced, sealing, contents, undone>>

(* The row is gone, or a call is rejected. *)
TaskFails(t) ==
    /\ tasks[t] # NoTask
    /\ EndTask(t)
    /\ undone' = (undone \/ ~ AsWanted)
    /\ UNCHANGED <<file, announced, notes, sealing, contents, wanted>>

-----------------------------------------------------------------------------
(* The encryption of old rows, and the end of the process. *)

SealRead ==
    /\ sealing.at = "read"
    /\ \/ \E r \in Stored : ~ notes[r].sealed
            /\ sealing' = [at |-> "write", row |-> r, body |-> notes[r].body]
       \/ /\ \A r \in Stored : notes[r].sealed
          /\ sealing' = [Unread EXCEPT !.at = "done"]
    /\ UNCHANGED <<file, announced, notes, tasks, contents, wanted, undone>>

(* Only what is encrypted is written, as it was read. *)
SealWrite ==
    LET r == sealing.row
    IN  /\ sealing.at = "write"
        /\ r \in Stored
        /\ notes' = [notes EXCEPT ![r].body = sealing.body, ![r].sealed = TRUE]
        /\ undone' = (undone \/ notes[r].body # sealing.body)
        /\ sealing' = [Unread EXCEPT !.at = "done"]
        /\ UNCHANGED <<file, announced, tasks, contents, wanted>>

(* Also what becomes of a server whose encryption finds a row gone. *)
ProcessEnds ==
    /\ tasks' = [t \in Tasks |-> NoTask]
    /\ announced' = FALSE
    /\ sealing' = Unread
    /\ undone' = (undone \/ ~ AsWanted)
    /\ UNCHANGED <<file, notes, contents, wanted>>

-----------------------------------------------------------------------------

NotesNext ==
    \/ SaveFile
    \/ \E t \in Tasks :
        \/ WatcherCalls(t) \/ Reindex(t) \/ ReadFile(t)
        \/ FindNote(t) \/ UpdateNote(t) \/ CreateNote(t)
        \/ OpenNote(t, "edit") \/ OpenNote(t, "delete") \/ EditNote(t) \/ DeleteNote(t)
        \/ TaskFails(t)
    \/ SealRead \/ SealWrite \/ ProcessEnds

NotesSpec == NotesInit /\ [][NotesNext]_notesVars

-----------------------------------------------------------------------------
(* Properties. *)

(* With nothing under way the vault holds what was last asked of it: one row    *)
(* of the file's content or the user's edit, whole, or none after a deletion;   *)
(* unless a call wrote over a newer request or beside a row it had not seen or  *)
(* was cut short, or the file was saved before the watcher was started.  After  *)
(* the encryption at the start no row is in clear.                              *)
QuietVaultIsCurrent ==
    /\ (\A t \in Tasks : tasks[t] = NoTask) /\ ~ announced /\ ~ undone => AsWanted
    /\ sealing.at = "done" => \A r \in Stored : notes[r].sealed
=============================================================================
