--------------------------- MODULE ActivityChain ---------------------------
(***************************************************************************)
(* The activity log of one user (activityLogService.writeActivityLog):     *)
(* every entry carries the hash of the one before it.  A writer reads the  *)
(* newest entry and inserts its own in a second call; entries are ordered  *)
(* by a creation time that two of them may share.                          *)
(***************************************************************************)
EXTENDS Naturals, Sequences

CONSTANTS
    Writers,        \* calls of writeActivityLog in flight
    MaxEntries      \* bound: entries in the log

ASSUME MaxEntriesAssumption == MaxEntries \in Nat

VARIABLES
    entries,     \* the ActivityLog rows, in the order of their insertion
    writing      \* writing[w]: the entry that was read and how many there were

chainVars == <<entries, writing>>

NotWriting == [previous |-> 0, seen |-> 0, active |-> FALSE]

ChainInit == entries = << >> /\ writing = [w \in Writers |-> NotWriting]

BadNewest(n) ==
    /\ n \in DOMAIN entries
    /\ \A m \in DOMAIN entries : entries[n].createdAt <= entries[m].createdAt

(* The order of the query leaves open which of the newest entries comes first. *)
Newest(n) ==
    /\ n \in DOMAIN entries
    /\ \A m \in DOMAIN entries : entries[m].createdAt <= entries[n].createdAt

ReadPrevious(w) ==
    /\ ~writing[w].active
    /\ \E n \in 0..Len(entries) :
        /\ Newest(n) \/ (n = 0 /\ entries = << >>)
        /\ writing' = [writing EXCEPT ![w] =
                        [previous |-> n, seen |-> Len(entries), active |-> TRUE]]
    /\ UNCHANGED entries

(* The clock has a millisecond's resolution: an entry may be no newer than the last. *)
InsertEntry(w) ==
    /\ writing[w].active /\ Len(entries) < MaxEntries
    /\ \E step \in {0, 1} :
        LET last == IF entries = << >> THEN 0 ELSE entries[Len(entries)].createdAt
        IN  entries' = Append(entries, [previous |-> writing[w].previous, seen |-> writing[w].seen,
                                        createdAt |-> last + step])
    /\ writing' = [writing EXCEPT ![w] = NotWriting]

(* The insertion rejects, or the process dies. *)
LoseEntry(w) ==
    /\ writing[w].active
    /\ writing' = [writing EXCEPT ![w] = NotWriting]
    /\ UNCHANGED entries

ChainNext == \E w \in Writers : ReadPrevious(w) \/ InsertEntry(w) \/ LoseEntry(w)

ChainSpec == ChainInit /\ [][ChainNext]_chainVars

-----------------------------------------------------------------------------
(* Properties. *)

(* The log forks (two entries follow the same one) only where two writers       *)
(* overlapped or two entries share their creation time: the later writer had    *)
(* read the log before the earlier entry was in it, or could not tell which of  *)
(* two was the newest.                                                          *)
ForksComeFromOverlap ==
    \A m, n \in DOMAIN entries :
        m < n /\ entries[m].previous = entries[n].previous =>
            \/ entries[n].seen < m
            \/ \E k \in DOMAIN entries \ {entries[n].previous} :
                entries[n].previous # 0 /\ entries[k].createdAt = entries[entries[n].previous].createdAt
=============================================================================
