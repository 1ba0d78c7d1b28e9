--------------------------- MODULE OneTimeHandoff ---------------------------
(***************************************************************************)
(* What an approved hand-off promises, without requests, rows or approval  *)
(* ids: content is proposed once under a key, is claimed only after the    *)
(* user has agreed to exactly that content, and is then opened once or     *)
(* never.  A key that was closed is never claimed again.                   *)
(***************************************************************************)
CONSTANTS Keys, Contents, None

VARIABLES
    phase,    \* phase[k]: where the hand-off of key k is in its life
    content,  \* content[k]: what was proposed under k
    agreed    \* the contents the user has agreed to

vars == <<phase, content, agreed>>

Phases == {"absent", "offered", "claimed", "opened", "closed"}

Init ==
    /\ phase = [k \in Keys |-> "absent"]
    /\ content = [k \in Keys |-> None]
    /\ agreed = {}

Propose(k) ==
    /\ phase[k] = "absent" /\ phase'[k] = "offered"
    /\ content'[k] \in Contents

Claim(k) ==
    /\ phase[k] = "offered" /\ phase'[k] = "claimed"
    /\ content[k] \in agreed /\ content'[k] = content[k]

Open(k) ==
    /\ phase[k] = "claimed" /\ phase'[k] = "opened"
    /\ content'[k] = content[k]

Close(k) ==
    /\ phase[k] \in {"offered", "claimed"} /\ phase'[k] = "closed"
    /\ content'[k] = content[k]

Stay(k) == phase'[k] = phase[k] /\ content'[k] = content[k]

(* A crash may close several hand-offs in one step. *)
Next ==
    /\ phase' \in [Keys -> Phases] /\ content' \in [Keys -> Contents \cup {None}]
    /\ \A k \in Keys : Propose(k) \/ Claim(k) \/ Open(k) \/ Close(k) \/ Stay(k)
    /\ agreed \subseteq agreed' /\ agreed' \subseteq Contents

Spec == Init /\ [][Next]_vars
=============================================================================
