----------------------------- MODULE LocalModels ---------------------------
(***************************************************************************)
(* The weights of one language model on a desktop: installs write a partial *)
(* file and rename it once its checksum is right (model_manager.rs), a      *)
(* removal stops the server and deletes the file (lib.rs), and requests     *)
(* start a server that loads it (inference.rs).  Commands run concurrently  *)
(* and a file that was renamed or deleted stays open for those who write or *)
(* load it, so that what is written is told apart from its name.            *)
(* The choice among several models is left out.                             *)
(***************************************************************************)
EXTENDS Naturals

CONSTANTS
    Files,      \* bound: files that are there, or open, at a time
    Installs,   \* installations under way
    Prompts,    \* requests to the model under way
    Chunks,     \* what a download consists of
    NoFile

ASSUME FilesAssumption == NoFile \notin Files /\ Chunks \in Nat \ {0}

VARIABLES
    stored,     \* stored[f]: the chunks written to a file
    partial,    \* the file named <model>.download
    target,     \* the file named <model>.gguf
    installs,   \* installs[i]: where an installation stands, its file, what it received
    llama,      \* the llama server: "off", "starting" or "up"
    loaded,     \* the file it has loaded
    prompts,    \* prompts[p]: where a request stands
    removing,   \* a removal has stopped the server and not deleted the file yet
    mixed       \* files that one installation opened, or renamed, while another wrote them

modelVars == <<stored, partial, target, installs, llama, loaded, prompts, removing, mixed>>

Blank   == [k \in 1..Chunks |-> "hole"]
Whole(f) == \A k \in 1..Chunks : stored[f][k] = "good"
NoInstall == [at |-> "none", file |-> NoFile, received |-> 0, checksum |-> "good"]

ModelInit ==
    /\ stored = [f \in Files |-> Blank]
    /\ partial = NoFile /\ target = NoFile
    /\ installs = [i \in Installs |-> NoInstall]
    /\ llama = "off" /\ loaded = NoFile
    /\ prompts = [p \in Prompts |-> "none"]
    /\ removing = FALSE /\ mixed = {}

(* The size is looked at, not the content: the last chunk makes the size. *)
Installed == target # NoFile /\ stored[target][Chunks] # "hole"

Writing(i, f) == installs[i].at = "write" /\ installs[i].file = f
InUse == {partial, target, loaded} \cup {installs[i].file : i \in Installs}

-----------------------------------------------------------------------------
(* Installing. *)

BeginInstall(i) ==
    /\ installs[i] = NoInstall
    /\ installs' = [installs EXCEPT ![i].at = IF Installed THEN "restart" ELSE "fetch"]
    /\ UNCHANGED <<stored, partial, target, llama, loaded, prompts, removing, mixed>>

(* File::create: a file of that name is emptied, whoever has it open. *)
OpenPartial(i) ==
    /\ installs[i].at = "fetch"
    /\ \E f \in Files :
        /\ f = partial \/ (partial = NoFile /\ f \notin InUse)
        /\ partial' = f
        /\ stored' = [stored EXCEPT ![f] = Blank]
        /\ installs' = [installs EXCEPT ![i].at = "write", ![i].file = f]
        /\ mixed' = IF \E j \in Installs : Writing(j, f) THEN mixed \cup {f} ELSE mixed \ {f}
    /\ UNCHANGED <<target, llama, loaded, prompts, removing>>

WriteChunk(i, quality) ==
    LET k == installs[i].received + 1
        f == installs[i].file
    IN  /\ installs[i].at = "write" /\ k <= Chunks
        /\ stored' = [stored EXCEPT ![f][k] = quality]
        /\ installs' = [installs EXCEPT ![i].received = k,
                                        ![i].checksum = IF quality = "good" THEN @ ELSE "bad"]
        /\ UNCHANGED <<partial, target, llama, loaded, prompts, removing, mixed>>

EndInstall(i) == installs' = [installs EXCEPT ![i] = NoInstall]

BadVerified(i) == installs[i].received = Chunks

(* The checksum is of what was received. *)
Verified(i) == installs[i].received = Chunks /\ installs[i].checksum = "good"

(* By name: the file that is renamed may be another installation's. *)
Rename(i) ==
    /\ installs[i].at = "write" /\ Verified(i)
    /\ partial # NoFile
    /\ target' = partial /\ partial' = NoFile
    /\ mixed' = IF partial # installs[i].file THEN mixed \cup {partial} ELSE mixed
    /\ installs' = [installs EXCEPT ![i].at = "restart", ![i].file = NoFile]
    /\ UNCHANGED <<stored, llama, loaded, prompts, removing>>

(* A download that ends too early, grows too long or is not what it should be. *)
Discard(i) ==
    /\ installs[i].at = "write" /\ ~ Verified(i)
    /\ partial' = NoFile
    /\ EndInstall(i)
    /\ UNCHANGED <<stored, target, llama, loaded, prompts, removing, mixed>>

Stop == llama' = "off" /\ loaded' = NoFile

(* A server that has the former weights is stopped. *)
StopOldServer(i) ==
    /\ installs[i].at = "restart"
    /\ Stop
    /\ EndInstall(i)
    /\ UNCHANGED <<stored, partial, target, prompts, removing, mixed>>

(* A lost connection, or a partial file that is gone: what is there stays. *)
InstallFails(i) ==
    /\ installs[i] # NoInstall
    /\ EndInstall(i)
    /\ UNCHANGED <<stored, partial, target, llama, loaded, prompts, removing, mixed>>

-----------------------------------------------------------------------------
(* Removing, and the end of the application. *)

BeginRemoval ==
    /\ ~ removing
    /\ Stop
    /\ removing' = TRUE
    /\ UNCHANGED <<stored, partial, target, installs, prompts, mixed>>

DeleteTarget ==
    /\ removing
    /\ target' = NoFile /\ removing' = FALSE
    /\ UNCHANGED <<stored, partial, installs, llama, loaded, prompts, mixed>>

Quit ==
    /\ installs' = [i \in Installs |-> NoInstall]
    /\ prompts' = [p \in Prompts |-> "none"]
    /\ Stop
    /\ removing' = FALSE
    /\ UNCHANGED <<stored, partial, target, mixed>>

-----------------------------------------------------------------------------
(* Requests, and the refresh of the settings, which does only the first step. *)

At(p, from, to) == prompts[p] = from /\ prompts' = [prompts EXCEPT ![p] = to]

(* installed_for_agent, before the lock. *)
PreferModel(p) ==
    /\ \/ Installed /\ At(p, "none", "known")
       \/ target = NoFile /\ At(p, "none", "unknown")
       \/ target # NoFile /\ ~ Installed /\ At(p, "none", "wrongSize")
    /\ UNCHANGED <<stored, partial, target, installs, llama, loaded, removing, mixed>>

DropWrongSize(p) ==
    /\ At(p, "wrongSize", "unknown")
    /\ target' = NoFile
    /\ UNCHANGED <<stored, partial, installs, llama, loaded, removing, mixed>>

(* ensure_running, under the lock: what runs is used, whatever it has loaded. *)
EnsureRunning(p) ==
    /\ \E from \in {"known", "unknown"} :
        /\ At(p, from, "none")
        /\ llama' = IF llama = "off" /\ (from = "known" \/ Installed) THEN "starting" ELSE llama
    /\ UNCHANGED <<stored, partial, target, installs, loaded, removing, mixed>>

(* The server opens the file by name when it gets there. *)
LoadWeights ==
    /\ llama = "starting"
    /\ llama' = IF target = NoFile THEN "off" ELSE "up"
    /\ loaded' = target
    /\ UNCHANGED <<stored, partial, target, installs, prompts, removing, mixed>>

LlamaDies ==
    /\ llama # "off"
    /\ Stop
    /\ UNCHANGED <<stored, partial, target, installs, prompts, removing, mixed>>

-----------------------------------------------------------------------------

ModelNext ==
    \/ \E i \in Installs :
        \/ BeginInstall(i) \/ OpenPartial(i) \/ Rename(i) \/ Discard(i)
        \/ StopOldServer(i) \/ InstallFails(i)
        \/ \E quality \in {"good", "bad"} : WriteChunk(i, quality)
    \/ BeginRemoval \/ DeleteTarget \/ Quit
    \/ \E p \in Prompts : PreferModel(p) \/ DropWrongSize(p) \/ EnsureRunning(p)
    \/ LoadWeights \/ LlamaDies

ModelSpec == ModelInit /\ [][ModelNext]_modelVars

-----------------------------------------------------------------------------
(* Properties. *)

(* What a server has loaded, and what is installed, was downloaded whole with    *)
(* the right checksum, through failed, cut and repeated installations, removals   *)
(* and requests between; unless installations of the model overlapped on a file. *)
WeightsAreVerified ==
    \A f \in Files \ mixed : f \in {target, loaded} => Whole(f)
=============================================================================
