--------------------------- MODULE WorkspaceView ---------------------------
(***************************************************************************)
(* The workspace a browser shows (useWorkspaceData, App.tsx) and how it    *)
(* learns of changes (realtimeHub): the server announces a change to the   *)
(* sockets that are open, and the browser then reads every resource anew.  *)
(* Only the latest refresh may change the screen.  A socket that drops is  *)
(* opened again, but nothing is read then.                                 *)
(***************************************************************************)
EXTENDS Naturals

CONSTANTS
    Resources,       \* what one refresh reads, in parallel
    MaxVersion,      \* bound: versions of one resource
    MaxRefreshes,    \* bound: refreshes
    StartTries       \* attempts of the refresh that a session starts with

ASSUME ViewAssumption ==
    MaxVersion \in Nat \ {0} /\ MaxRefreshes \in Nat \ {0} /\ StartTries \in Nat \ {0}

VARIABLES
    server,          \* server[x]: the version of a resource; the first is 1
    announcing,      \* changes that are made and not yet announced
    socket,          \* "open" or "closed"
    arriving,        \* an announcement is on its way to the browser
    refreshes,       \* refreshes[i]: what the i-th refresh has read, and its attempts left
    latest,          \* refreshRequestId.current
    shown,           \* shown[x]: the version on the screen; 0 for none
    isRefreshing,
    refreshError,
    missed           \* an announcement was lost since the latest refresh began

viewVars == <<server, announcing, socket, arriving, refreshes, latest, shown,
              isRefreshing, refreshError, missed>>

Nothing == [x \in Resources |-> 0]

ViewInit ==
    /\ server = [x \in Resources |-> 1] /\ shown = Nothing
    /\ announcing = 0 /\ arriving = FALSE /\ socket = "closed"
    /\ refreshes = [i \in 1..MaxRefreshes |->
                      [got |-> Nothing, tries |-> IF i = 1 THEN StartTries ELSE 0]]
    /\ latest = 1 /\ isRefreshing = TRUE /\ refreshError = FALSE /\ missed = FALSE

Running(i) == refreshes[i].tries > 0
screen == <<shown, isRefreshing, refreshError>>
wire == <<server, announcing, socket, arriving, missed>>

-----------------------------------------------------------------------------
(* The server: a change is written, then announced to the open sockets. *)

Change(x) ==
    /\ server[x] < MaxVersion
    /\ server' = [server EXCEPT ![x] = @ + 1] /\ announcing' = announcing + 1
    /\ UNCHANGED <<socket, arriving, refreshes, latest, screen, missed>>

Announce ==
    /\ announcing > 0 /\ announcing' = announcing - 1
    /\ IF socket = "open"
       THEN arriving' = TRUE /\ UNCHANGED missed
       ELSE missed' = TRUE /\ UNCHANGED arriving
    /\ UNCHANGED <<server, socket, refreshes, latest, screen>>

(* The web process dies between the two. *)
ServerDies ==
    /\ announcing > 0 /\ announcing' = 0 /\ missed' = TRUE
    /\ socket' = "closed" /\ arriving' = FALSE
    /\ UNCHANGED <<server, refreshes, latest, screen>>

SocketOpens ==
    /\ socket = "closed" /\ socket' = "open"
    /\ UNCHANGED <<server, announcing, arriving, refreshes, latest, screen, missed>>

SocketDrops ==
    /\ socket = "open" /\ socket' = "closed"
    /\ arriving' = FALSE /\ missed' = (missed \/ arriving)
    /\ UNCHANGED <<server, announcing, refreshes, latest, screen>>

-----------------------------------------------------------------------------
(* The browser: refresh, and who calls it. *)

BeginRefresh(tries) ==
    /\ latest < MaxRefreshes /\ latest' = latest + 1
    /\ refreshes' = [refreshes EXCEPT ![latest + 1] = [got |-> Nothing, tries |-> tries]]
    /\ isRefreshing' = TRUE /\ refreshError' = FALSE /\ missed' = FALSE
    /\ UNCHANGED <<server, announcing, shown>>

(* socket.onmessage; one refresh makes up for all announcements before it. *)
Hear ==
    /\ arriving /\ arriving' = FALSE
    /\ BeginRefresh(1) /\ UNCHANGED socket

(* After an action of the user. *)
RefreshNow == BeginRefresh(1) /\ UNCHANGED <<socket, arriving>>

(* A new access token: the effect closes the socket and starts over. *)
SessionRenewed ==
    /\ BeginRefresh(StartTries)
    /\ socket' = "closed" /\ arriving' = FALSE

(* The server answers one of the parallel requests. *)
Read(i, x) ==
    /\ Running(i) /\ refreshes[i].got[x] = 0
    /\ refreshes' = [refreshes EXCEPT ![i].got[x] = server[x]]
    /\ UNCHANGED <<wire, latest, screen>>

BadFinishes(i) == TRUE

(* A refresh that is not the latest any more changes nothing. *)
Finishes(i) == i = latest

Show(i) ==
    /\ Running(i) /\ \A x \in Resources : refreshes[i].got[x] > 0
    /\ refreshes' = [refreshes EXCEPT ![i] = [got |-> Nothing, tries |-> 0]]
    /\ IF Finishes(i)
       THEN shown' = refreshes[i].got /\ isRefreshing' = FALSE /\ UNCHANGED refreshError
       ELSE UNCHANGED screen
    /\ UNCHANGED <<wire, latest>>

(* One of the requests rejects: runWithRetry tries them all again, or gives up. *)
Fail(i) ==
    /\ Running(i)
    /\ refreshes' = [refreshes EXCEPT ![i] = [got |-> Nothing, tries |-> @.tries - 1]]
    /\ IF refreshes[i].tries = 1 /\ Finishes(i)
       THEN refreshError' = TRUE /\ isRefreshing' = FALSE /\ UNCHANGED shown
       ELSE UNCHANGED screen
    /\ UNCHANGED <<wire, latest>>

ViewNext ==
    \/ \E x \in Resources : Change(x)
    \/ Announce \/ ServerDies \/ SocketOpens \/ SocketDrops
    \/ Hear \/ RefreshNow \/ SessionRenewed
    \/ \E i \in 1..MaxRefreshes : Show(i) \/ Fail(i) \/ \E x \in Resources : Read(i, x)

ViewSpec == ViewInit /\ [][ViewNext]_viewVars

-----------------------------------------------------------------------------
(* Properties. *)

(* When the spinner is gone, no error is shown and no announcement is under     *)
(* way, the screen shows every resource as the server has it, whatever order    *)
(* the answers of overlapping refreshes came in; but for a change whose         *)
(* announcement found no open socket, since nothing is read on a reconnection.  *)
IdleViewIsCurrent ==
    ~isRefreshing /\ ~refreshError /\ announcing = 0 /\ ~arriving /\ ~missed
        => shown = server
=============================================================================
