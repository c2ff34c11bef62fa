------------------------------ MODULE SshConn ------------------------------
(***************************************************************************)
(* One SSH connection of wavesrv (conncontroller.go, connreconnect.go): the *)
(* calls of Connect and Close, the goroutine that waits for each client to *)
(* end, the loops that reconnect, and the install of the helper that may   *)
(* outlive the Connect it began in.                                        *)
(*                                                                         *)
(* lifecycleLock is held by Close, Connect and handleClientDisconnect from *)
(* beginning to end; conn.lock only for single reads and writes.  A call   *)
(* of Connect has a number, and so have the client it dials, its monitor,  *)
(* its waiter and its install; 0 is nil.                                   *)
(***************************************************************************)
EXTENDS Naturals, FiniteSets

CONSTANTS
  MaxConnects,  \* calls of Connect, by users and by loops
  MaxLoops,     \* reconnect loops ever started
  MaxCloses,    \* calls of Close
  Installs      \* the calls of Connect that find no helper and install it

SshConnAssumption ==
  MaxConnects \in Nat /\ MaxLoops \in Nat /\ MaxCloses \in Nat /\ Installs \subseteq 1 .. MaxConnects

VARIABLES
  status, client, monitor,
  controller,   \* ConnController: the client on which the connserver session runs
  connectAbort, \* the call of Connect whose abort function is set
  reconnect,    \* the loop that may reconnect
  alive,        \* clients whose transport is up
  closing,      \* clients that are being closed in the background
  connects,     \* the calls of Connect
  waiters,      \* waitForDisconnect, one for each client
  loops,        \* runAutoReconnect
  close,        \* the call of Close, one at a time
  installs, installCancel, wshInstalling,
  starts,       \* how many connservers were started on a client
  down          \* history: the user closed the connection and did not connect since

connVars == <<status, client, monitor, controller, connectAbort, reconnect>>
netVars == <<alive, closing>>
helperVars == <<installs, installCancel, wshInstalling, starts>>
vars == <<connVars, netVars, connects, waiters, loops, close, helperVars, down>>

Ids == 1 .. MaxConnects
Loops == 1 .. MaxLoops
User == 0

Statuses == {"init", "connecting", "connected", "disconnected", "error"}
Busy == {"connecting", "connected"}

CallPcs == {"none", "lock", "arm", "dial", "setup", "await", "start", "settle", "leave", "done"}
Call == [pc : CallPcs, by : Loops \cup {User}, aborted : BOOLEAN, ok : BOOLEAN]
LoopPcs == {"none", "wait", "connect", "end", "done"}
Loop == [pc : LoopPcs, canceled : BOOLEAN, call : Ids \cup {0}]
Closer == [pc : {"idle", "clear", "abort", "lock"}, loop : Loops \cup {0}, was : BOOLEAN, left : 0 .. MaxCloses]
InstallPcs == {"none", "copy", "claim", "poll", "start", "set", "done"}
Install == [pc : InstallPcs, canceled : BOOLEAN, claimed : {"none", "connect", "install"}, ok : BOOLEAN]

TypeOK ==
  /\ status \in Statuses
  /\ {client, monitor, controller, connectAbort, installCancel} \subseteq Ids \cup {0}
  /\ reconnect \in Loops \cup {0}
  /\ alive \subseteq Ids /\ closing \subseteq Ids
  /\ connects \in [Ids -> Call]
  /\ waiters \in [Ids -> {"none", "wait", "decide", "done"}]
  /\ loops \in [Loops -> Loop]
  /\ close \in Closer
  /\ installs \in [Ids -> Install]
  /\ wshInstalling \in BOOLEAN /\ down \in BOOLEAN
  /\ starts \in [Ids -> 0 .. 2]

Init ==
  /\ status = "init" /\ client = 0 /\ monitor = 0 /\ controller = 0 /\ connectAbort = 0 /\ reconnect = 0
  /\ alive = {} /\ closing = {}
  /\ connects = [a \in Ids |-> [pc |-> "none", by |-> User, aborted |-> FALSE, ok |-> FALSE]]
  /\ waiters = [c \in Ids |-> "none"]
  /\ loops = [l \in Loops |-> [pc |-> "none", canceled |-> FALSE, call |-> 0]]
  /\ close = [pc |-> "idle", loop |-> 0, was |-> FALSE, left |-> MaxCloses]
  /\ installs = [a \in Ids |-> [pc |-> "none", canceled |-> FALSE, claimed |-> "none", ok |-> FALSE]]
  /\ installCancel = 0 /\ wshInstalling = FALSE
  /\ starts = [c \in Ids |-> 0]
  /\ down = FALSE

-----------------------------------------------------------------------------
Holding == {"arm", "dial", "setup", "await", "start", "settle", "leave"}

(* Close and handleClientDisconnect take lifecycleLock and release it in one *)
(* action, so it is only ever seen held by a call of Connect.               *)
LifecycleFree == \A a \in Ids : connects[a].pc \notin Holding

(* The next call of Connect is by a user or by a loop.                      *)
Calls(a, by) ==
  /\ connects[a].pc = "none" /\ \A b \in Ids : b < a => connects[b].pc # "none"
  /\ connects' = [connects EXCEPT ![a].pc = "lock", ![a].by = by]

Moves(a, pc) == connects' = [connects EXCEPT ![a].pc = pc]

(* Mutant: the attempt's context does not derive from the loop's.           *)
CutMutant(a) == connects[a].aborted

(* The context of the dial: a user's abort and the loop's cancel end it.    *)
Cut(a) ==
  \/ connects[a].aborted
  \/ connects[a].by # User /\ loops[connects[a].by].canceled

(* closeInternal_withlifecyclelock: the handles are detached, and closed in *)
(* the background.                                                          *)
Detach ==
  /\ client' = 0 /\ monitor' = 0 /\ controller' = 0
  /\ installs' = [a \in Ids |-> IF a = installCancel THEN [installs[a] EXCEPT !.canceled = TRUE] ELSE installs[a]]
  /\ installCancel' = 0 /\ wshInstalling' = FALSE
  /\ closing' = closing \cup ({client} \ {0})

-----------------------------------------------------------------------------
(* Connect                                                                 *)

UserConnects ==
  /\ \E a \in Ids : Calls(a, User)
  /\ down' = FALSE
  /\ UNCHANGED <<connVars, netVars, waiters, loops, close, helperVars>>

ConnectBegins(a) ==
  /\ connects[a].pc = "lock" /\ LifecycleFree
  /\ \/ status \in Busy /\ Moves(a, "done") /\ UNCHANGED status
     \/ status \notin Busy /\ Moves(a, "arm") /\ status' = "connecting"
  /\ UNCHANGED <<client, monitor, controller, connectAbort, reconnect, netVars, waiters, loops, close, helperVars, down>>

ConnectArms(a) ==
  /\ connects[a].pc = "arm"
  /\ connectAbort' = a
  /\ Moves(a, "dial")
  /\ UNCHANGED <<status, client, monitor, controller, reconnect, netVars, waiters, loops, close, helperVars, down>>

(* ConnectToClient: a handshake that ends after its context did is refused. *)
DialSucceeds(a) ==
  /\ connects[a].pc = "dial" /\ ~Cut(a)
  /\ Moves(a, "setup")
  /\ client' = a /\ monitor' = a
  /\ alive' = alive \cup {a}
  /\ waiters' = [waiters EXCEPT ![a] = "wait"]
  /\ UNCHANGED <<status, controller, connectAbort, reconnect, closing, loops, close, helperVars, down>>

DialFails(a) ==
  /\ connects[a].pc = "dial"
  /\ Moves(a, "settle")
  /\ UNCHANGED <<connVars, netVars, waiters, loops, close, helperVars, down>>

(* The rest of connectInternal does not fail: without the helper the        *)
(* connection is of use too.                                                *)
SetUp(a) == connects' = [connects EXCEPT ![a].pc = "settle", ![a].ok = TRUE]

(* StartConnServer on client c, as far as it comes.                         *)
StartsHelper(c) ==
  \/ c \in alive \ closing /\ controller' = c /\ starts' = [starts EXCEPT ![c] = @ + 1]
  \/ UNCHANGED <<controller, starts>>

(* tryEnableWsh where the helper is up to date, unwanted, or cannot start.  *)
SetUpAtOnce(a) ==
  /\ connects[a].pc = "setup"
  /\ SetUp(a)
  /\ StartsHelper(client)
  /\ UNCHANGED <<status, client, monitor, connectAbort, reconnect, netVars, waiters, loops, close,
                 installs, installCancel, wshInstalling, down>>

(* installWshWithHandoff.                                                   *)
BeginInstall(a) ==
  /\ connects[a].pc = "setup" /\ a \in Installs /\ ~wshInstalling
  /\ Moves(a, "await")
  /\ wshInstalling' = TRUE /\ installCancel' = a
  /\ installs' = [installs EXCEPT ![a].pc = "copy"]
  /\ UNCHANGED <<connVars, netVars, waiters, loops, close, starts, down>>

InstallInTime(a) ==
  /\ connects[a].pc = "await" /\ installs[a].claimed = "install"
  /\ IF installs[a].ok THEN Moves(a, "start") ELSE SetUp(a)
  /\ UNCHANGED <<connVars, netVars, waiters, loops, close, helperVars, down>>

HandOff(a) ==
  /\ connects[a].pc = "await" /\ installs[a].claimed = "none"
  /\ installs' = [installs EXCEPT ![a].claimed = "connect"]
  /\ SetUp(a)
  /\ UNCHANGED <<connVars, netVars, waiters, loops, close, installCancel, wshInstalling, starts, down>>

StartAfterInstall(a) ==
  /\ connects[a].pc = "start"
  /\ SetUp(a)
  /\ StartsHelper(client)
  /\ UNCHANGED <<status, client, monitor, connectAbort, reconnect, netVars, waiters, loops, close,
                 installs, installCancel, wshInstalling, down>>

(* No connection is made in the 250 ms between two looks of                 *)
(* waitForConnectedAfterHandoff, nor between two steps after it: the        *)
(* install of an earlier client is past them.                               *)
PollsInTime(a) == \A i \in Ids \ {a} : installs[i].pc \notin {"poll", "set"}

ConnectSucceeds(a) ==
  /\ connects[a].pc = "settle" /\ connects[a].ok /\ ~connects[a].aborted
  /\ PollsInTime(a)
  /\ status' = "connected"
  /\ Moves(a, "leave")
  /\ UNCHANGED <<client, monitor, controller, connectAbort, reconnect, netVars, waiters, loops, close, helperVars, down>>

ConnectFails(a) ==
  /\ connects[a].pc = "settle" /\ (connects[a].aborted \/ ~connects[a].ok)
  /\ status' = IF connects[a].aborted THEN "disconnected" ELSE "error"
  /\ connects' = [connects EXCEPT ![a].pc = "leave", ![a].ok = FALSE]
  /\ Detach
  /\ UNCHANGED <<connectAbort, reconnect, alive, waiters, loops, close, starts, down>>

ConnectReturns(a) ==
  /\ connects[a].pc = "leave"
  /\ Moves(a, "done")
  /\ connectAbort' = 0
  /\ UNCHANGED <<status, client, monitor, controller, reconnect, netVars, waiters, loops, close, helperVars, down>>

-----------------------------------------------------------------------------
(* startBackgroundWshInstall                                               *)

InstallSteps(a, pc) == installs' = [installs EXCEPT ![a].pc = pc]

(* Its deferred reset clears the flag of a later install too.               *)
InstallReturns(a) == InstallSteps(a, "done") /\ wshInstalling' = FALSE

CopyEnds(a) ==
  /\ installs[a].pc = "copy"
  /\ \E ok \in BOOLEAN :
       /\ ok => ~installs[a].canceled /\ a \in alive
       /\ installs' = [installs EXCEPT ![a].pc = "claim", ![a].ok = ok]
  /\ UNCHANGED <<connVars, netVars, connects, waiters, loops, close, installCancel, wshInstalling, starts, down>>

(* Mutant: an install that was waited for goes on to start the helper.      *)
InstallClaimsMutant(a) ==
  /\ installs[a].pc = "claim"
  /\ installs' = [installs EXCEPT ![a].pc = IF installs[a].ok THEN "poll" ELSE "done",
                                  ![a].claimed = IF @ = "none" THEN "install" ELSE @]
  /\ UNCHANGED wshInstalling
  /\ UNCHANGED <<connVars, netVars, connects, waiters, loops, close, installCancel, starts, down>>

InstallClaims(a) ==
  /\ installs[a].pc = "claim"
  /\ \/ /\ installs[a].claimed = "none"
        /\ installs' = [installs EXCEPT ![a].pc = "done", ![a].claimed = "install"]
        /\ wshInstalling' = FALSE
     \/ installs[a].claimed = "connect" /\ ~installs[a].ok /\ InstallReturns(a)
     \/ installs[a].claimed = "connect" /\ installs[a].ok /\ InstallSteps(a, "poll") /\ UNCHANGED wshInstalling
  /\ UNCHANGED <<connVars, netVars, connects, waiters, loops, close, installCancel, starts, down>>

InstallPolls(a) ==
  /\ installs[a].pc = "poll"
  /\ \/ status = "connected" /\ client # 0 /\ InstallSteps(a, "start") /\ UNCHANGED wshInstalling
     \/ status # "connected" /\ (status # "connecting" \/ installs[a].canceled) /\ InstallReturns(a)
  /\ UNCHANGED <<connVars, netVars, connects, waiters, loops, close, installCancel, starts, down>>

(* StartConnServer, on the client that the poll saw: it follows at once.    *)
(* The session is stored without lifecycleLock, when the client it runs on  *)
(* may just have been detached.                                             *)
InstallStarts(a) ==
  /\ installs[a].pc = "start"
  /\ \/ /\ a \in alive \ closing
        /\ starts' = [starts EXCEPT ![a] = @ + 1]
        /\ InstallSteps(a, "set")
        /\ UNCHANGED wshInstalling
     \/ InstallReturns(a) /\ UNCHANGED starts
  /\ UNCHANGED <<connVars, netVars, connects, waiters, loops, close, installCancel, down>>

InstallSets(a) ==
  /\ installs[a].pc = "set"
  /\ controller' = a
  /\ InstallReturns(a)
  /\ UNCHANGED <<status, client, monitor, connectAbort, reconnect, netVars, connects, waiters, loops, close,
                 installCancel, starts, down>>

(* clearConnController: the connserver of the current controller ended.     *)
HelperEnds ==
  /\ controller # 0 /\ controller \notin alive
  /\ controller' = 0
  /\ UNCHANGED <<status, client, monitor, connectAbort, reconnect, netVars, connects, waiters, loops, close, helperVars, down>>

-----------------------------------------------------------------------------
(* The end of a client: the link broke, the host hung up, or the monitor    *)
(* closed it because it did not answer (closeUnresponsiveClient).           *)
ClientEnds(c) ==
  /\ c \in alive
  /\ alive' = alive \ {c}
  /\ UNCHANGED <<connVars, closing, connects, waiters, loops, close, helperVars, down>>

ClientCloses(c) ==
  /\ c \in closing
  /\ alive' = alive \ {c} /\ closing' = closing \ {c}
  /\ UNCHANGED <<connVars, connects, waiters, loops, close, helperVars, down>>

(* handleClientDisconnect.                                                  *)
ClientLost(c) ==
  /\ waiters[c] = "wait" /\ c \notin alive /\ LifecycleFree
  /\ \/ /\ client # c
        /\ waiters' = [waiters EXCEPT ![c] = "done"]
        /\ UNCHANGED <<status, client, monitor, controller, closing, installs, installCancel, wshInstalling>>
     \/ /\ client = c
        /\ waiters' = [waiters EXCEPT ![c] = "decide"]
        /\ status' = IF status = "error" THEN status ELSE "disconnected"
        /\ Detach
  /\ UNCHANGED <<connectAbort, reconnect, alive, connects, loops, close, starts, down>>

(* maybeStartAutoReconnect, where the policy may say no.                    *)
MaybeReconnect(c) ==
  /\ waiters[c] = "decide"
  /\ waiters' = [waiters EXCEPT ![c] = "done"]
  /\ \/ UNCHANGED <<reconnect, loops>>
     \/ /\ reconnect = 0
        /\ \E l \in Loops :
             /\ loops[l].pc = "none" /\ \A k \in Loops : k < l => loops[k].pc # "none"
             /\ reconnect' = l
             /\ loops' = [loops EXCEPT ![l].pc = "wait"]
  /\ UNCHANGED <<status, client, monitor, controller, connectAbort, netVars, connects, close, helperVars, down>>

-----------------------------------------------------------------------------
(* runAutoReconnect                                                        *)

LoopSteps(l, pc) == loops' = [loops EXCEPT ![l].pc = pc]

(* A timer or a kick wakes it even where it was canceled just before.       *)
LoopTries(l) ==
  /\ loops[l].pc = "wait" /\ reconnect = l /\ status \notin Busy
  /\ \E a \in Ids :
       /\ Calls(a, l)
       /\ loops' = [loops EXCEPT ![l].pc = "connect", ![l].call = a]
  /\ UNCHANGED <<connVars, netVars, waiters, close, helperVars, down>>

(* It was canceled or superseded, somebody else connects, or the policy     *)
(* says that nobody needs the connection.                                   *)
LoopStops(l) ==
  /\ loops[l].pc = "wait"
  /\ LoopSteps(l, "end")
  /\ UNCHANGED <<connVars, netVars, connects, waiters, close, helperVars, down>>

LoopHears(l) ==
  /\ loops[l].pc = "connect" /\ connects[loops[l].call].pc = "done"
  /\ \/ LoopSteps(l, "end")
     \/ /\ ~connects[loops[l].call].ok /\ ~loops[l].canceled /\ status \notin Busy
        /\ LoopSteps(l, "wait")
  /\ UNCHANGED <<connVars, netVars, connects, waiters, close, helperVars, down>>

LoopEnds(l) ==
  /\ loops[l].pc = "end"
  /\ loops' = [loops EXCEPT ![l].pc = "done", ![l].canceled = TRUE]
  /\ reconnect' = IF reconnect = l THEN 0 ELSE reconnect
  /\ UNCHANGED <<status, client, monitor, controller, connectAbort, netVars, connects, waiters, close, helperVars, down>>

-----------------------------------------------------------------------------
(* Close                                                                   *)

(* stopAutoReconnect: cancel the loop, then forget it.                      *)
CloseBegins ==
  /\ close.pc = "idle" /\ close.left > 0
  /\ close' = [close EXCEPT !.pc = IF reconnect = 0 THEN "abort" ELSE "clear", !.loop = reconnect,
                            !.was = FALSE, !.left = @ - 1]
  /\ loops' = [l \in Loops |-> IF l = reconnect THEN [loops[l] EXCEPT !.canceled = TRUE] ELSE loops[l]]
  /\ UNCHANGED <<connVars, netVars, connects, waiters, helperVars, down>>

CloseClears ==
  /\ close.pc = "clear"
  /\ close' = [close EXCEPT !.pc = "abort", !.was = reconnect = close.loop]
  /\ reconnect' = IF reconnect = close.loop THEN 0 ELSE reconnect
  /\ UNCHANGED <<status, client, monitor, controller, connectAbort, netVars, connects, waiters, loops, helperVars, down>>

(* abortConnectAttempt; once the client is dialed, its abort closes it.     *)
CloseAborts ==
  /\ close.pc = "abort"
  /\ close' = [close EXCEPT !.pc = "lock"]
  /\ connects' = [a \in Ids |-> IF a = connectAbort THEN [connects[a] EXCEPT !.aborted = TRUE] ELSE connects[a]]
  /\ closing' = closing \cup {a \in Ids : a = connectAbort /\ connects[a].pc \in {"setup", "await", "start"}}
  /\ UNCHANGED <<connVars, alive, waiters, loops, helperVars, down>>

(* Nobody but the user can bring the connection up again: no call of his    *)
(* waits, and no disconnect is being handled.                               *)
LastWord ==
  /\ reconnect = 0
  /\ \A a \in Ids : connects[a].pc = "lock" => connects[a].by # User
  /\ \A c \in Ids : waiters[c] # "decide"

CloseEnds ==
  /\ close.pc = "lock" /\ LifecycleFree
  /\ status' = IF status \in Busy \/ close.was THEN "disconnected" ELSE status
  /\ Detach
  /\ close' = [close EXCEPT !.pc = "idle", !.loop = 0, !.was = FALSE]
  /\ down' = LastWord
  /\ UNCHANGED <<connectAbort, reconnect, alive, connects, waiters, loops, starts>>

-----------------------------------------------------------------------------
(* The connection may stay up, or down; a loop may wait for the next call.  *)
AtRest ==
  /\ \A a \in Ids : connects[a].pc \in {"none", "done"} /\ installs[a].pc \in {"none", "done"}
  /\ \A c \in Ids : waiters[c] \in {"none", "done"} \/ (waiters[c] = "wait" /\ c \in alive)
  /\ \A l \in Loops : loops[l].pc \in {"none", "wait", "done"}
  /\ close.pc = "idle"
  /\ UNCHANGED vars

Next ==
  \/ UserConnects \/ HelperEnds
  \/ \E a \in Ids :
       \/ ConnectBegins(a) \/ ConnectArms(a) \/ DialSucceeds(a) \/ DialFails(a) \/ SetUpAtOnce(a)
       \/ BeginInstall(a) \/ InstallInTime(a) \/ HandOff(a) \/ StartAfterInstall(a)
       \/ ConnectSucceeds(a) \/ ConnectFails(a) \/ ConnectReturns(a)
       \/ CopyEnds(a) \/ InstallClaims(a) \/ InstallPolls(a) \/ InstallStarts(a) \/ InstallSets(a)
       \/ ClientEnds(a) \/ ClientCloses(a) \/ ClientLost(a) \/ MaybeReconnect(a)
  \/ \E l \in Loops : LoopTries(l) \/ LoopStops(l) \/ LoopHears(l) \/ LoopEnds(l)
  \/ CloseBegins \/ CloseClears \/ CloseAborts \/ CloseEnds
  \/ AtRest

Spec == Init /\ [][Next]_vars

-----------------------------------------------------------------------------
(* The install and the call of Connect that waits for it do not both start  *)
(* the helper.                                                              *)
HelperStartedOnce == \A c \in Ids : starts[c] <= 1

(* Between calls the connection is up exactly if it has a client; the       *)
(* monitor is that client's, every other client that is up is being closed, *)
(* and no client gets two helpers.                                          *)
HandlesBelong ==
  /\ LifecycleFree => (status = "connected" <=> client # 0) /\ connectAbort = 0
  /\ monitor = client
  /\ alive \subseteq closing \cup {client}
  /\ HelperStartedOnce

(* After the user closed the connection, and nothing of his was under way,  *)
(* it does not come back by itself: neither a call of Connect nor a loop    *)
(* nor a disconnect handled late brings it up.                              *)
ClosedStaysClosed == down => status # "connected" /\ reconnect = 0
=============================================================================
