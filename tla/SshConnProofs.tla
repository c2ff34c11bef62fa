---------------------------- MODULE SshConnProofs ----------------------------
(***************************************************************************)
(* Proofs about SshConn.tla, for every number of calls of Connect and Close, *)
(* of reconnect loops and of installs.                                    *)
(***************************************************************************)
EXTENDS SshConn, TLAPS

Dialed == {"setup", "await", "start"}

(* lifecycleLock has one holder, and how far it came says what the status *)
(* and the handles are; while it is free they agree.                      *)
OneHolder == \A a, b \in Ids : connects[a].pc \in Holding /\ connects[b].pc \in Holding => a = b

Held(a) ==
  /\ connects[a].pc \in {"arm", "dial"} => status = "connecting" /\ client = 0
  /\ connects[a].pc \in Dialed => status = "connecting" /\ client = a
  /\ connects[a].pc = "settle" => status = "connecting" /\ client = IF connects[a].ok THEN a ELSE 0
  /\ connects[a].pc = "leave" => status # "connecting" /\ (status = "connected" <=> client # 0)

Released == LifecycleFree => status # "connecting" /\ (status = "connected" <=> client # 0) /\ connectAbort = 0

Handles ==
  /\ OneHolder /\ Released /\ \A a \in Ids : Held(a)
  /\ monitor = client
  /\ alive \subseteq closing \cup {client}

(* A call that has no install yet.                                        *)
Early == {"none", "lock", "arm", "dial", "setup"}

(* Who starts the helper of a call: the call itself until it hands over, its *)
(* install after that.                                                    *)
Helper(a) ==
  /\ connects[a].pc \in Early => installs[a].pc = "none" /\ starts[a] = 0
  /\ connects[a].pc \in {"await", "start"} => installs[a].claimed # "connect" /\ starts[a] = 0
  /\ connects[a].pc = "await" => installs[a].pc # "none"
  /\ installs[a].pc = "none" => installs[a].claimed = "none"
  /\ installs[a].pc \in {"copy", "claim"} /\ installs[a].claimed = "none" => connects[a].pc = "await"
  /\ installs[a].pc \in {"copy", "claim"} => installs[a].claimed # "install" /\ starts[a] = 0
  /\ installs[a].pc \in {"poll", "start", "set"} => installs[a].claimed = "connect"
  /\ installs[a].pc \in {"poll", "start"} => starts[a] = 0
  /\ starts[a] <= 1

Helpers == \A a \in Ids : Helper(a)

(* A loop that Connect may serve is the one installed, or was canceled; a *)
(* call of a loop is the one the loop waits for.                          *)
Looped ==
  /\ \A l \in Loops : loops[l].pc \in {"wait", "connect"} => loops[l].canceled \/ reconnect = l
  /\ \A a \in Ids : connects[a].by # User /\ connects[a].pc \notin {"none", "done"} =>
       loops[connects[a].by].pc = "connect" /\ loops[connects[a].by].call = a
  /\ close.pc = "clear" => close.loop \in Loops /\ loops[close.loop].canceled
  /\ \A a \in Ids : connects[a].ok => connects[a].pc \in {"settle", "leave", "done"}

(* While the connection is down, what may still call Connect was canceled *)
(* before it could dial.                                                  *)
IsDown ==
  /\ status # "connected" /\ client = 0 /\ reconnect = 0
  /\ \A c \in Ids : waiters[c] # "decide"
  /\ \A a \in Ids :
       /\ connects[a].pc \in {"lock", "arm", "dial"} => connects[a].by # User
       /\ connects[a].pc \notin Dialed
       /\ connects[a].pc \in {"settle", "leave"} => ~connects[a].ok

StaysDown == down => IsDown

Inv == TypeOK /\ Handles /\ Helpers /\ Looped /\ StaysDown

-----------------------------------------------------------------------------
(* The types.                                                             *)

(* Changing fields of one record of a function leaves it a function of such *)
(* records.                                                               *)
LEMMA CallUpdates ==
  ASSUME NEW f \in [Ids -> Call], NEW a \in Ids, NEW pc \in CallPcs
  PROVE  /\ [f EXCEPT ![a].pc = pc] \in [Ids -> Call]
         /\ \A by \in Loops \cup {User} : [f EXCEPT ![a].pc = pc, ![a].by = by] \in [Ids -> Call]
         /\ \A ok \in BOOLEAN : [f EXCEPT ![a].pc = pc, ![a].ok = ok] \in [Ids -> Call]
  BY DEF Call

(* The same of installs.                                                  *)
LEMMA InstallUpdates ==
  ASSUME NEW f \in [Ids -> Install], NEW a \in Ids, NEW pc \in InstallPcs
  PROVE  /\ [f EXCEPT ![a].pc = pc] \in [Ids -> Install]
         /\ [f EXCEPT ![a].claimed = "connect"] \in [Ids -> Install]
         /\ [f EXCEPT ![a].pc = pc, ![a].claimed = "install"] \in [Ids -> Install]
         /\ \A ok \in BOOLEAN : [f EXCEPT ![a].pc = pc, ![a].ok = ok] \in [Ids -> Install]
<1>1. f[a] \in Install
  OBVIOUS
<1>2. /\ [f[a] EXCEPT !.pc = pc] \in Install
      /\ [f[a] EXCEPT !.claimed = "connect"] \in Install
  BY <1>1 DEF Install
<1>3. [f[a] EXCEPT !.pc = pc, !.claimed = "install"] \in Install
  BY <1>1 DEF Install
<1>4. \A ok \in BOOLEAN : [f[a] EXCEPT !.pc = pc, !.ok = ok] \in Install
  BY <1>1 DEF Install
<1>5. /\ [f EXCEPT ![a].pc = pc] \in [Ids -> Install]
      /\ [f EXCEPT ![a].claimed = "connect"] \in [Ids -> Install]
  BY <1>2
<1>6. [f EXCEPT ![a].pc = pc, ![a].claimed = "install"] \in [Ids -> Install]
  BY <1>3
<1>7. \A ok \in BOOLEAN : [f EXCEPT ![a].pc = pc, ![a].ok = ok] \in [Ids -> Install]
  BY <1>4
<1> QED
  BY <1>5, <1>6, <1>7

(* The same of loops.                                                     *)
LEMMA LoopUpdates ==
  ASSUME NEW f \in [Loops -> Loop], NEW l \in Loops, NEW pc \in LoopPcs
  PROVE  /\ [f EXCEPT ![l].pc = pc] \in [Loops -> Loop]
         /\ [f EXCEPT ![l].pc = pc, ![l].canceled = TRUE] \in [Loops -> Loop]
         /\ \A a \in Ids : [f EXCEPT ![l].pc = pc, ![l].call = a] \in [Loops -> Loop]
  BY DEF Loop

(* What closeInternal leaves.                                             *)
LEMMA DetachType ==
  ASSUME TypeOK, Detach
  PROVE  /\ {client', monitor', controller', installCancel'} \subseteq Ids \cup {0}
         /\ installs' \in [Ids -> Install] /\ closing' \subseteq Ids /\ wshInstalling' \in BOOLEAN
<1>1. \A a \in Ids : [installs[a] EXCEPT !.canceled = TRUE] \in Install
  BY DEF TypeOK, Install
<1>2. installs' \in [Ids -> Install]
  BY <1>1 DEF TypeOK, Detach
<1> QED
  BY <1>2 DEF TypeOK, Detach

(* A call that begins is a call.                                          *)
LEMMA CallsType ==
  ASSUME TypeOK, NEW a \in Ids, NEW by \in Loops \cup {User}, Calls(a, by)
  PROVE  connects' \in [Ids -> Call]
<1>1. "lock" \in CallPcs
  BY DEF CallPcs
<1> QED
  BY <1>1, CallUpdates DEF TypeOK, Calls

(* A call that moves on is a call.                                        *)
LEMMA MovesType ==
  ASSUME TypeOK, NEW a \in Ids, NEW pc \in CallPcs, Moves(a, pc)
  PROVE  connects' \in [Ids -> Call]
  BY CallUpdates DEF TypeOK, Moves

(* So is one whose client is set up.                                      *)
LEMMA SetUpType ==
  ASSUME TypeOK, NEW a \in Ids, SetUp(a)
  PROVE  connects' \in [Ids -> Call]
<1>1. "settle" \in CallPcs
  BY DEF CallPcs
<1> QED
  BY <1>1, CallUpdates DEF TypeOK, SetUp

(* A client with no helper has one at most after StartConnServer.         *)
LEMMA StartsHelperType ==
  ASSUME TypeOK, NEW c, c \in Ids => starts[c] = 0, StartsHelper(c)
  PROVE  controller' \in Ids \cup {0} /\ starts' \in [Ids -> 0 .. 2]
<1>1. CASE c \in alive \ closing /\ controller' = c /\ starts' = [starts EXCEPT ![c] = @ + 1]
  <2>1. c \in Ids /\ starts[c] + 1 \in 0 .. 2
    BY <1>1 DEF TypeOK
  <2> QED
    BY <1>1, <2>1 DEF TypeOK
<1>2. CASE UNCHANGED <<controller, starts>>
  BY <1>2 DEF TypeOK
<1> QED
  BY <1>1, <1>2 DEF StartsHelper

(* An install that moves on is an install.                                *)
LEMMA InstallStepsType ==
  ASSUME TypeOK, NEW a \in Ids, NEW pc \in InstallPcs, InstallSteps(a, pc)
  PROVE  installs' \in [Ids -> Install]
  BY InstallUpdates DEF TypeOK, InstallSteps

(* So is one that returns.                                                *)
LEMMA InstallReturnsType ==
  ASSUME TypeOK, NEW a \in Ids, InstallReturns(a)
  PROVE  installs' \in [Ids -> Install] /\ wshInstalling' \in BOOLEAN
<1>1. "done" \in InstallPcs
  BY DEF InstallPcs
<1> QED
  BY <1>1, InstallStepsType DEF InstallReturns

(* A loop that moves on is a loop.                                        *)
LEMMA LoopStepsType ==
  ASSUME TypeOK, NEW l \in Loops, NEW pc \in LoopPcs, LoopSteps(l, pc)
  PROVE  loops' \in [Loops -> Loop]
  BY LoopUpdates DEF TypeOK, LoopSteps

(* What a call that begins changes, field by field.                       *)
LEMMA Called ==
  ASSUME TypeOK, NEW a \in Ids, NEW by, Calls(a, by)
  PROVE  /\ connects[a].pc = "none" /\ connects'[a].pc = "lock" /\ connects'[a].by = by
         /\ connects'[a].aborted = connects[a].aborted /\ connects'[a].ok = connects[a].ok
         /\ \A b \in Ids \ {a} : connects'[b] = connects[b]
  BY DEF TypeOK, Call, Calls

(* What a call that moves on changes.                                     *)
LEMMA Moved ==
  ASSUME TypeOK, NEW a \in Ids, NEW pc, Moves(a, pc)
  PROVE  /\ connects'[a].pc = pc /\ connects'[a].by = connects[a].by
         /\ connects'[a].aborted = connects[a].aborted /\ connects'[a].ok = connects[a].ok
         /\ \A b \in Ids \ {a} : connects'[b] = connects[b]
  BY DEF TypeOK, Call, Moves

(* What setting up the client changes in its call.                        *)
LEMMA IsSetUp ==
  ASSUME TypeOK, NEW a \in Ids, SetUp(a)
  PROVE  /\ connects'[a].pc = "settle" /\ connects'[a].by = connects[a].by
         /\ connects'[a].aborted = connects[a].aborted /\ connects'[a].ok
         /\ \A b \in Ids \ {a} : connects'[b] = connects[b]
  BY DEF TypeOK, Call, SetUp

(* What an install that moves on changes.                                 *)
LEMMA InstallStepped ==
  ASSUME TypeOK, NEW a \in Ids, NEW pc, InstallSteps(a, pc)
  PROVE  /\ installs'[a].pc = pc /\ installs'[a].claimed = installs[a].claimed
         /\ \A b \in Ids \ {a} : installs'[b] = installs[b]
  BY DEF TypeOK, Install, InstallSteps

(* closeInternal forgets the client, and installs stay where they are.    *)
LEMMA Detached ==
  ASSUME TypeOK, Detach
  PROVE  /\ \A a \in Ids : installs'[a].pc = installs[a].pc /\ installs'[a].claimed = installs[a].claimed
         /\ client' = 0 /\ monitor' = 0 /\ closing' = closing \cup ({client} \ {0})
<1>1. \A a \in Ids : installs[a] \in Install
  BY DEF TypeOK
<1> QED
  BY <1>1 DEF Detach, Install

(* What a loop that moves on changes.                                     *)
LEMMA LoopStepped ==
  ASSUME TypeOK, NEW l \in Loops, NEW pc, LoopSteps(l, pc)
  PROVE  /\ loops'[l].pc = pc /\ loops'[l].canceled = loops[l].canceled /\ loops'[l].call = loops[l].call
         /\ \A k \in Loops \ {l} : loops'[k] = loops[k]
  BY DEF TypeOK, Loop, LoopSteps

(* Who starts the helper in Connect does so once, on the client he dialed.*)
LEMMA NoHelperYet ==
  ASSUME Inv, NEW a \in Ids, connects[a].pc \in {"setup", "start"}
  PROVE  client = a /\ starts[a] = 0
<1>1. client = a
  BY DEF Inv, Handles, Held, Dialed
<1>2. starts[a] = 0
  BY DEF Inv, Helpers, Helper, Early
<1> QED
  BY <1>1, <1>2

(* The variables keep their types.                                        *)
LEMMA TypeKept ==
  ASSUME SshConnAssumption, Inv, [Next]_vars
  PROVE  TypeOK'
<1>1. CASE UserConnects
  <2>1. connects' \in [Ids -> Call]
    BY <1>1, CallsType DEF Inv, UserConnects
  <2> QED
    BY <1>1, <2>1 DEF UserConnects, Calls, connVars, netVars, helperVars, Inv, TypeOK, Statuses
<1>2. CASE CloseBegins
  <2>1. close' \in Closer
    <3>1. close.left - 1 \in 0 .. MaxCloses
      BY <1>2 DEF CloseBegins, Inv, TypeOK, Closer, SshConnAssumption
    <3>2. close' = [pc |-> IF reconnect = 0 THEN "abort" ELSE "clear", loop |-> reconnect, was |-> FALSE,
                    left |-> close.left - 1]
      BY <1>2 DEF CloseBegins, Inv, TypeOK, Closer
    <3> HIDE DEF Loops
    <3> QED
      BY <3>1, <3>2 DEF Closer, Inv, TypeOK
  <2>2. loops' \in [Loops -> Loop]
    <3>1. \A l \in Loops : [loops[l] EXCEPT !.canceled = TRUE] \in Loop /\ loops[l] \in Loop
      BY DEF Inv, TypeOK, Loop
    <3> QED
      BY <1>2, <3>1 DEF CloseBegins
  <2> QED
    BY <1>2, <2>1, <2>2 DEF CloseBegins, connVars, netVars, helperVars, Inv, TypeOK
<1>3. CASE CloseClears
  <2>1. close' \in Closer
    BY <1>3 DEF Inv, TypeOK, CloseClears, Closer
  <2> QED
    BY <1>3, <2>1 DEF CloseClears, netVars, helperVars, Inv, TypeOK, Statuses
<1>4. CASE CloseAborts
  <2>1. close' \in Closer
    BY <1>4 DEF Inv, TypeOK, CloseAborts, Closer
  <2>2. connects' \in [Ids -> Call]
    <3>1. \A a \in Ids : connects[a] \in Call /\ [connects[a] EXCEPT !.aborted = TRUE] \in Call
      BY DEF Inv, TypeOK, Call
    <3> QED
      BY <1>4, <3>1 DEF CloseAborts
  <2> QED
    BY <1>4, <2>1, <2>2 DEF CloseAborts, connVars, helperVars, Inv, TypeOK
<1>5. CASE CloseEnds
  <2>1. close' \in Closer
    BY <1>5 DEF Inv, TypeOK, CloseEnds, Closer
  <2>2. down' \in BOOLEAN
    BY <1>5 DEF CloseEnds, LastWord
  <2> QED
    BY <1>5, <2>1, DetachType, <2>2 DEF CloseEnds, Detach, LastWord, LifecycleFree, Inv, TypeOK, Statuses
<1>6. ASSUME NEW a \in Ids, ConnectBegins(a) PROVE TypeOK'
  <2>1. connects' \in [Ids -> Call]
    BY <1>6, MovesType DEF Inv, ConnectBegins, CallPcs
  <2> QED
    BY <1>6, <2>1 DEF ConnectBegins, Moves, LifecycleFree, netVars, helperVars, Inv, TypeOK, Statuses
<1>7. ASSUME NEW a \in Ids, ConnectArms(a) PROVE TypeOK'
  <2>1. connects' \in [Ids -> Call]
    BY <1>7, MovesType DEF Inv, ConnectArms, CallPcs
  <2> QED
    BY <1>7, <2>1 DEF ConnectArms, Moves, netVars, helperVars, Inv, TypeOK, Statuses
<1>8. ASSUME NEW a \in Ids, DialSucceeds(a) PROVE TypeOK'
  <2>1. connects' \in [Ids -> Call]
    BY <1>8, MovesType DEF Inv, DialSucceeds, CallPcs
  <2>2. waiters' \in [Ids -> {"none", "wait", "decide", "done"}]
    BY <1>8 DEF Inv, TypeOK, DialSucceeds
  <2> QED
    BY <1>8, <2>1, <2>2 DEF DialSucceeds, Moves, Cut, helperVars, Inv, TypeOK, Statuses
<1>9. ASSUME NEW a \in Ids, DialFails(a) PROVE TypeOK'
  <2>1. connects' \in [Ids -> Call]
    BY <1>9, MovesType DEF Inv, DialFails, CallPcs
  <2> QED
    BY <1>9, <2>1 DEF DialFails, Moves, connVars, netVars, helperVars, Inv, TypeOK, Statuses
<1>10. ASSUME NEW a \in Ids, SetUpAtOnce(a) PROVE TypeOK'
  <2>1. connects' \in [Ids -> Call]
    BY <1>10, SetUpType DEF Inv, SetUpAtOnce
  <2>2. controller' \in Ids \cup {0} /\ starts' \in [Ids -> 0 .. 2]
    BY <1>10, NoHelperYet, StartsHelperType DEF Inv, SetUpAtOnce
  <2> QED
    BY <1>10, <2>1, <2>2 DEF SetUpAtOnce, SetUp, StartsHelper, netVars, Inv, TypeOK, Statuses
<1>11. ASSUME NEW a \in Ids, BeginInstall(a) PROVE TypeOK'
  <2>1. connects' \in [Ids -> Call]
    BY <1>11, MovesType DEF Inv, BeginInstall, CallPcs
  <2>2. installs' \in [Ids -> Install]
    BY <1>11, InstallUpdates DEF Inv, TypeOK, BeginInstall, InstallPcs
  <2> QED
    BY <1>11, <2>1, <2>2 DEF BeginInstall, Moves, connVars, netVars, Inv, TypeOK, Statuses
<1>12. ASSUME NEW a \in Ids, InstallInTime(a) PROVE TypeOK'
  <2>1. connects' \in [Ids -> Call]
    BY <1>12, MovesType, SetUpType DEF Inv, InstallInTime, CallPcs
  <2> QED
    BY <1>12, <2>1 DEF InstallInTime, Moves, SetUp, connVars, netVars, helperVars, Inv, TypeOK, Statuses
<1>13. ASSUME NEW a \in Ids, HandOff(a) PROVE TypeOK'
  <2>1. connects' \in [Ids -> Call]
    BY <1>13, SetUpType DEF Inv, HandOff
  <2>2. installs' \in [Ids -> Install]
    BY <1>13, InstallUpdates DEF Inv, TypeOK, HandOff, InstallPcs
  <2> QED
    BY <1>13, <2>1, <2>2 DEF HandOff, SetUp, connVars, netVars, Inv, TypeOK, Statuses
<1>14. ASSUME NEW a \in Ids, StartAfterInstall(a) PROVE TypeOK'
  <2>1. connects' \in [Ids -> Call]
    BY <1>14, SetUpType DEF Inv, StartAfterInstall
  <2>2. controller' \in Ids \cup {0} /\ starts' \in [Ids -> 0 .. 2]
    BY <1>14, NoHelperYet, StartsHelperType DEF Inv, StartAfterInstall
  <2> QED
    BY <1>14, <2>1, <2>2 DEF StartAfterInstall, SetUp, StartsHelper, netVars, Inv, TypeOK, Statuses
<1>15. ASSUME NEW a \in Ids, ConnectSucceeds(a) PROVE TypeOK'
  <2>1. connects' \in [Ids -> Call]
    BY <1>15, MovesType DEF Inv, ConnectSucceeds, CallPcs
  <2> QED
    BY <1>15, <2>1 DEF ConnectSucceeds, Moves, netVars, helperVars, Inv, TypeOK, Statuses
<1>16. ASSUME NEW a \in Ids, ConnectFails(a) PROVE TypeOK'
  <2>1. connects' \in [Ids -> Call]
    BY <1>16, CallUpdates DEF Inv, TypeOK, ConnectFails, CallPcs
  <2> QED
    BY <1>16, <2>1, DetachType DEF ConnectFails, Detach, Inv, TypeOK, Statuses
<1>17. ASSUME NEW a \in Ids, ConnectReturns(a) PROVE TypeOK'
  <2>1. connects' \in [Ids -> Call]
    BY <1>17, MovesType DEF Inv, ConnectReturns, CallPcs
  <2> QED
    BY <1>17, <2>1 DEF ConnectReturns, Moves, netVars, helperVars, Inv, TypeOK, Statuses
<1>18. ASSUME NEW a \in Ids, CopyEnds(a) PROVE TypeOK'
  <2>1. PICK ok \in BOOLEAN : installs' = [installs EXCEPT ![a].pc = "claim", ![a].ok = ok]
    BY <1>18 DEF CopyEnds
  <2>2. installs' \in [Ids -> Install]
    BY <2>1, InstallUpdates DEF Inv, TypeOK, InstallPcs
  <2> QED
    BY <1>18, <2>2 DEF CopyEnds, connVars, netVars, Inv, TypeOK
<1>19. ASSUME NEW a \in Ids, InstallClaims(a) PROVE TypeOK'
  <2>1. installs' \in [Ids -> Install] /\ wshInstalling' \in BOOLEAN
    <3>1. CASE InstallReturns(a)
      BY <3>1, InstallReturnsType DEF Inv
    <3>2. CASE InstallSteps(a, "poll") /\ UNCHANGED wshInstalling
      BY <3>2, InstallStepsType DEF Inv, TypeOK, InstallPcs
    <3>3. CASE /\ installs' = [installs EXCEPT ![a].pc = "done", ![a].claimed = "install"]
               /\ wshInstalling' = FALSE
      BY <3>3, InstallUpdates DEF Inv, TypeOK, InstallPcs
    <3> QED
      BY <1>19, <3>1, <3>2, <3>3 DEF InstallClaims
  <2> QED
    BY <1>19, <2>1 DEF InstallClaims, connVars, netVars, Inv, TypeOK
<1>20. ASSUME NEW a \in Ids, InstallPolls(a) PROVE TypeOK'
  <2>1. installs' \in [Ids -> Install]
    BY <1>20, InstallStepsType, InstallReturnsType DEF Inv, InstallPolls, InstallPcs
  <2> QED
    BY <1>20, <2>1 DEF InstallPolls, InstallReturns, InstallSteps, connVars, netVars, Inv, TypeOK, Statuses
<1>21. ASSUME NEW a \in Ids, InstallStarts(a) PROVE TypeOK'
  <2>1. installs' \in [Ids -> Install]
    BY <1>21, InstallStepsType, InstallReturnsType DEF Inv, InstallStarts, InstallPcs
  <2>2. starts[a] = 0
    BY <1>21 DEF InstallStarts, Inv, Helpers, Helper, Early
  <2>3. starts' \in [Ids -> 0 .. 2]
    <3>1. CASE starts' = [starts EXCEPT ![a] = @ + 1]
      BY <2>2, <3>1 DEF Inv, TypeOK
    <3> QED
      BY <1>21, <3>1 DEF InstallStarts, Inv, TypeOK
  <2> QED
    BY <1>21, <2>1, <2>3 DEF InstallStarts, InstallReturns, connVars, netVars, Inv, TypeOK
<1>22. ASSUME NEW a \in Ids, InstallSets(a) PROVE TypeOK'
  <2>1. installs' \in [Ids -> Install]
    BY <1>22, InstallReturnsType DEF Inv, InstallSets
  <2> QED
    BY <1>22, <2>1 DEF InstallSets, InstallReturns, InstallSteps, netVars, Inv, TypeOK, Statuses
<1>23. ASSUME NEW c \in Ids, ClientLost(c) PROVE TypeOK'
  <2>1. waiters' \in [Ids -> {"none", "wait", "decide", "done"}]
    BY <1>23 DEF Inv, TypeOK, ClientLost
  <2>2. CASE client # c /\ UNCHANGED <<status, client, monitor, controller, closing, installs, installCancel, wshInstalling>>
    BY <1>23, <2>1, <2>2 DEF ClientLost, Inv, TypeOK
  <2>3. CASE Detach /\ status' = IF status = "error" THEN status ELSE "disconnected"
    <3>1. status' \in Statuses /\ controller' = 0
      BY <2>3 DEF Statuses, Detach
    <3>2. UNCHANGED <<connectAbort, reconnect, alive, connects, loops, close, starts, down>>
      BY <1>23 DEF ClientLost
    <3>3. {client', monitor', controller', connectAbort', installCancel'} \subseteq Ids \cup {0}
      BY <2>3, <3>2, DetachType DEF Inv, TypeOK
    <3> QED
      BY <2>1, <2>3, <3>1, <3>2, <3>3, DetachType DEF Inv, TypeOK
  <2> QED
    BY <1>23, <2>2, <2>3 DEF ClientLost
<1>24. ASSUME NEW c \in Ids, MaybeReconnect(c) PROVE TypeOK'
  <2>1. waiters' \in [Ids -> {"none", "wait", "decide", "done"}]
    BY <1>24 DEF Inv, TypeOK, MaybeReconnect
  <2>2. loops' \in [Loops -> Loop] /\ reconnect' \in Loops \cup {0}
    <3>1. ASSUME NEW l \in Loops, reconnect' = l, loops' = [loops EXCEPT ![l].pc = "wait"]
          PROVE  loops' \in [Loops -> Loop] /\ reconnect' \in Loops \cup {0}
      BY <3>1, LoopUpdates DEF Inv, TypeOK, LoopPcs
    <3> QED
      BY <1>24, <3>1 DEF MaybeReconnect, Inv, TypeOK
  <2> QED
    BY <1>24, <2>1, <2>2 DEF MaybeReconnect, netVars, helperVars, Inv, TypeOK
<1>25. ASSUME NEW l \in Loops, LoopTries(l) PROVE TypeOK'
  <2>1. PICK a \in Ids : Calls(a, l) /\ loops' = [loops EXCEPT ![l].pc = "connect", ![l].call = a]
    BY <1>25 DEF LoopTries
  <2>2. connects' \in [Ids -> Call] /\ loops' \in [Loops -> Loop]
    BY <2>1, CallsType, LoopUpdates DEF Inv, TypeOK, LoopPcs
  <2> QED
    BY <1>25, <2>2 DEF LoopTries, connVars, netVars, helperVars, Inv, TypeOK
<1>26. ASSUME NEW l \in Loops, LoopStops(l) PROVE TypeOK'
  <2>1. loops' \in [Loops -> Loop]
    BY <1>26, LoopStepsType DEF Inv, LoopStops, LoopPcs
  <2> QED
    BY <1>26, <2>1 DEF LoopStops, LoopSteps, connVars, netVars, helperVars, Inv, TypeOK, Statuses
<1>27. ASSUME NEW l \in Loops, LoopHears(l) PROVE TypeOK'
  <2>1. loops' \in [Loops -> Loop]
    BY <1>27, LoopStepsType DEF Inv, LoopHears, LoopPcs
  <2> QED
    BY <1>27, <2>1 DEF LoopHears, LoopSteps, connVars, netVars, helperVars, Inv, TypeOK, Statuses
<1>28. ASSUME NEW l \in Loops, LoopEnds(l) PROVE TypeOK'
  <2>1. loops' \in [Loops -> Loop]
    BY <1>28, LoopUpdates DEF Inv, TypeOK, LoopEnds, LoopPcs
  <2> QED
    BY <1>28, <2>1 DEF LoopEnds, netVars, helperVars, Inv, TypeOK, Statuses
<1>29. CASE HelperEnds
  BY <1>29 DEF HelperEnds, netVars, helperVars, Inv, TypeOK
<1>30. ASSUME NEW c \in Ids, ClientEnds(c) \/ ClientCloses(c) PROVE TypeOK'
  BY <1>30 DEF ClientEnds, ClientCloses, connVars, helperVars, Inv, TypeOK
<1>31. CASE UNCHANGED vars
  BY <1>31 DEF vars, connVars, netVars, helperVars, Inv, TypeOK
<1> QED
  BY <1>1, <1>2, <1>3, <1>4, <1>5, <1>6, <1>7, <1>8, <1>9, <1>10, <1>11, <1>12, <1>13, <1>14, <1>15, <1>16, <1>17,
     <1>18, <1>19, <1>20, <1>21, <1>22, <1>23, <1>24, <1>25, <1>26, <1>27, <1>28, <1>29, <1>30, <1>31
     DEF Next, AtRest

-----------------------------------------------------------------------------
(* The other parts of the invariant.                                      *)

(* Who else holds the lock or the client, and how far he came, is as it was. *)
SameHolder ==
  \A b \in Ids :
    \/ connects'[b].pc = connects[b].pc /\ connects'[b].ok = connects[b].ok
    \/ connects[b].pc \notin Holding /\ connects'[b].pc \notin Holding
    \/ connects[b].pc \in Dialed /\ connects'[b].pc \in Dialed

(* Then the handles stay in step.                                         *)
LEMMA SameHandles ==
  ASSUME Inv, SameHolder, UNCHANGED <<status, client, monitor, connectAbort, alive, closing>>
  PROVE  Handles'
  BY DEF Inv, Handles, OneHolder, Released, LifecycleFree, Held, Holding, Dialed, SameHolder

(* While one call holds the lock, the others do not.                      *)
LEMMA OthersOut ==
  ASSUME Inv, NEW a \in Ids, connects[a].pc \in Holding
  PROVE  \A b \in Ids \ {a} : connects[b].pc \notin Holding
  BY DEF Inv, Handles, OneHolder

(* A call that has set up its client holds it until it settles.           *)
LEMMA SettledHandles ==
  ASSUME Inv, NEW a \in Ids, connects[a].pc \in Dialed, SetUp(a),
         UNCHANGED <<status, client, monitor, alive, closing>>
  PROVE  Handles'
<1>1. /\ connects'[a].pc = "settle" /\ connects'[a].ok
      /\ \A b \in Ids \ {a} : connects'[b].pc \notin Holding
  BY IsSetUp, OthersOut DEF Inv, Holding, Dialed
<1>2. status = "connecting" /\ client = a /\ monitor = client /\ alive \subseteq closing \cup {client}
  BY DEF Inv, Handles, Held
<1> QED
  BY <1>1, <1>2 DEF Handles, OneHolder, Released, LifecycleFree, Held, Holding, Dialed

(* The holder of the lock and the handles stay in step.                   *)
LEMMA HandlesKept ==
  ASSUME SshConnAssumption, Inv, [Next]_vars
  PROVE  Handles'
<1>1. CASE UserConnects
  <2>1. PICK a \in Ids : Calls(a, User)
    BY <1>1 DEF UserConnects
  <2>2. SameHolder
    BY <2>1, Called DEF Inv, SameHolder, Holding, Dialed
  <2> QED
    BY <1>1, <2>2, SameHandles DEF UserConnects, connVars, netVars
<1>2. CASE HelperEnds \/ CloseBegins \/ CloseClears
  BY <1>2
     DEF HelperEnds, CloseBegins, CloseClears, connVars, netVars, helperVars, Inv, TypeOK, Call, Handles, Held,
        OneHolder, Released, LifecycleFree, Holding, Dialed, Busy
<1>3. CASE CloseAborts
  BY <1>3
     DEF CloseAborts, connVars, helperVars, Inv, TypeOK, Call, Handles, Held, OneHolder, Released, LifecycleFree,
        Holding, Dialed, Busy
<1>4. CASE CloseEnds
  BY <1>4, Detached
     DEF CloseEnds, LastWord, LifecycleFree, Inv, TypeOK, Call, Handles, Held, OneHolder, Released, Holding, Dialed,
        Busy
<1>5. ASSUME NEW a \in Ids, ConnectBegins(a) PROVE Handles'
  <2>1. connects[a].pc = "lock" /\ LifecycleFree
    BY <1>5 DEF ConnectBegins
  <2>2. CASE status \in Busy /\ Moves(a, "done") /\ UNCHANGED status
    <3>1. SameHolder
      BY <2>1, <2>2, Moved DEF Inv, SameHolder, Holding, Dialed
    <3> QED
      BY <1>5, <2>2, <3>1, SameHandles DEF ConnectBegins, netVars
  <2>3. CASE status \notin Busy /\ Moves(a, "arm") /\ status' = "connecting"
    <3>1. connects'[a].pc = "arm" /\ \A b \in Ids \ {a} : connects'[b].pc \notin Holding
      BY <2>1, <2>3, Moved DEF Inv, LifecycleFree
    <3>2. client = 0 /\ client' = 0 /\ monitor' = monitor /\ UNCHANGED netVars
      BY <1>5, <2>1, <2>3 DEF ConnectBegins, Inv, Handles, Released, Busy
    <3> QED
      BY <2>3, <3>1, <3>2 DEF Inv, Handles, OneHolder, Released, LifecycleFree, Held, Holding, Dialed, netVars
  <2> QED
    BY <1>5, <2>2, <2>3 DEF ConnectBegins
<1>6. ASSUME NEW a \in Ids, ConnectArms(a) PROVE Handles'
  BY <1>6, Moved
     DEF ConnectArms, netVars, helperVars, Inv, TypeOK, Call, Handles, Held, OneHolder, Released, LifecycleFree,
        Holding, Dialed, Busy
<1>7. ASSUME NEW a \in Ids, DialSucceeds(a) PROVE Handles'
  <2>1. /\ connects[a].pc = "dial" /\ connects'[a].pc = "setup"
        /\ \A b \in Ids \ {a} : connects'[b].pc \notin Holding
    BY <1>7, Moved, OthersOut DEF DialSucceeds, Inv, Holding
  <2>2. status' = "connecting" /\ client = 0
    BY <1>7, <2>1 DEF DialSucceeds, Inv, Handles, Held
  <2>3. client' = a /\ monitor' = a /\ alive' = alive \cup {a} /\ closing' = closing
    BY <1>7 DEF DialSucceeds
  <2>4. 0 \notin alive
    BY DEF Inv, TypeOK, Ids
  <2> QED
    BY <2>1, <2>2, <2>3, <2>4 DEF Inv, Handles, OneHolder, Released, LifecycleFree, Held, Holding, Dialed
<1>8. ASSUME NEW a \in Ids, DialFails(a) PROVE Handles'
  <2>1. /\ connects[a].pc = "dial" /\ connects'[a].pc = "settle" /\ ~connects'[a].ok
        /\ \A b \in Ids \ {a} : connects'[b].pc \notin Holding
    BY <1>8, Moved, OthersOut DEF DialFails, Inv, Looped, Holding
  <2>2. /\ status' = "connecting" /\ client' = 0 /\ monitor' = monitor
        /\ UNCHANGED <<client, alive, closing>>
    BY <1>8, <2>1 DEF DialFails, Inv, Handles, Held, connVars, netVars
  <2> QED
    BY <2>1, <2>2 DEF Inv, Handles, OneHolder, Released, LifecycleFree, Held, Holding, Dialed
<1>9. ASSUME NEW a \in Ids, SetUpAtOnce(a) PROVE Handles'
  <2>1. connects[a].pc \in Dialed /\ SetUp(a) /\ UNCHANGED <<status, client, monitor, alive, closing>>
    BY <1>9 DEF SetUpAtOnce, Dialed, netVars
  <2> QED
    BY <2>1, SettledHandles
<1>10. ASSUME NEW a \in Ids, BeginInstall(a) PROVE Handles'
  <2>1. SameHolder
    BY <1>10, Moved DEF BeginInstall, Inv, SameHolder, Dialed
  <2> QED
    BY <1>10, <2>1, SameHandles DEF BeginInstall, connVars, netVars
<1>11. ASSUME NEW a \in Ids, InstallInTime(a) PROVE Handles'
  <2>1. /\ connects[a].pc = "await" /\ (Moves(a, "start") \/ SetUp(a))
        /\ UNCHANGED <<status, client, monitor, connectAbort, alive, closing>>
    BY <1>11 DEF InstallInTime, connVars, netVars
  <2>2. CASE SetUp(a)
    BY <2>1, <2>2, SettledHandles DEF Dialed
  <2>3. CASE Moves(a, "start")
    <3>1. SameHolder
      BY <2>1, <2>3, Moved DEF Inv, SameHolder, Dialed
    <3> QED
      BY <2>1, <3>1, SameHandles
  <2> QED
    BY <2>1, <2>2, <2>3
<1>12. ASSUME NEW a \in Ids, HandOff(a) PROVE Handles'
  <2>1. connects[a].pc \in Dialed /\ SetUp(a) /\ UNCHANGED <<status, client, monitor, alive, closing>>
    BY <1>12 DEF HandOff, Dialed, connVars, netVars
  <2> QED
    BY <2>1, SettledHandles
<1>13. ASSUME NEW a \in Ids, StartAfterInstall(a) PROVE Handles'
  <2>1. connects[a].pc \in Dialed /\ SetUp(a) /\ UNCHANGED <<status, client, monitor, alive, closing>>
    BY <1>13 DEF StartAfterInstall, Dialed, netVars
  <2> QED
    BY <2>1, SettledHandles
<1>14. ASSUME NEW a \in Ids, ConnectSucceeds(a) PROVE Handles'
  <2>1. /\ connects[a].pc = "settle" /\ connects[a].ok /\ connects'[a].pc = "leave"
        /\ \A b \in Ids \ {a} : connects'[b].pc \notin Holding
    BY <1>14, Moved, OthersOut DEF ConnectSucceeds, Inv, Holding
  <2>2. status' = "connected" /\ client' = a /\ UNCHANGED <<client, monitor, alive, closing>>
    BY <1>14, <2>1 DEF ConnectSucceeds, Inv, Handles, Held, netVars
  <2>3. a # 0
    BY DEF Ids
  <2> QED
    BY <2>1, <2>2, <2>3 DEF Inv, Handles, OneHolder, Released, LifecycleFree, Held, Holding, Dialed
<1>15. ASSUME NEW a \in Ids, ConnectFails(a) PROVE Handles'
  BY <1>15, Detached
     DEF ConnectFails, Inv, TypeOK, Call, Handles, Held, OneHolder, Released, LifecycleFree, Holding, Dialed, Busy
<1>16. ASSUME NEW a \in Ids, ConnectReturns(a) PROVE Handles'
  <2>1. connects[a].pc = "leave" /\ \A b \in Ids : connects'[b].pc \notin Holding
    BY <1>16, Moved, OthersOut DEF ConnectReturns, Inv, Holding
  <2>2. connectAbort' = 0 /\ UNCHANGED <<status, client, monitor, alive, closing>>
    BY <1>16 DEF ConnectReturns, netVars
  <2>3. status # "connecting" /\ (status = "connected" <=> client # 0)
    BY <2>1 DEF Inv, Handles, Held
  <2> QED
    BY <2>1, <2>2, <2>3 DEF Inv, Handles, OneHolder, Released, LifecycleFree, Held, Holding, Dialed
<1>17. ASSUME NEW a \in Ids, CopyEnds(a) \/ InstallClaims(a) \/ InstallPolls(a) \/ InstallStarts(a) \/
   InstallSets(a)
     PROVE Handles'
  BY <1>17, InstallStepped
     DEF CopyEnds, InstallClaims, InstallPolls, InstallStarts, InstallSets, InstallReturns, connVars, netVars, Inv,
        TypeOK, Call, Handles, Held, OneHolder, Released, LifecycleFree, Holding, Dialed, Busy
<1>18. ASSUME NEW c \in Ids, ClientEnds(c) \/ ClientCloses(c) \/ MaybeReconnect(c)
     PROVE Handles'
  BY <1>18
     DEF ClientEnds, ClientCloses, MaybeReconnect, connVars, netVars, helperVars, Inv, TypeOK, Call, Handles, Held,
        OneHolder, Released, LifecycleFree, Holding, Dialed, Busy
<1>19. ASSUME NEW c \in Ids, ClientLost(c) PROVE Handles'
  BY <1>19, Detached
     DEF ClientLost, LifecycleFree, Inv, TypeOK, Call, Handles, Held, OneHolder, Released, Holding, Dialed, Busy
<1>20. ASSUME NEW l \in Loops, LoopTries(l) PROVE Handles'
  <2>1. PICK a \in Ids : Calls(a, l)
    BY <1>20 DEF LoopTries
  <2>2. SameHolder
    BY <2>1, Called DEF Inv, SameHolder, Holding, Dialed
  <2> QED
    BY <1>20, <2>2, SameHandles DEF LoopTries, connVars, netVars
<1>21. ASSUME NEW l \in Loops, LoopStops(l) \/ LoopHears(l) \/ LoopEnds(l)
     PROVE Handles'
  BY <1>21, LoopStepped
     DEF LoopStops, LoopHears, LoopEnds, connVars, netVars, helperVars, Inv, TypeOK, Call, Handles, Held, OneHolder,
        Released, LifecycleFree, Holding, Dialed, Busy
<1>22. CASE UNCHANGED vars
  BY <1>22
     DEF vars, connVars, netVars, helperVars, Inv, TypeOK, Call, Handles, Held, OneHolder, Released, LifecycleFree,
        Holding, Dialed, Busy
<1> QED
  BY <1>1, <1>2, <1>3, <1>4, <1>5, <1>6, <1>7, <1>8, <1>9, <1>10, <1>11, <1>12, <1>13, <1>14, <1>15, <1>16, <1>17,
     <1>18, <1>19, <1>20, <1>21, <1>22
     DEF Next, AtRest

(* Nothing changes for the helpers: no call waits for an install or ends a wait. *)
SameInstalls ==
  \A b \in Ids :
    \/ connects'[b].pc = connects[b].pc
    \/ connects[b].pc \in Early /\ connects'[b].pc \notin {"await", "start"}
    \/ connects[b].pc # "await" /\ connects'[b].pc \notin Early \cup {"await", "start"}

(* Then helpers are started once as before.                               *)
LEMMA SameHelpers ==
  ASSUME Inv, SameInstalls, UNCHANGED <<installs, starts>>
  PROVE  Helpers'
  BY DEF Inv, Helpers, Helper, Early, SameInstalls

(* Nobody starts a helper where one was started.                          *)
LEMMA HelpersKept ==
  ASSUME SshConnAssumption, Inv, [Next]_vars
  PROVE  Helpers'
<1>1. CASE UserConnects
  <2>1. PICK a \in Ids : Calls(a, User)
    BY <1>1 DEF UserConnects
  <2>2. SameInstalls
    BY <2>1, Called DEF Inv, SameInstalls, Early
  <2> QED
    BY <1>1, <2>2, SameHelpers DEF UserConnects, helperVars
<1>2. CASE HelperEnds \/ CloseBegins \/ CloseClears
  BY <1>2
     DEF HelperEnds, CloseBegins, CloseClears, connVars, netVars, helperVars, Inv, TypeOK, Call, Install, Handles,
        Held, Helpers, Helper, Early, Dialed
<1>3. CASE CloseAborts
  BY <1>3
     DEF CloseAborts, connVars, helperVars, Inv, TypeOK, Call, Install, Handles, Held, Helpers, Helper, Early,
        Dialed
<1>4. CASE CloseEnds
  BY <1>4, Detached
     DEF CloseEnds, LastWord, LifecycleFree, Inv, TypeOK, Call, Install, Handles, Held, Helpers, Helper, Early,
        Dialed
<1>5. ASSUME NEW a \in Ids, ConnectBegins(a) PROVE Helpers'
  <2>1. SameInstalls
    BY <1>5, Moved DEF ConnectBegins, Inv, SameInstalls, Early
  <2> QED
    BY <1>5, <2>1, SameHelpers DEF ConnectBegins, helperVars
<1>6. ASSUME NEW a \in Ids, ConnectArms(a) PROVE Helpers'
  <2>1. SameInstalls
    BY <1>6, Moved DEF ConnectArms, Inv, SameInstalls, Early
  <2> QED
    BY <1>6, <2>1, SameHelpers DEF ConnectArms, helperVars
<1>7. ASSUME NEW a \in Ids, DialSucceeds(a) PROVE Helpers'
  <2>1. SameInstalls
    BY <1>7, Moved DEF DialSucceeds, Inv, SameInstalls, Early
  <2> QED
    BY <1>7, <2>1, SameHelpers DEF DialSucceeds, helperVars
<1>8. ASSUME NEW a \in Ids, DialFails(a) PROVE Helpers'
  <2>1. SameInstalls
    BY <1>8, Moved DEF DialFails, Inv, SameInstalls, Early
  <2> QED
    BY <1>8, <2>1, SameHelpers DEF DialFails, helperVars
<1>9. ASSUME NEW a \in Ids, SetUpAtOnce(a) PROVE Helpers'
  <2>1. connects'[a].pc = "settle" /\ \A b \in Ids \ {a} : connects'[b].pc = connects[b].pc
    BY <1>9, IsSetUp DEF SetUpAtOnce, Inv
  <2>2. UNCHANGED installs
    BY <1>9 DEF SetUpAtOnce
  <2>3. client = a /\ starts[a] = 0 /\ connects[a].pc \in {"setup", "start"}
    BY <1>9, NoHelperYet DEF SetUpAtOnce
  <2>4. starts' = starts \/ starts' = [starts EXCEPT ![a] = @ + 1]
    BY <1>9, <2>3 DEF SetUpAtOnce, StartsHelper
  <2>5. starts'[a] \in {0, 1} /\ \A b \in Ids \ {a} : starts'[b] = starts[b]
    BY <2>3, <2>4 DEF Inv, TypeOK
  <2>6. installs[a].pc \in {"none", "done"}
    BY <2>3 DEF Inv, TypeOK, Install, InstallPcs, Helpers, Helper, Early
  <2>7. Helper(a)'
    BY <2>1, <2>2, <2>5, <2>6 DEF Inv, Helpers, Helper, Early
  <2> QED
    BY <2>1, <2>2, <2>5, <2>7 DEF Inv, Helpers, Helper, Early
<1>10. ASSUME NEW a \in Ids, BeginInstall(a) PROVE Helpers'
  BY <1>10, Moved
     DEF BeginInstall, connVars, netVars, Inv, TypeOK, Call, Install, Handles, Held, Helpers, Helper, Early, Dialed
<1>11. ASSUME NEW a \in Ids, InstallInTime(a) PROVE Helpers'
  <2>1. connects[a].pc = "await" /\ installs[a].claimed = "install" /\ UNCHANGED <<installs, starts>>
    BY <1>11 DEF InstallInTime, helperVars
  <2>2. connects'[a].pc \in {"start", "settle"} /\ \A b \in Ids \ {a} : connects'[b].pc = connects[b].pc
    BY <1>11, Moved, IsSetUp DEF InstallInTime, Inv
  <2> QED
    BY <2>1, <2>2 DEF Inv, Helpers, Helper, Early
<1>12. ASSUME NEW a \in Ids, HandOff(a) PROVE Helpers'
  <2>1. connects[a].pc = "await" /\ installs[a].claimed = "none" /\ UNCHANGED starts
    BY <1>12 DEF HandOff
  <2>2. connects'[a].pc = "settle" /\ \A b \in Ids \ {a} : connects'[b].pc = connects[b].pc
    BY <1>12, IsSetUp DEF HandOff, Inv
  <2>3. /\ installs'[a].claimed = "connect" /\ installs'[a].pc = installs[a].pc
        /\ \A b \in Ids \ {a} : installs'[b] = installs[b]
    BY <1>12 DEF HandOff, Inv, TypeOK, Install
  <2>4. Helper(a)'
    BY <2>1, <2>2, <2>3 DEF Inv, Helpers, Helper, Early
  <2> QED
    BY <2>1, <2>2, <2>3, <2>4 DEF Inv, Helpers, Helper, Early
<1>13. ASSUME NEW a \in Ids, StartAfterInstall(a) PROVE Helpers'
  <2>1. connects'[a].pc = "settle" /\ \A b \in Ids \ {a} : connects'[b].pc = connects[b].pc
    BY <1>13, IsSetUp DEF StartAfterInstall, Inv
  <2>2. UNCHANGED installs
    BY <1>13 DEF StartAfterInstall
  <2>3. client = a /\ starts[a] = 0 /\ connects[a].pc \in {"setup", "start"}
    BY <1>13, NoHelperYet DEF StartAfterInstall
  <2>4. starts' = starts \/ starts' = [starts EXCEPT ![a] = @ + 1]
    BY <1>13, <2>3 DEF StartAfterInstall, StartsHelper
  <2>5. starts'[a] \in {0, 1} /\ \A b \in Ids \ {a} : starts'[b] = starts[b]
    BY <2>3, <2>4 DEF Inv, TypeOK
  <2>6. installs[a].pc \in {"none", "done"}
    BY <2>3 DEF Inv, TypeOK, Install, InstallPcs, Helpers, Helper, Early
  <2>7. Helper(a)'
    BY <2>1, <2>2, <2>5, <2>6 DEF Inv, Helpers, Helper, Early
  <2> QED
    BY <2>1, <2>2, <2>5, <2>7 DEF Inv, Helpers, Helper, Early
<1>14. ASSUME NEW a \in Ids, ConnectSucceeds(a) PROVE Helpers'
  <2>1. SameInstalls
    BY <1>14, Moved DEF ConnectSucceeds, Inv, SameInstalls, Early
  <2> QED
    BY <1>14, <2>1, SameHelpers DEF ConnectSucceeds, helperVars
<1>15. ASSUME NEW a \in Ids, ConnectFails(a) PROVE Helpers'
  BY <1>15, Detached DEF ConnectFails, Inv, TypeOK, Call, Install, Handles, Held, Helpers, Helper, Early, Dialed
<1>16. ASSUME NEW a \in Ids, ConnectReturns(a) PROVE Helpers'
  <2>1. SameInstalls
    BY <1>16, Moved DEF ConnectReturns, Inv, SameInstalls, Early
  <2> QED
    BY <1>16, <2>1, SameHelpers DEF ConnectReturns, helperVars
<1>17. ASSUME NEW a \in Ids, CopyEnds(a) PROVE Helpers'
  BY <1>17
     DEF CopyEnds, connVars, netVars, Inv, TypeOK, Call, Install, Handles, Held, Helpers, Helper, Early, Dialed
<1>18. ASSUME NEW a \in Ids, InstallClaims(a) PROVE Helpers'
  <2>1. installs[a].pc = "claim" /\ UNCHANGED <<connects, starts>>
    BY <1>18 DEF InstallClaims
  <2>2. /\ \A b \in Ids \ {a} : installs'[b] = installs[b]
        /\ \/ installs[a].claimed = "none" /\ installs'[a].pc = "done" /\ installs'[a].claimed = "install"
           \/ /\ installs[a].claimed = "connect" /\ installs'[a].claimed = "connect"
              /\ installs'[a].pc \in {"done", "poll"}
    <3>1. CASE installs[a].claimed = "none" /\ installs' = [installs EXCEPT ![a].pc = "done", ![a].claimed = "install"]
      BY <3>1 DEF Inv, TypeOK, Install
    <3>2. CASE installs[a].claimed = "connect" /\ (InstallReturns(a) \/ InstallSteps(a, "poll"))
      BY <3>2, InstallStepped DEF Inv, InstallReturns
    <3> QED
      BY <1>18, <3>1, <3>2 DEF InstallClaims
  <2>3. Helper(a)'
    BY <2>1, <2>2 DEF Inv, Helpers, Helper, Early
  <2> QED
    BY <2>1, <2>2, <2>3 DEF Inv, Helpers, Helper, Early
<1>19. ASSUME NEW a \in Ids, InstallPolls(a) PROVE Helpers'
  <2>1. installs[a].pc = "poll" /\ UNCHANGED <<connects, starts>>
    BY <1>19 DEF InstallPolls
  <2>2. /\ installs'[a].pc \in {"start", "done"} /\ installs'[a].claimed = installs[a].claimed
        /\ \A b \in Ids \ {a} : installs'[b] = installs[b]
    BY <1>19, InstallStepped DEF InstallPolls, InstallReturns, Inv
  <2> QED
    BY <2>1, <2>2 DEF Inv, Helpers, Helper, Early
<1>20. ASSUME NEW a \in Ids, InstallStarts(a) PROVE Helpers'
  BY <1>20, InstallStepped
     DEF InstallStarts, InstallReturns, connVars, netVars, Inv, TypeOK, Call, Install, Handles, Held, Helpers,
        Helper, Early, Dialed
<1>21. ASSUME NEW a \in Ids, InstallSets(a) PROVE Helpers'
  BY <1>21, InstallStepped
     DEF InstallSets, InstallReturns, netVars, Inv, TypeOK, Call, Install, Handles, Held, Helpers, Helper, Early,
        Dialed
<1>22. ASSUME NEW c \in Ids, ClientEnds(c) \/ ClientCloses(c) \/ MaybeReconnect(c)
     PROVE Helpers'
  BY <1>22
     DEF ClientEnds, ClientCloses, MaybeReconnect, connVars, netVars, helperVars, Inv, TypeOK, Call, Install,
        Handles, Held, Helpers, Helper, Early, Dialed
<1>23. ASSUME NEW c \in Ids, ClientLost(c) PROVE Helpers'
  BY <1>23, Detached
     DEF ClientLost, LifecycleFree, Inv, TypeOK, Call, Install, Handles, Held, Helpers, Helper, Early, Dialed
<1>24. ASSUME NEW l \in Loops, LoopTries(l) PROVE Helpers'
  <2>1. PICK a \in Ids : Calls(a, l)
    BY <1>24 DEF LoopTries
  <2>2. SameInstalls
    BY <2>1, Called DEF Inv, SameInstalls, Early
  <2> QED
    BY <1>24, <2>2, SameHelpers DEF LoopTries, helperVars
<1>25. ASSUME NEW l \in Loops, LoopStops(l) \/ LoopHears(l) \/ LoopEnds(l)
     PROVE Helpers'
  BY <1>25, LoopStepped
     DEF LoopStops, LoopHears, LoopEnds, connVars, netVars, helperVars, Inv, TypeOK, Call, Install, Handles, Held,
        Helpers, Helper, Early, Dialed
<1>26. CASE UNCHANGED vars
  BY <1>26
     DEF vars, connVars, netVars, helperVars, Inv, TypeOK, Call, Install, Handles, Held, Helpers, Helper, Early,
        Dialed
<1> QED
  BY <1>1, <1>2, <1>3, <1>4, <1>5, <1>6, <1>7, <1>8, <1>9, <1>10, <1>11, <1>12, <1>13, <1>14, <1>15, <1>16, <1>17,
     <1>18, <1>19, <1>20, <1>21, <1>22, <1>23, <1>24, <1>25, <1>26
     DEF Next, AtRest

(* Loops that were superseded stay canceled.                              *)
LEMMA LoopedKept ==
  ASSUME SshConnAssumption, Inv, [Next]_vars
  PROVE  Looped'
<1>1. CASE UserConnects
  BY <1>1, Called DEF UserConnects, connVars, netVars, helperVars, Inv, TypeOK, Call, Loop, Looped, User, Loops, Ids
<1>2. CASE HelperEnds
  BY <1>2 DEF HelperEnds, netVars, helperVars, Inv, TypeOK, Call, Loop, Looped, User, Loops, Ids
<1>3. CASE CloseBegins
  BY <1>3 DEF CloseBegins, connVars, netVars, helperVars, Inv, TypeOK, Call, Loop, Looped, User, Loops, Ids
<1>4. CASE CloseClears
  BY <1>4 DEF CloseClears, netVars, helperVars, Inv, TypeOK, Call, Loop, Looped, User, Loops, Ids
<1>5. CASE CloseAborts
  BY <1>5 DEF CloseAborts, connVars, helperVars, Inv, TypeOK, Call, Loop, Looped, User, Loops, Ids
<1>6. CASE CloseEnds
  BY <1>6, Detached DEF CloseEnds, LastWord, LifecycleFree, Inv, TypeOK, Call, Loop, Looped, User, Loops, Ids
<1>7. ASSUME NEW a \in Ids, ConnectBegins(a) PROVE Looped'
  BY <1>7, Moved
     DEF ConnectBegins, LifecycleFree, netVars, helperVars, Inv, TypeOK, Call, Loop, Looped, User, Loops, Ids
<1>8. ASSUME NEW a \in Ids, ConnectArms(a) PROVE Looped'
  BY <1>8, Moved DEF ConnectArms, netVars, helperVars, Inv, TypeOK, Call, Loop, Looped, User, Loops, Ids
<1>9. ASSUME NEW a \in Ids, DialSucceeds(a) PROVE Looped'
  BY <1>9, Moved DEF DialSucceeds, Cut, helperVars, Inv, TypeOK, Call, Loop, Looped, User, Loops, Ids
<1>10. ASSUME NEW a \in Ids, DialFails(a) PROVE Looped'
  BY <1>10, Moved DEF DialFails, connVars, netVars, helperVars, Inv, TypeOK, Call, Loop, Looped, User, Loops, Ids
<1>11. ASSUME NEW a \in Ids, SetUpAtOnce(a) PROVE Looped'
  BY <1>11, IsSetUp DEF SetUpAtOnce, StartsHelper, netVars, Inv, TypeOK, Call, Loop, Looped, User, Loops, Ids
<1>12. ASSUME NEW a \in Ids, BeginInstall(a) PROVE Looped'
  BY <1>12, Moved DEF BeginInstall, connVars, netVars, Inv, TypeOK, Call, Loop, Looped, User, Loops, Ids
<1>13. ASSUME NEW a \in Ids, InstallInTime(a) PROVE Looped'
  BY <1>13, Moved, IsSetUp
     DEF InstallInTime, connVars, netVars, helperVars, Inv, TypeOK, Call, Loop, Looped, User, Loops, Ids
<1>14. ASSUME NEW a \in Ids, HandOff(a) PROVE Looped'
  BY <1>14, IsSetUp DEF HandOff, connVars, netVars, Inv, TypeOK, Call, Loop, Looped, User, Loops, Ids
<1>15. ASSUME NEW a \in Ids, StartAfterInstall(a) PROVE Looped'
  BY <1>15, IsSetUp DEF StartAfterInstall, StartsHelper, netVars, Inv, TypeOK, Call, Loop, Looped, User, Loops, Ids
<1>16. ASSUME NEW a \in Ids, ConnectSucceeds(a) PROVE Looped'
  BY <1>16, Moved DEF ConnectSucceeds, netVars, helperVars, Inv, TypeOK, Call, Loop, Looped, User, Loops, Ids
<1>17. ASSUME NEW a \in Ids, ConnectFails(a) PROVE Looped'
  BY <1>17, Detached DEF ConnectFails, Inv, TypeOK, Call, Loop, Looped, User, Loops, Ids
<1>18. ASSUME NEW a \in Ids, ConnectReturns(a) PROVE Looped'
  BY <1>18, Moved DEF ConnectReturns, netVars, helperVars, Inv, TypeOK, Call, Loop, Looped, User, Loops, Ids
<1>19. ASSUME NEW a \in Ids, CopyEnds(a) \/ InstallClaims(a) \/ InstallPolls(a) \/ InstallStarts(a) \/
   InstallSets(a)
     PROVE Looped'
  <2>1. UNCHANGED <<connects, reconnect, loops, close>>
    BY <1>19
       DEF CopyEnds, InstallClaims, InstallPolls, InstallStarts, InstallSets, InstallReturns, InstallSteps,
          connVars, netVars
  <2> QED
    BY <2>1 DEF Inv, Looped
<1>20. ASSUME NEW c \in Ids, ClientEnds(c) \/ ClientCloses(c) \/ ClientLost(c)
     PROVE Looped'
  <2>1. UNCHANGED <<connects, reconnect, loops, close>>
    BY <1>20 DEF ClientEnds, ClientCloses, ClientLost, Detach, LifecycleFree, connVars, helperVars
  <2> QED
    BY <2>1 DEF Inv, Looped
<1>21. ASSUME NEW c \in Ids, MaybeReconnect(c) PROVE Looped'
  <2>1. CASE UNCHANGED <<reconnect, loops>>
    BY <1>21, <2>1 DEF MaybeReconnect, Inv, Looped
  <2>2. ASSUME NEW l \in Loops, reconnect = 0, loops[l].pc = "none", reconnect' = l,
               loops' = [loops EXCEPT ![l].pc = "wait"]
        PROVE  Looped'
    <3>1. /\ loops'[l].pc = "wait" /\ loops'[l].canceled = loops[l].canceled
          /\ \A k \in Loops \ {l} : loops'[k] = loops[k]
      BY <2>2 DEF Inv, TypeOK, Loop
    <3>2. \A k \in Loops : reconnect # k
      BY <2>2 DEF Loops
    <3>3. \A a \in Ids : connects[a].by # User => connects[a].by \in Loops
      BY DEF Inv, TypeOK, Call
    <3> QED
      BY <1>21, <2>2, <3>1, <3>2, <3>3 DEF MaybeReconnect, Inv, Looped
  <2> QED
    BY <1>21, <2>1, <2>2 DEF MaybeReconnect
<1>22. ASSUME NEW l \in Loops, LoopTries(l) PROVE Looped'
  BY <1>22, Called DEF LoopTries, connVars, netVars, helperVars, Inv, TypeOK, Call, Loop, Looped, User, Loops, Ids
<1>23. ASSUME NEW l \in Loops, LoopStops(l) PROVE Looped'
  BY <1>23, LoopStepped
     DEF LoopStops, connVars, netVars, helperVars, Inv, TypeOK, Call, Loop, Looped, User, Loops, Ids
<1>24. ASSUME NEW l \in Loops, LoopHears(l) PROVE Looped'
  <2>1. connects[loops[l].call].pc = "done" /\ UNCHANGED <<connects, reconnect, close>>
    BY <1>24 DEF LoopHears, connVars
  <2>2. /\ loops'[l].canceled = loops[l].canceled /\ \A k \in Loops \ {l} : loops'[k] = loops[k]
        /\ loops'[l].pc = "end" \/ (loops'[l].pc = "wait" /\ ~loops[l].canceled)
    BY <1>24, LoopStepped DEF LoopHears, Inv
  <2>3. loops[l].pc = "connect"
    BY <1>24 DEF LoopHears
  <2>4. \A a \in Ids : connects[a].by = l => connects[a].by = User \/ connects[a].pc \in {"none", "done"}
    BY <2>1 DEF Inv, Looped
  <2>5. \A a \in Ids : connects[a].by # User => connects[a].by \in Loops
    BY DEF Inv, TypeOK, Call
  <2> QED
    BY <2>1, <2>2, <2>3, <2>4, <2>5 DEF Inv, Looped
<1>25. ASSUME NEW l \in Loops, LoopEnds(l) PROVE Looped'
  BY <1>25 DEF LoopEnds, netVars, helperVars, Inv, TypeOK, Call, Loop, Looped, User, Loops, Ids
<1>26. CASE UNCHANGED vars
  BY <1>26 DEF vars, connVars, netVars, helperVars, Inv, TypeOK, Call, Loop, Looped, User, Loops, Ids
<1> QED
  BY <1>1, <1>2, <1>3, <1>4, <1>5, <1>6, <1>7, <1>8, <1>9, <1>10, <1>11, <1>12, <1>13, <1>14, <1>15, <1>16, <1>17,
     <1>18, <1>19, <1>20, <1>21, <1>22, <1>23, <1>24, <1>25, <1>26
     DEF Next, AtRest

(* What is down stays down.                                               *)
LEMMA DownKept ==
  ASSUME SshConnAssumption, Inv, [Next]_vars
  PROVE  StaysDown'
<1>1. CASE UserConnects
  BY <1>1, Called
     DEF UserConnects, connVars, netVars, helperVars, Inv, TypeOK, Call, Looped, StaysDown, IsDown, Dialed, Ids,
        Loops, User, Busy, Holding
<1>2. CASE HelperEnds \/ CloseBegins
  <2>1. UNCHANGED <<status, client, reconnect, waiters, connects, down>>
    BY <1>2 DEF HelperEnds, CloseBegins, connVars, netVars, helperVars
  <2> QED
    BY <2>1 DEF Inv, StaysDown, IsDown
<1>3. CASE CloseClears
  BY <1>3
     DEF CloseClears, netVars, helperVars, Inv, TypeOK, Call, Looped, StaysDown, IsDown, Dialed, Ids, Loops, User,
        Busy, Holding
<1>4. CASE CloseAborts
  BY <1>4
     DEF CloseAborts, connVars, helperVars, Inv, TypeOK, Call, Looped, StaysDown, IsDown, Dialed, Ids, Loops, User,
        Busy, Holding
<1>5. CASE CloseEnds
  BY <1>5, Detached
     DEF CloseEnds, LastWord, LifecycleFree, Inv, TypeOK, Call, Looped, StaysDown, IsDown, Dialed, Ids, Loops, User,
        Busy, Holding
<1>6. ASSUME NEW a \in Ids, ConnectBegins(a) PROVE StaysDown'
  BY <1>6, Moved
     DEF ConnectBegins, LifecycleFree, netVars, helperVars, Inv, TypeOK, Call, Looped, StaysDown, IsDown, Dialed,
        Ids, Loops, User, Busy, Holding
<1>7. ASSUME NEW a \in Ids, ConnectArms(a) PROVE StaysDown'
  BY <1>7, Moved
     DEF ConnectArms, netVars, helperVars, Inv, TypeOK, Call, Looped, StaysDown, IsDown, Dialed, Ids, Loops, User,
        Busy, Holding
<1>8. ASSUME NEW a \in Ids, DialSucceeds(a) PROVE StaysDown'
  BY <1>8, Moved
     DEF DialSucceeds, Cut, helperVars, Inv, TypeOK, Call, Looped, StaysDown, IsDown, Dialed, Ids, Loops, User,
        Busy, Holding
<1>9. ASSUME NEW a \in Ids, DialFails(a) PROVE StaysDown'
  BY <1>9, Moved
     DEF DialFails, connVars, netVars, helperVars, Inv, TypeOK, Call, Looped, StaysDown, IsDown, Dialed, Ids, Loops,
        User, Busy, Holding
<1>10. ASSUME NEW a \in Ids, SetUpAtOnce(a) PROVE StaysDown'
  BY <1>10, IsSetUp
     DEF SetUpAtOnce, StartsHelper, netVars, Inv, TypeOK, Call, Looped, StaysDown, IsDown, Dialed, Ids, Loops, User,
        Busy, Holding
<1>11. ASSUME NEW a \in Ids, BeginInstall(a) PROVE StaysDown'
  BY <1>11, Moved
     DEF BeginInstall, connVars, netVars, Inv, TypeOK, Call, Looped, StaysDown, IsDown, Dialed, Ids, Loops, User,
        Busy, Holding
<1>12. ASSUME NEW a \in Ids, InstallInTime(a) PROVE StaysDown'
  BY <1>12, Moved, IsSetUp
     DEF InstallInTime, connVars, netVars, helperVars, Inv, TypeOK, Call, Looped, StaysDown, IsDown, Dialed, Ids,
        Loops, User, Busy, Holding
<1>13. ASSUME NEW a \in Ids, HandOff(a) PROVE StaysDown'
  BY <1>13, IsSetUp
     DEF HandOff, connVars, netVars, Inv, TypeOK, Call, Looped, StaysDown, IsDown, Dialed, Ids, Loops, User, Busy,
        Holding
<1>14. ASSUME NEW a \in Ids, StartAfterInstall(a) PROVE StaysDown'
  BY <1>14, IsSetUp
     DEF StartAfterInstall, StartsHelper, netVars, Inv, TypeOK, Call, Looped, StaysDown, IsDown, Dialed, Ids, Loops,
        User, Busy, Holding
<1>15. ASSUME NEW a \in Ids, ConnectSucceeds(a) PROVE StaysDown'
  BY <1>15, Moved
     DEF ConnectSucceeds, netVars, helperVars, Inv, TypeOK, Call, Looped, StaysDown, IsDown, Dialed, Ids, Loops,
        User, Busy, Holding
<1>16. ASSUME NEW a \in Ids, ConnectFails(a) PROVE StaysDown'
  BY <1>16, Detached
     DEF ConnectFails, Inv, TypeOK, Call, Looped, StaysDown, IsDown, Dialed, Ids, Loops, User, Busy, Holding
<1>17. ASSUME NEW a \in Ids, ConnectReturns(a) PROVE StaysDown'
  BY <1>17, Moved
     DEF ConnectReturns, netVars, helperVars, Inv, TypeOK, Call, Looped, StaysDown, IsDown, Dialed, Ids, Loops,
        User, Busy, Holding
<1>18. ASSUME NEW a \in Ids, CopyEnds(a) \/ InstallClaims(a) \/ InstallPolls(a) \/ InstallStarts(a) \/
   InstallSets(a)
     PROVE StaysDown'
  <2>1. UNCHANGED <<status, client, reconnect, waiters, connects, down>>
    BY <1>18
       DEF CopyEnds, InstallClaims, InstallPolls, InstallStarts, InstallSets, InstallReturns, InstallSteps,
          connVars, netVars
  <2> QED
    BY <2>1 DEF Inv, StaysDown, IsDown
<1>19. ASSUME NEW c \in Ids, ClientEnds(c) \/ ClientCloses(c) PROVE StaysDown'
  <2>1. UNCHANGED <<status, client, reconnect, waiters, connects, down>>
    BY <1>19 DEF ClientEnds, ClientCloses, connVars, helperVars
  <2> QED
    BY <2>1 DEF Inv, StaysDown, IsDown
<1>20. ASSUME NEW c \in Ids, ClientLost(c) PROVE StaysDown'
  <2>1. down => client # c
    BY DEF Inv, StaysDown, IsDown, Ids
  <2>2. CASE client # c
    <3>1. waiters' = [waiters EXCEPT ![c] = "done"] /\ UNCHANGED <<status, client, reconnect, connects, down>>
      BY <1>20, <2>2 DEF ClientLost
    <3>2. \A d \in Ids : waiters[d] # "decide" => waiters'[d] # "decide"
      BY <3>1 DEF Inv, TypeOK
    <3> QED
      BY <3>1, <3>2 DEF Inv, StaysDown, IsDown
  <2>3. CASE ~down
    BY <1>20, <2>3 DEF ClientLost, StaysDown
  <2> QED
    BY <2>1, <2>2, <2>3
<1>21. ASSUME NEW c \in Ids, MaybeReconnect(c) PROVE StaysDown'
  BY <1>21
     DEF MaybeReconnect, netVars, helperVars, Inv, TypeOK, Call, Looped, StaysDown, IsDown, Dialed, Ids, Loops,
        User, Busy, Holding
<1>22. ASSUME NEW l \in Loops, LoopTries(l) PROVE StaysDown'
  BY <1>22, Called
     DEF LoopTries, connVars, netVars, helperVars, Inv, TypeOK, Call, Looped, StaysDown, IsDown, Dialed, Ids, Loops,
        User, Busy, Holding
<1>23. ASSUME NEW l \in Loops, LoopStops(l) \/ LoopHears(l) PROVE StaysDown'
  <2>1. UNCHANGED <<status, client, reconnect, waiters, connects, down>>
    BY <1>23 DEF LoopStops, LoopHears, LoopSteps, connVars, netVars, helperVars
  <2> QED
    BY <2>1 DEF Inv, StaysDown, IsDown
<1>24. ASSUME NEW l \in Loops, LoopEnds(l) PROVE StaysDown'
  BY <1>24
     DEF LoopEnds, netVars, helperVars, Inv, TypeOK, Call, Looped, StaysDown, IsDown, Dialed, Ids, Loops, User,
        Busy, Holding
<1>25. CASE UNCHANGED vars
  BY <1>25
     DEF vars, connVars, netVars, helperVars, Inv, TypeOK, Call, Looped, StaysDown, IsDown, Dialed, Ids, Loops,
        User, Busy, Holding
<1> QED
  BY <1>1, <1>2, <1>3, <1>4, <1>5, <1>6, <1>7, <1>8, <1>9, <1>10, <1>11, <1>12, <1>13, <1>14, <1>15, <1>16, <1>17,
     <1>18, <1>19, <1>20, <1>21, <1>22, <1>23, <1>24, <1>25
     DEF Next, AtRest

-----------------------------------------------------------------------------
(* The theorems.                                                          *)

(* The initial state satisfies the invariant.                             *)
LEMMA InitInv == SshConnAssumption /\ Init => Inv
<1> SUFFICES ASSUME SshConnAssumption, Init PROVE Inv
  OBVIOUS
<1>1. TypeOK
  <2>1. connects \in [Ids -> Call] /\ installs \in [Ids -> Install] /\ loops \in [Loops -> Loop]
    BY DEF Init, Call, CallPcs, Install, InstallPcs, Loop, LoopPcs
  <2>2. close \in Closer
    BY DEF Init, Closer, SshConnAssumption
  <2>3. /\ {status} \subseteq Statuses /\ alive = {} /\ closing = {} /\ reconnect = 0
        /\ {client, monitor, controller, connectAbort, installCancel} = {0}
        /\ waiters \in [Ids -> {"none", "wait", "decide", "done"}] /\ starts \in [Ids -> 0 .. 2]
        /\ wshInstalling = FALSE /\ down = FALSE
    BY DEF Init, Statuses
  <2> QED
    BY <2>1, <2>2, <2>3 DEF TypeOK
<1>2. Handles
  BY DEF Init, Handles, OneHolder, Released, Held, Holding, Dialed
<1>3. Helpers
  BY DEF Init, Helpers, Helper, Early
<1>4. Looped /\ StaysDown
  BY DEF Init, Looped, StaysDown
<1> QED
  BY <1>1, <1>2, <1>3, <1>4 DEF Inv

(* The invariant holds in every reachable state.                          *)
LEMMA InvHolds == ASSUME SshConnAssumption PROVE Spec => []Inv
<1>1. Init => Inv
  BY InitInv
<1>2. Inv /\ [Next]_vars => Inv'
  BY TypeKept, HandlesKept, HelpersKept, LoopedKept, DownKept DEF Inv
<1> QED
  BY <1>1, <1>2, PTL DEF Spec

(* The variables keep their types.                                        *)
THEOREM SshTypeCorrect == ASSUME SshConnAssumption PROVE Spec => []TypeOK
<1>1. Inv => TypeOK
  BY DEF Inv
<1> QED
  BY <1>1, InvHolds, PTL

(* Status, client and monitor agree between calls, no client that is not  *)
(* being closed is left behind, and a client gets one helper at most: no  *)
(* order of calls, drops and installs makes two handles disagree.         *)
THEOREM SshHandlesBelong == ASSUME SshConnAssumption PROVE Spec => []HandlesBelong
<1>1. Inv => HandlesBelong
  BY DEF Inv, Handles, Released, Helpers, Helper, HandlesBelong, HelperStartedOnce
<1> QED
  BY <1>1, InvHolds, PTL

(* A connection the user closed does not come back by itself.             *)
THEOREM SshClosedStaysClosed == ASSUME SshConnAssumption PROVE Spec => []ClosedStaysClosed
<1>1. Inv => ClosedStaysClosed
  BY DEF Inv, StaysDown, IsDown, ClosedStaysClosed
<1> QED
  BY <1>1, InvHolds, PTL
=============================================================================
