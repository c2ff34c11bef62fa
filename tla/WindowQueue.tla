---------------------------- MODULE WindowQueue ----------------------------
(***************************************************************************)
(* The action queue of a window (emain/emain-window.ts) in shared view     *)
(* mode: the main process serialises the switches, creations and closings  *)
(* of tabs, each of which awaits the backend, while the renderer shows a   *)
(* tab the user clicks at once, the backend closes tabs whose last block   *)
(* exits, and main and backend report back to the renderer on channels of  *)
(* their own.                                                              *)
(*                                                                         *)
(* Bounds: MaxOps user operations, MaxCallFails failing service calls,     *)
(* MaxExits tabs that close by themselves.                                 *)
(***************************************************************************)
EXTENDS Integers, SequencesExt

CONSTANTS Workspaces, Elsewhere, Home, Tabs, InitTabs, NoTab, NoWs,
          MaxOps, MaxCallFails, MaxExits

Null   == "null"
Failed == "failed"

WindowAssumption ==
    /\ Home \in Workspaces \ Elsewhere /\ NoTab \notin Tabs /\ NoWs \notin Workspaces
    /\ InitTabs \in [Workspaces -> Seq(Tabs)] /\ \A w \in Workspaces : InitTabs[w] # <<>>
    /\ {Null, Failed} \cap (Tabs \cup {NoTab}) = {}
    /\ MaxOps \in Nat /\ MaxCallFails \in Nat /\ MaxExits \in Nat

VARIABLES
    tabs,         \* backend: the tabs of each workspace, in order
    active,       \* backend: the active tab of each workspace
    home,         \* backend: the workspace of the window, or NoWs once it is closed
    workspaceId,  \* main: the workspace it believes the window to show
    activeTabId,  \* main
    savedTabId,   \* main: savedInitOpts.tabId of the view, NoTab without a view
    queue,        \* main: actionQueue
    proc,         \* main: where processActionQueue is, with the reply it resumes on
    asking,       \* main: the workspace a switchWorkspace call inquires about
    shownTabId,   \* renderer: activeTabIdAtom, NoTab without a renderer
    known,        \* renderer: the tabs of its workspace object
    echoes,       \* main to renderer: wave-switch-tab
    updates,      \* backend to renderer: the workspace object
    exits,        \* backend to main: electron:updateactivetab
    ops, fails, gone,  \* the bounded counters
    usedTabs,     \* history: the tabs that ever were
    crossed,      \* history: a click or a reload crossed what the main process had under way
    strayed       \* history: a tab became the active one of another workspace than its own

backend    == <<tabs, active, home, usedTabs, strayed>>
windowIds  == <<workspaceId, activeTabId, savedTabId>>
main       == <<windowIds, queue, proc, asking>>
renderer   == <<shownTabId, known>>
wires      == <<echoes, updates, exits>>
bounds     == <<ops, fails, gone, crossed>>
windowVars == <<backend, main, renderer, wires, bounds>>

Entries ==
    [op : {"switchtab"}, tab : Tabs \cup {NoTab}, set : BOOLEAN, own : BOOLEAN]
        \cup [op : {"createtab"}] \cup [op : {"closetab"}, tab : Tabs]
        \cup [op : {"switchworkspace"}, ws : Workspaces]

Idle     == [at |-> "idle"]
Looping  == [at |-> "loop"]
Calling  == [at |-> "call"]
Loading  == [at |-> "load"]
Reply(r) == [at |-> "reply", result |-> r]

\* Where an element is in a list, or 0.
IndexOf(list, e) == IF Contains(list, e) THEN CHOOSE i \in 1 .. Len(list) : list[i] = e ELSE 0

\* The element that replaces cur, which closed, in what is left of the list.
Neighbour(before, after, cur) ==
    IF after = <<>> THEN NoTab
    ELSE LET i == IndexOf(before, cur) - 1
             j == IF i < Len(after) THEN i ELSE Len(after)
         IN  after[IF j < 1 THEN 1 ELSE j]

\* The tab to show when the list changes.
TabAfterClose(before, after, cur) ==
    IF Contains(after, cur) THEN cur ELSE Neighbour(before, after, cur)

WindowInit ==
    /\ tabs = InitTabs
    /\ active = [w \in Workspaces |-> Head(InitTabs[w])]
    /\ home = Home /\ workspaceId = Home
    /\ usedTabs = UNION {ToSet(InitTabs[w]) : w \in Workspaces}
    /\ activeTabId = NoTab /\ savedTabId = NoTab /\ asking = NoWs
    /\ queue = <<[op |-> "switchtab", tab |-> active[Home], set |-> FALSE, own |-> FALSE]>>
    /\ proc = Looping
    /\ shownTabId = NoTab /\ known = <<>>
    /\ echoes = <<>> /\ updates = <<>> /\ exits = <<>>
    /\ ops = 0 /\ fails = 0 /\ gone = 0 /\ crossed = FALSE /\ strayed = FALSE

----------------------------------------------------------------------------
(* What reaches the queue.                                                 *)

\* History: e overlaps with something other than clicks of the renderer.
Crosses(e) ==
    \/ queue # <<>> /\ \E x \in ToSet(queue) \cup {e} : x.op # "switchtab" \/ ~x.own
    \/ echoes # <<>> \/ updates # <<>>

QueueAction(e) ==
    /\ IF Len(queue) >= 2
       THEN queue' = [queue EXCEPT ![2] = e] /\ UNCHANGED proc
       ELSE /\ queue' = Append(queue, e)
            /\ proc' = IF queue = <<>> THEN Looping ELSE proc
    /\ crossed' = (crossed \/ Crosses(e))

UserOp == shownTabId # NoTab /\ home # NoWs /\ ops < MaxOps /\ ops' = ops + 1

SetActiveTab(t) ==
    /\ UserOp /\ Contains(known, t) /\ t # shownTabId
    /\ shownTabId' = t
    /\ QueueAction([op |-> "switchtab", tab |-> t, set |-> TRUE, own |-> TRUE])
    /\ UNCHANGED <<backend, windowIds, asking, known, wires, fails, gone>>

QueueCreateTab ==
    /\ UserOp
    /\ QueueAction([op |-> "createtab"])
    /\ UNCHANGED <<backend, windowIds, asking, renderer, wires, fails, gone>>

QueueCloseTab(t) ==
    /\ UserOp /\ Contains(known, t)
    /\ QueueAction([op |-> "closetab", tab |-> t])
    /\ UNCHANGED <<backend, windowIds, asking, renderer, wires, fails, gone>>

\* switchWorkspace first asks the backend who owns the workspace.
SwitchWorkspace(w) ==
    /\ UserOp /\ asking = NoWs /\ w # workspaceId
    /\ asking' = w
    /\ UNCHANGED <<backend, windowIds, queue, proc, renderer, wires, fails, gone, crossed>>

OwnerKnown ==
    /\ asking # NoWs
    /\ QueueAction([op |-> "switchworkspace", ws |-> asking])
    /\ asking' = NoWs
    /\ UNCHANGED <<backend, windowIds, renderer, wires, ops, fails, gone>>

\* electron:updateactivetab, for the window whose workspace it names.
ActiveTabUpdate ==
    /\ exits # <<>> /\ exits' = Tail(exits)
    /\ IF Head(exits).ws = workspaceId
       THEN QueueAction([op |-> "switchtab", tab |-> Head(exits).tab, set |-> FALSE, own |-> FALSE])
       ELSE UNCHANGED <<queue, proc, crossed>>
    /\ UNCHANGED <<backend, windowIds, asking, renderer, echoes, updates, ops, fails, gone>>

----------------------------------------------------------------------------
(* processActionQueue.                                                     *)

\* The finally block, and the next round of the loop.
Shift  == /\ queue' = Tail(queue)
          /\ proc' = IF Len(queue) = 1 THEN Idle ELSE Looping
\* A return from inside the loop: the finally block and no other round.
Return == /\ queue' = Tail(queue) /\ proc' = Idle

\* The tail of a round: the tab becomes the window's, and its view shows it.
Activate(t, own) ==
    /\ activeTabId' = t
    /\ IF savedTabId = NoTab
       THEN proc' = Loading /\ UNCHANGED <<queue, savedTabId, echoes>>
       ELSE /\ savedTabId' = t
            /\ echoes' = IF own THEN echoes ELSE Append(echoes, t)
            /\ Shift

NeedsBackendMutant(e) == e.op # "switchtab"
NeedsBackend(e) == e.op # "switchtab" \/ (e.set /\ activeTabId # e.tab)

BeginRound ==
    /\ proc = Looping
    /\ LET e == Head(queue)
       IN  IF NeedsBackend(e)
           THEN proc' = Calling /\ UNCHANGED <<activeTabId, savedTabId, queue, echoes>>
           ELSE IF activeTabId = e.tab
           THEN Shift /\ UNCHANGED <<activeTabId, savedTabId, echoes>>
           ELSE Activate(e.tab, e.own)
    /\ UNCHANGED <<backend, workspaceId, asking, renderer, updates, exits, bounds>>

\* A round that failed tells the renderer which tab the window is on.
RecoverMutant == UNCHANGED echoes
Recover ==
    echoes' = IF Len(queue) = 1 /\ savedTabId # NoTab THEN Append(echoes, savedTabId) ELSE echoes

EndCall(e) ==
    /\ LET r == proc.result IN
       CASE r = Failed ->
              /\ Recover /\ Shift
              /\ UNCHANGED <<windowIds, renderer>>
         [] r = Null ->
              Return /\ UNCHANGED <<windowIds, renderer, echoes>>
         [] r \notin {Failed, Null} /\ e.op = "switchworkspace" ->
              /\ workspaceId' = e.ws /\ activeTabId' = r /\ savedTabId' = NoTab
              /\ shownTabId' = NoTab /\ known' = <<>> /\ echoes' = <<>>
              /\ proc' = Loading
              /\ UNCHANGED queue
         [] OTHER ->
              /\ Activate(r, e.op = "switchtab" /\ e.own)
              /\ UNCHANGED <<workspaceId, renderer>>
    /\ UNCHANGED <<backend, asking, updates, exits, bounds>>

\* getOrCreateWebViewForTab and initializeTab, and the renderer's first load.
LoadView ==
    /\ proc = Loading /\ home # NoWs
    /\ savedTabId' = activeTabId
    /\ known' = tabs[home]
    /\ shownTabId' = TabAfterClose(tabs[home], tabs[home], activeTabId)
    /\ echoes' = <<>> /\ updates' = <<>>
    /\ Shift
    /\ UNCHANGED <<backend, workspaceId, activeTabId, asking, exits, bounds>>

----------------------------------------------------------------------------
(* The backend: the service calls of the queue, and tabs that exit.        *)

PublishTabs(w, list) ==
    updates' = IF w = home /\ shownTabId # NoTab THEN Append(updates, list) ELSE updates

Without(list, t) == RemoveAt(list, IndexOf(list, t))

\* The active tab of a workspace after one of its tabs closed.
ActiveAfter(w, t) ==
    IF active[w] # t THEN active[w] ELSE Neighbour(tabs[w], Without(tabs[w], t), t)

DeleteTab(w, t) ==
    /\ tabs' = [tabs EXCEPT ![w] = Without(@, t)]
    /\ active' = [active EXCEPT ![w] = ActiveAfter(w, t)]
    /\ home' = IF ActiveAfter(w, t) = NoTab /\ w = home THEN NoWs ELSE home
    /\ PublishTabs(w, Without(tabs[w], t))

ServeCreate ==
    /\ \E t \in Tabs \ usedTabs :
          /\ tabs' = [tabs EXCEPT ![workspaceId] = Append(@, t)]
          /\ active' = [active EXCEPT ![workspaceId] = t]
          /\ usedTabs' = usedTabs \cup {t}
          /\ proc' = Reply(t)
          /\ PublishTabs(workspaceId, Append(tabs[workspaceId], t))
    /\ UNCHANGED <<home, strayed>>

ServeSetActive(t) ==
    /\ IF \E w \in Workspaces : Contains(tabs[w], t)
       THEN /\ active' = [active EXCEPT ![workspaceId] = t]
            /\ PublishTabs(workspaceId, tabs[workspaceId])
            /\ proc' = Reply(t)
            /\ strayed' = (strayed \/ ~Contains(tabs[workspaceId], t))
       ELSE proc' = Reply(Failed) /\ UNCHANGED <<active, updates, strayed>>
    /\ UNCHANGED <<tabs, home, usedTabs>>

ServeClose(t) ==
    /\ IF Contains(tabs[workspaceId], t)
       THEN /\ DeleteTab(workspaceId, t)
            /\ proc' = Reply(IF active'[workspaceId] = NoTab THEN Null ELSE active'[workspaceId])
       ELSE proc' = Reply(Failed) /\ UNCHANGED <<tabs, active, home, updates>>
    /\ UNCHANGED <<usedTabs, strayed>>

ServeWorkspace(w) ==
    /\ IF w = home \/ w \in Elsewhere
       THEN proc' = Reply(Null) /\ UNCHANGED <<home, updates>>
       ELSE /\ home' = w
            /\ updates' = IF shownTabId # NoTab THEN Append(updates, tabs[w]) ELSE updates
            /\ proc' = Reply(active[w])
    /\ UNCHANGED <<tabs, active, usedTabs, strayed>>

ServeCall ==
    /\ proc = Calling /\ home # NoWs
    /\ LET e == Head(queue)
       IN  \/ e.op = "createtab"       /\ ServeCreate
           \/ e.op = "switchtab"       /\ ServeSetActive(e.tab)
           \/ e.op = "closetab"        /\ ServeClose(e.tab)
           \/ e.op = "switchworkspace" /\ ServeWorkspace(e.ws)
    /\ UNCHANGED <<windowIds, queue, asking, renderer, echoes, exits, bounds>>

CallFails ==
    /\ proc = Calling /\ fails < MaxCallFails
    /\ fails' = fails + 1
    /\ proc' = Reply(Failed)
    /\ UNCHANGED <<backend, windowIds, queue, asking, renderer, wires, ops, gone, crossed>>

\* The last block of a tab is deleted, and the tab with it.
TabExits(w, t) ==
    /\ gone < MaxExits /\ gone' = gone + 1
    /\ home # NoWs /\ Contains(tabs[w], t)
    /\ DeleteTab(w, t)
    /\ exits' = Append(exits, [ws |-> w, tab |-> active'[w]])
    /\ UNCHANGED <<usedTabs, strayed, main, renderer, echoes, ops, fails, crossed>>

----------------------------------------------------------------------------
(* The renderer.                                                           *)

\* wave-switch-tab.
SwitchTab ==
    /\ echoes # <<>> /\ echoes' = Tail(echoes)
    /\ shownTabId' = Head(echoes)
    /\ UNCHANGED <<backend, main, known, updates, exits, bounds>>

SyncWorkspace ==
    /\ updates # <<>> /\ updates' = Tail(updates) /\ shownTabId # NoTab
    /\ known' = Head(updates)
    /\ shownTabId' = TabAfterClose(known, Head(updates), shownTabId)
    /\ UNCHANGED <<backend, main, echoes, exits, bounds>>

\* The renderer reloads and is initialised again from savedInitOpts.
ReloadRenderer ==
    /\ shownTabId # NoTab /\ home # NoWs /\ savedTabId # NoTab
    /\ known' = tabs[home]
    /\ shownTabId' = TabAfterClose(tabs[home], tabs[home], savedTabId)
    /\ echoes' = <<>> /\ updates' = <<>>
    /\ crossed' = (crossed \/ queue # <<>>)
    /\ UNCHANGED <<backend, main, exits, ops, fails, gone>>

WindowNext ==
    \/ \E t \in Tabs : SetActiveTab(t) \/ QueueCloseTab(t)
    \/ QueueCreateTab
    \/ \E w \in Workspaces : SwitchWorkspace(w)
    \/ OwnerKnown \/ ActiveTabUpdate
    \/ BeginRound \/ (proc.at = "reply" /\ EndCall(Head(queue))) \/ LoadView
    \/ ServeCall \/ CallFails
    \/ \E w \in Workspaces, t \in Tabs : TabExits(w, t)
    \/ SwitchTab \/ SyncWorkspace \/ ReloadRenderer

WindowSpec == WindowInit /\ [][WindowNext]_windowVars

----------------------------------------------------------------------------
AtRest == /\ proc = Idle /\ queue = <<>> /\ home # NoWs
          /\ echoes = <<>> /\ updates = <<>> /\ exits = <<>>

\* Type invariant; the queue never holds more than the action in process
\* and one that waits.
WindowTypeOK ==
    /\ tabs \in [Workspaces -> Seq(usedTabs)] /\ usedTabs \subseteq Tabs
    /\ active \in [Workspaces -> Tabs \cup {NoTab}]
    /\ home \in Workspaces \cup {NoWs} /\ workspaceId \in Workspaces
    /\ {activeTabId, savedTabId, shownTabId} \subseteq Tabs \cup {NoTab}
    /\ queue \in Seq(Entries) /\ Len(queue) <= 2
    /\ proc.at # "idle" => queue # <<>>
    /\ asking \in Workspaces \cup {NoWs}

\* Unless a tab closed by itself, the main process and the backend agree,
\* whenever all is quiet, on the workspace and the active tab of the window,
\* whatever was overwritten in the queue, failed, or crossed what.
MainFollowsBackend == AtRest /\ gone = 0 => workspaceId = home /\ activeTabId = active[workspaceId]

\* When all is quiet the renderer shows a tab that still exists, unless a click
\* on a tab of the old workspace, waiting behind a switch of workspace, has made
\* that tab the active one of the new workspace.
ShownExists == AtRest /\ gone = 0 /\ ~strayed => Contains(tabs[home], shownTabId)

\* The renderer, which shows a clicked tab before anyone agreed, ends on the
\* window's active tab: a refused or failed switch is taken back. Only what
\* overlaps with an action of another kind may leave the two apart.
ShownIsActive == AtRest /\ gone = 0 /\ ~crossed => shownTabId = activeTabId

\* "we don't mess with [0] because it is 'in process'" (processActionQueue).
\* Refuted: a return from inside the loop, as when SwitchWorkspace only
\* focuses another window, leaves the waiting action at [0] with no one to
\* run it, and no later action starts the loop again.
HeadInProcess == queue # <<>> /\ home # NoWs => proc # Idle
=============================================================================
