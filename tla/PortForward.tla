---------------------------- MODULE PortForward ----------------------------
(***************************************************************************)
(* The port forwarding manager (portforward/manager.go), for one connection *)
(* and one remote port.  A forward listens on a local port; a connection it *)
(* accepts becomes a session, with one goroutine that dials through the SSH *)
(* client and one that serves.  The methods run under m.lock, so that each *)
(* is an action.  Forwards, sessions and clients are numbered in the order *)
(* they are made; 0 is none.                                               *)
(***************************************************************************)
EXTENDS Naturals, FiniteSets

CONSTANTS
  MaxForwards, MaxSessions, MaxClients,  \* how many are ever made
  SessionLimit, DialLimit                \* maxSessions and maxPendingDials

PortForwardAssumption ==
  /\ {MaxForwards, MaxSessions, MaxClients} \subseteq Nat
  /\ {SessionLimit, DialLimit} \subseteq Nat \ {0}

VARIABLES
  conn,         \* the SSH connection: its last client, and whether it is up
  hungUp,       \* the clients CloseAll closed
  live,         \* the forward in m.forwards and m.keys
  forwards,     \* every forward that was made: a session keeps its own
  sessions,     \* every session that was made
  sessionCount, dialCount,
  closed        \* CloseAll was called

fwdVars == <<live, forwards, sessions, sessionCount, dialCount>>
vars == <<conn, hungUp, fwdVars, closed>>

Clients == 1 .. MaxClients
Forwards == 1 .. MaxForwards
Sessions == 1 .. MaxSessions

(* The last three are errors, by what caused them.                          *)
Statuses == {"waiting", "active", "limit", "unreachable", "broken"}

TypeOK ==
  /\ conn \in [client : Clients \cup {0}, up : BOOLEAN]
  /\ hungUp \subseteq Clients /\ live \in Forwards \cup {0}
  /\ forwards \in [Forwards -> [client : Clients \cup {0}, status : Statuses, conns : 0 .. MaxSessions,
                                accept : {"none", "runs", "ended"}]]
  /\ sessions \in [Sessions -> [forward : Forwards \cup {0}, client : Clients \cup {0},
                                dial : {"none", "dial", "send", "finish", "done"},
                                serve : {"none", "wait", "got", "activate", "relay", "finish", "done"},
                                canceled : BOOLEAN, timedOut : BOOLEAN, active : BOOLEAN,
                                local : BOOLEAN, remote : BOOLEAN]]
  /\ sessionCount \in 0 .. SessionLimit /\ dialCount \in 0 .. DialLimit
  /\ closed \in BOOLEAN

Init ==
  /\ conn = [client |-> 0, up |-> FALSE] /\ hungUp = {} /\ live = 0
  /\ forwards = [f \in Forwards |-> [client |-> 0, status |-> "waiting", conns |-> 0, accept |-> "none"]]
  /\ sessions = [s \in Sessions |-> [forward |-> 0, client |-> 0, dial |-> "none", serve |-> "none",
                                     canceled |-> FALSE, timedOut |-> FALSE, active |-> FALSE,
                                     local |-> FALSE, remote |-> FALSE]]
  /\ sessionCount = 0 /\ dialCount = 0
  /\ closed = FALSE

-----------------------------------------------------------------------------
(* The methods call each other under the lock: what each does to a forward *)
(* and the sessions is a function of a state m.                            *)

State(f) == [live |-> live = f, forward |-> forwards[f], sessions |-> sessions]

Commits(f, m) ==
  /\ forwards' = [forwards EXCEPT ![f] = m.forward]
  /\ sessions' = m.sessions

lookup == IF conn.up THEN conn.client ELSE 0

statusLocked(m, status) == [m EXCEPT !.forward.status = status]

deactivateLocked(m, S) ==
  LET on == {s \in S : m.sessions[s].active} IN
  [m EXCEPT !.forward.conns = @ - Cardinality(on),
            !.sessions = [s \in Sessions |-> IF s \in on THEN [@[s] EXCEPT !.active = FALSE] ELSE @[s]]]

(* Every session that serve has not taken out is closed and canceled.       *)
dropSessions(f, m) ==
  LET S == {s \in Sessions : m.sessions[s].forward = f /\ m.sessions[s].serve # "done"}
      cut == [s \in Sessions |-> IF s \in S THEN [m.sessions[s] EXCEPT !.local = FALSE, !.canceled = TRUE]
                                 ELSE m.sessions[s]]
  IN  deactivateLocked([m EXCEPT !.sessions = cut], S)

(* Mutant: the sessions through the old client go on.                       *)
refreshLockedMutant(f, m) ==
  IF lookup = m.forward.client THEN m
  ELSE statusLocked([m EXCEPT !.forward.client = lookup], "waiting")

refreshLocked(f, m) ==
  IF lookup = m.forward.client THEN m
  ELSE dropSessions(f, statusLocked([m EXCEPT !.forward.client = lookup], "waiting"))

removeLocked(f, m) == dropSessions(f, m)

(* The context it is given has ended or not.                                *)
dialFailed(f, client, ended, m) ==
  IF ended \/ ~m.live THEN m
  ELSE IF lookup # client THEN refreshLocked(f, m) ELSE statusLocked(refreshLocked(f, m), "unreachable")

-----------------------------------------------------------------------------
(* The SSH connection, and what is told of it.                              *)

ConnChanges ==
  /\ \/ conn.up /\ conn' = [conn EXCEPT !.up = FALSE]
     \/ ~conn.up /\ conn.client < MaxClients /\ conn' = [client |-> conn.client + 1, up |-> TRUE]
  /\ UNCHANGED <<hungUp, fwdVars, closed>>

Refresh ==
  /\ live # 0 /\ lookup # forwards[live].client
  /\ Commits(live, refreshLocked(live, State(live)))
  /\ UNCHANGED <<conn, hungUp, live, sessionCount, dialCount, closed>>

-----------------------------------------------------------------------------
(* Forwards                                                                *)

(* Start, where the remote port has no forward and a local port is free.    *)
Start(f) ==
  /\ ~closed /\ live = 0
  /\ forwards[f].accept = "none" /\ \A g \in Forwards : g < f => forwards[g].accept # "none"
  /\ live' = f
  /\ forwards' = [forwards EXCEPT ![f].client = lookup, ![f].accept = "runs"]
  /\ UNCHANGED <<conn, hungUp, sessions, sessionCount, dialCount, closed>>

Stop ==
  /\ live # 0
  /\ live' = 0
  /\ Commits(live, removeLocked(live, State(live)))
  /\ UNCHANGED <<conn, hungUp, sessionCount, dialCount, closed>>

(* Accept returns an error: the listener was closed, or broke by itself.    *)
listenerFailed(f) ==
  /\ forwards[f].accept = "runs"
  /\ LET m == [State(f) EXCEPT !.forward.accept = "ended"] IN
     Commits(f, IF m.live THEN statusLocked(m, "broken") ELSE m)
  /\ UNCHANGED <<conn, hungUp, live, sessionCount, dialCount, closed>>

(* A local connection.                                                      *)
accept(s) ==
  /\ ~closed /\ live # 0 /\ forwards[live].accept = "runs"
  /\ sessions[s].serve = "none" /\ \A t \in Sessions : t < s => sessions[t].serve # "none"
  /\ LET m == refreshLocked(live, State(live))
         begun == [m EXCEPT !.sessions[s].forward = live, !.sessions[s].client = lookup,
                            !.sessions[s].dial = "dial", !.sessions[s].serve = "wait",
                            !.sessions[s].local = TRUE]
     IN  \/ /\ lookup = 0
            /\ Commits(live, statusLocked(m, "waiting"))
            /\ UNCHANGED <<sessionCount, dialCount>>
         \/ /\ lookup # 0 /\ (sessionCount >= SessionLimit \/ dialCount >= DialLimit)
            /\ Commits(live, statusLocked(m, "limit"))
            /\ UNCHANGED <<sessionCount, dialCount>>
         \/ /\ lookup # 0 /\ sessionCount < SessionLimit /\ dialCount < DialLimit
            /\ Commits(live, begun)
            /\ sessionCount' = sessionCount + 1 /\ dialCount' = dialCount + 1
  /\ UNCHANGED <<conn, hungUp, live, closed>>

-----------------------------------------------------------------------------
(* The goroutine that dials                                                *)

Sets(s, field, value) == sessions' = [sessions EXCEPT ![s][field] = value]

dialEnded(s) == sessions[s].canceled \/ sessions[s].timedOut

DialConnects(s) ==
  /\ sessions[s].dial = "dial" /\ sessions[s].client = lookup /\ lookup \notin hungUp
  /\ sessions' = [sessions EXCEPT ![s].dial = "send", ![s].remote = TRUE]
  /\ UNCHANGED <<conn, hungUp, live, forwards, sessionCount, dialCount, closed>>

DialFails(s) ==
  /\ sessions[s].dial = "dial"
  /\ LET f == sessions[s].forward
         m == dialFailed(f, sessions[s].client, dialEnded(s), State(f))
     IN  Commits(f, [m EXCEPT !.sessions[s].dial = "send"])
  /\ UNCHANGED <<conn, hungUp, live, sessionCount, dialCount, closed>>

(* Mutant: a connection made too late is not closed.                        *)
DialDropsMutant(s) ==
  /\ sessions[s].dial = "send" /\ dialEnded(s)
  /\ Sets(s, "dial", "finish")
  /\ UNCHANGED <<conn, hungUp, live, forwards, sessionCount, dialCount, closed>>

DialDrops(s) ==
  /\ sessions[s].dial = "send" /\ dialEnded(s)
  /\ sessions' = [sessions EXCEPT ![s].dial = "finish", ![s].remote = FALSE]
  /\ UNCHANGED <<conn, hungUp, live, forwards, sessionCount, dialCount, closed>>

dialFinished(s) ==
  /\ sessions[s].dial = "finish"
  /\ Sets(s, "dial", "done")
  /\ dialCount' = dialCount - 1
  /\ UNCHANGED <<conn, hungUp, live, forwards, sessionCount, closed>>

-----------------------------------------------------------------------------
(* The goroutine that serves                                               *)

(* Its deferred calls, up to finish.                                        *)
Leaves(s, m) ==
  [m EXCEPT !.sessions[s].serve = "finish", !.sessions[s].local = FALSE, !.sessions[s].canceled = TRUE]

(* dialTimeout runs out, unless serve has canceled the dial's context.      *)
TimesOut(s) ==
  /\ sessions[s].serve \in {"wait", "got"} /\ ~dialEnded(s)
  /\ Sets(s, "timedOut", TRUE)
  /\ UNCHANGED <<conn, hungUp, live, forwards, sessionCount, dialCount, closed>>

ServeWaits(s) ==
  /\ sessions[s].serve = "wait"
  /\ LET f == sessions[s].forward
         m == State(f)
     IN  \/ /\ sessions[s].dial = "send"
            /\ LET got == [m EXCEPT !.sessions[s].dial = "finish"] IN
               Commits(f, IF sessions[s].remote THEN [got EXCEPT !.sessions[s].serve = "got"] ELSE Leaves(s, got))
         \/ /\ dialEnded(s)
            /\ Commits(f, Leaves(s, dialFailed(f, sessions[s].client, sessions[s].canceled, m)))
  /\ UNCHANGED <<conn, hungUp, live, sessionCount, dialCount, closed>>

ServeGets(s) ==
  /\ sessions[s].serve = "got"
  /\ LET f == sessions[s].forward
         m == dialFailed(f, sessions[s].client, sessions[s].canceled, State(f))
     IN  \/ ~dialEnded(s) /\ Commits(f, [State(f) EXCEPT !.sessions[s].serve = "activate"])
         \/ dialEnded(s) /\ Commits(f, Leaves(s, [m EXCEPT !.sessions[s].remote = FALSE]))
  /\ UNCHANGED <<conn, hungUp, live, sessionCount, dialCount, closed>>

activate(s) ==
  /\ sessions[s].serve = "activate"
  /\ LET f == sessions[s].forward
         m == IF live = f THEN refreshLocked(f, State(f)) ELSE State(f)
         refused == live # f \/ lookup # sessions[s].client \/ sessions[s].canceled
         on == [m EXCEPT !.sessions[s].active = TRUE, !.sessions[s].serve = "relay", !.forward.conns = @ + 1]
     IN  \/ refused /\ Commits(f, Leaves(s, [m EXCEPT !.sessions[s].remote = FALSE]))
         \/ ~refused /\ Commits(f, statusLocked(on, "active"))
  /\ UNCHANGED <<conn, hungUp, live, sessionCount, dialCount, closed>>

(* A side ends the exchange, or the session is canceled.                    *)
RelayEnds(s) ==
  /\ sessions[s].serve = "relay"
  /\ LET f == sessions[s].forward IN
     Commits(f, Leaves(s, [deactivateLocked(State(f), {s}) EXCEPT !.sessions[s].remote = FALSE]))
  /\ UNCHANGED <<conn, hungUp, live, sessionCount, dialCount, closed>>

finish(s) ==
  /\ sessions[s].serve = "finish"
  /\ LET f == sessions[s].forward IN
     Commits(f, [deactivateLocked(State(f), {s}) EXCEPT !.sessions[s].serve = "done"])
  /\ sessionCount' = sessionCount - 1
  /\ UNCHANGED <<conn, hungUp, live, dialCount, closed>>

-----------------------------------------------------------------------------
(* CloseAll                                                                *)

pending == {sessions[s].client : s \in {t \in Sessions : sessions[t].dial \notin {"none", "done"}}}

(* shutdown, and the clients with a pending dial are closed.                *)
shutdown ==
  /\ ~closed
  /\ closed' = TRUE
  /\ live' = 0
  /\ IF live = 0 THEN UNCHANGED <<forwards, sessions>> ELSE Commits(live, removeLocked(live, State(live)))
  /\ hungUp' = pending
  /\ UNCHANGED <<conn, sessionCount, dialCount>>

(* m.workers.Wait returns.                                                  *)
WorkersEnded ==
  /\ closed
  /\ \A f \in Forwards : forwards[f].accept # "runs"
  /\ \A s \in Sessions : sessions[s].dial \in {"none", "done"} /\ sessions[s].serve \in {"none", "done"}
  /\ UNCHANGED vars

Next ==
  \/ ConnChanges \/ Refresh \/ Stop
  \/ \E f \in Forwards : Start(f) \/ listenerFailed(f)
  \/ \E s \in Sessions :
       \/ accept(s) \/ DialConnects(s) \/ DialFails(s) \/ DialDrops(s) \/ dialFinished(s)
       \/ TimesOut(s) \/ ServeWaits(s) \/ ServeGets(s) \/ activate(s) \/ RelayEnds(s) \/ finish(s)
  \/ shutdown \/ WorkersEnded

Spec == Init /\ [][Next]_vars

-----------------------------------------------------------------------------
(* The counters of the limits and of a forward's connections are those of   *)
(* the sessions; a session whose goroutines have ended holds no connection  *)
(* open; and CloseAll waits for no dial whose transport it left open.       *)
SessionsAccounted ==
  /\ sessionCount = Cardinality({s \in Sessions : sessions[s].serve \notin {"none", "done"}})
  /\ dialCount = Cardinality({s \in Sessions : sessions[s].dial \notin {"none", "done"}})
  /\ \A f \in Forwards :
       forwards[f].conns = Cardinality({s \in Sessions : sessions[s].forward = f /\ sessions[s].active})
  /\ \A s \in Sessions :
       /\ sessions[s].serve = "done" /\ sessions[s].dial = "done" => ~sessions[s].local /\ ~sessions[s].remote
       /\ closed /\ sessions[s].dial = "dial" => sessions[s].client \in hungUp

(* A session that relays does so for the forward that is listed and through *)
(* the client it has; a forward that waits for its connection relays        *)
(* nothing.                                                                 *)
RelaysBelong ==
  \A s \in Sessions : sessions[s].active =>
    /\ sessions[s].forward = live /\ sessions[s].client = forwards[live].client
    /\ ~sessions[s].canceled /\ sessions[s].local /\ sessions[s].remote
    /\ forwards[live].status # "waiting"
=============================================================================
