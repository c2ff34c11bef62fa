------------------------- MODULE PortForwardProofs -------------------------
(***************************************************************************)
(* What TLAPS proves of PortForward, for every limit and any number of     *)
(* forwards, sessions and clients: counters and types are right, and what  *)
(* relays does so for the forward that is listed, through the client it    *)
(* has.  The methods are functions of a state, so the lemmas are about     *)
(* those: what is sound of a state stays so in each of them.               *)
(***************************************************************************)
EXTENDS PortForward, FiniteSetTheorems, TLAPS

ForwardType == [client : Clients \cup {0}, status : Statuses, conns : 0 .. MaxSessions,
                accept : {"none", "runs", "ended"}]
SessionType == [forward : Forwards \cup {0}, client : Clients \cup {0},
                dial : {"none", "dial", "send", "finish", "done"},
                serve : {"none", "wait", "got", "activate", "relay", "finish", "done"},
                canceled : BOOLEAN, timedOut : BOOLEAN, active : BOOLEAN,
                local : BOOLEAN, remote : BOOLEAN]
StateType == [live : BOOLEAN, forward : ForwardType, sessions : [Sessions -> SessionType]]

-----------------------------------------------------------------------------
(* The invariant                                                            *)

Connected == {"got", "activate", "relay"}
Serving == Connected \cup {"wait"}

(* Where the two goroutines of a session stand says which connections it    *)
(* holds and whether its context is canceled.                               *)
Shape(r) ==
  /\ r.serve = "none" <=> r.dial = "none"
  /\ r.serve = "none" => r.forward = 0 /\ ~r.local /\ ~r.canceled
  /\ r.serve # "none" => r.forward # 0 /\ r.client # 0
  /\ r.serve \in Connected => r.remote /\ r.dial \in {"finish", "done"}
  /\ r.remote /\ r.serve \notin Connected => r.dial = "send"
  /\ r.serve \in Serving /\ ~r.canceled => r.local
  /\ r.serve \in {"finish", "done"} => r.canceled /\ ~r.local
  /\ r.active => r.serve = "relay" /\ ~r.canceled

On(f, m) == {s \in Sessions : m.sessions[s].forward = f /\ m.sessions[s].active}

(* A session that was not canceled belongs to a forward that is listed and  *)
(* to its client; those that relay are counted.                             *)
Sound(f, m) ==
  /\ m \in StateType
  /\ \A s \in Sessions : Shape(m.sessions[s])
  /\ \A s \in Sessions :
       m.sessions[s].forward = f /\ ~m.sessions[s].canceled =>
         m.live /\ m.sessions[s].client = m.forward.client
  /\ \A s \in On(f, m) : m.forward.status # "waiting"
  /\ m.forward.conns = Cardinality(On(f, m))

Served == {s \in Sessions : sessions[s].serve \notin {"none", "done"}}
Dialed == {s \in Sessions : sessions[s].dial \notin {"none", "done"}}

Shapes == \A s \in Sessions : Shape(sessions[s])

Inv ==
  /\ TypeOK /\ Shapes
  /\ \A f \in Forwards : Sound(f, State(f))
  /\ sessionCount = Cardinality(Served) /\ dialCount = Cardinality(Dialed)
  /\ \A s \in Sessions : closed /\ sessions[s].dial = "dial" => sessions[s].client \in hungUp

-----------------------------------------------------------------------------
(* Sets of sessions                                                         *)

(* Any set of sessions is finite, and can be counted.                       *)
LEMMA Counting ==
  ASSUME PortForwardAssumption, NEW S \in SUBSET Sessions
  PROVE  IsFiniteSet(S) /\ Cardinality(S) \in 0 .. MaxSessions
<1>1. IsFiniteSet(Sessions) /\ Cardinality(Sessions) = MaxSessions
  BY FS_Interval DEF PortForwardAssumption, Sessions
<1> QED
  BY <1>1, FS_Subset, FS_CardinalityType DEF PortForwardAssumption

(* One session more or less.                                                *)
LEMMA CountOne ==
  ASSUME PortForwardAssumption, NEW S \in SUBSET Sessions, NEW s \in Sessions
  PROVE  /\ s \notin S => Cardinality(S \cup {s}) = Cardinality(S) + 1
         /\ s \in S => Cardinality(S) > 0 /\ Cardinality(S \ {s}) = Cardinality(S) - 1
<1>1. IsFiniteSet(S) /\ Cardinality(S) \in Nat
  BY Counting, FS_CardinalityType
<1>2. s \in S => S # {}
  OBVIOUS
<1> QED
  <2>1. s \notin S => Cardinality(S \cup {s}) = Cardinality(S) + 1
    BY <1>1, FS_AddElement
  <2>2. Cardinality(S \ {s}) = IF s \in S THEN Cardinality(S) - 1 ELSE Cardinality(S)
    BY <1>1, FS_RemoveElement
  <2>3. s \in S => Cardinality(S) # 0
    BY <1>1, <1>2, FS_EmptySet
  <2> QED
    BY <1>1, <2>1, <2>2, <2>3

-----------------------------------------------------------------------------
(* The functions of a state                                                 *)

(* What they leave alone: all but who is canceled, relays and is local, and *)
(* the sessions of other forwards entirely.                                 *)
Like(f, m, n) ==
  /\ n.live = m.live /\ n.forward.accept = m.forward.accept
  /\ \A s \in Sessions :
       /\ n.sessions[s].forward = m.sessions[s].forward /\ n.sessions[s].client = m.sessions[s].client
       /\ n.sessions[s].dial = m.sessions[s].dial /\ n.sessions[s].serve = m.sessions[s].serve
       /\ n.sessions[s].remote = m.sessions[s].remote
       /\ m.sessions[s].forward # f => n.sessions[s] = m.sessions[s]

(* A status that is not "waiting", or that no session disturbs.             *)
LEMMA StatusSound ==
  ASSUME NEW f \in Forwards, NEW m, Sound(f, m), NEW status \in Statuses,
         status # "waiting" \/ On(f, m) = {}
  PROVE  /\ Sound(f, statusLocked(m, status)) /\ Like(f, m, statusLocked(m, status))
         /\ statusLocked(m, status).sessions = m.sessions
         /\ statusLocked(m, status).forward.client = m.forward.client
<1> DEFINE n == statusLocked(m, status)
<1>1. m \in StateType
  BY DEF Sound
<1>2. /\ n \in StateType /\ n.live = m.live /\ n.sessions = m.sessions
      /\ n.forward = [m.forward EXCEPT !.status = status]
  BY <1>1 DEF statusLocked, StateType, ForwardType
<1>3. /\ n.forward.status = status /\ n.forward.conns = m.forward.conns
      /\ n.forward.client = m.forward.client /\ n.forward.accept = m.forward.accept
  BY <1>1, <1>2 DEF StateType, ForwardType
<1>4. On(f, n) = On(f, m)
  BY <1>2 DEF On
<1> HIDE DEF n
<1>5. Sound(f, n)
  BY <1>2, <1>3, <1>4 DEF Sound
<1>6. Like(f, m, n)
  BY <1>2, <1>3 DEF Like
<1> QED
  BY <1>2, <1>3, <1>5, <1>6 DEF n

(* A session that is closed and canceled, and one that relays no more.      *)
LEMMA CutIs ==
  ASSUME NEW r \in SessionType
  PROVE  LET c == [r EXCEPT !.local = FALSE, !.canceled = TRUE]
             d == [r EXCEPT !.active = FALSE]
         IN  /\ c \in SessionType /\ ~c.local /\ c.canceled /\ c.active = r.active
             /\ c.forward = r.forward /\ c.client = r.client /\ c.dial = r.dial
             /\ c.serve = r.serve /\ c.remote = r.remote
             /\ d \in SessionType /\ ~d.active /\ d.local = r.local /\ d.canceled = r.canceled
             /\ d.forward = r.forward /\ d.client = r.client /\ d.dial = r.dial
             /\ d.serve = r.serve /\ d.remote = r.remote
  BY DEF SessionType

(* deactivateLocked, on a state all of whose parts are known.               *)
LEMMA DeactivateIs ==
  ASSUME NEW m \in StateType, NEW S \in SUBSET Sessions
  PROVE  LET n == deactivateLocked(m, S)
             on == {s \in S : m.sessions[s].active}
         IN  /\ n = [live |-> m.live, forward |-> n.forward, sessions |-> n.sessions]
             /\ n.forward = [m.forward EXCEPT !.conns = m.forward.conns - Cardinality(on)]
             /\ n.sessions \in [Sessions -> SessionType]
             /\ \A s \in Sessions \ on : n.sessions[s] = m.sessions[s]
             /\ \A s \in on : n.sessions[s] = [m.sessions[s] EXCEPT !.active = FALSE]
<1> DEFINE on == {s \in S : m.sessions[s].active}
           c == Cardinality(on)
           n == deactivateLocked(m, S)
           q == [s \in Sessions |-> IF s \in on THEN [m.sessions[s] EXCEPT !.active = FALSE] ELSE m.sessions[s]]
<1>1. /\ m.live \in BOOLEAN /\ m.forward \in ForwardType /\ m.sessions \in [Sessions -> SessionType]
      /\ m = [live |-> m.live, forward |-> m.forward, sessions |-> m.sessions]
  BY DEF StateType
<1>2. n = [live |-> m.live, forward |-> [m.forward EXCEPT !.conns = m.forward.conns - c], sessions |-> q]
  <2>1. n = [m EXCEPT !.forward.conns = @ - c,
                      !.sessions = [s \in Sessions |-> IF s \in on THEN [@[s] EXCEPT !.active = FALSE] ELSE @[s]]]
    BY DEF deactivateLocked
  <2> HIDE DEF on, c
  <2> QED
    BY <1>1, <2>1
<1>3. q \in [Sessions -> SessionType]
  <2> SUFFICES ASSUME NEW s \in Sessions PROVE q[s] \in SessionType
    OBVIOUS
  <2> QED
    BY <1>1, CutIs
<1> QED
  BY <1>2, <1>3

(* After dropSessions nothing of the forward relays and all is canceled, so *)
(* it may have been given another client, or be no longer listed, before.   *)
LEMMA DropSound ==
  ASSUME PortForwardAssumption, NEW f \in Forwards, NEW m \in StateType,
         \A s \in Sessions : Shape(m.sessions[s]),
         m.forward.conns = Cardinality(On(f, m))
  PROVE  LET n == dropSessions(f, m) IN
         /\ Sound(f, n) /\ Like(f, m, n) /\ On(f, n) = {}
         /\ \A s \in Sessions : n.sessions[s].forward = f => n.sessions[s].canceled
         /\ n.forward.client = m.forward.client /\ n.forward.status = m.forward.status
<1> DEFINE S == {s \in Sessions : m.sessions[s].forward = f /\ m.sessions[s].serve # "done"}
           Cut(r) == [r EXCEPT !.local = FALSE, !.canceled = TRUE]
           cut == [s \in Sessions |-> IF s \in S THEN Cut(m.sessions[s]) ELSE m.sessions[s]]
           k == [m EXCEPT !.sessions = cut]
           on == {s \in S : k.sessions[s].active}
           n == dropSessions(f, m)
<1>1. /\ m.live \in BOOLEAN /\ m.forward \in ForwardType /\ m.sessions \in [Sessions -> SessionType]
      /\ m = [live |-> m.live, forward |-> m.forward, sessions |-> m.sessions]
  BY DEF StateType
<1>2. /\ k = [live |-> m.live, forward |-> m.forward, sessions |-> cut]
      /\ n = deactivateLocked(k, S)
  <2>1. k = [live |-> m.live, forward |-> m.forward, sessions |-> cut]
    <3> HIDE DEF cut
    <3> QED
      BY <1>1
  <2> QED
    BY <2>1 DEF dropSessions
<1>3. \A s \in S : Cut(m.sessions[s]) \in SessionType
  BY <1>1, CutIs
<1>4. cut \in [Sessions -> SessionType] /\ k \in StateType
  BY <1>1, <1>2, <1>3 DEF StateType
<1>5. \A s \in S : /\ ~cut[s].local /\ cut[s].canceled
                   /\ cut[s].forward = m.sessions[s].forward /\ cut[s].client = m.sessions[s].client
                   /\ cut[s].dial = m.sessions[s].dial /\ cut[s].serve = m.sessions[s].serve
                   /\ cut[s].remote = m.sessions[s].remote /\ cut[s].active = m.sessions[s].active
  BY <1>1, CutIs
<1>6. \A s \in Sessions \ S : cut[s] = m.sessions[s]
  OBVIOUS
<1> HIDE DEF cut, k
<1>7. on = On(f, m)
  <2>1. f # 0
    BY DEF Forwards
  <2>2. \A s \in Sessions : m.sessions[s].active => m.sessions[s].serve # "done"
    BY DEF Shape
  <2>3. k.sessions = cut
    BY <1>2
  <2> QED
    BY <1>5, <2>1, <2>2, <2>3 DEF On
<1>8. /\ n = [live |-> m.live, forward |-> n.forward, sessions |-> n.sessions]
      /\ n.forward = [m.forward EXCEPT !.conns = m.forward.conns - Cardinality(on)]
      /\ n.sessions \in [Sessions -> SessionType]
      /\ \A s \in Sessions \ on : n.sessions[s] = cut[s]
      /\ \A s \in on : n.sessions[s] = [cut[s] EXCEPT !.active = FALSE]
  <2>1. S \in SUBSET Sessions
    OBVIOUS
  <2> HIDE DEF S
  <2>2. k.live = m.live /\ k.forward = m.forward /\ k.sessions = cut
    BY <1>2
  <2>3. n = deactivateLocked(k, S)
    BY <1>2
  <2> HIDE DEF n
  <2>4. /\ n = [live |-> k.live, forward |-> n.forward, sessions |-> n.sessions]
        /\ n.forward = [k.forward EXCEPT !.conns = k.forward.conns - Cardinality(on)]
        /\ n.sessions \in [Sessions -> SessionType]
        /\ \A s \in Sessions \ on : n.sessions[s] = k.sessions[s]
        /\ \A s \in on : n.sessions[s] = [k.sessions[s] EXCEPT !.active = FALSE]
    <3> DEFINE p == deactivateLocked(k, S)
    <3>1. /\ p = [live |-> k.live, forward |-> p.forward, sessions |-> p.sessions]
          /\ p.forward = [k.forward EXCEPT !.conns = k.forward.conns - Cardinality(on)]
          /\ p.sessions \in [Sessions -> SessionType]
          /\ \A s \in Sessions \ on : p.sessions[s] = k.sessions[s]
          /\ \A s \in on : p.sessions[s] = [k.sessions[s] EXCEPT !.active = FALSE]
      <4> HIDE DEF k
      <4> QED
        BY <1>4, <2>1, DeactivateIs, Zenon
    <3> HIDE DEF p, k, on
    <3> QED
      BY <2>3, <3>1 DEF p
  <2> HIDE DEF on
  <2> QED
    BY <2>2, <2>4
<1> HIDE DEF n
<1>9. /\ n.forward = [m.forward EXCEPT !.conns = 0] /\ n.forward.conns = 0
      /\ n.forward.client = m.forward.client /\ n.forward.status = m.forward.status
      /\ n.forward.accept = m.forward.accept
      /\ n.forward \in ForwardType /\ n.live = m.live
  <2>1. m.forward.conns - Cardinality(on) = 0
    <3>1. m.forward.conns \in 0 .. MaxSessions
      BY <1>1 DEF ForwardType
    <3> HIDE DEF on
    <3> QED
      BY <1>7, <3>1
  <2>2. 0 \in 0 .. MaxSessions
    BY DEF PortForwardAssumption
  <2>3. n.forward = [m.forward EXCEPT !.conns = 0] /\ n.live = m.live
    <3> HIDE DEF on
    <3> QED
      BY <1>8, <2>1
  <2> QED
    BY <1>1, <2>2, <2>3 DEF ForwardType
<1>10. \A s \in Sessions :
         /\ n.sessions[s].forward = m.sessions[s].forward /\ n.sessions[s].client = m.sessions[s].client
         /\ n.sessions[s].dial = m.sessions[s].dial /\ n.sessions[s].serve = m.sessions[s].serve
         /\ n.sessions[s].remote = m.sessions[s].remote
         /\ s \in S => ~n.sessions[s].active /\ ~n.sessions[s].local /\ n.sessions[s].canceled
         /\ s \notin S => n.sessions[s] = m.sessions[s]
  <2> SUFFICES ASSUME NEW s \in Sessions
               PROVE  /\ n.sessions[s].forward = m.sessions[s].forward /\ n.sessions[s].client = m.sessions[s].client
                      /\ n.sessions[s].dial = m.sessions[s].dial /\ n.sessions[s].serve = m.sessions[s].serve
                      /\ n.sessions[s].remote = m.sessions[s].remote
                      /\ s \in S => ~n.sessions[s].active /\ ~n.sessions[s].local /\ n.sessions[s].canceled
                      /\ s \notin S => n.sessions[s] = m.sessions[s]
    OBVIOUS
  <2>0. on = {t \in S : cut[t].active} /\ cut[s] \in SessionType
    BY <1>2, <1>4
  <2>1. CASE s \in on
    <3>1. n.sessions[s] = [cut[s] EXCEPT !.active = FALSE] /\ s \in S
      BY <1>8, <2>1
    <3> DEFINE d == [cut[s] EXCEPT !.active = FALSE]
    <3>2. /\ ~d.active /\ d.local = cut[s].local /\ d.canceled = cut[s].canceled
          /\ d.forward = cut[s].forward /\ d.client = cut[s].client /\ d.dial = cut[s].dial
          /\ d.serve = cut[s].serve /\ d.remote = cut[s].remote
      BY <2>0, CutIs
    <3> HIDE DEF d, S
    <3> QED
      BY <1>5, <3>1, <3>2 DEF d
  <2>2. CASE s \notin on /\ s \in S
    BY <1>5, <1>8, <2>0, <2>2
  <2>3. CASE s \notin S
    BY <1>6, <1>8, <2>0, <2>3
  <2> QED
    BY <2>1, <2>2, <2>3
<1>11. Like(f, m, n)
  BY <1>9, <1>10 DEF Like
<1>12. ASSUME NEW s \in Sessions PROVE Shape(n.sessions[s])
  <2>1. Shape(m.sessions[s]) /\ f # 0
    BY DEF Forwards
  <2>2. CASE s \in S
    BY <1>10, <2>1, <2>2 DEF Shape, Connected, Serving
  <2>3. CASE s \notin S
    BY <1>10, <2>1, <2>3
  <2> QED
    BY <2>2, <2>3
<1>13. \A s \in Sessions : n.sessions[s].forward = f => n.sessions[s].canceled /\ ~n.sessions[s].active
  BY <1>10 DEF Shape, Connected, Serving
<1>14. On(f, n) = {}
  BY <1>13 DEF On
<1>15. n.forward.conns = Cardinality(On(f, n))
  BY <1>9, <1>14, FS_EmptySet
<1>16. n \in StateType
  BY <1>1, <1>8, <1>9 DEF StateType
<1>17. Sound(f, n)
  BY <1>12, <1>13, <1>14, <1>15, <1>16 DEF Sound
<1> QED
  BY <1>9, <1>11, <1>13, <1>14, <1>17 DEF n

(* refreshLocked: the forward has the client the connection has; if it had  *)
(* another one, nothing relays.                                             *)
LEMMA RefreshSound ==
  ASSUME PortForwardAssumption, lookup \in Clients \cup {0}, NEW f \in Forwards, NEW m, Sound(f, m)
  PROVE  LET n == refreshLocked(f, m) IN
         /\ Sound(f, n) /\ Like(f, m, n) /\ n.forward.client = lookup
         /\ lookup = m.forward.client => n = m
         /\ lookup # m.forward.client => On(f, n) = {}
<1> DEFINE k == statusLocked([m EXCEPT !.forward.client = lookup], "waiting")
           n == refreshLocked(f, m)
<1>1. m \in StateType
  BY DEF Sound
<1>2. /\ m.live \in BOOLEAN /\ m.forward \in ForwardType /\ m.sessions \in [Sessions -> SessionType]
      /\ m = [live |-> m.live, forward |-> m.forward, sessions |-> m.sessions]
  BY <1>1 DEF StateType
<1>3. CASE lookup = m.forward.client
  <2>1. n = m
    BY <1>3 DEF refreshLocked
  <2> QED
    BY <1>3, <2>1 DEF Like
<1>4. CASE lookup # m.forward.client
  <2>1. n = dropSessions(f, k)
    BY <1>4 DEF refreshLocked
  <2> HIDE DEF n
  <2> DEFINE j == [m EXCEPT !.forward.client = lookup]
  <2>2. j = [live |-> m.live, forward |-> [m.forward EXCEPT !.client = lookup], sessions |-> m.sessions]
    BY <1>2
  <2>3. k = [j EXCEPT !.forward.status = "waiting"]
    BY DEF statusLocked
  <2> HIDE DEF j, k
  <2>4. k = [live |-> m.live, forward |-> k.forward, sessions |-> m.sessions]
    BY <2>2, <2>3
  <2>5. k.forward = [m.forward EXCEPT !.client = lookup, !.status = "waiting"]
    BY <2>2, <2>3
  <2>6. /\ k.forward \in ForwardType /\ k.forward.conns = m.forward.conns
        /\ k.forward.client = lookup /\ k.forward.accept = m.forward.accept
    BY <1>2, <2>5 DEF ForwardType, Statuses
  <2>7. k \in StateType /\ k.live = m.live /\ k.sessions = m.sessions
    BY <1>2, <2>4, <2>6 DEF StateType
  <2>8. On(f, k) = On(f, m)
    BY <2>7 DEF On
  <2>9. /\ Sound(f, n) /\ Like(f, k, n) /\ On(f, n) = {} /\ n.forward.client = lookup
    BY <2>1, <2>6, <2>7, <2>8, DropSound DEF Sound
  <2>10. Like(f, m, n)
    BY <2>6, <2>7, <2>9 DEF Like
  <2> QED
    BY <1>4, <2>9, <2>10 DEF n
<1> QED
  BY <1>3, <1>4

(* dialFailed.                                                              *)
LEMMA DialFailedSound ==
  ASSUME PortForwardAssumption, lookup \in Clients \cup {0}, NEW f \in Forwards, NEW m, Sound(f, m),
         NEW client, NEW ended \in BOOLEAN
  PROVE  Sound(f, dialFailed(f, client, ended, m)) /\ Like(f, m, dialFailed(f, client, ended, m))
<1> DEFINE r == refreshLocked(f, m)
<1>1. Sound(f, r) /\ Like(f, m, r)
  BY RefreshSound
<1>2. Like(f, m, m)
  BY DEF Like
<1> HIDE DEF r
<1>3. Sound(f, statusLocked(r, "unreachable")) /\ Like(f, r, statusLocked(r, "unreachable"))
  BY <1>1, StatusSound DEF Statuses
<1>4. Like(f, m, statusLocked(r, "unreachable"))
  BY <1>1, <1>3 DEF Like
<1>5. dialFailed(f, client, ended, m) \in {m, r, statusLocked(r, "unreachable")}
  BY DEF dialFailed, r
<1> QED
  BY <1>1, <1>2, <1>3, <1>4, <1>5

(* A session gets on: nothing but its record changes, and it relays as      *)
(* before.                                                                  *)
Edit(m, s, r) == [m EXCEPT !.sessions[s] = r]

LEMMA EditSound ==
  ASSUME NEW f \in Forwards, NEW m, Sound(f, m), NEW s \in Sessions, NEW r \in SessionType,
         m.sessions[s].forward = f, r.forward = f, r.active = m.sessions[s].active,
         Shape(r), ~r.canceled => m.live /\ r.client = m.forward.client
  PROVE  LET n == Edit(m, s, r) IN
         /\ Sound(f, n) /\ n.live = m.live /\ n.forward = m.forward /\ n.sessions[s] = r
         /\ \A t \in Sessions \ {s} : n.sessions[t] = m.sessions[t]
<1> DEFINE n == Edit(m, s, r)
<1>1. m \in StateType
  BY DEF Sound
<1>2. /\ m.live \in BOOLEAN /\ m.forward \in ForwardType /\ m.sessions \in [Sessions -> SessionType]
      /\ m = [live |-> m.live, forward |-> m.forward, sessions |-> m.sessions]
  BY <1>1 DEF StateType
<1>3. n = [live |-> m.live, forward |-> m.forward, sessions |-> [m.sessions EXCEPT ![s] = r]]
  BY <1>2 DEF Edit
<1> HIDE DEF n
<1>4. /\ n.live = m.live /\ n.forward = m.forward /\ n.sessions[s] = r
      /\ \A t \in Sessions \ {s} : n.sessions[t] = m.sessions[t]
      /\ n.sessions \in [Sessions -> SessionType]
  BY <1>2, <1>3
<1>5. n \in StateType
  BY <1>2, <1>3, <1>4 DEF StateType
<1>6. On(f, n) = On(f, m)
  BY <1>4 DEF On
<1>7. \A t \in Sessions : Shape(n.sessions[t])
  BY <1>4 DEF Sound
<1>8. \A t \in Sessions : n.sessions[t].forward = f /\ ~n.sessions[t].canceled =>
        n.live /\ n.sessions[t].client = n.forward.client
  BY <1>4 DEF Sound
<1>9. Sound(f, n)
  BY <1>4, <1>5, <1>6, <1>7, <1>8 DEF Sound
<1> QED
  BY <1>4, <1>9 DEF n

-----------------------------------------------------------------------------
(* Commits                                                                  *)

Accounts(f) == Sound(f, State(f))

(* What is committed for one forward leaves the others as they were.        *)
LEMMA CommitKept ==
  ASSUME Inv, NEW f \in Forwards, NEW m, Sound(f, m), Commits(f, m), m.live = (live' = f),
         \A g \in Forwards \ {f} : live' = g <=> live = g,
         \A s \in Sessions : /\ sessions[s].forward \in {0, f} => m.sessions[s].forward \in {0, f}
                             /\ sessions[s].forward \notin {0, f} => m.sessions[s] = sessions[s]
  PROVE  /\ \A g \in Forwards : Accounts(g)'
         /\ forwards' \in [Forwards -> ForwardType] /\ sessions' \in [Sessions -> SessionType]
         /\ Shapes'
<1>1. m \in StateType
  BY DEF Sound
<1>2. /\ m.live \in BOOLEAN /\ m.forward \in ForwardType /\ m.sessions \in [Sessions -> SessionType]
      /\ m = [live |-> m.live, forward |-> m.forward, sessions |-> m.sessions]
  BY <1>1 DEF StateType
<1>3. forwards \in [Forwards -> ForwardType]
  BY DEF Inv, TypeOK, ForwardType
<1>4. /\ forwards'[f] = m.forward /\ sessions' = m.sessions
      /\ forwards' \in [Forwards -> ForwardType] /\ sessions' \in [Sessions -> SessionType]
      /\ \A g \in Forwards \ {f} : forwards'[g] = forwards[g]
  BY <1>2, <1>3 DEF Commits
<1>5. State(f)' = m
  BY <1>2, <1>4 DEF State
<1>6. Accounts(f)'
  BY <1>5 DEF Accounts
<1>7. ASSUME NEW g \in Forwards \ {f} PROVE Accounts(g)'
  <2> DEFINE k == State(g)
             n == State(g)'
  <2>1. /\ k = [live |-> live = g, forward |-> forwards[g], sessions |-> sessions]
        /\ n = [live |-> live' = g, forward |-> forwards'[g], sessions |-> sessions']
    BY DEF State
  <2>2. k.live = (live = g) /\ k.forward = forwards[g] /\ k.sessions = sessions
    BY <2>1
  <2>3. n.live = (live' = g) /\ n.forward = forwards[g] /\ n.sessions = m.sessions
    BY <1>4, <2>1
  <2>4. Sound(g, k)
    BY DEF Inv
  <2> HIDE DEF k, n
  <2>5. n.live = k.live /\ n.forward = k.forward
    BY <2>2, <2>3
  <2>6. \A s \in Sessions : \/ n.sessions[s] = k.sessions[s]
                            \/ n.sessions[s].forward # g /\ k.sessions[s].forward # g
    BY <2>2, <2>3 DEF Forwards
  <2>7. On(g, n) = On(g, k)
    BY <2>6 DEF On
  <2>8. n \in StateType
    BY <1>4, <2>1, <1>3 DEF StateType
  <2>9. \A s \in Sessions : Shape(n.sessions[s])
    BY <2>3 DEF Sound
  <2>10. \A s \in Sessions : n.sessions[s].forward = g /\ ~n.sessions[s].canceled =>
           n.live /\ n.sessions[s].client = n.forward.client
    BY <2>4, <2>5, <2>6 DEF Sound
  <2>11. Sound(g, n)
    BY <2>4, <2>5, <2>7, <2>8, <2>9, <2>10 DEF Sound
  <2> QED
    BY <2>11 DEF Accounts, n
<1>8. Shapes'
  BY <1>4 DEF Shapes, Sound
<1> QED
  BY <1>4, <1>6, <1>7, <1>8

-----------------------------------------------------------------------------
(* The ways the actions write a session's record are edits.                 *)

(* An edit replaces one session, and two edits of it are the second.        *)
LEMMA EditIs ==
  ASSUME NEW m \in StateType, NEW s \in Sessions, NEW r \in SessionType
  PROVE  LET n == Edit(m, s, r) IN
         /\ n = [live |-> m.live, forward |-> m.forward, sessions |-> [m.sessions EXCEPT ![s] = r]]
         /\ n \in StateType /\ n.sessions[s] = r
         /\ \A q \in SessionType : Edit(n, s, q) = Edit(m, s, q)
<1>1. /\ m.live \in BOOLEAN /\ m.forward \in ForwardType /\ m.sessions \in [Sessions -> SessionType]
      /\ m = [live |-> m.live, forward |-> m.forward, sessions |-> m.sessions]
  BY DEF StateType
<1>2. \A q : Edit(m, s, q) = [live |-> m.live, forward |-> m.forward, sessions |-> [m.sessions EXCEPT ![s] = q]]
  BY <1>1 DEF Edit
<1> DEFINE n == Edit(m, s, r)
<1>3. n = [live |-> m.live, forward |-> m.forward, sessions |-> [m.sessions EXCEPT ![s] = r]]
  BY <1>2
<1> HIDE DEF n
<1>4. n \in StateType /\ n.sessions[s] = r
  BY <1>1, <1>3 DEF StateType
<1>5. ASSUME NEW q \in SessionType PROVE Edit(n, s, q) = Edit(m, s, q)
  <2>1. Edit(n, s, q) = [n EXCEPT !.sessions[s] = q]
    BY DEF Edit
  <2>2. Edit(n, s, q) = [live |-> m.live, forward |-> m.forward, sessions |-> [m.sessions EXCEPT ![s] = q]]
    BY <1>1, <1>3, <2>1
  <2> QED
    BY <1>2, <2>2
<1> QED
  BY <1>3, <1>4, <1>5 DEF n

Left(r) == [r EXCEPT !.serve = "finish", !.local = FALSE, !.canceled = TRUE]

(* The fields of a session the dial and the relay write.                    *)
LEMMA Edits ==
  ASSUME NEW m \in StateType, NEW s \in Sessions
  PROVE  LET r == m.sessions[s] IN
         /\ \A d : [m EXCEPT !.sessions[s].dial = d] = Edit(m, s, [r EXCEPT !.dial = d])
         /\ \A d : [m EXCEPT !.sessions[s].serve = d] = Edit(m, s, [r EXCEPT !.serve = d])
<1> DEFINE r == m.sessions[s]
<1>1. /\ m.live \in BOOLEAN /\ m.forward \in ForwardType /\ m.sessions \in [Sessions -> SessionType]
      /\ m = [live |-> m.live, forward |-> m.forward, sessions |-> m.sessions] /\ r \in SessionType
  BY DEF StateType
<1>2. \A q : Edit(m, s, q) = [live |-> m.live, forward |-> m.forward, sessions |-> [m.sessions EXCEPT ![s] = q]]
  BY <1>1 DEF Edit
<1>3. \A d : [m EXCEPT !.sessions[s].dial = d] = Edit(m, s, [r EXCEPT !.dial = d])
  BY <1>1, <1>2
<1>4. \A d : [m EXCEPT !.sessions[s].serve = d] = Edit(m, s, [r EXCEPT !.serve = d])
  BY <1>1, <1>2
<1> QED
  BY <1>3, <1>4

(* The remote connection is let go by an edit.                              *)
LEMMA EditRemote ==
  ASSUME NEW m \in StateType, NEW s \in Sessions
  PROVE  [m EXCEPT !.sessions[s].remote = FALSE] = Edit(m, s, [m.sessions[s] EXCEPT !.remote = FALSE])
<1> DEFINE r == [m.sessions[s] EXCEPT !.remote = FALSE]
           n == [m EXCEPT !.sessions[s].remote = FALSE]
<1>1. /\ m.live \in BOOLEAN /\ m.forward \in ForwardType /\ m.sessions \in [Sessions -> SessionType]
      /\ m = [live |-> m.live, forward |-> m.forward, sessions |-> m.sessions]
  BY DEF StateType
<1>2. n = [live |-> m.live, forward |-> m.forward, sessions |-> [m.sessions EXCEPT ![s] = r]]
  <2> DEFINE v == m.live
             g == m.forward
             S == m.sessions
  <2>1. m = [live |-> v, forward |-> g, sessions |-> S] /\ S \in [Sessions -> SessionType]
    BY <1>1
  <2>2. r = [S[s] EXCEPT !.remote = FALSE]
    OBVIOUS
  <2> HIDE DEF v, g, S, r
  <2>3. n = [[live |-> v, forward |-> g, sessions |-> S] EXCEPT !.sessions[s].remote = FALSE]
    BY <2>1, Zenon
  <2> HIDE DEF n
  <2>4. n = [live |-> v, forward |-> g, sessions |-> [S EXCEPT ![s] = [S[s] EXCEPT !.remote = FALSE]]]
    BY <2>1, <2>3
  <2>5. n = [live |-> v, forward |-> g, sessions |-> [S EXCEPT ![s] = r]]
    BY <2>2, <2>4, Zenon
  <2> QED
    BY <2>5 DEF v, g, S
<1> HIDE DEF n, r
<1>3. Edit(m, s, r) = [live |-> m.live, forward |-> m.forward, sessions |-> [m.sessions EXCEPT ![s] = r]]
  BY <1>1 DEF Edit
<1> QED
  BY <1>2, <1>3 DEF n, r

(* A session that leaves is an edit.                                        *)
LEMMA LeavesIs ==
  ASSUME NEW m \in StateType, NEW s \in Sessions
  PROVE  Leaves(s, m) = Edit(m, s, Left(m.sessions[s])) /\ Left(m.sessions[s]) \in SessionType
<1> DEFINE r == m.sessions[s]
           r1 == [r EXCEPT !.serve = "finish"]
           r2 == [r1 EXCEPT !.local = FALSE]
           r3 == [r2 EXCEPT !.canceled = TRUE]
           m1 == [m EXCEPT !.sessions[s].serve = "finish"]
           m2 == [m1 EXCEPT !.sessions[s].local = FALSE]
           m3 == [m2 EXCEPT !.sessions[s].canceled = TRUE]
<1>1. r \in SessionType
  BY DEF StateType
<1>2. r1 \in SessionType /\ r2 \in SessionType /\ r3 \in SessionType
  BY <1>1 DEF SessionType
<1>3. /\ m.live \in BOOLEAN /\ m.forward \in ForwardType /\ m.sessions \in [Sessions -> SessionType]
      /\ m = [live |-> m.live, forward |-> m.forward, sessions |-> m.sessions]
  BY DEF StateType
<1> HIDE DEF r1
<1>4. m1 = [live |-> m.live, forward |-> m.forward, sessions |-> [m.sessions EXCEPT ![s] = r1]]
  BY <1>3 DEF r1
<1> HIDE DEF r2, m1
<1>5. m2 = [live |-> m.live, forward |-> m.forward, sessions |-> [m.sessions EXCEPT ![s] = r2]]
  <2>1. m1.sessions[s] = r1 /\ m1.sessions \in [Sessions -> SessionType]
    BY <1>2, <1>3, <1>4
  <2>2. m2 = [live |-> m.live, forward |-> m.forward,
              sessions |-> [m1.sessions EXCEPT ![s] = [m1.sessions[s] EXCEPT !.local = FALSE]]]
    BY <1>4
  <2>3. m2 = [live |-> m.live, forward |-> m.forward, sessions |-> [m1.sessions EXCEPT ![s] = r2]]
    BY <2>1, <2>2 DEF r2
  <2> QED
    BY <1>2, <1>3, <1>4, <2>3
<1> HIDE DEF r3, m2
<1>6. m3 = [live |-> m.live, forward |-> m.forward, sessions |-> [m.sessions EXCEPT ![s] = r3]]
  <2>1. m2.sessions[s] = r2 /\ m2.sessions \in [Sessions -> SessionType]
    BY <1>2, <1>3, <1>5
  <2>2. m3 = [live |-> m.live, forward |-> m.forward,
              sessions |-> [m2.sessions EXCEPT ![s] = [m2.sessions[s] EXCEPT !.canceled = TRUE]]]
    BY <1>5
  <2>3. m3 = [live |-> m.live, forward |-> m.forward, sessions |-> [m2.sessions EXCEPT ![s] = r3]]
    BY <2>1, <2>2 DEF r3
  <2> QED
    BY <1>2, <1>3, <1>5, <2>3
<1>7. Leaves(s, m) = m3 /\ Left(r) = r3
  BY DEF Leaves, Left, m1, m2, r1, r2, r3
<1> HIDE DEF m3
<1>8. Edit(m, s, r3) = [live |-> m.live, forward |-> m.forward, sessions |-> [m.sessions EXCEPT ![s] = r3]]
  BY <1>3 DEF Edit
<1> QED
  BY <1>2, <1>6, <1>7, <1>8

-----------------------------------------------------------------------------
(* Steps                                                                    *)

StateKept ==
  /\ Shapes' /\ \A g \in Forwards : Accounts(g)'
  /\ forwards' \in [Forwards -> ForwardType] /\ sessions' \in [Sessions -> SessionType]

(* A session stands where it stood.                                         *)
Stands(t) ==
  /\ sessions'[t].serve = sessions[t].serve /\ sessions'[t].dial = sessions[t].dial
  /\ sessions'[t].client = sessions[t].client

(* A step of one session, or its beginning: it enters or leaves the counts. *)
LEMMA OneStepKept ==
  ASSUME PortForwardAssumption, Inv, NEW s \in Sessions, StateKept,
         \A t \in Sessions \ {s} : Stands(t),
         UNCHANGED <<conn, hungUp, live, closed>>,
         \/ s \in Served /\ s \in Served' /\ sessionCount' = sessionCount
         \/ s \in Served /\ s \notin Served' /\ sessionCount' = sessionCount - 1
         \/ s \notin Served /\ s \notin Served' /\ sessionCount' = sessionCount
         \/ s \notin Served /\ s \in Served' /\ sessionCount' = sessionCount + 1 /\ sessionCount < SessionLimit,
         \/ s \in Dialed /\ s \in Dialed' /\ dialCount' = dialCount
         \/ s \in Dialed /\ s \notin Dialed' /\ dialCount' = dialCount - 1
         \/ s \notin Dialed /\ s \notin Dialed' /\ dialCount' = dialCount
         \/ s \notin Dialed /\ s \in Dialed' /\ dialCount' = dialCount + 1 /\ dialCount < DialLimit,
         sessions'[s].dial = "dial" => ~closed \/ sessions'[s].client \in hungUp
  PROVE  Inv'
<1>1. Served \subseteq Sessions /\ Dialed \subseteq Sessions
  BY DEF Served, Dialed
<1>2. \A t \in Sessions \ {s} : (t \in Served' <=> t \in Served) /\ (t \in Dialed' <=> t \in Dialed)
  BY DEF Served, Dialed, Stands
<1>3. Served' \subseteq Sessions /\ Dialed' \subseteq Sessions
  BY DEF Served, Dialed
<1>4. /\ sessionCount \in Nat /\ sessionCount <= SessionLimit /\ SessionLimit \in Nat
      /\ dialCount \in Nat /\ dialCount <= DialLimit /\ DialLimit \in Nat
      /\ sessionCount = Cardinality(Served) /\ dialCount = Cardinality(Dialed)
  BY DEF Inv, TypeOK, PortForwardAssumption
<1>5. sessionCount' = Cardinality(Served') /\ sessionCount' \in 0 .. SessionLimit
  <2>1. CASE sessionCount' = sessionCount /\ (s \in Served' <=> s \in Served)
    <3>1. Served' = Served
      BY <1>1, <1>2, <1>3, <2>1
    <3> QED
      BY <1>4, <2>1, <3>1
  <2>2. CASE s \in Served /\ s \notin Served' /\ sessionCount' = sessionCount - 1
    <3>1. Served' = Served \ {s}
      BY <1>1, <1>2, <1>3, <2>2
    <3> QED
      BY <1>1, <1>4, <2>2, <3>1, CountOne
  <2>3. CASE s \notin Served /\ s \in Served' /\ sessionCount' = sessionCount + 1 /\ sessionCount < SessionLimit
    <3>1. Served' = Served \cup {s}
      BY <1>1, <1>2, <1>3, <2>3
    <3> QED
      BY <1>1, <1>4, <2>3, <3>1, CountOne
  <2> QED
    BY <2>1, <2>2, <2>3
<1>6. dialCount' = Cardinality(Dialed') /\ dialCount' \in 0 .. DialLimit
  <2>1. CASE dialCount' = dialCount /\ (s \in Dialed' <=> s \in Dialed)
    <3>1. Dialed' = Dialed
      BY <1>1, <1>2, <1>3, <2>1
    <3> QED
      BY <1>4, <2>1, <3>1
  <2>2. CASE s \in Dialed /\ s \notin Dialed' /\ dialCount' = dialCount - 1
    <3>1. Dialed' = Dialed \ {s}
      BY <1>1, <1>2, <1>3, <2>2
    <3> QED
      BY <1>1, <1>4, <2>2, <3>1, CountOne
  <2>3. CASE s \notin Dialed /\ s \in Dialed' /\ dialCount' = dialCount + 1 /\ dialCount < DialLimit
    <3>1. Dialed' = Dialed \cup {s}
      BY <1>1, <1>2, <1>3, <2>3
    <3> QED
      BY <1>1, <1>4, <2>3, <3>1, CountOne
  <2> QED
    BY <2>1, <2>2, <2>3
<1>7. \A t \in Sessions : closed' /\ sessions'[t].dial = "dial" => sessions'[t].client \in hungUp'
  <2> SUFFICES ASSUME NEW t \in Sessions, closed', sessions'[t].dial = "dial"
               PROVE  sessions'[t].client \in hungUp'
    OBVIOUS
  <2>1. CASE t = s
    BY <2>1
  <2>2. CASE t # s
    BY <2>2 DEF Stands, Inv
  <2> QED
    BY <2>1, <2>2
<1>8. TypeOK'
  BY <1>5, <1>6 DEF StateKept, ForwardType, SessionType, Inv, TypeOK
<1> QED
  BY <1>5, <1>6, <1>7, <1>8 DEF Inv, StateKept, Accounts

(* A step that moves no session.                                            *)
LEMMA StillKept ==
  ASSUME PortForwardAssumption, Inv, StateKept, \A t \in Sessions : Stands(t),
         UNCHANGED <<sessionCount, dialCount>>,
         conn' \in [client : Clients \cup {0}, up : BOOLEAN], live' \in Forwards \cup {0},
         closed' \in BOOLEAN, hungUp' \subseteq Clients,
         \A t \in Sessions : closed' /\ sessions'[t].dial = "dial" => sessions'[t].client \in hungUp'
  PROVE  Inv'
<1>1. Served' = Served /\ Dialed' = Dialed
  BY DEF Served, Dialed, Stands
<1>2. TypeOK'
  BY DEF StateKept, ForwardType, SessionType, Inv, TypeOK
<1> QED
  BY <1>1, <1>2 DEF Inv, StateKept, Accounts

(* A session gets on, after what is done to its forward.                    *)
LEMMA SessionStep ==
  ASSUME PortForwardAssumption, Inv, NEW s \in Sessions, NEW f \in Forwards, f = sessions[s].forward,
         NEW m, Sound(f, m), Like(f, State(f), m),
         NEW r \in SessionType, r.forward = f, r.active = m.sessions[s].active, Shape(r),
         ~r.canceled => m.live /\ r.client = m.forward.client,
         Commits(f, Edit(m, s, r)), UNCHANGED live
  PROVE  StateKept /\ sessions'[s] = r /\ \A t \in Sessions \ {s} : Stands(t)
<1> DEFINE n == Edit(m, s, r)
<1>1. /\ State(f).live = (live = f) /\ State(f).sessions = sessions
  BY DEF State
<1>2. m.live = (live = f)
  BY <1>1 DEF Like
<1>3. /\ \A t \in Sessions : /\ m.sessions[t].forward = sessions[t].forward /\ m.sessions[t].client = sessions[t].client
                             /\ m.sessions[t].dial = sessions[t].dial /\ m.sessions[t].serve = sessions[t].serve
                             /\ sessions[t].forward # f => m.sessions[t] = sessions[t]
  BY <1>1 DEF Like
<1>4. /\ Sound(f, n) /\ n.live = m.live /\ n.sessions[s] = r
      /\ \A t \in Sessions \ {s} : n.sessions[t] = m.sessions[t]
  BY <1>3, EditSound
<1>5. sessions' = n.sessions
  BY DEF Commits
<1> HIDE DEF n
<1>6. Commits(f, n)
  BY DEF n
<1>7. \A t \in Sessions : /\ sessions[t].forward \in {0, f} => n.sessions[t].forward \in {0, f}
                          /\ sessions[t].forward \notin {0, f} => n.sessions[t] = sessions[t]
  BY <1>3, <1>4
<1>8. StateKept
  BY <1>2, <1>4, <1>6, <1>7, CommitKept DEF StateKept
<1> QED
  BY <1>3, <1>4, <1>5, <1>8 DEF Stands

(* What is known of a session that was made, and of its forward.            *)
LEMMA SessionFacts ==
  ASSUME PortForwardAssumption, Inv, NEW s \in Sessions, sessions[s].serve # "none"
  PROVE  LET f == sessions[s].forward IN
         /\ f \in Forwards /\ sessions[s] \in SessionType /\ Shape(sessions[s])
         /\ lookup \in Clients \cup {0}
         /\ Sound(f, State(f)) /\ State(f) \in StateType /\ Like(f, State(f), State(f))
         /\ State(f).sessions = sessions /\ State(f).live = (live = f) /\ State(f).forward = forwards[f]
         /\ ~sessions[s].canceled => live = f /\ sessions[s].client = forwards[f].client
<1> DEFINE f == sessions[s].forward
<1>1. sessions[s] \in SessionType /\ Shape(sessions[s])
  BY DEF Inv, TypeOK, SessionType, Shapes
<1>2. f \in Forwards
  BY <1>1 DEF Shape, SessionType
<1>3. lookup \in Clients \cup {0}
  BY DEF Inv, TypeOK, lookup
<1> HIDE DEF f
<1>4. Sound(f, State(f)) /\ State(f) \in StateType
  BY <1>2 DEF Inv, Sound
<1>5. State(f).sessions = sessions /\ State(f).live = (live = f) /\ State(f).forward = forwards[f]
  BY DEF State
<1>6. Like(f, State(f), State(f))
  BY DEF Like
<1>7. ~sessions[s].canceled => live = f /\ sessions[s].client = forwards[f].client
  BY <1>4, <1>5 DEF Sound, f
<1> QED
  BY <1>1, <1>2, <1>3, <1>4, <1>5, <1>6, <1>7 DEF f


(* A step that writes the record of a session and nothing else.             *)
LEMMA RecordStep ==
  ASSUME PortForwardAssumption, Inv, NEW s \in Sessions, sessions[s].serve # "none",
         NEW r \in SessionType, r.forward = sessions[s].forward, r.client = sessions[s].client,
         r.active = sessions[s].active, Shape(r), ~r.canceled => ~sessions[s].canceled,
         sessions' = [sessions EXCEPT ![s] = r], UNCHANGED <<live, forwards>>
  PROVE  StateKept /\ sessions'[s] = r /\ \A t \in Sessions \ {s} : Stands(t)
<1> DEFINE f == sessions[s].forward
           m == State(f)
<1>1. /\ f \in Forwards /\ Sound(f, m) /\ m \in StateType /\ Like(f, m, m)
      /\ m.sessions = sessions /\ m.live = (live = f) /\ m.forward = forwards[f]
      /\ ~sessions[s].canceled => live = f /\ sessions[s].client = forwards[f].client
  BY SessionFacts
<1>2. /\ forwards \in [Forwards -> ForwardType] /\ sessions \in [Sessions -> SessionType]
  BY DEF Inv, TypeOK, ForwardType, SessionType
<1> HIDE DEF m
<1>3. Edit(m, s, r) = [live |-> m.live, forward |-> m.forward, sessions |-> [m.sessions EXCEPT ![s] = r]]
  BY <1>1, EditIs
<1>4. Commits(f, Edit(m, s, r))
  BY <1>1, <1>2, <1>3 DEF Commits
<1> HIDE DEF f
<1> QED
  BY <1>1, <1>4, SessionStep DEF f, m

(* The transport opens the channel.                                         *)
LEMMA DialConnectsKept ==
  ASSUME PortForwardAssumption, Inv, NEW s \in Sessions, DialConnects(s) PROVE Inv'
<1> DEFINE q == sessions[s]
           r == [q EXCEPT !.dial = "send", !.remote = TRUE]
<1>1. /\ q.dial = "dial" /\ sessions' = [sessions EXCEPT ![s] = r] /\ q \in SessionType /\ Shape(q)
      /\ UNCHANGED <<conn, hungUp, live, forwards, sessionCount, dialCount, closed>>
  BY DEF DialConnects, Inv, TypeOK, SessionType, Shapes
<1>2. r \in SessionType /\ r.dial = "send" /\ r.remote /\ r.serve = q.serve /\ r.forward = q.forward
      /\ r.client = q.client /\ r.active = q.active /\ r.canceled = q.canceled /\ r.local = q.local
  BY <1>1 DEF SessionType
<1>3. q.serve # "none" /\ Shape(r)
  BY <1>1, <1>2 DEF Shape, Connected, Serving
<1> HIDE DEF r
<1>4. StateKept /\ sessions'[s] = r /\ \A t \in Sessions \ {s} : Stands(t)
  BY <1>1, <1>2, <1>3, RecordStep
<1>5. (s \in Served' <=> s \in Served) /\ s \in Dialed /\ s \in Dialed'
  BY <1>1, <1>2, <1>3, <1>4 DEF Shape, Served, Dialed
<1> QED
  BY <1>1, <1>2, <1>4, <1>5, OneStepKept

(* The dial gives up the connection it made too late.                       *)
LEMMA DialDropsKept ==
  ASSUME PortForwardAssumption, Inv, NEW s \in Sessions, DialDrops(s) PROVE Inv'
<1> DEFINE q == sessions[s]
           r == [q EXCEPT !.dial = "finish", !.remote = FALSE]
<1>1. /\ q.dial = "send" /\ sessions' = [sessions EXCEPT ![s] = r] /\ q \in SessionType /\ Shape(q)
      /\ UNCHANGED <<conn, hungUp, live, forwards, sessionCount, dialCount, closed>>
  BY DEF DialDrops, Inv, TypeOK, SessionType, Shapes
<1>2. r \in SessionType /\ r.dial = "finish" /\ ~r.remote /\ r.serve = q.serve /\ r.forward = q.forward
      /\ r.client = q.client /\ r.active = q.active /\ r.canceled = q.canceled /\ r.local = q.local
  BY <1>1 DEF SessionType
<1>3. q.serve # "none" /\ Shape(r)
  BY <1>1, <1>2 DEF Shape, Connected, Serving
<1> HIDE DEF r
<1>4. StateKept /\ sessions'[s] = r /\ \A t \in Sessions \ {s} : Stands(t)
  BY <1>1, <1>2, <1>3, RecordStep
<1>5. (s \in Served' <=> s \in Served) /\ s \in Dialed /\ s \in Dialed'
  BY <1>1, <1>2, <1>3, <1>4 DEF Served, Dialed
<1> QED
  BY <1>1, <1>2, <1>4, <1>5, OneStepKept

(* The dial's goroutine ends, and is counted no more.                       *)
LEMMA DialFinishedKept ==
  ASSUME PortForwardAssumption, Inv, NEW s \in Sessions, dialFinished(s) PROVE Inv'
<1> DEFINE q == sessions[s]
           r == [q EXCEPT !.dial = "done"]
<1>1. /\ q.dial = "finish" /\ sessions' = [sessions EXCEPT ![s] = r] /\ q \in SessionType /\ Shape(q)
      /\ dialCount' = dialCount - 1
      /\ UNCHANGED <<conn, hungUp, live, forwards, sessionCount, closed>>
  BY DEF dialFinished, Sets, Inv, TypeOK, SessionType, Shapes
<1>2. r \in SessionType /\ r.dial = "done" /\ r.remote = q.remote /\ r.serve = q.serve /\ r.forward = q.forward
      /\ r.client = q.client /\ r.active = q.active /\ r.canceled = q.canceled /\ r.local = q.local
  BY <1>1 DEF SessionType
<1>3. q.serve # "none" /\ Shape(r)
  BY <1>1, <1>2 DEF Shape, Connected, Serving
<1> HIDE DEF r
<1>4. StateKept /\ sessions'[s] = r /\ \A t \in Sessions \ {s} : Stands(t)
  BY <1>1, <1>2, <1>3, RecordStep
<1>5. (s \in Served' <=> s \in Served) /\ s \in Dialed /\ s \notin Dialed'
  BY <1>1, <1>2, <1>3, <1>4 DEF Served, Dialed
<1> QED
  BY <1>1, <1>2, <1>4, <1>5, OneStepKept

(* The dial's deadline.                                                     *)
LEMMA TimesOutKept ==
  ASSUME PortForwardAssumption, Inv, NEW s \in Sessions, TimesOut(s) PROVE Inv'
<1> DEFINE q == sessions[s]
           r == [q EXCEPT !.timedOut = TRUE]
<1>1. /\ q.serve \in {"wait", "got"} /\ sessions' = [sessions EXCEPT ![s] = r] /\ q \in SessionType /\ Shape(q)
      /\ UNCHANGED <<conn, hungUp, live, forwards, sessionCount, dialCount, closed>>
  BY DEF TimesOut, Sets, Inv, TypeOK, SessionType, Shapes
<1>2. r \in SessionType /\ r.dial = q.dial /\ r.remote = q.remote /\ r.serve = q.serve /\ r.forward = q.forward
      /\ r.client = q.client /\ r.active = q.active /\ r.canceled = q.canceled /\ r.local = q.local
  BY <1>1 DEF SessionType
<1>3. q.serve # "none" /\ Shape(r)
  BY <1>1, <1>2 DEF Shape, Connected, Serving
<1> HIDE DEF r
<1>4. StateKept /\ sessions'[s] = r /\ \A t \in Sessions \ {s} : Stands(t)
  BY <1>1, <1>2, <1>3, RecordStep
<1>5. (s \in Served' <=> s \in Served) /\ (s \in Dialed' <=> s \in Dialed)
  BY <1>1, <1>2, <1>4 DEF Served, Dialed
<1>6. r.dial = "dial" => ~closed \/ sessions'[s].client \in hungUp
  BY <1>2, <1>4 DEF Inv
<1> QED
  BY <1>1, <1>4, <1>5, <1>6, OneStepKept

(* The dial fails.                                                          *)
LEMMA DialFailsKept ==
  ASSUME PortForwardAssumption, Inv, NEW s \in Sessions, DialFails(s) PROVE Inv'
<1> DEFINE q == sessions[s]
           f == q.forward
           m == dialFailed(f, q.client, dialEnded(s), State(f))
           p == m.sessions[s]
           r == [p EXCEPT !.dial = "send"]
<1>1. /\ q.dial = "dial" /\ Commits(f, [m EXCEPT !.sessions[s].dial = "send"])
      /\ UNCHANGED <<conn, hungUp, live, sessionCount, dialCount, closed>>
  BY DEF DialFails
<1>2. q.serve # "none"
  BY <1>1 DEF Inv, Shapes, Shape
<1>3. /\ f \in Forwards /\ q \in SessionType /\ Shape(q) /\ lookup \in Clients \cup {0}
      /\ Sound(f, State(f)) /\ State(f).sessions = sessions
  BY <1>2, SessionFacts
<1>4. dialEnded(s) \in BOOLEAN
  BY <1>3 DEF dialEnded, SessionType
<1> HIDE DEF f
<1>5. Sound(f, m) /\ Like(f, State(f), m)
  BY <1>3, <1>4, DialFailedSound
<1> HIDE DEF m
<1>6. m \in StateType /\ p \in SessionType /\ Shape(p)
  BY <1>5 DEF Sound, StateType
<1>7. /\ p.forward = f /\ p.client = q.client /\ p.dial = "dial" /\ p.serve = q.serve
  BY <1>1, <1>3, <1>5 DEF Like, f
<1>8. r \in SessionType /\ r.dial = "send" /\ r.remote = p.remote /\ r.serve = p.serve /\ r.forward = p.forward
      /\ r.client = p.client /\ r.active = p.active /\ r.canceled = p.canceled /\ r.local = p.local
  BY <1>6 DEF SessionType
<1>9. Shape(r)
  BY <1>2, <1>6, <1>7, <1>8 DEF Shape, Connected, Serving
<1>10. Commits(f, Edit(m, s, r))
  BY <1>1, <1>6, Edits
<1>11. ~r.canceled => m.live /\ r.client = m.forward.client
  BY <1>5, <1>7, <1>8 DEF Sound
<1> HIDE DEF r, p
<1>12. StateKept /\ sessions'[s] = r /\ \A t \in Sessions \ {s} : Stands(t)
  BY <1>1, <1>3, <1>5, <1>7, <1>8, <1>9, <1>10, <1>11, SessionStep DEF f, p
<1>13. (s \in Served' <=> s \in Served) /\ s \in Dialed /\ s \in Dialed'
  BY <1>1, <1>7, <1>8, <1>12 DEF Served, Dialed
<1> QED
  BY <1>1, <1>8, <1>12, <1>13, OneStepKept

(* What leaving changes of a session.                                       *)
LEMMA LeftIs ==
  ASSUME NEW r \in SessionType
  PROVE  /\ Left(r) \in SessionType /\ Left(r).serve = "finish" /\ ~Left(r).local /\ Left(r).canceled
         /\ Left(r).forward = r.forward /\ Left(r).client = r.client /\ Left(r).dial = r.dial
         /\ Left(r).active = r.active /\ Left(r).remote = r.remote
  BY DEF Left, SessionType

(* Two edits of one session are the second.                                 *)
LEMMA EditTwice ==
  ASSUME NEW m \in StateType, NEW s \in Sessions, NEW r \in SessionType
  PROVE  /\ [Edit(m, s, r) EXCEPT !.sessions[s].serve = "got"] = Edit(m, s, [r EXCEPT !.serve = "got"])
         /\ Leaves(s, Edit(m, s, r)) = Edit(m, s, Left(r))
<1> DEFINE n == Edit(m, s, r)
<1>1. n \in StateType /\ n.sessions[s] = r /\ \A q \in SessionType : Edit(n, s, q) = Edit(m, s, q)
  BY EditIs
<1>2. Left(r) \in SessionType
  BY LeftIs
<1>3. [r EXCEPT !.serve = "got"] \in SessionType
  BY DEF SessionType
<1> HIDE DEF n
<1>4. [n EXCEPT !.sessions[s].serve = "got"] = Edit(n, s, [r EXCEPT !.serve = "got"])
  BY <1>1, Edits
<1>5. Leaves(s, n) = Edit(n, s, Left(r))
  BY <1>1, LeavesIs
<1> QED
  BY <1>1, <1>2, <1>3, <1>4, <1>5 DEF n

(* serve hears of the dial, or of its end before it.                        *)
LEMMA ServeWaitsKept ==
  ASSUME PortForwardAssumption, Inv, NEW s \in Sessions, ServeWaits(s) PROVE Inv'
<1> DEFINE q == sessions[s]
           f == q.forward
           a == State(f)
           m == dialFailed(f, q.client, q.canceled, a)
           r1 == [q EXCEPT !.dial = "finish"]
           r2 == [r1 EXCEPT !.serve = "got"]
<1>1. q.serve = "wait" /\ UNCHANGED <<conn, hungUp, live, sessionCount, dialCount, closed>>
  BY DEF ServeWaits
<1>2. \/ q.dial = "send" /\ q.remote /\ Commits(f, [[a EXCEPT !.sessions[s].dial = "finish"] EXCEPT !.sessions[s].serve = "got"])
      \/ q.dial = "send" /\ ~q.remote /\ Commits(f, Leaves(s, [a EXCEPT !.sessions[s].dial = "finish"]))
      \/ Commits(f, Leaves(s, m))
  BY DEF ServeWaits
<1>3. /\ f \in Forwards /\ q \in SessionType /\ Shape(q) /\ lookup \in Clients \cup {0}
      /\ Sound(f, a) /\ a \in StateType /\ a.sessions = sessions /\ Like(f, a, a)
      /\ a.live = (live = f) /\ a.forward = forwards[f]
      /\ ~q.canceled => live = f /\ q.client = forwards[f].client
  BY <1>1, SessionFacts
<1>4. q.serve # "none" /\ ~q.active
  BY <1>1, <1>3 DEF Shape
<1>5. /\ r1 \in SessionType /\ r1.dial = "finish" /\ r1.serve = q.serve /\ r1.forward = f /\ r1.client = q.client
      /\ r1.active = q.active /\ r1.canceled = q.canceled /\ r1.local = q.local /\ r1.remote = q.remote
  BY <1>3 DEF SessionType
<1>6. /\ r2 \in SessionType /\ r2.dial = "finish" /\ r2.serve = "got" /\ r2.forward = f /\ r2.client = q.client
      /\ r2.active = q.active /\ r2.canceled = q.canceled /\ r2.local = q.local /\ r2.remote = q.remote
  BY <1>3 DEF SessionType
<1> HIDE DEF f, a, r1
<1>7. [a EXCEPT !.sessions[s].dial = "finish"] = Edit(a, s, r1)
  BY <1>3, Edits DEF r1
<1>8. CASE q.dial = "send" /\ q.remote /\ Commits(f, [[a EXCEPT !.sessions[s].dial = "finish"] EXCEPT !.sessions[s].serve = "got"])
  <2>1. Commits(f, Edit(a, s, r2))
    <3>1. [Edit(a, s, r1) EXCEPT !.sessions[s].serve = "got"] = Edit(a, s, r2)
      BY <1>3, <1>5, EditTwice
    <3> QED
      BY <1>7, <1>8, <3>1, Zenon
  <2> HIDE DEF r2
  <2>2. Shape(r2)
    BY <1>1, <1>3, <1>4, <1>6, <1>8 DEF Shape, Connected, Serving, f
  <2>3. StateKept /\ sessions'[s] = r2 /\ \A t \in Sessions \ {s} : Stands(t)
    <3>1. /\ r2.forward = f /\ r2.active = a.sessions[s].active /\ r2 \in SessionType
          /\ ~r2.canceled => a.live /\ r2.client = a.forward.client
      BY <1>3, <1>6
    <3>2. f = sessions[s].forward /\ UNCHANGED live /\ Like(f, State(f), a)
      BY <1>1, <1>3 DEF f, a
    <3> QED
      BY <1>3, <2>1, <2>2, <3>1, <3>2, SessionStep
  <2>4. s \in Served' /\ s \in Served /\ s \in Dialed /\ s \in Dialed'
    BY <1>1, <1>6, <1>8, <2>3 DEF Served, Dialed
  <2> QED
    BY <1>1, <1>6, <2>3, <2>4, OneStepKept
<1>9. CASE q.dial = "send" /\ ~q.remote /\ Commits(f, Leaves(s, [a EXCEPT !.sessions[s].dial = "finish"]))
  <2> DEFINE r == Left(r1)
  <2>1. Commits(f, Edit(a, s, r))
    <3>1. Leaves(s, Edit(a, s, r1)) = Edit(a, s, r)
      BY <1>3, <1>5, EditTwice
    <3> QED
      BY <1>7, <1>9, <3>1, Zenon
  <2>2. /\ r \in SessionType /\ r.serve = "finish" /\ ~r.local /\ r.canceled /\ r.forward = f
        /\ r.client = q.client /\ r.dial = "finish" /\ r.active = q.active /\ r.remote = q.remote
    BY <1>3, <1>5, LeftIs
  <2> HIDE DEF r
  <2>3. Shape(r)
    BY <1>3, <1>4, <1>9, <2>2 DEF Shape, Connected, Serving, f
  <2>4. StateKept /\ sessions'[s] = r /\ \A t \in Sessions \ {s} : Stands(t)
    BY <1>1, <1>3, <2>1, <2>2, <2>3, SessionStep DEF f, a
  <2>5. s \in Served' /\ s \in Served /\ s \in Dialed /\ s \in Dialed'
    BY <1>1, <1>9, <2>2, <2>4 DEF Served, Dialed
  <2> QED
    BY <1>1, <2>2, <2>4, <2>5, OneStepKept
<1>10. CASE Commits(f, Leaves(s, m))
  <2> DEFINE p == m.sessions[s]
             r == Left(p)
  <2>1. Sound(f, m) /\ Like(f, a, m)
    BY <1>3, DialFailedSound DEF SessionType
  <2> HIDE DEF m
  <2>2. m \in StateType /\ p \in SessionType /\ Shape(p)
    BY <2>1 DEF Sound, StateType
  <2>3. /\ p.forward = f /\ p.client = q.client /\ p.dial = q.dial /\ p.serve = q.serve /\ p.remote = q.remote
    BY <1>3, <2>1 DEF Like, f
  <2>4. Commits(f, Edit(m, s, r))
    BY <1>10, <2>2, LeavesIs
  <2>5. /\ r \in SessionType /\ r.serve = "finish" /\ ~r.local /\ r.canceled /\ r.forward = p.forward
        /\ r.client = p.client /\ r.dial = p.dial /\ r.active = p.active /\ r.remote = p.remote
    BY <2>2, LeftIs
  <2> HIDE DEF r
  <2>6. Shape(r)
    BY <1>1, <1>4, <2>2, <2>3, <2>5 DEF Shape, Connected, Serving, f
  <2>7. StateKept /\ sessions'[s] = r /\ \A t \in Sessions \ {s} : Stands(t)
    BY <1>1, <1>3, <1>10, <2>1, <2>3, <2>4, <2>5, <2>6, SessionStep DEF f, a
  <2>8. s \in Served' /\ s \in Served /\ (s \in Dialed' <=> s \in Dialed)
    BY <1>1, <2>3, <2>5, <2>7 DEF Served, Dialed
  <2>9. r.dial = "dial" => ~closed \/ r.client \in hungUp
    BY <2>3, <2>5 DEF Inv
  <2> QED
    BY <1>1, <2>3, <2>5, <2>7, <2>8, <2>9, OneStepKept
<1> QED
  BY <1>2, <1>8, <1>9, <1>10

(* serve gives up the connection it has, and leaves.                        *)
LEMMA LeaveStep ==
  ASSUME PortForwardAssumption, Inv, NEW s \in Sessions, sessions[s].serve \in Connected,
         NEW f \in Forwards, f = sessions[s].forward,
         NEW m, Sound(f, m), Like(f, State(f), m), ~m.sessions[s].active,
         Commits(f, Leaves(s, [m EXCEPT !.sessions[s].remote = FALSE])),
         UNCHANGED <<conn, hungUp, live, sessionCount, dialCount, closed>>
  PROVE  Inv'
<1> DEFINE q == sessions[s]
           p == m.sessions[s]
           p1 == [p EXCEPT !.remote = FALSE]
           r == Left(p1)
<1>1. q.serve # "none"
  BY DEF Connected
<1>2. /\ q \in SessionType /\ Shape(q) /\ State(f).sessions = sessions
  BY <1>1, SessionFacts
<1>3. m \in StateType /\ p \in SessionType /\ Shape(p)
  BY DEF Sound, StateType
<1>4. /\ p.forward = f /\ p.client = q.client /\ p.dial = q.dial /\ p.serve = q.serve
  BY <1>2 DEF Like
<1>5. /\ p1 \in SessionType /\ p1.forward = f /\ p1.client = q.client /\ p1.dial = q.dial
      /\ p1.active = p.active /\ ~p1.remote
  BY <1>3, <1>4 DEF SessionType
<1>6. [m EXCEPT !.sessions[s].remote = FALSE] = Edit(m, s, p1)
  BY <1>3, EditRemote
<1> HIDE DEF p1
<1>7. Leaves(s, Edit(m, s, p1)) = Edit(m, s, r)
  <2>1. m \in StateType /\ p1 \in SessionType
    BY <1>3, <1>5
  <2>2. \A x \in SessionType : Leaves(s, Edit(m, s, x)) = Edit(m, s, Left(x))
    BY <1>3, EditTwice
  <2> HIDE DEF p
  <2> QED
    BY <2>1, <2>2, Zenon
<1>8. Commits(f, Edit(m, s, r))
  BY <1>6, <1>7, Zenon
<1>9. /\ r \in SessionType /\ r.serve = "finish" /\ ~r.local /\ r.canceled /\ r.forward = f
      /\ r.client = q.client /\ r.dial = q.dial /\ r.active = p.active /\ ~r.remote
  BY <1>3, <1>5, LeftIs
<1> HIDE DEF r
<1>10. q.dial \in {"finish", "done"} /\ f # 0 /\ q.client # 0
  BY <1>1, <1>2 DEF Shape
<1>11. Shape(r)
  BY <1>9, <1>10 DEF Shape, Connected, Serving
<1>12. StateKept /\ sessions'[s] = r /\ \A t \in Sessions \ {s} : Stands(t)
  BY <1>8, <1>9, <1>11, SessionStep
<1>13. s \in Served' /\ s \in Served /\ (s \in Dialed' <=> s \in Dialed) /\ r.dial # "dial"
  BY <1>9, <1>10, <1>12 DEF Served, Dialed, Connected
<1> QED
  BY <1>9, <1>12, <1>13, OneStepKept

(* serve has the connection: it goes on, or the dial's context has ended.   *)
LEMMA ServeGetsKept ==
  ASSUME PortForwardAssumption, Inv, NEW s \in Sessions, ServeGets(s) PROVE Inv'
<1> DEFINE q == sessions[s]
           f == q.forward
           a == State(f)
           m == dialFailed(f, q.client, q.canceled, a)
           r == [q EXCEPT !.serve = "activate"]
<1>1. q.serve = "got" /\ UNCHANGED <<conn, hungUp, live, sessionCount, dialCount, closed>>
  BY DEF ServeGets
<1>2. \/ Commits(f, [a EXCEPT !.sessions[s].serve = "activate"])
      \/ Commits(f, Leaves(s, [m EXCEPT !.sessions[s].remote = FALSE]))
  BY DEF ServeGets
<1>3. /\ f \in Forwards /\ q \in SessionType /\ Shape(q) /\ lookup \in Clients \cup {0}
      /\ Sound(f, a) /\ a \in StateType /\ a.sessions = sessions /\ Like(f, a, a)
      /\ a.live = (live = f) /\ a.forward = forwards[f]
      /\ ~q.canceled => live = f /\ q.client = forwards[f].client
  BY <1>1, SessionFacts
<1>4. CASE Commits(f, [a EXCEPT !.sessions[s].serve = "activate"])
  <2>1. /\ r \in SessionType /\ r.dial = q.dial /\ r.serve = "activate" /\ r.forward = f /\ r.client = q.client
        /\ r.active = q.active /\ r.canceled = q.canceled /\ r.local = q.local /\ r.remote = q.remote
    BY <1>3 DEF SessionType
  <2>2. Commits(f, Edit(a, s, r))
    BY <1>3, <1>4, Edits
  <2> HIDE DEF r
  <2>3. Shape(r)
    BY <1>1, <1>3, <2>1 DEF Shape, Connected, Serving
  <2> HIDE DEF f, a
  <2>4. /\ r.forward = f /\ r.active = a.sessions[s].active /\ r \in SessionType
        /\ ~r.canceled => a.live /\ r.client = a.forward.client
    BY <1>3, <2>1
  <2>5. f = sessions[s].forward /\ UNCHANGED live /\ Like(f, State(f), a)
    BY <1>1, <1>3 DEF f, a
  <2>6. StateKept /\ sessions'[s] = r /\ \A t \in Sessions \ {s} : Stands(t)
    BY <1>3, <2>2, <2>3, <2>4, <2>5, SessionStep
  <2>7. s \in Served' /\ s \in Served /\ (s \in Dialed' <=> s \in Dialed) /\ r.dial # "dial"
    BY <1>1, <1>3, <2>1, <2>6 DEF Served, Dialed, Shape, Connected
  <2> QED
    BY <1>1, <2>6, <2>7, OneStepKept
<1>5. CASE Commits(f, Leaves(s, [m EXCEPT !.sessions[s].remote = FALSE]))
  <2>1. Sound(f, m) /\ Like(f, a, m)
    BY <1>3, DialFailedSound DEF SessionType
  <2> HIDE DEF m
  <2>2. Shape(m.sessions[s]) /\ m.sessions[s].serve = "got"
    BY <1>1, <1>3, <2>1 DEF Sound, Like
  <2>3. ~m.sessions[s].active /\ q.serve \in Connected
    BY <1>1, <2>2 DEF Shape, Connected
  <2> QED
    BY <1>1, <1>3, <1>5, <2>1, <2>3, LeaveStep
<1> QED
  BY <1>2, <1>4, <1>5

(* deactivateLocked of one session.                                         *)
LEMMA DeactivateSound ==
  ASSUME PortForwardAssumption, NEW f \in Forwards, NEW m, Sound(f, m), NEW s \in Sessions,
         m.sessions[s].forward = f
  PROVE  LET n == deactivateLocked(m, {s}) IN
         /\ Sound(f, n) /\ Like(f, m, n) /\ ~n.sessions[s].active
         /\ ~m.sessions[s].active => n = m
<1> DEFINE n == deactivateLocked(m, {s})
           on == {t \in {s} : m.sessions[t].active}
           d == [m.sessions[s] EXCEPT !.active = FALSE]
<1>1. /\ m \in StateType /\ m.live \in BOOLEAN /\ m.forward \in ForwardType /\ m.sessions \in [Sessions -> SessionType]
      /\ m = [live |-> m.live, forward |-> m.forward, sessions |-> m.sessions]
      /\ m.forward.conns = Cardinality(On(f, m)) /\ m.forward.conns \in 0 .. MaxSessions
      /\ \A t \in Sessions : Shape(m.sessions[t])
  BY DEF Sound, StateType, ForwardType
<1>2. /\ n = [live |-> m.live, forward |-> n.forward, sessions |-> n.sessions]
      /\ n.forward = [m.forward EXCEPT !.conns = m.forward.conns - Cardinality(on)]
      /\ n.sessions \in [Sessions -> SessionType]
      /\ \A t \in Sessions \ on : n.sessions[t] = m.sessions[t]
      /\ \A t \in on : n.sessions[t] = [m.sessions[t] EXCEPT !.active = FALSE]
  <2>1. {s} \in SUBSET Sessions
    OBVIOUS
  <2> QED
    BY <1>1, <2>1, DeactivateIs, Zenon
<1> HIDE DEF n
<1>3. CASE ~m.sessions[s].active
  <2>1. on = {}
    BY <1>3
  <2>2. n.forward = m.forward
    <3>1. Cardinality(on) = 0
      BY <2>1, FS_EmptySet
    <3> HIDE DEF on
    <3>2. n.forward = [m.forward EXCEPT !.conns = m.forward.conns]
      BY <1>1, <1>2, <3>1
    <3> QED
      BY <1>1, <3>2 DEF ForwardType
  <2>3. n.sessions = m.sessions
    BY <1>1, <1>2, <2>1
  <2>4. n = m
    BY <1>1, <1>2, <2>2, <2>3
  <2> QED
    BY <1>3, <2>4 DEF Like, n
<1>4. CASE m.sessions[s].active
  <2>1. on = {s} /\ s \in On(f, m) /\ On(f, m) \in SUBSET Sessions
    BY <1>4 DEF On
  <2>2. /\ n.sessions[s] = d /\ \A t \in Sessions \ {s} : n.sessions[t] = m.sessions[t]
    BY <1>2, <2>1
  <2>3. /\ d \in SessionType /\ ~d.active /\ d.local = m.sessions[s].local /\ d.canceled = m.sessions[s].canceled
        /\ d.forward = m.sessions[s].forward /\ d.client = m.sessions[s].client /\ d.dial = m.sessions[s].dial
        /\ d.serve = m.sessions[s].serve /\ d.remote = m.sessions[s].remote
    BY <1>1, CutIs
  <2>4. Cardinality(on) = 1 /\ Cardinality(On(f, m) \ {s}) = m.forward.conns - 1 /\ m.forward.conns > 0
    BY <1>1, <2>1, CountOne, FS_Singleton
  <2> HIDE DEF d, on
  <2>5. n.forward = [m.forward EXCEPT !.conns = m.forward.conns - 1]
    BY <1>2, <2>4
  <2>6. /\ n.forward \in ForwardType /\ n.forward.conns = m.forward.conns - 1
        /\ n.forward.status = m.forward.status /\ n.forward.client = m.forward.client
        /\ n.forward.accept = m.forward.accept /\ n.live = m.live
    <3>1. m.forward.conns - 1 \in 0 .. MaxSessions
      BY <1>1, <2>4 DEF PortForwardAssumption
    <3> QED
      BY <1>1, <1>2, <2>5, <3>1 DEF ForwardType
  <2>7. On(f, n) = On(f, m) \ {s}
    BY <2>2, <2>3 DEF On
  <2>8. Shape(d)
    BY <1>1, <2>3 DEF Shape
  <2>9. \A t \in Sessions : Shape(n.sessions[t])
    BY <1>1, <2>2, <2>8
  <2>10. \A t \in Sessions : n.sessions[t].forward = f /\ ~n.sessions[t].canceled =>
           n.live /\ n.sessions[t].client = n.forward.client
    BY <2>2, <2>3, <2>6 DEF Sound
  <2>11. n \in StateType
    BY <1>1, <1>2, <2>6 DEF StateType
  <2>12. Sound(f, n)
    BY <2>4, <2>6, <2>7, <2>9, <2>10, <2>11 DEF Sound
  <2>13. Like(f, m, n)
    BY <2>2, <2>3, <2>6 DEF Like
  <2> QED
    BY <1>4, <2>2, <2>3, <2>12, <2>13 DEF n
<1> QED
  BY <1>3, <1>4

(* A relay ends.                                                            *)
LEMMA RelayEndsKept ==
  ASSUME PortForwardAssumption, Inv, NEW s \in Sessions, RelayEnds(s) PROVE Inv'
<1> DEFINE f == sessions[s].forward
           m == deactivateLocked(State(f), {s})
<1>1. sessions[s].serve = "relay" /\ UNCHANGED <<conn, hungUp, live, sessionCount, dialCount, closed>>
      /\ Commits(f, Leaves(s, [m EXCEPT !.sessions[s].remote = FALSE]))
  BY DEF RelayEnds
<1>2. /\ f \in Forwards /\ Sound(f, State(f)) /\ State(f).sessions = sessions
  BY <1>1, SessionFacts
<1>3. Sound(f, m) /\ Like(f, State(f), m) /\ ~m.sessions[s].active
  BY <1>2, DeactivateSound
<1> HIDE DEF m
<1> QED
  BY <1>1, <1>2, <1>3, LeaveStep DEF Connected

(* The session is taken out.                                                *)
LEMMA FinishKept ==
  ASSUME PortForwardAssumption, Inv, NEW s \in Sessions, finish(s) PROVE Inv'
<1> DEFINE q == sessions[s]
           f == q.forward
           a == State(f)
           m == deactivateLocked(a, {s})
           r == [q EXCEPT !.serve = "done"]
<1>1. q.serve = "finish" /\ UNCHANGED <<conn, hungUp, live, dialCount, closed>>
      /\ sessionCount' = sessionCount - 1 /\ Commits(f, [m EXCEPT !.sessions[s].serve = "done"])
  BY DEF finish
<1>2. /\ f \in Forwards /\ q \in SessionType /\ Shape(q)
      /\ Sound(f, a) /\ a \in StateType /\ a.sessions = sessions /\ Like(f, a, a)
      /\ a.live = (live = f) /\ a.forward = forwards[f]
  BY <1>1, SessionFacts
<1>3. ~q.active /\ q.canceled
  BY <1>1, <1>2 DEF Shape
<1>4. m = a
  BY <1>2, <1>3, DeactivateSound
<1>5. /\ r \in SessionType /\ r.dial = q.dial /\ r.serve = "done" /\ r.forward = f /\ r.client = q.client
      /\ r.active = q.active /\ r.canceled = q.canceled /\ r.local = q.local /\ r.remote = q.remote
  BY <1>2 DEF SessionType
<1> HIDE DEF m
<1>6. Commits(f, Edit(a, s, r))
  <2>1. [a EXCEPT !.sessions[s].serve = "done"] = Edit(a, s, r)
    BY <1>2, Edits
  <2> QED
    BY <1>1, <1>4, <2>1, Zenon
<1> HIDE DEF r
<1>7. Shape(r)
  BY <1>1, <1>2, <1>5 DEF Shape, Connected, Serving
<1> HIDE DEF f, a
<1>8. r.forward = f /\ r.active = a.sessions[s].active /\ f = sessions[s].forward /\ Like(f, State(f), a)
  BY <1>2, <1>5 DEF f, a
<1>9. StateKept /\ sessions'[s] = r /\ \A t \in Sessions \ {s} : Stands(t)
  BY <1>1, <1>2, <1>3, <1>5, <1>6, <1>7, <1>8, SessionStep
<1>10. s \notin Served' /\ s \in Served /\ (s \in Dialed' <=> s \in Dialed)
  BY <1>1, <1>5, <1>9 DEF Served, Dialed
<1>11. r.dial = "dial" => ~closed \/ r.client \in hungUp
  BY <1>5 DEF Inv
<1> QED
  BY <1>1, <1>9, <1>10, <1>11, OneStepKept

(* The session relays, and is counted.                                      *)
Activated(v, g, S, s) ==
  [live |-> v, forward |-> [g EXCEPT !.conns = g.conns + 1, !.status = "active"],
   sessions |-> [S EXCEPT ![s] = [S[s] EXCEPT !.active = TRUE, !.serve = "relay"]]]

LEMMA ActivatedSound ==
  ASSUME PortForwardAssumption, NEW f \in Forwards, NEW m, Sound(f, m), NEW s \in Sessions,
         m.sessions[s].forward = f, m.sessions[s].serve = "activate", ~m.sessions[s].canceled,
         NEW n, n = Activated(m.live, m.forward, m.sessions, s)
  PROVE  /\ Sound(f, n) /\ n.live = m.live
         /\ n.sessions[s].serve = "relay" /\ n.sessions[s].dial = m.sessions[s].dial
         /\ n.sessions[s].client = m.sessions[s].client /\ n.sessions[s].forward = f
         /\ \A t \in Sessions \ {s} : n.sessions[t] = m.sessions[t]
<1> DEFINE p == m.sessions[s]
           d == [p EXCEPT !.active = TRUE, !.serve = "relay"]
<1>1. /\ m \in StateType /\ m.live \in BOOLEAN /\ m.forward \in ForwardType /\ m.sessions \in [Sessions -> SessionType]
      /\ m.forward.conns = Cardinality(On(f, m)) /\ p \in SessionType
      /\ \A t \in Sessions : Shape(m.sessions[t])
  BY DEF Sound, StateType
<1>2. /\ d \in SessionType /\ d.active /\ d.local = p.local /\ d.canceled = p.canceled
      /\ d.forward = p.forward /\ d.client = p.client /\ d.dial = p.dial
      /\ d.serve = "relay" /\ d.remote = p.remote
  BY <1>1 DEF SessionType
<1> HIDE DEF d
<1>3. /\ n.live = m.live /\ n.sessions[s] = d /\ \A t \in Sessions \ {s} : n.sessions[t] = m.sessions[t]
      /\ n.sessions \in [Sessions -> SessionType]
      /\ n.forward = [m.forward EXCEPT !.conns = m.forward.conns + 1, !.status = "active"]
      /\ n = [live |-> n.live, forward |-> n.forward, sessions |-> n.sessions]
  BY <1>1, <1>2 DEF d, Activated
<1>4. On(f, n) = On(f, m) \cup {s} /\ s \notin On(f, m) /\ On(f, m) \in SUBSET Sessions /\ On(f, n) \in SUBSET Sessions
  <2>1. ~p.active
    BY <1>1 DEF Shape
  <2>2. On(f, m) \in SUBSET Sessions /\ On(f, n) \in SUBSET Sessions /\ s \notin On(f, m)
    BY <2>1 DEF On
  <2>3. \A t \in Sessions : t \in On(f, n) <=> t \in On(f, m) \/ t = s
    BY <1>2, <1>3 DEF On
  <2> QED
    BY <2>2, <2>3
<1>5. Cardinality(On(f, n)) = m.forward.conns + 1 /\ m.forward.conns + 1 \in 0 .. MaxSessions
  BY <1>1, <1>4, CountOne, Counting
<1> HIDE DEF p
<1>6. n.forward \in ForwardType /\ n.forward.conns = m.forward.conns + 1 /\ n.forward.status = "active"
      /\ n.forward.client = m.forward.client
  BY <1>1, <1>3, <1>5 DEF ForwardType, Statuses
<1>7. Shape(d)
  BY <1>1, <1>2 DEF Shape, Connected, Serving, p
<1>8. \A t \in Sessions : Shape(n.sessions[t])
  BY <1>1, <1>3, <1>7
<1>9. \A t \in Sessions : n.sessions[t].forward = f /\ ~n.sessions[t].canceled =>
        n.live /\ n.sessions[t].client = n.forward.client
  BY <1>2, <1>3, <1>6 DEF Sound, p
<1>10. n \in StateType
  BY <1>1, <1>3, <1>6 DEF StateType
<1>11. Sound(f, n)
  BY <1>5, <1>6, <1>8, <1>9, <1>10 DEF Sound
<1> QED
  BY <1>2, <1>3, <1>11 DEF p

Activates(a, s) ==
  statusLocked([a EXCEPT !.sessions[s].active = TRUE, !.sessions[s].serve = "relay", !.forward.conns = @ + 1], "active")

(* Activation by states and by the parts of a state is the same.            *)
LEMMA ActivatedIs ==
  ASSUME NEW m \in StateType, NEW s \in Sessions
  PROVE  Activates(m, s) = Activated(m.live, m.forward, m.sessions, s)
<1> DEFINE v == m.live
           g == m.forward
           S == m.sessions
<1>0. m = [live |-> v, forward |-> g, sessions |-> S] /\ S \in [Sessions -> SessionType] /\ g \in ForwardType
  BY DEF StateType
<1> HIDE DEF v, g, S
<1> DEFINE a == [live |-> v, forward |-> g, sessions |-> S]
           T == [S EXCEPT ![s] = [S[s] EXCEPT !.active = TRUE]]
           U == [T EXCEPT ![s] = [T[s] EXCEPT !.serve = "relay"]]
           a1 == [a EXCEPT !.sessions[s].active = TRUE]
           a2 == [a1 EXCEPT !.sessions[s].serve = "relay"]
           a3 == [a2 EXCEPT !.forward.conns = @ + 1]
           a4 == [a3 EXCEPT !.forward.status = "active"]
<1>1. a1 = [live |-> v, forward |-> g, sessions |-> T]
  <2>1. a1 = [[live |-> v, forward |-> g, sessions |-> S] EXCEPT !.sessions[s].active = TRUE]
    OBVIOUS
  <2>2. T = [S EXCEPT ![s] = [S[s] EXCEPT !.active = TRUE]]
    OBVIOUS
  <2> HIDE DEF a1, T
  <2> QED
    BY <2>1, <2>2
<1>2. T \in [Sessions -> SessionType] /\ T[s] = [S[s] EXCEPT !.active = TRUE]
  <2>1. [S[s] EXCEPT !.active = TRUE] \in SessionType
    <3>1. S[s] \in SessionType
      BY <1>0
    <3> QED
      BY <3>1 DEF SessionType
  <2> QED
    BY <1>0, <2>1
<1>3. U = [S EXCEPT ![s] = [S[s] EXCEPT !.active = TRUE, !.serve = "relay"]]
  BY <1>0, <1>2
<1> HIDE DEF a1, T
<1>4. a2 = [live |-> v, forward |-> g, sessions |-> U]
  BY <1>1
<1> HIDE DEF a2, U
<1>5. a3 = [live |-> v, forward |-> [g EXCEPT !.conns = g.conns + 1], sessions |-> U]
  BY <1>4
<1> HIDE DEF a3
<1>6. a4 = [live |-> v, forward |-> [g EXCEPT !.conns = g.conns + 1, !.status = "active"], sessions |-> U]
  BY <1>5
<1>7. a4 = Activates(a, s)
  BY DEF Activates, statusLocked, a1, a2, a3
<1> HIDE DEF a4
<1>8. Activates(a, s) = Activated(v, g, S, s)
  BY <1>3, <1>6, <1>7 DEF Activated
<1> HIDE DEF a
<1>9. m = a
  BY <1>0 DEF a
<1> QED
  BY <1>8, <1>9 DEF v, g, S

(* activate.                                                                *)
LEMMA ActivateKept ==
  ASSUME PortForwardAssumption, Inv, NEW s \in Sessions, activate(s) PROVE Inv'
<1> DEFINE q == sessions[s]
           f == q.forward
           a == State(f)
           m == IF live = f THEN refreshLocked(f, a) ELSE a
           refused == live # f \/ lookup # q.client \/ q.canceled
           on == [m EXCEPT !.sessions[s].active = TRUE, !.sessions[s].serve = "relay", !.forward.conns = @ + 1]
<1>1. q.serve = "activate" /\ UNCHANGED <<conn, hungUp, live, sessionCount, dialCount, closed>>
      /\ \/ refused /\ Commits(f, Leaves(s, [m EXCEPT !.sessions[s].remote = FALSE]))
         \/ ~refused /\ Commits(f, statusLocked(on, "active"))
  BY DEF activate
<1>2. /\ f \in Forwards /\ q \in SessionType /\ Shape(q) /\ lookup \in Clients \cup {0}
      /\ Sound(f, a) /\ a \in StateType /\ a.sessions = sessions /\ Like(f, a, a)
      /\ a.live = (live = f) /\ a.forward = forwards[f]
      /\ ~q.canceled => live = f /\ q.client = forwards[f].client
  BY <1>1, SessionFacts
<1>3. Sound(f, m) /\ Like(f, a, m)
  BY <1>2, RefreshSound
<1>4. CASE refused
  <2>1. Commits(f, Leaves(s, [m EXCEPT !.sessions[s].remote = FALSE]))
    BY <1>1, <1>4
  <2> HIDE DEF m, refused
  <2>2. Shape(m.sessions[s]) /\ m.sessions[s].serve = "activate"
    BY <1>1, <1>2, <1>3 DEF Sound, Like
  <2>3. ~m.sessions[s].active /\ q.serve \in Connected
    BY <1>1, <2>2 DEF Shape, Connected
  <2> QED
    BY <1>1, <1>2, <1>3, <2>1, <2>3, LeaveStep
<1>5. CASE ~refused
  <2>1. live = f /\ lookup = forwards[f].client /\ ~q.canceled
    BY <1>2, <1>5
  <2>2. m = a
    <3>1. lookup = a.forward.client
      BY <1>2, <2>1
    <3> QED
      BY <1>2, <2>1, <3>1, RefreshSound
  <2> DEFINE n == Activated(a.live, a.forward, a.sessions, s)
  <2>5. Commits(f, n)
    <3>1. Commits(f, Activates(a, s))
      BY <1>1, <1>5, <2>2 DEF Activates
    <3> QED
      BY <1>2, <3>1, ActivatedIs
  <2>6. /\ Sound(f, n) /\ n.live = a.live
        /\ n.sessions[s].serve = "relay" /\ n.sessions[s].dial = q.dial
        /\ n.sessions[s].client = q.client /\ n.sessions[s].forward = f
        /\ \A t \in Sessions \ {s} : n.sessions[t] = sessions[t]
    <3>1. a.sessions[s].forward = f /\ a.sessions[s].serve = "activate" /\ ~a.sessions[s].canceled
      BY <1>1, <1>2, <2>1
    <3> HIDE DEF a, f
    <3>2. /\ Sound(f, n) /\ n.live = a.live
          /\ n.sessions[s].serve = "relay" /\ n.sessions[s].dial = a.sessions[s].dial
          /\ n.sessions[s].client = a.sessions[s].client /\ n.sessions[s].forward = f
          /\ \A t \in Sessions \ {s} : n.sessions[t] = a.sessions[t]
      BY <1>2, <3>1, ActivatedSound
    <3> HIDE DEF n
    <3> QED
      BY <1>2, <3>2
  <2> HIDE DEF n
  <2>7. sessions' = n.sessions
    BY <2>5 DEF Commits
  <2>8. StateKept
    <3>1. n.live = (live' = f)
      BY <1>1, <1>2, <2>6
    <3>2. \A t \in Sessions : /\ sessions[t].forward \in {0, f} => n.sessions[t].forward \in {0, f}
                              /\ sessions[t].forward \notin {0, f} => n.sessions[t] = sessions[t]
      BY <2>6
    <3> HIDE DEF f
    <3> QED
      BY <1>1, <1>2, <2>5, <2>6, <3>1, <3>2, CommitKept DEF StateKept
  <2>9. \A t \in Sessions : Stands(t) \/ t = s
    BY <2>6, <2>7 DEF Stands
  <2>10. s \in Served' /\ s \in Served /\ (s \in Dialed' <=> s \in Dialed) /\ sessions'[s].dial # "dial"
    BY <1>1, <1>2, <2>6, <2>7 DEF Served, Dialed, Shape, Connected
  <2> QED
    BY <1>1, <2>8, <2>9, <2>10, OneStepKept
<1> QED
  BY <1>4, <1>5

(* A session begins: its record is that of a new one.                       *)
Begun(q, f, client) ==
  [q EXCEPT !.forward = f, !.client = client, !.dial = "dial", !.serve = "wait", !.local = TRUE]

Begins(m, s, f, client) ==
  [m EXCEPT !.sessions[s].forward = f, !.sessions[s].client = client,
            !.sessions[s].dial = "dial", !.sessions[s].serve = "wait", !.sessions[s].local = TRUE]

(* The five fields that accept sets are one edit of the record.             *)
LEMMA BegunIs ==
  ASSUME NEW f \in Forwards, NEW client \in Clients, NEW m \in StateType, NEW s \in Sessions
  PROVE  /\ Begins(m, s, f, client) = Edit(m, s, Begun(m.sessions[s], f, client))
         /\ Begun(m.sessions[s], f, client) \in SessionType
<1> DEFINE v == m.live
           g == m.forward
           S == m.sessions
<1>0. m = [live |-> v, forward |-> g, sessions |-> S] /\ S \in [Sessions -> SessionType]
  BY DEF StateType
<1>e. Edit(m, s, Begun(m.sessions[s], f, client))
      = [live |-> v, forward |-> g, sessions |-> [S EXCEPT ![s] = Begun(S[s], f, client)]]
  BY DEF Edit, StateType
<1> HIDE DEF v, g, S
<1> DEFINE a == [live |-> v, forward |-> g, sessions |-> S]
           S1 == [S EXCEPT ![s].forward = f]
           S2 == [S1 EXCEPT ![s].client = client]
           S3 == [S2 EXCEPT ![s].dial = "dial"]
           S4 == [S3 EXCEPT ![s].serve = "wait"]
           S5 == [S4 EXCEPT ![s] = [S4[s] EXCEPT !.local = TRUE]]
           a1 == [a EXCEPT !.sessions[s].forward = f]
           a2 == [a1 EXCEPT !.sessions[s].client = client]
           a3 == [a2 EXCEPT !.sessions[s].dial = "dial"]
           a4 == [a3 EXCEPT !.sessions[s].serve = "wait"]
           a5 == [a4 EXCEPT !.sessions[s].local = TRUE]
<1>6. S5 = [S EXCEPT ![s] = Begun(S[s], f, client)] /\ S4 = [S4 EXCEPT ![s] = S4[s]]
  BY <1>0 DEF Begun
<1>7. Begun(S[s], f, client) \in SessionType
  <2>1. S[s] \in SessionType
    BY <1>0
  <2> QED
    BY <2>1 DEF Begun, SessionType
<1> HIDE DEF S1, S2, S3, S4, S5
<1>1. a1 = [live |-> v, forward |-> g, sessions |-> S1]
  BY DEF S1
<1> HIDE DEF a, a1
<1>2. a2 = [live |-> v, forward |-> g, sessions |-> S2]
  BY <1>1 DEF S2
<1> HIDE DEF a2
<1>3. a3 = [live |-> v, forward |-> g, sessions |-> S3]
  BY <1>2 DEF S3
<1> HIDE DEF a3
<1>4. a4 = [live |-> v, forward |-> g, sessions |-> S4]
  BY <1>3 DEF S4
<1> HIDE DEF a4
<1>5. a5 = [live |-> v, forward |-> g, sessions |-> S5]
  <2>1. a5 = [[live |-> v, forward |-> g, sessions |-> S4] EXCEPT !.sessions[s].local = TRUE]
    BY <1>4, Zenon
  <2>2. S5 = [S4 EXCEPT ![s] = [S4[s] EXCEPT !.local = TRUE]]
    BY DEF S5
  <2> HIDE DEF a5
  <2> QED
    BY <2>1, <2>2
<1> HIDE DEF a5
<1>8. a5 = Begins(m, s, f, client)
  BY <1>0 DEF a, a1, a2, a3, a4, a5, Begins
<1> QED
  BY <1>5, <1>6, <1>7, <1>8, <1>e DEF S

(* A session that begins is sound where the forward has the client it dials *)
(* through.                                                                 *)
LEMMA BegunSound ==
  ASSUME NEW f \in Forwards, NEW client \in Clients, NEW m, Sound(f, m), NEW s \in Sessions,
         m.sessions[s].serve = "none", live = f, m.live = (live = f), m.forward.client = client,
         NEW r, r = Begun(m.sessions[s], f, client), NEW n, n = Edit(m, s, r)
  PROVE  /\ Sound(f, n) /\ n.live = m.live /\ n.sessions[s] = r
         /\ r.dial = "dial" /\ r.serve = "wait" /\ r.client = client /\ r.forward = f
         /\ \A t \in Sessions \ {s} : n.sessions[t] = m.sessions[t]
<1> DEFINE q == m.sessions[s]
<1>1. /\ m \in StateType /\ m.live \in BOOLEAN /\ m.forward \in ForwardType
      /\ m.sessions \in [Sessions -> SessionType] /\ q \in SessionType /\ Shape(q)
  BY DEF Sound, StateType
<1>2. /\ r \in SessionType /\ r.forward = f /\ r.client = client /\ r.dial = "dial" /\ r.serve = "wait"
      /\ r.local /\ r.canceled = q.canceled /\ r.active = q.active /\ r.remote = q.remote
  BY <1>1 DEF Begun, SessionType
<1>3. ~q.canceled /\ ~q.active /\ ~q.remote
  BY <1>1 DEF Shape, Connected, Serving
<1>4. Shape(r)
  <2>1. f # 0 /\ client # 0
    BY DEF Forwards, Clients
  <2> QED
    BY <1>2, <1>3, <2>1 DEF Shape, Connected, Serving
<1>5. n = [live |-> m.live, forward |-> m.forward, sessions |-> [m.sessions EXCEPT ![s] = r]] /\ n \in StateType
  <2>1. m = [live |-> m.live, forward |-> m.forward, sessions |-> m.sessions]
    BY <1>1 DEF StateType
  <2>2. n = [live |-> m.live, forward |-> m.forward, sessions |-> [m.sessions EXCEPT ![s] = r]]
    BY <2>1 DEF Edit
  <2> QED
    BY <1>1, <1>2, <2>2 DEF StateType
<1>6. /\ n.live = m.live /\ n.forward = m.forward /\ n.sessions[s] = r
      /\ \A t \in Sessions \ {s} : n.sessions[t] = m.sessions[t]
  BY <1>1, <1>5
<1>7. On(f, n) = On(f, m)
  BY <1>2, <1>3, <1>6 DEF On
<1>8. \A t \in Sessions : Shape(n.sessions[t])
  BY <1>4, <1>6 DEF Sound
<1>9. \A t \in Sessions : n.sessions[t].forward = f /\ ~n.sessions[t].canceled =>
        n.live /\ n.sessions[t].client = n.forward.client
  <2>1. n.live
    BY <1>6
  <2>2. \A t \in Sessions : m.sessions[t].forward = f /\ ~m.sessions[t].canceled =>
          m.sessions[t].client = m.forward.client
    BY DEF Sound
  <2> QED
    BY <1>2, <1>6, <2>1, <2>2
<1>10. Sound(f, n)
  BY <1>5, <1>6, <1>7, <1>8, <1>9 DEF Sound
<1> QED
  BY <1>2, <1>6, <1>10

-----------------------------------------------------------------------------
(* Steps that move no session                                               *)

(* The sessions of f may be canceled, closed and taken off, no more.        *)
Moves(f, S) ==
  \A s \in Sessions :
    /\ S[s].forward = sessions[s].forward /\ S[s].client = sessions[s].client
    /\ S[s].dial = sessions[s].dial /\ S[s].serve = sessions[s].serve
    /\ sessions[s].forward # f => S[s] = sessions[s]

(* What is committed for a forward, with the forward listed after it.       *)
LEMMA ForwardStep ==
  ASSUME PortForwardAssumption, Inv, NEW f \in Forwards, NEW m, Sound(f, m), Moves(f, m.sessions),
         Commits(f, m), m.live = (live' = f), \A g \in Forwards \ {f} : live' = g <=> live = g
  PROVE  StateKept /\ \A t \in Sessions : Stands(t)
<1>1. \A s \in Sessions : /\ sessions[s].forward \in {0, f} => m.sessions[s].forward \in {0, f}
                          /\ sessions[s].forward \notin {0, f} => m.sessions[s] = sessions[s]
  BY DEF Moves
<1>2. StateKept
  BY <1>1, CommitKept DEF StateKept
<1>3. sessions' = m.sessions
  BY DEF Commits
<1> QED
  BY <1>2, <1>3 DEF Moves, Stands

(* Nothing of the forwards and the sessions changes.                        *)
LEMMA SameKept ==
  ASSUME Inv, UNCHANGED <<live, forwards, sessions>>
  PROVE  StateKept /\ \A t \in Sessions : Stands(t)
<1>1. \A g \in Forwards : State(g)' = State(g)
  BY DEF State
<1>2. \A g \in Forwards : Accounts(g)'
  BY <1>1 DEF Inv, Accounts
<1> QED
  BY <1>2 DEF StateKept, Shapes, Stands, Inv, TypeOK, ForwardType, SessionType

(* A forward all of whose sessions were dropped need not be listed.         *)
Unlisted(m) == [live |-> FALSE, forward |-> m.forward, sessions |-> m.sessions]

(* removeLocked, and the forward is listed no more.                         *)
LEMMA RemoveStep ==
  ASSUME PortForwardAssumption, Inv, live # 0, live' = 0,
         Commits(live, removeLocked(live, State(live)))
  PROVE  StateKept /\ \A t \in Sessions : Stands(t)
<1> DEFINE f == live
           a == State(f)
           m == removeLocked(f, a)
           n == Unlisted(m)
<1>1. f \in Forwards /\ Sound(f, a) /\ a.sessions = sessions
  BY DEF Inv, TypeOK, State
<1>2. /\ Sound(f, m) /\ Like(f, a, m) /\ On(f, m) = {}
      /\ \A s \in Sessions : m.sessions[s].forward = f => m.sessions[s].canceled
  <2> HIDE DEF a
  <2> QED
    BY <1>1, DropSound DEF Sound, removeLocked
<1> HIDE DEF m
<1>3. n.live = FALSE /\ n.forward = m.forward /\ n.sessions = m.sessions /\ n \in StateType
  BY <1>2 DEF Unlisted, Sound, StateType
<1> HIDE DEF n
<1>4. On(f, n) = On(f, m)
  BY <1>3 DEF On
<1>5. Sound(f, n)
  BY <1>2, <1>3, <1>4 DEF Sound
<1>6. Moves(f, n.sessions)
  BY <1>1, <1>2, <1>3 DEF Moves, Like
<1>7. Commits(f, n)
  BY <1>3 DEF Commits, m
<1>8. n.live = (live' = f) /\ \A g \in Forwards \ {f} : live' = g <=> live = g
  <2>1. \A g \in Forwards : g # 0
    BY DEF Forwards
  <2> QED
    BY <1>1, <1>3, <2>1
<1> HIDE DEF f
<1> QED
  BY <1>1, <1>5, <1>6, <1>7, <1>8, ForwardStep

(* What CloseAll is told is of the clients that were made.                  *)
LEMMA PendingIs ==
  ASSUME Inv
  PROVE  /\ pending \subseteq Clients
         /\ \A s \in Sessions : sessions[s].dial = "dial" => sessions[s].client \in pending
<1>1. \A s \in Sessions : sessions[s].dial # "none" => sessions[s].client # 0
  BY DEF Inv, Shapes, Shape
<1> QED
  BY <1>1 DEF pending, Inv, TypeOK

(* Refresh.                                                                 *)
LEMMA RefreshKept ==
  ASSUME PortForwardAssumption, Inv, Refresh PROVE Inv'
<1> DEFINE f == live
           a == State(f)
           m == refreshLocked(f, a)
<1>1. live # 0 /\ Commits(f, m) /\ UNCHANGED <<conn, hungUp, live, sessionCount, dialCount, closed>>
  BY DEF Refresh
<1>2. /\ f \in Forwards /\ Sound(f, a) /\ a.sessions = sessions /\ a.live = (live = f)
      /\ lookup \in Clients \cup {0}
  BY <1>1 DEF Inv, TypeOK, State, lookup
<1>3. Sound(f, m) /\ Like(f, a, m)
  BY <1>2, RefreshSound
<1> HIDE DEF m, a
<1>4. Moves(f, m.sessions) /\ m.live = (live' = f)
  BY <1>1, <1>2, <1>3 DEF Moves, Like
<1>5. StateKept /\ \A t \in Sessions : Stands(t)
  BY <1>1, <1>2, <1>3, <1>4, ForwardStep
<1> QED
  BY <1>1, <1>5, StillKept DEF Inv, TypeOK, Stands

(* Stop.                                                                    *)
LEMMA StopKept ==
  ASSUME PortForwardAssumption, Inv, Stop PROVE Inv'
<1>1. /\ live # 0 /\ live' = 0 /\ Commits(live, removeLocked(live, State(live)))
      /\ UNCHANGED <<conn, hungUp, sessionCount, dialCount, closed>>
  BY DEF Stop
<1>2. StateKept /\ \A t \in Sessions : Stands(t)
  BY <1>1, RemoveStep
<1> QED
  BY <1>1, <1>2, StillKept DEF Inv, TypeOK, Stands

(* shutdown: the clients of the dials that are under way are closed.        *)
LEMMA ShutdownKept ==
  ASSUME PortForwardAssumption, Inv, shutdown PROVE Inv'
<1>1. /\ live' = 0 /\ closed' = TRUE /\ hungUp' = pending /\ UNCHANGED <<conn, sessionCount, dialCount>>
      /\ \/ live = 0 /\ UNCHANGED <<forwards, sessions>>
         \/ live # 0 /\ Commits(live, removeLocked(live, State(live)))
  BY DEF shutdown
<1>2. StateKept /\ \A t \in Sessions : Stands(t)
  BY <1>1, RemoveStep, SameKept
<1> QED
  BY <1>1, <1>2, StillKept, PendingIs DEF Inv, TypeOK, Stands

(* ConnChanges.                                                             *)
LEMMA ConnChangesKept ==
  ASSUME PortForwardAssumption, Inv, ConnChanges PROVE Inv'
<1>1. /\ conn' \in [client : Clients \cup {0}, up : BOOLEAN]
      /\ UNCHANGED <<hungUp, live, forwards, sessions, sessionCount, dialCount, closed>>
  <2>1. conn \in [client : Clients \cup {0}, up : BOOLEAN] /\ MaxClients \in Nat
    BY DEF Inv, TypeOK, PortForwardAssumption
  <2>2. conn.client < MaxClients => conn.client + 1 \in Clients
    BY <2>1 DEF Clients
  <2>3. CASE conn' = [conn EXCEPT !.up = FALSE]
    BY <2>1, <2>3 DEF ConnChanges, fwdVars
  <2>4. CASE conn.client < MaxClients /\ conn' = [client |-> conn.client + 1, up |-> TRUE]
    BY <2>2, <2>4 DEF ConnChanges, fwdVars
  <2> QED
    BY <2>3, <2>4 DEF ConnChanges
<1>2. StateKept /\ \A t \in Sessions : Stands(t)
  BY <1>1, SameKept
<1> QED
  BY <1>1, <1>2, StillKept DEF Inv, TypeOK

(* Steps that change nothing.                                               *)
LEMMA StutterKept ==
  ASSUME PortForwardAssumption, Inv, UNCHANGED vars PROVE Inv'
<1>1. UNCHANGED <<conn, hungUp, live, forwards, sessions, sessionCount, dialCount, closed>>
  BY DEF vars, fwdVars
<1>2. StateKept /\ \A t \in Sessions : Stands(t)
  BY <1>1, SameKept
<1> QED
  BY <1>1, <1>2, StillKept DEF Inv, TypeOK

(* Start: no session of a forward that is not listed is under way.          *)
LEMMA StartKept ==
  ASSUME PortForwardAssumption, Inv, NEW f \in Forwards, Start(f) PROVE Inv'
<1> DEFINE a == State(f)
           g == [forwards[f] EXCEPT !.client = lookup, !.accept = "runs"]
           n == [live |-> TRUE, forward |-> g, sessions |-> sessions]
<1>1. /\ live = 0 /\ live' = f /\ forwards' = [forwards EXCEPT ![f].client = lookup, ![f].accept = "runs"]
      /\ UNCHANGED <<conn, hungUp, sessions, sessionCount, dialCount, closed>>
  BY DEF Start
<1>2. /\ Sound(f, a) /\ a.sessions = sessions /\ a.forward = forwards[f] /\ a.live = FALSE /\ f # 0
      /\ lookup \in Clients \cup {0} /\ forwards \in [Forwards -> ForwardType]
      /\ sessions \in [Sessions -> SessionType] /\ Shapes
  <2>1. Sound(f, a) /\ a.sessions = sessions /\ a.forward = forwards[f] /\ a.live = FALSE /\ f # 0
    <3>1. Sound(f, a) /\ f # 0
      BY DEF Inv, Forwards
    <3>2. a = [live |-> live = f, forward |-> forwards[f], sessions |-> sessions]
      BY DEF State
    <3>3. (live = f) = FALSE
      BY <1>1, <3>1
    <3>4. a = [live |-> FALSE, forward |-> forwards[f], sessions |-> sessions]
      BY <3>2, <3>3, Zenon
    <3> HIDE DEF a
    <3> QED
      BY <3>1, <3>4
  <2> HIDE DEF a
  <2>2. lookup \in Clients \cup {0}
    BY DEF Inv, TypeOK, lookup
  <2> QED
    BY <2>1, <2>2 DEF Inv, TypeOK, ForwardType, SessionType
<1>3. g \in ForwardType /\ g.conns = forwards[f].conns
  BY <1>2 DEF ForwardType
<1>4. \A s \in Sessions : sessions[s].forward = f => sessions[s].canceled /\ ~sessions[s].active
  <2> HIDE DEF a
  <2> QED
    BY <1>2 DEF Sound, Shapes, Shape
<1>5. forwards' = [forwards EXCEPT ![f] = g]
  BY <1>1, <1>2
<1> HIDE DEF g
<1>6. n.live = TRUE /\ n.forward = g /\ n.sessions = sessions /\ n \in StateType
  BY <1>2, <1>3 DEF StateType
<1> HIDE DEF n, a
<1>7. On(f, n) = {} /\ On(f, a) = {}
  BY <1>2, <1>4, <1>6 DEF On
<1>8. Sound(f, n)
  BY <1>2, <1>3, <1>4, <1>6, <1>7 DEF Sound, Shapes
<1>9. Commits(f, n) /\ Moves(f, n.sessions) /\ n.live = (live' = f)
  BY <1>1, <1>5, <1>6 DEF Commits, Moves
<1>10. \A h \in Forwards \ {f} : live' = h <=> live = h
  BY <1>1 DEF Forwards
<1>11. StateKept /\ \A t \in Sessions : Stands(t)
  BY <1>8, <1>9, <1>10, ForwardStep
<1> QED
  BY <1>1, <1>11, StillKept DEF Inv, TypeOK, Stands

(* listenerFailed.                                                          *)
LEMMA ListenerFailedKept ==
  ASSUME PortForwardAssumption, Inv, NEW f \in Forwards, listenerFailed(f) PROVE Inv'
<1> DEFINE a == State(f)
           g == [forwards[f] EXCEPT !.accept = "ended"]
           n == [live |-> live = f, forward |-> g, sessions |-> sessions]
           p == IF n.live THEN statusLocked(n, "broken") ELSE n
<1>1. UNCHANGED <<conn, hungUp, live, sessionCount, dialCount, closed>>
  BY DEF listenerFailed
<1>2. /\ Sound(f, a) /\ a.sessions = sessions /\ a.forward = forwards[f] /\ a.live = (live = f)
      /\ forwards \in [Forwards -> ForwardType] /\ sessions \in [Sessions -> SessionType]
  BY DEF Inv, TypeOK, State, ForwardType, SessionType
<1>3. g \in ForwardType /\ g.conns = forwards[f].conns /\ g.status = forwards[f].status /\ g.client = forwards[f].client
  BY <1>2 DEF ForwardType
<1>4. [a EXCEPT !.forward.accept = "ended"] = n
  BY DEF State
<1>5. Commits(f, p)
  BY <1>4 DEF listenerFailed
<1> HIDE DEF a, g
<1>6. n.live = (live = f) /\ n.forward = g /\ n.sessions = sessions /\ n \in StateType
  BY <1>2, <1>3 DEF StateType
<1> HIDE DEF n
<1>7. On(f, n) = On(f, a)
  BY <1>2, <1>6 DEF On
<1>8. Sound(f, n)
  BY <1>2, <1>3, <1>6, <1>7 DEF Sound
<1>9. Sound(f, p) /\ Like(f, n, p)
  <2>1. Like(f, n, n)
    BY DEF Like
  <2>2. Sound(f, statusLocked(n, "broken")) /\ Like(f, n, statusLocked(n, "broken"))
    BY <1>8, StatusSound DEF Statuses
  <2> QED
    BY <1>8, <2>1, <2>2
<1> HIDE DEF p
<1>10. Moves(f, p.sessions) /\ p.live = (live' = f)
  BY <1>1, <1>6, <1>9 DEF Moves, Like
<1>11. StateKept /\ \A t \in Sessions : Stands(t)
  BY <1>1, <1>5, <1>9, <1>10, ForwardStep
<1> QED
  BY <1>1, <1>11, StillKept DEF Inv, TypeOK, Stands

(* accept: refused with the state the forward is in, or a session begins.   *)
LEMMA AcceptKept ==
  ASSUME PortForwardAssumption, Inv, NEW s \in Sessions, accept(s) PROVE Inv'
<1> DEFINE f == live
           a == State(f)
           m == refreshLocked(f, a)
           begun == [m EXCEPT !.sessions[s].forward = f, !.sessions[s].client = lookup,
                              !.sessions[s].dial = "dial", !.sessions[s].serve = "wait",
                              !.sessions[s].local = TRUE]
           Refused(status) == Commits(f, statusLocked(m, status)) /\ UNCHANGED <<sessionCount, dialCount>>
<1>1. /\ ~closed /\ live # 0 /\ sessions[s].serve = "none" /\ UNCHANGED <<conn, hungUp, live, closed>>
      /\ \/ lookup = 0 /\ Refused("waiting")
         \/ Refused("limit")
         \/ /\ lookup # 0 /\ sessionCount < SessionLimit /\ dialCount < DialLimit
            /\ Commits(f, begun) /\ sessionCount' = sessionCount + 1 /\ dialCount' = dialCount + 1
  BY DEF accept
<1>2. /\ f \in Forwards /\ Sound(f, a) /\ a.sessions = sessions /\ a.live = (live = f)
      /\ lookup \in Clients \cup {0}
  <2>1. f \in Forwards /\ lookup \in Clients \cup {0}
    BY <1>1 DEF Inv, TypeOK, lookup
  <2> QED
    BY <2>1 DEF Inv, State
<1>3. /\ Sound(f, m) /\ Like(f, a, m) /\ m.forward.client = lookup
      /\ lookup = a.forward.client => m = a
      /\ lookup # a.forward.client => On(f, m) = {}
  <2> HIDE DEF a
  <2> QED
    BY <1>2, RefreshSound
<1>4. lookup = 0 => On(f, m) = {}
  <2> SUFFICES ASSUME lookup = 0, NEW t \in On(f, m) PROVE FALSE
    OBVIOUS
  <2> HIDE DEF m, a
  <2>1. /\ t \in Sessions /\ m.sessions[t].forward = f /\ m.sessions[t].active /\ Shape(m.sessions[t])
    BY <1>3 DEF On, Sound
  <2>2. ~m.sessions[t].canceled /\ m.sessions[t].client # 0
    BY <2>1 DEF Shape
  <2>3. m.sessions[t].client = m.forward.client
    BY <1>3, <2>1, <2>2 DEF Sound
  <2> QED
    BY <1>3, <2>2, <2>3
<1>5. Moves(f, m.sessions) /\ m.live = TRUE
  <2> HIDE DEF m, a
  <2> QED
    BY <1>2, <1>3 DEF Moves, Like
<1> HIDE DEF m, a
<1>6. ASSUME NEW status \in Statuses, Refused(status), status # "waiting" \/ On(f, m) = {} PROVE Inv'
  <2> DEFINE n == statusLocked(m, status)
  <2>1. Sound(f, n) /\ Like(f, m, n) /\ n.sessions = m.sessions /\ Commits(f, n)
    BY <1>2, <1>3, <1>6, StatusSound
  <2> HIDE DEF n
  <2>2. Moves(f, n.sessions) /\ n.live = (live' = f)
    BY <1>1, <1>5, <2>1 DEF Like
  <2>3. StateKept /\ \A t \in Sessions : Stands(t)
    BY <1>1, <1>2, <2>1, <2>2, ForwardStep
  <2> QED
    BY <1>1, <1>6, <2>3, StillKept DEF Inv, TypeOK, Stands
<1>7. ASSUME lookup # 0, sessionCount < SessionLimit, dialCount < DialLimit,
             Commits(f, begun), sessionCount' = sessionCount + 1, dialCount' = dialCount + 1
      PROVE  Inv'
  <2> DEFINE c == lookup
             r == Begun(m.sessions[s], f, c)
             n == Edit(m, s, r)
  <2>1. c \in Clients /\ m \in StateType /\ m.forward.client = c
    BY <1>2, <1>3, <1>7 DEF Sound
  <2>2. m.sessions[s].serve = "none" /\ m.live
    BY <1>1, <1>5 DEF Moves
  <2>3. Commits(f, n)
    <3> HIDE DEF f
    <3>2. f \in Forwards /\ c \in Clients /\ m \in StateType
      BY <1>2, <2>1
    <3> HIDE DEF c
    <3>3. Begins(m, s, f, c) = n
      BY <3>2, BegunIs
    <3>1. begun = n
      BY <3>3, Zenon DEF c, Begins
    <3> QED
      BY <1>7, <3>1, Zenon
  <2> HIDE DEF c
  <2>4. /\ Sound(f, n) /\ n.live = m.live /\ n.sessions[s] = r
        /\ r.dial = "dial" /\ r.serve = "wait" /\ r.client = c /\ r.forward = f
        /\ \A t \in Sessions \ {s} : n.sessions[t] = m.sessions[t]
    <3> HIDE DEF f
    <3>2. f \in Forwards /\ c \in Clients /\ Sound(f, m)
      BY <1>2, <1>3, <2>1
    <3>3. m.forward.client = c /\ m.sessions[s].serve = "none"
      BY <2>1, <2>2
    <3>5. live = f /\ m.live = (live = f)
      BY <1>2, <1>3 DEF Like, f
    <3>4. r = Begun(m.sessions[s], f, c) /\ n = Edit(m, s, r)
      OBVIOUS
    <3> HIDE DEF r, n
    <3> QED
      BY <3>2, <3>3, <3>4, <3>5, BegunSound
  <2> HIDE DEF n, r
  <2>5. /\ \A t \in Sessions : /\ sessions[t].forward \in {0, f} => n.sessions[t].forward \in {0, f}
                               /\ sessions[t].forward \notin {0, f} => n.sessions[t] = sessions[t]
        /\ \A t \in Sessions \ {s} : Stands(t)
        /\ sessions' = n.sessions
    <3>1. sessions' = n.sessions
      BY <2>3 DEF Commits
    <3>2. \A t \in Sessions \ {s} : Stands(t)
      BY <1>5, <2>4, <3>1 DEF Moves, Stands
    <3>3. ASSUME NEW t \in Sessions
          PROVE  /\ sessions[t].forward \in {0, f} => n.sessions[t].forward \in {0, f}
                 /\ sessions[t].forward \notin {0, f} => n.sessions[t] = sessions[t]
      <4>1. CASE t # s
        BY <1>5, <2>4, <4>1 DEF Moves
      <4>2. CASE t = s
        <5>1. sessions[s].forward = 0
          BY <1>1 DEF Inv, Shapes, Shape
        <5> QED
          BY <2>4, <4>2, <5>1
      <4> QED
        BY <4>1, <4>2
    <3> QED
      BY <3>1, <3>2, <3>3
  <2>6. n.live = (live' = f) /\ \A g \in Forwards \ {f} : live' = g <=> live = g
    BY <1>1, <1>5, <2>4
  <2>7. StateKept
    BY <1>2, <2>3, <2>4, <2>5, <2>6, CommitKept DEF StateKept
  <2>8. s \notin Served /\ s \in Served' /\ s \notin Dialed /\ s \in Dialed'
    <3>1. sessions[s].dial = "none"
      BY <1>1 DEF Inv, Shapes, Shape
    <3> QED
      BY <1>1, <2>4, <2>5, <3>1 DEF Served, Dialed
  <2> QED
    BY <1>1, <1>7, <2>5, <2>7, <2>8, OneStepKept
<1> QED
  <2>1. {"waiting", "limit"} \subseteq Statuses
    BY DEF Statuses
  <2> HIDE DEF Refused, begun
  <2> QED
    BY <1>1, <1>4, <1>6, <1>7, <2>1

-----------------------------------------------------------------------------
(* The invariant holds                                                      *)

(* Nothing was made yet.                                                    *)
LEMMA InitHolds ==
  ASSUME PortForwardAssumption, Init PROVE Inv
<1> DEFINE r == [forward |-> 0, client |-> 0, dial |-> "none", serve |-> "none",
                 canceled |-> FALSE, timedOut |-> FALSE, active |-> FALSE, local |-> FALSE, remote |-> FALSE]
           g == [client |-> 0, status |-> "waiting", conns |-> 0, accept |-> "none"]
<1>1. /\ \A s \in Sessions : sessions[s] = r
      /\ sessions = [s \in Sessions |-> r] /\ forwards = [f \in Forwards |-> g]
      /\ conn = [client |-> 0, up |-> FALSE] /\ hungUp = {} /\ live = 0
      /\ sessionCount = 0 /\ dialCount = 0 /\ closed = FALSE
  BY DEF Init
<1>2. /\ MaxSessions \in Nat /\ SessionLimit \in Nat /\ DialLimit \in Nat
  BY DEF PortForwardAssumption
<1>3. r \in SessionType /\ g \in ForwardType /\ g.conns = 0
  BY <1>2 DEF SessionType, ForwardType, Statuses
<1>4. Shape(r) /\ ~r.active /\ r.forward = 0 /\ r.serve = "none" /\ r.dial = "none"
  BY DEF Shape, Connected, Serving
<1> HIDE DEF r, g
<1>5. sessions \in [Sessions -> SessionType] /\ forwards \in [Forwards -> ForwardType]
  BY <1>1, <1>3
<1>6. TypeOK
  <2>1. conn \in [client : Clients \cup {0}, up : BOOLEAN]
    BY <1>1
  <2>2. sessionCount \in 0 .. SessionLimit /\ dialCount \in 0 .. DialLimit
    BY <1>1, <1>2
  <2>3. hungUp \subseteq Clients /\ live \in Forwards \cup {0} /\ closed \in BOOLEAN
    BY <1>1
  <2> QED
    BY <1>5, <2>1, <2>2, <2>3 DEF TypeOK, SessionType, ForwardType
<1>7. Shapes
  BY <1>1, <1>4 DEF Shapes
<1>8. ASSUME NEW f \in Forwards PROVE Sound(f, State(f))
  <2> DEFINE a == State(f)
  <2>1. a.sessions = sessions /\ a.forward = g /\ a.live \in BOOLEAN /\ a \in StateType /\ f # 0
    BY <1>1, <1>3, <1>5 DEF State, StateType, Forwards
  <2> HIDE DEF a
  <2>2. On(f, a) = {} /\ Cardinality(On(f, a)) = 0
    <3>1. On(f, a) = {}
      BY <1>1, <1>4, <2>1 DEF On
    <3> QED
      BY <3>1, FS_EmptySet
  <2>3. \A s \in Sessions : a.sessions[s] = r
    BY <1>1, <2>1
  <2>4. Sound(f, a)
    BY <1>3, <1>4, <2>1, <2>2, <2>3 DEF Sound
  <2> QED
    BY <2>4 DEF a
<1>9. Served = {} /\ Dialed = {}
  BY <1>1, <1>4 DEF Served, Dialed
<1> QED
  BY <1>1, <1>6, <1>7, <1>8, <1>9, FS_EmptySet DEF Inv

(* Every step keeps it.                                                     *)
LEMMA StepKept ==
  ASSUME PortForwardAssumption, Inv, [Next]_vars PROVE Inv'
<1>1. ASSUME NEW f \in Forwards, Start(f) \/ listenerFailed(f) PROVE Inv'
  BY <1>1, StartKept, ListenerFailedKept
<1>2. ASSUME NEW s \in Sessions, accept(s) \/ DialConnects(s) \/ DialFails(s) \/ DialDrops(s) \/ dialFinished(s)
      PROVE  Inv'
  BY <1>2, AcceptKept, DialConnectsKept, DialFailsKept, DialDropsKept, DialFinishedKept
<1>3. ASSUME NEW s \in Sessions, TimesOut(s) \/ ServeWaits(s) \/ ServeGets(s) PROVE Inv'
  BY <1>3, TimesOutKept, ServeWaitsKept, ServeGetsKept
<1>4. ASSUME NEW s \in Sessions, activate(s) \/ RelayEnds(s) \/ finish(s) PROVE Inv'
  BY <1>4, ActivateKept, RelayEndsKept, FinishKept
<1>5. ConnChanges \/ Refresh \/ Stop \/ shutdown => Inv'
  BY ConnChangesKept, RefreshKept, StopKept, ShutdownKept
<1>6. WorkersEnded \/ UNCHANGED vars => Inv'
  BY StutterKept DEF WorkersEnded
<1> QED
  BY <1>1, <1>2, <1>3, <1>4, <1>5, <1>6 DEF Next

(* So it holds in every state.                                              *)
LEMMA InvHolds ==
  ASSUME PortForwardAssumption PROVE Spec => []Inv
<1>1. Init => Inv
  BY InitHolds
<1>2. Inv /\ [Next]_vars => Inv'
  BY StepKept
<1> QED
  BY <1>1, <1>2, PTL DEF Spec

-----------------------------------------------------------------------------
(* What it says                                                             *)

(* Every variable has its type: neither limit is ever exceeded, and no      *)
(* counter goes below zero.                                                 *)
THEOREM ForwardTypeCorrect ==
  ASSUME PortForwardAssumption PROVE Spec => []TypeOK
<1>1. Inv => TypeOK
  BY DEF Inv
<1> QED
  BY <1>1, InvHolds, PTL

(* The counters are those of the sessions whatever the order in which the   *)
(* two goroutines of a session and the forward end; when both have, neither *)
(* connection is open; and no dial that CloseAll waits for goes on through  *)
(* a client that it did not close.                                          *)
THEOREM SessionsAreAccounted ==
  ASSUME PortForwardAssumption PROVE Spec => []SessionsAccounted
<1>1. Inv => SessionsAccounted
  <2> SUFFICES ASSUME Inv PROVE SessionsAccounted
    OBVIOUS
  <2>1. ASSUME NEW f \in Forwards
        PROVE  forwards[f].conns = Cardinality({s \in Sessions : sessions[s].forward = f /\ sessions[s].active})
    <3>1. Sound(f, State(f)) /\ State(f).sessions = sessions /\ State(f).forward = forwards[f]
      BY DEF Inv, State
    <3>2. On(f, State(f)) = {s \in Sessions : sessions[s].forward = f /\ sessions[s].active}
      BY <3>1 DEF On
    <3> QED
      BY <3>1, <3>2 DEF Sound
  <2>2. ASSUME NEW s \in Sessions, sessions[s].serve = "done", sessions[s].dial = "done"
        PROVE  ~sessions[s].local /\ ~sessions[s].remote
    <3>1. Shape(sessions[s])
      BY DEF Inv, Shapes
    <3> QED
      BY <2>2, <3>1 DEF Shape, Connected, Serving
  <2>3. /\ sessionCount = Cardinality(Served) /\ dialCount = Cardinality(Dialed)
        /\ \A s \in Sessions : closed /\ sessions[s].dial = "dial" => sessions[s].client \in hungUp
    BY DEF Inv
  <2> QED
    BY <2>1, <2>2, <2>3 DEF SessionsAccounted, Served, Dialed
<1> QED
  BY <1>1, InvHolds, PTL

(* No session relays for a forward that was stopped or through a client     *)
(* that was replaced, however the refreshes, the stops and its own steps    *)
(* interleave.                                                              *)
THEOREM RelaysAreBelonging ==
  ASSUME PortForwardAssumption PROVE Spec => []RelaysBelong
<1>1. Inv => RelaysBelong
  <2> SUFFICES ASSUME Inv, NEW s \in Sessions, sessions[s].active
               PROVE  /\ sessions[s].forward = live /\ sessions[s].client = forwards[live].client
                      /\ ~sessions[s].canceled /\ sessions[s].local /\ sessions[s].remote
                      /\ forwards[live].status # "waiting"
    BY DEF RelaysBelong
  <2> DEFINE f == sessions[s].forward
  <2>1. Shape(sessions[s]) /\ sessions[s] \in SessionType
    BY DEF Inv, Shapes, TypeOK, SessionType
  <2>2. /\ sessions[s].serve = "relay" /\ ~sessions[s].canceled
        /\ sessions[s].local /\ sessions[s].remote /\ f \in Forwards
    BY <2>1 DEF Shape, Connected, Serving, SessionType
  <2>3. /\ Sound(f, State(f)) /\ State(f).sessions = sessions /\ State(f).forward = forwards[f]
        /\ State(f).live = (live = f)
    BY <2>2 DEF Inv, State
  <2> HIDE DEF f
  <2>4. s \in On(f, State(f))
    BY <2>3 DEF On, f
  <2>5. State(f).live /\ sessions[s].client = forwards[f].client /\ forwards[f].status # "waiting"
    BY <2>2, <2>3, <2>4 DEF Sound, f
  <2> QED
    BY <2>2, <2>3, <2>5 DEF f
<1> QED
  BY <1>1, InvHolds, PTL
===============================================================================
