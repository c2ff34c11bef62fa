---------------------------- MODULE MCApplication ----------------------------
(***************************************************************************)
(* Small instances of the components of the Electron application, each by  *)
(* itself: file transfers, a terminal view, the action queue of a window   *)
(* and the tiling tree.  `part` says what a behaviour is about and never   *)
(* changes, so that states add up instead of multiplying.  Transfers and   *)
(* the terminal view come in parts that each allow some jobs and faults.   *)
(***************************************************************************)
EXTENDS Application

CONSTANTS f1, d1, u1, w1, w2,              \* jobs and renderers
          s1, s2, s3, t1, t2, t3, t4, t5,  \* workspaces and tabs
          b1, b2, b3                       \* blocks

VARIABLES part, tree, ltShown, drag, ltPending, disturbed, ltBatch, failed

ltVars == <<tree, ltShown, drag, ltPending, disturbed, ltBatch, failed>>
allVars == <<part, appVars, ltVars>>

TabsOf == [w \in Workspaces |-> CASE w = s1 -> <<t1, t2>> [] w = s2 -> <<t3>> [] w = s3 -> <<t5>>]

Lt == INSTANCE LayoutTree WITH
  Blocks <- {b1, b2, b3}, Groups <- {1, 2, 3, 4, 5}, NoNode <- None, MaxChildren <- 2,
  Disturbed <- FALSE, shown <- ltShown, pending <- ltPending, batch <- ltBatch

ASSUME PartsAssumption ==
  TransfersAssumption /\ TermSyncAssumption /\ WindowAssumption /\ Lt!LayoutTreeAssumption

(* The parts of Transfers: the jobs used, the attempts, the renderers that  *)
(* ask for batches and may close, and the restarts; without one nothing is  *)
(* saved.                                                                   *)
Transferring ==
  [downloads |-> [jobs |-> {f1, d1}, attempts |-> 2, closing |-> {w1}, restarts |-> 0],
   uploads   |-> [jobs |-> {u1}, attempts |-> 3, closing |-> {w1, w2}, restarts |-> 1],
   mixed     |-> [jobs |-> {f1, u1}, attempts |-> 1, closing |-> {w1, w2}, restarts |-> 0],
   restarts  |-> [jobs |-> {f1}, attempts |-> 3, closing |-> {w1}, restarts |-> 1]]

(* Those of TermSync: what may happen to the view besides output, the       *)
(* events that may be on their way to it, and the bytes the file has after  *)
(* its truncation.                                                          *)
Watching ==
  [reopened  |-> [happens |-> {"saves", "opens"}, events |-> 2, regrown |-> 2],
   disturbed |-> [happens |-> {"lost", "fails"}, events |-> 3, regrown |-> 3]]

PartInit ==
  /\ part \in DOMAIN Transferring \cup DOMAIN Watching \cup {"window", "layout"}
  /\ AppInit /\ Lt!Init

TransfersPart ==
  /\ part \in DOMAIN Transferring
  /\ TransfersStep
  /\ LET l == Transferring[part]
     IN  /\ restarts' <= l.restarts
         /\ l.restarts = 0 => ~dirty \/ dirty'
         /\ {w1, w2} \ l.closing \subseteq windows' /\ sender' \in l.closing \cup {None}
         /\ \A j \in {f1, d1, u1} :
              jobs'[j].attempt <= l.attempts /\ (j \notin l.jobs => jobs'[j] = jobs[j])
  /\ UNCHANGED <<part, ltVars>>

TermPart ==
  /\ part \in DOMAIN Watching
  /\ TermStep
  /\ LET l == Watching[part]
     IN  /\ Len(events') <= l.events
         /\ file'.epoch = 1 => file'.size <= l.regrown
         /\ \A b \in DOMAIN used \ l.happens : used'[b] = 0
  /\ UNCHANGED <<part, ltVars>>

(* Bound: where a tab closes by itself, which is what the properties leave  *)
(* out, the user does less.                                                 *)
WindowPart ==
  /\ part = "window"
  /\ WindowStep
  /\ gone' = 1 => ops' <= 2
  /\ UNCHANGED <<part, ltVars>>

LayoutPart == part = "layout" /\ Lt!Next /\ UNCHANGED <<part, appVars>>

PartNext == TransfersPart \/ TermPart \/ WindowPart \/ LayoutPart

PartSpec == PartInit /\ [][PartNext]_allVars

-----------------------------------------------------------------------------
(* The properties of the components hold of every part, for their variables *)
(* are as they were in the beginning where a part is about something else.  *)

(* The tree is well formed, and shows every pane that was added and not     *)
(* closed exactly once.                                                     *)
EachShownOnce == Lt!TypeOK /\ Lt!EachShownOnce

(* One pass of balanceNode after each change is enough.                     *)
Balanced == Lt!Balanced

(* A dropped pane lands where the placeholder was, and panes a change is    *)
(* not about keep their order.                                              *)
Rearranged == Lt!Rearranged
=============================================================================
