----------------------------- MODULE LayoutTree -----------------------------
(* The tiling tree of a tab (frontend/layout/lib: layoutNode.ts,            *)
(* layoutTree.ts and the reducer of layoutModel.ts): panes are inserted,    *)
(* split, replaced, closed and dragged, and after each change updateTree    *)
(* balances the tree.                                                        *)
(*                                                                           *)
(* A leaf is named by its block: its node id is made with the leaf, stays    *)
(* with it and is never used again, as a block id is. A node object that     *)
(* becomes a group (addIntermediateNode) hands its id to the leaf below it,  *)
(* so that a drag which holds the object then names the group.               *)
(*                                                                           *)
(* Left out: sizes, focus and magnification, which no edit of the tree       *)
(* depends on; the ephemeral pane, which is not in the tree; insertAtRoot,   *)
(* which is computed only for a drop on a root that is a leaf, hence alone.  *)
EXTENDS Integers, FiniteSets, SequencesExt

CONSTANTS
    Blocks,         \* blocks of the tab; each names its leaf
    Groups,         \* ids for nodes with children (bound)
    NoNode,
    MaxChildren,    \* DEFAULT_MAX_CHILDREN
    Disturbed       \* may another change of the tree fall into a drag?

LayoutTreeAssumption ==
    /\ MaxChildren \in Nat \ {0}
    /\ Blocks \cap Groups = {}
    /\ NoNode \notin Blocks \cup Groups
    /\ Disturbed \in BOOLEAN

VARIABLES
    tree,           \* treeState.rootNode: root, children and flexDirection
    shown,          \* blocks that were added and not closed
    drag,           \* the id the dragged node object has now
    pending,        \* pendingTreeAction, with the drop it stands for
    disturbed,      \* the tree was changed during this drag
    batch,          \* backend actions are applied and updateTree has not run yet
    failed          \* an exception left the reducer

vars == <<tree, shown, drag, pending, disturbed, batch, failed>>

Ids == Blocks \cup Groups
Dirs == {"row", "column"}
Flip(d) == IF d = "row" THEN "column" ELSE "row"
IsLeaf(n) == n \in Blocks

-----------------------------------------------------------------------------
(* Reading the tree: walkNodes, findNode, findParent.                        *)

RECURSIVE Walk(_, _)
Walk(t, n) == <<n>> \o FlattenSeq([i \in 1 .. Len(t.kids[n]) |-> Walk(t, t.kids[n][i])])

RECURSIVE Below(_, _, _)
Below(t, S, seen) ==
    IF S \subseteq seen THEN seen
    ELSE Below(t, UNION {ToSet(t.kids[n]) : n \in S}, seen \cup S)

Nodes(t) == IF t.root = NoNode THEN {} ELSE Below(t, {t.root}, {})
Cyclic(t) == \E n \in Nodes(t) : n \in Below(t, ToSet(t.kids[n]), {})
LeafOrder(t) == IF t.root = NoNode THEN <<>> ELSE SelectSeq(Walk(t, t.root), IsLeaf)

FindParent(t, n) ==
    LET P == {p \in Nodes(t) : n \in ToSet(t.kids[p])}
    IN IF P = {} THEN NoNode ELSE CHOOSE p \in P : TRUE

(* The index of n among the children of p, from 0.                           *)
IndexIn(t, p, n) == CHOOSE i \in 0 .. Len(t.kids[p]) - 1 :
    /\ t.kids[p][i + 1] = n
    /\ \A j \in 0 .. i - 1 : t.kids[p][j + 1] # n

FreshGroup(t) == CHOOSE g \in Groups :
    /\ g \notin Nodes(t) \cup {drag, pending.node, pending.parent}

-----------------------------------------------------------------------------
(* Editing it.                                                               *)

(* splice: past the end it appends.                                          *)
Spliced(s, idx, new) ==
    LET k == IF idx < Len(s) THEN idx ELSE Len(s)
    IN SubSeq(s, 1, k) \o new \o SubSeq(s, k + 1, Len(s))

Renamed(s, a, b) == [i \in DOMAIN s |-> IF s[i] = a THEN b ELSE s[i]]

Swapped(s, a, b) ==
    [i \in DOMAIN s |-> CASE s[i] = a -> b [] s[i] = b -> a [] OTHER -> s[i]]

(* The object of leaf n becomes group g, with the leaf in a new object       *)
(* below.                                                                    *)
AddIntermediateNode(t, n, g) ==
    [root |-> IF t.root = n THEN g ELSE t.root,
     kids |-> [m \in Ids |-> IF m = g THEN <<n>> ELSE Renamed(t.kids[m], n, g)],
     dir  |-> [t.dir EXCEPT ![g] = t.dir[n], ![n] = Flip(t.dir[n])]]

AddChildAt(t, n, idx, v) ==
    LET g == FreshGroup(t)
        p == IF IsLeaf(n) THEN g ELSE n
        u == IF IsLeaf(n) THEN AddIntermediateNode(t, n, g) ELSE t
        same == u.dir[v] = u.dir[p]
        added == IF same /\ ~IsLeaf(v) THEN u.kids[v] ELSE <<v>>
    IN [u EXCEPT !.kids[p] = Spliced(@, idx, added),
                 !.dir[v] = IF same /\ IsLeaf(v) THEN Flip(@) ELSE @]

RemoveChildMutant(t, p, n, start) ==        \* the search starts after the index it should start at
    LET s == t.kids[p]
        at == {i \in start + 2 .. Len(s) : s[i] = n}
    IN IF at = {} THEN t
       ELSE [t EXCEPT !.kids[p] = RemoveAt(s, CHOOSE i \in at : \A j \in at : i <= j)]

(* removeChild, from startingIndex on.                                       *)
RemoveChild(t, p, n, start) ==
    LET s == t.kids[p]
        at == {i \in start + 1 .. Len(s) : s[i] = n}
    IN IF at = {} THEN t
       ELSE [t EXCEPT !.kids[p] = RemoveAt(s, CHOOSE i \in at : \A j \in at : i <= j)]

(* The group whose only child is a leaf becomes that leaf.                   *)
Collapse(t, n) ==
    LET l == Head(t.kids[n])
    IN [root |-> IF t.root = n THEN l ELSE t.root,
        kids |-> [m \in Ids |-> IF m = n THEN <<>> ELSE Renamed(t.kids[m], n, l)],
        dir  |-> [t.dir EXCEPT ![l] = t.dir[n]]]

OnlyGroup(t, c) == Len(t.kids[c]) = 1 /\ ~IsLeaf(Head(t.kids[c]))

LiftedMutant(t, n) ==                      \* the directions are not corrected
    LET of(c) == IF OnlyGroup(t, c) THEN t.kids[Head(t.kids[c])] ELSE <<c>>
    IN [t EXCEPT !.kids[n] = FlattenSeq([i \in DOMAIN t.kids[n] |-> of(t.kids[n][i])])]

(* What balanceNode does at a node before it walks the children.             *)
Lifted(t, n) ==
    LET kid == ToSet(t.kids[n])
        of(c) == IF OnlyGroup(t, c) THEN t.kids[Head(t.kids[c])] ELSE <<c>>
    IN [t EXCEPT
          !.dir = [m \in Ids |-> IF m \in kid THEN Flip(t.dir[n]) ELSE t.dir[m]],
          !.kids[n] = FlattenSeq([i \in DOMAIN t.kids[n] |-> of(t.kids[n][i])])]

RECURSIVE BalanceNode(_, _)
BalanceNode(t, n) ==
    LET u == Lifted(t, n)
        w == FoldLeft(BalanceNode, u, u.kids[n])
    IN IF Len(w.kids[n]) = 1 /\ IsLeaf(Head(w.kids[n])) THEN Collapse(w, n) ELSE w

(* Nodes out of the tree have no state; a leaf keeps its direction while a   *)
(* drag may put it back.                                                     *)
Tidy(t, keep) ==
    LET live == Nodes(t)
    IN [t EXCEPT !.kids = [m \in Ids |-> IF m \in live THEN t.kids[m] ELSE <<>>],
                 !.dir  = [m \in Ids |-> IF m \in live \cup keep THEN t.dir[m] ELSE "row"]]

(* A tree the walk cannot get through: updateTree throws.                    *)
Broken(t) == Cyclic(t) \/ \E n \in Nodes(t) : ~IsLeaf(n) /\ t.kids[n] = <<>>

UpdateTree(t, keep) ==
    /\ failed' = Broken(t)
    /\ tree' = IF Broken(t) \/ t.root = NoNode THEN t ELSE Tidy(BalanceNode(t, t.root), keep)

-----------------------------------------------------------------------------
(* Where insertNode puts a pane: the nodes with room, nearest to the root    *)
(* first, of the rightmost first.                                            *)

RECURSIVE Places(_, _, _)
Places(t, n, depth) ==
    LET s == t.kids[n]
        own == IF IsLeaf(n) THEN <<[node |-> n, index |-> 1, depth |-> depth]>>
               ELSE IF Len(s) < MaxChildren THEN <<[node |-> n, index |-> Len(s), depth |-> depth]>>
               ELSE <<>>
    IN own \o FlattenSeq([i \in DOMAIN s |-> Places(t, s[Len(s) + 1 - i], depth + 1)])

FindNextInsertLocation(t) ==
    LET P == Places(t, t.root, 1)
        cost(i) == P[i].depth ^ (P[i].index + MaxChildren)
    IN P[CHOOSE i \in DOMAIN P : \A j \in DOMAIN P :
            cost(i) < cost(j) \/ (cost(i) = cost(j) /\ i <= j)]

(* findInsertLocationFromIndexArr, for the indices of stored layouts, which  *)
(* are not negative.                                                         *)
RECURSIVE LocationFromIndexArr(_, _, _)
LocationFromIndexArr(t, n, path) ==
    LET last == IF IsLeaf(n) THEN 0 ELSE Len(t.kids[n]) - 1
        i == IF Head(path) < last THEN Head(path) ELSE last
    IN IF Len(path) = 1 \/ IsLeaf(n) THEN [node |-> n, index |-> i]
       ELSE LocationFromIndexArr(t, t.kids[n][i + 1], Tail(path))

-----------------------------------------------------------------------------
NoAction == [type |-> "none", node |-> NoNode, parent |-> NoNode, index |-> 0,
             target |-> NoNode, side |-> "none"]

EmptyTree == [root |-> NoNode, kids |-> [n \in Ids |-> <<>>], dir |-> [n \in Ids |-> "row"]]

Init ==
    /\ tree = EmptyTree
    /\ shown = {}
    /\ drag = NoNode
    /\ pending = NoAction
    /\ disturbed = FALSE
    /\ batch = FALSE
    /\ failed = FALSE

(* A change that is not the drop. set is treeReducer's setState: the actions *)
(* of the backend are applied one after the other, and updateTree runs after *)
(* the last; nothing of the user's comes between.                            *)
Idle == drag = NoNode
MayChange(set) == ~failed /\ (batch => ~set) /\ (Idle \/ (Disturbed /\ ~disturbed))
Held == {drag, pending.node} \cap Blocks

(* Object n, if it was a leaf, is group g now: what the drag holds has       *)
(* another id.                                                               *)
Change(t, n, g, set) ==
    LET follow(x) == IF x = n /\ IsLeaf(n) THEN g ELSE x
    IN /\ IF set THEN UpdateTree(t, Held) ELSE tree' = Tidy(t, Held) /\ UNCHANGED failed
       /\ batch' = ~set
       /\ disturbed' = ~Idle
       /\ drag' = IF Idle THEN drag ELSE follow(drag)
       /\ pending' = IF Idle THEN pending ELSE [pending EXCEPT !.node = follow(@)]

Insert(b, set) ==
    /\ MayChange(set) /\ b \notin shown
    /\ shown' = shown \cup {b}
    /\ IF tree.root = NoNode THEN Change([tree EXCEPT !.root = b], NoNode, NoNode, set)
       ELSE LET loc == FindNextInsertLocation(tree)
            IN Change(AddChildAt(tree, loc.node, loc.index, b), loc.node, FreshGroup(tree), set)

InsertAtIndex(b, path) ==
    /\ MayChange(FALSE) /\ b \notin shown
    /\ shown' = shown \cup {b}
    /\ IF tree.root = NoNode THEN Change([tree EXCEPT !.root = b], NoNode, NoNode, FALSE)
       ELSE LET loc == LocationFromIndexArr(tree, tree.root, path)
            IN Change(AddChildAt(tree, loc.node, loc.index + 1, b), loc.node, FreshGroup(tree), FALSE)

Delete(b) ==
    /\ MayChange(FALSE) /\ b \in shown
    /\ shown' = shown \ {b}
    /\ IF tree.root = b THEN Change(EmptyTree, NoNode, NoNode, TRUE)
       ELSE Change(RemoveChild(tree, FindParent(tree, b), b, 0), NoNode, NoNode, TRUE)

ReplaceNode(b, c, set) ==
    /\ MayChange(set) /\ b \in shown /\ c \notin shown
    /\ shown' = (shown \ {b}) \cup {c}
    /\ Change([tree EXCEPT !.root = IF @ = b THEN c ELSE @,
                           !.kids = [m \in Ids |-> Renamed(tree.kids[m], b, c)]], NoNode, NoNode, set)

(* splitHorizontal is d = "row", splitVertical d = "column".                 *)
Split(b, c, d, after, set) ==
    LET p == FindParent(tree, b)
        g == FreshGroup(tree)
        wrap == [root |-> IF tree.root = b THEN g ELSE tree.root,
                 kids |-> [m \in Ids |-> IF m = g THEN IF after THEN <<b, c>> ELSE <<c, b>>
                                         ELSE Renamed(tree.kids[m], b, g)],
                 dir  |-> [tree.dir EXCEPT ![g] = d]]
    IN /\ MayChange(set) /\ b \in shown /\ c \notin shown
       /\ shown' = shown \cup {c}
       /\ IF p # NoNode /\ tree.dir[p] = d
          THEN Change([tree EXCEPT !.kids[p] =
                  Spliced(@, IndexIn(tree, p, b) + IF after THEN 1 ELSE 0, <<c>>)], NoNode, NoNode, set)
          ELSE Change(wrap, NoNode, NoNode, set)

ClearTree ==
    /\ MayChange(FALSE) /\ shown # {}
    /\ shown' = {}
    /\ Change(EmptyTree, NoNode, NoNode, FALSE)

(* processPendingBackendActions has applied them all.                        *)
EndBatch ==
    /\ ~failed /\ batch
    /\ UpdateTree(tree, Held)
    /\ batch' = FALSE
    /\ UNCHANGED <<shown, drag, pending, disturbed>>

-----------------------------------------------------------------------------
(* Dragging a pane.                                                          *)

DragStart(b) ==
    /\ ~failed /\ ~batch /\ Idle /\ b \in shown
    /\ drag' = b
    /\ UNCHANGED <<tree, shown, pending, disturbed, batch, failed>>

Sides == {"top", "bottom", "left", "right"}
Axis(side) == IF side \in {"top", "bottom"} THEN "column" ELSE "row"
Shift(side) == IF side \in {"bottom", "right"} THEN 1 ELSE 0

(* computeMoveNode, for a drop on leaf n.                                    *)
MoveTo(n, side, outer) ==
    LET p == FindParent(tree, n)
        gp == FindParent(tree, p)
        op == FindParent(tree, drag)
        to(parent, index) ==
            IF parent = op /\ index \in {IndexIn(tree, op, drag), IndexIn(tree, op, drag) + 1}
            THEN NoAction
            ELSE [type |-> "move", node |-> drag, parent |-> parent, index |-> index,
                  target |-> n, side |-> side]
    IN IF tree.dir[n] # Axis(side) THEN to(p, IndexIn(tree, p, n) + Shift(side))
       ELSE IF outer /\ gp # NoNode
            THEN [to(gp, IndexIn(tree, gp, p) + Shift(side)) EXCEPT !.target = p]
            ELSE to(n, Shift(side))

SwapWith(n) ==
    IF drag = tree.root THEN NoAction
    ELSE [NoAction EXCEPT !.type = "swap", !.node = drag, !.target = n]

CanHover(n) == ~failed /\ ~batch /\ ~Idle /\ n # drag /\ n \in Nodes(tree) \cap Blocks

ComputeMove(n, side, outer) ==
    /\ CanHover(n)
    /\ pending' = IF drag \in Nodes(tree) THEN MoveTo(n, side, outer) ELSE NoAction
    /\ UNCHANGED <<tree, shown, drag, disturbed, batch, failed>>

ComputeSwap(n) ==
    /\ CanHover(n)
    /\ pending' = IF drag \in Nodes(tree) THEN SwapWith(n) ELSE NoAction
    /\ UNCHANGED <<tree, shown, drag, disturbed, batch, failed>>

MoveNodeMutant(t, a) ==                    \* startingIndex stays 0
    LET old == FindParent(t, a.node)
        u == AddChildAt(t, a.parent, a.index, a.node)
    IN IF old = NoNode THEN u ELSE RemoveChild(u, old, a.node, 0)

MoveNode(t, a) ==
    LET old == FindParent(t, a.node)
        start == IF old = a.parent /\ IndexIn(t, old, a.node) >= a.index THEN a.index + 1 ELSE 0
        u == AddChildAt(t, a.parent, a.index, a.node)
    IN IF old = NoNode THEN u ELSE RemoveChild(u, old, a.node, start)

SwapNode(t, a) ==
    [t EXCEPT !.kids = [m \in Ids |-> Swapped(t.kids[m], a.node, a.target)]]

EndDrag == drag' = NoNode /\ pending' = NoAction /\ disturbed' = FALSE

(* commitPending: an action whose parent or swap partner is gone throws.     *)
Drop ==
    /\ ~failed /\ ~batch /\ pending.type # "none"
    /\ IF pending.type = "move"
       THEN IF pending.parent \in Nodes(tree) THEN UpdateTree(MoveNode(tree, pending), {})
            ELSE failed' = TRUE /\ UNCHANGED tree
       ELSE IF {pending.node, pending.target} \subseteq Nodes(tree)
            THEN UpdateTree(SwapNode(tree, pending), {})
            ELSE failed' = TRUE /\ UNCHANGED tree
    /\ EndDrag
    /\ UNCHANGED <<shown, batch>>

(* The drag ends elsewhere. An action left pending is never committed: a     *)
(* drop comes after a hover, which computes anew.                            *)
DragCancel ==
    /\ ~failed /\ ~Idle
    /\ EndDrag
    /\ UNCHANGED <<tree, shown, batch, failed>>

Paths == {<<0>>, <<1>>, <<0, 0>>, <<1, 1>>}

Next ==
    \/ \E b \in Blocks : Delete(b) \/ DragStart(b) \/ ComputeSwap(b)
    \/ \E b \in Blocks, path \in Paths : InsertAtIndex(b, path)
    \/ \E b, c \in Blocks, set \in BOOLEAN :
          \/ Insert(b, set)
          \/ ReplaceNode(b, c, set)
          \/ \E d \in Dirs, after \in BOOLEAN : Split(b, c, d, after, set)
    \/ \E b \in Blocks, side \in Sides, outer \in BOOLEAN : ComputeMove(b, side, outer)
    \/ ClearTree
    \/ EndBatch
    \/ Drop
    \/ DragCancel

Spec == Init /\ [][Next]_vars

-----------------------------------------------------------------------------
(* Leaves have no children, what is in the tree has directions, and an       *)
(* action is pending only while something is dragged.                        *)
TypeOK ==
    /\ tree.root \in Ids \cup {NoNode}
    /\ \A n \in Ids : tree.kids[n] \in Seq(Ids) /\ (IsLeaf(n) => tree.kids[n] = <<>>)
    /\ tree.dir \in [Ids -> Dirs]
    /\ shown \subseteq Blocks
    /\ drag \in Ids \cup {NoNode}
    /\ pending.type \in {"none", "move", "swap"}
    /\ Idle => pending = NoAction /\ ~disturbed

(* However panes are added, split, replaced, closed and dragged, the tree    *)
(* can be walked and shows every pane that was added and not closed exactly  *)
(* once: moveNode inserts before it removes, and balanceNode, addChildAt and *)
(* addIntermediateNode take nodes apart, so each could lose or double one.   *)
EachShownOnce ==
    /\ ~failed
    /\ ToSet(LeafOrder(tree)) = shown
    /\ Len(LeafOrder(tree)) = Cardinality(shown)

(* One pass of balanceNode after each change is enough: no group is empty   *)
(* or holds just one leaf, only the root may hold just one group, and no    *)
(* group has the direction of its parent, so that a split is shown the way  *)
(* it was made.                                                             *)
Balanced ==
    batch \/ \A n \in Nodes(tree) \ Blocks :
        /\ Len(tree.kids[n]) > 0
        /\ Len(tree.kids[n]) = 1 => n = tree.root /\ ~IsLeaf(Head(tree.kids[n]))
        /\ \A c \in ToSet(tree.kids[n]) \ Blocks : tree.dir[c] # tree.dir[n]

About == IF Idle THEN {} ELSE {pending.node, pending.target}

(* Panes that a change is not about keep their order on the screen.          *)
OthersStay ==
    LET stay == (shown \cap shown') \ About
        kept(o) == SelectSeq(o, LAMBDA b : b \in stay)
    IN kept(LeafOrder(tree)) = kept(LeafOrder(tree'))

(* A dropped pane stands right before or after the pane, or the group of     *)
(* panes, it was dropped on, as the placeholder showed; a swap exchanges two *)
(* panes.                                                                    *)
LandsThere ==
    LET o == LeafOrder(tree)
        p == LeafOrder(tree')
        n == Cardinality(ToSet(SelectSeq(Walk(tree, pending.target), IsLeaf)) \ {pending.node})
        beside(i) == IF Shift(pending.side) = 0 THEN i + 1 .. i + n ELSE i - n .. i - 1
    IN Drop =>
        CASE pending.type = "move" ->
               \E i \in DOMAIN p :
                   /\ p[i] = pending.node
                   /\ {p[j] : j \in beside(i) \cap DOMAIN p} =
                          ToSet(SelectSeq(Walk(tree, pending.target), IsLeaf)) \ {p[i]}
          [] pending.type = "swap" -> p = Swapped(o, pending.node, pending.target)
          [] OTHER -> TRUE

Rearranged == [][OthersStay /\ LandsThere]_vars
=============================================================================
