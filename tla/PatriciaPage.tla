---------------------------- MODULE PatriciaPage ----------------------------
(***************************************************************************)
(* One page of the index: NodePage of node_page.h and the rebuilding of    *)
(* its routes in index.h.  A page with n representatives has n - 1 routes, *)
(* the inner nodes of a binary tree over the slots 1..n in preorder.  The  *)
(* tree is never stored: a frame [node, lo, n] is the subtree whose route  *)
(* has number node and whose slots are lo .. lo+n-1 (RouteFrame, or the    *)
(* locals route_idx, leaf_base and leaf_count); with n = 1 it is a slot.   *)
(* Slots and routes count from 1 here, from 0 in the code.                 *)
(*                                                                         *)
(* A tree is a function from frames to the number of slots on their left   *)
(* side: what the routes of a page say, or what the diffs between its      *)
(* slots ask for.  Loops over frames are orbits of the step they repeat.   *)
(***************************************************************************)
EXTENDS PatriciaKeys, SequencesExt

NoSlot  == 0
Corrupt == "corrupt layout"     \* in the place of the routes a call refuses

\* x, step[x], step[step[x]] and so on.
Orbit(step, x) ==
    LET orbit[i \in Nat] == IF i = 0 THEN x ELSE step[orbit[i - 1]]
    IN  orbit

-----------------------------------------------------------------------------
(* Frames *)

Frame(size) == [node : 1 .. size, lo : 1 .. size, n : 1 .. size]

WholePage(size) == [node |-> 1, lo |-> 1, n |-> size]

IsRoute(f)     == f.n > 1
SlotsOf(f)     == f.lo .. f.lo + f.n - 1

LeftOf(tree, f) == [node |-> f.node + 1, lo |-> f.lo, n |-> tree[f]]

RightOf(tree, f) ==
    [node |-> f.node + tree[f], lo |-> f.lo + tree[f], n |-> f.n - tree[f]]

Children(tree, frames) ==
    LET inner == {f \in frames : IsRoute(f)}
    IN  {LeftOf(tree, f) : f \in inner} \cup {RightOf(tree, f) : f \in inner}

\* The frames of the subtree f, slots included.
FramesBelow(tree, f) ==
    LET step == [frames \in SUBSET DOMAIN tree |->
                    frames \cup Children(tree, frames)]
    IN  Orbit(step, {f})[f.n]

TreeOf(page) == [f \in Frame(Len(page.reps)) |-> page.routes[f.node].left]

Frames(page) == FramesBelow(TreeOf(page), WholePage(Len(page.reps)))

\* The frames from the whole page down to one slot.
Path(step, size) ==
    LET way    == Orbit(step, WholePage(size))
        length == CHOOSE i \in 1 .. size :
                    ~IsRoute(way[i - 1]) /\ \A j \in 1 .. i - 1 : IsRoute(way[j - 1])
    IN  [i \in 1 .. length |-> way[i - 1]]

\* One turn on the way that the routes lead key.
TurnFor(page, key) ==
    LET tree == TreeOf(page)
    IN  [f \in DOMAIN tree |->
            IF ~IsRoute(f) THEN f
            ELSE IF RouteBit(page.routes[f.node], key) = 0
            THEN LeftOf(tree, f) ELSE RightOf(tree, f)]

PathFor(page, key) == Path(TurnFor(page, key), Len(page.reps))

Lookup(page, key) == Last(PathFor(page, key)).lo

\* One turn on the way to a slot.
TurnTo(page, slot) ==
    LET tree == TreeOf(page)
    IN  [f \in DOMAIN tree |->
            IF ~IsRoute(f) THEN f
            ELSE IF slot < f.lo + tree[f] THEN LeftOf(tree, f) ELSE RightOf(tree, f)]

PathTo(page, slot) == Path(TurnTo(page, slot), Len(page.reps))

-----------------------------------------------------------------------------
(* Insertion and deletion of one route *)

\* The first frame on the way to key whose route asks for a later diff.
FrameAbove(page, key, diff) ==
    SelectInSeq(PathFor(page, key),
                LAMBDA f : IsRoute(f) /\ diff < RouteDiff(page.routes[f.node]))

\* A new key stands before or after the whole of the frame it parts from.
SlotAt(f, key, diff) == IF GetDiffBit(key, diff) = 0 THEN f.lo ELSE f.lo + f.n

InsertSlotAbovePath(page, key, diff) ==
    LET i == FrameAbove(page, key, diff)
    IN  IF i = 0 THEN NoSlot ELSE SlotAt(PathFor(page, key)[i], key, diff)

\* routes with by added to the left counts of the given nodes.
Recount(routes, nodes, by) ==
    [j \in DOMAIN routes |->
        IF j \in nodes THEN [routes[j] EXCEPT !.left = @ + by] ELSE routes[j]]

\* The nodes of path[1..i-1] that path leaves to the left.
LeftTurns(path, i) ==
    {path[j].node : j \in {j \in 1 .. i - 1 : path[j + 1].lo = path[j].lo}}

InsertRoute(page, slot, key, diff) ==
    LET path  == PathFor(page, key)
        above == FrameAbove(page, key, diff)
        i     == IF above = 0 THEN Len(path) ELSE above
        left  == IF GetDiffBit(key, diff) = 0 THEN 1 ELSE path[i].n
    IN  IF slot # SlotAt(path[i], key, diff) THEN Corrupt
        ELSE InsertAt(Recount(page.routes, LeftTurns(path, i), 1),
                      path[i].node, MakeRoute(diff, left))

DeleteRoute(page, slot) ==
    LET path   == PathTo(page, slot)
        parent == Len(path) - 1
    IN  RemoveAt(Recount(page.routes, LeftTurns(path, parent), -1),
                 path[parent].node)

-----------------------------------------------------------------------------
(* Diffs and routes *)

\* diffs[i] is the diff number between slots i and i+1.
RouteDiffs(page) ==
    LET Parts(f, i) == IsRoute(f) /\ f.lo + page.routes[f.node].left - 1 = i
    IN  [i \in 1 .. Len(page.reps) - 1 |->
            RouteDiff(page.routes[(CHOOSE f \in Frames(page) : Parts(f, i)).node])]

\* Slots i and i+1 are the two children of one route.
IsDirectRoutePair(page, i) == \E f \in Frames(page) : f.lo = i /\ f.n = 2

\* Each frame parts at the last of its smallest diffs.
CartesianTree(diffs) ==
    LET IsSmallest(i, f) ==
            \A j \in f.lo .. f.lo + f.n - 2 :
                diffs[i] <= diffs[j] /\ (j > i => diffs[i] # diffs[j])
    IN  [f \in Frame(Len(diffs) + 1) |->
            CHOOSE k \in 1 .. f.n - 1 : IsSmallest(f.lo + k - 1, f)]

CartesianFrames(diffs) ==
    FramesBelow(CartesianTree(diffs), WholePage(Len(diffs) + 1))

CartesianRoot(diffs) == CartesianTree(diffs)[WholePage(Len(diffs) + 1)]

\* The Cartesian tree of diffs in preorder.
RoutesOf(diffs) ==
    LET tree == CartesianTree(diffs)
        all  == CartesianFrames(diffs)
        At(node) == CHOOSE f \in all : IsRoute(f) /\ f.node = node
    IN  [node \in 1 .. Len(diffs) |->
            MakeRoute(diffs[At(node).lo + tree[At(node)] - 1], tree[At(node)])]

-----------------------------------------------------------------------------
(* The keys of a page: slot s of it stands for the keys from lows[s] to    *)
(* highs[s].                                                               *)

\* The diffs between neighbouring slots.
DiffsBetween(lows, highs) ==
    [i \in 1 .. Len(lows) - 1 |-> DiffBit(highs[i], lows[i + 1])]

\* The slots are in order, and what a child holds parts later than it parts
\* from what stands beside it.
Ends(lows, highs) ==
    /\ lows \in Seq(AnyKey) /\ highs \in Seq(AnyKey)
    /\ Len(lows) = Len(highs) /\ Len(lows) > 0
    /\ \A s \in 1 .. Len(lows) : KeyLeq(lows[s], highs[s])
    /\ \A s \in 1 .. Len(lows) - 1 : KeyLess(highs[s], lows[s + 1])
    /\ \A s \in 1 .. Len(lows), i \in 1 .. Len(lows) - 1 :
         i \in {s - 1, s} /\ lows[s] # highs[s] =>
            DiffsBetween(lows, highs)[i] < DiffBit(lows[s], highs[s])

\* The page that its representatives, slots lows to highs, ask for.
KeyPage(page, lows, highs) ==
    /\ Ends(lows, highs)
    /\ Len(page.reps) = Len(lows)
    /\ page.routes = RoutesOf(DiffsBetween(lows, highs))

-----------------------------------------------------------------------------
(* Representatives that change places *)

\* s with t before its element i.
Spliced(s, i, t) == SubSeq(s, 1, i - 1) \o t \o SubSeq(s, i, Len(s))

\* s with e in the place of its elements a..b.
Collapsed(s, a, b, e) == SubSeq(s, 1, a - 1) \o <<e>> \o SubSeq(s, b + 1, Len(s))

-----------------------------------------------------------------------------
(* The range of slots that a page one over its limit gives to a new child  *)

\* The first frame, in preorder, with the smallest cost.
Cheapest(frames, Cost(_)) ==
    CHOOSE f \in frames : \A g \in frames :
        Cost(f) < Cost(g) \/ (Cost(f) = Cost(g) /\ f.node <= g.node)

\* Whole subtrees that leave the page at least two other slots.
SplitCandidates(diffs) ==
    {f \in CartesianFrames(diffs) : f.n \in 2 .. Len(diffs) - 1}

\* Mutant: slots from the middle of the page, whatever the tree.
ChooseMiddle(diffs, edge) ==
    [node |-> 1, lo |-> 2, n |-> (Len(diffs) + 1) \div 2]

\* edge is the slot of the new key at the end of the whole index, or NoSlot:
\* then the largest subtree away from it moves out.  Otherwise the largest
\* between a third and a half, or the nearest to a half.
ChooseSplitRange(diffs, edge) ==
    LET size      == Len(diffs) + 1
        half      == size \div 2
        all       == SplitCandidates(diffs)
        away      == {f \in all : edge \notin SlotsOf(f)}
        preferred == {f \in all : f.n \in (size + 2) \div 3 .. half}
        Larger(f) == -f.n
        FromHalf(f) == IF f.n > half THEN f.n - half ELSE half - f.n
    IN  IF edge \in {1, size} /\ away # {} THEN Cheapest(away, Larger)
        ELSE IF preferred # {} THEN Cheapest(preferred, Larger)
        ELSE Cheapest(all, FromHalf)
=============================================================================
