------------------------------ MODULE Patricia ------------------------------
(***************************************************************************)
(* minpatricia::Index (index.h) over a HeapNodeStore (node_store.h): an    *)
(* ordered map whose trie of critical bits is spread over pages of at most *)
(* MaxNodeReps representatives.  A representative is the position of a     *)
(* record or a child page.  A position is a key and a version: the record  *)
(* it leads to has that key (RecordStore::Key), and every Put of a key     *)
(* brings another version, so that a page that remembers an old position   *)
(* is seen.                                                                *)
(*                                                                         *)
(* The operators take and return the state as a record st.  The index has  *)
(* one caller at a time, so that every operation is one step; an operation *)
(* that answers kCorruptLayout, kUnsortedKeys or kDuplicateKey clears      *)
(* st.ok and stops.                                                        *)
(***************************************************************************)
EXTENDS PatriciaPage, FiniteSets

CONSTANTS Position,     \* positions of records, a finite set
          MaxNodeReps,  \* representatives of a page (339 in the code)
          MinNodeReps,  \* below this a page looks for a sibling
                        \* (kMaxNodeReps / 32 = 10)
          NoPos,        \* no position
          NoPage        \* a page that is not allocated

ASSUME PatriciaAssumption ==
    /\ \A pos \in Position : \A i \in DOMAIN pos.key : pos.key[i] \in Byte
    /\ MaxNodeReps \in Nat /\ MaxNodeReps >= 3
    /\ MinNodeReps \in 1 .. MaxNodeReps

VARIABLES nodes,    \* HeapNodeStore::nodes_
          free,     \* HeapNodeStore::free_, a stack
          count,    \* Index::count_
          ok,       \* no operation has met a corrupt layout
          dict      \* auxiliary: the position each key was given last, or NoPos

vars == <<nodes, free, count, ok, dict>>

Key  == {pos.key : pos \in Position}    \* sequences of bytes
Root == 1

EmptyPage == [reps |-> <<>>, routes |-> <<>>, first |-> NoPos, last |-> NoPos]

Child(id)    == [child |-> id]
IsChild(rep) == "child" \in DOMAIN rep

Now == [nodes |-> nodes, free |-> free, ok |-> ok]

Fail(st) == [st EXCEPT !.ok = FALSE]

SetPage(st, id, page) == [st EXCEPT !.nodes[id] = page]

-----------------------------------------------------------------------------
(* HeapNodeStore *)

NextId(st) == IF st.free = <<>> THEN Len(st.nodes) + 1 ELSE Last(st.free)

Alloc(st) ==
    IF st.free = <<>> THEN [st EXCEPT !.nodes = Append(@, EmptyPage)]
    ELSE [st EXCEPT !.nodes[Last(st.free)] = EmptyPage, !.free = Front(@)]

Free(st, id) ==
    IF id = Root \/ st.nodes[id] = NoPage THEN Fail(st)
    ELSE [st EXCEPT !.nodes[id] = NoPage, !.free = Append(@, id)]

-----------------------------------------------------------------------------
(* Writing a page *)

MinPos(st, rep) == IF IsChild(rep) THEN st.nodes[rep.child].first ELSE rep
MaxPos(st, rep) == IF IsChild(rep) THEN st.nodes[rep.child].last  ELSE rep

Lows(st, reps)  == [i \in DOMAIN reps |-> MinPos(st, reps[i]).key]
Highs(st, reps) == [i \in DOMAIN reps |-> MaxPos(st, reps[i]).key]

\* DiffBetweenReps refuses neighbours that are not in order.
Sorted(st, reps) ==
    \A i \in 1 .. Len(reps) - 1 :
        KeyLess(Highs(st, reps)[i], Lows(st, reps)[i + 1])

BuildDiffs(st, reps) == DiffsBetween(Lows(st, reps), Highs(st, reps))

PageWithDiffs(st, reps, diffs) ==
    IF reps = <<>> THEN EmptyPage
    ELSE [reps   |-> reps,
          routes |-> RoutesOf(diffs),
          first  |-> MinPos(st, reps[1]),
          last   |-> MaxPos(st, Last(reps))]

WriteNodeWithDiffs(st, id, reps, diffs) ==
    SetPage(st, id, PageWithDiffs(st, reps, diffs))

WriteNode(st, id, reps) ==
    IF ~Sorted(st, reps) THEN Fail(st)
    ELSE WriteNodeWithDiffs(st, id, reps, BuildDiffs(st, reps))

-----------------------------------------------------------------------------
(* Put *)

\* The pages that key leads through, each with the slot it leaves by.
RECURSIVE PathBelow(_, _, _)
PathBelow(st, id, key) ==
    LET page == st.nodes[id]
        leaf == Lookup(page, key)
    IN  <<[id |-> id, leaf |-> leaf]>>
        \o IF IsChild(page.reps[leaf])
           THEN PathBelow(st, page.reps[leaf].child, key) ELSE <<>>

PageAt(st, frame) == st.nodes[frame.id]
RepAt(st, frame)  == PageAt(st, frame).reps[frame.leaf]

IsEmpty(st) == st.nodes[Root].reps = <<>>

\* The position that key leads to, whatever its key, or NoPos.
Probe(st, key) ==
    IF IsEmpty(st) THEN NoPos ELSE RepAt(st, Last(PathBelow(st, Root, key)))

Get(st, key) ==
    LET pos == Probe(st, key)
    IN  IF pos # NoPos /\ pos.key = key THEN pos ELSE NoPos

\* path[i] has changed from the page was: its ends become those of the pages
\* above as far as it stands at their ends.
RECURSIVE PropagateBoundary(_, _, _, _)
PropagateBoundary(st, path, i, was) ==
    LET page == PageAt(st, path[i])
        up   == PageAt(st, path[i - 1])
        slot == path[i - 1].leaf
        new  == [up EXCEPT
                    !.first = IF page.first # was.first /\ slot = 1
                              THEN page.first ELSE @,
                    !.last  = IF page.last # was.last /\ slot = Len(up.reps)
                              THEN page.last ELSE @]
    IN  IF ~st.ok \/ i = 1 \/ (page.first = was.first /\ page.last = was.last)
        THEN st
        ELSE IF up.reps[slot] # Child(path[i].id) THEN Fail(st)
        ELSE PropagateBoundary(SetPage(st, path[i - 1].id, new), path, i - 1, up)

\* Mutant: the pages above keep the old position as their end.
ReplaceInPage(st, path, pos) ==
    LET frame == Last(path)
        page  == PageAt(st, frame)
    IN  SetPage(st, frame.id,
            [page EXCEPT
                !.reps[frame.leaf] = pos,
                !.first = IF frame.leaf = 1 THEN pos ELSE @,
                !.last  = IF frame.leaf = Len(page.reps) THEN pos ELSE @])

\* The record at the end of path gives way to pos, which has the same key.
Replace(st, path, pos) ==
    LET frame == Last(path)
        page  == PageAt(st, frame)
        new   == [page EXCEPT
                     !.reps[frame.leaf] = pos,
                     !.first = IF frame.leaf = 1 THEN pos ELSE @,
                     !.last  = IF frame.leaf = Len(page.reps) THEN pos ELSE @]
    IN  PropagateBoundary(SetPage(st, frame.id, new), path, Len(path), page)

\* Where a key that parts at diff from the record at the end of path belongs:
\* in the first page with a route that asks later, else beside that record.
InsertSlotFromPath(st, path, key, diff) ==
    LET SlotIn(f) == InsertSlotAbovePath(PageAt(st, f), key, diff)
        above == SelectInSeq(path, LAMBDA f : SlotIn(f) # NoSlot)
        last  == Last(path)
    IN  IF above # 0 THEN [target |-> above, slot |-> SlotIn(path[above])]
        ELSE [target |-> Len(path),
              slot   |-> IF KeyLess(key, RepAt(st, last).key)
                         THEN last.leaf ELSE last.leaf + 1]

InsertAtIncremental(st, id, slot, pos, diff) ==
    LET page   == st.nodes[id]
        size   == Len(page.reps)
        routes == IF size = 0 THEN <<>> ELSE InsertRoute(page, slot, pos.key, diff)
    IN  IF routes = Corrupt THEN Fail(st)
        ELSE SetPage(st, id,
                [reps   |-> InsertAt(page.reps, slot, pos),
                 routes |-> routes,
                 first  |-> IF slot = 1 THEN pos ELSE page.first,
                 last   |-> IF slot = size + 1 THEN pos ELSE page.last])

\* The page of frame.leaf, with reps one over the limit, parts at the root of
\* its tree; the second half becomes its right neighbour in the parent.
PromoteSibling(st, frame, id, reps) ==
    LET parent  == PageAt(st, frame)
        diffs   == BuildDiffs(st, reps)
        split   == CartesianRoot(diffs)
        sibling == NextId(st)
        left  == WriteNodeWithDiffs(Alloc(st), id, SubSeq(reps, 1, split),
                                    SubSeq(diffs, 1, split - 1))
        right == WriteNodeWithDiffs(left, sibling,
                                    SubSeq(reps, split + 1, Len(reps)),
                                    SubSeq(diffs, split + 1, Len(diffs)))
    IN  IF ~Sorted(st, reps) \/ parent.reps[frame.leaf] # Child(id) THEN Fail(st)
        ELSE WriteNodeWithDiffs(right, frame.id,
                InsertAt(parent.reps, frame.leaf + 1, Child(sibling)),
                InsertAt(RouteDiffs(parent), frame.leaf, diffs[split]))

\* The end of the whole index if the new key goes there, or NoSlot.
PathEdgeInsertSlot(st, path, target, slot) ==
    LET size == Len(PageAt(st, path[target]).reps)
        AllAt(End(_)) == \A i \in 1 .. target - 1 :
                            path[i].leaf = End(PageAt(st, path[i]))
    IN  IF \/ slot = 1 /\ AllAt(LAMBDA page : 1)
           \/ slot = size + 1 /\ AllAt(LAMBDA page : Len(page.reps))
        THEN slot ELSE NoSlot

\* reps is one over the limit, and so moving one range into a child is enough.
SplitAndWriteNodeAt(st, id, reps, edge) ==
    LET range == ChooseSplitRange(BuildDiffs(st, reps), edge)
        end   == range.lo + range.n
        child == NextId(st)
        moved == WriteNode(Alloc(st), child, SubSeq(reps, range.lo, end - 1))
    IN  IF ~Sorted(st, reps) THEN Fail(st)
        ELSE WriteNode(moved, id, Collapsed(reps, range.lo, end - 1, Child(child)))

\* Mutant: a page takes one representative too many.
HasRoomOffByOne(page) == Len(page.reps) <= MaxNodeReps

HasRoom(page) == Len(page.reps) < MaxNodeReps

InsertAtPath(st, path, target, slot, pos, diff) ==
    LET id     == path[target].id
        page   == st.nodes[id]
        reps   == InsertAt(page.reps, slot, pos)
        parent == PageAt(st, path[target - 1])
    IN  IF HasRoom(page)
        THEN PropagateBoundary(InsertAtIncremental(st, id, slot, pos, diff),
                               path, target, page)
        ELSE IF target > 1 /\ HasRoom(parent)
        THEN PropagateBoundary(PromoteSibling(st, path[target - 1], id, reps),
                               path, target - 1, parent)
        ELSE PropagateBoundary(
                SplitAndWriteNodeAt(st, id, reps,
                    PathEdgeInsertSlot(st, path, target, slot)),
                path, target, page)

\* Mutant: answers with the record it was led to, whatever its key.
InsertAndAnswerCandidate(st, pos) ==
    LET path == PathBelow(st, Root, pos.key)
        old  == RepAt(st, Last(path))
        diff == DiffBit(pos.key, old.key)
        at   == InsertSlotFromPath(st, path, pos.key, diff)
    IN  IF IsEmpty(st)
        THEN [st |-> InsertAtIncremental(st, Root, 1, pos, 0), old |-> NoPos]
        ELSE [st  |-> IF old.key = pos.key THEN Replace(st, path, pos)
                      ELSE InsertAtPath(st, path, at.target, at.slot, pos, diff),
              old |-> old]

InsertOrReplace(st, pos) ==
    LET path == PathBelow(st, Root, pos.key)
        old  == RepAt(st, Last(path))
        diff == DiffBit(pos.key, old.key)
        at   == InsertSlotFromPath(st, path, pos.key, diff)
    IN  IF IsEmpty(st)
        THEN [st |-> InsertAtIncremental(st, Root, 1, pos, 0), old |-> NoPos]
        ELSE IF old.key = pos.key
        THEN [st |-> Replace(st, path, pos), old |-> old]
        ELSE [st  |-> InsertAtPath(st, path, at.target, at.slot, pos, diff),
              old |-> NoPos]

-----------------------------------------------------------------------------
(* Delete *)

DeleteAtIncremental(st, id, slot) ==
    LET page == st.nodes[id]
        size == Len(page.reps)
    IN  SetPage(st, id,
            IF size = 1 THEN EmptyPage
            ELSE [reps   |-> RemoveAt(page.reps, slot),
                  routes |-> DeleteRoute(page, slot),
                  first  |-> IF slot = 1 THEN MinPos(st, page.reps[2])
                             ELSE page.first,
                  last   |-> IF slot = size THEN MaxPos(st, page.reps[size - 1])
                             ELSE page.last])

\* The child in slot is replaced by what it holds.
MergeChildIntoParent(st, id, slot) ==
    LET page  == st.nodes[id]
        child == page.reps[slot].child
        inner == st.nodes[child]
    IN  Free(WriteNodeWithDiffs(st, id,
                Spliced(RemoveAt(page.reps, slot), slot, inner.reps),
                Spliced(RouteDiffs(page), slot, RouteDiffs(inner))),
             child)

\* The children in slots i and i+1 become one, in slot i.
MergeSiblings(st, id, i) ==
    LET page  == st.nodes[id]
        left  == st.nodes[page.reps[i].child]
        right == st.nodes[page.reps[i + 1].child]
        diffs == RouteDiffs(page)
        merged == WriteNodeWithDiffs(st, page.reps[i].child,
                    left.reps \o right.reps,
                    Append(RouteDiffs(left), diffs[i]) \o RouteDiffs(right))
    IN  Free(WriteNodeWithDiffs(merged, id,
                RemoveAt(page.reps, i + 1), RemoveAt(diffs, i)),
             page.reps[i + 1].child)

\* The sizes of the siblings that the child in slot may be merged with.
SizeOfChild(st, page, i) ==
    IF i \in DOMAIN page.reps /\ IsChild(page.reps[i])
    THEN Len(st.nodes[page.reps[i].child].reps) ELSE 0

MayMerge(st, page, i) ==
    LET left  == SizeOfChild(st, page, i)
        right == SizeOfChild(st, page, i + 1)
    IN  /\ left > 0 /\ right > 0
        /\ left + right <= MaxNodeReps
        /\ IsDirectRoutePair(page, i)

\* The slots i such that children i and i+1 are to be merged, the child in
\* slot being too small: at most one.
MergePair(st, id, slot) ==
    LET page == st.nodes[id]
        withLeft  == MayMerge(st, page, slot - 1)
        withRight == /\ MayMerge(st, page, slot)
                     /\ \/ ~withLeft
                        \/ SizeOfChild(st, page, slot + 1)
                            > SizeOfChild(st, page, slot - 1)
    IN  IF withRight THEN {slot} ELSE IF withLeft THEN {slot - 1} ELSE {}

\* Mutant: the page keeps its ends.
KeepBoundary(st, id, slot, was) == st

\* The ends of the child in slot, once was, reach the page.
RebuildParentAfterChildBoundary(st, id, slot, was) ==
    PropagateBoundary(st,
        <<[id |-> id, leaf |-> slot],
          [id |-> st.nodes[id].reps[slot].child, leaf |-> 1]>>, 2, was)

\* What becomes of the page after a record has left its child in slot.
AfterChildDelete(st, id, slot, was) ==
    LET page == st.nodes[id]
        size == SizeOfChild(st, page, slot)
        pair == MergePair(st, id, slot)
    IN  IF size = 0
        THEN Free(DeleteAtIncremental(st, id, slot), page.reps[slot].child)
        ELSE IF Len(page.reps) - 1 + size <= MaxNodeReps
        THEN MergeChildIntoParent(st, id, slot)
        ELSE IF size < MinNodeReps /\ pair # {}
        THEN MergeSiblings(st, id, CHOOSE i \in pair : TRUE)
        ELSE RebuildParentAfterChildBoundary(st, id, slot, was)

RECURSIVE DeleteFrom(_, _, _)
DeleteFrom(st, id, key) ==
    LET page  == st.nodes[id]
        slot  == Lookup(page, key)
        rep   == page.reps[slot]
        inner == DeleteFrom(st, rep.child, key)
    IN  IF page.reps = <<>> THEN [st |-> st, old |-> NoPos]
        ELSE IF IsChild(rep)
        THEN IF inner.old = NoPos \/ ~inner.st.ok THEN inner
             ELSE [inner EXCEPT !.st =
                     AfterChildDelete(@, id, slot, st.nodes[rep.child])]
        ELSE IF rep.key = key
        THEN [st |-> DeleteAtIncremental(st, id, slot), old |-> rep]
        ELSE [st |-> st, old |-> NoPos]

\* Mutant: the page of the child is copied and not freed.
CopyOnlyChild(st) ==
    LET reps == st.nodes[Root].reps
    IN  IF Len(reps) # 1 \/ ~IsChild(reps[1]) THEN st
        ELSE SetPage(st, Root, st.nodes[reps[1].child])

\* Mutant: the page that was written is freed, not the one it was copied from.
FreeRoot(st) ==
    LET reps == st.nodes[Root].reps
    IN  IF Len(reps) # 1 \/ ~IsChild(reps[1]) THEN st
        ELSE Free(SetPage(st, Root, st.nodes[reps[1].child]), Root)

\* A root whose only representative is a child takes over its page.
RECURSIVE CompressRoot(_)
CompressRoot(st) ==
    LET reps  == st.nodes[Root].reps
        child == reps[1].child
    IN  IF Len(reps) # 1 \/ ~IsChild(reps[1]) THEN st
        ELSE CompressRoot(Free(SetPage(st, Root, st.nodes[child]), child))

DeleteKey(st, key) ==
    LET r == DeleteFrom(st, Root, key)
    IN  IF r.old = NoPos \/ ~r.st.ok THEN r ELSE [r EXCEPT !.st = CompressRoot(@)]

-----------------------------------------------------------------------------
(* Ordered reads: a path is an iterator, and <<>> is its end. *)

RECURSIVE LeftmostRecord(_, _)
LeftmostRecord(st, id) ==
    LET rep == st.nodes[id].reps[1]
    IN  <<[id |-> id, leaf |-> 1]>>
        \o IF IsChild(rep) THEN LeftmostRecord(st, rep.child) ELSE <<>>

RECURSIVE RightmostRecord(_, _)
RightmostRecord(st, id) ==
    LET size == Len(st.nodes[id].reps)
        rep  == st.nodes[id].reps[size]
    IN  <<[id |-> id, leaf |-> size]>>
        \o IF IsChild(rep) THEN RightmostRecord(st, rep.child) ELSE <<>>

\* path[i] turned to slot; the pages below are left to the caller.
Turned(path, i, slot) == Append(SubSeq(path, 1, i - 1), [path[i] EXCEPT !.leaf = slot])

RECURSIVE PositionAtOrAfter(_, _, _, _)
PositionAtOrAfter(st, path, i, slot) ==
    LET reps == PageAt(st, path[i]).reps
    IN  IF slot <= Len(reps)
        THEN Turned(path, i, slot)
             \o IF IsChild(reps[slot])
                THEN LeftmostRecord(st, reps[slot].child) ELSE <<>>
        ELSE IF i = 1 THEN <<>>
        ELSE PositionAtOrAfter(st, path, i - 1, path[i - 1].leaf + 1)

RECURSIVE PositionAtOrBefore(_, _, _, _)
PositionAtOrBefore(st, path, i, slot) ==
    LET prev == slot - 1
        rep  == PageAt(st, path[i]).reps[prev]
    IN  IF slot > 1
        THEN Turned(path, i, prev)
             \o IF IsChild(rep) THEN RightmostRecord(st, rep.child) ELSE <<>>
        ELSE IF i = 1 THEN <<>>
        ELSE PositionAtOrBefore(st, path, i - 1, path[i - 1].leaf)

NextPath(st, path) == PositionAtOrAfter(st, path, Len(path), Last(path).leaf + 1)
PrevPath(st, path) == PositionAtOrBefore(st, path, Len(path), Last(path).leaf)

\* The path to the record of key, or Beside of where it would be.
Seek(st, key, Beside(_, _, _, _)) ==
    LET path == PathBelow(st, Root, key)
        rec  == RepAt(st, Last(path))
        at   == InsertSlotFromPath(st, path, key, DiffBit(key, rec.key))
    IN  IF IsEmpty(st) THEN <<>>
        ELSE IF rec.key = key THEN path
        ELSE Beside(st, path, at.target, at.slot)

SeekGreaterOrEqual(st, key) == Seek(st, key, PositionAtOrAfter)

\* Mutant: the neighbour on the wrong side.
SeekLessOrGreater(st, key)  == Seek(st, key, PositionAtOrAfter)
SeekLessOrEqual(st, key)    == Seek(st, key, PositionAtOrBefore)

LeftmostRoot(st)  == IF IsEmpty(st) THEN <<>> ELSE LeftmostRecord(st, Root)
RightmostRoot(st) == IF IsEmpty(st) THEN <<>> ELSE RightmostRecord(st, Root)

\* The records that a scan visits from path on, up to the first whose key is
\* not within its bound.
RECURSIVE AscendFromPath(_, _, _)
AscendFromPath(st, path, within) ==
    IF path = <<>> \/ RepAt(st, Last(path)).key \notin within THEN <<>>
    ELSE <<RepAt(st, Last(path))>> \o AscendFromPath(st, NextPath(st, path), within)

RECURSIVE DescendFromPath(_, _, _)
DescendFromPath(st, path, within) ==
    IF path = <<>> \/ RepAt(st, Last(path)).key \notin within THEN <<>>
    ELSE <<RepAt(st, Last(path))>> \o DescendFromPath(st, PrevPath(st, path), within)

Below(bound) == {k \in Key : KeyLess(k, bound)}
Above(bound) == {k \in Key : KeyLess(bound, k)}

Ascend(st) == AscendFromPath(st, LeftmostRoot(st), Key)
AscendLessThan(st, pivot) == AscendFromPath(st, LeftmostRoot(st), Below(pivot))
AscendGreaterOrEqual(st, pivot) ==
    AscendFromPath(st, SeekGreaterOrEqual(st, pivot), Key)
AscendRange(st, from, below) ==
    AscendFromPath(st, SeekGreaterOrEqual(st, from), Below(below))

Descend(st) == DescendFromPath(st, RightmostRoot(st), Key)
DescendGreaterThan(st, pivot) == DescendFromPath(st, RightmostRoot(st), Above(pivot))
DescendLessOrEqual(st, pivot) ==
    DescendFromPath(st, SeekLessOrEqual(st, pivot), Key)
DescendRange(st, from, above) ==
    DescendFromPath(st, SeekLessOrEqual(st, from), Above(above))

-----------------------------------------------------------------------------
(* The records of the pages below id, in the order of their slots. *)
RECURSIVE Records(_, _)
Records(st, id) ==
    LET RecordsOf(rep) == IF IsChild(rep) THEN Records(st, rep.child) ELSE <<rep>>
        reps == st.nodes[id].reps
    IN  FlattenSeq([i \in DOMAIN reps |-> RecordsOf(reps[i])])

-----------------------------------------------------------------------------
Becomes(st) == nodes' = st.nodes /\ free' = st.free /\ ok' = st.ok

Init == /\ nodes = <<EmptyPage>>
        /\ free = <<>>
        /\ count = 0
        /\ ok = TRUE
        /\ dict = [key \in Key |-> NoPos]

\* A Put or Retarget to the position that a key has already changes nothing.
Put(pos) ==
    LET r == InsertOrReplace(Now, pos)
    IN  /\ ok
        /\ pos # Probe(Now, pos.key)
        /\ Becomes(r.st)
        /\ count' = IF r.old = NoPos THEN count + 1 ELSE count
        /\ dict' = [dict EXCEPT ![pos.key] = pos]

Delete(key) ==
    LET r == DeleteKey(Now, key)
    IN  /\ ok
        /\ Becomes(r.st)
        /\ count' = IF r.old = NoPos THEN count ELSE count - 1
        /\ dict' = [dict EXCEPT ![key] = NoPos]

\* The record of a key has moved; any other old position is refused.
Retarget(old, pos) ==
    /\ ok
    /\ Probe(Now, pos.key) = old
    /\ old # pos
    /\ Becomes(Replace(Now, PathBelow(Now, Root, pos.key), pos))
    /\ dict' = [dict EXCEPT ![pos.key] = pos]
    /\ UNCHANGED count

\* A new Index over the same pages; NewWithNodes rebuilds the root.
Reopen ==
    /\ ok
    /\ \/ Becomes(WriteNode(Now, Root, nodes[Root].reps))
       \/ Becomes(Now)
    /\ count' = Len(Records(Now, Root))
    /\ UNCHANGED dict

Next == \/ \E pos \in Position : Put(pos)
        \/ \E key \in Key : Delete(key)
        \/ \E old, pos \in Position : old.key = pos.key /\ Retarget(old, pos)
        \/ Reopen

Spec == Init /\ [][Next]_vars

-----------------------------------------------------------------------------
Live == {id \in DOMAIN nodes : nodes[id] # NoPage}

Rep == Position \cup {Child(id) : id \in Live \ {Root}}

\* Every page holds between one representative and MaxNodeReps, the root may
\* be empty, every child is a page in use, the free list holds page numbers,
\* and Len is at most the number of keys (Index and HeapNodeStore).
TypeOK ==
    /\ \A id \in Live :
        LET page == nodes[id]
        IN  /\ page.reps \in Seq(Rep)
            /\ Len(page.reps) \in (IF id = Root THEN 0 ELSE 1) .. MaxNodeReps
            /\ {page.first, page.last} \subseteq
                    IF page.reps = <<>> THEN {NoPos} ELSE Position
    /\ free \in Seq(DOMAIN nodes)
    /\ count \in 0 .. Cardinality(Key)
    /\ ok \in BOOLEAN

\* No operation meets a layout it refuses: InsertRoute is always given the
\* slot it computes itself, neighbours are always in order, and no page is
\* freed twice.
NeverCorrupt == ok

\* Every page is what RebuildNode would make of its representatives: its
\* routes are the Cartesian tree of their diffs, also after InsertRoute and
\* DeleteRoute edited them and after splits and merges passed them on, its
\* slots are in order and each parts later than from those beside it, and its
\* ends are those of its first and last page below.
PagesCanonical ==
    \A id \in Live :
        LET page == nodes[id]
        IN  \/ page = EmptyPage
            \/ /\ KeyPage(page, Lows(Now, page.reps), Highs(Now, page.reps))
               /\ page.first = MinPos(Now, page.reps[1])
               /\ page.last  = MaxPos(Now, Last(page.reps))

\* Every page but the root is the child of one slot; all others are free,
\* once.
NoPageLost ==
    LET Slots == {<<id, i>> \in Live \X (1 .. MaxNodeReps) :
                    i \in DOMAIN nodes[id].reps /\ IsChild(nodes[id].reps[i])}
        ChildIn(s) == nodes[s[1]].reps[s[2]].child
    IN  /\ {ChildIn(s) : s \in Slots} = Live \ {Root}
        /\ Cardinality(Slots) = Cardinality(Live) - 1
        /\ ToSet(free) = DOMAIN nodes \ Live
        /\ Len(free) = Cardinality(ToSet(free))

\* Get finds every key at the position it was given last and no other key,
\* and Len counts them.
FindsWhatWasPut ==
    /\ \A k \in Key : Get(Now, k) = dict[k]
    /\ count = Cardinality({k \in Key : dict[k] # NoPos})

\* Put and Delete answer with the position that their key had.
AnswersAgree ==
    /\ \A k \in Key : DeleteKey(Now, k).old = dict[k]
    /\ \A pos \in Position : InsertOrReplace(Now, pos).old = dict[pos.key]

\* The positions of the keys in S, in the order of the keys.
InOrder(S) ==
    LET held == {k \in S : dict[k] # NoPos}
        Rank(k) == Cardinality({j \in held : KeyLess(j, k)}) + 1
    IN  [i \in 1 .. Cardinality(held) |-> dict[CHOOSE k \in held : Rank(k) = i]]

\* Scans of the whole index, and from every key, held or not, to either end or
\* to every bound, visit exactly the records in between, in order.
ScansAgree ==
    LET AtLeast(k) == Key \ Below(k)
        AtMost(k)  == Key \ Above(k)
    IN  /\ Ascend(Now) = InOrder(Key)
        /\ Descend(Now) = Reverse(InOrder(Key))
        /\ \A k \in Key :
            /\ AscendLessThan(Now, k) = InOrder(Below(k))
            /\ AscendGreaterOrEqual(Now, k) = InOrder(AtLeast(k))
            /\ DescendGreaterThan(Now, k) = Reverse(InOrder(Above(k)))
            /\ DescendLessOrEqual(Now, k) = Reverse(InOrder(AtMost(k)))
            /\ \A bound \in Key :
                /\ AscendRange(Now, k, bound) = InOrder(AtLeast(k) \cap Below(bound))
                /\ DescendRange(Now, k, bound)
                    = Reverse(InOrder(AtMost(k) \cap Above(bound)))
=============================================================================
