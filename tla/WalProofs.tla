----------------------------- MODULE WalProofs -----------------------------
(***************************************************************************)
(* What a recovery of the log keeps, as theorems about Wal: the inductive  *)
(* invariant WalInv, the invariants and the action properties that follow  *)
(* from it, for every value of the constants.                              *)
(***************************************************************************)
EXTENDS Wal, FiniteSetTheorems, SequenceTheorems, WellFoundedInduction, TLAPS

-----------------------------------------------------------------------------
(***************************************************************************)
(* The inductive invariant.                                                *)
(***************************************************************************)

\* The positions a replay has passed.
Passed == {p \in Positions(segs) :
             p[1] < cursor[1] \/ (p[1] = cursor[1] /\ p[2] < cursor[2])}

\* How the files, the mapped segments and the state of a recovery fit together.
Shape ==
  /\ segs \subseteq files
  /\ \A f \in File \ files : hdr[f] = Zeroed /\ hdrDisk[f] = {Zeroed}
  /\ pc # "drop" => todo = {}
  /\ policy = "none" <=> pc \in {"closed", "idle"}
  /\ pc \in {"closed", "idle"} => applied = <<>>
  /\ pc = "drop" => policy # "strict"
  /\ pc # "closed" => next = active + 1 /\ \A f \in segs : hdr[f] \in Nat
  /\ pc \in {"replay", "idle"} => active \in segs /\ \A f \in segs : f <= active
  /\ pc \in {"replay", "drop"} => cursor[1] \in segs
  /\ pc = "replay" => files = segs /\ cursor[2] <= hdr[cursor[1]] + 1
  /\ pc = "drop" => todo = {f \in segs : cursor[1] < f}

\* A replay has applied what it passed; when it drops segments, that is all
\* that is left of the others.
ReplayOK ==
  /\ pc = "replay" => Spells(applied, Passed, slot)
  /\ pc = "drop" => Spells(applied, Positions(segs \ todo), slot)

\* Without a drop that stopped half way, no file is left to be opened again.
NothingLeft ==
  "leftover" \notin exposed =>
    /\ pc = "idle" => \A f \in files \ segs : f = next /\ hdr[f] = Zeroed
    /\ pc = "drop" => files = segs

\* The files that a recovery would replay, a drop in progress being finished.
Kept == files \ todo

\* The records of contents c at positions P, up to the first bad one, are a prefix
\* of sequence s.
Good(P, c) == \A p \in P : c[p[1]][p[2]] \in Written

StoresPrefix(P, c, s) ==
  \A p \in P :
    Good(UpTo(p, P), c) => /\ Cardinality(UpTo(p, P)) <= Len(s)
                           /\ s[Cardinality(UpTo(p, P))] = c[p[1]][p[2]]

Begins(s, t) == Len(s) <= Len(t) /\ \A n \in 1..Len(s) : s[n] = t[n]

\* Unless one of the weak points was met, the records a recovery would replay are
\* a prefix of what the users of the log know, and so are those it has replayed.
PrefixStored ==
  exposed = {} => StoresPrefix(Positions(Kept), slot, hist) /\ Begins(applied, hist)

\* Without damage and crashes of the machine they are all of it.
AllStored ==
  (corruptions = 0 /\ osCrashes = 0) =>
    /\ exposed = {} /\ pc # "drop"
    /\ Spells(hist, Positions(files), slot)

WalInv ==
  /\ TypeOK /\ Shape /\ ReplayOK /\ NothingLeft /\ StoredIsHistory
  /\ PrefixStored /\ AllStored

-----------------------------------------------------------------------------
(***************************************************************************)
(* The least and the greatest of a set of files.                           *)
(***************************************************************************)

\* A set of naturals that is not empty has a least element.
LEMMA LeastNatural ==
  ASSUME NEW S \in SUBSET Nat, S # {}
  PROVE  \E x \in S : \A y \in S : x <= y
<1>1. \E x \in S : \A y \in S : <<y, x>> \notin OpToRel(<, Nat)
  BY WFMin, NatLessThanWellFounded, Zenon
<1>2. \A x, y \in Nat : y < x => <<y, x>> \in OpToRel(<, Nat)
  BY Zenon DEF OpToRel
<1>3. \E x \in S : \A y \in S : ~ (y < x)
  BY <1>1, <1>2, Zenon
<1> QED
  BY <1>3

\* Smallest(S), the segment that is replayed or dropped first, is in S.
LEMMA SmallestIsLeast ==
  ASSUME NEW S \in SUBSET Nat, S # {}
  PROVE  Smallest(S) \in S /\ \A y \in S : Smallest(S) <= y
BY LeastNatural DEF Smallest

\* Largest(S), the segment that becomes the active one, is in S.
LEMMA LargestIsGreatest ==
  ASSUME NEW n \in Nat, NEW S \in SUBSET (1..n), S # {}
  PROVE  Largest(S) \in S /\ \A y \in S : y <= Largest(S)
<1> DEFINE T == {n - x : x \in S}
<1>1. T \in SUBSET Nat
  <2> SUFFICES ASSUME NEW x \in S PROVE n - x \in Nat
    OBVIOUS
  <2>1. x \in 1..n
    OBVIOUS
  <2> QED
    BY <2>1
<1>2. T # {}
  OBVIOUS
<1>3. PICK x \in S : \A t \in T : n - x <= t
  <2> HIDE DEF T
  <2>1. PICK t \in T : \A u \in T : t <= u
    BY <1>1, <1>2, LeastNatural
  <2>2. PICK x \in S : t = n - x
    BY <2>1 DEF T
  <2> QED
    BY <2>1, <2>2
<1>4. ASSUME NEW y \in S PROVE y <= x
  <2>1. n - y \in T
    OBVIOUS
  <2>2. n - x <= n - y
    BY <1>3, <2>1
  <2>3. x \in 1..n /\ y \in 1..n
    OBVIOUS
  <2> QED
    BY <2>2, <2>3
<1> QED
  BY <1>4 DEF Largest

LEMMA FilesAreNumbers ==
  /\ MaxFile \in Nat \ {0} /\ Capacity \in Nat \ {0} /\ MaxWrites \in Nat
  /\ \A f \in File : f \in Nat /\ f # 0
  /\ \A i \in Slot : i \in Nat /\ i # 0
  /\ Torn \notin Written /\ Blank \notin Written
  /\ 0 \in Header /\ \A h \in Header : h \in Int /\ h <= Capacity
  /\ "none" \notin Policies
<1>1. MaxFile \in Nat \ {0} /\ Capacity \in Nat \ {0} /\ MaxWrites \in Nat
      /\ "none" \notin Policies
  BY WalAssumption
<1>2. Torn \notin Written /\ Blank \notin Written
  BY <1>1 DEF Torn, Blank, Written
<1>3. 0 \in Header /\ \A h \in Header : h \in Int /\ h <= Capacity
  BY <1>1 DEF Header, Zeroed, Partial
<1> QED
  BY <1>1, <1>2, <1>3 DEF File, Slot

\* The extremes of a set of files.
LEMMA ExtremeFiles ==
  ASSUME NEW S \in SUBSET File, S # {}
  PROVE  /\ Smallest(S) \in S /\ \A f \in S : Smallest(S) <= f
         /\ Largest(S) \in S /\ \A f \in S : f <= Largest(S)
<1>1. S \in SUBSET Nat /\ S \in SUBSET (1..MaxFile) /\ MaxFile \in Nat
  BY FilesAreNumbers DEF File
<1> QED
  BY <1>1, SmallestIsLeast, LargestIsGreatest

-----------------------------------------------------------------------------
(***************************************************************************)
(* Positions, their order, and the sequences they spell.                   *)
(***************************************************************************)

Pos == File \X Slot

\* p is before x in file and offset order.
Precedes(p, x) == p[1] < x[1] \/ (p[1] = x[1] /\ p[2] < x[2])

LEMMA PosType ==
  ASSUME NEW p \in Pos
  PROVE  /\ p = <<p[1], p[2]>> /\ p[1] \in File /\ p[2] \in Slot
         /\ p[1] \in Nat /\ p[2] \in Nat
BY FilesAreNumbers DEF Pos

LEMMA PosFinite ==
  ASSUME NEW P \in SUBSET Pos
  PROVE  IsFiniteSet(P) /\ Cardinality(P) \in Nat
<1>1. IsFiniteSet(File) /\ IsFiniteSet(Slot)
  BY FilesAreNumbers, FS_Interval DEF File, Slot
<1>2. IsFiniteSet(Pos)
  BY <1>1, FS_Product DEF Pos
<1> QED
  BY <1>2, FS_Subset, FS_CardinalityType

\* The number of a position among others.
LEMMA RankType ==
  ASSUME NEW P \in SUBSET Pos, NEW p \in P
  PROVE  /\ UpTo(p, P) \in SUBSET P /\ p \in UpTo(p, P)
         /\ Cardinality(UpTo(p, P)) \in 1..Cardinality(P)
<1>1. UpTo(p, P) \in SUBSET P /\ p \in UpTo(p, P)
  BY PosType DEF UpTo
<1>2. IsFiniteSet(P) /\ Cardinality(P) \in Nat
  BY PosFinite
<1>3. /\ IsFiniteSet(UpTo(p, P)) /\ Cardinality(UpTo(p, P)) \in Nat
      /\ Cardinality(UpTo(p, P)) <= Cardinality(P)
      /\ Cardinality(UpTo(p, P)) # 0
  BY <1>1, <1>2, FS_Subset, FS_CardinalityType, FS_EmptySet
<1> QED
  BY <1>1, <1>2, <1>3

LEMMA SpellsAlike ==
  ASSUME NEW s, NEW P, NEW c, NEW d, Spells(s, P, c),
         \A p \in P : d[p[1]][p[2]] = c[p[1]][p[2]]
  PROVE  Spells(s, P, d)
BY DEF Spells

LEMMA SpellsNothing == ASSUME NEW c PROVE Spells(<<>>, {}, c)
BY FS_EmptySet DEF Spells

\* One more position behind all others, and one more record.
LEMMA SpellsMore ==
  ASSUME NEW P \in SUBSET Pos, NEW x \in Pos, \A p \in P : Precedes(p, x),
         NEW s \in Seq(Written), NEW c, NEW d, Spells(s, P, c),
         \A p \in P : d[p[1]][p[2]] = c[p[1]][p[2]],
         NEW r \in Written, d[x[1]][x[2]] = r
  PROVE  Spells(Append(s, r), P \cup {x}, d)
<1> DEFINE Q == P \cup {x}
           t == Append(s, r)
<1>1. \A p \in P : p \in Pos /\ p # x
  BY PosType DEF Precedes
<1>2. IsFiniteSet(P) /\ Cardinality(P) \in Nat /\ Cardinality(Q) = Cardinality(P) + 1
  BY <1>1, PosFinite, FS_AddElement
<1>3. Len(s) = Cardinality(P) /\ Len(t) = Len(s) + 1 /\ t[Len(s) + 1] = r
      /\ \A n \in 1..Len(s) : t[n] = s[n]
  BY AppendProperties DEF Spells
<1> HIDE DEF t
<1>4. UpTo(x, Q) = Q
  <2>1. \A p \in P : p[1] < x[1] \/ (p[1] = x[1] /\ p[2] <= x[2])
    BY <1>1, PosType DEF Precedes
  <2> QED
    BY <2>1, PosType DEF UpTo
<1>5. ASSUME NEW p \in P PROVE UpTo(p, Q) = UpTo(p, P)
  <2>1. ~ (x[1] < p[1] \/ (x[1] = p[1] /\ x[2] <= p[2]))
    BY <1>1, PosType DEF Precedes
  <2> QED
    BY <2>1 DEF UpTo
<1>6. ASSUME NEW p \in Q PROVE t[Cardinality(UpTo(p, Q))] = d[p[1]][p[2]]
  <2>1. CASE p = x
    BY <1>2, <1>3, <1>4, <2>1
  <2>2. CASE p \in P
    <3>1. Cardinality(UpTo(p, P)) \in 1..Len(s)
      BY <1>3, <2>2, RankType
    <3>2. t[Cardinality(UpTo(p, Q))] = s[Cardinality(UpTo(p, P))]
      BY <1>3, <1>5, <2>2, <3>1
    <3> QED
      BY <2>2, <3>2 DEF Spells
  <2> QED
    BY <2>1, <2>2
<1> HIDE DEF Q
<1>7. Spells(t, Q, d)
  BY <1>2, <1>3, <1>6 DEF Spells
<1> QED
  BY <1>7 DEF t, Q

LEMMA PositionsType ==
  ASSUME TypeOK, NEW S \in SUBSET File
  PROVE  /\ Positions(S) \in SUBSET Pos
         /\ \A p \in Positions(S) : p[1] \in S /\ p[2] <= hdr[p[1]]
         /\ \A p \in Pos : p[1] \in S /\ p[2] <= hdr[p[1]] => p \in Positions(S)
BY DEF Positions, Pos

-----------------------------------------------------------------------------
(***************************************************************************)
(* Every variable keeps its type.                                          *)
(***************************************************************************)

PagesType ==
  /\ hdr \in [File -> Header]
  /\ hdrDisk \in [File -> SUBSET Header]
  /\ slot \in [File -> [Slot -> Content]]
  /\ slotDisk \in [File -> [Slot -> SUBSET Content]]

ProcessType ==
  /\ files \subseteq File /\ segs \subseteq File /\ dirty \subseteq segs
  /\ active \in File /\ next \in 2..MaxFile + 1
  /\ pc \in {"closed", "replay", "drop", "idle"}
  /\ policy \in Policies \cup {"none"}
  /\ cursor \in File \X (1..Capacity + 1)
  /\ todo \subseteq File
  /\ applied \in Seq(Written)

AuxType ==
  /\ hist \in Seq(Written)
  /\ exposed \subseteq Exposures
  /\ writes \in 0..MaxWrites
  /\ osCrashes \in 0..MaxOsCrash /\ corruptions \in 0..MaxCorrupt

LEMMA TypeParts ==
  /\ TypeOK <=> PagesType /\ ProcessType /\ AuxType
  /\ TypeOK' <=> PagesType' /\ ProcessType' /\ AuxType'
BY DEF TypeOK, PagesType, ProcessType, AuxType

LEMMA Bounds ==
  /\ MaxFile \in Nat \ {0} /\ Capacity \in Nat \ {0} /\ MaxWrites \in Nat
  /\ MaxOsCrash \in Nat /\ MaxCorrupt \in Nat
  /\ 1 \in File /\ 2 \in 2..MaxFile + 1
  /\ \A f \in File : f + 1 \in 2..MaxFile + 1
  /\ <<1, 1>> \in File \X (1..Capacity + 1)
  /\ \A f \in File : <<f, 1>> \in File \X (1..Capacity + 1)
  /\ Zeroed \in Header /\ Partial \in Header
  /\ Blank \in Content /\ Torn \in Content /\ Written \subseteq Content
BY WalAssumption DEF File, Header, Content

LEMMA GoneTyped == ASSUME ProcessType, Gone, files' \subseteq File PROVE ProcessType'
BY Bounds, EmptySeq DEF ProcessType, Gone

LEMMA OpenedTyped ==
  ASSUME TypeOK, NEW S \in SUBSET File, hdr' = Opened(S), hdrDisk' = OpenedDisk(S),
         UNCHANGED <<slot, slotDisk>>
  PROVE  PagesType'
<1>1. Opened(S) \in [File -> Header]
  BY FilesAreNumbers DEF TypeOK, Opened
<1>2. OpenedDisk(S) \in [File -> SUBSET Header]
  BY <1>1 DEF TypeOK, OpenedDisk
<1> QED
  BY <1>1, <1>2 DEF TypeOK, PagesType

LEMMA StoreHeaderTyped ==
  ASSUME TypeOK, NEW f \in File, NEW h \in Header, StoreHeader(f, h)
  PROVE  hdr' \in [File -> Header] /\ hdrDisk' \in [File -> SUBSET Header]
BY DEF TypeOK, StoreHeader

LEMMA WalInitType == Init => TypeOK
<1> SUFFICES ASSUME Init PROVE TypeOK
  OBVIOUS
<1>1. PagesType
  BY Bounds DEF Init, PagesType
<1>2. ProcessType
  BY Bounds, EmptySeq DEF Init, ProcessType
<1>3. 0 \in 0..MaxWrites /\ 0 \in 0..MaxOsCrash /\ 0 \in 0..MaxCorrupt
  BY Bounds
<1>4. AuxType
  BY <1>3, EmptySeq DEF Init, AuxType
<1> QED
  BY <1>1, <1>2, <1>4, TypeParts

LEMMA OpenSegmentsTyped ==
  ASSUME TypeOK, OpenSegments PROVE TypeOK'
<1> DEFINE S == SegmentsToOpen
<1>1. S \in SUBSET File /\ S # {}
  BY Bounds DEF SegmentsToOpen, TypeOK
<1>2. Largest(S) \in File /\ Smallest(S) \in File
  BY <1>1, ExtremeFiles
<1>3. PagesType'
  BY <1>1, OpenedTyped DEF OpenSegments
<1>4. Fresh(S) \subseteq S
  BY DEF Fresh
<1>5. /\ files' = S /\ segs' = S /\ active' = Largest(S) /\ next' = Largest(S) + 1
      /\ dirty' = Fresh(S) /\ policy' \in Policies /\ cursor' = <<Smallest(S), 1>>
      /\ pc' = "replay" /\ todo' = todo /\ applied' = applied /\ UNCHANGED <<aux, counts>>
  BY DEF OpenSegments
<1> HIDE DEF S
<1>6. ProcessType'
  BY <1>1, <1>2, <1>4, <1>5, Bounds DEF TypeOK, ProcessType
<1>7. AuxType'
  BY <1>5 DEF TypeOK, AuxType, aux, counts
<1> QED
  BY <1>3, <1>6, <1>7, TypeParts

LEMMA CursorType ==
  ASSUME TypeOK
  PROVE  /\ cursor = <<cursor[1], cursor[2]>> /\ cursor[1] \in File
         /\ cursor[2] \in 1..Capacity + 1 /\ cursor[2] \in Nat /\ cursor[1] \in Nat
         /\ hdr[cursor[1]] \in Header
         /\ InUse => cursor[2] \in Slot /\ hdr[cursor[1]] \in Nat
<1>1. cursor \in File \X (1..Capacity + 1) /\ hdr \in [File -> Header]
  BY DEF TypeOK
<1>2. /\ cursor = <<cursor[1], cursor[2]>> /\ cursor[1] \in File
      /\ cursor[2] \in 1..Capacity + 1 /\ cursor[2] \in Nat /\ cursor[1] \in Nat
      /\ hdr[cursor[1]] \in Header
  BY <1>1, FilesAreNumbers
<1>3. InUse => cursor[2] \in Slot /\ hdr[cursor[1]] \in Nat
  BY <1>2, FilesAreNumbers DEF InUse, Slot
<1> QED
  BY <1>2, <1>3

LEMMA ReplayTyped ==
  ASSUME TypeOK, Shape,
         ReplayRecord \/ ReplayNextSegment \/ ReplayBadRecord \/ ReplayDone
  PROVE  TypeOK'
<1>1. PagesType /\ ProcessType /\ AuxType
  BY TypeParts
<1>2. CASE ReplayRecord
  <2>1. cursor' \in File \X (1..Capacity + 1)
    <3>1. cursor' = <<cursor[1], cursor[2] + 1>> /\ InUse
      BY <1>2 DEF ReplayRecord
    <3>2. cursor[1] \in File /\ cursor[2] \in Slot
      BY <3>1, CursorType
    <3>3. cursor[2] + 1 \in 1..Capacity + 1
      BY <3>2, Bounds DEF Slot
    <3> QED
      BY <3>1, <3>2, <3>3
  <2>2. applied' \in Seq(Written)
    BY <1>1, <1>2, AppendProperties DEF ReplayRecord, ProcessType
  <2> QED
    BY <1>1, <1>2, <2>1, <2>2, TypeParts
       DEF ReplayRecord, pages, memory, aux, counts, PagesType, ProcessType, AuxType
<1>3. CASE ReplayNextSegment
  <2>1. LaterSegments \in SUBSET File /\ LaterSegments # {}
    BY <1>1, <1>3 DEF ReplayNextSegment, LaterSegments, ProcessType
  <2>2. cursor' \in File \X (1..Capacity + 1)
    BY <1>3, <2>1, ExtremeFiles, Bounds DEF ReplayNextSegment
  <2> QED
    BY <1>1, <1>3, <2>2, TypeParts
       DEF ReplayNextSegment, pages, memory, aux, counts, PagesType, ProcessType, AuxType
<1>4. CASE ReplayBadRecord
  <2>1. AuxType' /\ PagesType' /\ ProcessType'
    <3>1. CASE Refuses
      <4>1. ProcessType'
        BY <1>1, <1>4, <3>1, GoneTyped DEF ReplayBadRecord, ProcessType
      <4> QED
        BY <1>1, <1>4, <3>1, <4>1 DEF ReplayBadRecord, PagesType, AuxType, aux, counts
    <3>2. CASE ~Refuses
      <4>1. TruncateAndDrop /\ UNCHANGED <<files, slot, slotDisk, aux, counts>> /\ InUse
        BY <1>4, <3>2 DEF ReplayBadRecord
      <4>2. cursor[1] \in File /\ cursor[2] - 1 \in Header
        BY <4>1, CursorType, Bounds DEF Slot, Header
      <4>3. PagesType'
        BY <1>1, <4>1, <4>2, StoreHeaderTyped DEF TruncateAndDrop, Truncate, PagesType
      <4>4. dirty' \subseteq segs'
        BY <1>1, <1>4, <4>1 DEF TruncateAndDrop, Truncate, ReplayBadRecord, Shape, ProcessType
      <4>5. ProcessType'
        BY <1>1, <4>1, <4>4 DEF TruncateAndDrop, LaterSegments, ProcessType
      <4>6. AuxType'
        BY <1>1, <4>1 DEF AuxType, aux, counts
      <4> QED
        BY <4>3, <4>5, <4>6
    <3> QED
      BY <3>1, <3>2
  <2> QED
    BY <2>1, TypeParts
<1>5. CASE ReplayDone
  <2>1. ProcessType'
    BY <1>1, <1>5, Bounds, EmptySeq DEF ReplayDone, Serve, memory, ProcessType
  <2> QED
    BY <1>1, <1>5, <2>1, TypeParts
       DEF ReplayDone, Serve, pages, counts, PagesType, ProcessType, AuxType
<1> QED
  BY <1>2, <1>3, <1>4, <1>5

LEMMA DropTyped ==
  ASSUME TypeOK, Shape, DropSegment \/ DropFails \/ DropDone PROVE TypeOK'
<1>1. PagesType /\ ProcessType /\ AuxType
  BY TypeParts
<1>2. CASE DropSegment
  <2> DEFINE f == Smallest(todo)
  <2>1. f \in File
    BY <1>1, <1>2, ExtremeFiles DEF DropSegment, ProcessType
  <2>2. /\ files' = files \ {f} /\ segs' = segs \ {f} /\ dirty' = dirty \ {f}
        /\ todo' = todo \ {f} /\ UNCHANGED <<active, next, pc, policy, cursor, applied>>
        /\ UNCHANGED <<aux, counts>>
    BY <1>2 DEF DropSegment
  <2>3. /\ hdr' = [hdr EXCEPT ![f] = Zeroed]
        /\ hdrDisk' = [hdrDisk EXCEPT ![f] = {Zeroed}]
        /\ slot' = [slot EXCEPT ![f] = [i \in Slot |-> Blank]]
        /\ slotDisk' = [slotDisk EXCEPT ![f] = [i \in Slot |-> {Blank}]]
    BY <1>2 DEF DropSegment
  <2> HIDE DEF f
  <2>4. PagesType'
    BY <1>1, <2>1, <2>3, Bounds DEF PagesType
  <2>5. ProcessType' /\ AuxType'
    BY <1>1, <2>2 DEF ProcessType, AuxType, aux, counts
  <2> QED
    BY <2>4, <2>5, TypeParts
<1>3. CASE DropFails
  <2>1. ProcessType' /\ PagesType'
    BY <1>1, <1>3 DEF DropFails, ProcessType, PagesType, pages
  <2>2. AuxType'
    BY <1>1, <1>3 DEF DropFails, AuxType, counts, Exposures
  <2> QED
    BY <2>1, <2>2, TypeParts
<1>4. CASE DropDone
  <2>1. active' \in File /\ next' \in 2..MaxFile + 1
    BY <1>4, CursorType, Bounds DEF DropDone
  <2>2. ProcessType'
    BY <1>1, <1>4, <2>1, Bounds, EmptySeq DEF DropDone, Serve, ProcessType
  <2> QED
    BY <1>1, <1>4, <2>2, TypeParts
       DEF DropDone, Serve, pages, counts, PagesType, ProcessType, AuxType
<1> QED
  BY <1>2, <1>3, <1>4

LEMMA AppendTyped ==
  ASSUME TypeOK, Shape, AppendRecord PROVE TypeOK'
<1>1. PagesType /\ ProcessType /\ AuxType
  BY TypeParts
<1>2. /\ active \in segs /\ active \in File /\ hdr[active] \in Nat
      /\ hdr[active] < Capacity /\ writes < MaxWrites /\ writes \in Nat
  BY <1>1 DEF AppendRecord, HasRoom, Shape, ProcessType, AuxType
<1>3. hdr[active] + 1 \in Slot /\ hdr[active] + 1 \in Header /\ writes + 1 \in Written
      /\ writes + 1 \in 0..MaxWrites /\ writes + 1 \in Content
  BY <1>2, Bounds DEF Slot, Header, Written
<1>4. hdr' \in [File -> Header] /\ hdrDisk' \in [File -> SUBSET Header]
  BY <1>2, <1>3, StoreHeaderTyped DEF AppendRecord
<1>5. slot' \in [File -> [Slot -> Content]]
  BY <1>1, <1>2, <1>3 DEF AppendRecord, StoreSlot, PagesType
<1>6. slotDisk' \in [File -> [Slot -> SUBSET Content]]
  BY <1>1, <1>2, <1>3 DEF AppendRecord, StoreSlot, PagesType
<1>7. ProcessType'
  BY <1>1, <1>2 DEF AppendRecord, replay, ProcessType
<1>8. AuxType'
  BY <1>1, <1>3, AppendProperties DEF AppendRecord, AuxType
<1> QED
  BY <1>4, <1>5, <1>6, <1>7, <1>8, TypeParts DEF PagesType

LEMMA RolloverTyped ==
  ASSUME TypeOK, Shape, Rollover \/ RolloverFails PROVE TypeOK'
<1>1. PagesType /\ ProcessType /\ AuxType
  BY TypeParts
<1>2. next \in File
  BY DEF Rollover, RolloverFails, NeedsRollover
<1>3. CASE Rollover
  <2>1. PagesType'
    BY <1>2, <1>3, OpenedTyped DEF Rollover
  <2>2. next' \in 2..MaxFile + 1 /\ Fresh({next}) \subseteq {next}
    BY <1>2, <1>3, Bounds DEF Rollover, Fresh
  <2>3. ProcessType'
    BY <1>1, <1>2, <1>3, <2>2 DEF Rollover, replay, ProcessType
  <2>4. AuxType'
    BY <1>1, <1>3 DEF Rollover, AuxType, aux, counts
  <2> QED
    BY <2>1, <2>3, <2>4, TypeParts
<1>4. CASE RolloverFails
  BY <1>1, <1>2, <1>4, TypeParts
     DEF RolloverFails, pages, memory, replay, aux, counts, PagesType, ProcessType, AuxType
<1> QED
  BY <1>3, <1>4

LEMMA CloseTyped == ASSUME TypeOK, Close PROVE TypeOK'
<1>1. PagesType /\ ProcessType /\ AuxType
  BY TypeParts
<1>2. ProcessType' /\ AuxType'
  BY <1>1, GoneTyped DEF Close, ProcessType, AuxType, aux, counts
<1>3. ASSUME NEW S, Synced(S)
      PROVE  /\ hdrDisk' \in [File -> SUBSET Header]
             /\ slotDisk' \in [File -> [Slot -> SUBSET Content]]
  BY <1>1, <1>3 DEF Synced, PagesType
<1>4. PagesType'
  BY <1>1, <1>3 DEF Close, PagesType
<1> QED
  BY <1>2, <1>4, TypeParts

LEMMA CrashTyped == ASSUME TypeOK, Crash \/ CrashInInitHeader PROVE TypeOK'
<1>1. PagesType /\ ProcessType /\ AuxType
  BY TypeParts
<1>2. CASE Crash
  <2>1. ProcessType'
    BY <1>1, <1>2, GoneTyped DEF Crash, ProcessType
  <2>2. AuxType' /\ PagesType'
    BY <1>1, <1>2 DEF Crash, LeftBehind, AuxType, PagesType, pages, counts, Exposures
  <2> QED
    BY <2>1, <2>2, TypeParts
<1>3. CASE CrashInInitHeader
  <2>1. next \in File
    BY <1>3 DEF CrashInInitHeader, NeedsRollover
  <2>2. ProcessType'
    BY <1>1, <1>3, <2>1, GoneTyped DEF CrashInInitHeader, ProcessType
  <2>3. PagesType'
    BY <1>1, <1>3, <2>1, Bounds, StoreHeaderTyped DEF CrashInInitHeader, PagesType
  <2>4. AuxType'
    BY <1>1, <1>3 DEF CrashInInitHeader, AuxType, aux, counts
  <2> QED
    BY <2>2, <2>3, <2>4, TypeParts
<1> QED
  BY <1>2, <1>3

\* What a crash of the machine may leave of the pages.
LEMMA OsCrashPages ==
  ASSUME TypeOK, OsCrash
  PROVE  /\ hdr' \in [File -> Header] /\ \A f \in File : hdr'[f] \in hdrDisk[f]
         /\ slot' \in [File -> [Slot -> Content]]
<1> DEFINE All == UNION {SlotsOnDisk(f) : f \in File}
<1>1. /\ slot' \in {s \in [File -> All] : \A f \in File : s[f] \in SlotsOnDisk(f)}
      /\ hdr' \in {h \in [File -> Header] : \A f \in File : h[f] \in hdrDisk[f]}
  BY DEF OsCrash
<1>2. \A f \in File : SlotsOnDisk(f) \subseteq [Slot -> Content]
  BY DEF SlotsOnDisk
<1> HIDE DEF All
<1>3. slot' \in [File -> All] /\ \A f \in File : slot'[f] \in SlotsOnDisk(f)
  BY <1>1
<1>4. slot' \in [File -> [Slot -> Content]]
  BY <1>2, <1>3
<1> QED
  BY <1>1, <1>4

LEMMA DamageTyped == ASSUME TypeOK, OsCrash \/ Corrupt PROVE TypeOK'
<1>1. PagesType /\ ProcessType /\ AuxType
  BY TypeParts
<1>2. CASE OsCrash
  <2>1. hdr' \in [File -> Header] /\ slot' \in [File -> [Slot -> Content]]
    BY <1>2, OsCrashPages
  <2>2. /\ hdrDisk' = [f \in File |-> {hdr'[f]}]
        /\ slotDisk' = [f \in File |-> [i \in Slot |-> {slot'[f][i]}]]
        /\ osCrashes < MaxOsCrash /\ osCrashes' = osCrashes + 1
        /\ UNCHANGED <<files, memory, pc, replay, hist, writes, corruptions>>
        /\ exposed' = exposed \cup {e \in {"stale"} : ShowsStale(hdr', slot')}
                              \cup {e \in {"sealed"} : LosesSealed(hdr', slot')}
    BY <1>2 DEF OsCrash
  <2>3. PagesType'
    BY <2>1, <2>2 DEF PagesType
  <2>4. ProcessType'
    BY <1>1, <2>2 DEF ProcessType, memory, replay
  <2>5. exposed' \subseteq Exposures /\ osCrashes' \in 0..MaxOsCrash
    <3>2. PICK stale, sealed : /\ exposed' = exposed \cup stale \cup sealed
                               /\ stale \subseteq {"stale"} /\ sealed \subseteq {"sealed"}
      BY <2>2
    <3>3. exposed' \subseteq Exposures
      BY <1>1, <3>2 DEF AuxType, Exposures
    <3>4. osCrashes' \in 0..MaxOsCrash
      BY <1>1, <2>2, Bounds DEF AuxType
    <3> QED
      BY <3>3, <3>4
  <2>6. AuxType'
    BY <1>1, <2>2, <2>5 DEF AuxType
  <2> QED
    BY <2>3, <2>4, <2>6, TypeParts
<1>3. CASE Corrupt
  <2>1. PICK f \in files : \E i \in 1..hdr[f] :
         /\ slot' = [slot EXCEPT ![f][i] = Torn]
         /\ slotDisk' = [slotDisk EXCEPT ![f][i] = {Torn}]
    BY <1>3 DEF Corrupt
  <2>2. PICK i \in 1..hdr[f] :
         /\ slot' = [slot EXCEPT ![f][i] = Torn]
         /\ slotDisk' = [slotDisk EXCEPT ![f][i] = {Torn}]
    BY <2>1
  <2>3. f \in File /\ i \in Slot
    BY <1>1, FilesAreNumbers DEF ProcessType, PagesType, Slot
  <2>4. slot' \in [File -> [Slot -> Content]]
    BY <1>1, <2>2, <2>3, Bounds DEF PagesType
  <2>5. slotDisk' \in [File -> [Slot -> SUBSET Content]]
    BY <1>1, <2>2, <2>3, Bounds DEF PagesType
  <2>6. ProcessType' /\ PagesType'
    BY <1>1, <1>3, <2>4, <2>5 DEF Corrupt, ProcessType, PagesType, memory, replay
  <2>7. AuxType'
    <3>1. /\ corruptions \in 0..MaxCorrupt /\ corruptions < MaxCorrupt
          /\ corruptions' = corruptions + 1
          /\ UNCHANGED <<hist, exposed, writes, osCrashes>>
      BY <1>1, <1>3 DEF Corrupt, AuxType, aux
    <3>2. corruptions' \in 0..MaxCorrupt
      BY <3>1, Bounds
    <3> QED
      BY <1>1, <3>1, <3>2 DEF AuxType
  <2> QED
    BY <2>6, <2>7, TypeParts
<1> QED
  BY <1>2, <1>3

LEMMA TypeNext == ASSUME TypeOK, Shape, [Next]_vars PROVE TypeOK'
<1>1. CASE UNCHANGED vars
  BY <1>1 DEF vars, pages, memory, replay, aux, counts, TypeOK
<1>2. CASE OpenRejected
  BY <1>1, <1>2 DEF OpenRejected
<1>3. CASE OpenSegments
  BY <1>3, OpenSegmentsTyped
<1>4. CASE RecoveryStep /\ ~OpenRejected /\ ~OpenSegments
  BY <1>4, ReplayTyped, DropTyped DEF RecoveryStep
<1>5. CASE Next /\ ~RecoveryStep
  BY <1>5, AppendTyped, RolloverTyped, CloseTyped, CrashTyped, DamageTyped DEF Next
<1> QED
  BY <1>1, <1>2, <1>3, <1>4, <1>5

-----------------------------------------------------------------------------
(***************************************************************************)
(* The files, the mapped segments and the state of a recovery keep fitting *)
(* together.                                                               *)
(***************************************************************************)

\* The part of Shape about files alone.
FilesShape ==
  /\ segs \subseteq files
  /\ \A f \in File \ files : hdr[f] = Zeroed /\ hdrDisk[f] = {Zeroed}

\* The part about the process.
ProcessShape ==
  /\ pc # "drop" => todo = {}
  /\ policy = "none" <=> pc \in {"closed", "idle"}
  /\ pc \in {"closed", "idle"} => applied = <<>>
  /\ pc = "drop" => policy # "strict"
  /\ pc # "closed" => next = active + 1 /\ \A f \in segs : hdr[f] \in Nat
  /\ pc \in {"replay", "idle"} => active \in segs /\ \A f \in segs : f <= active
  /\ pc \in {"replay", "drop"} => cursor[1] \in segs
  /\ pc = "replay" => files = segs /\ cursor[2] <= hdr[cursor[1]] + 1
  /\ pc = "drop" => todo = {f \in segs : cursor[1] < f}

LEMMA ShapeParts == /\ Shape <=> FilesShape /\ ProcessShape
                    /\ Shape' <=> FilesShape' /\ ProcessShape'
BY DEF Shape, FilesShape, ProcessShape

LEMMA GoneShape == ASSUME Gone PROVE ProcessShape' /\ segs' = {}
BY DEF Gone, ProcessShape

LEMMA ShapeInit == Init => Shape
BY DEF Init, Shape

\* A header that can be opened is a number of records once it is.
LEMMA OpenedHeader ==
  ASSUME TypeOK, NEW S \in SUBSET File
  PROVE  /\ \A f \in S : hdr[f] # Partial => Opened(S)[f] \in Nat
         /\ \A f \in File \ S : /\ Opened(S)[f] = hdr[f]
                                /\ OpenedDisk(S)[f] = hdrDisk[f]
         /\ \A f \in File : hdr[f] # Zeroed => Opened(S)[f] = hdr[f]
         /\ \A f \in S : hdr[f] = Zeroed => Opened(S)[f] = 0
<1>1. \A f \in File : hdr[f] \in Header
  BY DEF TypeOK
<1> QED
  BY <1>1, FilesAreNumbers DEF Opened, OpenedDisk, Header, Zeroed, Partial

LEMMA OpenSegmentsShape == ASSUME TypeOK, Shape, OpenSegments PROVE Shape'
<1> DEFINE S == SegmentsToOpen
<1>1. S \in SUBSET File /\ S # {} /\ files \subseteq S
  BY Bounds DEF SegmentsToOpen, TypeOK
<1>2. \A f \in S : hdr[f] # Partial
  <2>1. Zeroed # Partial
    BY DEF Zeroed, Partial
  <2> QED
    BY <2>1, Bounds DEF OpenSegments, SegmentsToOpen, Shape, TypeOK
<1>3. /\ Largest(S) \in S /\ Smallest(S) \in S /\ \A f \in S : f <= Largest(S)
  BY <1>1, ExtremeFiles
<1>4. /\ files' = S /\ segs' = S /\ active' = Largest(S) /\ next' = active' + 1
      /\ policy' \in Policies /\ cursor' = <<Smallest(S), 1>>
      /\ pc' = "replay" /\ todo' = todo /\ applied' = applied
      /\ hdr' = Opened(S) /\ hdrDisk' = OpenedDisk(S) /\ pc = "closed"
  BY DEF OpenSegments
<1> HIDE DEF S
<1>5. \A f \in S : hdr'[f] \in Nat
  BY <1>1, <1>2, <1>4, OpenedHeader
<1>6. FilesShape'
  BY <1>1, <1>4, OpenedHeader DEF Shape, FilesShape
<1>7. cursor'[2] <= hdr'[cursor'[1]] + 1
  BY <1>3, <1>4, <1>5
<1>8. ProcessShape'
  BY <1>3, <1>4, <1>5, <1>7, FilesAreNumbers DEF Shape, ProcessShape
<1> QED
  BY <1>6, <1>8, ShapeParts

LEMMA ReplayShape ==
  ASSUME TypeOK, Shape,
         ReplayRecord \/ ReplayNextSegment \/ ReplayBadRecord \/ ReplayDone
  PROVE  Shape'
<1>1. FilesShape /\ ProcessShape
  BY ShapeParts
<1>2. CASE ReplayRecord
  <2>1. cursor'[1] = cursor[1] /\ cursor'[2] <= hdr[cursor[1]] + 1
    BY <1>2, CursorType DEF ReplayRecord, InUse
  <2> QED
    BY <1>1, <1>2, <2>1, ShapeParts DEF ReplayRecord, FilesShape, ProcessShape, pages, memory
<1>3. CASE ReplayNextSegment
  <2>1. LaterSegments \in SUBSET File /\ LaterSegments # {} /\ LaterSegments \subseteq segs
    BY <1>3 DEF ReplayNextSegment, LaterSegments, TypeOK
  <2>2. cursor'[1] \in segs /\ cursor'[2] = 1
    BY <1>3, <2>1, ExtremeFiles DEF ReplayNextSegment
  <2>3. hdr[cursor'[1]] \in Nat
    BY <1>1, <1>3, <2>2 DEF ReplayNextSegment, ProcessShape
  <2> QED
    BY <1>1, <1>3, <2>2, <2>3, ShapeParts
       DEF ReplayNextSegment, FilesShape, ProcessShape, pages, memory
<1>4. CASE ReplayBadRecord /\ Refuses
  BY <1>1, <1>4, GoneShape, ShapeParts DEF ReplayBadRecord, FilesShape
<1>5. CASE ReplayBadRecord /\ ~Refuses
  <2>1. /\ TruncateAndDrop /\ InUse /\ pc = "replay" /\ policy # "strict"
        /\ files' = files
    BY <1>5 DEF ReplayBadRecord, Refuses
  <2>2. /\ segs' = segs /\ active' = active /\ next' = next /\ policy' = policy
        /\ cursor' = cursor /\ applied' = applied /\ pc' = "drop"
        /\ todo' = {f \in segs : cursor[1] < f}
        /\ hdr' = [hdr EXCEPT ![cursor[1]] = cursor[2] - 1]
        /\ hdrDisk' = [hdrDisk EXCEPT ![cursor[1]] = @ \cup {cursor[2] - 1}]
    BY <2>1 DEF TruncateAndDrop, Truncate, StoreHeader, LaterSegments
  <2>3. cursor[2] - 1 \in Nat /\ cursor[1] \in segs /\ segs \subseteq files
    BY <1>1, <2>1, CursorType DEF ProcessShape, FilesShape
  <2>4. hdr \in [File -> Header] /\ hdrDisk \in [File -> SUBSET Header] /\ segs \subseteq File
    BY DEF TypeOK
  <2>5. FilesShape'
    BY <1>1, <2>1, <2>2, <2>3, <2>4 DEF FilesShape
  <2>6. \A f \in segs : hdr'[f] \in Nat
    BY <1>1, <2>1, <2>2, <2>3, <2>4 DEF ProcessShape
  <2>7. ProcessShape'
    BY <1>1, <2>1, <2>2, <2>3, <2>6 DEF ProcessShape
  <2> QED
    BY <2>5, <2>7, ShapeParts
<1>6. CASE ReplayDone
  BY <1>1, <1>6, ShapeParts DEF ReplayDone, Serve, FilesShape, ProcessShape, pages, memory
<1> QED
  BY <1>2, <1>3, <1>4, <1>5, <1>6

LEMMA DropShape ==
  ASSUME TypeOK, Shape, DropSegment \/ DropFails \/ DropDone PROVE Shape'
<1>1. FilesShape /\ ProcessShape
  BY ShapeParts
<1>2. CASE DropSegment
  <2>f. PICK f : f = Smallest(todo)
    OBVIOUS
  <2>1. f \in File /\ f \in todo /\ pc = "drop"
    BY <1>2, <2>f, ExtremeFiles DEF DropSegment, TypeOK
  <2>2. /\ files' = files \ {f} /\ segs' = segs \ {f} /\ pc' = pc
        /\ todo' = todo \ {f} /\ UNCHANGED <<active, next, policy, cursor, applied>>
        /\ hdr' = [hdr EXCEPT ![f] = Zeroed]
        /\ hdrDisk' = [hdrDisk EXCEPT ![f] = {Zeroed}]
    BY <1>2, <2>f DEF DropSegment
  <2>3. FilesShape'
    BY <1>1, <2>1, <2>2 DEF FilesShape, TypeOK
  <2>4. \A g \in segs' : hdr'[g] = hdr[g] /\ hdr[g] \in Nat
    BY <1>1, <2>1, <2>2 DEF ProcessShape, TypeOK
  <2>5. cursor[1] # f
    BY <1>1, <2>1, CursorType DEF ProcessShape
  <2>6. ProcessShape'
    BY <1>1, <2>1, <2>2, <2>4, <2>5 DEF ProcessShape
  <2> QED
    BY <2>3, <2>6, ShapeParts
<1>3. CASE DropFails
  <2>f. PICK f : f = Smallest(todo)
    OBVIOUS
  <2>1. f \in File /\ f \in todo /\ pc = "drop"
    BY <1>3, <2>f, ExtremeFiles DEF DropFails, TypeOK
  <2>2. /\ files' = files /\ segs' = segs \ {f} /\ pc' = pc
        /\ todo' = todo \ {f} /\ UNCHANGED <<active, next, policy, cursor, applied>>
        /\ hdr' = hdr /\ hdrDisk' = hdrDisk
    BY <1>3, <2>f DEF DropFails, pages
  <2>3. cursor[1] # f
    BY <1>1, <2>1, CursorType DEF ProcessShape
  <2> QED
    BY <1>1, <2>1, <2>2, <2>3, ShapeParts DEF FilesShape, ProcessShape
<1>4. CASE DropDone
  <2>1. /\ pc = "drop" /\ todo = {} /\ todo' = todo /\ active' = cursor[1]
        /\ next' = cursor[1] + 1 /\ segs' = segs /\ files' = files
        /\ hdr' = hdr /\ hdrDisk' = hdrDisk /\ pc' = "idle" /\ policy' = "none"
        /\ applied' = <<>>
    BY <1>4 DEF DropDone, Serve, pages
  <2>2. \A f \in segs : f \in Nat /\ cursor[1] \in Nat
    BY CursorType, FilesAreNumbers DEF TypeOK
  <2>3. \A f \in segs : f <= cursor[1]
    BY <1>1, <2>1, <2>2 DEF ProcessShape
  <2> QED
    BY <1>1, <2>1, <2>3, ShapeParts DEF FilesShape, ProcessShape
<1> QED
  BY <1>2, <1>3, <1>4

LEMMA UseShape ==
  ASSUME TypeOK, Shape, AppendRecord \/ Rollover \/ RolloverFails \/ Close
  PROVE  Shape'
<1>1. FilesShape /\ ProcessShape
  BY ShapeParts
<1>2. CASE AppendRecord
  <2>1. /\ active \in segs /\ active \in File /\ hdr[active] + 1 \in Nat
        /\ hdr' = [hdr EXCEPT ![active] = hdr[active] + 1]
        /\ hdrDisk' = [hdrDisk EXCEPT ![active] = @ \cup {hdr[active] + 1}]
    BY <1>1, <1>2 DEF AppendRecord, StoreHeader, ProcessShape, TypeOK
  <2>2. FilesShape'
    BY <1>1, <1>2, <2>1 DEF AppendRecord, FilesShape, TypeOK
  <2>3. ProcessShape'
    BY <1>1, <1>2, <2>1 DEF AppendRecord, ProcessShape, replay, TypeOK
  <2> QED
    BY <2>2, <2>3, ShapeParts
<1>3. CASE Rollover
  <2>1. /\ next \in File /\ hdr[next] # Partial /\ next = active + 1 /\ pc = "idle"
        /\ active \in Nat
    BY <1>1, <1>3, FilesAreNumbers DEF Rollover, NeedsRollover, ProcessShape, TypeOK
  <2>2. /\ files' = files \cup {next} /\ segs' = segs \cup {next}
        /\ active' = next /\ next' = next + 1 /\ pc' = pc
        /\ hdr' = Opened({next}) /\ hdrDisk' = OpenedDisk({next})
        /\ UNCHANGED <<policy, cursor, todo, applied>>
    BY <1>3 DEF Rollover, replay
  <2>3. \A f \in segs' : hdr'[f] \in Nat
    <3>1. \A f \in segs : f \in File /\ hdr[f] \in Nat
      BY <1>1, <2>1 DEF ProcessShape, TypeOK
    <3>2. \A f \in segs \ {next} : Opened({next})[f] \in Nat
      BY <2>1, <3>1, OpenedHeader
    <3>3. Opened({next})[next] \in Nat
      BY <2>1, OpenedHeader
    <3> QED
      BY <2>2, <3>2, <3>3
  <2>4. \A f \in segs' : f <= active'
    BY <1>1, <2>1, <2>2, FilesAreNumbers DEF ProcessShape, TypeOK
  <2>5. FilesShape'
    BY <1>1, <2>1, <2>2, OpenedHeader DEF FilesShape
  <2>6. ProcessShape'
    BY <1>1, <2>1, <2>2, <2>3, <2>4 DEF ProcessShape
  <2> QED
    BY <2>5, <2>6, ShapeParts
<1>4. CASE RolloverFails
  BY <1>1, <1>4, ShapeParts
     DEF RolloverFails, NeedsRollover, FilesShape, ProcessShape, pages, memory, replay
<1>5. CASE Close
  <2>1. ASSUME NEW S \in SUBSET dirty, Synced(S)
        PROVE  \A f \in File \ files : hdrDisk'[f] = hdrDisk[f]
    BY <1>1, <2>1 DEF Synced, FilesShape, TypeOK
  <2>2. \A f \in File \ files : hdrDisk'[f] = hdrDisk[f]
    BY <1>5, <2>1 DEF Close
  <2>3. FilesShape'
    BY <1>1, <1>5, <2>2, GoneShape DEF Close, FilesShape
  <2> QED
    BY <1>5, <2>3, GoneShape, ShapeParts DEF Close
<1> QED
  BY <1>2, <1>3, <1>4, <1>5

LEMMA FaultShape ==
  ASSUME TypeOK, Shape, Crash \/ CrashInInitHeader \/ OsCrash \/ Corrupt PROVE Shape'
<1>1. FilesShape /\ ProcessShape
  BY ShapeParts
<1>2. CASE Crash
  BY <1>1, <1>2, GoneShape, ShapeParts DEF Crash, FilesShape, pages
<1>3. CASE CrashInInitHeader
  <2>1. next \in File /\ files' = files \cup {next} /\ StoreHeader(next, Partial) /\ Gone
    BY <1>3 DEF CrashInInitHeader, NeedsRollover
  <2>2. FilesShape'
    BY <1>1, <2>1, GoneShape DEF StoreHeader, FilesShape, TypeOK
  <2> QED
    BY <2>1, <2>2, GoneShape, ShapeParts
<1>4. CASE OsCrash
  <2>1. \A f \in File : hdr'[f] \in hdrDisk[f]
    BY <1>4, OsCrashPages
  <2>2. /\ hdrDisk' = [f \in File |-> {hdr'[f]}] /\ pc = "closed"
        /\ UNCHANGED <<files, memory, pc, replay>>
    BY <1>4 DEF OsCrash
  <2>3. FilesShape'
    BY <1>1, <2>1, <2>2 DEF FilesShape, memory
  <2>4. ProcessShape'
    BY <1>1, <2>2 DEF ProcessShape, memory, replay
  <2> QED
    BY <2>3, <2>4, ShapeParts
<1>5. CASE Corrupt
  BY <1>1, <1>5, ShapeParts DEF Corrupt, FilesShape, ProcessShape, memory, replay
<1> QED
  BY <1>2, <1>3, <1>4, <1>5

LEMMA ShapeNext == ASSUME TypeOK, Shape, [Next]_vars PROVE Shape'
<1>1. CASE UNCHANGED vars
  BY <1>1 DEF vars, pages, memory, replay, Shape
<1>2. CASE OpenRejected
  BY <1>1, <1>2 DEF OpenRejected
<1>3. CASE RecoveryStep /\ ~OpenRejected
  BY <1>3, OpenSegmentsShape, ReplayShape, DropShape DEF RecoveryStep
<1>4. CASE Next /\ ~RecoveryStep
  BY <1>4, UseShape, FaultShape DEF Next
<1> QED
  BY <1>1, <1>2, <1>3, <1>4

-----------------------------------------------------------------------------
(***************************************************************************)
(* What a replay has applied is what it has passed.                        *)
(***************************************************************************)

\* Positions below headers h, whatever h is.
LEMMA PositionsWith ==
  /\ \A S : \A p : p \in Positions(S)
                     <=> p \in S \X Slot /\ p[2] <= hdr[p[1]]
  /\ \A S : \A p : p \in Positions(S)'
                     <=> p \in S \X Slot /\ p[2] <= hdr'[p[1]]
  /\ \A p : p \in Passed
              <=> p \in Positions(segs) /\ Precedes(p, cursor)
  /\ \A p : p \in Passed'
              <=> p \in Positions(segs)' /\ Precedes(p, cursor')
BY DEF Positions, Passed, Precedes

LEMMA PositionsInPos ==
  ASSUME NEW S \in SUBSET File
  PROVE  Positions(S) \in SUBSET Pos /\ Positions(S)' \in SUBSET Pos
BY DEF Positions, Pos

\* The positions below headers h.
At(S, h) == {p \in S \X Slot : p[2] <= h[p[1]]}

LEMMA PositionsAt ==
  /\ \A S : Positions(S) = At(S, hdr) /\ Positions(S)' = At(S, hdr')
  /\ Positions(segs)' = At(segs', hdr')
  /\ Positions(files)' = At(files', hdr')
  /\ Positions(segs \ todo)' = At(segs' \ todo', hdr')
  /\ Positions(Kept)' = At(files' \ todo', hdr')
BY DEF Positions, At, Kept

LEMMA AtMember ==
  ASSUME NEW S \in SUBSET File, NEW h
  PROVE  /\ At(S, h) \in SUBSET Pos
         /\ \A p \in Pos : p \in At(S, h) <=> p[1] \in S /\ p[2] <= h[p[1]]
         /\ \A p \in At(S, h) : p[1] \in S /\ p[2] <= h[p[1]]
BY DEF At, Pos

\* Only the headers of the files in S count.
LEMMA AtAlike ==
  ASSUME NEW S, NEW h, NEW k, \A f \in S : h[f] = k[f]
  PROVE  At(S, h) = At(S, k)
BY DEF At

\* When every segment is passed, and one is not passed in part, the positions
\* passed are all positions of the segments that are not later.
LEMMA PassedAll ==
  ASSUME TypeOK, Shape, pc = "replay", ~InUse
  PROVE  Passed = {p \in Positions(segs) : p[1] <= cursor[1]}
<1>1. /\ segs \in SUBSET File /\ cursor[1] \in Nat /\ cursor[2] \in Nat
      /\ hdr[cursor[1]] \in Int /\ ~ cursor[2] <= hdr[cursor[1]]
  BY CursorType, FilesAreNumbers DEF TypeOK, InUse
<1>2. ASSUME NEW p \in Positions(segs)
      PROVE  Precedes(p, cursor) <=> p[1] <= cursor[1]
  <2>1. p \in Pos /\ p[2] <= hdr[p[1]] /\ p[1] \in Nat /\ p[2] \in Nat
    BY <1>1, PositionsWith, PositionsInPos, PosType
  <2>2. p[1] = cursor[1] => p[2] < cursor[2]
    BY <1>1, <2>1
  <2> QED
    BY <1>1, <2>1, <2>2 DEF Precedes
<1> QED
  BY <1>2, PositionsWith

LEMMA OpenSegmentsApplies ==
  ASSUME TypeOK, Shape, OpenSegments PROVE ReplayOK'
<1>1. SegmentsToOpen \in SUBSET File /\ SegmentsToOpen # {}
  BY Bounds DEF SegmentsToOpen, TypeOK
<1>2. /\ \A f \in SegmentsToOpen : Smallest(SegmentsToOpen) <= f
      /\ Smallest(SegmentsToOpen) \in Nat
  BY <1>1, ExtremeFiles, FilesAreNumbers
<1>3. /\ segs' = SegmentsToOpen /\ cursor' = <<Smallest(SegmentsToOpen), 1>>
      /\ pc' = "replay" /\ applied' = <<>>
  BY DEF OpenSegments, Shape
<1>4. Passed' = {}
  <2>1. SUFFICES ASSUME NEW p \in Passed' PROVE FALSE
    OBVIOUS
  <2>2. p \in Positions(segs)' /\ Precedes(p, cursor')
    BY PositionsWith
  <2>3. p \in Pos /\ p[1] \in SegmentsToOpen
    BY <1>1, <1>3, <2>2, PositionsWith, PositionsInPos
  <2>4. p[1] \in Nat /\ p[2] \in Nat /\ p[2] # 0
    BY <2>3, PosType, FilesAreNumbers
  <2> QED
    BY <1>2, <1>3, <2>2, <2>3, <2>4 DEF Precedes
<1> QED
  BY <1>3, <1>4, SpellsNothing DEF ReplayOK

LEMMA ReplayRecordApplies ==
  ASSUME TypeOK, Shape, ReplayOK, ReplayRecord PROVE ReplayOK'
<1>1. /\ pc = "replay" /\ pc' = "replay" /\ InUse /\ RecordAtCursor \in Written
      /\ applied' = Append(applied, RecordAtCursor)
      /\ cursor' = <<cursor[1], cursor[2] + 1>>
      /\ segs' = segs /\ hdr' = hdr /\ slot' = slot
  BY DEF ReplayRecord, pages, memory
<1>2. /\ cursor \in Pos /\ cursor[1] \in Nat /\ cursor[2] \in Nat /\ cursor[1] \in segs
      /\ cursor = <<cursor[1], cursor[2]>>
  BY <1>1, CursorType DEF Pos, Shape
<1>3. segs \in SUBSET File /\ applied \in Seq(Written)
  BY DEF TypeOK
<1>4. Passed \in SUBSET Pos /\ \A p \in Passed : Precedes(p, cursor)
  BY <1>3, PositionsWith, PositionsInPos
<1>5. cursor \in Positions(segs)
  BY <1>1, <1>2, PosType, PositionsWith DEF InUse
<1>6. Passed' = Passed \cup {cursor}
  <2>1. Positions(segs)' = Positions(segs)
    BY <1>1 DEF Positions
  <2>2. ASSUME NEW p \in Positions(segs)
        PROVE  Precedes(p, cursor') <=> Precedes(p, cursor) \/ p = cursor
    <3>1. p = <<p[1], p[2]>> /\ p[1] \in Nat /\ p[2] \in Nat
      BY <1>3, PositionsInPos, PosType
    <3> QED
      BY <1>1, <1>2, <3>1 DEF Precedes
  <2> QED
    BY <1>5, <2>1, <2>2, PositionsWith
<1>7. Spells(applied, Passed, slot)
  BY <1>1 DEF ReplayOK
<1>c. PICK c : c = cursor
  OBVIOUS
<1>8. Spells(Append(applied, RecordAtCursor), Passed \cup {c}, slot)
  BY <1>1, <1>2, <1>3, <1>4, <1>7, <1>c, SpellsMore DEF RecordAtCursor
<1>9. Spells(applied', Passed', slot')
  BY <1>1, <1>6, <1>8, <1>c
<1> QED
  BY <1>1, <1>9 DEF ReplayOK

LEMMA ReplayNextApplies ==
  ASSUME TypeOK, Shape, ReplayOK, ReplayNextSegment PROVE ReplayOK'
<1>1. /\ pc = "replay" /\ pc' = "replay" /\ ~InUse /\ LaterSegments # {}
      /\ cursor' = <<Smallest(LaterSegments), 1>>
      /\ segs' = segs /\ hdr' = hdr /\ slot' = slot /\ applied' = applied
  BY DEF ReplayNextSegment, pages, memory
<1>2. /\ segs \in SUBSET File /\ LaterSegments \in SUBSET File
      /\ LaterSegments = {f \in segs : cursor[1] < f} /\ cursor[1] \in Nat
  BY CursorType DEF TypeOK, LaterSegments
<1>3. /\ Smallest(LaterSegments) \in LaterSegments
      /\ \A f \in LaterSegments : Smallest(LaterSegments) <= f
      /\ Smallest(LaterSegments) \in Nat
  BY <1>1, <1>2, ExtremeFiles, FilesAreNumbers
<1>4. Passed' = Passed
  <2>1. Positions(segs)' = Positions(segs)
    BY <1>1 DEF Positions
  <2>2. ASSUME NEW p \in Positions(segs)
        PROVE  Precedes(p, cursor') <=> p[1] <= cursor[1]
    <3>1. p[1] \in Nat /\ p[2] \in Nat /\ p[2] # 0 /\ p[1] \in segs
      BY <1>2, PositionsInPos, PosType, PositionsWith, FilesAreNumbers
    <3>2. cursor'[1] = Smallest(LaterSegments) /\ cursor'[2] = 1
      BY <1>1
    <3>3. Precedes(p, cursor') <=> p[1] < Smallest(LaterSegments)
      BY <1>3, <3>1, <3>2 DEF Precedes
    <3>4. p[1] <= cursor[1] => p[1] < Smallest(LaterSegments)
      BY <1>2, <1>3, <3>1
    <3>5. p[1] > cursor[1] => ~ (p[1] < Smallest(LaterSegments))
      BY <1>2, <1>3, <3>1
    <3> QED
      BY <1>2, <3>1, <3>3, <3>4, <3>5
  <2> QED
    BY <1>1, <2>1, <2>2, PositionsWith, PassedAll
<1>5. Spells(applied', Passed', slot')
  BY <1>1, <1>4 DEF ReplayOK
<1> QED
  BY <1>1, <1>5 DEF ReplayOK

\* The truncated log is what was passed.
LEMMA TruncateApplies ==
  ASSUME TypeOK, Shape, ReplayBadRecord, ~Refuses
  PROVE  /\ pc = "replay" /\ pc' = "drop" /\ files' = files /\ segs' = segs
         /\ Positions(segs \ todo)' = Passed
         /\ slot' = slot /\ applied' = applied
         /\ todo' \subseteq segs
<1>1. /\ TruncateAndDrop /\ InUse /\ pc = "replay" /\ files' = files /\ slot' = slot
  BY DEF ReplayBadRecord
<1>2. /\ segs' = segs /\ cursor' = cursor /\ applied' = applied /\ pc' = "drop"
      /\ todo' = {f \in segs : cursor[1] < f}
      /\ hdr' = [hdr EXCEPT ![cursor[1]] = cursor[2] - 1]
  BY <1>1 DEF TruncateAndDrop, Truncate, StoreHeader, LaterSegments
<1>3. /\ segs \in SUBSET File /\ hdr \in [File -> Header]
      /\ cursor[1] \in File /\ cursor[1] \in Nat /\ cursor[2] \in Nat
      /\ cursor[2] <= hdr[cursor[1]] /\ hdr[cursor[1]] \in Nat
  BY <1>1, CursorType DEF TypeOK, InUse
<1>S. PICK S : S = {f \in segs : f <= cursor[1]}
  OBVIOUS
<1>h. PICK h : h = hdr'
  OBVIOUS
<1>4. segs' \ todo' = S /\ S \in SUBSET File
  <2>1. \A f \in segs : f \in Nat
    BY <1>3, FilesAreNumbers
  <2> QED
    BY <1>2, <1>3, <1>S, <2>1
<1>5. Positions(segs \ todo)' = At(S, h)
  BY <1>4, <1>h, PositionsAt
<1>6. ASSUME NEW p \in Pos
      PROVE  p \in At(S, h) <=> p \in Passed
  <2>1. p[1] \in Nat /\ p[2] \in Nat /\ p \in File \X Slot /\ p[1] \in File
    BY PosType DEF Pos
  <2>2. p \in At(S, h) <=> p[1] \in segs /\ p[1] <= cursor[1] /\ p[2] <= h[p[1]]
    BY <1>4, <1>S, AtMember
  <2>3. p \in Passed <=> p[1] \in segs /\ p[2] <= hdr[p[1]] /\ Precedes(p, cursor)
    BY <2>1, PosType, PositionsWith DEF Pos
  <2>4. h[p[1]] = IF p[1] = cursor[1] THEN cursor[2] - 1 ELSE hdr[p[1]]
    BY <1>2, <1>3, <1>h, <2>1
  <2>5. CASE p[1] = cursor[1]
    <3>1. p[2] <= cursor[2] - 1 <=> p[2] < cursor[2] /\ p[2] <= hdr[p[1]]
      BY <1>3, <2>1, <2>5
    <3> QED
      BY <1>3, <2>1, <2>2, <2>3, <2>4, <2>5, <3>1 DEF Precedes
  <2>6. CASE p[1] # cursor[1]
    BY <1>3, <2>1, <2>2, <2>3, <2>4, <2>6 DEF Precedes
  <2> QED
    BY <2>5, <2>6
<1>7. At(S, h) \in SUBSET Pos /\ Passed \in SUBSET Pos
  BY <1>3, <1>4, AtMember, PositionsInPos, PositionsWith
<1>8. Positions(segs \ todo)' = Passed
  BY <1>5, <1>6, <1>7
<1> QED
  BY <1>1, <1>2, <1>8

LEMMA ReplayOKNext ==
  ASSUME TypeOK, Shape, ReplayOK, [Next]_vars PROVE ReplayOK'
<1>1. CASE UNCHANGED vars
  BY <1>1 DEF vars, pages, memory, replay, ReplayOK, Passed, Positions
<1>2. ASSUME pc' \in {"closed", "idle"} PROVE ReplayOK'
  BY <1>2 DEF ReplayOK
<1>3. CASE OpenRejected
  BY <1>1, <1>3 DEF OpenRejected
<1>4. CASE ReplayBadRecord
  <2>1. CASE Refuses
    BY <1>2, <1>4, <2>1 DEF ReplayBadRecord, Gone
  <2>2. CASE ~Refuses
    <3>1. /\ pc = "replay" /\ pc' = "drop" /\ Positions(segs \ todo)' = Passed
          /\ slot' = slot /\ applied' = applied
      BY <1>4, <2>2, TruncateApplies
    <3>2. Spells(applied, Passed, slot)
      BY <3>1 DEF ReplayOK
    <3>3. Spells(applied', Positions(segs \ todo)', slot')
      BY <3>1, <3>2
    <3> QED
      BY <3>1, <3>3 DEF ReplayOK
  <2> QED
    BY <2>1, <2>2
<1>5. CASE DropSegment \/ DropFails
  <2>f. PICK f : f = Smallest(todo)
    OBVIOUS
  <2>1. f \in todo /\ f \in File /\ pc = "drop" /\ pc' = "drop" /\ todo \subseteq segs
    BY <1>5, <2>f, ExtremeFiles DEF DropSegment, DropFails, TypeOK, Shape
  <2>2. /\ segs' = segs \ {f} /\ todo' = todo \ {f} /\ applied' = applied
        /\ hdr' = hdr \/ hdr' = [hdr EXCEPT ![f] = Zeroed]
        /\ slot' = slot \/ slot' = [slot EXCEPT ![f] = [i \in Slot |-> Blank]]
    BY <1>5, <2>f DEF DropSegment, DropFails, pages
  <2>3. segs' \ todo' = segs \ todo /\ f \notin segs \ todo
    BY <2>1, <2>2
  <2>4. \A g \in segs \ todo : hdr'[g] = hdr[g] /\ slot'[g] = slot[g]
    BY <2>2, <2>3 DEF TypeOK
  <2>5. Positions(segs \ todo)' = Positions(segs \ todo)
    BY <2>3, <2>4 DEF Positions
  <2>6. \A p \in Positions(segs \ todo) : slot'[p[1]][p[2]] = slot[p[1]][p[2]]
    BY <2>4 DEF Positions
  <2>7. Spells(applied, Positions(segs \ todo), slot)
    BY <2>1 DEF ReplayOK
  <2>8. Spells(applied, Positions(segs \ todo), slot')
    BY <2>6, <2>7 DEF Spells
  <2>9. Spells(applied', Positions(segs \ todo)', slot')
    BY <2>2, <2>5, <2>8
  <2> QED
    BY <2>1, <2>9 DEF ReplayOK
<1>6. CASE ReplayDone \/ DropDone \/ Close \/ Crash \/ CrashInInitHeader
  BY <1>2, <1>6 DEF ReplayDone, DropDone, Serve, Close, Crash, CrashInInitHeader, Gone
<1>7. CASE AppendRecord \/ Rollover \/ RolloverFails \/ OsCrash \/ Corrupt
  BY <1>2, <1>7
     DEF AppendRecord, Rollover, RolloverFails, NeedsRollover, OsCrash, Corrupt
<1> QED
  BY <1>1, <1>3, <1>4, <1>5, <1>6, <1>7, OpenSegmentsApplies, ReplayRecordApplies,
     ReplayNextApplies DEF Next, RecoveryStep

-----------------------------------------------------------------------------
(***************************************************************************)
(* An open log stores its history, and nothing else is left to be opened.  *)
(***************************************************************************)

LEMMA ExposedGrows == ASSUME [Next]_vars PROVE exposed \subseteq exposed'
<1>1. CASE UNCHANGED vars
  BY <1>1 DEF vars, aux
<1>2. CASE OpenRejected
  BY <1>1, <1>2 DEF OpenRejected
<1>3. CASE RecoveryStep /\ ~OpenRejected
  BY <1>3 DEF RecoveryStep, OpenSegments, ReplayRecord, ReplayNextSegment,
     ReplayBadRecord, ReplayDone, DropSegment, DropFails, DropDone, Serve, aux
<1>4. CASE Next /\ ~RecoveryStep
  BY <1>4 DEF Next, AppendRecord, Rollover, RolloverFails, Close, Crash,
     CrashInInitHeader, OsCrash, Corrupt, aux
<1> QED
  BY <1>1, <1>2, <1>3, <1>4

\* The end of a replay or of a drop: what was applied is what is stored.
LEMMA DoneServes ==
  ASSUME TypeOK, Shape, ReplayOK, NothingLeft, ReplayDone \/ DropDone
  PROVE  /\ Spells(applied, Positions(segs), slot)
         /\ "leftover" \notin exposed => files = segs
         /\ todo = {} /\ hist' = applied /\ applied' = <<>> /\ pc' = "idle"
         /\ UNCHANGED <<files, segs, todo, hdr, slot, exposed, corruptions, osCrashes>>
<1>1. /\ hist' = applied /\ applied' = <<>> /\ pc' = "idle"
      /\ UNCHANGED <<files, segs, todo, hdr, slot, exposed, corruptions, osCrashes>>
  BY DEF ReplayDone, DropDone, Serve, pages, memory, counts
<1>2. CASE ReplayDone
  <2>1. pc = "replay" /\ ~InUse /\ LaterSegments = {}
    BY <1>2 DEF ReplayDone
  <2>2. Spells(applied, Passed, slot) /\ files = segs /\ todo = {}
    BY <2>1 DEF ReplayOK, Shape
  <2>3. Passed = Positions(segs)
    <3>1. segs \in SUBSET File /\ cursor[1] \in Nat /\ \A f \in segs : f \in Nat
      BY CursorType, FilesAreNumbers DEF TypeOK
    <3>2. \A f \in segs : f <= cursor[1]
      BY <2>1, <3>1 DEF LaterSegments
    <3>3. \A p \in Positions(segs) : p[1] \in segs
      BY <3>1, PositionsType
    <3> QED
      BY <2>1, <3>2, <3>3, PassedAll
  <2> QED
    BY <1>1, <2>2, <2>3
<1>3. CASE DropDone
  <2>1. pc = "drop" /\ todo = {}
    BY <1>3 DEF DropDone
  <2>2. Spells(applied, Positions(segs \ todo), slot) /\ segs \ todo = segs
    BY <2>1 DEF ReplayOK
  <2>3. "leftover" \notin exposed => files = segs
    BY <2>1 DEF NothingLeft
  <2> QED
    BY <1>1, <2>1, <2>2, <2>3
<1> QED
  BY <1>2, <1>3

\* One more record in the active segment, the last of the files in F.
LEMMA AppendSpells ==
  ASSUME TypeOK, Shape, AppendRecord, NEW F \in SUBSET File,
         active \in F, \A f \in F : f <= active,
         Spells(hist, At(F, hdr), slot)
  PROVE  Spells(hist', At(F, hdr'), slot')
<1>1. /\ active \in File /\ active \in Nat /\ hdr[active] \in Nat
      /\ hdr[active] < Capacity /\ hdr \in [File -> Header] /\ hist \in Seq(Written)
      /\ slot \in [File -> [Slot -> Content]]
  BY FilesAreNumbers DEF AppendRecord, HasRoom, Shape, TypeOK
<1>2. /\ hdr' = [hdr EXCEPT ![active] = hdr[active] + 1]
      /\ slot' = [slot EXCEPT ![active][hdr[active] + 1] = writes + 1]
      /\ hist' = Append(hist, writes + 1) /\ writes + 1 \in Written
  BY Bounds DEF AppendRecord, StoreHeader, StoreSlot, TypeOK, Written
<1>x. PICK x : x = <<active, hdr[active] + 1>>
  OBVIOUS
<1>3. x \in Pos /\ x[1] = active /\ x[2] = hdr[active] + 1 /\ x[2] \in Slot
  BY <1>1, <1>x, FilesAreNumbers DEF Pos, Slot
<1>P. PICK P : P = At(F, hdr)
  OBVIOUS
<1>4. P \in SUBSET Pos /\ \A p \in P : p[1] \in F /\ p[2] <= hdr[p[1]]
  BY <1>P, AtMember
<1>5. ASSUME NEW p \in P PROVE Precedes(p, x)
  <2>1. p[1] \in Nat /\ p[2] \in Nat /\ p[1] <= active /\ p[2] <= hdr[p[1]]
    BY <1>4, PosType
  <2> QED
    BY <1>1, <1>3, <2>1 DEF Precedes
<1>6. At(F, hdr') = P \cup {x}
  <2>1. ASSUME NEW p \in Pos PROVE p \in At(F, hdr') <=> p \in P \/ p = x
    <3>1. p[1] \in File /\ p[2] \in Nat /\ p[1] \in Nat /\ p = <<p[1], p[2]>>
      BY PosType
    <3>2. p \in At(F, hdr') <=> p[1] \in F /\ p[2] <= hdr'[p[1]]
      BY AtMember
    <3>3. p \in P <=> p[1] \in F /\ p[2] <= hdr[p[1]]
      BY <1>P, AtMember
    <3>4. CASE p[1] = active
      <4>1. hdr'[p[1]] = hdr[active] + 1
        BY <1>1, <1>2, <3>4
      <4>2. p = x <=> p[2] = hdr[active] + 1
        BY <1>x, <3>1, <3>4
      <4> QED
        BY <1>1, <3>1, <3>2, <3>3, <3>4, <4>1, <4>2
    <3>5. CASE p[1] # active
      BY <1>1, <1>2, <1>3, <3>1, <3>2, <3>3, <3>5
    <3> QED
      BY <3>4, <3>5
  <2>2. At(F, hdr') \in SUBSET Pos
    BY AtMember
  <2> QED
    BY <1>3, <1>4, <2>1, <2>2
<1>7. ASSUME NEW p \in P PROVE slot'[p[1]][p[2]] = slot[p[1]][p[2]]
  <2>1. p # x /\ p = <<p[1], p[2]>> /\ p[1] \in File /\ p[2] \in Slot
    BY <1>1, <1>3, <1>4, <1>5, PosType DEF Precedes
  <2> QED
    BY <1>1, <1>2, <1>x, <2>1
<1>8. slot'[x[1]][x[2]] = writes + 1
  BY <1>1, <1>2, <1>3
<1>9. Spells(hist, P, slot)
  BY <1>P
<1>10. Spells(Append(hist, writes + 1), P \cup {x}, slot')
  BY <1>1, <1>2, <1>3, <1>4, <1>5, <1>7, <1>8, <1>9, SpellsMore
<1> QED
  BY <1>2, <1>6, <1>10

\* Files and headers that hold no record add no position.
LEMMA AtNoNew ==
  ASSUME NEW S \in SUBSET File, NEW T \in SUBSET File, S \subseteq T,
         NEW h \in [File -> Header], NEW k \in [File -> Header],
         \A f \in S : k[f] = h[f] \/ (k[f] <= 0 /\ h[f] <= 0),
         \A f \in T \ S : k[f] <= 0
  PROVE  At(T, k) = At(S, h)
<1>1. ASSUME NEW p \in Pos PROVE p \in At(T, k) <=> p \in At(S, h)
  <2>1. /\ p[1] \in File /\ p[2] \in Nat /\ p[2] # 0
        /\ k[p[1]] \in Int /\ h[p[1]] \in Int
    BY PosType, FilesAreNumbers
  <2>2. p \in At(T, k) <=> p[1] \in T /\ p[2] <= k[p[1]]
    BY AtMember
  <2>3. p \in At(S, h) <=> p[1] \in S /\ p[2] <= h[p[1]]
    BY AtMember
  <2> QED
    BY <2>1, <2>2, <2>3
<1> QED
  BY <1>1, AtMember

\* The file that a rollover opens holds no record, and the one that a failed
\* rollover leaves does not either.
LEMMA NextIsEmpty ==
  ASSUME TypeOK, Shape, NothingLeft, "leftover" \notin exposed, NeedsRollover
  PROVE  hdr[next] = Zeroed /\ next \notin segs
<1>1. pc = "idle" /\ next \in File /\ next = active + 1 /\ \A f \in segs : f <= active
  BY DEF NeedsRollover, Shape
<1>2. next \notin segs
  BY <1>1, FilesAreNumbers DEF TypeOK
<1> QED
  BY <1>1, <1>2 DEF Shape, NothingLeft

LEMMA RolloverKeepsPositions ==
  ASSUME TypeOK, Shape, NeedsRollover, hdr[next] = Zeroed,
         Rollover \/ RolloverFails \/ CrashInInitHeader
  PROVE  /\ slot' = slot
         /\ At(files', hdr') = At(files, hdr)
         /\ Rollover => At(segs', hdr') = At(segs, hdr)
<1>1. /\ next \in File /\ hdr \in [File -> Header]
      /\ files \in SUBSET File /\ segs \in SUBSET File
  BY DEF NeedsRollover, TypeOK
<1>2. /\ slot' = slot /\ files' = files \cup {next}
      /\ Rollover => segs' = segs \cup {next}
      /\ \/ hdr' = hdr
         \/ hdr' = Opened({next})
         \/ hdr' = [hdr EXCEPT ![next] = Partial]
  BY DEF Rollover, RolloverFails, CrashInInitHeader, StoreHeader, pages
<1>3. hdr' \in [File -> Header]
  BY <1>1, <1>2, FilesAreNumbers, Bounds DEF Opened
<1>4. \A f \in File : hdr'[f] = hdr[f] \/ (f = next /\ hdr'[f] <= 0)
  BY <1>1, <1>2, FilesAreNumbers DEF Opened, Zeroed, Partial
<1>5. hdr[next] <= 0
  BY DEF Zeroed
<1>h. PICK h \in [File -> Header] : h = hdr'
  BY <1>3
<1>6. \A f \in File : h[f] = hdr[f] \/ (h[f] <= 0 /\ hdr[f] <= 0)
  BY <1>4, <1>5, <1>h
<1>7. h[next] <= 0
  BY <1>4, <1>5, <1>h, <1>1
<1>8. At(files \cup {next}, h) = At(files, hdr) /\ At(segs \cup {next}, h) = At(segs, hdr)
  BY <1>1, <1>6, <1>7, AtNoNew
<1> QED
  BY <1>2, <1>8, <1>h

LEMMA NothingLeftNext ==
  ASSUME TypeOK, Shape, ReplayOK, NothingLeft, [Next]_vars PROVE NothingLeft'
<1> SUFFICES ASSUME "leftover" \notin exposed'
             PROVE  /\ pc' = "idle" => \A f \in files' \ segs' : f = next' /\ hdr'[f] = Zeroed
                    /\ pc' = "drop" => files' = segs'
  BY DEF NothingLeft
<1>0. "leftover" \notin exposed
  BY ExposedGrows
<1>1. CASE UNCHANGED vars
  BY <1>0, <1>1 DEF vars, pages, memory, NothingLeft
<1>2. CASE OpenRejected
  BY <1>1, <1>2 DEF OpenRejected
<1>3. CASE OpenSegments \/ ReplayRecord \/ ReplayNextSegment
  BY <1>3 DEF OpenSegments, ReplayRecord, ReplayNextSegment
<1>4. CASE ReplayBadRecord
  <2>1. CASE Refuses
    BY <1>4, <2>1 DEF ReplayBadRecord, Gone
  <2>2. CASE ~Refuses
    BY <1>4, <2>2, TruncateApplies DEF Shape
  <2> QED
    BY <2>1, <2>2
<1>5. CASE DropSegment
  BY <1>0, <1>5 DEF DropSegment, NothingLeft
<1>6. CASE DropFails
  BY <1>6 DEF DropFails
<1>7. CASE ReplayDone \/ DropDone
  <2>1. files' = segs' /\ pc' = "idle"
    BY <1>0, <1>7, DoneServes
  <2> QED
    BY <2>1
<1>8. CASE AppendRecord
  <2>1. /\ pc = "idle" /\ pc' = pc /\ files' = files /\ segs' = segs /\ next' = next
        /\ active \in segs /\ hdr' = [hdr EXCEPT ![active] = hdr[active] + 1]
    BY <1>8 DEF AppendRecord, StoreHeader, Shape
  <2>2. \A f \in files \ segs : hdr'[f] = hdr[f]
    BY <2>1 DEF TypeOK
  <2> QED
    BY <1>0, <2>1, <2>2 DEF NothingLeft
<1>9. CASE Rollover \/ RolloverFails
  <2>1. NeedsRollover /\ pc = "idle" /\ hdr[next] = Zeroed
    BY <1>0, <1>9, NextIsEmpty DEF Rollover, RolloverFails, NeedsRollover
  <2>2. \A f \in files \ segs : f = next /\ hdr[f] = Zeroed
    BY <1>0, <2>1 DEF NothingLeft
  <2>3. CASE Rollover
    BY <2>1, <2>2, <2>3 DEF Rollover
  <2>4. CASE RolloverFails
    BY <2>1, <2>2, <2>4 DEF RolloverFails, pages, memory
  <2> QED
    BY <1>9, <2>3, <2>4
<1>10. CASE Close \/ Crash \/ CrashInInitHeader
  BY <1>10 DEF Close, Crash, CrashInInitHeader, Gone
<1>11. CASE OsCrash \/ Corrupt
  BY <1>11 DEF OsCrash, Corrupt
<1> QED
  BY <1>1, <1>2, <1>3, <1>4, <1>5, <1>6, <1>7, <1>8, <1>9, <1>10, <1>11
     DEF Next, RecoveryStep

LEMMA StoredIsHistoryNext ==
  ASSUME TypeOK, Shape, ReplayOK, NothingLeft, StoredIsHistory, [Next]_vars
  PROVE  StoredIsHistory'
<1> SUFFICES ASSUME "leftover" \notin exposed', pc' = "idle"
             PROVE  Spells(hist', At(segs', hdr'), slot')
  BY PositionsAt DEF StoredIsHistory
<1>0. "leftover" \notin exposed
  BY ExposedGrows
<1>S. pc = "idle" => Spells(hist, At(segs, hdr), slot)
  BY <1>0, PositionsAt DEF StoredIsHistory
<1>1. CASE UNCHANGED vars
  BY <1>S, <1>1 DEF vars, pages, memory, aux
<1>2. CASE OpenRejected
  BY <1>1, <1>2 DEF OpenRejected
<1>3. CASE ReplayDone \/ DropDone
  BY <1>3, DoneServes, PositionsAt
<1>4. CASE AppendRecord
  <2>1. pc = "idle" /\ active \in segs /\ segs \in SUBSET File
        /\ (\A f \in segs : f <= active) /\ segs' = segs
    BY <1>4 DEF AppendRecord, Shape, TypeOK
  <2>2. Spells(hist', At(segs, hdr'), slot')
    BY <1>4, <1>S, <2>1, AppendSpells
  <2> QED
    BY <2>1, <2>2
<1>5. CASE Rollover
  <2>1. NeedsRollover /\ pc = "idle" /\ hdr[next] = Zeroed
    BY <1>0, <1>5, NextIsEmpty DEF Rollover, NeedsRollover
  <2>2. At(segs', hdr') = At(segs, hdr) /\ slot' = slot /\ hist' = hist
    BY <1>5, <2>1, RolloverKeepsPositions DEF Rollover, aux
  <2> QED
    BY <1>S, <2>1, <2>2
<1>6. CASE RolloverFails
  <2>1. pc = "idle" /\ segs' = segs /\ hdr' = hdr /\ slot' = slot /\ hist' = hist
    BY <1>6 DEF RolloverFails, NeedsRollover, pages, memory, aux
  <2> QED
    BY <1>S, <2>1
<1>7. CASE ReplayBadRecord
  BY <1>7 DEF ReplayBadRecord, Gone, TruncateAndDrop
<1>8. CASE \/ OpenSegments \/ ReplayRecord \/ ReplayNextSegment
           \/ DropSegment \/ DropFails
  BY <1>8 DEF OpenSegments, ReplayRecord, ReplayNextSegment, DropSegment, DropFails
<1>9. CASE Close \/ Crash \/ CrashInInitHeader \/ OsCrash \/ Corrupt
  BY <1>9 DEF Close, Crash, CrashInInitHeader, OsCrash, Corrupt, Gone
<1> QED
  BY <1>1, <1>2, <1>3, <1>4, <1>5, <1>6, <1>7, <1>8, <1>9 DEF Next, RecoveryStep

-----------------------------------------------------------------------------
(***************************************************************************)
(* What the files store is a prefix of the history.                        *)
(***************************************************************************)

\* A stored record is good when the log spells a sequence of records.
LEMMA SpellsGood ==
  ASSUME NEW P \in SUBSET Pos, NEW c, NEW s \in Seq(Written), Spells(s, P, c)
  PROVE  Good(P, c)
<1>1. ASSUME NEW p \in P PROVE c[p[1]][p[2]] \in Written
  <2>1. Cardinality(UpTo(p, P)) \in 1..Len(s)
    BY RankType DEF Spells
  <2>2. s[Cardinality(UpTo(p, P))] \in Written
    BY <2>1, ElementOfSeq
  <2> QED
    BY <2>2 DEF Spells
<1> QED
  BY <1>1 DEF Good

LEMMA SpellsPrefix ==
  ASSUME NEW P \in SUBSET Pos, NEW c, NEW s \in Seq(Written), Spells(s, P, c)
  PROVE  StoresPrefix(P, c, s)
<1>1. \A p \in P : Cardinality(UpTo(p, P)) \in 1..Len(s)
  BY RankType DEF Spells
<1> QED
  BY <1>1, LenProperties DEF Spells, StoresPrefix

\* Positions Q with contents d show no more of a prefix than P with c, when what
\* is good up to a position of Q was there in P.
LEMMA PrefixLess ==
  ASSUME NEW P, NEW c, NEW Q, NEW d, NEW s, StoresPrefix(P, c, s),
         \A q \in Q : Good(UpTo(q, Q), d) =>
            /\ q \in P /\ UpTo(q, Q) = UpTo(q, P)
            /\ \A p \in UpTo(q, Q) : c[p[1]][p[2]] = d[p[1]][p[2]]
            /\ c[q[1]][q[2]] = d[q[1]][q[2]]
  PROVE  StoresPrefix(Q, d, s)
<1>1. ASSUME NEW q \in Q, Good(UpTo(q, Q), d)
      PROVE  /\ Cardinality(UpTo(q, Q)) <= Len(s)
             /\ s[Cardinality(UpTo(q, Q))] = d[q[1]][q[2]]
  <2>1. /\ q \in P /\ UpTo(q, Q) = UpTo(q, P)
        /\ \A p \in UpTo(q, Q) : c[p[1]][p[2]] = d[p[1]][p[2]]
        /\ c[q[1]][q[2]] = d[q[1]][q[2]]
    BY <1>1
  <2>2. Good(UpTo(q, P), c)
    BY <1>1, <2>1 DEF Good
  <2> QED
    BY <2>1, <2>2 DEF StoresPrefix
<1> QED
  BY <1>1 DEF StoresPrefix

\* The same positions, and other contents where they are bad.
LEMMA PrefixAlike ==
  ASSUME NEW P \in SUBSET Pos, NEW c, NEW d, NEW s, StoresPrefix(P, c, s),
         \A p \in P : d[p[1]][p[2]] \in Written => d[p[1]][p[2]] = c[p[1]][p[2]]
  PROVE  StoresPrefix(P, d, s)
<1>1. ASSUME NEW q \in P, Good(UpTo(q, P), d)
      PROVE  /\ \A p \in UpTo(q, P) : c[p[1]][p[2]] = d[p[1]][p[2]]
             /\ c[q[1]][q[2]] = d[q[1]][q[2]]
  <2>1. UpTo(q, P) \subseteq P /\ q \in UpTo(q, P)
    BY RankType
  <2> QED
    BY <1>1, <2>1 DEF Good
<1> QED
  BY <1>1, PrefixLess

\* Fewer positions, without a gap before them.
LEMMA PrefixShorter ==
  ASSUME NEW P \in SUBSET Pos, NEW c, NEW s, StoresPrefix(P, c, s),
         NEW Q \in SUBSET P,
         \A q \in Q : \A p \in P : Precedes(p, q) => p \in Q
  PROVE  StoresPrefix(Q, c, s)
<1>1. ASSUME NEW q \in Q PROVE UpTo(q, Q) = UpTo(q, P)
  <2>1. ASSUME NEW p \in UpTo(q, P) PROVE p \in Q
    <3>1. /\ p \in P /\ p = <<p[1], p[2]>> /\ q = <<q[1], q[2]>>
          /\ p[2] \in Nat /\ q[2] \in Nat
          /\ p[1] < q[1] \/ (p[1] = q[1] /\ p[2] <= q[2])
      BY PosType DEF UpTo
    <3>2. p = q \/ Precedes(p, q)
      BY <3>1 DEF Precedes
    <3> QED
      BY <3>1, <3>2
  <2> QED
    BY <2>1 DEF UpTo
<1> QED
  BY <1>1, PrefixLess

LEMMA BeginsTrivially ==
  ASSUME NEW s \in Seq(Written) PROVE Begins(s, s) /\ Begins(<<>>, s)
BY LenProperties DEF Begins

\* The next record of a prefix.
LEMMA BeginsMore ==
  ASSUME NEW P \in SUBSET Pos, NEW c, NEW s \in Seq(Written), NEW t \in Seq(Written),
         StoresPrefix(P, c, t), Begins(s, t),
         NEW Q \in SUBSET P, Spells(s, Q, c),
         NEW x \in P, x \notin Q, UpTo(x, P) = Q \cup {x}, c[x[1]][x[2]] \in Written
  PROVE  Begins(Append(s, c[x[1]][x[2]]), t)
<1>r. PICK r : r = c[x[1]][x[2]]
  OBVIOUS
<1>1. Good(UpTo(x, P), c)
  BY SpellsGood DEF Good
<1>2. IsFiniteSet(Q) /\ Cardinality(Q) = Len(s) /\ Len(s) \in Nat
  BY PosFinite, LenProperties DEF Spells
<1>3. Cardinality(UpTo(x, P)) = Len(s) + 1
  BY <1>2, FS_AddElement
<1>4. Len(s) + 1 <= Len(t) /\ t[Len(s) + 1] = r
  BY <1>1, <1>3, <1>r DEF StoresPrefix
<1>5. /\ Len(Append(s, r)) = Len(s) + 1 /\ Append(s, r)[Len(s) + 1] = r
      /\ \A n \in 1..Len(s) : Append(s, r)[n] = s[n]
  BY <1>r, AppendProperties
<1>u. PICK u : u = Append(s, r)
  OBVIOUS
<1>6. Begins(u, t)
  <2>1. Len(u) = Len(s) + 1 /\ u[Len(s) + 1] = r /\ \A n \in 1..Len(s) : u[n] = s[n]
    BY <1>5, <1>u
  <2>2. ASSUME NEW n \in 1..Len(u) PROVE u[n] = t[n]
    <3>1. CASE n = Len(s) + 1
      BY <1>4, <2>1, <3>1
    <3>2. CASE n \in 1..Len(s)
      BY <2>1, <3>2 DEF Begins
    <3> QED
      BY <1>2, <2>1, <3>1, <3>2
  <2> QED
    BY <1>4, <2>1, <2>2 DEF Begins
<1> QED
  BY <1>6, <1>r, <1>u

\* An open log, left behind by any step.
LEMMA IdleStores ==
  ASSUME TypeOK', Shape', NothingLeft', StoredIsHistory', pc' = "idle",
         "leftover" \notin exposed'
  PROVE  Spells(hist', At(files', hdr'), slot') /\ PrefixStored'
<1>1. /\ segs' \subseteq files' /\ files' \subseteq File /\ todo' = {} /\ applied' = <<>>
      /\ hdr' \in [File -> Header] /\ hist' \in Seq(Written)
  BY DEF TypeOK, Shape
<1>2. \A f \in files' \ segs' : hdr'[f] = Zeroed
  BY DEF NothingLeft
<1>3. At(files', hdr') = At(segs', hdr')
  <2>1. \A f \in files' \ segs' : hdr'[f] <= 0
    BY <1>2 DEF Zeroed
  <2>S. PICK S \in SUBSET File, T \in SUBSET File : S = segs' /\ T = files'
    BY <1>1
  <2>h. PICK h \in [File -> Header] : h = hdr'
    BY <1>1
  <2>2. At(T, h) = At(S, h)
    BY <1>1, <2>1, <2>S, <2>h, AtNoNew
  <2> QED
    BY <2>2, <2>S, <2>h
<1>4. Spells(hist', At(files', hdr'), slot')
  BY <1>3, PositionsAt DEF StoredIsHistory
<1>5. At(files', hdr') \in SUBSET Pos
  BY <1>1, AtMember
<1>6. StoresPrefix(At(files', hdr'), slot', hist')
  BY <1>1, <1>4, <1>5, SpellsPrefix
<1>7. Positions(Kept)' = At(files', hdr')
  <2>1. files' \ todo' = files'
    BY <1>1
  <2> QED
    BY <2>1, PositionsAt
<1>8. Begins(applied', hist')
  BY <1>1, BeginsTrivially
<1> QED
  BY <1>4, <1>6, <1>7, <1>8 DEF PrefixStored

\* Opening the segments shows the records that were there.
LEMMA OpenSegmentsPositions ==
  ASSUME TypeOK, Shape, OpenSegments PROVE At(files', hdr') = At(files, hdr)
<1>S. PICK S : S = SegmentsToOpen
  OBVIOUS
<1>1. S \in SUBSET File /\ files \subseteq S /\ files \in SUBSET File
      /\ hdr \in [File -> Header]
  BY <1>S, Bounds DEF SegmentsToOpen, TypeOK
<1>2. files' = S /\ hdr' = Opened(S)
  BY <1>S DEF OpenSegments
<1>3. Opened(S) \in [File -> Header]
  BY <1>1, FilesAreNumbers DEF Opened
<1>4. \A f \in File : Opened(S)[f] = hdr[f] \/ (Opened(S)[f] <= 0 /\ hdr[f] <= 0)
  BY <1>1 DEF Opened, Zeroed
<1>5. \A f \in S \ files : Opened(S)[f] <= 0
  <2>1. \A f \in S \ files : hdr[f] = Zeroed
    BY <1>1 DEF Shape
  <2> QED
    BY <1>1, <2>1 DEF Opened
<1>h. PICK h \in [File -> Header] : h = Opened(S)
  BY <1>3
<1>6. At(S, h) = At(files, hdr)
  BY <1>1, <1>4, <1>5, <1>h, AtNoNew
<1> QED
  BY <1>2, <1>6, <1>h

\* Replaying the next record of a prefix.
LEMMA ReplayRecordPrefix ==
  ASSUME TypeOK, Shape, ReplayOK, ReplayRecord,
         StoresPrefix(At(files, hdr), slot, hist), Begins(applied, hist)
  PROVE  Begins(applied', hist)
<1>1. /\ pc = "replay" /\ InUse /\ RecordAtCursor \in Written
      /\ applied' = Append(applied, RecordAtCursor)
  BY DEF ReplayRecord
<1>2. /\ files = segs /\ segs \in SUBSET File /\ cursor[1] \in segs
      /\ applied \in Seq(Written) /\ hist \in Seq(Written)
      /\ cursor = <<cursor[1], cursor[2]>> /\ cursor[1] \in Nat /\ cursor[2] \in Nat
      /\ cursor[2] \in Slot /\ cursor[2] <= hdr[cursor[1]]
  BY <1>1, CursorType DEF Shape, TypeOK, InUse
<1>P. PICK P : P = Positions(segs)
  OBVIOUS
<1>3. P \in SUBSET Pos /\ cursor \in P /\ P = At(files, hdr)
  BY <1>2, <1>P, PositionsWith, PositionsInPos, PositionsAt
<1>4. Passed \in SUBSET P /\ cursor \notin Passed
  BY <1>2, <1>P, PositionsWith DEF Precedes
<1>5. UpTo(cursor, P) = Passed \cup {cursor}
  <2>1. ASSUME NEW p \in P
        PROVE  (p[1] < cursor[1] \/ (p[1] = cursor[1] /\ p[2] <= cursor[2]))
                 <=> Precedes(p, cursor) \/ p = cursor
    <3>1. p = <<p[1], p[2]>> /\ p[1] \in Nat /\ p[2] \in Nat
      BY <1>3, PosType
    <3> QED
      BY <1>2, <3>1 DEF Precedes
  <2>2. \A p : p \in Passed <=> p \in P /\ Precedes(p, cursor)
    BY <1>P, PositionsWith
  <2> QED
    BY <1>3, <2>1, <2>2 DEF UpTo
<1>6. Spells(applied, Passed, slot)
  BY <1>1 DEF ReplayOK
<1>x. PICK x, Q : x = cursor /\ Q = Passed
  OBVIOUS
<1>7. slot[x[1]][x[2]] = RecordAtCursor
  BY <1>x DEF RecordAtCursor
<1>8. StoresPrefix(P, slot, hist)
  BY <1>3
<1>9. Begins(Append(applied, slot[x[1]][x[2]]), hist)
  BY <1>1, <1>2, <1>3, <1>4, <1>5, <1>6, <1>7, <1>8, <1>x, BeginsMore
<1> QED
  BY <1>1, <1>7, <1>9

\* What the disk shows after a crash of the machine that meets no weak point.
LEMMA OsCrashPrefix ==
  ASSUME TypeOK, Shape, OsCrash, ~ShowsStale(hdr', slot'), ~LosesSealed(hdr', slot'),
         StoresPrefix(At(files, hdr), slot, hist)
  PROVE  StoresPrefix(At(files, hdr'), slot', hist)
<1>h. PICK h, d : h = hdr' /\ d = slot'
  OBVIOUS
<1>1. /\ h \in [File -> Header] /\ files \in SUBSET File /\ hdr \in [File -> Header]
  BY <1>h, OsCrashPages DEF TypeOK
<1>P. PICK P, Q : P = At(files, hdr) /\ Q = At(files, h)
  OBVIOUS
<1>2. /\ P \in SUBSET Pos /\ Q \in SUBSET Pos
      /\ \A p \in Pos : p \in P <=> p[1] \in files /\ p[2] <= hdr[p[1]]
      /\ \A p \in Pos : p \in Q <=> p[1] \in files /\ p[2] <= h[p[1]]
  BY <1>1, <1>P, AtMember
<1>3. ASSUME NEW q \in Q, d[q[1]][q[2]] \in Written
      PROVE  q \in P /\ slot[q[1]][q[2]] = d[q[1]][q[2]]
  <2>1. /\ q \in Pos /\ q[1] \in File /\ q[2] \in Nat /\ q[2] # 0 /\ q[1] \in files
        /\ q[2] <= h[q[1]] /\ h[q[1]] \in Int /\ hdr[q[1]] \in Int
    BY <1>1, <1>2, PosType, FilesAreNumbers
  <2>2. q[2] \in 1..h[q[1]]
    BY <2>1
  <2>3. ~ ShowsStale(h, d)
    BY <1>h
  <2>4. ~ (hdr[q[1]] < q[2] \/ d[q[1]][q[2]] # slot[q[1]][q[2]])
    BY <1>3, <2>1, <2>2, <2>3 DEF ShowsStale
  <2> QED
    BY <1>2, <2>1, <2>4
<1>4. ASSUME NEW q \in Q, NEW p \in P, p[1] < q[1] \/ (p[1] = q[1] /\ p[2] <= q[2])
      PROVE  p \in Q
  <2>1. /\ q \in Pos /\ p \in Pos /\ q[1] \in files /\ p[1] \in files
        /\ p[2] \in Nat /\ q[2] \in Nat /\ p[2] <= hdr[p[1]] /\ q[2] <= h[q[1]]
        /\ p[1] \in Nat /\ q[1] \in Nat /\ h[q[1]] \in Int /\ h[p[1]] \in Int
    BY <1>1, <1>2, PosType, FilesAreNumbers
  <2>2. CASE p[1] < q[1]
    <3>1. ~ LosesSealed(h, d)
      BY <1>h
    <3>2. h[p[1]] = hdr[p[1]]
      BY <2>1, <2>2, <3>1 DEF LosesSealed
    <3> QED
      BY <1>2, <2>1, <3>2
  <2>3. CASE p[1] = q[1] /\ p[2] <= q[2]
    BY <1>2, <2>1, <2>3
  <2> QED
    BY <1>4, <2>2, <2>3
<1>5. ASSUME NEW q \in Q, Good(UpTo(q, Q), d)
      PROVE  /\ q \in P /\ UpTo(q, Q) = UpTo(q, P)
             /\ \A p \in UpTo(q, Q) : slot[p[1]][p[2]] = d[p[1]][p[2]]
             /\ slot[q[1]][q[2]] = d[q[1]][q[2]]
  <2>1. UpTo(q, Q) \subseteq Q /\ q \in UpTo(q, Q)
    BY <1>2, RankType
  <2>2. \A p \in UpTo(q, Q) : p \in P /\ slot[p[1]][p[2]] = d[p[1]][p[2]]
    BY <1>3, <1>5, <2>1 DEF Good
  <2>3. UpTo(q, Q) = UpTo(q, P)
    BY <1>4, <2>2 DEF UpTo
  <2> QED
    BY <2>1, <2>2, <2>3
<1>6. StoresPrefix(P, slot, hist)
  BY <1>P
<1>7. StoresPrefix(Q, d, hist)
  BY <1>5, <1>6, PrefixLess
<1> QED
  BY <1>7, <1>P, <1>h

LEMMA PrefixStoredNext ==
  ASSUME TypeOK, Shape, ReplayOK, NothingLeft, StoredIsHistory, PrefixStored,
         [Next]_vars
  PROVE  PrefixStored'
<1> SUFFICES ASSUME exposed' = {} PROVE PrefixStored'
  BY DEF PrefixStored
<1>g. SUFFICES /\ StoresPrefix(At(files' \ todo', hdr'), slot', hist')
               /\ Begins(applied', hist')
  BY PositionsAt DEF PrefixStored
<1>0. exposed = {} /\ "leftover" \notin exposed /\ "leftover" \notin exposed'
  BY ExposedGrows
<1>P. StoresPrefix(At(files \ todo, hdr), slot, hist) /\ Begins(applied, hist)
  BY <1>0, PositionsAt DEF PrefixStored, Kept
<1>k. pc # "drop" => todo = {} /\ files \ todo = files
  BY DEF Shape
<1>e. Begins(<<>>, hist) /\ files \in SUBSET File /\ hdr \in [File -> Header]
      /\ hist \in Seq(Written)
  BY BeginsTrivially DEF TypeOK
<1>1. CASE UNCHANGED vars
  BY <1>P, <1>1 DEF vars, pages, replay, aux
<1>2. CASE OpenRejected
  BY <1>1, <1>2 DEF OpenRejected
<1>3. CASE pc' = "idle"
  <2>1. TypeOK' /\ Shape' /\ NothingLeft' /\ StoredIsHistory'
    BY TypeNext, ShapeNext, NothingLeftNext, StoredIsHistoryNext
  <2>2. PrefixStored'
    BY <1>0, <1>3, <2>1, IdleStores
  <2> QED
    BY <2>2, PositionsAt DEF PrefixStored
<1>4. CASE OpenSegments
  <2>1. /\ pc = "closed" /\ todo' = todo /\ slot' = slot /\ hist' = hist
        /\ applied' = applied
    BY <1>4 DEF OpenSegments, aux
  <2>2. At(files', hdr') = At(files, hdr)
    BY <1>4, OpenSegmentsPositions
  <2>3. files' \ todo' = files'
    BY <1>k, <2>1
  <2> QED
    BY <1>k, <1>P, <2>1, <2>2, <2>3
<1>5. CASE ReplayRecord \/ ReplayNextSegment
  <2>1. /\ pc = "replay" /\ UNCHANGED <<files, todo, hdr, slot, hist>>
    BY <1>5 DEF ReplayRecord, ReplayNextSegment, pages, aux
  <2>2. Begins(applied', hist)
    BY <1>5, <1>k, <1>P, <2>1, ReplayRecordPrefix DEF ReplayNextSegment
  <2> QED
    BY <1>P, <2>1, <2>2
<1>6. CASE ReplayBadRecord
  <2>1. CASE Refuses
    <3>1. /\ pc = "replay" /\ UNCHANGED <<files, hdr, slot, hist>>
          /\ todo' = {} /\ applied' = <<>>
      BY <1>6, <2>1 DEF ReplayBadRecord, Gone, aux
    <3>2. files' \ todo' = files \ todo
      BY <1>k, <3>1
    <3> QED
      BY <1>P, <1>e, <3>1, <3>2
  <2>2. CASE ~Refuses
    <3>1. /\ pc = "replay" /\ files' = files /\ segs' = segs /\ slot' = slot
          /\ applied' = applied /\ Positions(segs \ todo)' = Passed
      BY <1>6, <2>2, TruncateApplies
    <3>2. hist' = hist /\ files = segs /\ todo = {}
      BY <1>6, <3>1 DEF ReplayBadRecord, aux, Shape
    <3>3. At(files' \ todo', hdr') = Passed
      BY <3>1, <3>2, PositionsAt
    <3>P. PICK P, Q : P = Positions(segs) /\ Q = Passed
      OBVIOUS
    <3>4. P \in SUBSET Pos /\ P = At(files, hdr) /\ Q \in SUBSET P
      BY <1>e, <3>2, <3>P, PositionsAt, PositionsInPos, PositionsWith
    <3>5. ASSUME NEW q \in Q, NEW p \in P, Precedes(p, q) PROVE p \in Q
      <4>1. /\ p[1] \in Nat /\ p[2] \in Nat /\ q[1] \in Nat /\ q[2] \in Nat
            /\ cursor[1] \in Nat /\ cursor[2] \in Nat
        BY <3>4, PosType, CursorType
      <4>2. Precedes(q, cursor)
        BY <3>P, PositionsWith
      <4>3. Precedes(p, cursor)
        BY <3>5, <4>1, <4>2 DEF Precedes
      <4> QED
        BY <3>P, <4>3, PositionsWith
    <3>6. StoresPrefix(P, slot, hist)
      BY <1>k, <1>P, <3>1, <3>4
    <3>7. StoresPrefix(Q, slot, hist)
      BY <3>4, <3>5, <3>6, PrefixShorter
    <3> QED
      BY <1>P, <3>1, <3>2, <3>3, <3>7, <3>P
  <2> QED
    BY <2>1, <2>2
<1>7. CASE DropSegment
  <2>f. PICK f : f = Smallest(todo)
    OBVIOUS
  <2>1. f \in todo /\ f \in File
    BY <1>7, <2>f, ExtremeFiles DEF DropSegment, TypeOK
  <2>2. /\ files' = files \ {f} /\ todo' = todo \ {f} /\ hdr' = [hdr EXCEPT ![f] = Zeroed]
        /\ slot' = [slot EXCEPT ![f] = [i \in Slot |-> Blank]]
        /\ hist' = hist /\ applied' = applied
    BY <1>7, <2>f DEF DropSegment, aux
  <2>S. PICK S : S = files \ todo
    OBVIOUS
  <2>3. S \in SUBSET File /\ f \notin S /\ files' \ todo' = S
    BY <1>e, <2>1, <2>2, <2>S
  <2>4. \A g \in S : hdr'[g] = hdr[g] /\ slot'[g] = slot[g]
    BY <2>2, <2>3 DEF TypeOK
  <2>5. At(S, hdr') = At(S, hdr)
    BY <2>4, AtAlike
  <2>6. \A p \in At(S, hdr) : slot'[p[1]][p[2]] = slot[p[1]][p[2]]
    BY <2>3, <2>4, AtMember
  <2>7. At(S, hdr) \in SUBSET Pos
    BY <2>3, AtMember
  <2>8. StoresPrefix(At(S, hdr), slot', hist)
    BY <1>P, <2>S, <2>6, <2>7, PrefixAlike
  <2> QED
    BY <1>P, <2>2, <2>3, <2>5, <2>8
<1>8. CASE DropFails
  BY <1>0, <1>8 DEF DropFails
<1>9. CASE ReplayDone \/ DropDone \/ AppendRecord \/ Rollover \/ RolloverFails
  BY <1>3, <1>9 DEF ReplayDone, DropDone, Serve, AppendRecord, Rollover, RolloverFails,
     NeedsRollover
<1>10. CASE Close \/ Crash
  <2>1. /\ files' = files /\ hdr' = hdr /\ slot' = slot /\ hist' = hist
        /\ todo' = {} /\ applied' = <<>>
    BY <1>10 DEF Close, Crash, Gone, pages, aux
  <2>2. todo = {}
    BY <1>0, <1>10, <1>k DEF Close, Crash, LeftBehind
  <2> QED
    BY <1>P, <1>e, <2>1, <2>2
<1>11. CASE CrashInInitHeader
  <2>1. /\ pc = "idle" /\ NeedsRollover /\ hdr[next] = Zeroed
        /\ hist' = hist /\ todo' = {} /\ applied' = <<>>
    BY <1>11 DEF CrashInInitHeader, NeedsRollover, Gone, aux
  <2>2. slot' = slot /\ At(files', hdr') = At(files, hdr)
    BY <1>11, <2>1, RolloverKeepsPositions
  <2>3. files' \ todo' = files' /\ files \ todo = files
    BY <1>k, <2>1
  <2> QED
    BY <1>P, <1>e, <2>1, <2>2, <2>3
<1>12. CASE OsCrash
  <2>1. /\ pc = "closed" /\ files' = files /\ todo' = todo /\ applied' = applied
        /\ hist' = hist
    BY <1>12 DEF OsCrash, replay
  <2>2. ~ShowsStale(hdr', slot') /\ ~LosesSealed(hdr', slot')
    <3>1. PICK a, b : /\ exposed' = exposed \cup a \cup b
                      /\ ShowsStale(hdr', slot') => "stale" \in a
                      /\ LosesSealed(hdr', slot') => "sealed" \in b
      <4>1. exposed' = exposed \cup {e \in {"stale"} : ShowsStale(hdr', slot')}
                               \cup {e \in {"sealed"} : LosesSealed(hdr', slot')}
        BY <1>12 DEF OsCrash
      <4> QED
        BY <4>1
    <3> QED
      BY <3>1
  <2>3. StoresPrefix(At(files, hdr'), slot', hist)
    BY <1>12, <1>k, <1>P, <2>1, <2>2, OsCrashPrefix
  <2>4. files' \ todo' = files
    BY <1>k, <2>1
  <2> QED
    BY <1>P, <2>1, <2>3, <2>4
<1>13. CASE Corrupt
  <2>1. \E f \in files : \E i \in 1..hdr[f] : slot' = [slot EXCEPT ![f][i] = Torn]
    BY <1>13 DEF Corrupt
  <2>2. /\ pc = "closed" /\ files' = files /\ todo' = todo /\ applied' = applied
        /\ hist' = hist /\ hdr' = hdr
    BY <1>13 DEF Corrupt, replay, aux
  <2>3. At(files, hdr) \in SUBSET Pos
    BY <1>e, AtMember
  <2>4. ASSUME NEW p \in At(files, hdr), slot'[p[1]][p[2]] \in Written
        PROVE  slot'[p[1]][p[2]] = slot[p[1]][p[2]]
    <3>1. p[1] \in File /\ p[2] \in Slot /\ slot \in [File -> [Slot -> Content]]
          /\ Torn \notin Written
      BY <2>3, PosType, FilesAreNumbers DEF TypeOK
    <3> QED
      BY <2>1, <2>4, <3>1
  <2>5. StoresPrefix(At(files, hdr), slot', hist)
    BY <1>k, <1>P, <2>2, <2>3, <2>4, PrefixAlike
  <2> QED
    BY <1>P, <1>k, <2>2, <2>5
<1> QED
  BY <1>1, <1>2, <1>4, <1>5, <1>6, <1>7, <1>8, <1>9, <1>10, <1>11, <1>12, <1>13
     DEF Next, RecoveryStep

-----------------------------------------------------------------------------
(***************************************************************************)
(* Without damage and crashes of the machine the files store everything.   *)
(***************************************************************************)

\* No record is bad: a replay never truncates.
LEMMA NoBadRecord ==
  ASSUME TypeOK, Shape, pc = "replay", Spells(hist, At(files, hdr), slot), InUse
  PROVE  RecordAtCursor \in Written
<1>1. /\ files = segs /\ cursor[1] \in segs /\ segs \in SUBSET File
      /\ cursor[2] \in Slot /\ cursor[2] <= hdr[cursor[1]] /\ hist \in Seq(Written)
      /\ cursor \in Pos
  BY CursorType DEF Shape, TypeOK, InUse, Pos
<1>2. cursor \in At(files, hdr) /\ At(files, hdr) \in SUBSET Pos
  BY <1>1, AtMember
<1>3. Good(At(files, hdr), slot)
  BY <1>1, <1>2, SpellsGood
<1> QED
  BY <1>2, <1>3 DEF Good, RecordAtCursor

LEMMA AllStoredNext ==
  ASSUME TypeOK, Shape, ReplayOK, NothingLeft, StoredIsHistory, AllStored,
         [Next]_vars
  PROVE  AllStored'
<1>g. SUFFICES ASSUME corruptions' = 0, osCrashes' = 0
               PROVE  /\ exposed' = {} /\ pc' # "drop"
                      /\ Spells(hist', At(files', hdr'), slot')
  BY PositionsAt DEF AllStored
<1>0. corruptions = 0 /\ osCrashes = 0
  <2>1. corruptions \in Nat /\ osCrashes \in Nat
    BY Bounds DEF TypeOK
  <2>2. UNCHANGED <<corruptions, osCrashes>> \/ corruptions' = corruptions + 1
           \/ osCrashes' = osCrashes + 1
    BY DEF Next, RecoveryStep, OpenSegments, OpenRejected, ReplayRecord,
       ReplayNextSegment, ReplayBadRecord, ReplayDone, DropSegment, DropFails, DropDone,
       AppendRecord, Rollover, RolloverFails, Close, Crash, CrashInInitHeader, OsCrash,
       Corrupt, counts, vars
  <2>3. UNCHANGED <<corruptions, osCrashes>> \/ corruptions' # 0 \/ osCrashes' # 0
    BY <2>1, <2>2
  <2> QED
    BY <2>3, <1>g
<1>A. /\ exposed = {} /\ pc # "drop" /\ Spells(hist, At(files, hdr), slot)
      /\ "leftover" \notin exposed
  BY <1>0, PositionsAt DEF AllStored
<1>1. CASE UNCHANGED vars
  BY <1>A, <1>1 DEF vars, pages, aux
<1>2. CASE OpenRejected
  BY <1>1, <1>2 DEF OpenRejected
<1>3. ASSUME pc' = "idle", exposed' = {} PROVE Spells(hist', At(files', hdr'), slot')
  <2>1. TypeOK' /\ Shape' /\ NothingLeft' /\ StoredIsHistory'
    BY TypeNext, ShapeNext, NothingLeftNext, StoredIsHistoryNext
  <2> QED
    BY <1>3, <2>1, IdleStores
<1>4. CASE OpenSegments
  <2>1. slot' = slot /\ hist' = hist /\ exposed' = exposed /\ pc' = "replay"
    BY <1>4 DEF OpenSegments, aux
  <2> QED
    BY <1>4, <1>A, <2>1, OpenSegmentsPositions
<1>5. CASE ReplayRecord \/ ReplayNextSegment
  <2>1. UNCHANGED <<files, hdr, slot, hist, exposed, pc>>
    BY <1>5 DEF ReplayRecord, ReplayNextSegment, pages, aux
  <2> QED
    BY <1>A, <2>1
<1>6. CASE ReplayBadRecord
  BY <1>6, <1>A, NoBadRecord DEF ReplayBadRecord
<1>7. CASE DropSegment \/ DropFails \/ DropDone
  BY <1>7, <1>A DEF DropSegment, DropFails, DropDone
<1>8. CASE ReplayDone \/ AppendRecord \/ Rollover \/ RolloverFails
  <2>1. pc' = "idle" /\ exposed' = {}
    BY <1>8, <1>A DEF ReplayDone, Serve, AppendRecord, Rollover, RolloverFails,
       NeedsRollover, aux
  <2> QED
    BY <1>3, <2>1
<1>9. CASE Close \/ Crash
  <2>1. /\ files' = files /\ hdr' = hdr /\ slot' = slot /\ hist' = hist
        /\ pc' = "closed" /\ exposed' = exposed
    BY <1>9, <1>A DEF Close, Crash, LeftBehind, Gone, pages, aux
  <2> QED
    BY <1>A, <2>1
<1>10. CASE CrashInInitHeader
  <2>1. /\ NeedsRollover /\ hdr[next] = Zeroed /\ hist' = hist /\ pc' = "closed"
        /\ exposed' = exposed
    BY <1>10 DEF CrashInInitHeader, NeedsRollover, Gone, aux
  <2>2. slot' = slot /\ At(files', hdr') = At(files, hdr)
    BY <1>10, <2>1, RolloverKeepsPositions
  <2> QED
    BY <1>A, <2>1, <2>2
<1>11. CASE OsCrash \/ Corrupt
  BY <1>0, <1>g, <1>11 DEF OsCrash, Corrupt
<1> QED
  BY <1>1, <1>2, <1>4, <1>5, <1>6, <1>7, <1>8, <1>9, <1>10, <1>11
     DEF Next, RecoveryStep

-----------------------------------------------------------------------------
(***************************************************************************)
(* The invariant, and what it says of an open log.                         *)
(***************************************************************************)

LEMMA WalInvInit == Init => WalInv
<1> SUFFICES ASSUME Init PROVE WalInv
  OBVIOUS
<1>1. TypeOK /\ Shape
  BY WalInitType, ShapeInit
<1>2. /\ pc = "closed" /\ applied = <<>> /\ hist = <<>> /\ files = {} /\ todo = {}
      /\ exposed = {}
  BY DEF Init
<1>3. ReplayOK /\ NothingLeft /\ StoredIsHistory
  BY <1>2 DEF ReplayOK, NothingLeft, StoredIsHistory
<1>4. Positions(Kept) = {} /\ Positions(files) = {}
  BY <1>2 DEF Positions, Kept
<1>5. Begins(applied, hist)
  BY <1>2, EmptySeq, BeginsTrivially
<1>6. StoresPrefix(Positions(Kept), slot, hist)
  BY <1>4 DEF StoresPrefix
<1>7. Spells(hist, Positions(files), slot)
  BY <1>2, <1>4, SpellsNothing
<1>8. PrefixStored /\ AllStored
  BY <1>2, <1>5, <1>6, <1>7 DEF PrefixStored, AllStored
<1> QED
  BY <1>1, <1>3, <1>8 DEF WalInv

LEMMA WalInvNext == WalInv /\ [Next]_vars => WalInv'
BY TypeNext, ShapeNext, ReplayOKNext, NothingLeftNext, StoredIsHistoryNext,
   PrefixStoredNext, AllStoredNext DEF WalInv

\* The inductive invariant, for any number of segments, records, crashes and
\* damaged records.
THEOREM WalInvHolds == Spec => []WalInv
BY WalInvInit, WalInvNext, PTL DEF Spec

\* Every variable of the log keeps its type: cursors stay within segments, headers
\* within the capacity, and a replay never reads a header that is not a number.
THEOREM WalTypes == Spec => []TypeOK
<1>1. WalInv => TypeOK
  BY DEF WalInv
<1> QED
  BY <1>1, WalInvHolds, PTL

\* An open log stores exactly the records its users see, in the order a replay
\* visits them, as long as no drop of segments stopped half way.
THEOREM OpenLogIsHistory == Spec => []StoredIsHistory
<1>1. WalInv => StoredIsHistory
  BY DEF WalInv
<1> QED
  BY <1>1, WalInvHolds, PTL

\* The files of an open log are its mapped segments, and at most the empty file of
\* a rollover that failed.
THEOREM NoSegmentLeft == Spec => []NoStaleSegment
<1>1. WalInv => NoStaleSegment
  BY DEF WalInv, NothingLeft, NoStaleSegment
<1> QED
  BY <1>1, WalInvHolds, PTL

-----------------------------------------------------------------------------
(***************************************************************************)
(* What a step may do to the history.                                      *)
(***************************************************************************)

LEMMA BeginsIsPrefix ==
  ASSUME NEW s \in Seq(Written), NEW t \in Seq(Written), Begins(s, t)
  PROVE  IsPrefix(s, t)
<1>1. /\ Len(s) \in Nat /\ Len(t) \in Nat /\ Len(s) <= Len(t)
      /\ \A i \in 1..Len(s) : s[i] = t[i] /\ s[i] \in Written /\ t[i] \in Written
  BY LenProperties, ElementOfSeq DEF Begins
<1>a. PICK a, b : a = SubSeq(s, 1, Len(s)) /\ b = SubSeq(t, 1, Len(s))
  OBVIOUS
<1>2. a \in Seq(Written) /\ Len(a) = Len(s) /\ \A i \in 1..Len(s) : a[i] = s[i]
  BY <1>1, <1>a, SubSeqProperties
<1>3. b \in Seq(Written) /\ Len(b) = Len(s) /\ \A i \in 1..Len(s) : b[i] = t[i]
  BY <1>1, <1>a, SubSeqProperties
<1>4. a = b
  BY <1>1, <1>2, <1>3, SeqEqual
<1> QED
  BY <1>1, <1>4, <1>a DEF IsPrefix

\* The history changes at the end of a recovery and when a record is appended.
LEMMA HistorySteps ==
  ASSUME [Next]_vars
  PROVE  \/ hist' = hist
         \/ (ReplayDone \/ DropDone) /\ hist' = applied
         \/ pc = "idle" /\ hist' = Append(hist, writes')
<1>1. CASE UNCHANGED vars
  BY <1>1 DEF vars, aux
<1>2. CASE AppendRecord
  BY <1>2 DEF AppendRecord
<1>3. CASE ReplayDone \/ DropDone
  BY <1>3 DEF ReplayDone, DropDone, Serve
<1>4. CASE RecoveryStep /\ ~ReplayDone /\ ~DropDone
  BY <1>4 DEF RecoveryStep, OpenSegments, OpenRejected, ReplayRecord,
     ReplayNextSegment, ReplayBadRecord, DropSegment, DropFails, aux, vars
<1>5. CASE Next /\ ~RecoveryStep /\ ~AppendRecord
  BY <1>5 DEF Next, Rollover, RolloverFails, Close, Crash, CrashInInitHeader, OsCrash,
     Corrupt, aux
<1> QED
  BY <1>1, <1>2, <1>3, <1>4, <1>5

\* Recovery keeps a contiguous prefix of the writes, unless it met one of the
\* three weak points of the recovery code: there is no fourth, whatever the size
\* of the log and however many crashes it has been through.
THEOREM RecoveryKeepsPrefix == Spec => RecoversPrefixUnlessExposed
<1>1. ASSUME WalInv, [Next]_vars
      PROVE  \/ IsPrefix(hist', hist)
             \/ pc = "idle" /\ hist' = Append(hist, writes')
             \/ exposed # {}
  <2>1. hist \in Seq(Written) /\ applied \in Seq(Written)
    BY <1>1 DEF WalInv, TypeOK
  <2>2. CASE hist' = hist
    BY <2>1, <2>2, BeginsTrivially, BeginsIsPrefix
  <2>3. CASE hist' = applied
    <3>1. exposed = {} => Begins(applied, hist)
      BY <1>1 DEF WalInv, PrefixStored
    <3> QED
      BY <2>1, <2>3, <3>1, BeginsIsPrefix
  <2> QED
    BY <1>1, <2>2, <2>3, HistorySteps
<1>2. WalInv /\ [Next]_vars =>
        [\/ IsPrefix(hist', hist)
         \/ pc = "idle" /\ hist' = Append(hist, writes')
         \/ exposed # {}]_vars
  BY <1>1
<1> QED
  BY <1>2, WalInvHolds, PTL DEF Spec, RecoversPrefixUnlessExposed

\* The death of the process alone, at any point and any number of times, loses
\* nothing and brings nothing back.
THEOREM ProcessDeathIsHarmless == Spec => ProcessCrashLosesNothing
<1>1. ASSUME WalInv, [Next]_vars, corruptions = 0, osCrashes = 0
      PROVE  hist' = hist \/ (pc = "idle" /\ hist' = Append(hist, writes'))
  <2>0. TypeOK /\ Shape /\ ReplayOK /\ NothingLeft /\ AllStored /\ PrefixStored
    BY <1>1 DEF WalInv
  <2>1. hist \in Seq(Written) /\ applied \in Seq(Written)
    BY <2>0 DEF TypeOK
  <2>2. exposed = {} /\ Spells(hist, Positions(files), slot) /\ Begins(applied, hist)
    BY <1>1, <2>0 DEF AllStored, PrefixStored
  <2>3. CASE (ReplayDone \/ DropDone) /\ hist' = applied
    <3>1. Spells(applied, Positions(segs), slot) /\ files = segs
      BY <2>0, <2>2, <2>3, DoneServes
    <3>2. Len(applied) = Len(hist)
      BY <2>2, <3>1 DEF Spells
    <3>3. \A n \in 1..Len(hist) : applied[n] = hist[n]
      BY <2>2, <3>2 DEF Begins
    <3>4. applied = hist
      BY <2>1, <3>2, <3>3, SeqEqual
    <3> QED
      BY <2>3, <3>4
  <2> QED
    BY <1>1, <2>3, HistorySteps
<1>2. WalInv /\ [Next]_vars =>
        [(corruptions = 0 /\ osCrashes = 0) =>
           \/ hist' = hist
           \/ pc = "idle" /\ hist' = Append(hist, writes')]_vars
  BY <1>1
<1> QED
  BY <1>2, WalInvHolds, PTL DEF Spec, ProcessCrashLosesNothing

\* An Open under kStrict changes no `used` offset: it only ever reads the segments,
\* and a drop of segments is never under way under that policy.
THEOREM StrictKeepsHeaders == Spec => StrictNeverTruncates
<1>1. ASSUME WalInv, [Next]_vars, policy = "strict", osCrashes' = osCrashes
      PROVE  hdr' = hdr
  <2>1. pc = "replay"
    BY <1>1 DEF WalInv, Shape, TypeOK
  <2>2. CASE UNCHANGED vars
    BY <2>2 DEF vars, pages
  <2>3. CASE ReplayBadRecord
    BY <1>1, <2>3 DEF ReplayBadRecord, Refuses
  <2>4. CASE RecoveryStep /\ ~ReplayBadRecord
    BY <2>1, <2>4 DEF RecoveryStep, OpenSegments, OpenRejected, ReplayRecord,
       ReplayNextSegment, ReplayDone, DropSegment, DropFails, DropDone, pages
  <2>5. CASE Next /\ ~RecoveryStep
    BY <2>1, <2>5 DEF Next, AppendRecord, Rollover, RolloverFails, NeedsRollover, Close,
       Crash, CrashInInitHeader, OsCrash, Corrupt, pages
  <2> QED
    BY <1>1, <2>2, <2>3, <2>4, <2>5
<1>2. WalInv /\ [Next]_vars =>
        [(policy = "strict" /\ osCrashes' = osCrashes) =>
           \A f \in File : hdr'[f] = hdr[f]]_vars
  BY <1>1
<1> QED
  BY <1>2, WalInvHolds, PTL DEF Spec, StrictNeverTruncates

=============================================================================
