-------------------------- MODULE HeapRecordsProofs --------------------------
(***************************************************************************)
(* The free list of HeapRecordStore, for any records and any sequence of   *)
(* calls: it holds the dead positions and nothing else, so that no record  *)
(* is overwritten while somebody holds its position.                       *)
(***************************************************************************)
EXTENDS HeapRecords, FiniteSetTheorems, SequenceTheorems, TLAPS

DeadIsNoKey == Dead \notin RecordKey

DeadPositions == {pos \in DOMAIN records : records[pos] = Dead}
LivePositions == {pos \in DOMAIN records : records[pos] # Dead}

NoRepetition(s) == \A i, j \in 1..Len(s) : s[i] = s[j] => i = j

\* The elements of a stack s of positions are those of S, each once.
Holds(s, S) == ToSet(s) = S /\ NoRepetition(s)

HeapInv ==
  /\ records \in Seq(RecordKey \cup {Dead})
  /\ unused \in Seq(Nat)
  /\ Holds(unused, DeadPositions)
  /\ live = Cardinality(LivePositions)

-----------------------------------------------------------------------------
\* A sequence without repetitions is as long as the set of its elements.
LEMMA LenIsCardinality ==
  ASSUME NEW s \in Seq(Nat), NoRepetition(s)
  PROVE  Len(s) = Cardinality(ToSet(s))
<1>1. Len(s) \in Nat /\ DOMAIN s = 1..Len(s) /\ s \in [1..Len(s) -> Nat]
  BY LenProperties
<1>n. PICK n \in Nat : n = Len(s)
  BY <1>1
<1>2. IsFiniteSet(1..n) /\ Cardinality(1..n) = n
  <2>1. IsFiniteSet(1..n) /\ Cardinality(1..n) = IF 1 > n THEN 0 ELSE n - 1 + 1
    BY FS_Interval
  <2> QED
    BY <2>1
<1>3. s \in [1..Len(s) -> ToSet(s)]
  BY <1>1 DEF ToSet
<1>4. s \in Surjection(1..Len(s), ToSet(s))
  BY <1>1, <1>3 DEF ToSet, Surjection
<1>5. s \in Injection(1..Len(s), ToSet(s))
  BY <1>1, <1>3 DEF NoRepetition, Injection, IsInjective
<1> QED
  BY <1>n, <1>2, <1>4, <1>5, FS_Surjection

\* Pushing a position that is not on the stack.
LEMMA Pushed ==
  ASSUME NEW s \in Seq(Nat), NEW S, Holds(s, S), NEW pos \in Nat, pos \notin S
  PROVE  Append(s, pos) \in Seq(Nat) /\ Holds(Append(s, pos), S \cup {pos})
<1>t. PICK t : t = Append(s, pos)
  OBVIOUS
<1>1. /\ t \in Seq(Nat) /\ Len(t) = Len(s) + 1 /\ t[Len(s) + 1] = pos
      /\ \A i \in 1..Len(s) : t[i] = s[i]
  BY <1>t, AppendProperties
<1>2. Len(s) \in Nat /\ DOMAIN s = 1..Len(s) /\ DOMAIN t = 1..(Len(s) + 1)
  BY <1>1, LenProperties
<1>3. 1..(Len(s) + 1) = (1..Len(s)) \cup {Len(s) + 1}
  BY <1>2
<1>4. ToSet(t) = S \cup {pos}
  <2>1. ToSet(t) = {t[i] : i \in 1..Len(s)} \cup {pos}
    BY <1>1, <1>2, <1>3 DEF ToSet
  <2>2. {t[i] : i \in 1..Len(s)} = S
    BY <1>1, <1>2 DEF Holds, ToSet
  <2> QED
    BY <2>1, <2>2
<1>5. \A i \in 1..Len(s) : t[i] # pos
  BY <1>1, <1>2 DEF Holds, ToSet
<1>6. NoRepetition(t)
  BY <1>1, <1>2, <1>3, <1>5 DEF NoRepetition, Holds
<1> QED
  BY <1>1, <1>4, <1>6, <1>t DEF Holds

\* Popping the last one.
LEMMA Popped ==
  ASSUME NEW s \in Seq(Nat), NEW S, Holds(s, S), s # <<>>
  PROVE  /\ Last(s) \in S /\ Front(s) \in Seq(Nat)
         /\ Holds(Front(s), S \ {Last(s)})
<1>1. Len(s) \in Nat \ {0} /\ DOMAIN s = 1..Len(s) /\ \A i \in 1..Len(s) : s[i] \in Nat
  BY LenProperties, EmptySeq, ElementOfSeq
<1>t. PICK t : t = Front(s)
  OBVIOUS
<1>2. /\ t \in Seq(Nat) /\ Len(t) = Len(s) - 1
      /\ \A i \in 1..(Len(s) - 1) : t[i] = s[i]
  BY <1>1, <1>t, SubSeqProperties DEF Front
<1>3. DOMAIN t = 1..(Len(s) - 1) /\ 1..Len(s) = (1..(Len(s) - 1)) \cup {Len(s)}
  BY <1>1, <1>2, LenProperties
<1>p. PICK pos : pos = s[Len(s)]
  OBVIOUS
<1>4. \A i \in 1..(Len(s) - 1) : s[i] # pos
  BY <1>1, <1>3, <1>p DEF Holds, NoRepetition
<1>5. S = {s[i] : i \in 1..(Len(s) - 1)} \cup {pos}
  BY <1>1, <1>3, <1>p DEF Holds, ToSet
<1>6. ToSet(t) = {s[i] : i \in 1..(Len(s) - 1)}
  BY <1>2, <1>3 DEF ToSet
<1>7. ToSet(t) = S \ {pos} /\ pos \in S
  BY <1>4, <1>5, <1>6
<1>8. NoRepetition(t)
  BY <1>1, <1>2, <1>3 DEF NoRepetition, Holds
<1> QED
  BY <1>2, <1>7, <1>8, <1>t, <1>p DEF Holds, Last

LEMMA PositionsOf ==
  ASSUME HeapInv
  PROVE  /\ Len(records) \in Nat /\ DOMAIN records = 1..Len(records)
         /\ IsFiniteSet(LivePositions) /\ live \in Nat
         /\ LivePositions \subseteq 1..Len(records)
         /\ DeadPositions \subseteq 1..Len(records)
<1>1. Len(records) \in Nat /\ DOMAIN records = 1..Len(records)
  BY LenProperties DEF HeapInv
<1>2. IsFiniteSet(1..Len(records))
  BY <1>1, FS_Interval
<1>3. /\ LivePositions \subseteq 1..Len(records) /\ DeadPositions \subseteq 1..Len(records)
  BY <1>1 DEF LivePositions, DeadPositions
<1>4. IsFiniteSet(LivePositions) /\ Cardinality(LivePositions) \in Nat
  BY <1>2, <1>3, FS_Subset, FS_CardinalityType
<1> QED
  BY <1>1, <1>3, <1>4 DEF HeapInv

LEMMA AddKeeps ==
  ASSUME DeadIsNoKey, HeapInv, NEW key \in RecordKey, Add(key)
  PROVE  HeapInv'
<1> DEFINE Record == RecordKey \cup {Dead}
<1>1. /\ records \in Seq(Record) /\ unused \in Seq(Nat) /\ key # Dead
      /\ Holds(unused, DeadPositions) /\ live = Cardinality(LivePositions)
  BY DEF HeapInv, DeadIsNoKey
<1>2. CASE unused = <<>>
  <2> DEFINE n == Len(records) + 1
  <2>1. records' = Append(records, key) /\ unused' = unused /\ live' = live + 1
    BY <1>2 DEF Add
  <2>2. /\ records' \in Seq(Record) /\ Len(records') = n /\ records'[n] = key
        /\ \A i \in 1..Len(records) : records'[i] = records[i]
    BY <1>1, <2>1, AppendProperties
  <2>3. DOMAIN records' = (1..Len(records)) \cup {n} /\ n \in Nat /\ n \notin 1..Len(records)
    BY <2>2, PositionsOf, LenProperties
  <2>4. LivePositions' = LivePositions \cup {n} /\ DeadPositions' = DeadPositions
    BY <1>1, <2>2, <2>3, PositionsOf DEF LivePositions, DeadPositions
  <2>5. Cardinality(LivePositions') = live + 1
    BY <1>1, <2>3, <2>4, PositionsOf, FS_AddElement
  <2> QED
    BY <1>1, <2>1, <2>2, <2>4, <2>5 DEF HeapInv
<1>3. CASE unused # <<>>
  <2>p. PICK pos : pos = Last(unused)
    OBVIOUS
  <2>1. /\ records' = [records EXCEPT ![pos] = key] /\ unused' = Front(unused)
        /\ live' = live + 1
    BY <1>3, <2>p DEF Add
  <2>2. /\ pos \in DeadPositions /\ unused' \in Seq(Nat)
        /\ Holds(unused', DeadPositions \ {pos})
    BY <1>1, <1>3, <2>1, <2>p, Popped
  <2>3. pos \in 1..Len(records) /\ pos \notin LivePositions
    BY <2>2, PositionsOf DEF LivePositions, DeadPositions
  <2>4. records' \in Seq(Record) /\ Len(records') = Len(records)
    BY <1>1, <2>1, <2>3, ExceptSeq
  <2>5. LivePositions' = LivePositions \cup {pos} /\ DeadPositions' = DeadPositions \ {pos}
    BY <1>1, <2>1, <2>3, PositionsOf DEF LivePositions, DeadPositions
  <2>6. Cardinality(LivePositions') = live + 1
    BY <1>1, <2>3, <2>5, PositionsOf, FS_AddElement
  <2> QED
    BY <2>1, <2>2, <2>4, <2>5, <2>6 DEF HeapInv
<1> QED
  BY <1>2, <1>3

LEMMA FreeKeeps ==
  ASSUME DeadIsNoKey, HeapInv, NEW pos \in Nat, Free(pos)
  PROVE  HeapInv'
<1> DEFINE Record == RecordKey \cup {Dead}
<1>1. /\ records \in Seq(Record) /\ unused \in Seq(Nat)
      /\ Holds(unused, DeadPositions) /\ live = Cardinality(LivePositions)
  BY DEF HeapInv
<1>2. CASE ~IsLive(pos)
  BY <1>2 DEF Free, recordVars, HeapInv, LivePositions, DeadPositions
<1>3. CASE IsLive(pos)
  <2>1. /\ records' = [records EXCEPT ![pos] = Dead] /\ unused' = Append(unused, pos)
        /\ live' = live - 1
    BY <1>3 DEF Free
  <2>2. pos \in LivePositions /\ pos \notin DeadPositions /\ pos \in 1..Len(records)
    BY <1>3, PositionsOf DEF IsLive, LivePositions, DeadPositions
  <2>3. records' \in Seq(Record) /\ Len(records') = Len(records)
    BY <1>1, <2>1, <2>2, ExceptSeq
  <2>4. unused' \in Seq(Nat) /\ Holds(unused', DeadPositions \cup {pos})
    BY <1>1, <2>1, <2>2, Pushed
  <2>5. LivePositions' = LivePositions \ {pos} /\ DeadPositions' = DeadPositions \cup {pos}
    BY <1>1, <2>1, <2>2, PositionsOf DEF LivePositions, DeadPositions
  <2>6. Cardinality(LivePositions') = live - 1
    BY <1>1, <2>2, <2>5, PositionsOf, FS_RemoveElement
  <2> QED
    BY <2>1, <2>3, <2>4, <2>5, <2>6 DEF HeapInv
<1> QED
  BY <1>2, <1>3

-----------------------------------------------------------------------------
\* The inductive invariant, for any keys and any number of records.
THEOREM HeapInvHolds == ASSUME DeadIsNoKey PROVE Spec => []HeapInv
<1>1. Init => HeapInv
  <2> SUFFICES ASSUME Init PROVE HeapInv
    OBVIOUS
  <2>1. records = <<>> /\ unused = <<>> /\ live = 0
    BY DEF Init
  <2>2. DOMAIN records = {} /\ DOMAIN unused = {} /\ Len(unused) = 0
    BY <2>1, EmptySeq
  <2>3. DeadPositions = {} /\ LivePositions = {} /\ Cardinality(LivePositions) = 0
    BY <2>2, FS_EmptySet DEF DeadPositions, LivePositions
  <2>4. Holds(unused, {})
    BY <2>2 DEF Holds, ToSet, NoRepetition
  <2> QED
    BY <2>1, <2>3, <2>4, EmptySeq DEF HeapInv
<1>2. HeapInv /\ [Next]_recordVars => HeapInv'
  <2> SUFFICES ASSUME HeapInv, [Next]_recordVars PROVE HeapInv'
    OBVIOUS
  <2>1. CASE UNCHANGED recordVars
    BY <2>1 DEF recordVars, HeapInv, DeadPositions, LivePositions
  <2>2. CASE Next
    BY <2>2, AddKeeps, FreeKeeps DEF Next
  <2> QED
    BY <2>1, <2>2
<1> QED
  BY <1>1, <1>2, PTL DEF Spec

\* HeapRecordStore::Add and Free: every dead position is on the free list, once,
\* nothing else is, and Len() counts the rest.
THEOREM FreeListAlwaysDead == ASSUME DeadIsNoKey PROVE Spec => []FreeListIsDead
<1>1. HeapInv => FreeListIsDead
  BY LenIsCardinality DEF HeapInv, Holds, FreeListIsDead, DeadPositions, LivePositions
<1> QED
  BY <1>1, HeapInvHolds, PTL

\* Add never gives out the position of a live record: a record stays as it is until
\* its own position is freed.
LiveIsKept ==
  [][\A pos \in DOMAIN records :
       records[pos] # Dead =>
         pos \in DOMAIN records' /\ records'[pos] \in {records[pos], Dead}]_recordVars

\* The positions that the index holds keep their records, whatever else is added
\* and freed.
THEOREM LiveAlwaysKept == ASSUME DeadIsNoKey PROVE Spec => LiveIsKept
<1>1. ASSUME HeapInv, [Next]_recordVars, NEW pos \in DOMAIN records, records[pos] # Dead
      PROVE  pos \in DOMAIN records' /\ records'[pos] \in {records[pos], Dead}
  <2>1. CASE UNCHANGED recordVars
    BY <1>1, <2>1 DEF recordVars
  <2>2. CASE \E key \in RecordKey : Add(key)
    <3>1. PICK key \in RecordKey : Add(key)
      BY <2>2
    <3>2. CASE unused = <<>>
      <4>1. records' = Append(records, key) /\ records \in Seq(RecordKey \cup {Dead})
        BY <1>1, <3>1, <3>2 DEF Add, HeapInv
      <4>2. /\ records' \in Seq(RecordKey \cup {Dead}) /\ Len(records') = Len(records) + 1
            /\ \A i \in 1..Len(records) : records'[i] = records[i]
        BY <4>1, AppendProperties
      <4>3. pos \in 1..Len(records) /\ Len(records) \in Nat /\ DOMAIN records' = 1..Len(records')
        BY <1>1, <4>2, PositionsOf, LenProperties
      <4> QED
        BY <4>2, <4>3
    <3>3. CASE unused # <<>>
      <4>1. records' = [records EXCEPT ![Last(unused)] = key]
        BY <3>1, <3>3 DEF Add
      <4>2. Last(unused) \in DeadPositions
        BY <1>1, <3>3, Popped DEF HeapInv
      <4>3. pos # Last(unused)
        BY <1>1, <4>2 DEF DeadPositions
      <4> QED
        BY <4>1, <4>3
    <3> QED
      BY <3>2, <3>3
  <2>3. CASE \E p \in Nat : Free(p)
    BY <2>3 DEF Free, recordVars
  <2> QED
    BY <1>1, <2>1, <2>2, <2>3 DEF Next
<1>2. HeapInv /\ [Next]_recordVars =>
        [\A pos \in DOMAIN records :
           records[pos] # Dead =>
             pos \in DOMAIN records' /\ records'[pos] \in {records[pos], Dead}]_recordVars
  BY <1>1
<1> QED
  BY <1>2, HeapInvHolds, PTL DEF Spec, LiveIsKept
=============================================================================
