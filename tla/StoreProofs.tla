---------------------------- MODULE StoreProofs ----------------------------
(***************************************************************************)
(* Theorems about module Store, for every value of its constants, in three *)
(* parts: what holds whatever fails (types, MANIFEST and its files), what  *)
(* a reader sees where a switch of generations does not fail half way      *)
(* (Inv and SwitchNeverFails of StoreInv), and what is left where it does  *)
(* (FaultInv of StoreInv).                                                 *)
(***************************************************************************)
EXTENDS StoreInv, WellFoundedInduction, SequenceTheorems, FiniteSetTheorems,
        TLAPS

-----------------------------------------------------------------------------
(***************************************************************************)
(* The least and the greatest element of a set of numbers.                 *)
(***************************************************************************)

\* A set of naturals that is not empty has a least element.
LEMMA LeastNatural ==
  ASSUME NEW S \in SUBSET Nat, S # {}
  PROVE  \E x \in S : \A y \in S : x <= y
<1>1. \E x \in S : \A y \in S : <<y, x>> \notin OpToRel(<, Nat)
  BY WFMin, NatLessThanWellFounded, Zenon
<1>2. \A x, y \in Nat : y < x => <<y, x>> \in OpToRel(<, Nat)
  BY Zenon DEF OpToRel
<1>3. \E x \in S : \A y \in S : ~ (y < x)
  BY <1>1, <1>2, Zenon
<1> QED
  BY <1>3

\* Smallest(S), the file or generation the code visits first, is in S.
LEMMA SmallestIsLeast ==
  ASSUME NEW S \in SUBSET Nat, S # {}
  PROVE  Smallest(S) \in S /\ \A y \in S : Smallest(S) <= y
BY LeastNatural DEF Smallest

\* Largest(S), the file that becomes the active segment, is in S.
LEMMA LargestIsGreatest ==
  ASSUME NEW n \in Nat, NEW S \in SUBSET (1..n), S # {}
  PROVE  Largest(S) \in S /\ \A y \in S : y <= Largest(S)
<1> DEFINE T == {n - x : x \in S}
<1>1. T \in SUBSET Nat
  <2> SUFFICES ASSUME NEW x \in S PROVE n - x \in Nat
    OBVIOUS
  <2>1. x \in 1..n
    OBVIOUS
  <2> QED
    BY <2>1
<1>2. T # {}
  OBVIOUS
<1>3. PICK x \in S : \A t \in T : n - x <= t
  <2> HIDE DEF T
  <2>1. PICK t \in T : \A u \in T : t <= u
    BY <1>1, <1>2, LeastNatural
  <2>2. PICK x \in S : t = n - x
    BY <2>1 DEF T
  <2> QED
    BY <2>1, <2>2
<1>4. ASSUME NEW y \in S PROVE y <= x
  <2>1. n - y \in T
    OBVIOUS
  <2>2. n - x <= n - y
    BY <1>3, <2>1
  <2>3. x \in 1..n /\ y \in 1..n
    OBVIOUS
  <2> QED
    BY <2>2, <2>3
<1> QED
  BY <1>4 DEF Largest

-----------------------------------------------------------------------------
(***************************************************************************)
(* Type correctness.                                                       *)
(***************************************************************************)

\* The initial values of the memory and of the local variables.
LEMMA EmptyType ==
  /\ Empty \in Content
  /\ SlotsOf(Empty) \in [Key -> Pos]
  /\ NoRecord \in Pending
  /\ NoPos \in Pos
  /\ 1 \in Gen /\ 1 \in File
  /\ <<1, 1>> \in File \X (Nat \ {0})
BY StoreAssumption
   DEF Empty, Content, Payload, SlotsOf, Pending, NoPos, Pos, Gen, File

\* An index over the slots of a snapshot.
LEMMA SlotsType == ASSUME NEW s \in Content PROVE SlotsOf(s) \in [Key -> Pos]
BY DEF SlotsOf, Content, Pos, Slot, NoPos

\* The generation Open works on is one.
LEMMA CurrentGenType == ASSUME DiskTypeOK PROVE CurrentGen \in Gen
BY StoreAssumption DEF DiskTypeOK, CurrentGen, Gen

\* The segments that Open maps, and the one that becomes active.
LEMMA SegmentsToOpenType ==
  ASSUME DiskTypeOK, NEW g \in Gen
  PROVE  /\ SegmentsToOpen(g) \in SUBSET File
         /\ SegmentsToOpen(g) # {}
         /\ Smallest(SegmentsToOpen(g)) \in SegmentsToOpen(g)
         /\ Largest(SegmentsToOpen(g)) \in SegmentsToOpen(g)
<1>1. SegmentsToOpen(g) \in SUBSET File /\ SegmentsToOpen(g) # {}
  BY EmptyType DEF DiskTypeOK, SegmentsToOpen
<1>2. File \in SUBSET Nat
  BY DEF File
<1>3. Smallest(SegmentsToOpen(g)) \in SegmentsToOpen(g)
  BY <1>1, <1>2, SmallestIsLeast
<1>4. Largest(SegmentsToOpen(g)) \in SegmentsToOpen(g)
  BY <1>1, LargestIsGreatest, StoreAssumption DEF File
<1> QED
  BY <1>1, <1>3, <1>4

\* The generation that a cleanup removes next is one of those it listed.
LEMMA SmallestGenType ==
  ASSUME NEW S \in SUBSET Gen, S # {}
  PROVE  Smallest(S) \in S /\ Smallest(S) \in Gen
<1>1. S \in SUBSET Nat
  BY DEF Gen
<1> QED
  BY <1>1, SmallestIsLeast

\* What the log holds.
LEMMA LogType ==
  ASSUME DiskTypeOK, NEW g \in Gen, NEW f \in File
  PROVE  /\ walLog[g][f] \in Seq(Record)
         /\ DOMAIN walLog[g][f] = 1..Len(walLog[g][f])
         /\ Len(walLog[g][f]) \in Nat
         /\ \A i \in DOMAIN walLog[g][f] :
              /\ i \in Nat \ {0}
              /\ walLog[g][f][i] \in Record
              /\ walLog[g][f][i].key \in Key
              /\ walLog[g][f][i].val \in Payload
<1>1. walLog[g][f] \in Seq(Record)
  BY DEF DiskTypeOK
<1>2. /\ DOMAIN walLog[g][f] = 1..Len(walLog[g][f])
      /\ Len(walLog[g][f]) \in Nat
  BY <1>1, LenProperties
<1>3. \A i \in 1..Len(walLog[g][f]) : walLog[g][f][i] \in Record
  BY <1>1, ElementOfSeq
<1> QED
  BY <1>1, <1>2, <1>3 DEF Record

\* A record that is appended to a log.
LEMMA AppendType ==
  ASSUME DiskTypeOK, NEW g \in Gen, NEW f \in File, NEW r \in Record
  PROVE  [walLog EXCEPT ![g][f] = Append(@, r)] \in [Gen -> [File -> Seq(Record)]]
<1>1. Append(walLog[g][f], r) \in Seq(Record)
  BY AppendProperties DEF DiskTypeOK
<1> QED
  BY <1>1 DEF DiskTypeOK

\* A readable position has a value.
LEMMA GetType ==
  ASSUME DiskTypeOK, MemoryTypeOK, NEW k \in Key,
         index[k] = NoPos \/ Readable(index[k])
  PROVE  Get(k) \in Payload
<1>1. CASE index[k] = NoPos
  BY <1>1 DEF Get, Payload
<1>2. CASE index[k] # NoPos /\ Readable(index[k])
  <2>1. CASE index[k][1] = 0
    <3>1. index[k][2] \in Key
      BY <1>2, <2>1 DEF MemoryTypeOK, Pos, Readable, File
    <3> QED
      BY <1>2, <2>1, <3>1 DEF Get, ValueAt, MemoryTypeOK, Content
  <2>2. CASE index[k][1] # 0
    <3>1. index[k][1] \in File /\ index[k][2] \in DOMAIN walLog[gen][index[k][1]]
      BY <1>2, <2>2 DEF MemoryTypeOK, Pos, Readable
    <3>2. walLog[gen][index[k][1]][index[k][2]].val \in Payload
      BY <3>1, LogType DEF MemoryTypeOK
    <3> QED
      BY <1>2, <2>2, <3>2 DEF Get, ValueAt
  <2> QED
    BY <2>1, <2>2
<1> QED
  BY <1>1, <1>2


\* Steps that return, or that end the process, leave typed variables.
LEMMA ReturnType == ASSUME Return PROVE LocalsTypeOK' /\ caller' = "none"
BY EmptyType DEF Return, LocalsTypeOK

LEMMA GoneType ==
  ASSUME Gone
  PROVE  /\ MemoryTypeOK' /\ LocalsTypeOK'
         /\ pc' = "closed" /\ caller' = "none"
<1>1. LocalsTypeOK' /\ caller' = "none"
  BY ReturnType DEF Gone
<1>2. MemoryTypeOK'
  BY EmptyType DEF Gone, MemoryTypeOK
<1> QED
  BY <1>1, <1>2 DEF Gone

LEMMA FinishType ==
  ASSUME MemoryTypeOK, NEW failed, Finish(failed)
  PROVE  /\ MemoryTypeOK' /\ LocalsTypeOK'
         /\ pc' \in {"closed", "idle"} /\ caller' = "none"
<1>1. CASE Gone
  BY <1>1, GoneType
<1>2. CASE pc' = "idle" /\ Return /\ UNCHANGED <<records, index>>
  <2>1. LocalsTypeOK' /\ caller' = "none"
    BY <1>2, ReturnType
  <2>2. MemoryTypeOK'
    BY <1>2 DEF MemoryTypeOK, records
  <2> QED
    BY <1>2, <2>1, <2>2
<1> QED
  BY <1>1, <1>2 DEF Finish

LEMMA DiskSameType == ASSUME DiskTypeOK, UNCHANGED disk PROVE DiskTypeOK'
BY DEF DiskTypeOK, disk

\* Type correctness, with what the phases say of the local variables.
TypeInv == TypeOK /\ LocalsOK

\* Between operations nothing is asked of the local variables.
LEMMA AtRestLocals ==
  ASSUME pc' \in {"closed", "idle"}, caller' = "none" PROVE LocalsOK'
BY DEF LocalsOK, Committing, CheckpointPhases

LEMMA TypeInit == Init => TypeInv
<1> SUFFICES ASSUME Init PROVE TypeInv
  OBVIOUS
<1>1. DiskTypeOK
  <2>1. <<>> \in Seq(Record)
    BY EmptySeq
  <2> QED
    BY <2>1, EmptyType, StoreAssumption DEF Init, DiskTypeOK, Gen
<1>2. MemoryTypeOK /\ LocalsTypeOK
  BY EmptyType DEF Init, MemoryTypeOK, LocalsTypeOK
<1>3. LocalsOK /\ pc \in Phases
  BY DEF Init, LocalsOK, Phases, Committing, CheckpointPhases
<1> QED
  BY <1>1, <1>2, <1>3 DEF TypeInv, TypeOK

\* The steps of Open.
LEMMA TypeOpen ==
  ASSUME TypeInv, OpenRecords \/ OpenFails \/ OpenStep
  PROVE  TypeInv'
<1> USE DEF TypeInv, TypeOK
<1>1. CASE OpenRecords
  <2> DEFINE ids == SegmentsToOpen(CurrentGen)
  <2>1. CurrentGen \in Gen
    BY CurrentGenType
  <2>2. /\ ids \in SUBSET File
        /\ Smallest(ids) \in File
        /\ ActiveOf(ids) \in File
    BY <2>1, SegmentsToOpenType DEF ActiveOf
  <2>3. /\ gen' = CurrentGen
        /\ segs' = ids
        /\ active' = ActiveOf(ids)
        /\ cursor' = <<Smallest(ids), 1>>
        /\ walDirs' = walDirs \cup {CurrentGen}
        /\ walFiles' = [walFiles EXCEPT ![CurrentGen] = ids]
        /\ pc' \in {"replay", "loadSnapshot"} /\ caller' = "open"
        /\ UNCHANGED <<manifest, snapFiles, snapData, walLog, snapRecs, index,
                       pending, entries, todo, err>>
    BY <1>1 DEF OpenRecords
  <2> HIDE DEF ids
  <2>4. DiskTypeOK'
    BY <2>1, <2>2, <2>3 DEF DiskTypeOK
  <2>5. MemoryTypeOK'
    BY <2>1, <2>2, <2>3 DEF MemoryTypeOK
  <2>6. LocalsTypeOK'
    BY <2>2, <2>3 DEF LocalsTypeOK
  <2>7. LocalsOK' /\ pc' \in Phases
    BY <2>3 DEF LocalsOK, Phases, Committing, CheckpointPhases
  <2> QED
    BY <2>4, <2>5, <2>6, <2>7
<1>2. CASE OpenFails
  <2>1. CurrentGen \in Gen /\ SegmentsToOpen(CurrentGen) \in SUBSET File
    BY CurrentGenType, SegmentsToOpenType
  <2>2. DiskTypeOK'
    BY <1>2, <2>1 DEF DiskTypeOK, OpenFails
  <2>3. UNCHANGED <<records, index, pc, locals>>
    BY <1>2 DEF OpenFails
  <2> QED
    BY <2>2, <2>3 DEF MemoryTypeOK, LocalsTypeOK, LocalsOK, records, locals
<1>3. CASE LoadSnapshot
  <2>1. DiskTypeOK'
    BY <1>3, DiskSameType DEF LoadSnapshot
  <2>2. CASE Gone
    BY <2>1, <2>2, GoneType, AtRestLocals DEF Phases
  <2>3. CASE gen \in snapFiles
    <3>1. /\ snapRecs' = snapData[gen]
          /\ index' = SlotsOf(snapData[gen])
          /\ pc' = "replay"
          /\ UNCHANGED <<gen, segs, active, locals>>
          /\ pc = "loadSnapshot"
      BY <1>3, <2>3 DEF LoadSnapshot
    <3>2. snapData[gen] \in Content
      BY DEF DiskTypeOK, MemoryTypeOK
    <3>3. MemoryTypeOK'
      BY <3>1, <3>2, SlotsType DEF MemoryTypeOK
    <3>4. LocalsTypeOK' /\ LocalsOK' /\ pc' \in Phases
      BY <3>1 DEF LocalsTypeOK, LocalsOK, Phases, locals, Committing,
                  CheckpointPhases
    <3> QED
      BY <2>1, <3>3, <3>4
  <2> QED
    BY <1>3, <2>2, <2>3 DEF LoadSnapshot
<1>4. CASE ReplayRecord
  <2> DEFINE r == walLog[gen][cursor[1]][cursor[2]]
  <2>1. cursor = <<cursor[1], cursor[2]>> /\ cursor[1] \in File
        /\ cursor[2] \in Nat \ {0}
    BY DEF LocalsTypeOK
  <2>2. r.key \in Key
    BY <1>4, <2>1, LogType DEF ReplayRecord, MemoryTypeOK
  <2>3. /\ index' = Applied(r, cursor)
        /\ cursor' = <<cursor[1], cursor[2] + 1>>
        /\ UNCHANGED <<disk, records, pc, caller, pending, entries, todo, err>>
        /\ pc = "replay"
    BY <1>4 DEF ReplayRecord
  <2>4. DiskTypeOK'
    BY <2>3, DiskSameType
  <2> HIDE DEF r
  <2>5. MemoryTypeOK'
    BY <2>1, <2>2, <2>3, EmptyType DEF MemoryTypeOK, records, Applied, Pos
  <2>6. LocalsTypeOK' /\ LocalsOK' /\ pc' \in Phases
    BY <2>1, <2>3 DEF LocalsTypeOK, LocalsOK, Phases, Committing, CheckpointPhases
  <2> QED
    BY <2>4, <2>5, <2>6
<1>5. CASE ReplayNextSegment
  <2>1. /\ cursor' = <<Smallest(LaterSegments), 1>>
        /\ LaterSegments # {}
        /\ UNCHANGED <<disk, records, index, pc, caller, pending, entries, todo, err>>
        /\ pc = "replay"
    BY <1>5 DEF ReplayNextSegment
  <2>2. Smallest(LaterSegments) \in File
    <3>1. LaterSegments \in SUBSET File
      BY DEF LaterSegments, MemoryTypeOK
    <3>2. File \in SUBSET Nat
      BY DEF File
    <3> QED
      BY <2>1, <3>1, <3>2, SmallestIsLeast
  <2>3. DiskTypeOK' /\ MemoryTypeOK'
    BY <2>1, DiskSameType DEF MemoryTypeOK, records
  <2>4. LocalsTypeOK' /\ LocalsOK' /\ pc' \in Phases
    BY <2>1, <2>2 DEF LocalsTypeOK, LocalsOK, Phases, Committing, CheckpointPhases
  <2> QED
    BY <2>3, <2>4
<1>6. CASE ReplayDone
  <2>1. DiskTypeOK'
    BY <1>6, DiskSameType DEF ReplayDone
  <2>2. CASE Finish(FALSE)
    BY <2>1, <2>2, FinishType, AtRestLocals DEF Phases
  <2>3. CASE manifest # 0
    <3>1. /\ pc = "replay" /\ pc' = "cleanWal"
          /\ todo' = walDirs \ {gen}
          /\ cursor' = <<1, 1>>
          /\ UNCHANGED <<records, index, caller, pending, entries, err>>
      BY <1>6, <2>3 DEF ReplayDone, StartCleaning
    <3>2. MemoryTypeOK'
      BY <3>1 DEF MemoryTypeOK, records
    <3>3. LocalsTypeOK' /\ LocalsOK' /\ pc' \in Phases
      BY <3>1, EmptyType DEF LocalsTypeOK, LocalsOK, Phases, DiskTypeOK,
                             Committing, CheckpointPhases
    <3> QED
      BY <2>1, <3>2, <3>3
  <2> QED
    BY <1>6, <2>2, <2>3 DEF ReplayDone
<1> QED
  BY <1>1, <1>2, <1>3, <1>4, <1>5, <1>6 DEF OpenStep


\* The steps of Put and Delete.
LEMMA AppliedType ==
  ASSUME MemoryTypeOK, NEW r \in Record, NEW p \in Pos
  PROVE  Applied(r, p) \in [Key -> Pos]
BY EmptyType DEF Applied, MemoryTypeOK, Record

LEMMA TypeAppend ==
  ASSUME TypeInv, NEW r \in Record, AppendAndPublish(r), gen < MaxGen
  PROVE  TypeInv'
<1> USE DEF TypeInv, TypeOK
<1>1. NextPos \in Pos
  <2>1. Len(walLog[gen][active]) \in Nat /\ active \in File
    BY LogType DEF MemoryTypeOK
  <2> QED
    BY <2>1 DEF NextPos, Pos
<1>2. /\ walLog' = [walLog EXCEPT ![gen][active] = Append(@, r)]
      /\ index' = Applied(r, NextPos)
      /\ \/ pc' = "ckCollect" /\ caller' = "write"
         \/ pc' = "idle" /\ caller' = "none"
      /\ pending' = NoRecord
      /\ UNCHANGED <<manifest, snapFiles, snapData, walDirs, walFiles, records,
                     entries, cursor, todo, err>>
  BY DEF AppendAndPublish
<1>3. DiskTypeOK'
  <2>1. walLog' \in [Gen -> [File -> Seq(Record)]]
    BY <1>2, AppendType DEF MemoryTypeOK
  <2> QED
    BY <1>2, <2>1 DEF DiskTypeOK
<1>4. MemoryTypeOK'
  BY <1>1, <1>2, AppliedType DEF MemoryTypeOK, records
<1>5. LocalsTypeOK' /\ LocalsOK' /\ pc' \in Phases
  BY <1>2, EmptyType DEF LocalsTypeOK, LocalsOK, Phases, records, Committing,
                         CheckpointPhases
<1> QED
  BY <1>3, <1>4, <1>5

LEMMA TypeWrite ==
  ASSUME TypeInv,
         \/ \E k \in Key, v \in Payload :
              Write(k, v) \/ WriteRollover(k, v) \/ RolloverFails(k, v)
         \/ RetryStep
  PROVE  TypeInv'
<1> USE DEF TypeInv, TypeOK
<1>0. active \in File /\ (active < MaxFile => active + 1 \in File)
  BY StoreAssumption DEF MemoryTypeOK, File
<1>1. ASSUME NEW k \in Key, NEW v \in Payload, Write(k, v) PROVE TypeInv'
  <2>1. [key |-> k, val |-> v] \in Record
    BY DEF Record
  <2> QED
    BY <1>1, <2>1, TypeAppend DEF Write, CanWrite
<1>2. ASSUME NEW k \in Key, NEW v \in Payload, WriteRollover(k, v) PROVE TypeInv'
  <2>1. /\ gen < MaxGen /\ active + 1 \in File
        /\ walFiles' = [walFiles EXCEPT ![gen] = @ \cup {active + 1}]
        /\ segs' = segs \cup {active + 1}
        /\ active' = active + 1
        /\ pending' = [key |-> k, val |-> v, old |-> index[k]]
        /\ index' = IF v = Missing THEN [index EXCEPT ![k] = NoPos] ELSE index
        /\ pc' = "retry" /\ caller' = "write"
        /\ UNCHANGED <<manifest, snapFiles, snapData, walDirs, walLog, gen,
                       snapRecs, entries, cursor, todo, err>>
    BY <1>0, <1>2 DEF WriteRollover, CanWrite
  <2>2. DiskTypeOK'
    BY <2>1 DEF DiskTypeOK, MemoryTypeOK
  <2>3. MemoryTypeOK'
    BY <2>1, EmptyType DEF MemoryTypeOK
  <2>4. LocalsTypeOK' /\ LocalsOK' /\ pc' \in Phases
    <3>1. index[k] \in Pos
      BY DEF MemoryTypeOK
    <3>2. pending' \in Pending /\ pending'.key \in Key
      BY <2>1, <3>1 DEF Pending
    <3> QED
      BY <2>1, <3>2 DEF LocalsTypeOK, LocalsOK, Phases, Committing,
                        CheckpointPhases
  <2> QED
    BY <2>2, <2>3, <2>4
<1>3. ASSUME NEW k \in Key, NEW v \in Payload, RolloverFails(k, v) PROVE TypeInv'
  <2>1. /\ active + 1 \in File
        /\ walFiles' = [walFiles EXCEPT ![gen] = @ \cup {active + 1}]
        /\ UNCHANGED <<manifest, snapFiles, snapData, walDirs, walLog, records,
                       index, pc, locals>>
    BY <1>0, <1>3 DEF RolloverFails
  <2>2. DiskTypeOK'
    BY <2>1 DEF DiskTypeOK, MemoryTypeOK
  <2> QED
    BY <2>1, <2>2 DEF MemoryTypeOK, LocalsTypeOK, LocalsOK, records, locals
<1>4. CASE RetryAppend
  <2>1. pc = "retry" /\ AppendAndPublish([key |-> pending.key, val |-> pending.val])
    BY <1>4 DEF RetryAppend
  <2>2. gen < MaxGen /\ pending.key \in Key
    BY <2>1 DEF LocalsOK, Committing
  <2>3. pending.val \in Payload
    BY DEF LocalsTypeOK, Pending, NoRecord, Payload
  <2> QED
    BY <2>1, <2>2, <2>3, TypeAppend DEF Record
<1>5. CASE RetryFails
  <2>1. /\ pc = "retry" /\ pc' = "idle"
        /\ index' = IF pending.val = Missing
                    THEN [index EXCEPT ![pending.key] = pending.old]
                    ELSE index
        /\ Return
        /\ UNCHANGED <<disk, records>>
    BY <1>5 DEF RetryFails
  <2>2. pending.old \in Pos
    BY EmptyType DEF LocalsTypeOK, Pending, NoRecord
  <2>3. MemoryTypeOK'
    BY <2>1, <2>2 DEF MemoryTypeOK, records
  <2> QED
    BY <2>1, <2>3, DiskSameType, ReturnType, AtRestLocals DEF Phases
<1> QED
  BY <1>1, <1>2, <1>3, <1>4, <1>5 DEF RetryStep


\* The steps of a checkpoint.
LEMMA NextGenType == ASSUME TypeInv, pc \in Committing PROVE NextGen \in Gen
BY StoreAssumption
   DEF TypeInv, TypeOK, MemoryTypeOK, LocalsOK, NextGen, Gen

LEMMA TypeCheckpoint ==
  ASSUME TypeInv,
         \/ CheckpointStep \/ SnapshotFails \/ CreateWalDirFails
         \/ ManifestFails \/ ManifestSyncFails \/ ResetFails
  PROVE  TypeInv'
<1> USE DEF TypeInv, TypeOK
<1>0. /\ pc \in Committing => NextGen \in Gen
      /\ Gen \subseteq 0..MaxGen
  BY NextGenType DEF Gen
<1>1. CASE Collect
  <2>1. DiskTypeOK'
    BY <1>1, DiskSameType DEF Collect
  <2>2. CASE Finish(TRUE)
    BY <2>1, <2>2, FinishType, AtRestLocals DEF Phases
  <2>3. CASE \A k \in Key : index[k] = NoPos \/ Readable(index[k])
    <3>1. /\ pc = "ckCollect" /\ pc' = "ckSnapshot"
          /\ entries' = [k \in Key |-> Get(k)]
          /\ UNCHANGED <<records, index, caller, pending, cursor, todo, err>>
      BY <1>1, <2>3 DEF Collect
    <3>2. entries' \in Content
      BY <2>3, <3>1, GetType DEF Content
    <3>3. MemoryTypeOK' /\ LocalsTypeOK' /\ LocalsOK' /\ pc' \in Phases
      BY <3>1, <3>2 DEF MemoryTypeOK, LocalsTypeOK, LocalsOK, Phases, records,
                        Committing, CheckpointPhases
    <3> QED
      BY <2>1, <3>3
  <2> QED
    BY <1>1, <2>2, <2>3 DEF Collect
<1>2. ASSUME PublishSnapshot, pc = "ckSnapshot" PROVE DiskTypeOK'
  <2>1. NextGen \in Gen
    BY <1>0, <1>2 DEF Committing
  <2> QED
    BY <1>2, <2>1 DEF PublishSnapshot, DiskTypeOK, LocalsTypeOK
<1>3. ASSUME PublishManifest, pc = "ckManifest" PROVE DiskTypeOK'
  <2>1. NextGen \in 0..MaxGen
    BY <1>0, <1>3 DEF Committing
  <2> QED
    BY <1>3, <2>1 DEF PublishManifest, DiskTypeOK
<1>4. CASE WriteSnapshot
  <2>1. DiskTypeOK'
    BY <1>2, <1>4 DEF WriteSnapshot
  <2>2. pc = "ckSnapshot" /\ pc' = "ckDirs" /\ UNCHANGED <<records, index, locals>>
    BY <1>4 DEF WriteSnapshot
  <2> QED
    BY <2>1, <2>2 DEF MemoryTypeOK, LocalsTypeOK, LocalsOK, Phases, records,
                      locals, Committing, CheckpointPhases
<1>5. CASE CreateWalDir
  <2>1. DiskTypeOK'
    BY <1>0, <1>5 DEF CreateWalDir, DiskTypeOK, Committing
  <2>2. pc = "ckDirs" /\ pc' = "ckManifest" /\ UNCHANGED <<records, index, locals>>
    BY <1>5 DEF CreateWalDir
  <2> QED
    BY <2>1, <2>2 DEF MemoryTypeOK, LocalsTypeOK, LocalsOK, Phases, records,
                      locals, Committing, CheckpointPhases
<1>6. CASE WriteManifest
  <2>1. DiskTypeOK'
    BY <1>3, <1>6 DEF WriteManifest
  <2>2. pc = "ckManifest" /\ pc' = "ckReset" /\ UNCHANGED <<records, index, locals>>
    BY <1>6 DEF WriteManifest
  <2> QED
    BY <2>1, <2>2 DEF MemoryTypeOK, LocalsTypeOK, LocalsOK, Phases, records,
                      locals, Committing, CheckpointPhases
<1>7. CASE ResetToSnapshot
  <2>1. /\ pc = "ckReset" /\ pc' = "ckRebuild" /\ NextGen \in Gen
        /\ walDirs' = walDirs \cup {NextGen}
        /\ walFiles' = [walFiles EXCEPT ![NextGen] = @ \cup {1}]
        /\ gen' = NextGen /\ segs' = {1} /\ active' = 1 /\ snapRecs' = Empty
        /\ UNCHANGED <<manifest, snapFiles, snapData, walLog, index, locals>>
    BY <1>0, <1>7 DEF ResetToSnapshot, Committing
  <2>2. DiskTypeOK'
    BY <2>1, EmptyType DEF DiskTypeOK
  <2>3. MemoryTypeOK'
    BY <2>1, EmptyType DEF MemoryTypeOK
  <2>4. LocalsTypeOK' /\ LocalsOK' /\ pc' \in Phases
    BY <2>1 DEF LocalsTypeOK, LocalsOK, Phases, locals, Committing,
                CheckpointPhases
  <2> QED
    BY <2>2, <2>3, <2>4
<1>8. CASE Rebuild
  <2>1. /\ pc = "ckRebuild" /\ pc' = "cleanWal"
        /\ snapRecs' = entries /\ index' = SlotsOf(entries)
        /\ todo' = walDirs \ {gen}
        /\ UNCHANGED <<disk, gen, segs, active, caller, pending, entries, cursor, err>>
    BY <1>8 DEF Rebuild, StartCleaning
  <2>2. DiskTypeOK'
    BY <2>1, DiskSameType
  <2>3. MemoryTypeOK'
    BY <2>1, SlotsType DEF MemoryTypeOK, LocalsTypeOK
  <2>4. LocalsTypeOK' /\ LocalsOK' /\ pc' \in Phases
    BY <2>1 DEF LocalsTypeOK, DiskTypeOK, LocalsOK, Phases, Committing,
                CheckpointPhases
  <2> QED
    BY <2>2, <2>3, <2>4
<1>9. CASE \/ SnapshotFails \/ CreateWalDirFails \/ ManifestFails
           \/ ManifestSyncFails
  <2>1. Finish(TRUE)
    BY <1>9 DEF SnapshotFails, CreateWalDirFails, ManifestFails, ManifestSyncFails
  <2>2. DiskTypeOK'
    <3>1. CASE SnapshotFails
      BY <1>2, <3>1, DiskSameType DEF SnapshotFails
    <3>2. CASE CreateWalDirFails
      BY <1>0, <3>2 DEF CreateWalDirFails, DiskTypeOK, Committing
    <3>3. CASE ManifestFails
      BY <3>3, DiskSameType DEF ManifestFails
    <3>4. CASE ManifestSyncFails
      BY <1>3, <3>4 DEF ManifestSyncFails
    <3> QED
      BY <1>9, <3>1, <3>2, <3>3, <3>4
  <2> QED
    BY <2>1, <2>2, FinishType, AtRestLocals DEF Phases
<1>10. CASE ResetFails
  <2>1. NextGen \in Gen
    BY <1>0, <1>10 DEF ResetFails, Committing
  <2>2. DiskTypeOK'
    BY <1>10, <2>1, EmptyType DEF ResetFails, DiskTypeOK
  <2>3. CASE Gone
    BY <2>2, <2>3, GoneType, AtRestLocals DEF Phases
  <2>4. CASE ~ Gone
    <3>1. /\ segs' = {}
          /\ \/ UNCHANGED <<gen, active, snapRecs>>
             \/ gen' = NextGen /\ active' = 1 /\ snapRecs' = Empty
          /\ pc' = "idle" /\ Return /\ UNCHANGED index
      BY <1>10, <2>4 DEF ResetFails
    <3>2. MemoryTypeOK'
      BY <2>1, <3>1, EmptyType DEF MemoryTypeOK
    <3> QED
      BY <2>2, <3>1, <3>2, ReturnType, AtRestLocals DEF Phases
  <2> QED
    BY <2>3, <2>4
<1> QED
  BY <1>1, <1>4, <1>5, <1>6, <1>7, <1>8, <1>9, <1>10 DEF CheckpointStep

\* The steps of a cleanup.
LEMMA TypeClean ==
  ASSUME TypeInv, CleanStep \/ RemoveTreeFails \/ RemoveSnapshotFails
  PROVE  TypeInv'
<1> USE DEF TypeInv, TypeOK
<1>0. todo # {} => Smallest(todo) \in Gen
  BY SmallestGenType DEF LocalsTypeOK
<1>1. CASE RemoveSegment
  <2>1. PICK f \in walFiles[Smallest(todo)] :
          /\ walFiles' = [walFiles EXCEPT ![Smallest(todo)] = @ \ {f}]
          /\ walLog' = [walLog EXCEPT ![Smallest(todo)][f] = <<>>]
    BY <1>1 DEF RemoveSegment
  <2>2. Smallest(todo) \in Gen /\ f \in File
    BY <1>0, <1>1 DEF RemoveSegment, DiskTypeOK
  <2>3. <<>> \in Seq(Record)
    BY EmptySeq
  <2>4. UNCHANGED <<manifest, snapFiles, snapData, walDirs, records, index, pc,
                    locals>>
    BY <1>1 DEF RemoveSegment
  <2>5. DiskTypeOK'
    BY <2>1, <2>2, <2>3, <2>4 DEF DiskTypeOK
  <2> QED
    BY <2>4, <2>5 DEF MemoryTypeOK, LocalsTypeOK, LocalsOK, records, locals
<1>2. CASE RemoveDir \/ RemoveTreeFails \/ RemoveSnapshotFails
  <2>1. DiskTypeOK'
    BY <1>2 DEF RemoveDir, RemoveTreeFails, RemoveSnapshotFails, DiskTypeOK, disk
  <2>2. /\ todo' = todo \ {Smallest(todo)} /\ err' \in {err, TRUE}
        /\ UNCHANGED <<records, index, pc, caller, pending, entries, cursor>>
    BY <1>2 DEF RemoveDir, RemoveTreeFails, RemoveSnapshotFails
  <2> QED
    BY <2>1, <2>2 DEF MemoryTypeOK, LocalsTypeOK, LocalsOK, records
<1>3. CASE CleanSnapshots
  <2>1. /\ pc = "cleanWal" /\ pc' = "cleanSnap" /\ todo' = snapFiles \ {gen}
        /\ UNCHANGED <<disk, records, index, caller, pending, entries, cursor, err>>
    BY <1>3 DEF CleanSnapshots
  <2>2. DiskTypeOK'
    BY <2>1, DiskSameType
  <2> QED
    BY <2>1, <2>2 DEF DiskTypeOK, MemoryTypeOK, LocalsTypeOK, LocalsOK, Phases,
                      records, Committing, CheckpointPhases
<1>4. CASE RemoveSnapshot
  <2>1. /\ snapFiles' = snapFiles \ {Smallest(todo)}
        /\ snapData' = [snapData EXCEPT ![Smallest(todo)] = Empty]
        /\ todo' = todo \ {Smallest(todo)}
        /\ UNCHANGED <<manifest, walDirs, walFiles, walLog, records, index, pc,
                       caller, pending, entries, cursor, err>>
    BY <1>4 DEF RemoveSnapshot
  <2>2. DiskTypeOK'
    BY <1>0, <1>4, <2>1, EmptyType DEF DiskTypeOK
  <2> QED
    BY <2>1, <2>2 DEF MemoryTypeOK, LocalsTypeOK, LocalsOK, records
<1>5. CASE CleanDone
  <2>1. DiskTypeOK' /\ Finish(err)
    BY <1>5, DiskSameType DEF CleanDone
  <2> QED
    BY <2>1, FinishType, AtRestLocals DEF Phases
<1> QED
  BY <1>1, <1>2, <1>3, <1>4, <1>5 DEF CleanStep

\* Every step keeps the types.
LEMMA TypeNext == TypeInv /\ [Next]_vars => TypeInv'
<1> SUFFICES ASSUME TypeInv, [Next]_vars PROVE TypeInv'
  OBVIOUS
<1>1. CASE OpenRecords \/ OpenFails \/ OpenStep
  BY <1>1, TypeOpen
<1>2. CASE \/ \E k \in Key, v \in Payload :
                Write(k, v) \/ WriteRollover(k, v) \/ RolloverFails(k, v)
           \/ RetryStep
  BY <1>2, TypeWrite
<1>3. CASE \/ CheckpointStep \/ SnapshotFails \/ CreateWalDirFails
           \/ ManifestFails \/ ManifestSyncFails \/ ResetFails
  BY <1>3, TypeCheckpoint
<1>4. CASE CleanStep \/ RemoveTreeFails \/ RemoveSnapshotFails
  BY <1>4, TypeClean
<1>5. CASE Close
  <2>1. DiskTypeOK'
    BY <1>5, DiskSameType DEF Close, TypeInv, TypeOK
  <2>2. CASE Gone
    BY <2>1, <2>2, GoneType, AtRestLocals DEF Phases, TypeInv, TypeOK
  <2>3. CASE ~ Gone
    <3>1. /\ gen < MaxGen /\ pc' = "ckCollect" /\ caller' = "close"
          /\ UNCHANGED <<records, index, pending, entries, cursor, todo, err>>
      BY <1>5, <2>3 DEF Close
    <3> QED
      BY <2>1, <3>1 DEF TypeInv, TypeOK, MemoryTypeOK, LocalsTypeOK, LocalsOK,
                        Phases, records, Committing, CheckpointPhases
  <2> QED
    BY <2>2, <2>3
<1>6. CASE Crash
  BY <1>6, DiskSameType, GoneType, AtRestLocals DEF Crash, Phases, TypeInv, TypeOK
<1>7. CASE UNCHANGED vars
  BY <1>7 DEF vars, disk, records, locals, TypeInv, TypeOK, DiskTypeOK,
              MemoryTypeOK, LocalsTypeOK, LocalsOK
<1> QED
  BY <1>1, <1>2, <1>3, <1>4, <1>5, <1>6, <1>7
     DEF Next, CallStep, InternalStep, FaultStep

\* Every variable has its type in every reachable state, and what an operation
\* keeps in local variables fits the step it has reached.
THEOREM TypeInvariant == Spec => []TypeInv
<1> QED
  BY TypeInit, TypeNext, PTL DEF Spec

\* Every variable has its type, for any keys, values, capacities and faults.
THEOREM TypeCorrect == Spec => []TypeOK
<1>1. TypeInv => TypeOK
  BY DEF TypeInv
<1> QED
  BY <1>1, TypeInvariant, PTL


-----------------------------------------------------------------------------
(***************************************************************************)
(* MANIFEST and the files it names, whatever fails.                        *)
(***************************************************************************)

\* At rest only the files that MANIFEST names matter.
LEMMA AtRestPublished ==
  ASSUME pc' \in {"closed", "idle"}, ManifestIsBacked' PROVE PublishedInOrder'
BY DEF PublishedInOrder

LEMMA ReturnPhase ==
  /\ Gone => pc' = "closed"
  /\ \A b \in BOOLEAN : Finish(b) => pc' \in {"closed", "idle"}
BY DEF Gone, Finish

LEMMA PublishedInit == Init => PublishedInOrder
BY DEF Init, PublishedInOrder, ManifestIsBacked

LEMMA PublishedNext ==
  ASSUME TypeInv, PublishedInOrder, [Next]_vars PROVE PublishedInOrder'
<1>0. /\ MemoryTypeOK /\ DiskTypeOK /\ LocalsTypeOK
      /\ gen \in Nat /\ gen # 0
  BY DEF TypeInv, TypeOK, MemoryTypeOK, Gen
<1>1. CASE OpenRecords
  BY <1>1 DEF OpenRecords, PublishedInOrder, ManifestIsBacked, CurrentGen
<1>2. CASE OpenFails
  BY <1>2 DEF OpenFails, PublishedInOrder, ManifestIsBacked, NextGen, CurrentGen,
              records, locals
<1>3. CASE LoadSnapshot
  <2>1. UNCHANGED disk /\ ManifestIsBacked'
    BY <1>3 DEF LoadSnapshot, PublishedInOrder, ManifestIsBacked, disk
  <2>2. CASE pc' = "closed"
    BY <2>1, <2>2, AtRestPublished
  <2>3. CASE pc' # "closed"
    <3>1. pc = "loadSnapshot" /\ pc' = "replay" /\ gen' = gen
      BY <1>3, <2>3 DEF LoadSnapshot, Gone
    <3> QED
      BY <1>0, <2>1, <3>1 DEF PublishedInOrder, CurrentGen, disk
  <2> QED
    BY <2>2, <2>3
<1>4. CASE ReplayRecord \/ ReplayNextSegment
  BY <1>4 DEF ReplayRecord, ReplayNextSegment, PublishedInOrder, ManifestIsBacked,
              CurrentGen, NextGen, disk, records
<1>5. CASE ReplayDone
  <2>1. UNCHANGED disk /\ ManifestIsBacked'
    BY <1>5 DEF ReplayDone, PublishedInOrder, ManifestIsBacked, disk
  <2>2. CASE manifest = 0
    BY <1>5, <2>1, <2>2, ReturnPhase, AtRestPublished DEF ReplayDone
  <2>3. CASE manifest # 0
    BY <1>5, <2>1, <2>3 DEF ReplayDone, StartCleaning, PublishedInOrder, CurrentGen,
                            disk, records
  <2> QED
    BY <2>2, <2>3
<1>6. ASSUME NEW k \in Key, NEW v \in Payload,
             Write(k, v) \/ WriteRollover(k, v) \/ RolloverFails(k, v)
      PROVE  PublishedInOrder'
  BY <1>6 DEF Write, WriteRollover, RolloverFails, CanWrite, AppendAndPublish,
              PublishedInOrder, ManifestIsBacked, records, locals
<1>7. CASE RetryStep
  <2>1. pc' \in {"idle", "ckCollect"} /\ UNCHANGED <<manifest, snapFiles, walDirs>>
    BY <1>7 DEF RetryStep, RetryAppend, RetryFails, AppendAndPublish, disk
  <2> QED
    BY <2>1 DEF PublishedInOrder, ManifestIsBacked
<1>8. CASE Collect
  <2>1. UNCHANGED disk /\ pc' \in {"closed", "idle", "ckSnapshot"}
    BY <1>8, ReturnPhase DEF Collect
  <2> QED
    BY <2>1 DEF PublishedInOrder, ManifestIsBacked, disk
<1>9. CASE WriteSnapshot
  BY <1>9 DEF WriteSnapshot, PublishSnapshot, PublishedInOrder, ManifestIsBacked,
              NextGen, records
<1>10. CASE CreateWalDir
  BY <1>10 DEF CreateWalDir, PublishedInOrder, ManifestIsBacked, NextGen, records
<1>11. CASE WriteManifest
  BY <1>11 DEF WriteManifest, PublishManifest, PublishedInOrder, ManifestIsBacked,
               NextGen, records
<1>12. CASE ResetToSnapshot
  BY <1>12 DEF ResetToSnapshot, PublishedInOrder, ManifestIsBacked, NextGen
<1>13. CASE Rebuild
  BY <1>13 DEF Rebuild, StartCleaning, PublishedInOrder, ManifestIsBacked, disk
<1>14. CASE \/ SnapshotFails \/ CreateWalDirFails \/ ManifestFails
            \/ ManifestSyncFails \/ ResetFails
  <2>1. pc' \in {"closed", "idle"}
    BY <1>14, ReturnPhase
       DEF SnapshotFails, CreateWalDirFails, ManifestFails, ManifestSyncFails,
           ResetFails
  <2>2. ManifestIsBacked'
    <3>1. CASE SnapshotFails
      BY <3>1 DEF SnapshotFails, PublishSnapshot, PublishedInOrder,
                  ManifestIsBacked, disk
    <3>2. CASE CreateWalDirFails \/ ManifestFails \/ ResetFails
      <4>1. /\ UNCHANGED <<manifest, snapFiles>>
            /\ walDirs \subseteq walDirs'
        BY <3>2 DEF CreateWalDirFails, ManifestFails, ResetFails, disk
      <4> QED
        BY <4>1 DEF PublishedInOrder, ManifestIsBacked
    <3>3. CASE ManifestSyncFails
      BY <3>3 DEF ManifestSyncFails, PublishManifest, PublishedInOrder,
                  ManifestIsBacked
    <3> QED
      BY <1>14, <3>1, <3>2, <3>3
  <2> QED
    BY <2>1, <2>2, AtRestPublished
<1>15. CASE CleanStep \/ RemoveTreeFails \/ RemoveSnapshotFails
  <2>1. todo # {} => Smallest(todo) \in todo
    BY <1>0, SmallestGenType DEF LocalsTypeOK
  <2>2. CASE RemoveSegment
    BY <2>2 DEF RemoveSegment, PublishedInOrder, ManifestIsBacked, records, locals
  <2>3. CASE RemoveDir
    BY <2>1, <2>3 DEF RemoveDir, PublishedInOrder, ManifestIsBacked, records
  <2>4. CASE CleanSnapshots
    BY <2>4 DEF CleanSnapshots, PublishedInOrder, ManifestIsBacked, disk, records
  <2>5. CASE RemoveSnapshot
    BY <2>1, <2>5 DEF RemoveSnapshot, PublishedInOrder, ManifestIsBacked, records
  <2>6. CASE CleanDone
    <3>1. pc' \in {"closed", "idle"} /\ UNCHANGED disk
      BY <1>0, <2>6, FinishType DEF CleanDone
    <3> QED
      BY <3>1 DEF PublishedInOrder, ManifestIsBacked, disk
  <2>7. CASE RemoveTreeFails \/ RemoveSnapshotFails
    BY <2>7 DEF RemoveTreeFails, RemoveSnapshotFails, PublishedInOrder,
                ManifestIsBacked, disk, records
  <2> QED
    BY <1>15, <2>2, <2>3, <2>4, <2>5, <2>6, <2>7 DEF CleanStep
<1>16. CASE Close
  <2>1. UNCHANGED disk /\ pc' \in {"closed", "ckCollect"}
    BY <1>16, ReturnPhase DEF Close
  <2> QED
    BY <2>1 DEF PublishedInOrder, ManifestIsBacked, disk
<1>17. CASE Crash
  BY <1>17, ReturnPhase DEF Crash, PublishedInOrder, ManifestIsBacked, disk
<1>18. CASE UNCHANGED vars
  BY <1>18 DEF vars, disk, records, locals, PublishedInOrder, ManifestIsBacked,
               NextGen, CurrentGen
<1> QED
  BY <1>1, <1>2, <1>3, <1>4, <1>5, <1>6, <1>7, <1>8, <1>9, <1>10, <1>11, <1>12,
     <1>13, <1>14, <1>15, <1>16, <1>17, <1>18
     DEF Next, CallStep, InternalStep, FaultStep, OpenStep, CheckpointStep

\* SNAPSHOT, WAL directory and MANIFEST are published in this order and removed
\* only once MANIFEST has moved on, through every failure and crash.
THEOREM PublishedInvariant == Spec => []PublishedInOrder
<1>1. TypeInv /\ PublishedInOrder /\ [Next]_vars => PublishedInOrder'
  BY PublishedNext
<1> QED
  BY <1>1, PublishedInit, TypeInvariant, PTL DEF Spec

\* Open always finds the snapshot and the WAL directory that MANIFEST names.
THEOREM ManifestAlwaysBacked == Spec => []ManifestIsBacked
<1>1. PublishedInOrder => ManifestIsBacked
  BY DEF PublishedInOrder
<1> QED
  BY <1>1, PublishedInvariant, PTL


-----------------------------------------------------------------------------
(***************************************************************************)
(* Cleanups, whatever fails.                                               *)
(***************************************************************************)

\* A cleanup lists everything but the generation to keep, and gives up an entry
\* only when it is gone or when err says that one was left.
LEMMA CleanNext ==
  ASSUME TypeInv, CleanOK, [Next]_vars PROVE CleanOK'
<1>1. CASE pc' \notin {"cleanWal", "cleanSnap"}
  BY <1>1 DEF CleanOK
<1>2. CASE ReplayDone \/ Rebuild
  <2>1. CASE StartCleaning /\ UNCHANGED <<gen, walDirs>>
    BY <2>1 DEF StartCleaning, CleanOK
  <2>2. CASE pc' \in {"closed", "idle"}
    BY <1>1, <2>2
  <2> QED
    BY <1>2, <2>1, <2>2, ReturnPhase DEF ReplayDone, Rebuild, disk, records
<1>3. CASE RemoveSegment
  BY <1>3 DEF RemoveSegment, CleanOK, records, locals
<1>4. CASE RemoveDir \/ CleanSnapshots \/ RemoveSnapshot
  BY <1>4 DEF RemoveDir, CleanSnapshots, RemoveSnapshot, CleanOK, disk, records
<1>5. CASE RemoveTreeFails \/ RemoveSnapshotFails
  BY <1>5 DEF RemoveTreeFails, RemoveSnapshotFails, CleanOK
<1>6. CASE UNCHANGED vars
  BY <1>6 DEF vars, disk, records, locals, CleanOK
<1>7. CASE OpenRecords \/ OpenFails \/ LoadSnapshot \/ ReplayRecord \/ ReplayNextSegment
           \/ Close \/ Crash \/ CleanDone
  <2>1. pc' \notin {"cleanWal", "cleanSnap"}
    BY <1>7, ReturnPhase
       DEF OpenRecords, OpenFails, LoadSnapshot, ReplayRecord, ReplayNextSegment,
           Close, Crash, CleanDone, TypeInv, TypeOK, LocalsTypeOK
  <2> QED
    BY <1>1, <2>1
<1>8. CASE \/ RetryStep
           \/ \E k \in Key, v \in Payload :
                Write(k, v) \/ WriteRollover(k, v) \/ RolloverFails(k, v)
  <2>1. pc' \notin {"cleanWal", "cleanSnap"}
    BY <1>8 DEF RetryStep, RetryAppend, RetryFails, Write, WriteRollover,
                RolloverFails, CanWrite, AppendAndPublish
  <2> QED
    BY <1>1, <2>1
<1>9. CASE \/ Collect \/ WriteSnapshot \/ CreateWalDir \/ WriteManifest
           \/ ResetToSnapshot \/ SnapshotFails \/ CreateWalDirFails
           \/ ManifestFails \/ ManifestSyncFails \/ ResetFails
  <2>1. pc' \notin {"cleanWal", "cleanSnap"}
    BY <1>9, ReturnPhase
       DEF Collect, WriteSnapshot, CreateWalDir, WriteManifest, ResetToSnapshot,
           SnapshotFails, CreateWalDirFails, ManifestFails, ManifestSyncFails,
           ResetFails
  <2> QED
    BY <1>1, <2>1
<1> QED
  BY <1>2, <1>3, <1>4, <1>5, <1>6, <1>7, <1>8, <1>9
     DEF Next, CallStep, InternalStep, FaultStep, OpenStep, CheckpointStep, CleanStep

\* A cleanup that reports success has left nothing but the generation in use.
THEOREM SuccessfulCleanupIsComplete == Spec => CleanupIsComplete
<1>1. Init => CleanOK
  BY DEF Init, CleanOK
<1>2. TypeInv /\ CleanOK /\ [Next]_vars => CleanOK'
  BY CleanNext
<1>3. TypeInv /\ PublishedInOrder /\ CleanOK /\ [Next]_vars =>
        [(pc = "cleanSnap" /\ pc' = "idle" /\ ~err) =>
           walDirs' = {gen} /\ snapFiles' = {gen}]_vars
  <2> SUFFICES ASSUME TypeInv, PublishedInOrder, CleanOK, Next,
                      pc = "cleanSnap", pc' = "idle", ~err
               PROVE  walDirs' = {gen} /\ snapFiles' = {gen}
    BY DEF vars
  <2>1. gen = manifest /\ gen \in snapFiles /\ gen \in walDirs
    BY DEF PublishedInOrder, ManifestIsBacked, TypeInv, TypeOK, MemoryTypeOK, Gen
  <2>2. CleanDone
    BY ReturnPhase
       DEF Next, CallStep, OpenRecords, Write, WriteRollover, CanWrite, Close,
           InternalStep, OpenStep, LoadSnapshot, ReplayRecord, ReplayNextSegment,
           ReplayDone, RetryStep, RetryAppend, RetryFails, CheckpointStep, Collect,
           WriteSnapshot, CreateWalDir, WriteManifest, ResetToSnapshot, Rebuild,
           CleanStep, RemoveSegment, RemoveDir, CleanSnapshots, RemoveSnapshot,
           FaultStep, OpenFails, RolloverFails, SnapshotFails, CreateWalDirFails,
           ManifestFails, ManifestSyncFails, ResetFails, RemoveTreeFails,
           RemoveSnapshotFails, Crash
  <2> QED
    BY <2>1, <2>2 DEF CleanDone, CleanOK, disk
<1> QED
  BY <1>1, <1>2, <1>3, TypeInvariant, PublishedInvariant, PTL
     DEF Spec, CleanupIsComplete

-----------------------------------------------------------------------------
(***************************************************************************)
(* Part 2.  What a reader sees and what the files hold: the inductive      *)
(* invariant Inv and the safety properties that follow from it, where a    *)
(* switch of generations does not fail half way (SwitchNeverFails).        *)
(***************************************************************************)

-----------------------------------------------------------------------------
(***************************************************************************)
(* Positions of the records of a key.                                      *)
(***************************************************************************)

\* A touch of k is a position of one of its records.
LEMMA TouchesAre ==
  ASSUME NEW g \in Gen, NEW k \in Key, DiskTypeOK
  PROVE  /\ \A p \in Touches(g, k) :
              /\ p = <<p[1], p[2]>>
              /\ p[1] \in walFiles[g] /\ p[1] \in File
              /\ p[2] \in DOMAIN walLog[g][p[1]] /\ p[2] \in Nat \ {0}
              /\ walLog[g][p[1]][p[2]].key = k
              /\ walLog[g][p[1]][p[2]].val \in Payload
         /\ \A f \in walFiles[g] : \A i \in DOMAIN walLog[g][f] :
              walLog[g][f][i].key = k => <<f, i>> \in Touches(g, k)
<1>1. ASSUME NEW p \in Touches(g, k)
      PROVE  /\ p = <<p[1], p[2]>>
             /\ p[1] \in walFiles[g]
             /\ p[2] \in DOMAIN walLog[g][p[1]]
             /\ walLog[g][p[1]][p[2]].key = k
  <2>1. PICK f \in walFiles[g] : p \in {f} \X DOMAIN walLog[g][f]
    BY DEF Touches
  <2> QED
    BY <2>1 DEF Touches
<1>2. ASSUME NEW f \in walFiles[g], NEW i \in DOMAIN walLog[g][f],
             walLog[g][f][i].key = k
      PROVE  <<f, i>> \in Touches(g, k)
  BY <1>2 DEF Touches
<1>3. walFiles[g] \subseteq File
  BY DEF DiskTypeOK
<1> QED
  BY <1>1, <1>2, <1>3, LogType

\* The touches of k depend on the log only, since a file that is not there has
\* no records.
LEMMA TouchesInLog ==
  ASSUME NEW g \in Gen, DiskTypeOK, FilesOK,
         NEW f \in File, NEW i \in DOMAIN walLog[g][f]
  PROVE  f \in walFiles[g]
<1>1. walLog[g][f] # <<>>
  BY LogType, EmptySeq
<1> QED
  BY <1>1 DEF FilesOK

LEMMA TouchesStable ==
  ASSUME NEW g \in Gen, NEW k \in Key, DiskTypeOK, DiskTypeOK', FilesOK, FilesOK',
         walLog'[g] = walLog[g]
  PROVE  Touches(g, k)' = Touches(g, k)
<1>1. ASSUME NEW p \in Touches(g, k) PROVE p \in Touches(g, k)'
  <2>1. /\ p = <<p[1], p[2]>> /\ p[1] \in File
        /\ p[2] \in DOMAIN walLog[g][p[1]]
        /\ walLog[g][p[1]][p[2]].key = k
    BY TouchesAre
  <2>2. p[1] \in walFiles'[g]
    <3>1. (walLog[g][p[1]] # <<>>)
      BY <2>1, LogType, EmptySeq
    <3> QED
      BY <2>1, <3>1 DEF FilesOK
  <2> QED
    BY <2>1, <2>2 DEF Touches
<1>2. ASSUME NEW p \in Touches(g, k)' PROVE p \in Touches(g, k)
  <2>1. PICK f \in walFiles'[g] : p \in {f} \X DOMAIN walLog[g][f]
    BY DEF Touches
  <2>2. f \in File /\ p = <<f, p[2]>> /\ p[2] \in DOMAIN walLog[g][f]
    BY <2>1 DEF DiskTypeOK
  <2>3. walLog[g][f][p[2]].key = k
    BY <2>2 DEF Touches
  <2>4. f \in walFiles[g]
    BY <2>2, TouchesInLog
  <2> QED
    BY <2>2, <2>3, <2>4, TouchesAre
<1> QED
  BY <1>1, <1>2

\* Before is a strict order on positions, so there is one newest position.
LEMMA NewestIsUnique ==
  ASSUME NEW S, \A p \in S : p[1] \in Nat /\ p[2] \in Nat,
         NEW n, IsNewest(n, S)
  PROVE  Newest(S) = n /\ S # {}
<1>1. \A m : IsNewest(m, S) => m = n
  BY DEF IsNewest, Before
<1> QED
  BY <1>1 DEF Newest, IsNewest

-----------------------------------------------------------------------------
(***************************************************************************)
(* What an index entry stands for.                                         *)
(***************************************************************************)

\* The phases in which the index has caught up with the log.
Settled == Indexed \ {"replay"}

\* A settled index entry is absent exactly if its key is, and can otherwise be
\* read and has the value that would be recovered.
LEMMA EntryMeaning ==
  ASSUME Inv, pc \in Settled, NEW k \in Key
  PROVE  /\ PositionOf(k) = NoPos => RecoveredValue(k) = Missing
         /\ PositionOf(k) # NoPos =>
              /\ Readable(PositionOf(k))
              /\ ValueAt(PositionOf(k)) = RecoveredValue(k)
<1>0. /\ DiskTypeOK /\ MemoryTypeOK /\ FilesOK
      /\ gen \in Gen /\ gen = CurrentGen
      /\ snapRecs[k] = Base(k)
      /\ Tracks(k)
      /\ Replayed(k) = Touches(gen, k)
  BY DEF Inv, TypeOK, MemoryTypeOK, OnOneGeneration, IndexOK, Settled, Indexed,
         Replayed
<1>1. CASE Touches(gen, k) = {}
  <2>1. RecoveredValue(k) = Base(k)
    BY <1>0, <1>1 DEF RecoveredValue
  <2>2. PositionOf(k) = IF Base(k) = Missing THEN NoPos ELSE Slot(k)
    BY <1>0, <1>1 DEF Tracks, StandsFor, BasePos
  <2>3. Slot(k) # NoPos /\ Slot(k)[1] = 0 /\ Slot(k)[2] = k /\ k # Missing
    BY StoreAssumption DEF Slot, NoPos
  <2> QED
    BY <1>0, <2>1, <2>2, <2>3 DEF Readable, ValueAt
<1>2. CASE Touches(gen, k) # {}
  <2>1. PICK n \in Touches(gen, k) :
          /\ IsNewest(n, Touches(gen, k))
          /\ PositionOf(k) = IF walLog[gen][n[1]][n[2]].val = Missing
                             THEN NoPos ELSE n
    BY <1>0, <1>2 DEF Tracks, StandsFor
  <2>2. \A p \in Touches(gen, k) :
          /\ p[1] \in walFiles[gen] /\ p[1] \in File
          /\ p[2] \in DOMAIN walLog[gen][p[1]] /\ p[2] \in Nat \ {0}
    BY <1>0, TouchesAre
  <2>3. Newest(Touches(gen, k)) = n
    BY <2>1, <2>2, NewestIsUnique DEF File
  <2>4. RecoveredValue(k) = walLog[gen][n[1]][n[2]].val
    BY <1>0, <1>2, <2>3 DEF RecoveredValue
  <2>5. n[1] \in segs
    <3>1. walLog[gen][n[1]] # <<>>
      BY <1>0, <2>2, LogType, EmptySeq
    <3> QED
      BY <2>2, <3>1 DEF Inv, SegmentsOK, Settled, Indexed
  <2>6. n[1] # 0 /\ n # NoPos
    BY <2>2 DEF File, NoPos
  <2> QED
    BY <2>1, <2>2, <2>4, <2>5, <2>6 DEF Readable, ValueAt
<1> QED
  BY <1>1, <1>2

\* The invariant implies what a reader may rely on.
LEMMA InvImpliesSafety == Inv => VisibleIsRecoverable /\ IndexResolves
<1> SUFFICES ASSUME Inv, pc = "idle" PROVE VisibleIsRecoverable /\ IndexResolves
  BY DEF VisibleIsRecoverable, IndexResolves
<1>1. pc \in Settled
  BY DEF Settled, Indexed
<1>2. \A k \in Key : PositionOf(k) = index[k]
  BY DEF PositionOf
<1>3. active \in segs
  BY DEF Inv, SegmentsOK
<1>4. ASSUME NEW k \in Key
      PROVE  /\ Get(k) = RecoveredValue(k)
             /\ index[k] = NoPos \/ Readable(index[k])
  BY <1>1, <1>2, EntryMeaning DEF Get
<1> QED
  BY <1>3, <1>4 DEF VisibleIsRecoverable, IndexResolves

-----------------------------------------------------------------------------
(***************************************************************************)
(* Generations, files and segments.                                        *)
(***************************************************************************)
Structure == OnOneGeneration /\ FilesOK /\ SegmentsOK

\* A switch of generations fails half way.
SwitchFails == ManifestSyncFails \/ ResetFails

LEMMA SwitchesSucceed == ASSUME SwitchNeverFails PROVE ~ SwitchFails
BY DEF SwitchNeverFails, SwitchFails, ManifestSyncFails, ResetFails

\* What every step may use.
LEMMA InvFacts ==
  ASSUME Inv
  PROVE  /\ TypeInv /\ PublishedInOrder /\ Structure
         /\ DiskTypeOK /\ MemoryTypeOK /\ LocalsTypeOK /\ LocalsOK
         /\ gen \in Gen /\ gen \in Nat \ {0} /\ gen + 1 > gen
         /\ CurrentGen \in Gen
         /\ active \in File /\ active \in Nat /\ active + 1 > active
         /\ walFiles[gen] \subseteq File /\ File \subseteq Nat
<1>1. /\ TypeInv /\ PublishedInOrder /\ Structure
      /\ DiskTypeOK /\ MemoryTypeOK /\ LocalsTypeOK /\ LocalsOK
  BY DEF Inv, TypeInv, TypeOK, Structure
<1>2. CurrentGen \in Gen
  BY <1>1, CurrentGenType
<1>3. /\ gen \in Gen /\ gen \in Nat \ {0} /\ gen + 1 > gen
      /\ active \in File /\ active \in Nat /\ active + 1 > active
  BY <1>1 DEF MemoryTypeOK, Gen, File
<1>4. walFiles[gen] \subseteq File /\ File \subseteq Nat
  BY <1>1, <1>3 DEF DiskTypeOK, File
<1> QED
  BY <1>1, <1>2, <1>3, <1>4

\* When the process is gone only the files remain to be accounted for.
LEMMA StructureAtRest ==
  ASSUME pc' = "closed", FilesOK' PROVE Structure'
BY DEF Structure, OnOneGeneration, SegmentsOK

\* A step that changes no WAL file and no variable of the record store.
LEMMA StructureStays ==
  ASSUME Inv, UNCHANGED <<manifest, walFiles, walLog, records>>,
         pc' \notin {"closed", "ckReset"} => pc \notin {"closed", "ckReset"},
         pc' = "ckReset" => pc = "ckReset"
  PROVE  Structure'
BY InvFacts DEF Structure, OnOneGeneration, FilesOK, SegmentsOK, CurrentGen, records

\* So does one that also ends the process.
LEMMA StructureGone ==
  ASSUME Inv, UNCHANGED <<manifest, walFiles, walLog>>, Gone
  PROVE  Structure'
<1>1. pc' = "closed"
  BY DEF Gone
<1>2. FilesOK'
  BY <1>1, InvFacts DEF Structure, FilesOK, CurrentGen
<1> QED
  BY <1>1, <1>2, StructureAtRest

LEMMA StructureFinish ==
  ASSUME Inv, UNCHANGED <<manifest, walFiles, walLog>>, NEW b \in BOOLEAN, Finish(b),
         pc \notin {"closed", "ckReset"}
  PROVE  Structure'
<1>1. CASE Gone
  BY <1>1, StructureGone
<1>2. CASE pc' = "idle" /\ Return /\ UNCHANGED <<records, index>>
  BY <1>2, StructureStays
<1> QED
  BY <1>1, <1>2 DEF Finish

LEMMA StructureOpen ==
  ASSUME Inv, OpenRecords \/ OpenFails \/ OpenStep
  PROVE  Structure'
<1> USE InvFacts
<1>1. CASE OpenRecords
  <2> DEFINE ids == SegmentsToOpen(CurrentGen)
  <2>1. /\ ids \in SUBSET File /\ Largest(ids) \in ids
        /\ \A f \in ids : f <= Largest(ids)
    <3>1. ids \in SUBSET (1..MaxFile) /\ ids # {}
      BY SegmentsToOpenType DEF File
    <3> QED
      BY <3>1, LargestIsGreatest, StoreAssumption DEF File
  <2>2. walFiles[CurrentGen] \subseteq ids
    BY DEF SegmentsToOpen
  <2>3. /\ gen' = CurrentGen /\ segs' = ids /\ active' = Largest(ids)
        /\ walFiles' = [walFiles EXCEPT ![CurrentGen] = ids]
        /\ pc' \in {"replay", "loadSnapshot"}
        /\ UNCHANGED <<manifest, walLog>>
    BY <1>1 DEF OpenRecords, ActiveOf
  <2> HIDE DEF ids
  <2>4. CurrentGen' = CurrentGen
    BY <2>3 DEF CurrentGen
  <2>5. walFiles'[CurrentGen] = ids /\ \A g \in Gen \ {CurrentGen} : walFiles'[g] = walFiles[g]
    BY <2>3 DEF DiskTypeOK
  <2>6. FilesOK'
    <3>1. \A g \in Gen : g > CurrentGen' => walFiles'[g] = {}
      BY <2>4, <2>5 DEF Structure, FilesOK, Gen
    <3>2. \A g \in Gen : \A f \in File : f \notin walFiles'[g] => walLog'[g][f] = <<>>
      BY <2>2, <2>3, <2>5 DEF Structure, FilesOK
    <3> QED
      BY <2>3, <3>1, <3>2 DEF FilesOK
  <2>7. OnOneGeneration' /\ SegmentsOK'
    BY <2>1, <2>3, <2>4, <2>5 DEF OnOneGeneration, SegmentsOK
  <2> QED
    BY <2>6, <2>7 DEF Structure
<1>2. CASE OpenFails
  <2>1. /\ pc = "closed" /\ pc' = "closed" /\ UNCHANGED <<manifest, walLog>>
        /\ \A g \in Gen : walFiles[g] \subseteq walFiles'[g]
        /\ \A g \in Gen \ {CurrentGen} : walFiles'[g] = walFiles[g]
    BY <1>2 DEF OpenFails, SegmentsToOpen, DiskTypeOK
  <2>2. FilesOK'
    BY <2>1 DEF Structure, FilesOK, CurrentGen, Gen
  <2> QED
    BY <2>1, <2>2, StructureAtRest
<1>3. CASE LoadSnapshot
  <2>1. UNCHANGED <<manifest, walFiles, walLog>> /\ pc = "loadSnapshot"
    BY <1>3 DEF LoadSnapshot, disk
  <2>2. CASE Gone
    BY <2>1, <2>2, StructureGone
  <2>3. CASE pc' = "replay" /\ UNCHANGED <<gen, segs, active, locals>>
    BY <2>1, <2>3 DEF Structure, OnOneGeneration, FilesOK, SegmentsOK, CurrentGen
  <2> QED
    BY <1>3, <2>2, <2>3 DEF LoadSnapshot
<1>4. CASE ReplayRecord \/ ReplayNextSegment
  BY <1>4, StructureStays DEF ReplayRecord, ReplayNextSegment, disk
<1>5. CASE ReplayDone
  <2>1. UNCHANGED <<manifest, walFiles, walLog>> /\ pc = "replay"
    BY <1>5 DEF ReplayDone, disk
  <2>2. CASE Finish(FALSE)
    BY <2>1, <2>2, StructureFinish
  <2>3. CASE pc' = "cleanWal" /\ UNCHANGED records
    BY <2>1, <2>3, StructureStays
  <2> QED
    BY <1>5, <2>2, <2>3 DEF ReplayDone, StartCleaning
<1> QED
  BY <1>1, <1>2, <1>3, <1>4, <1>5 DEF OpenStep

LEMMA StructureWrite ==
  ASSUME Inv,
         \/ \E k \in Key, v \in Payload :
              Write(k, v) \/ WriteRollover(k, v) \/ RolloverFails(k, v)
         \/ RetryStep
  PROVE  Structure'
<1> USE InvFacts
<1>1. ASSUME NEW r \in Record, AppendAndPublish(r), pc \in {"idle", "retry"}
      PROVE  Structure'
  <2>1. /\ walLog' = [walLog EXCEPT ![gen][active] = Append(@, r)]
        /\ pc' \in {"ckCollect", "idle"}
        /\ UNCHANGED <<manifest, walFiles, records>>
    BY <1>1 DEF AppendAndPublish
  <2>2. /\ active \in segs /\ segs \subseteq walFiles[gen]
        /\ gen = CurrentGen /\ CurrentGen' = CurrentGen
    BY <1>1, <2>1 DEF Structure, SegmentsOK, OnOneGeneration, CurrentGen
  <2>3. \A g \in Gen, f \in File :
          walLog'[g][f] = walLog[g][f] \/ (g = gen /\ f = active)
    BY <2>1 DEF DiskTypeOK
  <2>4. FilesOK'
    <3>1. \A g \in Gen : \A f \in File : f \notin walFiles'[g] => walLog'[g][f] = <<>>
      BY <2>1, <2>2, <2>3 DEF Structure, FilesOK
    <3>2. \A g \in Gen : g > CurrentGen' => walFiles'[g] = {}
      BY <2>1, <2>2 DEF Structure, FilesOK
    <3> QED
      BY <2>1, <3>1, <3>2 DEF FilesOK
  <2>5. OnOneGeneration'
    BY <2>1, <2>2 DEF OnOneGeneration, records
  <2>6. SegmentsOK'
    <3>1. \A f \in walFiles[gen] \ segs : f = active + 1 /\ walLog[gen][f] = <<>>
      BY <1>1 DEF Structure, SegmentsOK
    <3>2. \A f \in walFiles[gen] \ segs : walLog'[gen][f] = <<>>
      BY <2>2, <2>3, <3>1
    <3> QED
      BY <1>1, <2>1, <3>1, <3>2 DEF Structure, SegmentsOK, records
  <2> QED
    BY <2>4, <2>5, <2>6 DEF Structure
<1>2. ASSUME NEW k \in Key, NEW v \in Payload, Write(k, v) PROVE Structure'
  BY <1>1, <1>2 DEF Write, CanWrite, Record
<1>3. ASSUME NEW k \in Key, NEW v \in Payload,
             WriteRollover(k, v) \/ RolloverFails(k, v)
      PROVE  Structure'
  <2>1. /\ pc = "idle" /\ pc' \in {"idle", "retry"}
        /\ walFiles' = [walFiles EXCEPT ![gen] = @ \cup {active + 1}]
        /\ \/ segs' = segs \cup {active + 1} /\ active' = active + 1
           \/ UNCHANGED <<segs, active>>
        /\ UNCHANGED <<manifest, walLog, gen>>
    BY <1>3 DEF WriteRollover, RolloverFails, CanWrite, records
  <2>2. /\ active \in segs /\ segs \subseteq walFiles[gen]
        /\ \A f \in segs : f <= active
        /\ \A f \in walFiles[gen] \ segs : f = active + 1 /\ walLog[gen][f] = <<>>
        /\ gen = CurrentGen /\ CurrentGen' = CurrentGen
    BY <2>1 DEF Structure, SegmentsOK, OnOneGeneration, CurrentGen
  <2>3. active < MaxFile /\ active + 1 \in File
    BY <1>3, StoreAssumption DEF WriteRollover, RolloverFails, File
  <2>4. active + 1 \notin segs /\ walLog[gen][active + 1] = <<>>
    BY <2>2, <2>3 DEF Structure, FilesOK
  <2>5. /\ walFiles'[gen] = walFiles[gen] \cup {active + 1}
        /\ \A g \in Gen \ {gen} : walFiles'[g] = walFiles[g]
    BY <2>1 DEF DiskTypeOK
  <2>6. FilesOK'
    BY <2>1, <2>2, <2>5 DEF Structure, FilesOK, Gen
  <2>7. OnOneGeneration'
    BY <2>1, <2>2 DEF OnOneGeneration
  <2>8. SegmentsOK'
    <3>1. CASE segs' = segs \cup {active + 1} /\ active' = active + 1
      <4>1. walFiles'[gen'] \ segs' = {}
        BY <2>1, <2>2, <2>5, <3>1
      <4>2. \A f \in segs' : f <= active'
        <5>1. \A f \in segs : f \in Nat
          BY <2>2
        <5> QED
          BY <2>2, <3>1, <5>1
      <4>3. active' \in segs' /\ segs' \subseteq walFiles'[gen']
        BY <2>1, <2>2, <2>5, <3>1
      <4> QED
        BY <4>1, <4>2, <4>3 DEF SegmentsOK
    <3>2. CASE UNCHANGED <<segs, active>>
      <4>1. \A f \in walFiles'[gen'] \ segs' : f = active' + 1 /\ walLog'[gen'][f] = <<>>
        BY <2>1, <2>2, <2>4, <2>5, <3>2
      <4> QED
        BY <2>1, <2>2, <2>5, <3>2, <4>1 DEF SegmentsOK
    <3> QED
      BY <2>1, <3>1, <3>2
  <2> QED
    BY <2>6, <2>7, <2>8 DEF Structure
<1>4. CASE RetryAppend
  <2>1. pc = "retry" /\ AppendAndPublish([key |-> pending.key, val |-> pending.val])
    BY <1>4 DEF RetryAppend
  <2>2. [key |-> pending.key, val |-> pending.val] \in Record
    BY <2>1 DEF Record, LocalsOK, LocalsTypeOK, Pending, NoRecord, Payload
  <2> QED
    BY <1>1, <2>1, <2>2
<1>5. CASE RetryFails
  BY <1>5, StructureStays DEF RetryFails, disk
<1> QED
  BY <1>2, <1>3, <1>4, <1>5 DEF RetryStep

\* A checkpoint step that fails leaves the files of the log alone.
LEMMA StructureCheckpoint ==
  ASSUME Inv, ~ SwitchFails,
         \/ CheckpointStep \/ SnapshotFails \/ CreateWalDirFails
         \/ ManifestFails \/ ManifestSyncFails \/ ResetFails
  PROVE  Structure'
<1> USE InvFacts
<1>1. CASE Collect
  <2>1. UNCHANGED <<manifest, walFiles, walLog>> /\ pc = "ckCollect"
    BY <1>1 DEF Collect, disk
  <2>2. CASE Finish(TRUE)
    BY <2>1, <2>2, StructureFinish
  <2>3. CASE pc' = "ckSnapshot" /\ UNCHANGED records
    BY <2>1, <2>3, StructureStays
  <2> QED
    BY <1>1, <2>2, <2>3 DEF Collect
<1>2. CASE WriteSnapshot \/ CreateWalDir
  BY <1>2, StructureStays DEF WriteSnapshot, PublishSnapshot, CreateWalDir
<1>3. CASE WriteManifest
  <2>1. /\ pc = "ckManifest" /\ pc' = "ckReset" /\ manifest' = gen + 1
        /\ UNCHANGED <<walFiles, walLog>>
    BY <1>3 DEF WriteManifest, PublishManifest, NextGen
  <2>2. gen = CurrentGen /\ CurrentGen' = gen + 1 /\ gen + 1 \in Gen
    BY <2>1, NextGenType DEF Structure, OnOneGeneration, CurrentGen, NextGen, Committing
  <2>3. FilesOK'
    BY <2>1, <2>2 DEF Structure, FilesOK, Gen
  <2> QED
    BY <2>1, <2>3 DEF Structure, OnOneGeneration, SegmentsOK
<1>4. CASE ResetToSnapshot
  <2>1. /\ pc = "ckReset" /\ pc' = "ckRebuild" /\ gen' = NextGen
        /\ walFiles' = [walFiles EXCEPT ![NextGen] = @ \cup {1}]
        /\ segs' = {1} /\ active' = 1
        /\ UNCHANGED <<manifest, walLog>>
    BY <1>4 DEF ResetToSnapshot
  <2>2. manifest = NextGen /\ walFiles[NextGen] = {} /\ NextGen \in Gen
    BY <2>1, NextGenType DEF Structure, FilesOK, PublishedInOrder, Committing
  <2>3. /\ walFiles'[NextGen] = {1} /\ CurrentGen' = NextGen /\ CurrentGen = NextGen
        /\ \A g \in Gen \ {NextGen} : walFiles'[g] = walFiles[g]
    BY <2>1, <2>2 DEF DiskTypeOK, CurrentGen, Gen
  <2>4. FilesOK'
    <3>1. \A g \in Gen : \A f \in File : f \notin walFiles'[g] => walLog'[g][f] = <<>>
      BY <2>1, <2>2, <2>3 DEF Structure, FilesOK
    <3>2. \A g \in Gen : g > CurrentGen' => walFiles'[g] = {}
      BY <2>2, <2>3 DEF Structure, FilesOK, Gen
    <3> QED
      BY <2>1, <3>1, <3>2 DEF FilesOK
  <2> QED
    BY <2>1, <2>3, <2>4 DEF Structure, OnOneGeneration, SegmentsOK
<1>5. CASE Rebuild
  <2>1. /\ pc = "ckRebuild" /\ pc' = "cleanWal"
        /\ UNCHANGED <<manifest, walFiles, walLog, gen, segs, active>>
    BY <1>5 DEF Rebuild, StartCleaning, disk
  <2> QED
    BY <2>1 DEF Structure, OnOneGeneration, FilesOK, SegmentsOK, CurrentGen
<1>6. CASE SnapshotFails \/ CreateWalDirFails \/ ManifestFails
  <2>1. /\ UNCHANGED <<manifest, walFiles, walLog>> /\ Finish(TRUE)
        /\ pc \notin {"closed", "ckReset"}
    BY <1>6 DEF SnapshotFails, PublishSnapshot, CreateWalDirFails, ManifestFails, disk
  <2> QED
    BY <2>1, StructureFinish
<1>7. CASE ManifestSyncFails \/ ResetFails
  BY <1>7 DEF SwitchFails
<1> QED
  BY <1>1, <1>2, <1>3, <1>4, <1>5, <1>6, <1>7 DEF CheckpointStep

\* What a cleanup removes belongs to another generation.
LEMMA CleanedGeneration ==
  ASSUME Inv, pc \in {"cleanWal", "cleanSnap"}, todo # {}
  PROVE  /\ Smallest(todo) \in Gen /\ Smallest(todo) # gen
         /\ gen = manifest /\ gen = CurrentGen
<1> USE InvFacts
<1>1. Smallest(todo) \in todo /\ Smallest(todo) \in Gen
  BY SmallestGenType DEF LocalsTypeOK
<1> QED
  BY <1>1 DEF PublishedInOrder, CurrentGen

LEMMA StructureClean ==
  ASSUME Inv, CleanStep \/ RemoveTreeFails \/ RemoveSnapshotFails
  PROVE  Structure'
<1> USE InvFacts
<1>1. CASE RemoveSegment
  <2>1. PICK f \in walFiles[Smallest(todo)] :
          /\ walFiles' = [walFiles EXCEPT ![Smallest(todo)] = @ \ {f}]
          /\ walLog' = [walLog EXCEPT ![Smallest(todo)][f] = <<>>]
    BY <1>1 DEF RemoveSegment
  <2>2. /\ pc = "cleanWal" /\ Smallest(todo) \in Gen /\ Smallest(todo) # gen
        /\ gen = CurrentGen /\ CurrentGen' = CurrentGen
        /\ UNCHANGED <<manifest, records, pc>>
    BY <1>1, CleanedGeneration DEF RemoveSegment, CurrentGen
  <2>3. /\ \A g \in Gen : walFiles'[g] \subseteq walFiles[g]
        /\ \A g \in Gen, x \in File :
             x \in walFiles[g] \ walFiles'[g] => walLog'[g][x] = <<>>
        /\ \A g \in Gen, x \in File : walLog[g][x] = <<>> => walLog'[g][x] = <<>>
        /\ walFiles'[gen] = walFiles[gen] /\ walLog'[gen] = walLog[gen]
    BY <2>1, <2>2 DEF DiskTypeOK
  <2>4. FilesOK'
    BY <2>2, <2>3 DEF Structure, FilesOK
  <2> QED
    BY <2>2, <2>3, <2>4 DEF Structure, OnOneGeneration, SegmentsOK, records
<1>2. CASE \/ RemoveDir \/ RemoveTreeFails \/ CleanSnapshots
           \/ RemoveSnapshot \/ RemoveSnapshotFails
  BY <1>2, StructureStays
     DEF RemoveDir, RemoveTreeFails, CleanSnapshots, RemoveSnapshot,
         RemoveSnapshotFails, disk
<1>3. CASE CleanDone
  <2>1. /\ UNCHANGED <<manifest, walFiles, walLog>> /\ Finish(err)
        /\ pc \notin {"closed", "ckReset"} /\ err \in BOOLEAN
    BY <1>3 DEF CleanDone, disk, LocalsTypeOK
  <2> QED
    BY <2>1, StructureFinish
<1> QED
  BY <1>1, <1>2, <1>3 DEF CleanStep

LEMMA StructureNext ==
  ASSUME Inv, ~ SwitchFails, [Next]_vars PROVE Structure'
<1>1. CASE OpenRecords \/ OpenFails \/ OpenStep
  BY <1>1, StructureOpen
<1>2. CASE \/ \E k \in Key, v \in Payload :
                Write(k, v) \/ WriteRollover(k, v) \/ RolloverFails(k, v)
           \/ RetryStep
  BY <1>2, StructureWrite
<1>3. CASE \/ CheckpointStep \/ SnapshotFails \/ CreateWalDirFails
           \/ ManifestFails \/ ManifestSyncFails \/ ResetFails
  BY <1>3, StructureCheckpoint
<1>4. CASE CleanStep \/ RemoveTreeFails \/ RemoveSnapshotFails
  BY <1>4, StructureClean
<1>5. CASE Close
  <2>1. UNCHANGED <<manifest, walFiles, walLog>> /\ pc = "idle"
    BY <1>5 DEF Close, disk
  <2>2. CASE Gone
    BY <2>1, <2>2, StructureGone
  <2>3. CASE pc' = "ckCollect" /\ UNCHANGED records
    BY <2>1, <2>3, StructureStays
  <2> QED
    BY <1>5, <2>2, <2>3 DEF Close
<1>6. CASE Crash
  BY <1>6, StructureGone DEF Crash, disk
<1>7. CASE UNCHANGED vars
  BY <1>7, StructureStays DEF vars, disk
<1> QED
  BY <1>1, <1>2, <1>3, <1>4, <1>5, <1>6, <1>7
     DEF Next, CallStep, InternalStep, FaultStep

-----------------------------------------------------------------------------
(***************************************************************************)
(* What the files hold.                                                    *)
(***************************************************************************)

\* The recovered value of k, of the generation g that MANIFEST names.
LEMMA RecoveredIn ==
  ASSUME NEW g, g = CurrentGen, NEW k
  PROVE  RecoveredValue(k) = IF Touches(g, k) = {} THEN Base(k)
                             ELSE walLog[g][Newest(Touches(g, k))[1]]
                                           [Newest(Touches(g, k))[2]].val
BY DEF RecoveredValue

LEMMA RecoveredInNext ==
  ASSUME NEW g, g = CurrentGen', NEW k
  PROVE  RecoveredValue(k)' = IF Touches(g, k)' = {} THEN Base(k)'
                              ELSE walLog'[g][Newest(Touches(g, k)')[1]]
                                             [Newest(Touches(g, k)')[2]].val
BY DEF RecoveredValue, Touches

\* A step that leaves MANIFEST, its snapshot and the records of its log alone
\* leaves the content alone.
LEMMA RecoveredStable ==
  ASSUME Inv, DiskTypeOK', FilesOK',
         manifest' = manifest, walLog'[CurrentGen] = walLog[CurrentGen],
         manifest # 0 => snapData'[manifest] = snapData[manifest]
  PROVE  /\ Recovered' = Recovered
         /\ \A k \in Key : Base(k)' = Base(k)
         /\ \A k \in Key : RecoveredValue(k)' = RecoveredValue(k)
         /\ \A k \in Key, g \in Gen : g = CurrentGen => Touches(g, k)' = Touches(g, k)
<1>1. PICK g \in Gen : g = CurrentGen
  BY InvFacts
<1>2. g = CurrentGen'
  BY <1>1 DEF CurrentGen
<1>3. \A k \in Key : Touches(g, k)' = Touches(g, k)
  BY <1>1, TouchesStable, InvFacts DEF Structure
<1>4. \A k \in Key : Base(k)' = Base(k)
  BY DEF Base
<1>5. ASSUME NEW k \in Key PROVE RecoveredValue(k)' = RecoveredValue(k)
  BY <1>1, <1>2, <1>3, <1>4, RecoveredIn, RecoveredInNext
<1>6. Recovered' = Recovered
  BY <1>5 DEF Recovered
<1> QED
  BY <1>1, <1>3, <1>4, <1>5, <1>6

\* The steps that change what the files of the current generation hold are the
\* appends and the publication of MANIFEST.
ContentKept ==
  /\ manifest' = manifest
  /\ walLog'[CurrentGen] = walLog[CurrentGen]
  /\ manifest # 0 => snapData'[manifest] = snapData[manifest]

LEMMA ContentKeptBySteps ==
  ASSUME Inv, ~ SwitchFails, [Next]_vars
  PROVE  \/ ContentKept
         \/ \E k \in Key, v \in Payload : Write(k, v)
         \/ RetryAppend
         \/ WriteManifest
<1> USE InvFacts
<1>1. CASE UNCHANGED <<manifest, snapData, walLog>>
  BY <1>1 DEF ContentKept
<1>2. CASE PublishSnapshot /\ pc = "ckSnapshot"
  <2>1. NextGen # manifest
    BY <1>2 DEF Structure, OnOneGeneration, CurrentGen, NextGen
  <2> QED
    BY <1>2, <2>1 DEF PublishSnapshot, ContentKept, DiskTypeOK
<1>3. CASE RemoveSegment
  <2>1. /\ Smallest(todo) # CurrentGen /\ UNCHANGED <<manifest, snapData>>
        /\ \E f : walLog' = [walLog EXCEPT ![Smallest(todo)][f] = <<>>]
    BY <1>3, CleanedGeneration DEF RemoveSegment
  <2> QED
    BY <2>1 DEF ContentKept, DiskTypeOK
<1>4. CASE RemoveSnapshot
  <2>1. /\ Smallest(todo) # manifest /\ UNCHANGED <<manifest, walLog>>
        /\ snapData' = [snapData EXCEPT ![Smallest(todo)] = Empty]
    BY <1>4, CleanedGeneration DEF RemoveSnapshot
  <2> QED
    BY <2>1 DEF ContentKept, DiskTypeOK
<1>5. CASE OpenRecords \/ OpenFails \/ OpenStep \/ Close \/ Crash
  BY <1>1, <1>5 DEF OpenRecords, OpenFails, OpenStep, LoadSnapshot, ReplayRecord,
                    ReplayNextSegment, ReplayDone, Close, Crash, disk
<1>6. CASE \/ \E k \in Key, v \in Payload : WriteRollover(k, v) \/ RolloverFails(k, v)
           \/ RetryFails
  BY <1>1, <1>6 DEF WriteRollover, RolloverFails, RetryFails, disk
<1>7. CASE \/ Collect \/ WriteSnapshot \/ CreateWalDir \/ ResetToSnapshot \/ Rebuild
           \/ SnapshotFails \/ CreateWalDirFails \/ ManifestFails
  BY <1>1, <1>2, <1>7
     DEF Collect, WriteSnapshot, CreateWalDir, ResetToSnapshot, Rebuild,
         SnapshotFails, CreateWalDirFails, ManifestFails, disk
<1>8. CASE ManifestSyncFails \/ ResetFails
  BY <1>8 DEF SwitchFails
<1>9. CASE RemoveDir \/ CleanSnapshots \/ CleanDone \/ RemoveTreeFails
           \/ RemoveSnapshotFails
  BY <1>1, <1>9 DEF RemoveDir, CleanSnapshots, CleanDone, RemoveTreeFails,
                    RemoveSnapshotFails, disk
<1>10. CASE UNCHANGED vars
  BY <1>1, <1>10 DEF vars, disk
<1> QED
  BY <1>3, <1>4, <1>5, <1>6, <1>7, <1>8, <1>9, <1>10
     DEF Next, CallStep, InternalStep, FaultStep, RetryStep, CheckpointStep, CleanStep

\* An append adds one touch, of its own key, and it is the newest.
LEMMA AppendedTouch ==
  ASSUME Inv, pc \in {"idle", "retry"}, DiskTypeOK', FilesOK',
         NEW r \in Record, AppendAndPublish(r),
         NEW g, g = gen, NEW k \in Key
  PROVE  /\ Touches(g, k)' = IF k = r.key THEN Touches(g, k) \cup {NextPos}
                                          ELSE Touches(g, k)
         /\ \A p \in Touches(g, k) :
              /\ Before(p, NextPos)
              /\ walLog'[g][p[1]][p[2]] = walLog[g][p[1]][p[2]]
         /\ walLog'[g][NextPos[1]][NextPos[2]] = r
         /\ NextPos \notin Touches(g, k)
<1> USE InvFacts
<1> DEFINE old == walLog[g][active]
           n   == Len(old)
<1>1. /\ old \in Seq(Record) /\ DOMAIN old = 1..n /\ n \in Nat
  BY LogType
<1>2. /\ DOMAIN Append(old, r) = 1..(n + 1)
      /\ \A i \in 1..n : Append(old, r)[i] = old[i]
      /\ Append(old, r)[n + 1] = r
  BY <1>1, AppendProperties, LenProperties
<1> HIDE DEF old, n
<1>3. /\ walLog'[g][active] = Append(old, r)
      /\ \A f \in File \ {active} : walLog'[g][f] = walLog[g][f]
      /\ UNCHANGED walFiles
  BY DEF AppendAndPublish, DiskTypeOK, old
<1>4. NextPos = <<active, n + 1>> /\ old = walLog[g][active]
  BY DEF NextPos, old, n
<1>5. /\ active \in walFiles[g]
      /\ \A f \in walFiles[g] : f \in File /\ (walLog[g][f] # <<>> => f <= active)
  <2>1. \A f \in walFiles[g] \ segs : walLog[g][f] = <<>>
    BY DEF Structure, SegmentsOK
  <2>2. \A f \in segs : f <= active
    BY DEF Structure, SegmentsOK
  <2> QED
    BY <2>1, <2>2 DEF Structure, SegmentsOK
<1>6. ASSUME NEW p \in Touches(g, k)
      PROVE  /\ p = <<p[1], p[2]>> /\ p[1] \in walFiles[g] /\ p[1] \in File
             /\ p[2] \in DOMAIN walLog[g][p[1]] /\ p[2] \in Nat
             /\ walLog[g][p[1]][p[2]].key = k
             /\ p[1] <= active
             /\ p[1] = active => p[2] \in 1..n
  <2>1. /\ p = <<p[1], p[2]>> /\ p[1] \in walFiles[g] /\ p[1] \in File
        /\ p[2] \in DOMAIN walLog[g][p[1]] /\ p[2] \in Nat
        /\ walLog[g][p[1]][p[2]].key = k
    BY TouchesAre
  <2>2. walLog[g][p[1]] # <<>>
    BY <2>1, LogType, EmptySeq
  <2> QED
    BY <1>1, <1>4, <1>5, <2>1, <2>2
<1>7. ASSUME NEW p \in Touches(g, k)
      PROVE  /\ Before(p, NextPos)
             /\ walLog'[g][p[1]][p[2]] = walLog[g][p[1]][p[2]]
             /\ p # NextPos
             /\ p \in Touches(g, k)'
  <2>1. p[1] \in Nat /\ p[2] \in Nat
    BY <1>6
  <2>2. Before(p, NextPos) /\ p # NextPos
    BY <1>1, <1>4, <1>6, <2>1 DEF Before
  <2>3. walLog'[g][p[1]][p[2]] = walLog[g][p[1]][p[2]]
    <3>1. CASE p[1] = active
      BY <1>2, <1>3, <1>4, <1>6, <3>1
    <3>2. CASE p[1] # active
      BY <1>3, <1>6, <3>2
    <3> QED
      BY <3>1, <3>2
  <2>4. p[2] \in DOMAIN walLog'[g][p[1]]
    <3>1. CASE p[1] = active
      BY <1>1, <1>2, <1>3, <1>4, <1>6, <3>1
    <3>2. CASE p[1] # active
      BY <1>3, <1>6, <3>2
    <3> QED
      BY <3>1, <3>2
  <2>5. p \in Touches(g, k)'
    BY <1>3, <1>6, <2>3, <2>4 DEF Touches
  <2> QED
    BY <2>2, <2>3, <2>5
<1>8. NextPos \in Touches(g, k)' <=> k = r.key
  <2>1. n + 1 \in DOMAIN walLog'[g][active] /\ walLog'[g][active][n + 1] = r
    BY <1>1, <1>2, <1>3
  <2>2. NextPos[1] = active /\ NextPos[2] = n + 1
    BY <1>4
  <2>3. NextPos \in {active} \X DOMAIN walLog'[g][active]
    BY <1>4, <2>1
  <2>4. NextPos \in UNION {{f} \X DOMAIN walLog'[g][f] : f \in walFiles'[g]}
    BY <1>3, <1>5, <2>3
  <2>5. NextPos \in Touches(g, k)' <=> walLog'[g][NextPos[1]][NextPos[2]].key = k
    <3> HIDE DEF NextPos
    <3> QED
      BY <2>4 DEF Touches
  <2> QED
    BY <2>1, <2>2, <2>5
<1>9. ASSUME NEW p \in Touches(g, k)', p # NextPos PROVE p \in Touches(g, k)
  <2>1. PICK f \in walFiles[g] : p \in {f} \X DOMAIN walLog'[g][f]
    BY <1>3 DEF Touches
  <2>2. p = <<f, p[2]>> /\ p[2] \in DOMAIN walLog'[g][f] /\ f \in File
    BY <1>5, <2>1
  <2>3. walLog'[g][f][p[2]].key = k
    BY <2>2 DEF Touches
  <2>4. p[2] \in DOMAIN walLog[g][f] /\ walLog'[g][f][p[2]] = walLog[g][f][p[2]]
    <3>1. CASE f = active
      <4>1. p[2] \in 1..(n + 1) /\ p[2] # n + 1
        BY <1>2, <1>3, <1>4, <1>9, <2>2, <3>1
      <4>2. p[2] \in 1..n
        BY <1>1, <4>1
      <4> QED
        BY <1>1, <1>2, <1>3, <1>4, <3>1, <4>2
    <3>2. CASE f # active
      BY <1>3, <2>2, <3>2
    <3> QED
      BY <3>1, <3>2
  <2> QED
    BY <2>2, <2>3, <2>4, TouchesAre
<1>10. walLog'[g][NextPos[1]][NextPos[2]] = r
  BY <1>2, <1>3, <1>4
<1>11. Touches(g, k)' = IF k = r.key THEN Touches(g, k) \cup {NextPos}
                                     ELSE Touches(g, k)
  <2>1. \A p \in Touches(g, k) : p \in Touches(g, k)'
    BY <1>7
  <2>2. \A p \in Touches(g, k)' : p = NextPos \/ p \in Touches(g, k)
    BY <1>9
  <2> HIDE DEF NextPos, Touches
  <2>3. CASE k = r.key
    BY <1>8, <2>1, <2>2, <2>3
  <2>4. CASE k # r.key
    BY <1>8, <2>1, <2>2, <2>4
  <2> QED
    BY <2>3, <2>4
<1> QED
  BY <1>7, <1>10, <1>11

-----------------------------------------------------------------------------
(***************************************************************************)
(* The index follows the log.                                              *)
(***************************************************************************)

\* Once settled, the index has seen every record.
LEMMA SettledReplay ==
  ASSUME NEW g, NEW k
  PROVE  /\ g = gen /\ pc \in Settled => Replayed(k) = Touches(g, k)
         /\ g = gen' /\ pc' \in Settled => Replayed(k)' = Touches(g, k)'
BY DEF Replayed, Touches, Settled

\* Steps after which neither the content nor the index has changed.
LEMMA IndexStays ==
  ASSUME Inv, ContentKept, DiskTypeOK', FilesOK',
         pc \in Settled, pc' \in Settled, gen' = gen, snapRecs' = snapRecs,
         \A k \in Key : PositionOf(k)' = PositionOf(k)
  PROVE  IndexOK'
<1> USE InvFacts
<1>1. PICK g \in Gen : g = gen
  OBVIOUS
<1>2. g = CurrentGen /\ g = gen'
  BY <1>1 DEF Structure, OnOneGeneration, Settled, Indexed
<1>3. walLog'[g] = walLog[g]
  BY <1>2 DEF ContentKept
<1>4. ASSUME NEW k \in Key PROVE snapRecs'[k] = Base(k)' /\ Tracks(k)'
  <2>1. snapRecs[k] = Base(k) /\ Tracks(k)
    BY DEF Inv, IndexOK, Settled
  <2>2. Base(k)' = Base(k) /\ BasePos(k)' = BasePos(k)
    BY RecoveredStable DEF ContentKept, BasePos
  <2>3. Touches(g, k)' = Touches(g, k)
    BY <1>2, RecoveredStable DEF ContentKept
  <2>4. Replayed(k)' = Replayed(k)
    BY <1>1, <1>2, <2>3, SettledReplay
  <2>5. Tracks(k)'
    BY <1>1, <1>2, <1>3, <2>1, <2>2, <2>4 DEF Tracks, StandsFor
  <2> QED
    BY <2>1, <2>2, <2>5
<1> QED
  BY <1>4 DEF IndexOK, Settled, Indexed

\* Nothing is left to stand for records.
LEMMA IndexGone == ASSUME Gone PROVE IndexOK'
BY DEF Gone, IndexOK, Indexed

LEMMA IndexFinish ==
  ASSUME Inv, ContentKept, DiskTypeOK', FilesOK', NEW b \in BOOLEAN, Finish(b),
         pc \in Settled, pc # "retry"
  PROVE  IndexOK'
<1>1. CASE Gone
  BY <1>1, IndexGone
<1>2. CASE pc' = "idle" /\ Return /\ UNCHANGED <<records, index>>
  <2>1. \A k \in Key : PositionOf(k)' = PositionOf(k)
    BY <1>2 DEF PositionOf
  <2> QED
    BY <1>2, <2>1, IndexStays DEF Settled, Indexed, records
<1> QED
  BY <1>1, <1>2 DEF Finish

\* An appended record becomes what its key stands for.
LEMMA IndexAppend ==
  ASSUME Inv, DiskTypeOK', FilesOK', pc \in {"idle", "retry"},
         NEW r \in Record, AppendAndPublish(r),
         pc = "retry" => r.key = pending.key
  PROVE  IndexOK'
<1> USE InvFacts
<1>1. PICK g \in Gen : g = gen
  OBVIOUS
<1>2. /\ index' = Applied(r, NextPos)
      /\ pc' \in {"ckCollect", "idle"}
      /\ UNCHANGED <<manifest, snapData, records>>
      /\ g = gen'
  BY <1>1 DEF AppendAndPublish, records
<1>3. ASSUME NEW k \in Key PROVE snapRecs'[k] = Base(k)' /\ Tracks(k)'
  <2>1. snapRecs[k] = Base(k) /\ Tracks(k)
    BY DEF Inv, IndexOK, Indexed
  <2>2. Base(k)' = Base(k) /\ BasePos(k)' = BasePos(k)
    BY <1>2 DEF Base, BasePos
  <2>8. snapRecs'[k] = Base(k)'
    BY <1>2, <2>1, <2>2 DEF records
  <2>3. /\ Replayed(k) = Touches(g, k)
        /\ Replayed(k)' = Touches(g, k)'
    BY <1>1, <1>2, SettledReplay DEF Settled, Indexed
  <2>4. /\ Touches(g, k)' = IF k = r.key THEN Touches(g, k) \cup {NextPos}
                                         ELSE Touches(g, k)
        /\ \A p \in Touches(g, k) :
             /\ Before(p, NextPos)
             /\ walLog'[g][p[1]][p[2]] = walLog[g][p[1]][p[2]]
        /\ walLog'[g][NextPos[1]][NextPos[2]] = r
    BY <1>1, AppendedTouch
  <2>5. PositionOf(k)' = index'[k]
    BY <1>2 DEF PositionOf
  <2> HIDE DEF NextPos, Touches
  <2>6. CASE k = r.key
    <3>1. IsNewest(NextPos, Replayed(k)')
      BY <2>3, <2>4, <2>6 DEF IsNewest
    <3>2. index'[k] = IF r.val = Missing THEN NoPos ELSE NextPos
      BY <1>2, <2>6 DEF Applied, MemoryTypeOK
    <3>3. /\ NextPos \in Replayed(k)'
          /\ PositionOf(k)' = IF walLog'[g][NextPos[1]][NextPos[2]].val = Missing
                              THEN NoPos ELSE NextPos
      BY <2>4, <2>5, <3>1, <3>2 DEF IsNewest
    <3> QED
      BY <1>2, <2>8, <3>1, <3>3 DEF Tracks, StandsFor
  <2>7. CASE k # r.key
    <3>1. index'[k] = index[k] /\ PositionOf(k) = index[k]
      BY <1>2, <2>7 DEF Applied, MemoryTypeOK, PositionOf
    <3>2. Replayed(k)' = Replayed(k)
      BY <2>3, <2>4, <2>7
    <3>3. CASE Replayed(k) = {} /\ PositionOf(k) = BasePos(k)
      BY <2>2, <2>5, <2>8, <3>1, <3>2, <3>3 DEF Tracks, StandsFor
    <3>4. CASE \E m \in Replayed(k) :
                 /\ IsNewest(m, Replayed(k))
                 /\ PositionOf(k) = IF walLog[gen][m[1]][m[2]].val = Missing
                                    THEN NoPos ELSE m
      <4>1. PICK m \in Replayed(k) :
                 /\ IsNewest(m, Replayed(k))
                 /\ PositionOf(k) = IF walLog[gen][m[1]][m[2]].val = Missing
                                    THEN NoPos ELSE m
        BY <3>4
      <4>2. walLog'[g][m[1]][m[2]] = walLog[g][m[1]][m[2]]
        BY <2>3, <2>4
      <4>3. PositionOf(k)' = IF walLog'[gen'][m[1]][m[2]].val = Missing
                             THEN NoPos ELSE m
        BY <1>1, <1>2, <2>5, <3>1, <4>1, <4>2
      <4> QED
        BY <1>2, <2>8, <3>2, <4>1, <4>3 DEF Tracks, StandsFor
    <3> QED
      BY <2>1, <3>3, <3>4 DEF Tracks, StandsFor
  <2> QED
    BY <2>6, <2>7
<1> QED
  BY <1>2, <1>3 DEF IndexOK, Indexed

\* The records of the generation in use are in mapped segments.
LEMMA TouchesMapped ==
  ASSUME Inv, pc \notin {"closed", "ckReset"}, NEW k \in Key, NEW p \in Touches(gen, k)
  PROVE  /\ p = <<p[1], p[2]>>
         /\ p[1] \in segs /\ p[1] \in File /\ p[1] \in Nat
         /\ p[2] \in DOMAIN walLog[gen][p[1]] /\ p[2] \in Nat \ {0}
         /\ DOMAIN walLog[gen][p[1]] = 1..Len(walLog[gen][p[1]])
         /\ Len(walLog[gen][p[1]]) \in Nat
         /\ walLog[gen][p[1]][p[2]].key = k
<1> USE InvFacts
<1>1. /\ p = <<p[1], p[2]>>
      /\ p[1] \in walFiles[gen] /\ p[1] \in File
      /\ p[2] \in DOMAIN walLog[gen][p[1]] /\ p[2] \in Nat \ {0}
      /\ walLog[gen][p[1]][p[2]].key = k
  BY TouchesAre
<1>2. /\ DOMAIN walLog[gen][p[1]] = 1..Len(walLog[gen][p[1]])
      /\ Len(walLog[gen][p[1]]) \in Nat
      /\ walLog[gen][p[1]] # <<>>
  BY <1>1, LogType, EmptySeq
<1>3. p[1] \in segs
  BY <1>1, <1>2 DEF Structure, SegmentsOK
<1> QED
  BY <1>1, <1>2, <1>3

\* The index that a replay starts from.
LEMMA IndexBeforeReplay ==
  ASSUME NEW c \in Content, index' = SlotsOf(c), snapRecs' = c,
         pc' \in Indexed \ {"retry"},
         \A k \in Key : Base(k)' = c[k] /\ Replayed(k)' = {}
  PROVE  IndexOK'
<1>1. ASSUME NEW k \in Key PROVE Tracks(k)'
  <2>1. PositionOf(k)' = BasePos(k)'
    BY DEF PositionOf, BasePos, SlotsOf
  <2> QED
    BY <2>1 DEF Tracks, StandsFor
<1> QED
  BY <1>1 DEF IndexOK, Indexed

\* A replay step that hands nothing to the index.
LEMMA IndexReplayed ==
  ASSUME Inv, pc = "replay", pc' \in Indexed \ {"retry"},
         UNCHANGED <<disk, records, index>>,
         \A k \in Key : Replayed(k)' = Replayed(k)
  PROVE  IndexOK'
<1>1. ASSUME NEW k \in Key PROVE snapRecs'[k] = Base(k)' /\ Tracks(k)'
  <2>1. snapRecs[k] = Base(k) /\ Tracks(k)
    BY DEF Inv, IndexOK, Indexed
  <2>2. Base(k)' = Base(k) /\ BasePos(k)' = BasePos(k)
    BY DEF Base, BasePos, disk
  <2>3. PositionOf(k)' = PositionOf(k)
    BY DEF PositionOf
  <2> QED
    BY <2>1, <2>2, <2>3 DEF Tracks, StandsFor, disk, records
<1> QED
  BY <1>1 DEF IndexOK, Indexed

LEMMA IndexOpen ==
  ASSUME Inv, OpenRecords \/ OpenFails \/ OpenStep, DiskTypeOK', FilesOK'
  PROVE  IndexOK'
<1> USE InvFacts
<1>1. CASE OpenRecords
  <2> DEFINE ids == SegmentsToOpen(CurrentGen)
  <2>1. ids \in SUBSET Nat /\ Smallest(ids) \in ids /\ \A f \in ids : Smallest(ids) <= f
    <3>1. ids \in SUBSET Nat /\ ids # {}
      BY SegmentsToOpenType DEF File
    <3> QED
      BY <3>1, SmallestIsLeast
  <2>2. /\ gen' = CurrentGen /\ segs' = ids
        /\ walFiles' = [walFiles EXCEPT ![CurrentGen] = ids]
        /\ cursor' = <<Smallest(ids), 1>>
        /\ pc' = IF manifest = 0 THEN "replay" ELSE "loadSnapshot"
        /\ UNCHANGED <<manifest, walLog, snapRecs, index>>
        /\ snapRecs = Empty /\ index = SlotsOf(Empty)
    BY <1>1 DEF OpenRecords, Inv, IndexOK
  <2> HIDE DEF ids
  <2>3. CASE manifest # 0
    BY <2>1, <2>2, <2>3 DEF IndexOK, Indexed
  <2>4. CASE manifest = 0
    <3>1. ASSUME NEW k \in Key PROVE Base(k)' = Empty[k] /\ Replayed(k)' = {}
      <4>1. Base(k)' = Empty[k]
        BY <2>2, <2>4 DEF Base, Empty
      <4>2. PICK g \in Gen : g = CurrentGen
        OBVIOUS
      <4>3. ASSUME NEW p \in Touches(g, k)' PROVE ~ Before(p, cursor')
        <5>1. walFiles'[g] = ids /\ walLog' = walLog
          BY <2>2, <4>2 DEF DiskTypeOK
        <5>2. PICK f \in ids : p \in {f} \X DOMAIN walLog[g][f]
          BY <5>1 DEF Touches
        <5>3. f \in File
          BY <5>1 DEF DiskTypeOK
        <5>4. p[1] = f /\ p[2] \in Nat \ {0}
          BY <4>2, <5>2, <5>3, LogType
        <5>5. cursor'[1] = Smallest(ids) /\ cursor'[2] = 1
          BY <2>2
        <5>6. Smallest(ids) \in Nat /\ p[1] \in Nat /\ Smallest(ids) <= p[1]
          BY <2>1, <5>2, <5>4
        <5> QED
          BY <5>4, <5>5, <5>6 DEF Before
      <4>4. Replayed(k)' = {p \in Touches(g, k)' : Before(p, cursor')}
        BY <2>2, <2>4, <4>2 DEF Replayed, Touches
      <4> QED
        BY <4>1, <4>3, <4>4
    <3> QED
      BY <2>2, <2>4, <3>1, EmptyType, IndexBeforeReplay DEF Indexed
  <2> QED
    BY <2>3, <2>4
<1>2. CASE OpenFails
  BY <1>2 DEF OpenFails, Inv, IndexOK, Indexed, records
<1>3. CASE LoadSnapshot
  <2>1. CASE Gone
    BY <2>1, IndexGone
  <2>2. CASE ~ Gone
    <3>1. /\ pc = "loadSnapshot" /\ pc' = "replay"
          /\ snapRecs' = snapData[gen] /\ index' = SlotsOf(snapData[gen])
          /\ UNCHANGED <<disk, gen, segs, active, locals>>
          /\ manifest = gen /\ snapData[gen] \in Content
          /\ cursor[2] = 1 /\ \A f \in segs : cursor[1] <= f
      BY <1>3, <2>2 DEF LoadSnapshot, PublishedInOrder, DiskTypeOK, Inv, IndexOK
    <3>2. ASSUME NEW k \in Key PROVE Base(k)' = snapData[gen][k] /\ Replayed(k)' = {}
      <4>1. Base(k)' = snapData[gen][k]
        BY <3>1 DEF Base, disk
      <4>2. Touches(gen, k)' = Touches(gen, k) /\ cursor' = cursor
        BY <3>1 DEF Touches, disk, locals
      <4>3. ASSUME NEW p \in Touches(gen, k) PROVE ~ Before(p, cursor)
        <5>1. p[1] \in segs /\ p[1] \in Nat /\ p[2] \in Nat \ {0} /\ cursor[1] \in Nat
          BY <3>1, TouchesMapped DEF LocalsTypeOK, File
        <5> QED
          BY <3>1, <5>1 DEF Before
      <4>4. Replayed(k)' = {p \in Touches(gen, k)' : Before(p, cursor')}
        BY <3>1 DEF Replayed
      <4> QED
        BY <4>1, <4>2, <4>3, <4>4
    <3> QED
      BY <3>1, <3>2, IndexBeforeReplay DEF Indexed
  <2> QED
    BY <2>1, <2>2
<1>4. ASSUME pc = "replay", SegmentReplayed
      PROVE  \A k \in Key : \A p \in Touches(gen, k) :
               /\ Before(p, cursor) <=> p[1] <= cursor[1]
               /\ p[1] \in segs /\ p[1] \in Nat /\ p[2] \in Nat
  <2> SUFFICES ASSUME NEW k \in Key, NEW p \in Touches(gen, k)
               PROVE  /\ Before(p, cursor) <=> p[1] <= cursor[1]
                      /\ p[1] \in segs /\ p[1] \in Nat /\ p[2] \in Nat
    OBVIOUS
  <2>1. /\ p[1] \in segs /\ p[1] \in Nat /\ p[2] \in Nat \ {0}
        /\ p[2] \in DOMAIN walLog[gen][p[1]]
        /\ DOMAIN walLog[gen][p[1]] = 1..Len(walLog[gen][p[1]])
        /\ Len(walLog[gen][p[1]]) \in Nat
    BY <1>4, TouchesMapped
  <2>2. cursor[1] \in Nat /\ cursor[2] \in Nat \ {0}
    BY DEF LocalsTypeOK, File
  <2>3. p[1] = cursor[1] => p[2] < cursor[2]
    BY <1>4, <2>1, <2>2 DEF SegmentReplayed
  <2> QED
    BY <2>1, <2>2, <2>3 DEF Before
<1>5. CASE ReplayNextSegment
  <2>1. /\ pc = "replay" /\ pc' = "replay" /\ SegmentReplayed /\ LaterSegments # {}
        /\ cursor' = <<Smallest(LaterSegments), 1>>
        /\ UNCHANGED <<disk, records, index>>
    BY <1>5 DEF ReplayNextSegment
  <2>2. /\ LaterSegments \in SUBSET Nat
        /\ \A f \in segs : f \in LaterSegments <=> cursor[1] < f
    BY DEF LaterSegments, MemoryTypeOK, File
  <2>3. /\ Smallest(LaterSegments) \in LaterSegments
        /\ \A f \in LaterSegments : Smallest(LaterSegments) <= f
    BY <2>1, <2>2, SmallestIsLeast
  <2>4. cursor[1] \in Nat /\ cursor[1] < Smallest(LaterSegments)
    BY <2>3 DEF LaterSegments, LocalsTypeOK, File
  <2>5. ASSUME NEW k \in Key PROVE Replayed(k)' = Replayed(k)
    <3>1. Touches(gen, k)' = Touches(gen, k)
      BY <2>1 DEF Touches, disk, records
    <3>2. ASSUME NEW p \in Touches(gen, k)
          PROVE  Before(p, cursor') <=> Before(p, cursor)
      <4>1. /\ Before(p, cursor) <=> p[1] <= cursor[1]
            /\ p[1] \in segs /\ p[1] \in Nat /\ p[2] \in Nat \ {0}
        BY <1>4, <2>1, TouchesMapped
      <4>2. Before(p, cursor') <=> p[1] < Smallest(LaterSegments)
        BY <2>1, <2>2, <2>3, <4>1 DEF Before
      <4>3. p[1] < Smallest(LaterSegments) <=> p[1] <= cursor[1]
        <5>1. Smallest(LaterSegments) \in Nat /\ p[1] \in Nat /\ cursor[1] \in Nat
          BY <2>2, <2>3, <2>4, <4>1
        <5>2. cursor[1] < p[1] => Smallest(LaterSegments) <= p[1]
          BY <2>2, <2>3, <4>1
        <5> QED
          BY <2>4, <5>1, <5>2
      <4> QED
        BY <4>1, <4>2, <4>3
    <3> QED
      BY <2>1, <3>1, <3>2 DEF Replayed
  <2> QED
    BY <2>1, <2>5, IndexReplayed DEF Indexed
<1>6. CASE ReplayDone
  <2>1. /\ pc = "replay" /\ SegmentReplayed /\ LaterSegments = {} /\ UNCHANGED disk
    BY <1>6 DEF ReplayDone
  <2>2. CASE Gone
    BY <2>2, IndexGone
  <2>3. CASE ~ Gone
    <3>1. pc' \in {"idle", "cleanWal"} /\ UNCHANGED <<records, index>>
      BY <1>6, <2>3 DEF ReplayDone, Finish, StartCleaning
    <3>2. ASSUME NEW k \in Key PROVE Replayed(k)' = Replayed(k)
      <4>1. Touches(gen, k)' = Touches(gen, k)
        BY <2>1, <3>1 DEF Touches, disk, records
      <4>2. ASSUME NEW p \in Touches(gen, k) PROVE Before(p, cursor)
        <5>1. /\ Before(p, cursor) <=> p[1] <= cursor[1]
              /\ p[1] \in segs /\ p[1] \in Nat /\ cursor[1] \in Nat
          BY <1>4, <2>1 DEF LocalsTypeOK, File
        <5>2. ~ (cursor[1] < p[1])
          BY <2>1, <5>1 DEF LaterSegments
        <5> QED
          BY <5>1, <5>2
      <4> QED
        BY <2>1, <3>1, <4>1, <4>2 DEF Replayed
    <3> QED
      BY <2>1, <3>1, <3>2, IndexReplayed DEF Indexed
  <2> QED
    BY <2>2, <2>3
<1>7. CASE ReplayRecord
  <2> DEFINE f == cursor[1]
             i == cursor[2]
             r == walLog[gen][f][i]
  <2>1. /\ pc = "replay" /\ pc' = "replay" /\ i \in DOMAIN walLog[gen][f]
        /\ index' = Applied(r, cursor) /\ cursor' = <<f, i + 1>>
        /\ UNCHANGED <<disk, records>>
    BY <1>7 DEF ReplayRecord
  <2>2. cursor = <<f, i>> /\ f \in File /\ f \in Nat /\ i \in Nat \ {0}
    BY DEF LocalsTypeOK, File
  <2>3. f \in walFiles[gen]
    BY <2>1, <2>2, TouchesInLog DEF Structure
  <2>4. r.key \in Key
    BY <2>1, <2>2, LogType
  <2> HIDE DEF r
  <2>5. ASSUME NEW k \in Key PROVE snapRecs'[k] = Base(k)' /\ Tracks(k)'
    <3>1. /\ snapRecs[k] = Base(k) /\ Tracks(k)
          /\ snapRecs'[k] = Base(k)' /\ BasePos(k)' = BasePos(k)
      BY <2>1 DEF Inv, IndexOK, Indexed, Base, BasePos, disk, records
    <3>2. Touches(gen, k)' = Touches(gen, k) /\ gen' = gen /\ walLog' = walLog
      BY <2>1 DEF Touches, disk, records
    <3>3. \A p \in Touches(gen, k) :
            /\ p = <<p[1], p[2]>> /\ p[1] \in Nat /\ p[2] \in Nat
            /\ walLog[gen][p[1]][p[2]].key = k
            /\ Before(p, cursor') <=> Before(p, cursor) \/ p = cursor
      <4> SUFFICES ASSUME NEW p \in Touches(gen, k)
                   PROVE  /\ p = <<p[1], p[2]>> /\ p[1] \in Nat /\ p[2] \in Nat
                          /\ walLog[gen][p[1]][p[2]].key = k
                          /\ Before(p, cursor') <=> Before(p, cursor) \/ p = cursor
        OBVIOUS
      <4>1. /\ p = <<p[1], p[2]>> /\ p[1] \in Nat /\ p[2] \in Nat
            /\ walLog[gen][p[1]][p[2]].key = k
        BY <2>1, TouchesMapped
      <4>2. p = cursor <=> p[1] = f /\ p[2] = i
        BY <2>2, <4>1
      <4>3. cursor'[1] = f /\ cursor'[2] = i + 1
        BY <2>1
      <4> QED
        BY <2>2, <4>1, <4>2, <4>3 DEF Before
    <3>4. /\ Replayed(k) = {p \in Touches(gen, k) : Before(p, cursor)}
          /\ Replayed(k)' = {p \in Touches(gen, k) : Before(p, cursor')}
      BY <2>1, <3>2 DEF Replayed
    <3>5. PositionOf(k)' = index'[k] /\ PositionOf(k) = index[k]
      BY <2>1 DEF PositionOf
    <3>6. \A p \in Replayed(k) : p \in Replayed(k)' /\ Before(p, cursor)
      BY <3>3, <3>4
    <3>7. \A p \in Replayed(k)' : p \in Replayed(k) \/ p = cursor
      BY <3>3, <3>4
    <3>8. CASE k = r.key
      <4>1. cursor \in Touches(gen, k)
        BY <2>1, <2>2, <2>3, <3>8, TouchesAre DEF r
      <4>2. cursor \in Replayed(k)'
        BY <3>3, <3>4, <4>1
      <4>3. IsNewest(cursor, Replayed(k)')
        BY <3>6, <3>7, <4>2 DEF IsNewest
      <4>4. index'[k] = IF walLog[gen][cursor[1]][cursor[2]].val = Missing
                        THEN NoPos ELSE cursor
        BY <2>1, <3>8 DEF Applied, MemoryTypeOK, r
      <4>5. PositionOf(k)' = IF walLog'[gen'][cursor[1]][cursor[2]].val = Missing
                             THEN NoPos ELSE cursor
        BY <3>2, <3>5, <4>4
      <4> QED
        BY <3>1, <4>2, <4>3, <4>5 DEF Tracks, StandsFor
    <3>9. CASE k # r.key
      <4>1. cursor \notin Touches(gen, k)
        BY <3>3, <3>9 DEF r
      <4>2. Replayed(k)' = Replayed(k)
        BY <3>4, <3>6, <3>7, <4>1
      <4>3. index'[k] = index[k]
        BY <2>1, <2>4, <3>9 DEF Applied, MemoryTypeOK
      <4> QED
        BY <3>1, <3>2, <3>5, <4>2, <4>3 DEF Tracks, StandsFor
    <3> QED
      BY <3>8, <3>9
  <2> QED
    BY <2>1, <2>5 DEF IndexOK, Indexed
<1> QED
  BY <1>1, <1>2, <1>3, <1>5, <1>6, <1>7 DEF OpenStep

\* Put and Delete, while nothing but the log and the index change.
LEMMA IndexWrite ==
  ASSUME Inv, DiskTypeOK', FilesOK',
         \/ \E k \in Key, v \in Payload :
              Write(k, v) \/ WriteRollover(k, v) \/ RolloverFails(k, v)
         \/ RetryStep
  PROVE  IndexOK'
<1> USE InvFacts
<1>1. ASSUME NEW k \in Key, NEW v \in Payload, Write(k, v) PROVE IndexOK'
  <2>1. pc = "idle" /\ AppendAndPublish([key |-> k, val |-> v])
    BY <1>1 DEF Write, CanWrite
  <2>2. [key |-> k, val |-> v] \in Record
    BY DEF Record
  <2> QED
    BY <2>1, <2>2, IndexAppend
<1>2. ASSUME NEW k \in Key, NEW v \in Payload,
             WriteRollover(k, v) \/ RolloverFails(k, v)
      PROVE  IndexOK'
  <2>1. /\ pc = "idle" /\ pc' \in {"idle", "retry"}
        /\ UNCHANGED <<manifest, snapData, walLog, gen, snapRecs>>
    BY <1>2 DEF WriteRollover, RolloverFails, CanWrite, records
  <2>2. ASSUME NEW x \in Key PROVE PositionOf(x)' = PositionOf(x)
    <3>1. PositionOf(x) = index[x]
      BY <2>1 DEF PositionOf
    <3>2. CASE RolloverFails(k, v)
      BY <3>1, <3>2 DEF RolloverFails, CanWrite, PositionOf
    <3>3. CASE WriteRollover(k, v)
      <4>1. /\ pending' = [key |-> k, val |-> v, old |-> index[k]]
            /\ index' = IF v = Missing THEN [index EXCEPT ![k] = NoPos] ELSE index
            /\ pc' = "retry"
        BY <3>3 DEF WriteRollover
      <4>2. /\ pending'.key = k /\ pending'.val = v /\ pending'.old = index[k]
        BY <4>1
      <4>3. x # k \/ v # Missing => index'[x] = index[x]
        BY <4>1 DEF MemoryTypeOK
      <4> QED
        BY <3>1, <4>1, <4>2, <4>3 DEF PositionOf
    <3> QED
      BY <1>2, <3>2, <3>3
  <2>3. ContentKept
    BY <2>1 DEF ContentKept
  <2> QED
    BY <2>1, <2>2, <2>3, IndexStays DEF Settled, Indexed
<1>3. CASE RetryAppend
  <2>1. pc = "retry" /\ AppendAndPublish([key |-> pending.key, val |-> pending.val])
    BY <1>3 DEF RetryAppend
  <2>2. [key |-> pending.key, val |-> pending.val] \in Record
    BY <2>1 DEF Record, LocalsOK, LocalsTypeOK, Pending, NoRecord, Payload
  <2> QED
    BY <2>1, <2>2, IndexAppend
<1>4. CASE RetryFails
  <2>1. /\ pc = "retry" /\ pc' = "idle" /\ UNCHANGED <<disk, records>>
        /\ index' = IF pending.val = Missing
                    THEN [index EXCEPT ![pending.key] = pending.old]
                    ELSE index
    BY <1>4 DEF RetryFails
  <2>2. ASSUME NEW x \in Key PROVE PositionOf(x)' = PositionOf(x)
    BY <2>1 DEF PositionOf, MemoryTypeOK
  <2>3. ContentKept
    BY <2>1 DEF ContentKept, disk
  <2> QED
    BY <2>1, <2>2, <2>3, IndexStays DEF Settled, Indexed, records
<1> QED
  BY <1>1, <1>2, <1>3, <1>4 DEF RetryStep

\* The steps of a checkpoint.
LEMMA IndexCheckpoint ==
  ASSUME Inv, ~ SwitchFails, DiskTypeOK', FilesOK',
         \/ CheckpointStep \/ SnapshotFails \/ CreateWalDirFails
         \/ ManifestFails \/ ManifestSyncFails \/ ResetFails
  PROVE  IndexOK'
<1> USE InvFacts
<1>0. ContentKept \/ WriteManifest
  <2>1. pc \notin {"idle", "retry"}
    BY DEF CheckpointStep, Collect, WriteSnapshot, CreateWalDir, WriteManifest,
           ResetToSnapshot, Rebuild, SnapshotFails, CreateWalDirFails,
           ManifestFails, ManifestSyncFails, ResetFails
  <2>2. [Next]_vars
    BY DEF Next, InternalStep, FaultStep
  <2> QED
    BY <2>1, <2>2, ContentKeptBySteps DEF Write, CanWrite, RetryAppend
<1>1. CASE Collect
  <2>1. CASE Finish(TRUE)
    BY <1>0, <1>1, <2>1, IndexFinish
       DEF Collect, WriteManifest, Settled, Indexed
  <2>2. CASE pc' = "ckSnapshot" /\ UNCHANGED <<records, index>>
    <3>1. pc = "ckCollect" /\ \A k \in Key : PositionOf(k)' = PositionOf(k)
      BY <1>1, <2>2 DEF Collect, PositionOf
    <3> QED
      BY <1>0, <2>2, <3>1, IndexStays DEF WriteManifest, Settled, Indexed, records
  <2> QED
    BY <1>1, <2>1, <2>2 DEF Collect
<1>2. CASE WriteSnapshot \/ CreateWalDir
  <2>1. /\ pc \in {"ckSnapshot", "ckDirs"} /\ pc' \in {"ckDirs", "ckManifest"}
        /\ UNCHANGED <<records, index>>
        /\ \A k \in Key : PositionOf(k)' = PositionOf(k)
    BY <1>2 DEF WriteSnapshot, CreateWalDir, PositionOf
  <2> QED
    BY <1>0, <2>1, IndexStays DEF WriteManifest, Settled, Indexed, records
<1>3. CASE WriteManifest \/ ResetToSnapshot
  <2>1. pc' \in {"ckReset", "ckRebuild"}
    BY <1>3 DEF WriteManifest, ResetToSnapshot
  <2> QED
    BY <2>1 DEF IndexOK, Indexed
<1>4. CASE Rebuild
  <2>1. /\ pc = "ckRebuild" /\ pc' = "cleanWal" /\ snapRecs' = entries
        /\ index' = SlotsOf(entries) /\ UNCHANGED <<disk, gen>>
        /\ manifest = gen /\ gen # 0
        /\ snapData[manifest] = entries /\ entries \in Content
        /\ \A f \in File : walLog[gen][f] = <<>>
    BY <1>4 DEF Rebuild, StartCleaning, PublishedInOrder, Inv, EntriesOK, LocalsTypeOK
  <2>2. ASSUME NEW k \in Key PROVE Base(k)' = entries[k] /\ Replayed(k)' = {}
    <3>1. Base(k)' = entries[k]
      BY <2>1 DEF Base, disk
    <3>2. Touches(gen, k)' = Touches(gen, k)
      BY <2>1 DEF Touches, disk
    <3>3. Touches(gen, k) = {}
      <4> SUFFICES ASSUME NEW p \in Touches(gen, k) PROVE FALSE
        OBVIOUS
      <4>1. p[1] \in File /\ p[2] \in DOMAIN walLog[gen][p[1]]
        BY TouchesAre
      <4> QED
        BY <2>1, <4>1
    <3> QED
      BY <2>1, <3>1, <3>2, <3>3 DEF Replayed
  <2> QED
    BY <2>1, <2>2, IndexBeforeReplay DEF Indexed
<1>5. CASE SnapshotFails \/ CreateWalDirFails \/ ManifestFails
  <2>1. pc \in {"ckSnapshot", "ckDirs", "ckManifest"} /\ Finish(TRUE)
    BY <1>5 DEF SnapshotFails, CreateWalDirFails, ManifestFails
  <2>2. ContentKept
    BY <1>0, <1>5, <2>1, ReturnPhase
       DEF WriteManifest, Finish, Gone
  <2> QED
    BY <2>1, <2>2, IndexFinish DEF Settled, Indexed
<1>6. CASE ManifestSyncFails \/ ResetFails
  BY <1>6 DEF SwitchFails
<1> QED
  BY <1>1, <1>2, <1>3, <1>4, <1>5, <1>6 DEF CheckpointStep

\* The steps of a cleanup.
LEMMA IndexClean ==
  ASSUME Inv, ~ SwitchFails, DiskTypeOK', FilesOK',
         CleanStep \/ RemoveTreeFails \/ RemoveSnapshotFails
  PROVE  IndexOK'
<1> USE InvFacts
<1>1. pc \in {"cleanWal", "cleanSnap"}
  BY DEF CleanStep, RemoveSegment, RemoveDir, CleanSnapshots, RemoveSnapshot,
         CleanDone, RemoveTreeFails, RemoveSnapshotFails
<1>2. ContentKept
  <2>1. [Next]_vars
    BY DEF Next, InternalStep, FaultStep
  <2> QED
    BY <1>1, <2>1, ContentKeptBySteps DEF Write, CanWrite, RetryAppend, WriteManifest
<1>3. CASE CleanDone
  BY <1>1, <1>2, <1>3, IndexFinish DEF CleanDone, LocalsTypeOK, Settled, Indexed
<1>4. CASE ~ CleanDone
  <2>1. pc' \in {"cleanWal", "cleanSnap"} /\ UNCHANGED <<records, index>>
    BY <1>4, <1>1 DEF CleanStep, RemoveSegment, RemoveDir, CleanSnapshots,
                      RemoveSnapshot, RemoveTreeFails, RemoveSnapshotFails
  <2>2. \A k \in Key : PositionOf(k)' = PositionOf(k)
    BY <1>1, <2>1 DEF PositionOf
  <2> QED
    BY <1>1, <1>2, <2>1, <2>2, IndexStays DEF Settled, Indexed, records
<1> QED
  BY <1>3, <1>4

LEMMA IndexNext ==
  ASSUME Inv, ~ SwitchFails, [Next]_vars, DiskTypeOK', FilesOK'
  PROVE  IndexOK'
<1>1. CASE OpenRecords \/ OpenFails \/ OpenStep
  BY <1>1, IndexOpen
<1>2. CASE \/ \E k \in Key, v \in Payload :
                Write(k, v) \/ WriteRollover(k, v) \/ RolloverFails(k, v)
           \/ RetryStep
  BY <1>2, IndexWrite
<1>3. CASE \/ CheckpointStep \/ SnapshotFails \/ CreateWalDirFails
           \/ ManifestFails \/ ManifestSyncFails \/ ResetFails
  BY <1>3, IndexCheckpoint
<1>4. CASE CleanStep \/ RemoveTreeFails \/ RemoveSnapshotFails
  BY <1>4, IndexClean
<1>5. CASE Close
  <2>1. CASE Gone
    BY <2>1, IndexGone
  <2>2. CASE pc' = "ckCollect" /\ UNCHANGED <<records, index>>
    <3>1. pc = "idle" /\ UNCHANGED disk /\ \A k \in Key : PositionOf(k)' = PositionOf(k)
      BY <1>5, <2>2 DEF Close, PositionOf
    <3>2. ContentKept
      BY <3>1 DEF ContentKept, disk
    <3> QED
      BY <2>2, <3>1, <3>2, IndexStays DEF Settled, Indexed, records
  <2> QED
    BY <1>5, <2>1, <2>2 DEF Close
<1>6. CASE Crash
  BY <1>6, IndexGone DEF Crash
<1>7. CASE UNCHANGED vars
  <2>1. UNCHANGED <<manifest, snapData, walFiles, walLog, gen, segs, snapRecs, index,
                    pc, pending, cursor>>
    BY <1>7 DEF vars, disk, records, locals
  <2>2. \A k \in Key : /\ Touches(gen, k)' = Touches(gen, k)
                       /\ PositionOf(k)' = PositionOf(k) /\ Base(k)' = Base(k)
    BY <2>1 DEF Touches, PositionOf, Base
  <2>3. \A k \in Key : BasePos(k)' = BasePos(k) /\ Replayed(k)' = Replayed(k)
    BY <2>1, <2>2 DEF BasePos, Replayed
  <2>4. \A k \in Key : Tracks(k) => Tracks(k)'
    BY <2>1, <2>2, <2>3 DEF Tracks
  <2>5. IndexOK
    BY DEF Inv
  <2> QED
    BY <2>1, <2>2, <2>4, <2>5 DEF IndexOK
<1> QED
  BY <1>1, <1>2, <1>3, <1>4, <1>5, <1>6, <1>7
     DEF Next, CallStep, InternalStep, FaultStep

-----------------------------------------------------------------------------
(***************************************************************************)
(* What a checkpoint carries over, and the inductive invariant.            *)
(***************************************************************************)

\* Outside a checkpoint nothing is carried over.
LEMMA EntriesAtRest ==
  ASSUME pc' \notin {"ckSnapshot", "ckDirs", "ckManifest", "ckReset", "ckRebuild"}
  PROVE  EntriesOK'
BY DEF EntriesOK

LEMMA EntriesNext ==
  ASSUME Inv, ~ SwitchFails, [Next]_vars, DiskTypeOK', FilesOK'
  PROVE  EntriesOK'
<1> USE InvFacts
<1>1. CASE Collect
  <2>1. CASE Finish(TRUE)
    BY <2>1, ReturnPhase, EntriesAtRest
  <2>2. CASE /\ pc' = "ckSnapshot" /\ entries' = [k \in Key |-> Get(k)]
    <3>1. pc = "ckCollect" /\ UNCHANGED disk
      BY <1>1 DEF Collect
    <3>2. \A k \in Key : PositionOf(k) = index[k] /\ pc \in Settled
      BY <3>1 DEF PositionOf, Settled, Indexed
    <3>3. \A k \in Key : Get(k) = RecoveredValue(k)
      BY <3>2, EntryMeaning DEF Get
    <3>4. Recovered' = Recovered
      BY <3>1, RecoveredStable DEF disk
    <3> QED
      BY <2>2, <3>3, <3>4 DEF EntriesOK, Recovered
  <2> QED
    BY <1>1, <2>1, <2>2 DEF Collect
<1>2. CASE WriteSnapshot
  <2>1. /\ pc = "ckSnapshot" /\ pc' = "ckDirs" /\ UNCHANGED <<entries, gen>>
        /\ snapData' = [snapData EXCEPT ![NextGen] = entries]
    BY <1>2 DEF WriteSnapshot, PublishSnapshot, records, locals
  <2>2. ContentKept
    BY <2>1, ContentKeptBySteps DEF Write, CanWrite, RetryAppend, WriteManifest
  <2>3. Recovered' = Recovered /\ NextGen \in Gen /\ NextGen' = NextGen
    BY <2>1, <2>2, RecoveredStable, NextGenType DEF ContentKept, Committing, NextGen
  <2> QED
    BY <2>1, <2>3 DEF EntriesOK, Inv, DiskTypeOK
<1>3. CASE CreateWalDir
  <2>1. /\ pc = "ckDirs" /\ pc' = "ckManifest"
        /\ UNCHANGED <<entries, gen, manifest, snapData, walLog>>
    BY <1>3 DEF CreateWalDir, records, locals
  <2>2. Recovered' = Recovered
    BY <2>1, RecoveredStable
  <2> QED
    BY <2>1, <2>2 DEF EntriesOK, Inv, NextGen
<1>4. CASE WriteManifest
  BY <1>4 DEF WriteManifest, PublishManifest, EntriesOK, Inv, NextGen, locals
<1>5. CASE ResetToSnapshot
  <2>1. /\ pc = "ckReset" /\ pc' = "ckRebuild" /\ gen' = NextGen
        /\ UNCHANGED <<manifest, snapData, walLog, entries>>
        /\ manifest = NextGen /\ NextGen \in Gen
    BY <1>5, NextGenType
       DEF ResetToSnapshot, PublishedInOrder, Committing, locals
  <2>2. \A f \in File : walLog[NextGen][f] = <<>>
    BY <2>1 DEF Structure, FilesOK
  <2> QED
    BY <2>1, <2>2 DEF EntriesOK, Inv
<1>6. CASE \/ OpenRecords \/ OpenFails \/ OpenStep \/ RetryStep \/ CleanStep \/ Close
           \/ RemoveTreeFails \/ RemoveSnapshotFails \/ Crash \/ Rebuild
           \/ \E k \in Key, v \in Payload :
                Write(k, v) \/ WriteRollover(k, v) \/ RolloverFails(k, v)
  <2>1. pc' \notin {"ckSnapshot", "ckDirs", "ckManifest", "ckReset", "ckRebuild"}
    <3>1. CASE OpenRecords \/ OpenFails \/ OpenStep \/ Close \/ Crash
      BY <3>1, ReturnPhase
         DEF OpenRecords, OpenFails, OpenStep, LoadSnapshot, ReplayRecord,
             ReplayNextSegment, ReplayDone, StartCleaning, Close, Crash
    <3>2. CASE CleanStep \/ RemoveTreeFails \/ RemoveSnapshotFails \/ Rebuild
      BY <3>2, ReturnPhase
         DEF CleanStep, RemoveSegment, RemoveDir, CleanSnapshots, RemoveSnapshot,
             CleanDone, RemoveTreeFails, RemoveSnapshotFails, Rebuild,
             StartCleaning, LocalsTypeOK
    <3>3. CASE \/ RetryStep
               \/ \E k \in Key, v \in Payload :
                    Write(k, v) \/ WriteRollover(k, v) \/ RolloverFails(k, v)
      BY <3>3 DEF RetryStep, RetryAppend, RetryFails, Write, WriteRollover,
                  RolloverFails, CanWrite, AppendAndPublish
    <3> QED
      BY <1>6, <3>1, <3>2, <3>3
  <2> QED
    BY <2>1, EntriesAtRest
<1>7. CASE SnapshotFails \/ CreateWalDirFails \/ ManifestFails
  BY <1>7, ReturnPhase, EntriesAtRest
     DEF SnapshotFails, CreateWalDirFails, ManifestFails
<1>8. CASE ManifestSyncFails \/ ResetFails
  BY <1>8 DEF SwitchFails
<1>9. CASE UNCHANGED vars
  <2>1. UNCHANGED disk /\ UNCHANGED <<pc, entries, gen>>
    BY <1>9 DEF vars, records, locals
  <2>2. Recovered' = Recovered
    BY <2>1, RecoveredStable DEF disk
  <2> QED
    BY <2>1, <2>2 DEF EntriesOK, Inv, NextGen, disk
<1> QED
  BY <1>1, <1>2, <1>3, <1>4, <1>5, <1>6, <1>7, <1>8, <1>9
     DEF Next, CallStep, InternalStep, FaultStep, CheckpointStep

LEMMA InvInit == Init => Inv
<1> SUFFICES ASSUME Init PROVE Inv
  OBVIOUS
<1>1. TypeOK /\ LocalsOK /\ PublishedInOrder
  BY TypeInit, PublishedInit DEF TypeInv
<1>2. OnOneGeneration /\ FilesOK /\ SegmentsOK
  BY DEF Init, OnOneGeneration, FilesOK, SegmentsOK
<1>3. IndexOK /\ EntriesOK
  BY DEF Init, IndexOK, EntriesOK, Indexed
<1> QED
  BY <1>1, <1>2, <1>3 DEF Inv

LEMMA InvNext == ASSUME Inv, ~ SwitchFails, [Next]_vars PROVE Inv'
<1>1. TypeInv' /\ PublishedInOrder'
  BY InvFacts, TypeNext, PublishedNext
<1>2. Structure'
  BY StructureNext
<1>3. DiskTypeOK' /\ FilesOK'
  BY <1>1, <1>2 DEF TypeInv, TypeOK, Structure
<1>4. IndexOK' /\ EntriesOK'
  BY <1>3, IndexNext, EntriesNext
<1> QED
  BY <1>1, <1>2, <1>4 DEF Inv, TypeInv, Structure

\* The inductive invariant: what memory, log and snapshot have to do with each
\* other in every phase, if no switch of generations fails half way.
THEOREM InvariantHolds == ASSUME SwitchNeverFails PROVE Spec => []Inv
<1>1. Inv /\ [Next]_vars => Inv'
  BY InvNext, SwitchesSucceed
<1> QED
  BY <1>1, InvInit, PTL DEF Spec

\* Between operations a Get answers what Open would rebuild from the files at
\* that moment, for any number of keys, segments and generations.
THEOREM VisibleAlwaysRecoverable ==
  ASSUME SwitchNeverFails PROVE Spec => []VisibleIsRecoverable
<1>1. Inv => VisibleIsRecoverable
  BY InvImpliesSafety
<1> QED
  BY <1>1, InvariantHolds, PTL

\* Between operations every index entry names a put that can be read, and there
\* is an active segment to append to.
THEOREM IndexAlwaysResolves ==
  ASSUME SwitchNeverFails PROVE Spec => []IndexResolves
<1>1. Inv => IndexResolves
  BY InvImpliesSafety
<1> QED
  BY <1>1, InvariantHolds, PTL

-----------------------------------------------------------------------------
(***************************************************************************)
(* What a step may do to the files, and the map that they implement.       *)
(***************************************************************************)

\* An append changes one key of the content, to the value appended.
LEMMA ContentAppended ==
  ASSUME Inv, DiskTypeOK', FilesOK', pc \in {"idle", "retry"},
         NEW r \in Record, AppendAndPublish(r)
  PROVE  Recovered' = [Recovered EXCEPT ![r.key] = r.val]
<1> USE InvFacts
<1>1. PICK g \in Gen : g = gen
  OBVIOUS
<1>2. g = CurrentGen /\ g = CurrentGen'
  BY <1>1 DEF Structure, OnOneGeneration, AppendAndPublish, CurrentGen
<1>3. ASSUME NEW k \in Key
      PROVE  RecoveredValue(k)' = IF k = r.key THEN r.val ELSE RecoveredValue(k)
  <2>1. /\ Touches(g, k)' = IF k = r.key THEN Touches(g, k) \cup {NextPos}
                                         ELSE Touches(g, k)
        /\ \A p \in Touches(g, k) :
             /\ Before(p, NextPos)
             /\ walLog'[g][p[1]][p[2]] = walLog[g][p[1]][p[2]]
        /\ walLog'[g][NextPos[1]][NextPos[2]] = r
    BY <1>1, AppendedTouch
  <2>2. \A p \in Touches(g, k) : p[1] \in Nat /\ p[2] \in Nat
    BY TouchesAre
  <2>3. NextPos[1] \in Nat /\ NextPos[2] \in Nat
    BY <1>1, LogType DEF NextPos
  <2>4. Base(k)' = Base(k)
    BY DEF Base, AppendAndPublish
  <2>5. Tracks(k) /\ Replayed(k) = Touches(g, k)
    BY <1>1, SettledReplay DEF Inv, IndexOK, Settled, Indexed
  <2> HIDE DEF NextPos, Touches
  <2>6. CASE k = r.key
    <3>1. IsNewest(NextPos, Touches(g, k)')
      BY <2>1, <2>6 DEF IsNewest
    <3>2. Newest(Touches(g, k)') = NextPos /\ Touches(g, k)' # {}
      BY <2>1, <2>2, <2>3, <2>6, <3>1, NewestIsUnique
    <3>3. RecoveredValue(k)' = walLog'[g][Newest(Touches(g, k)')[1]]
                                        [Newest(Touches(g, k)')[2]].val
      BY <1>2, <3>2, RecoveredInNext
    <3>4. RecoveredValue(k)' = r.val
      BY <2>1, <3>2, <3>3
    <3> QED
      BY <2>6, <3>4
  <2>7. CASE k # r.key /\ Touches(g, k) = {}
    BY <1>2, <2>1, <2>4, <2>7, RecoveredIn, RecoveredInNext
  <2>8. CASE k # r.key /\ Touches(g, k) # {}
    <3>1. PICK n \in Touches(g, k) : IsNewest(n, Touches(g, k))
      BY <2>5, <2>8 DEF Tracks, StandsFor
    <3>2. Newest(Touches(g, k)) = n
      BY <2>2, <3>1, NewestIsUnique
    <3>3. walLog'[g][n[1]][n[2]] = walLog[g][n[1]][n[2]]
      BY <2>1
    <3> QED
      BY <1>2, <2>1, <2>8, <3>2, <3>3, RecoveredIn, RecoveredInNext
  <2> QED
    BY <2>6, <2>7, <2>8
<1> QED
  BY <1>3 DEF Recovered

\* MANIFEST moves on to a generation that starts from the same content.
LEMMA ManifestMoves ==
  ASSUME Inv, WriteManifest, DiskTypeOK', FilesOK'
  PROVE  /\ manifest' = CurrentGen + 1 /\ manifest' \in Gen
         /\ \A f \in File : walLog[manifest'][f] = <<>>
         /\ snapData[manifest'] = Recovered
         /\ Recovered' = Recovered
<1> USE InvFacts
<1>1. /\ pc = "ckManifest" /\ manifest' = gen + 1 /\ gen = CurrentGen
      /\ UNCHANGED <<walFiles, walLog, snapData>>
  BY DEF WriteManifest, PublishManifest, NextGen, Structure, OnOneGeneration
<1>2. gen + 1 \in Gen
  BY <1>1, NextGenType DEF NextGen, Committing
<1>3. walFiles[gen + 1] = {} /\ \A f \in File : walLog[gen + 1][f] = <<>>
  BY <1>1, <1>2 DEF Structure, FilesOK
<1>4. snapData[gen + 1] = Recovered
  BY <1>1 DEF Inv, EntriesOK, NextGen
<1>5. PICK g \in Gen : g = gen + 1
  BY <1>2
<1>6. g = CurrentGen' /\ manifest' # 0
  BY <1>1, <1>5 DEF CurrentGen
<1>7. ASSUME NEW k \in Key PROVE RecoveredValue(k)' = RecoveredValue(k)
  <2>1. Touches(g, k)' = {}
    BY <1>1, <1>3, <1>5 DEF Touches
  <2>2. Base(k)' = RecoveredValue(k)
    BY <1>1, <1>4, <1>6 DEF Base, Recovered
  <2> QED
    BY <1>6, <2>1, <2>2, RecoveredInNext
<1>8. Recovered' = Recovered
  BY <1>7 DEF Recovered
<1> QED
  BY <1>1, <1>2, <1>3, <1>4, <1>8

\* What a step of the store is to its caller: nothing, or one Put or Delete
\* between two moments at which the store is up.
LEMMA StepOfContent ==
  ASSUME Inv, ~ SwitchFails, [Next]_vars
  PROVE  \/ Recovered' = Recovered
         \/ /\ Up /\ Up'
            /\ \E k \in Key, v \in Payload : Recovered' = [Recovered EXCEPT ![k] = v]
<1> USE InvFacts
<1>0. DiskTypeOK' /\ FilesOK'
  BY InvNext, InvFacts DEF Inv, TypeOK
<1>1. CASE ContentKept
  BY <1>0, <1>1, RecoveredStable DEF ContentKept
<1>2. CASE WriteManifest
  BY <1>0, <1>2, ManifestMoves
<1>3. ASSUME NEW r \in Record, AppendAndPublish(r), pc \in {"idle", "retry"}
      PROVE  /\ Up /\ Up'
             /\ \E k \in Key, v \in Payload : Recovered' = [Recovered EXCEPT ![k] = v]
  <2>1. Up /\ Up'
    BY <1>3 DEF Up, AppendAndPublish, LocalsOK
  <2>2. r.key \in Key /\ r.val \in Payload
    BY DEF Record
  <2> QED
    BY <1>0, <1>3, <2>1, <2>2, ContentAppended
<1>4. ASSUME NEW k \in Key, NEW v \in Payload, Write(k, v)
      PROVE  \E r \in Record : AppendAndPublish(r) /\ pc \in {"idle", "retry"}
  BY <1>4 DEF Write, CanWrite, Record
<1>5. CASE RetryAppend
  <2>1. pc = "retry" /\ AppendAndPublish([key |-> pending.key, val |-> pending.val])
    BY <1>5 DEF RetryAppend
  <2>2. [key |-> pending.key, val |-> pending.val] \in Record
    BY <2>1 DEF Record, LocalsOK, LocalsTypeOK, Pending, NoRecord, Payload
  <2> QED
    BY <1>3, <2>1, <2>2
<1> QED
  BY <1>1, <1>2, <1>3, <1>4, <1>5, ContentKeptBySteps

\* Every step of the store is a step of the abstract map, or none.
LEMMA StepOfMap ==
  ASSUME Inv, ~ SwitchFails, [Next]_vars PROVE [KV!Next]_(KV!vars)
<1>1. CASE Recovered' = Recovered
  <2>1. CASE Up' = Up
    BY <1>1, <2>1 DEF KV!vars
  <2>2. CASE Up' # Up
    <3>1. Up \in BOOLEAN /\ Up' \in BOOLEAN
      BY DEF Up
    <3>2. (~Up /\ Up' = TRUE) \/ (Up /\ Up' = FALSE)
      BY <2>2, <3>1
    <3> QED
      BY <1>1, <3>2 DEF KV!Next, KV!Open, KV!Stop
  <2> QED
    BY <2>1, <2>2
<1>2. CASE /\ Up /\ Up' /\ Recovered' # Recovered
           /\ \E k \in Key, v \in Payload : Recovered' = [Recovered EXCEPT ![k] = v]
  <2>1. PICK k \in Key, v \in Payload : Recovered' = [Recovered EXCEPT ![k] = v]
    BY <1>2
  <2>2. Up' = Up
    BY <1>2 DEF Up
  <2>3. CASE v \in Val
    BY <1>2, <2>1, <2>2, <2>3 DEF KV!Next, KV!Put
  <2>4. CASE v = Missing
    <3>1. Recovered[k] # Missing
      BY <1>2, <2>1, <2>4 DEF Recovered
    <3> QED
      BY <1>2, <2>1, <2>2, <2>4, <3>1 DEF KV!Next, KV!Delete
  <2> QED
    BY <2>1, <2>3, <2>4 DEF Payload
<1> QED
  BY <1>1, <1>2, StepOfContent

LEMMA InitOfMap == Init => KV!Init
<1> SUFFICES ASSUME Init PROVE KV!Init
  OBVIOUS
<1>1. manifest = 0 /\ CurrentGen = 1 /\ walFiles[1] = {}
  BY EmptyType DEF Init, CurrentGen
<1>2. \A k \in Key : RecoveredValue(k) = Missing
  <2>1. \A k \in Key : Touches(CurrentGen, k) = {}
    BY <1>1 DEF Touches
  <2> QED
    BY <1>1, <2>1 DEF RecoveredValue, Base
<1>3. Recovered = [k \in Key |-> Missing] /\ Up = FALSE
  BY <1>2 DEF Recovered, Up, Init
<1> QED
  BY <1>3 DEF KV!Init

\* The store implements a map that Put and Delete change atomically and that
\* checkpoints, crashes, restarts and failed system calls leave as it is.
THEOREM StoreImplementsMap == ASSUME SwitchNeverFails PROVE Spec => ImplementsKVStore
<1>1. Inv /\ [Next]_vars => [KV!Next]_(KV!vars)
  BY StepOfMap, SwitchesSucceed
<1> QED
  BY <1>1, InitOfMap, InvariantHolds, PTL DEF Spec, ImplementsKVStore, KV!Spec

\* MANIFEST only moves to the next generation, whose log is empty and whose
\* snapshot holds exactly what the old generation holds.
THEOREM CheckpointKeepsContent ==
  ASSUME SwitchNeverFails PROVE Spec => CheckpointPreservesContent
<1>1. ASSUME Inv, [Next]_vars
      PROVE  [manifest' # manifest =>
                /\ manifest' = CurrentGen + 1
                /\ \A f \in File : walLog[manifest'][f] = <<>>
                /\ snapData[manifest'] = Recovered]_vars
  <2>1. manifest' # manifest => WriteManifest
    BY <1>1, ContentKeptBySteps, SwitchesSucceed DEF ContentKept, Write, RetryAppend, AppendAndPublish
  <2>2. DiskTypeOK' /\ FilesOK'
    BY <1>1, InvNext, SwitchesSucceed DEF Inv, TypeOK
  <2> QED
    BY <1>1, <2>1, <2>2, ManifestMoves
<1>2. Inv /\ [Next]_vars =>
        [manifest' # manifest =>
           /\ manifest' = CurrentGen + 1
           /\ \A f \in File : walLog[manifest'][f] = <<>>
           /\ snapData[manifest'] = Recovered]_vars
  BY <1>1
<1> QED
  BY <1>2, InvariantHolds, PTL DEF Spec, CheckpointPreservesContent

\* No step rewrites the snapshot that MANIFEST names, or removes or shortens a
\* segment of its log.
THEOREM CurrentGenerationIsKept ==
  ASSUME SwitchNeverFails PROVE Spec => CurrentGenerationKept
<1>1. ASSUME Inv, [Next]_vars, manifest' = manifest
      PROVE  /\ manifest # 0 => snapData'[manifest] = snapData[manifest]
             /\ walFiles[CurrentGen] \subseteq walFiles'[CurrentGen]
             /\ \A f \in File :
                  LET old == walLog[CurrentGen][f]
                      new == walLog'[CurrentGen][f]
                  IN Len(old) <= Len(new) /\ SubSeq(new, 1, Len(old)) = old
  <2> USE <1>1, InvFacts, SwitchesSucceed
  <2>1. \/ ContentKept
        \/ \E r \in Record : AppendAndPublish(r) /\ pc \in {"idle", "retry"}
    <3>1. ASSUME NEW k \in Key, NEW v \in Payload, Write(k, v)
          PROVE  \E r \in Record : AppendAndPublish(r) /\ pc \in {"idle", "retry"}
      BY <3>1 DEF Write, CanWrite, Record
    <3>2. ASSUME RetryAppend
          PROVE  \E r \in Record : AppendAndPublish(r) /\ pc \in {"idle", "retry"}
      <4>1. pc = "retry" /\ AppendAndPublish([key |-> pending.key, val |-> pending.val])
        BY <3>2 DEF RetryAppend
      <4>2. [key |-> pending.key, val |-> pending.val] \in Record
        BY <4>1 DEF Record, LocalsOK, LocalsTypeOK, Pending, NoRecord, Payload
      <4> QED
        BY <4>1, <4>2
    <3>3. ~ WriteManifest
      BY DEF WriteManifest, PublishManifest, NextGen, Structure, OnOneGeneration,
             CurrentGen
    <3> QED
      BY <3>1, <3>2, <3>3, ContentKeptBySteps
  <2>2. manifest # 0 => snapData'[manifest] = snapData[manifest]
    BY <2>1 DEF ContentKept, AppendAndPublish
  <2>3. walFiles[CurrentGen] \subseteq walFiles'[CurrentGen]
    <3>1. CASE UNCHANGED walFiles
      BY <3>1
    <3>2. CASE \/ OpenRecords \/ OpenFails \/ ResetToSnapshot
               \/ \E k \in Key, v \in Payload : WriteRollover(k, v) \/ RolloverFails(k, v)
      <4>1. CASE OpenRecords \/ OpenFails
        BY <4>1 DEF OpenRecords, OpenFails, SegmentsToOpen, DiskTypeOK
      <4>2. CASE ResetToSnapshot
        BY <4>2 DEF ResetToSnapshot, DiskTypeOK
      <4>3. CASE \E k \in Key, v \in Payload : WriteRollover(k, v) \/ RolloverFails(k, v)
        BY <4>3 DEF WriteRollover, RolloverFails, DiskTypeOK
      <4> QED
        BY <3>2, <4>1, <4>2, <4>3
    <3>3. CASE RemoveSegment
      BY <3>3, CleanedGeneration DEF RemoveSegment, DiskTypeOK
    <3>4. CASE ResetFails
      BY <3>4 DEF SwitchFails
    <3> QED
      BY <3>1, <3>2, <3>3, <3>4
         DEF Next, CallStep, InternalStep, FaultStep, OpenStep, RetryStep,
             CheckpointStep, CleanStep, LoadSnapshot, ReplayRecord,
             ReplayNextSegment, ReplayDone, Write, RetryAppend, RetryFails,
             AppendAndPublish, Collect, WriteSnapshot, PublishSnapshot,
             CreateWalDir, WriteManifest, PublishManifest, Rebuild, RemoveDir,
             CleanSnapshots, RemoveSnapshot, CleanDone, SnapshotFails,
             CreateWalDirFails, ManifestFails, ManifestSyncFails,
             RemoveTreeFails, RemoveSnapshotFails, Close, Crash, disk, vars
  <2>4. ASSUME NEW f \in File
        PROVE  /\ Len(walLog[CurrentGen][f]) <= Len(walLog'[CurrentGen][f])
               /\ SubSeq(walLog'[CurrentGen][f], 1, Len(walLog[CurrentGen][f]))
                    = walLog[CurrentGen][f]
    <3> DEFINE old == walLog[CurrentGen][f]
    <3>1. old \in Seq(Record) /\ Len(old) \in Nat /\ SubSeq(old, 1, Len(old)) = old
      BY LogType, SubSeqFull
    <3>2. walLog'[CurrentGen][f] = old \/ \E r \in Record : walLog'[CurrentGen][f] = Append(old, r)
      <4>1. CASE ContentKept
        BY <4>1 DEF ContentKept
      <4>2. CASE \E r \in Record : AppendAndPublish(r) /\ pc \in {"idle", "retry"}
        <5>1. PICK r \in Record :
                walLog' = [walLog EXCEPT ![gen][active] = Append(@, r)]
          BY <4>2 DEF AppendAndPublish
        <5>2. CASE CurrentGen = gen /\ f = active
          BY <5>1, <5>2 DEF DiskTypeOK
        <5>3. CASE ~ (CurrentGen = gen /\ f = active)
          BY <5>1, <5>3 DEF DiskTypeOK
        <5> QED
          BY <5>2, <5>3
      <4> QED
        BY <2>1, <4>1, <4>2
    <3>3. ASSUME NEW r \in Record
          PROVE  Len(old) <= Len(Append(old, r)) /\ SubSeq(Append(old, r), 1, Len(old)) = old
      <4>1. /\ Append(old, r) \in Seq(Record) /\ Len(Append(old, r)) = Len(old) + 1
            /\ \A i \in 1..Len(old) : Append(old, r)[i] = old[i]
        BY <3>1, AppendProperties
      <4> HIDE DEF old
      <4>2. SubSeq(Append(old, r), 1, Len(old)) = SubSeq(old, 1, Len(old))
        <5> DEFINE s == SubSeq(Append(old, r), 1, Len(old))
        <5>1. /\ s \in Seq(Record) /\ Len(s) = Len(old)
              /\ \A i \in 1..Len(old) : s[i] = old[i]
          BY <3>1, <4>1, SubSeqProperties, ElementOfSeq
        <5> HIDE DEF s
        <5>2. s = old
          BY <3>1, <5>1, SeqEqual
        <5> QED
          BY <3>1, <5>2 DEF s
      <4> QED
        BY <3>1, <4>1, <4>2
    <3> DEFINE new == walLog'[CurrentGen][f]
    <3>4. Len(old) <= Len(new) /\ SubSeq(new, 1, Len(old)) = old
      <4>1. CASE new = old
        <5> HIDE DEF old, new
        <5> QED
          BY <3>1, <4>1
      <4>2. CASE \E r \in Record : new = Append(old, r)
        <5> HIDE DEF old, new
        <5> QED
          BY <3>3, <4>2
      <4> QED
        BY <3>2, <4>1, <4>2
    <3> QED
      BY <3>4
  <2> QED
    BY <2>2, <2>3, <2>4
<1>2. Inv /\ [Next]_vars =>
        [manifest' = manifest =>
           /\ manifest # 0 => snapData'[manifest] = snapData[manifest]
           /\ walFiles[CurrentGen] \subseteq walFiles'[CurrentGen]
           /\ \A f \in File :
                LET old == walLog[CurrentGen][f]
                    new == walLog'[CurrentGen][f]
                IN Len(old) <= Len(new) /\ SubSeq(new, 1, Len(old)) = old]_vars
  BY <1>1
<1> QED
  BY <1>2, InvariantHolds, PTL DEF Spec, CurrentGenerationKept

-----------------------------------------------------------------------------
(***************************************************************************)
(* Part 3.  What Store keeps when a switch fails half way: the inductive   *)
(* invariant FaultInv, what an Open serves and what a write that answers   *)
(* without an error may rely on.                                           *)
(***************************************************************************)

-----------------------------------------------------------------------------
(***************************************************************************)
(* A store that has parted from MANIFEST.                                  *)
(***************************************************************************)

LEMMA FaultFacts ==
  ASSUME FaultInv
  PROVE  TypeInv /\ PublishedInOrder /\ FilesOK /\ TypeOK /\ LocalsOK /\ DueOK
BY DEF FaultInv, Inv, Parted, TypeInv

\* What every step of a parted store may use.
LEMMA PartedFacts ==
  ASSUME Parted
  PROVE  /\ TypeInv /\ PublishedInOrder /\ FilesOK
         /\ DiskTypeOK /\ MemoryTypeOK /\ LocalsTypeOK /\ LocalsOK
         /\ gen \in Gen /\ gen \in Nat \ {0}
         /\ active \in File /\ active \in Nat /\ active + 1 > active
         /\ walFiles[gen] \subseteq File /\ File \subseteq Nat
         /\ CurrentGen \in {gen, gen + 1}
         /\ pc # "idle" => NextGen \in Gen /\ NextGen > 0
         /\ pc # "idle" => walFiles[NextGen] = {}
         /\ segs # {} => manifest = NextGen
<1>1. /\ TypeInv /\ PublishedInOrder /\ FilesOK
      /\ DiskTypeOK /\ MemoryTypeOK /\ LocalsTypeOK /\ LocalsOK
  BY DEF Parted, TypeInv, TypeOK
<1>2. /\ gen \in Gen /\ gen \in Nat \ {0}
      /\ active \in File /\ active \in Nat /\ active + 1 > active
  BY <1>1 DEF MemoryTypeOK, Gen, File
<1>3. walFiles[gen] \subseteq File /\ File \subseteq Nat
  BY <1>1, <1>2 DEF DiskTypeOK, File
<1>4. gen = CurrentGen \/ (manifest = gen + 1 /\ walFiles[manifest] = {})
  <2>1. Behind => manifest = gen + 1 /\ walFiles[manifest] = {}
    BY DEF Behind, NextGen
  <2> QED
    BY <2>1 DEF Parted
<1>5. CurrentGen \in {gen, gen + 1}
  BY <1>2, <1>4 DEF CurrentGen
<1>6. ASSUME pc # "idle"
      PROVE  /\ NextGen \in Gen /\ NextGen > 0 /\ walFiles[NextGen] = {}
  <2>1. NextGen \in Gen /\ NextGen = gen + 1
    BY <1>1, <1>6, NextGenType DEF Parted, Preparing, Committing, NextGen
  <2>2. gen = CurrentGen => walFiles[NextGen] = {}
    BY <1>1, <1>2, <2>1 DEF FilesOK
  <2> QED
    BY <1>2, <1>4, <2>1, <2>2
<1>7. segs # {} => manifest = NextGen
  BY DEF Parted, Behind
<1> QED
  BY <1>1, <1>2, <1>3, <1>5, <1>6, <1>7

\* When the process is gone, nothing is left of the difference.
LEMMA PartedGone ==
  ASSUME TypeInv', PublishedInOrder', FilesOK', Gone PROVE Inv'
<1>1. /\ pc' = "closed" /\ snapRecs' = Empty /\ index' = SlotsOf(Empty)
  BY DEF Gone
<1>2. OnOneGeneration' /\ SegmentsOK' /\ IndexOK' /\ EntriesOK'
  BY <1>1 DEF OnOneGeneration, SegmentsOK, IndexOK, EntriesOK, Indexed, SlotsOf,
              Empty
<1> QED
  BY <1>2 DEF Inv, TypeInv

\* The files stay in order when MANIFEST goes forward or stays.
LEMMA FilesStay ==
  ASSUME FilesOK, CurrentGen \in Nat, CurrentGen' \in Nat, CurrentGen' >= CurrentGen,
         UNCHANGED <<walFiles, walLog>>, pc' # "ckReset"
  PROVE  FilesOK'
BY DEF FilesOK, Gen

\* A step that changes no file of the log and nothing of the record store.
LEMMA PartedStays ==
  ASSUME Parted, TypeInv', PublishedInOrder',
         UNCHANGED <<manifest, walFiles, walLog, records>>,
         pc' \in Preparing \cup {"idle", "retry"},
         pc' \in {"ckDirs", "ckManifest"} => snapData'[NextGen] = entries',
         segs = {} => caller' # "write"
  PROVE  Parted'
<1>1. CurrentGen' = CurrentGen /\ UNCHANGED <<gen, segs, active>>
  BY DEF CurrentGen, records
<1>2. FilesOK'
  BY PartedFacts, <1>1, FilesStay DEF Preparing, Gen
<1>3. Behind' <=> Behind
  BY <1>1 DEF Behind, NextGen
<1>4. SegmentsOK /\ pc \notin {"closed", "ckReset"} => SegmentsOK'
  BY <1>1 DEF SegmentsOK
<1>5. pc \notin {"closed", "ckReset"}
  BY DEF Parted, Preparing
<1>6. CheckpointDue' <=> CheckpointDue
  BY <1>1 DEF CheckpointDue
<1>7. NextGen' = NextGen
  BY <1>1 DEF NextGen
<1>8. \/ Behind' /\ SegmentsOK' /\ CheckpointDue'
      \/ segs' = {} /\ caller' # "write" /\ (Behind' \/ gen' = CurrentGen')
  BY <1>1, <1>3, <1>4, <1>5, <1>6 DEF Parted
<1> QED
  BY <1>2, <1>7, <1>8 DEF Parted, TypeInv

\* Returning from a failed checkpoint, also when MANIFEST was renamed again.
LEMMA PartedFinish ==
  ASSUME Parted, TypeInv', PublishedInOrder', pc # "idle",
         manifest' = manifest \/ manifest' = NextGen,
         UNCHANGED <<walFiles, walLog>>, Finish(TRUE)
  PROVE  Inv' \/ Parted'
<1> USE PartedFacts
<1>1. CASE Gone
  <2>1. pc' = "closed"
    BY <1>1 DEF Gone
  <2>2. CurrentGen \in Nat /\ gen + 1 >= CurrentGen /\ gen + 1 \in Nat \ {0}
    OBVIOUS
  <2>3. CurrentGen' \in Nat /\ CurrentGen' >= CurrentGen
    <3>1. CASE manifest' = manifest
      <4>1. CurrentGen' = CurrentGen
        BY <3>1 DEF CurrentGen
      <4> QED
        BY <2>2, <4>1
    <3>2. CASE manifest' = NextGen
      <4>1. CurrentGen' = gen + 1
        BY <2>2, <3>2 DEF CurrentGen, NextGen
      <4> QED
        BY <2>2, <4>1
    <3> QED
      BY <3>1, <3>2
  <2>4. FilesOK'
    BY <2>1, <2>2, <2>3, FilesStay
  <2> QED
    BY <1>1, <2>4, PartedGone
<1>2. CASE ~ Gone
  <2>1. pc' = "idle" /\ caller' = "none" /\ UNCHANGED records /\ caller = "write"
    BY <1>2 DEF Finish, Return, Parted, Preparing, LocalsOK, CheckpointPhases
  <2>2. segs # {}
    BY <2>1 DEF Parted, SegmentsOK, Preparing
  <2>3. manifest' = manifest
    BY <2>2
  <2> QED
    BY <2>1, <2>3, PartedStays DEF Preparing
<1> QED
  BY <1>1, <1>2

\* The steps of a checkpoint that is tried again.
LEMMA PartedCheckpoint ==
  ASSUME Parted, TypeInv', PublishedInOrder',
         \/ CheckpointStep \/ SnapshotFails \/ CreateWalDirFails
         \/ ManifestFails \/ SwitchFails
  PROVE  Inv' \/ Parted'
<1> USE PartedFacts
<1>0. pc \in Preparing
  BY DEF CheckpointStep, SwitchFails, Collect, WriteSnapshot, CreateWalDir,
         WriteManifest, ResetToSnapshot, Rebuild, SnapshotFails,
         CreateWalDirFails, ManifestFails, ManifestSyncFails, ResetFails,
         Parted, Preparing
<1>1. pc # "idle" /\ (segs = {} => caller # "write")
  BY <1>0 DEF Preparing, Parted, SegmentsOK
<1>2. CASE Collect
  <2>1. UNCHANGED <<manifest, walFiles, walLog>>
    BY <1>2 DEF Collect, disk
  <2>2. CASE Finish(TRUE)
    BY <1>1, <2>1, <2>2, PartedFinish
  <2>3. CASE pc' = "ckSnapshot" /\ UNCHANGED <<records, caller>>
    BY <1>1, <2>1, <2>3, PartedStays DEF Preparing
  <2> QED
    BY <1>2, <2>2, <2>3 DEF Collect
<1>3. CASE WriteSnapshot
  <2>1. /\ pc' = "ckDirs" /\ UNCHANGED <<manifest, walFiles, walLog, records, caller>>
        /\ snapData' = [snapData EXCEPT ![NextGen] = entries] /\ entries' = entries
    BY <1>3 DEF WriteSnapshot, PublishSnapshot, locals
  <2>2. snapData'[NextGen] = entries'
    BY <1>1, <2>1 DEF DiskTypeOK
  <2> QED
    BY <1>1, <2>1, <2>2, PartedStays DEF Preparing
<1>4. CASE CreateWalDir
  <2>1. /\ pc = "ckDirs" /\ pc' = "ckManifest"
        /\ UNCHANGED <<manifest, walFiles, walLog, records, caller, snapData, entries>>
    BY <1>4 DEF CreateWalDir, locals
  <2>2. snapData'[NextGen] = entries'
    BY <2>1 DEF Parted
  <2> QED
    BY <1>1, <2>1, <2>2, PartedStays DEF Preparing
<1>5. CASE SnapshotFails \/ CreateWalDirFails \/ ManifestFails \/ ManifestSyncFails
  <2>1. /\ manifest' = manifest \/ manifest' = NextGen
        /\ UNCHANGED <<walFiles, walLog>> /\ Finish(TRUE)
    BY <1>5 DEF SnapshotFails, PublishSnapshot, CreateWalDirFails, ManifestFails,
                ManifestSyncFails, PublishManifest, disk
  <2> QED
    BY <1>1, <2>1, PartedFinish
<1>6. CASE WriteManifest
  <2>1. /\ pc = "ckManifest" /\ pc' = "ckReset" /\ manifest' = NextGen
        /\ UNCHANGED <<walFiles, walLog, gen, snapData, entries>>
    BY <1>6 DEF WriteManifest, PublishManifest, records, locals
  <2>2. /\ NextGen \in Nat \ {0} /\ CurrentGen' = NextGen /\ walFiles[NextGen] = {}
        /\ snapData[NextGen] = entries
    BY <1>1, <2>1 DEF Parted, CurrentGen, Gen
  <2>3. FilesOK'
    <3>1. CurrentGen' >= CurrentGen
      BY <2>2 DEF NextGen
    <3>2. \A g \in Gen : g > CurrentGen' => g > CurrentGen
      BY <2>2, <3>1 DEF Gen
    <3>3. \A g \in Gen : g > CurrentGen' => walFiles'[g] = {}
      BY <2>1, <3>2 DEF FilesOK
    <3> QED
      BY <2>1, <2>2, <3>3 DEF FilesOK
  <2>4. OnOneGeneration' /\ SegmentsOK' /\ IndexOK' /\ EntriesOK'
    BY <2>1, <2>2 DEF OnOneGeneration, SegmentsOK, IndexOK, EntriesOK, Indexed
  <2> QED
    BY <2>3, <2>4 DEF Inv, TypeInv
<1>7. ~ (ResetToSnapshot \/ Rebuild \/ ResetFails)
  BY <1>0 DEF Preparing, ResetToSnapshot, Rebuild, ResetFails
<1> QED
  BY <1>2, <1>3, <1>4, <1>5, <1>6, <1>7 DEF CheckpointStep, SwitchFails

\* Writes to segments that the next Open will not read.  They are so many that
\* every write goes on to a checkpoint.
LEMMA PartedWrite ==
  ASSUME Parted, TypeInv', PublishedInOrder',
         \/ \E k \in Key, v \in Payload :
              Write(k, v) \/ WriteRollover(k, v) \/ RolloverFails(k, v)
         \/ RetryStep
  PROVE  Parted' /\ (walLog' # walLog => pc' # "idle")
<1> USE PartedFacts
<1>1. CASE RetryFails
  <2>1. /\ UNCHANGED <<manifest, walFiles, walLog, records>> /\ pc' = "idle"
        /\ caller' = "none"
    BY <1>1 DEF RetryFails, disk, Return
  <2> QED
    BY <2>1, PartedStays
<1>2. ASSUME ~ RetryFails
      PROVE  /\ Behind /\ SegmentsOK /\ CheckpointDue
             /\ active \in segs /\ segs \subseteq walFiles[gen]
             /\ \A f \in segs : f <= active
             /\ \A f \in walFiles[gen] \ segs : f = active + 1 /\ walLog[gen][f] = <<>>
  <2>1. pc \in {"idle", "retry"} /\ (pc = "idle" => active \in segs)
    BY <1>2 DEF RetryStep, RetryAppend, Write, WriteRollover, RolloverFails, CanWrite
  <2>2. Behind /\ SegmentsOK /\ CheckpointDue
    BY <2>1 DEF Parted, LocalsOK
  <2> QED
    BY <2>1, <2>2 DEF SegmentsOK
<1>3. ASSUME NEW r \in Record, AppendAndPublish(r), pc \in {"idle", "retry"},
             ~ RetryFails
      PROVE  Parted' /\ pc' # "idle"
  <2>1. /\ walLog' = [walLog EXCEPT ![gen][active] = Append(@, r)]
        /\ pc' = "ckCollect"
        /\ UNCHANGED <<manifest, walFiles, gen, segs, active>>
    BY <1>2, <1>3 DEF AppendAndPublish, records
  <2>2. \A g \in Gen, f \in File :
          walLog'[g][f] = walLog[g][f] \/ (g = gen /\ f = active)
    BY <2>1 DEF DiskTypeOK
  <2>3. CurrentGen' = CurrentGen /\ active \in walFiles[gen]
    BY <1>2, <1>3, <2>1 DEF CurrentGen
  <2>4. FilesOK'
    <3>1. \A g \in Gen : \A f \in File : f \notin walFiles'[g] => walLog'[g][f] = <<>>
      BY <2>1, <2>2, <2>3 DEF FilesOK
    <3>2. \A g \in Gen : g > CurrentGen' => walFiles'[g] = {}
      BY <2>1, <2>3 DEF FilesOK
    <3> QED
      BY <2>1, <3>1, <3>2 DEF FilesOK
  <2>5. SegmentsOK'
    <3>1. \A f \in walFiles[gen] \ segs : f = active + 1 /\ walLog'[gen][f] = <<>>
      BY <1>2, <1>3, <2>2
    <3> QED
      BY <1>2, <1>3, <2>1, <3>1 DEF SegmentsOK
  <2>6. Behind' /\ CheckpointDue'
    BY <1>2, <1>3, <2>1 DEF Behind, NextGen, CheckpointDue
  <2> QED
    BY <2>1, <2>4, <2>5, <2>6 DEF Parted, TypeInv, Preparing
<1>4. ASSUME NEW k \in Key, NEW v \in Payload, Write(k, v)
      PROVE  Parted' /\ pc' # "idle"
  <2>1. [key |-> k, val |-> v] \in Record /\ pc = "idle"
    BY <1>4 DEF Record, Write, CanWrite
  <2>2. AppendAndPublish([key |-> k, val |-> v]) /\ ~ RetryFails
    BY <1>4, <2>1 DEF Write, RetryFails
  <2> QED
    BY <1>3, <2>1, <2>2
<1>5. CASE RetryAppend
  <2>1. pc = "retry" /\ AppendAndPublish([key |-> pending.key, val |-> pending.val])
    BY <1>5 DEF RetryAppend
  <2>2. [key |-> pending.key, val |-> pending.val] \in Record
    BY <2>1 DEF Record, LocalsOK, LocalsTypeOK, Pending, NoRecord, Payload
  <2>3. ~ RetryFails
    BY <1>5 DEF RetryAppend, RetryFails
  <2> QED
    BY <1>3, <2>1, <2>2, <2>3
<1>6. ASSUME NEW k \in Key, NEW v \in Payload,
             WriteRollover(k, v) \/ RolloverFails(k, v)
      PROVE  Parted' /\ walLog' = walLog
  <2>1. /\ pc = "idle" /\ pc' \in {"idle", "retry"}
        /\ walFiles' = [walFiles EXCEPT ![gen] = @ \cup {active + 1}]
        /\ \/ segs' = segs \cup {active + 1} /\ active' = active + 1
           \/ UNCHANGED <<segs, active>>
        /\ UNCHANGED <<manifest, walLog, gen>>
    BY <1>6 DEF WriteRollover, RolloverFails, CanWrite, records
  <2>2. /\ Behind /\ SegmentsOK /\ CheckpointDue
        /\ active \in segs /\ segs \subseteq walFiles[gen]
        /\ \A f \in segs : f <= active
        /\ \A f \in walFiles[gen] \ segs : f = active + 1 /\ walLog[gen][f] = <<>>
    BY <1>2, <2>1 DEF RetryFails
  <2>3. active + 1 \in File /\ CurrentGen' = CurrentGen
    BY <1>6, <2>1, StoreAssumption DEF WriteRollover, RolloverFails, File, CurrentGen
  <2>4. manifest = gen + 1 /\ manifest \in Gen /\ CurrentGen = gen + 1
    BY <2>2 DEF Behind, NextGen, DiskTypeOK, CurrentGen, Gen
  <2>5. /\ walFiles'[gen] = walFiles[gen] \cup {active + 1}
        /\ \A g \in Gen \ {gen} : walFiles'[g] = walFiles[g]
    BY <2>1 DEF DiskTypeOK
  <2>6. FilesOK'
    <3>1. \A g \in Gen : \A f \in File : f \notin walFiles'[g] => walLog'[g][f] = <<>>
      BY <2>1, <2>5 DEF FilesOK
    <3>2. \A g \in Gen : g > CurrentGen' => walFiles'[g] = {}
      BY <2>3, <2>4, <2>5 DEF FilesOK
    <3> QED
      BY <2>1, <3>1, <3>2 DEF FilesOK
  <2>7. Behind'
    BY <2>1, <2>2, <2>4, <2>5 DEF Behind, NextGen
  <2>8. active + 1 \notin segs /\ (active + 1 \in walFiles[gen] \/ walLog[gen][active + 1] = <<>>)
    BY <2>2, <2>3 DEF FilesOK
  <2>9. walLog[gen][active + 1] = <<>>
    BY <2>2, <2>8
  <2>10. CheckpointDue'
    <3>1. segs \subseteq segs' /\ segs' \subseteq File
      BY <2>1, <2>2, <2>3
    <3>2. IsFiniteSet(File)
      BY StoreAssumption, FS_Interval DEF File
    <3>3. PICK S : S = segs'
      OBVIOUS
    <3>4. IsFiniteSet(S)
      BY <3>1, <3>2, <3>3, FS_Subset
    <3>5. Cardinality(segs) <= Cardinality(S)
      BY <3>1, <3>3, <3>4, FS_Subset
    <3>6. Cardinality(segs) \in Nat /\ Cardinality(S) \in Nat
      BY <3>1, <3>3, <3>4, FS_Subset, FS_CardinalityType
    <3> QED
      BY <2>2, <3>3, <3>5, <3>6, StoreAssumption DEF CheckpointDue
  <2>11. SegmentsOK'
    <3>1. CASE segs' = segs \cup {active + 1} /\ active' = active + 1
      <4>1. walFiles'[gen'] \ segs' = {}
        BY <2>1, <2>2, <2>5, <3>1
      <4>2. \A f \in segs' : f <= active'
        <5>1. \A f \in segs : f \in Nat
          BY <2>2
        <5> QED
          BY <2>2, <3>1, <5>1
      <4>3. active' \in segs' /\ segs' \subseteq walFiles'[gen']
        BY <2>1, <2>2, <2>5, <3>1
      <4> QED
        BY <4>1, <4>2, <4>3 DEF SegmentsOK
    <3>2. CASE UNCHANGED <<segs, active>>
      <4>1. \A f \in walFiles'[gen'] \ segs' : f = active' + 1 /\ walLog'[gen'][f] = <<>>
        BY <2>1, <2>2, <2>5, <2>9, <3>2
      <4> QED
        BY <2>1, <2>2, <2>5, <3>2, <4>1 DEF SegmentsOK
    <3> QED
      BY <2>1, <3>1, <3>2
  <2> QED
    BY <2>1, <2>6, <2>7, <2>10, <2>11 DEF Parted, TypeInv, Preparing
<1> QED
  BY <1>1, <1>4, <1>5, <1>6 DEF RetryStep, RetryFails

\* Any step of a parted store: it stays parted, dies, or completes the switch.
LEMMA PartedNext ==
  ASSUME Parted, [Next]_vars
  PROVE  /\ Inv' \/ Parted'
         /\ walLog' # walLog => pc' # "idle"
<1> USE PartedFacts
<1>0. TypeInv' /\ PublishedInOrder'
  BY TypeNext, PublishedNext
<1>1. pc \in Preparing \cup {"idle", "retry"}
  BY DEF Parted
<1>2. CASE \/ CheckpointStep \/ SnapshotFails \/ CreateWalDirFails
           \/ ManifestFails \/ SwitchFails
  <2>1. UNCHANGED walLog
    BY <1>2 DEF CheckpointStep, SwitchFails, Collect, WriteSnapshot, PublishSnapshot,
                CreateWalDir, WriteManifest, PublishManifest, ResetToSnapshot, Rebuild,
                SnapshotFails, CreateWalDirFails, ManifestFails, ManifestSyncFails,
                ResetFails, disk
  <2> QED
    BY <1>0, <1>2, <2>1, PartedCheckpoint
<1>3. CASE \/ \E k \in Key, v \in Payload :
                Write(k, v) \/ WriteRollover(k, v) \/ RolloverFails(k, v)
           \/ RetryStep
  BY <1>0, <1>3, PartedWrite
<1>4. CASE Close \/ Crash \/ UNCHANGED vars
  <2>1. UNCHANGED <<manifest, walFiles, walLog>>
    BY <1>4 DEF Close, Crash, disk, vars
  <2>2. CASE Gone
    <3>1. pc' = "closed" /\ CurrentGen' = CurrentGen /\ CurrentGen \in Nat
      BY <2>1, <2>2 DEF Gone, CurrentGen
    <3>2. FilesOK'
      BY <2>1, <3>1, FilesStay
    <3> QED
      BY <1>0, <2>1, <2>2, <3>2, PartedGone
  <2>3. CASE ~ Gone
    <3>1. \/ pc' = "ckCollect" /\ caller' = "close" /\ UNCHANGED records
          \/ UNCHANGED vars
      BY <1>4, <2>3 DEF Close, Crash
    <3>2. CASE UNCHANGED vars
      <4>1. UNCHANGED <<pc, records, gen, caller, snapData, entries>>
        BY <3>2 DEF vars, records, locals, disk
      <4>2. segs = {} => caller # "write"
        BY <1>1 DEF Parted, SegmentsOK, Preparing
      <4>3. NextGen' = NextGen
        BY <4>1 DEF NextGen
      <4>4. pc' \in {"ckDirs", "ckManifest"} => snapData'[NextGen] = entries'
        BY <4>1 DEF Parted
      <4> QED
        BY <1>0, <1>1, <2>1, <4>1, <4>2, <4>4, PartedStays
    <3>3. CASE pc' = "ckCollect" /\ caller' = "close" /\ UNCHANGED records
      BY <1>0, <2>1, <3>3, PartedStays DEF Preparing
    <3> QED
      BY <2>1, <3>1, <3>2, <3>3
  <2> QED
    BY <2>2, <2>3
<1>5. ~ (\/ OpenRecords \/ OpenFails \/ OpenStep \/ CleanStep
         \/ RemoveTreeFails \/ RemoveSnapshotFails)
  BY <1>1 DEF Preparing, OpenRecords, OpenFails, OpenStep, LoadSnapshot,
              ReplayRecord, ReplayNextSegment, ReplayDone, CleanStep, RemoveSegment,
              RemoveDir, CleanSnapshots, RemoveSnapshot, CleanDone, RemoveTreeFails,
              RemoveSnapshotFails
<1> QED
  BY <1>2, <1>3, <1>4, <1>5 DEF Next, CallStep, InternalStep, FaultStep, SwitchFails

-----------------------------------------------------------------------------
(***************************************************************************)
(* How a store parts from MANIFEST, and the inductive invariant.           *)
(***************************************************************************)

\* MANIFEST was renamed and its sync failed.
LEMMA SyncParts ==
  ASSUME Inv, DueOK, TypeInv', PublishedInOrder', ManifestSyncFails
  PROVE  Inv' \/ Parted'
<1> USE InvFacts
<1>1. /\ pc = "ckManifest" /\ manifest' = NextGen /\ Finish(TRUE)
      /\ UNCHANGED <<walFiles, walLog>>
  BY DEF ManifestSyncFails, PublishManifest
<1>2. /\ NextGen \in Gen /\ NextGen = gen + 1 /\ NextGen \in Nat \ {0}
      /\ CurrentGen = gen
  BY <1>1, NextGenType DEF Committing, NextGen, Structure, OnOneGeneration
<1>3. walFiles[NextGen] = {} /\ CurrentGen' = NextGen
  BY <1>1, <1>2 DEF Structure, FilesOK, CurrentGen
<1>4. pc' \in {"closed", "idle"}
  BY <1>1, ReturnPhase
<1>5. FilesOK'
  BY <1>1, <1>2, <1>3, <1>4, FilesStay DEF Structure
<1>6. CASE Gone
  BY <1>5, <1>6, PartedGone
<1>7. CASE ~ Gone
  <2>1. /\ pc' = "idle" /\ caller' = "none" /\ caller = "write"
        /\ UNCHANGED <<gen, segs, active>>
    BY <1>1, <1>7 DEF Finish, Return, records, LocalsOK, CheckpointPhases
  <2>2. CheckpointDue'
    BY <1>1, <2>1 DEF DueOK, Preparing, CheckpointDue
  <2>3. SegmentsOK'
    BY <1>1, <2>1 DEF Structure, SegmentsOK
  <2>4. Behind'
    BY <1>1, <1>3, <2>1 DEF Behind, NextGen
  <2> QED
    BY <1>5, <2>1, <2>2, <2>3, <2>4 DEF Parted, TypeInv
<1> QED
  BY <1>6, <1>7

\* The old segments are unmapped, and nothing is mapped in their place.
LEMMA ResetParts ==
  ASSUME Inv, TypeInv', PublishedInOrder', ResetFails
  PROVE  Inv' \/ Parted'
<1> USE InvFacts
<1>1. /\ pc = "ckReset" /\ manifest = NextGen /\ UNCHANGED <<manifest, walLog>>
      /\ NextGen \in Gen /\ NextGen \in Nat \ {0}
  BY NextGenType DEF ResetFails, PublishedInOrder, Committing, Gen
<1>2. walFiles[manifest] = {} /\ CurrentGen = NextGen /\ CurrentGen' = NextGen
  BY <1>1 DEF Structure, FilesOK, CurrentGen
<1>3. PICK opening \in BOOLEAN :
       /\ \/ UNCHANGED walFiles
          \/ opening /\ walFiles' = [walFiles EXCEPT ![NextGen] = @ \cup {1}]
       /\ \/ Gone
          \/ /\ segs' = {} /\ pc' = "idle" /\ caller' = "none"
             /\ IF opening THEN gen' = NextGen ELSE UNCHANGED gen
  BY DEF ResetFails, Return
<1>4. pc' \in {"closed", "idle"}
  BY <1>3, ReturnPhase
<1>5. FilesOK'
  <2>1. \A g \in Gen : walFiles'[g] = walFiles[g] \/ g = NextGen
    BY <1>3 DEF DiskTypeOK
  <2>2. \A g \in Gen : walFiles[g] \subseteq walFiles'[g]
    BY <1>1, <1>3 DEF DiskTypeOK
  <2>3. \A g \in Gen : \A f \in File : f \notin walFiles'[g] => walLog'[g][f] = <<>>
    BY <1>1, <2>2 DEF Structure, FilesOK
  <2>4. \A g \in Gen : g > CurrentGen' => walFiles'[g] = {}
    BY <1>1, <1>2, <2>1 DEF Structure, FilesOK, Gen
  <2> QED
    BY <1>4, <2>3, <2>4 DEF FilesOK
<1>6. CASE Gone
  BY <1>5, <1>6, PartedGone
<1>7. CASE segs' = {} /\ pc' = "idle" /\ caller' = "none"
           /\ (IF opening THEN gen' = NextGen ELSE UNCHANGED gen)
  <2>1. Behind' \/ gen' = CurrentGen'
    <3>1. CASE opening
      BY <1>2, <1>7, <3>1
    <3>2. CASE ~ opening
      BY <1>1, <1>2, <1>3, <1>7, <3>2 DEF Behind, NextGen
    <3> QED
      BY <3>1, <3>2
  <2> QED
    BY <1>5, <1>7, <2>1 DEF Parted, TypeInv
<1> QED
  BY <1>3, <1>6, <1>7

\* A checkpoint for a write only starts with too many segments, and does not
\* change them before MANIFEST is published.
LEMMA DueNext ==
  ASSUME TypeInv, DueOK, [Next]_vars PROVE DueOK'
<1>1. CASE UNCHANGED <<segs, caller>> /\ (pc' \in Preparing => pc \in Preparing)
  BY <1>1 DEF DueOK, CheckpointDue
<1>2. CASE pc' \notin Preparing \/ caller' # "write"
  BY <1>2 DEF DueOK
<1>3. ASSUME NEW r \in Record, AppendAndPublish(r) PROVE DueOK'
  BY <1>3 DEF AppendAndPublish, DueOK, CheckpointDue, Preparing, records
<1>4. ASSUME NEW k \in Key, NEW v \in Payload,
             Write(k, v) \/ WriteRollover(k, v) \/ RolloverFails(k, v)
      PROVE  DueOK'
  <2>1. CASE Write(k, v)
    BY <1>3, <2>1 DEF Write, Record
  <2>2. CASE WriteRollover(k, v) \/ RolloverFails(k, v)
    BY <1>2, <2>2 DEF WriteRollover, RolloverFails, CanWrite, Preparing
  <2> QED
    BY <1>4, <2>1, <2>2
<1>5. CASE RetryStep
  <2>1. CASE RetryAppend
    <3>1. [key |-> pending.key, val |-> pending.val] \in Record
      BY <2>1 DEF RetryAppend, Record, TypeInv, TypeOK, LocalsOK, LocalsTypeOK,
                  Pending, NoRecord, Payload
    <3> QED
      BY <1>3, <2>1, <3>1 DEF RetryAppend
  <2>2. CASE RetryFails
    BY <1>2, <2>2 DEF RetryFails, Preparing
  <2> QED
    BY <1>5, <2>1, <2>2 DEF RetryStep
<1>6. CASE Collect \/ WriteSnapshot \/ CreateWalDir
  <2>1. CASE Finish(TRUE)
    BY <1>2, <2>1, ReturnPhase DEF Preparing
  <2>2. CASE ~ Finish(TRUE)
    BY <1>1, <1>6, <2>2 DEF Collect, WriteSnapshot, CreateWalDir, Preparing, records,
                            locals
  <2> QED
    BY <2>1, <2>2
<1>7. CASE \/ SnapshotFails \/ CreateWalDirFails \/ ManifestFails
           \/ ManifestSyncFails \/ ResetFails \/ CleanDone \/ Crash
  <2>1. pc' \in {"closed", "idle"}
    BY <1>7, ReturnPhase
       DEF SnapshotFails, CreateWalDirFails, ManifestFails, ManifestSyncFails,
           ResetFails, CleanDone, Crash, TypeInv, TypeOK, LocalsTypeOK
  <2> QED
    BY <1>2, <2>1 DEF Preparing
<1>8. CASE \/ WriteManifest \/ ResetToSnapshot \/ Rebuild \/ RemoveSegment \/ RemoveDir
           \/ RemoveTreeFails \/ CleanSnapshots \/ RemoveSnapshot
           \/ RemoveSnapshotFails \/ OpenRecords \/ OpenFails
  BY <1>2, <1>8
     DEF WriteManifest, ResetToSnapshot, Rebuild, StartCleaning, RemoveSegment, RemoveDir,
         RemoveTreeFails, CleanSnapshots, RemoveSnapshot, RemoveSnapshotFails,
         OpenRecords, OpenFails, Preparing
<1>9. CASE OpenStep
  <2>1. pc' \in {"replay", "cleanWal", "closed", "idle"}
    BY <1>9, ReturnPhase
       DEF OpenStep, LoadSnapshot, ReplayRecord, ReplayNextSegment, ReplayDone,
           StartCleaning
  <2> QED
    BY <1>2, <2>1 DEF Preparing
<1>10. CASE Close
  BY <1>2, <1>10, ReturnPhase DEF Close, Preparing
<1>11. CASE UNCHANGED vars
  BY <1>1, <1>11 DEF vars, records, locals
<1> QED
  BY <1>4, <1>5, <1>6, <1>7, <1>8, <1>9, <1>10, <1>11
     DEF Next, CallStep, InternalStep, FaultStep, CheckpointStep, CleanStep

LEMMA FaultNext == ASSUME FaultInv, [Next]_vars PROVE FaultInv'
<1>1. DueOK'
  BY FaultFacts, DueNext
<1>2. Inv' \/ Parted'
  <2>1. CASE Parted
    BY <2>1, PartedNext
  <2>2. CASE Inv /\ ~ SwitchFails
    BY <2>2, InvNext
  <2>3. CASE Inv /\ SwitchFails
    <3>1. TypeInv' /\ PublishedInOrder'
      BY FaultFacts, TypeNext, PublishedNext
    <3> QED
      BY <2>3, <3>1, FaultFacts, SyncParts, ResetParts DEF SwitchFails
  <2> QED
    BY <2>1, <2>2, <2>3 DEF FaultInv
<1> QED
  BY <1>1, <1>2 DEF FaultInv

\* The inductive invariant whatever fails: memory and files agree, or memory has
\* parted from MANIFEST in one of the two ways of Parted.
THEOREM FaultInvHolds == Spec => []FaultInv
<1>1. Init => FaultInv
  <2>1. Init => DueOK
    BY DEF Init, DueOK, Preparing
  <2> QED
    BY <2>1, InvInit DEF FaultInv
<1>2. FaultInv /\ [Next]_vars => FaultInv'
  BY FaultNext
<1> QED
  BY <1>1, <1>2, PTL DEF Spec

\* Whatever failed before, a successful Open serves exactly what the files hold,
\* from an index whose every position can be read.
THEOREM OpenAlwaysServesFiles == Spec => OpenServesWhatFilesHold
<1>1. ASSUME FaultInv, [Next]_vars, caller = "open", pc' = "idle"
      PROVE  Inv'
  <2>1. pc \notin Preparing \cup {"idle", "retry", "ckReset"}
    BY <1>1, FaultFacts DEF LocalsOK, Preparing, CheckpointPhases
  <2>2. Inv /\ ~ SwitchFails
    BY <1>1, <2>1 DEF FaultInv, Parted, SwitchFails, ManifestSyncFails, ResetFails,
                      Preparing
  <2> QED
    BY <1>1, <2>2, InvNext
<1>2. Inv => VisibleIsRecoverable /\ IndexResolves
  BY InvImpliesSafety
<1>3. FaultInv /\ [Next]_vars /\ (Inv => VisibleIsRecoverable /\ IndexResolves)'
        => [(caller = "open" /\ pc' = "idle") =>
              VisibleIsRecoverable' /\ IndexResolves']_vars
  BY <1>1
<1> QED
  BY <1>2, <1>3, FaultInvHolds, PTL DEF Spec, OpenServesWhatFilesHold

\* A Put or Delete that returns without an error is recovered after any crash,
\* whatever failed before: after a switch that failed half way every write is
\* answered with the error of the checkpoint it runs into.
THEOREM AcknowledgedAlwaysRecoverable == Spec => AcknowledgedIsRecoverable
<1>1. ASSUME FaultInv, [Next]_vars, pc' = "idle",
             walLog' # walLog \/ (pc = "cleanSnap" /\ caller = "write" /\ ~err)
      PROVE  Inv'
  <2>1. CASE Parted
    <3>1. pc # "cleanSnap"
      BY <2>1 DEF Parted, Preparing
    <3> QED
      BY <1>1, <2>1, <3>1, PartedNext
  <2>2. CASE Inv
    <3>1. SwitchFails => walLog' = walLog /\ pc # "cleanSnap"
      BY DEF SwitchFails, ManifestSyncFails, PublishManifest, ResetFails
    <3> QED
      BY <1>1, <2>2, <3>1, InvNext
  <2> QED
    BY <1>1, <2>1, <2>2 DEF FaultInv
<1>2. Inv => VisibleIsRecoverable
  BY InvImpliesSafety
<1>3. FaultInv /\ [Next]_vars /\ (Inv => VisibleIsRecoverable)'
        => [(/\ pc' = "idle"
             /\ walLog' # walLog \/ (pc = "cleanSnap" /\ caller = "write" /\ ~err))
              => VisibleIsRecoverable']_vars
  BY <1>1
<1> QED
  BY <1>2, <1>3, FaultInvHolds, PTL DEF Spec, AcknowledgedIsRecoverable
=============================================================================
