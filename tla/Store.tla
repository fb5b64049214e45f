------------------------------- MODULE Store -------------------------------
(***************************************************************************)
(* Store::Impl of minweight_store: Put, Delete and Close under the primary *)
(* write lock, the checkpoint that replaces a WAL generation by a snapshot,*)
(* and Open, which rebuilds the index from snapshot and WAL.               *)
(*                                                                         *)
(* A step is what one system call publishes, so a crash of the process may *)
(* fall between any two of them.  The page cache survives such a crash: a  *)
(* mapped segment, a renamed file and a created directory stay as they are *)
(* (what a crash of the machine loses is the subject of module Wal).  The  *)
(* write lock is held from the first step of an operation to its last, so  *)
(* at most one operation is in progress.                                   *)
(*                                                                         *)
(* A key or a value is an opaque element.  A position is a pair            *)
(* <<file_no, offset>>, as the encoding file_no << 30 | offset has it; file*)
(* number 0 holds the snapshot records, one slot per key.                  *)
(***************************************************************************)
EXTENDS Naturals, Sequences, FiniteSets

CONSTANTS
  Key,                  \* keys
  Val,                  \* values
  Missing,              \* the value of an absent key, and of a tombstone
  Oversize,             \* values whose record no segment can hold
  SegmentCapacity,      \* records that fit in a segment of wal_size bytes
  CheckpointThreshold,  \* kCheckpointWalSegmentThreshold
  MaxFile,              \* largest WAL file number a position can hold
  MaxGen,               \* bound on generations: none is written past it
  SyncModes,            \* values of options.sync_on_close to consider
  Faults                \* the steps whose system calls may fail

Gen  == 1..MaxGen
File == 1..MaxFile

FaultNames == {"open", "rollover", "snapshot", "dirs", "manifest",
               "manifest_sync", "reset", "unlink"}

ASSUME StoreAssumption ==
  /\ Missing \notin Val /\ Missing \notin Key
  /\ Oversize \subseteq Val
  /\ SegmentCapacity \in Nat \ {0}
  /\ CheckpointThreshold \in Nat
  /\ MaxFile \in Nat \ {0} /\ MaxGen \in Nat \ {0}
  /\ SyncModes \subseteq BOOLEAN
  /\ Faults \subseteq FaultNames

VARIABLES
  \* The directory of the store.
  manifest,    \* generation named by MANIFEST, 0 while there is no such file
  snapFiles,   \* generations with a SNAPSHOT file
  snapData,    \* snapData[g]: the live items in SNAPSHOT.g
  walDirs,     \* generations with a directory wal/g
  walFiles,    \* walFiles[g]: the segment files in wal/g
  walLog,      \* walLog[g][f]: the records below `used` in segment f of wal/g
  \* SegmentedRecordStore.
  gen,         \* generation_
  segs,        \* segments_: the mapped segments of generation gen
  active,      \* active_file_no_; next_file_no_ is always active + 1
  snapRecs,    \* snapshot_records_
  \* Store::Impl and its local variables.
  index,       \* index_: the position of each key, NoPos if it has none
  pc,          \* the next step
  caller,      \* who runs the steps: "open", "write", "close" or "none"
  pending,     \* the record that waits for the rollover to be appended
  entries,     \* live items collected by the checkpoint
  cursor,      \* next position to replay
  todo,        \* listed generations still to be removed
  err          \* TRUE when a removal failed

disk    == <<manifest, snapFiles, snapData, walDirs, walFiles, walLog>>
records == <<gen, segs, active, snapRecs>>
locals  == <<caller, pending, entries, cursor, todo, err>>
vars    == <<disk, records, index, pc, locals>>

\* Values a map holds, and maps themselves: also what a SNAPSHOT holds.
Payload == Val \cup {Missing}
Content == [Key -> Payload]
Empty   == [k \in Key |-> Missing]

\* A tombstone is a record without a value.
Record == [key : Key, val : Payload]

\* Positions below 2^30 are slots of snapshot_records_; slot 0 is never live.
NoPos    == <<0, Missing>>
Slot(k)  == <<0, k>>
Pos      == (File \X (Nat \ {0})) \cup ({0} \X (Key \cup {Missing}))

\* The index over a freshly loaded snapshot s.
SlotsOf(s) == [k \in Key |-> IF s[k] = Missing THEN NoPos ELSE Slot(k)]

NoRecord == [key |-> Missing, val |-> Missing, old |-> NoPos]
Pending  == [key : Key, val : Payload, old : Pos] \cup {NoRecord}

Largest(S)  == CHOOSE x \in S : \A y \in S : y <= x
Smallest(S) == CHOOSE x \in S : \A y \in S : x <= y

-----------------------------------------------------------------------------
(***************************************************************************)
(* Reading through the index: RecordStore::Key and OwnedValue.             *)
(***************************************************************************)

\* The record a position names can be read and is a put.
Readable(p) ==
  IF p[1] = 0
  THEN p[2] # Missing /\ snapRecs[p[2]] # Missing
  ELSE /\ p[1] \in segs
       /\ p[2] \in DOMAIN walLog[gen][p[1]]
       /\ walLog[gen][p[1]][p[2]].val # Missing

ValueAt(p) == IF p[1] = 0 THEN snapRecs[p[2]] ELSE walLog[gen][p[1]][p[2]].val

\* The answer of Get(k) to a caller that finds the store open.
Get(k) == IF index[k] = NoPos THEN Missing ELSE ValueAt(index[k])

-----------------------------------------------------------------------------
Init ==
  /\ manifest = 0
  /\ snapFiles = {}
  /\ snapData = [g \in Gen |-> Empty]
  /\ walDirs = {}
  /\ walFiles = [g \in Gen |-> {}]
  /\ walLog = [g \in Gen |-> [f \in File |-> <<>>]]
  /\ gen = 1 /\ segs = {} /\ active = 1 /\ snapRecs = Empty
  /\ index = SlotsOf(Empty)
  /\ pc = "closed"
  /\ caller = "none" /\ pending = NoRecord /\ entries = Empty
  /\ cursor = <<1, 1>> /\ todo = {} /\ err = FALSE

\* The local variables of an operation that has returned.
Return ==
  /\ caller' = "none" /\ pending' = NoRecord /\ entries' = Empty
  /\ cursor' = <<1, 1>> /\ todo' = {} /\ err' = FALSE

\* The Impl, its records_ and its index_ are gone.
Gone ==
  /\ pc' = "closed"
  /\ gen' = 1 /\ segs' = {} /\ active' = 1 /\ snapRecs' = Empty
  /\ index' = SlotsOf(Empty)
  /\ Return

\* A process may die at any moment; the files stay as they are.
Crash == pc # "closed" /\ Gone /\ UNCHANGED disk

-----------------------------------------------------------------------------
(***************************************************************************)
(* Return from a checkpoint or from a cleanup.  A write keeps the store    *)
(* open and hands the status to its caller; Close goes on to close whatever*)
(* the checkpoint answered; Open gives up when it failed.                  *)
(***************************************************************************)
Finish(failed) ==
  IF caller = "close" \/ (caller = "open" /\ failed)
  THEN Gone
  ELSE pc' = "idle" /\ Return /\ UNCHANGED <<records, index>>

-----------------------------------------------------------------------------
(***************************************************************************)
(* Open.                                                                   *)
(***************************************************************************)

\* The generation ReadManifest tells Open to use.
CurrentGen == IF manifest = 0 THEN 1 ELSE manifest

\* The segments Open maps: those in the directory, or a first one.
SegmentsToOpen(g) == IF walFiles[g] = {} THEN {1} ELSE walFiles[g]

\* Of the segments found, the last one takes the next records.
ActiveOf(ids) == Largest(ids)

\* ReadManifest, then SegmentedRecordStore::Open.
OpenRecords ==
  /\ pc = "closed"
  /\ LET g == CurrentGen
         ids == SegmentsToOpen(g)
     IN /\ walDirs' = walDirs \cup {g}
        /\ walFiles' = [walFiles EXCEPT ![g] = ids]
        /\ gen' = g
        /\ segs' = ids
        /\ active' = ActiveOf(ids)
        /\ cursor' = <<Smallest(ids), 1>>
  /\ pc' = IF manifest = 0 THEN "replay" ELSE "loadSnapshot"
  /\ caller' = "open"
  /\ UNCHANGED <<manifest, snapFiles, snapData, walLog, snapRecs, index,
                 pending, entries, todo, err>>

\* A system call of OpenRecords fails: what it created stays.
OpenFails ==
  /\ "open" \in Faults
  /\ pc = "closed"
  /\ walDirs' = walDirs \cup {CurrentGen}
  /\ \/ UNCHANGED walFiles
     \/ walFiles' = [walFiles EXCEPT ![CurrentGen] = SegmentsToOpen(CurrentGen)]
  /\ UNCHANGED <<manifest, snapFiles, snapData, walLog, records, index, pc,
                 locals>>

\* ReadSnapshot and LoadSnapshotRecords; Open fails without the file.
LoadSnapshot ==
  /\ pc = "loadSnapshot"
  /\ IF gen \in snapFiles
     THEN /\ snapRecs' = snapData[gen]
          /\ index' = SlotsOf(snapData[gen])
          /\ pc' = "replay"
          /\ UNCHANGED <<gen, segs, active, locals>>
     ELSE Gone
  /\ UNCHANGED disk

\* Mutant: a tombstone leaves the index as it is.
AppliedPut(r, p) ==
  [index EXCEPT ![r.key] = IF r.val = Missing THEN @ ELSE p]

\* Index::Put or Index::Delete for a record at position p.
Applied(r, p) ==
  [index EXCEPT ![r.key] = IF r.val = Missing THEN NoPos ELSE p]

\* WalSegment::Replay hands the next record to the index.
ReplayRecord ==
  /\ pc = "replay"
  /\ LET f == cursor[1]
         i == cursor[2]
     IN /\ i \in DOMAIN walLog[gen][f]
        /\ index' = Applied(walLog[gen][f][i], cursor)
        /\ cursor' = <<f, i + 1>>
  /\ UNCHANGED <<disk, records, pc, caller, pending, entries, todo, err>>

\* Mutant: only sealed segments are replayed.
LaterSealedSegments == {f \in segs : cursor[1] < f /\ f < active}

\* Mutant: the segment just replayed is taken for a later one.
SameOrLaterSegments == {f \in segs : cursor[1] <= f}

\* Segments of this generation after the one being replayed.
LaterSegments == {f \in segs : cursor[1] < f}

SegmentReplayed == cursor[2] \notin DOMAIN walLog[gen][cursor[1]]

ReplayNextSegment ==
  /\ pc = "replay"
  /\ SegmentReplayed
  /\ LaterSegments # {}
  /\ cursor' = <<Smallest(LaterSegments), 1>>
  /\ UNCHANGED <<disk, records, index, pc, caller, pending, entries, todo, err>>

\* Mutant: the generation in use is listed too.
StartCleaningAll ==
  /\ pc' = "cleanWal"
  /\ todo' = walDirs

\* Mutant: only the generation before the one in use is listed.
StartCleaningPrevious ==
  /\ pc' = "cleanWal"
  /\ todo' = {g \in walDirs : g + 1 = gen}

\* Mutant: nothing is listed.
StartCleaningNone ==
  /\ pc' = "cleanWal"
  /\ todo' = {}

\* RemoveOldWalGenerations lists every generation but the one to keep.
StartCleaning ==
  /\ pc' = "cleanWal"
  /\ todo' = walDirs \ {gen}

\* ReplayAll is done; without a manifest there is nothing old to remove.
ReplayDone ==
  /\ pc = "replay"
  /\ SegmentReplayed
  /\ LaterSegments = {}
  /\ IF manifest = 0
     THEN Finish(FALSE)
     ELSE /\ StartCleaning
          /\ cursor' = <<1, 1>>
          /\ UNCHANGED <<records, index, caller, pending, entries, err>>
  /\ UNCHANGED disk

-----------------------------------------------------------------------------
(***************************************************************************)
(* Put and Delete.                                                         *)
(***************************************************************************)

\* WalSegment::Append has room for the record in the active segment.
Fits(v) == /\ v \notin Oversize
           /\ Len(walLog[gen][active]) < SegmentCapacity

\* Mutant: the position of the record before.
PreviousPos == <<active, Len(walLog[gen][active])>>

\* The position the next record gets.
NextPos == <<active, Len(walLog[gen][active]) + 1>>

\* Mutant: a checkpoint is due once, at the segment that passes the threshold.
CheckpointDueOnce == Cardinality(segs) = CheckpointThreshold + 1

\* CheckpointIfNeededLocked.
CheckpointDue == Cardinality(segs) > CheckpointThreshold

\* Append a record and publish it in the index; a checkpoint may follow.
AppendAndPublish(r) ==
  /\ walLog' = [walLog EXCEPT ![gen][active] = Append(@, r)]
  /\ index' = Applied(r, NextPos)
  /\ IF CheckpointDue
     THEN /\ pc' = "ckCollect"
          /\ caller' = "write"
     ELSE /\ pc' = "idle"
          /\ caller' = "none"
  /\ pending' = NoRecord
  /\ UNCHANGED <<manifest, snapFiles, snapData, walDirs, walFiles, records,
                 entries, cursor, todo, err>>

\* A write may be called.  Active() is dereferenced unchecked: without an
\* active segment the process dies, which Crash covers.  MaxGen bounds the
\* model: nothing is written in the last generation.
CanWrite == /\ pc = "idle"
            /\ active \in segs
            /\ gen < MaxGen

\* Delete looks its key up first, and writes nothing for an absent one.
MayWrite(k, v) ==
  v = Missing => index[k] # NoPos /\ Readable(index[k])

\* Put(k, v), or Delete(k) when v is Missing, in the active segment.
Write(k, v) ==
  /\ CanWrite
  /\ MayWrite(k, v)
  /\ Fits(v)
  /\ AppendAndPublish([key |-> k, val |-> v])

\* The segment is full: Rollover seals it and opens the next one.  Delete has
\* already taken the key out of the index.
WriteRollover(k, v) ==
  /\ CanWrite
  /\ MayWrite(k, v)
  /\ ~Fits(v)
  /\ active < MaxFile
  /\ walFiles' = [walFiles EXCEPT ![gen] = @ \cup {active + 1}]
  /\ segs' = segs \cup {active + 1}
  /\ active' = active + 1
  /\ pending' = [key |-> k, val |-> v, old |-> index[k]]
  /\ index' = IF v = Missing THEN [index EXCEPT ![k] = NoPos] ELSE index
  /\ pc' = "retry"
  /\ caller' = "write"
  /\ UNCHANGED <<manifest, snapFiles, snapData, walDirs, walLog, gen, snapRecs,
                 entries, cursor, todo, err>>

\* The next segment cannot be opened: its empty file may stay behind, the old
\* segment is unsealed, and Delete puts the old position back.
RolloverFails(k, v) ==
  /\ "rollover" \in Faults
  /\ CanWrite
  /\ MayWrite(k, v)
  /\ ~Fits(v)
  /\ active < MaxFile
  /\ walFiles' = [walFiles EXCEPT ![gen] = @ \cup {active + 1}]
  /\ UNCHANGED <<manifest, snapFiles, snapData, walDirs, walLog, records, index,
                 pc, locals>>

\* The second attempt, after Rollover.
RetryAppend ==
  /\ pc = "retry"
  /\ Fits(pending.val)
  /\ AppendAndPublish([key |-> pending.key, val |-> pending.val])

\* A record no segment can hold: the operation fails with kWalFull and leaves
\* the new segment behind.
RetryFails ==
  /\ pc = "retry"
  /\ ~Fits(pending.val)
  /\ pc' = "idle"
  /\ index' = IF pending.val = Missing
              THEN [index EXCEPT ![pending.key] = pending.old]
              ELSE index
  /\ Return
  /\ UNCHANGED <<disk, records>>

-----------------------------------------------------------------------------
(***************************************************************************)
(* CheckpointLocked.                                                       *)
(***************************************************************************)
NextGen == gen + 1

\* Mutant: records that are still in the old snapshot are not collected.
CollectWalOnly ==
  /\ pc = "ckCollect"
  /\ IF \A k \in Key : index[k] = NoPos \/ Readable(index[k])
     THEN /\ entries' = [k \in Key |-> IF index[k][1] = 0 THEN Missing ELSE Get(k)]
          /\ pc' = "ckSnapshot"
          /\ UNCHANGED <<records, index, caller, pending, cursor, todo, err>>
     ELSE Finish(TRUE)
  /\ UNCHANGED disk

\* CollectLiveItemsLocked: an entry that cannot be read ends the checkpoint.
Collect ==
  /\ pc = "ckCollect"
  /\ IF \A k \in Key : index[k] = NoPos \/ Readable(index[k])
     THEN /\ entries' = [k \in Key |-> Get(k)]
          /\ pc' = "ckSnapshot"
          /\ UNCHANGED <<records, index, caller, pending, cursor, todo, err>>
     ELSE Finish(TRUE)
  /\ UNCHANGED disk

\* Mutant: the previous snapshot is written again.
PublishOldSnapshot ==
  /\ snapFiles' = snapFiles \cup {NextGen}
  /\ snapData' = [snapData EXCEPT ![NextGen] = snapRecs]
  /\ UNCHANGED <<manifest, walDirs, walFiles, walLog>>

\* WriteSnapshot: the file appears whole, by the rename.
PublishSnapshot ==
  /\ snapFiles' = snapFiles \cup {NextGen}
  /\ snapData' = [snapData EXCEPT ![NextGen] = entries]
  /\ UNCHANGED <<manifest, walDirs, walFiles, walLog>>

WriteSnapshot ==
  /\ pc = "ckSnapshot"
  /\ PublishSnapshot
  /\ pc' = "ckDirs"
  /\ UNCHANGED <<records, index, locals>>

\* It fails before the rename, or in the directory sync that follows it.
SnapshotFails ==
  /\ "snapshot" \in Faults
  /\ pc = "ckSnapshot"
  /\ PublishSnapshot \/ UNCHANGED disk
  /\ Finish(TRUE)

CreateWalDir ==
  /\ pc = "ckDirs"
  /\ walDirs' = walDirs \cup {NextGen}
  /\ pc' = "ckManifest"
  /\ UNCHANGED <<manifest, snapFiles, snapData, walFiles, walLog, records, index,
                 locals>>

CreateWalDirFails ==
  /\ "dirs" \in Faults
  /\ pc = "ckDirs"
  /\ walDirs' \in {walDirs, walDirs \cup {NextGen}}
  /\ UNCHANGED <<manifest, snapFiles, snapData, walFiles, walLog>>
  /\ Finish(TRUE)

PublishManifest ==
  /\ manifest' = NextGen
  /\ UNCHANGED <<snapFiles, snapData, walDirs, walFiles, walLog>>

\* WriteManifest: the rename is the moment the generation changes.
WriteManifest ==
  /\ pc = "ckManifest"
  /\ PublishManifest
  /\ pc' = "ckReset"
  /\ UNCHANGED <<records, index, locals>>

ManifestFails ==
  /\ "manifest" \in Faults
  /\ pc = "ckManifest"
  /\ UNCHANGED disk
  /\ Finish(TRUE)

\* The rename succeeds and SyncDir after it fails: the caller gets the error
\* although the new generation is published.
ManifestSyncFails ==
  /\ "manifest_sync" \in Faults
  /\ pc = "ckManifest"
  /\ PublishManifest
  /\ Finish(TRUE)

\* ResetToSnapshot: unmap the old segments, open the first one of the next
\* generation.
ResetToSnapshot ==
  /\ pc = "ckReset"
  /\ walDirs' = walDirs \cup {NextGen}
  /\ walFiles' = [walFiles EXCEPT ![NextGen] = @ \cup {1}]
  /\ gen' = NextGen
  /\ segs' = {1}
  /\ active' = 1
  /\ snapRecs' = Empty
  /\ pc' = "ckRebuild"
  /\ UNCHANGED <<manifest, snapFiles, snapData, walLog, index, locals>>

\* The old segments are unmapped, and closing one of them fails, or opening the
\* new one, of which a file may stay: no segment is mapped any more.
ResetFails ==
  /\ "reset" \in Faults
  /\ pc = "ckReset"
  /\ \E opening \in BOOLEAN :
       /\ \/ UNCHANGED walFiles
          \/ opening /\ walFiles' = [walFiles EXCEPT ![NextGen] = @ \cup {1}]
       /\ IF caller = "close"
          THEN Gone
          ELSE /\ segs' = {}
               /\ IF opening
                  THEN gen' = NextGen /\ active' = 1 /\ snapRecs' = Empty
                  ELSE UNCHANGED <<gen, active, snapRecs>>
               /\ pc' = "idle"
               /\ Return
               /\ UNCHANGED index
  /\ UNCHANGED <<manifest, snapFiles, snapData, walDirs, walLog>>

\* Mutant: the records are loaded and the old index is kept.
RebuildRecordsOnly ==
  /\ pc = "ckRebuild"
  /\ snapRecs' = entries
  /\ index' = index
  /\ StartCleaning
  /\ UNCHANGED <<disk, gen, segs, active, caller, pending, entries, cursor, err>>

\* RebuildIndexFromSnapshotLocked.
Rebuild ==
  /\ pc = "ckRebuild"
  /\ snapRecs' = entries
  /\ index' = SlotsOf(entries)
  /\ StartCleaning
  /\ UNCHANGED <<disk, gen, segs, active, caller, pending, entries, cursor, err>>

-----------------------------------------------------------------------------
(***************************************************************************)
(* RemoveOldWalGenerations and RemoveOldSnapshots, in Open and at the end  *)
(* of a checkpoint.  A failure is remembered and the removal goes on.      *)
(***************************************************************************)

\* RemoveTree unlinks the segments of a generation one by one ...
RemoveSegment ==
  /\ pc = "cleanWal"
  /\ todo # {}
  /\ LET g == Smallest(todo)
     IN \E f \in walFiles[g] :
          /\ walFiles' = [walFiles EXCEPT ![g] = @ \ {f}]
          /\ walLog' = [walLog EXCEPT ![g][f] = <<>>]
  /\ UNCHANGED <<manifest, snapFiles, snapData, walDirs, records, index, pc,
                 locals>>

\* ... and then the directory.
RemoveDir ==
  /\ pc = "cleanWal"
  /\ todo # {}
  /\ walFiles[Smallest(todo)] = {}
  /\ walDirs' = walDirs \ {Smallest(todo)}
  /\ todo' = todo \ {Smallest(todo)}
  /\ UNCHANGED <<manifest, snapFiles, snapData, walFiles, walLog, records, index,
                 pc, caller, pending, entries, cursor, err>>

\* Something in the tree resists: the other files of it may be gone.
RemoveTreeFails ==
  /\ "unlink" \in Faults
  /\ pc = "cleanWal"
  /\ todo # {}
  /\ todo' = todo \ {Smallest(todo)}
  /\ err' = TRUE
  /\ UNCHANGED <<disk, records, index, pc, caller, pending, entries, cursor>>

\* Mutant: the snapshot in use is listed too.
CleanAllSnapshots ==
  /\ pc = "cleanWal"
  /\ todo = {}
  /\ todo' = snapFiles
  /\ pc' = "cleanSnap"
  /\ UNCHANGED <<disk, records, index, caller, pending, entries, cursor, err>>

CleanSnapshots ==
  /\ pc = "cleanWal"
  /\ todo = {}
  /\ todo' = snapFiles \ {gen}
  /\ pc' = "cleanSnap"
  /\ UNCHANGED <<disk, records, index, caller, pending, entries, cursor, err>>

RemoveSnapshot ==
  /\ pc = "cleanSnap"
  /\ todo # {}
  /\ snapFiles' = snapFiles \ {Smallest(todo)}
  /\ snapData' = [snapData EXCEPT ![Smallest(todo)] = Empty]
  /\ todo' = todo \ {Smallest(todo)}
  /\ UNCHANGED <<manifest, walDirs, walFiles, walLog, records, index, pc, caller,
                 pending, entries, cursor, err>>

RemoveSnapshotFails ==
  /\ "unlink" \in Faults
  /\ pc = "cleanSnap"
  /\ todo # {}
  /\ todo' = todo \ {Smallest(todo)}
  /\ err' = TRUE
  /\ UNCHANGED <<disk, records, index, pc, caller, pending, entries, cursor>>

CleanDone ==
  /\ pc = "cleanSnap"
  /\ todo = {}
  /\ Finish(err)
  /\ UNCHANGED disk

-----------------------------------------------------------------------------
\* Close: a checkpoint first when sync_on_close is set.
Close ==
  /\ pc = "idle"
  /\ \E sync \in SyncModes :
       IF sync
       THEN /\ gen < MaxGen
            /\ pc' = "ckCollect"
            /\ caller' = "close"
            /\ UNCHANGED <<records, index, pending, entries, cursor, todo, err>>
       ELSE Gone
  /\ UNCHANGED disk

-----------------------------------------------------------------------------
\* What the process does on its own once Open, Put, Delete or Close is called.
OpenStep == LoadSnapshot \/ ReplayRecord \/ ReplayNextSegment \/ ReplayDone

RetryStep == RetryAppend \/ RetryFails

CheckpointStep == \/ Collect \/ WriteSnapshot \/ CreateWalDir \/ WriteManifest
                  \/ ResetToSnapshot \/ Rebuild

CleanStep == \/ RemoveSegment \/ RemoveDir \/ CleanSnapshots \/ RemoveSnapshot
             \/ CleanDone

InternalStep == OpenStep \/ RetryStep \/ CheckpointStep \/ CleanStep

\* A system call answers with an error.
FaultStep == \/ OpenFails \/ SnapshotFails \/ CreateWalDirFails
             \/ ManifestFails \/ ManifestSyncFails \/ ResetFails
             \/ RemoveTreeFails \/ RemoveSnapshotFails
             \/ \E k \in Key, v \in Payload : RolloverFails(k, v)

\* A caller opens, writes or closes.
CallStep == \/ OpenRecords
            \/ \E k \in Key, v \in Payload : Write(k, v) \/ WriteRollover(k, v)
            \/ Close

Next == CallStep \/ InternalStep \/ FaultStep \/ Crash

Spec == Init /\ [][Next]_vars

(***************************************************************************)
(* An operation that has been called runs: the thread that holds the write *)
(* lock waits for nothing but the system calls of its own steps.  Nothing  *)
(* obliges a caller to call, a fault to happen or a process to live on.    *)
(***************************************************************************)
FairSpec == Spec /\ WF_vars(InternalStep)

-----------------------------------------------------------------------------
(***************************************************************************)
(* What the files hold: the map Open would rebuild from them now.          *)
(***************************************************************************)
Before(p, q) == p[1] < q[1] \/ (p[1] = q[1] /\ p[2] < q[2])

\* Positions of the records of key k in generation g.
Touches(g, k) ==
  {p \in UNION {{f} \X DOMAIN walLog[g][f] : f \in walFiles[g]} :
     walLog[g][p[1]][p[2]].key = k}

IsNewest(p, S) == p \in S /\ \A q \in S : q = p \/ Before(q, p)

Newest(S) == CHOOSE p \in S : IsNewest(p, S)

\* What the snapshot of the current generation says of k.
Base(k) == IF manifest = 0 THEN Missing ELSE snapData[manifest][k]

RecoveredValue(k) ==
  LET S == Touches(CurrentGen, k)
  IN IF S = {} THEN Base(k)
               ELSE walLog[CurrentGen][Newest(S)[1]][Newest(S)[2]].val

Recovered == [k \in Key |-> RecoveredValue(k)]

\* A process has the store open.
Up == pc # "closed" /\ caller # "open"

KV == INSTANCE KVStore WITH dict <- Recovered, up <- Up

-----------------------------------------------------------------------------
(***************************************************************************)
(* Properties.                                                             *)
(***************************************************************************)
Phases == {"closed", "loadSnapshot", "replay", "idle", "retry", "ckCollect",
           "ckSnapshot", "ckDirs", "ckManifest", "ckReset", "ckRebuild",
           "cleanWal", "cleanSnap"}

DiskTypeOK ==
  /\ manifest \in 0..MaxGen
  /\ snapFiles \subseteq Gen
  /\ snapData \in [Gen -> Content]
  /\ walDirs \subseteq Gen
  /\ walFiles \in [Gen -> SUBSET File]
  /\ walLog \in [Gen -> [File -> Seq(Record)]]

MemoryTypeOK ==
  /\ gen \in Gen
  /\ segs \subseteq File
  /\ active \in File
  /\ snapRecs \in Content
  /\ index \in [Key -> Pos]

LocalsTypeOK ==
  /\ caller \in {"none", "open", "write", "close"}
  /\ pending \in Pending
  /\ entries \in Content
  /\ cursor \in File \X (Nat \ {0})
  /\ todo \subseteq Gen
  /\ err \in BOOLEAN

\* Every variable has its type.
TypeOK == DiskTypeOK /\ MemoryTypeOK /\ LocalsTypeOK /\ pc \in Phases

\* What Get answers while no operation runs is what a new process would
\* recover after a crash at this moment: the index, the mapped segments and
\* the snapshot records in memory agree with MANIFEST, SNAPSHOT and WAL.
VisibleIsRecoverable ==
  pc = "idle" => \A k \in Key : Get(k) = RecoveredValue(k)

\* While a store serves requests its index names readable put records only, and
\* Append finds an active segment (no caller is served from an index that has
\* parted from the records it points at).
IndexResolves ==
  pc = "idle" => /\ active \in segs
                 /\ \A k \in Key : index[k] = NoPos \/ Readable(index[k])

\* The files a MANIFEST names exist from the rename that publishes it until the
\* next one, through every failed or interrupted removal: Open never finds
\* "snapshot missing for manifest generation".
ManifestIsBacked ==
  manifest # 0 => manifest \in snapFiles /\ manifest \in walDirs

\* MANIFEST only moves to the next generation, and the one it moves to starts
\* from exactly what the old one holds: the snapshot has every live item and
\* the new WAL is empty.
CheckpointPreservesContent ==
  [][manifest' # manifest =>
       /\ manifest' = CurrentGen + 1
       /\ \A f \in File : walLog[manifest'][f] = <<>>
       /\ snapData[manifest'] = Recovered]_vars

\* No step rewrites the snapshot MANIFEST names, or removes or shortens a WAL
\* segment of its generation.
CurrentGenerationKept ==
  [][manifest' = manifest =>
       /\ manifest # 0 => snapData'[manifest] = snapData[manifest]
       /\ walFiles[CurrentGen] \subseteq walFiles'[CurrentGen]
       /\ \A f \in File :
            LET old == walLog[CurrentGen][f]
                new == walLog'[CurrentGen][f]
            IN Len(old) <= Len(new) /\ SubSeq(new, 1, Len(old)) = old]_vars

\* A cleanup that reports success leaves nothing but the current generation.
CleanupIsComplete ==
  [][(pc = "cleanSnap" /\ pc' = "idle" /\ ~err) =>
       walDirs' = {gen} /\ snapFiles' = {gen}]_vars

\* Whatever failed before, a successful Open serves exactly what the files hold,
\* from an index whose every position can be read.
OpenServesWhatFilesHold ==
  [][(caller = "open" /\ pc' = "idle") =>
       VisibleIsRecoverable' /\ IndexResolves']_vars

\* A Put or Delete returns without an error only from a state that a crash
\* does not lose: not even after a MANIFEST was published and its directory
\* sync reported as failed, when records go to a generation that the next Open
\* deletes unread; every write is answered with an error until a checkpoint
\* has succeeded.
AcknowledgedIsRecoverable ==
  [][(/\ pc' = "idle"
      /\ walLog' # walLog \/ (pc = "cleanSnap" /\ caller = "write" /\ ~err))
       => VisibleIsRecoverable']_vars

\* The store implements the abstract map, at every step and through crashes.
ImplementsKVStore == KV!Spec

\* An operation that has been called returns (or its process dies).
Progress == \A p \in Phases \ {"closed", "idle"} :
              (pc = p) ~> (pc \in {"closed", "idle"})

\* A generation that MANIFEST has left behind is removed from the directory,
\* unless the process dies or the switch to the new generation failed after
\* MANIFEST was published (where removals do not fail).
OldGenerationReclaimed ==
  \A g \in Gen : (g \in walDirs /\ g < manifest)
                   ~> \/ g \notin walDirs
                      \/ pc = "closed"
                      \/ pc = "idle" /\ (manifest # gen \/ segs = {})
=============================================================================
