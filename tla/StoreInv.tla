------------------------------ MODULE StoreInv ------------------------------
(***************************************************************************)
(* The inductive invariant of module Store, in named parts: what holds     *)
(* between any two steps, also in the middle of a checkpoint, of a replay  *)
(* or of a cleanup, and makes the safety properties follow.  Module        *)
(* StoreProofs proves it.                                                  *)
(***************************************************************************)
EXTENDS Store

-----------------------------------------------------------------------------
(* Parts that hold whatever fails. *)

\* Phases from which the next generation may still be written.
Committing == {"retry", "ckCollect", "ckSnapshot", "ckDirs", "ckManifest",
               "ckReset"}

CheckpointPhases == {"ckCollect", "ckSnapshot", "ckDirs", "ckManifest",
                     "ckReset", "ckRebuild"}

\* The local variables fit the operation in progress.
LocalsOK ==
  /\ pc \in Committing => gen < MaxGen
  /\ pc = "retry" => pending.key \in Key /\ caller = "write"
  /\ pc \in {"closed", "idle"} => caller = "none"
  /\ pc \in {"loadSnapshot", "replay"} => caller = "open"
  /\ pc \in CheckpointPhases => caller \in {"write", "close"}

\* The order in which a checkpoint publishes SNAPSHOT, the directory and
\* MANIFEST; a cleanup spares the generation that MANIFEST names.
PublishedInOrder ==
  /\ ManifestIsBacked
  /\ pc \in {"ckDirs", "ckManifest"} => NextGen \in snapFiles
  /\ pc = "ckManifest" => NextGen \in walDirs
  /\ pc = "ckReset" => manifest = NextGen
  /\ pc \in {"loadSnapshot", "ckRebuild", "cleanWal", "cleanSnap"}
       => manifest = gen
  /\ pc = "replay" => gen = CurrentGen
  /\ pc \in {"cleanWal", "cleanSnap"} => gen \notin todo

\* What a cleanup that has not failed so far has left to remove.
CleanOK ==
  /\ pc = "cleanWal" /\ ~err => walDirs \subseteq todo \cup {gen}
  /\ pc = "cleanSnap" /\ ~err => /\ walDirs \subseteq {gen}
                                /\ snapFiles \subseteq todo \cup {gen}

-----------------------------------------------------------------------------
(* Parts that need a switch of generations that does not fail half way. *)

\* Neither the directory sync after MANIFEST was renamed nor ResetToSnapshot
\* fails.
SwitchNeverFails == Faults \cap {"manifest_sync", "reset"} = {}

\* Memory and MANIFEST are on the same generation, but for the step between.
OnOneGeneration ==
  pc \notin {"closed", "ckReset"} => gen = CurrentGen

\* A file that is not there has no records, and a generation MANIFEST has not
\* reached has no files.
FilesOK ==
  /\ \A g \in Gen : \A f \in File :
       f \notin walFiles[g] => walLog[g][f] = <<>>
  /\ \A g \in Gen : g > CurrentGen => walFiles[g] = {}
  /\ pc = "ckReset" => walFiles[manifest] = {}

\* The mapped segments are the files of the generation, except for an empty
\* one that a failed rollover left after the active segment.
SegmentsOK ==
  pc \notin {"closed", "ckReset"} =>
    /\ active \in segs
    /\ \A f \in segs : f <= active
    /\ segs \subseteq walFiles[gen]
    /\ \A f \in walFiles[gen] \ segs : f = active + 1 /\ walLog[gen][f] = <<>>

\* The phases in which the index is in use or being replayed.
Indexed == {"replay", "idle", "retry", "ckCollect", "ckSnapshot", "ckDirs",
            "ckManifest", "cleanWal", "cleanSnap"}

\* The index, with the entry that a Delete in progress has taken out.
PositionOf(k) ==
  IF pc = "retry" /\ k = pending.key /\ pending.val = Missing
  THEN pending.old
  ELSE index[k]

\* The records of k the index has seen.
Replayed(k) ==
  {p \in Touches(gen, k) : pc = "replay" => Before(p, cursor)}

\* Where the snapshot has k.
BasePos(k) == IF Base(k) = Missing THEN NoPos ELSE Slot(k)

\* An index entry at pos stands for the newest of the records at positions S of
\* log, or for base if there is none.
StandsFor(pos, S, log, base) ==
  \/ S = {} /\ pos = base
  \/ \E n \in S : /\ IsNewest(n, S)
                 /\ pos = IF log[n[1]][n[2]].val = Missing THEN NoPos ELSE n

Tracks(k) == StandsFor(PositionOf(k), Replayed(k), walLog[gen], BasePos(k))

IndexOK ==
  /\ pc \in Indexed => /\ \A k \in Key : snapRecs[k] = Base(k)
                       /\ \A k \in Key : Tracks(k)
  /\ pc = "closed" => snapRecs = Empty /\ index = SlotsOf(Empty)
  /\ pc = "loadSnapshot" => cursor[2] = 1 /\ \A f \in segs : cursor[1] <= f

\* What a checkpoint carries over.
EntriesOK ==
  /\ pc \in {"ckSnapshot", "ckDirs", "ckManifest"} => entries = Recovered
  /\ pc \in {"ckDirs", "ckManifest"} => snapData[NextGen] = entries
  /\ pc \in {"ckReset", "ckRebuild"} => snapData[manifest] = entries
  /\ pc = "ckRebuild" => \A f \in File : walLog[gen][f] = <<>>

\* Memory, log, snapshot and MANIFEST agree in every phase of every operation,
\* in the way that the next steps rely on: the inductive invariant.
Inv == /\ TypeOK
       /\ LocalsOK
       /\ PublishedInOrder
       /\ OnOneGeneration
       /\ FilesOK
       /\ SegmentsOK
       /\ IndexOK
       /\ EntriesOK

-----------------------------------------------------------------------------
(* Parts for switches of generations that fail half way. *)

\* The phases of a checkpoint before MANIFEST is published.
Preparing == {"ckCollect", "ckSnapshot", "ckDirs", "ckManifest"}

\* A checkpoint for a write runs because there are too many segments.
DueOK == pc \in Preparing /\ caller = "write" => CheckpointDue

\* MANIFEST names the generation after the one in memory: the sync that follows
\* its rename has failed.  No file of that generation has been opened yet.
Behind == manifest = NextGen /\ walFiles[manifest] = {}

\* The files are in order and what MANIFEST names can be opened, but memory has
\* parted from it: the store goes on with the old segments, so many that every
\* write tries a checkpoint again, or it has none left and takes no writes.
Parted ==
  /\ TypeOK /\ LocalsOK /\ PublishedInOrder /\ FilesOK
  /\ pc \in Preparing \cup {"idle", "retry"}
  /\ pc \in {"ckDirs", "ckManifest"} => snapData[NextGen] = entries
  /\ \/ Behind /\ SegmentsOK /\ CheckpointDue
     \/ segs = {} /\ caller # "write" /\ (Behind \/ gen = CurrentGen)

\* The inductive invariant when anything may fail.
FaultInv == DueOK /\ (Inv \/ Parted)
=============================================================================
