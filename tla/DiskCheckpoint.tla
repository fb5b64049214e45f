--------------------------- MODULE DiskCheckpoint ---------------------------
(***************************************************************************)
(* Checkpoint, Open and Close of Store::Impl on a machine that may crash:  *)
(* module Store has the steps in full and lets the process die between any *)
(* two of them; here a step also has to reach the disk.                    *)
(*                                                                         *)
(* A rename, a creation or an unlink changes the directories in the cache  *)
(* at once and on the disk some time later, at the latest when SyncDir     *)
(* returns.  `images` holds the directories as each such change since the  *)
(* last sync left them; the first is on the disk for certain, the last is  *)
(* what the system calls see, and a crash of the machine goes back to one  *)
(* of them.  With Ordered the file system keeps the order of changes, as a *)
(* journal does, and the crash takes one image; without it every file may  *)
(* come from another image, and SyncDir(dir) says nothing of wal/.         *)
(*                                                                         *)
(* The WAL of a generation is one sequence of writes of which a crash of   *)
(* the machine keeps a prefix: what module Wal shows of it, but for the    *)
(* weak points it names.  A write is its number, and the live items of a   *)
(* snapshot are the writes that made them.                                 *)
(***************************************************************************)
EXTENDS Naturals, Sequences

CONSTANTS
  MaxGen,      \* bound on generations
  MaxWrites,   \* bound on writes
  MaxCrash,    \* bound on crashes of the machine
  MaxPending,  \* bound on changes of directories that are not on the disk
  Ordered,     \* the file system keeps the order of directory changes
  Faults       \* the steps whose system calls may fail

Gen == 1..MaxGen

FaultNames == {"snapshot", "manifest", "manifest_sync", "unlink"}

ASSUME DiskAssumption ==
  /\ MaxGen \in Nat \ {0}
  /\ MaxWrites \in Nat /\ MaxCrash \in Nat /\ MaxPending \in Nat \ {0}
  /\ Ordered \in BOOLEAN
  /\ Faults \subseteq FaultNames

VARIABLES
  images,   \* the directories after each change since the last sync
  wal,      \* wal[g]: the writes in the segments of wal/g
  onDisk,   \* onDisk[g]: how many of them are on the disk for certain
  gen,      \* generation_ of the open store
  served,   \* the writes in index_ (of a dead process: that were there)
  pc,       \* the next step
  caller,   \* who runs the steps: "open", "write", "close" or "none"
  err,      \* TRUE when a removal failed
  safe,     \* auxiliary: the writes no crash may lose
  astray,   \* auxiliary: a write went to a generation MANIFEST had left
  writes, crashes

files  == <<images, wal, onDisk>>
memory == <<gen, served>>
locals == <<pc, caller, err>>
aux    == <<safe, astray>>
counts == <<writes, crashes>>
vars   == <<files, memory, locals, aux, counts>>

Prefix(s, t) == Len(s) <= Len(t) /\ SubSeq(t, 1, Len(s)) = s

Record == 1..MaxWrites

\* A SNAPSHOT that is not there.
NoFile == <<0>>

\* MANIFEST (0: there is none), SNAPSHOT.g and the segments of wal/g.
Image == [man : 0..MaxGen, snap : [Gen -> Seq(Record) \cup {NoFile}],
          logs : SUBSET Gen]

Now == images[Len(images)]

\* A change of a directory, which the disk need not have seen yet.  When as many
\* are pending as the model allows, the first of them is written.
Change(i) ==
  images' = IF i = Now THEN images
            ELSE IF Len(images) < MaxPending THEN Append(images, i)
            ELSE Append(Tail(images), i)

\* ReadManifest and ReadSnapshot on the directories of an image.
CurrentGen(i) == IF i.man = 0 THEN 1 ELSE i.man

Opens(i) == i.man # 0 => i.snap[i.man] # NoFile

Base(i) == IF i.man = 0 THEN <<>> ELSE i.snap[i.man]

\* What Open recovers from an image and the first n writes of its WAL.
Recovered(i, n) ==
  IF CurrentGen(i) \in i.logs THEN Base(i) \o SubSeq(wal[CurrentGen(i)], 1, n)
                              ELSE Base(i)

AtLeast(i) == Recovered(i, onDisk[CurrentGen(i)])
AtMost(i)  == Recovered(i, Len(wal[CurrentGen(i)]))

Init ==
  /\ images = <<[man |-> 0, snap |-> [g \in Gen |-> NoFile], logs |-> {}]>>
  /\ wal = [g \in Gen |-> <<>>]
  /\ onDisk = [g \in Gen |-> 0]
  /\ gen = 1 /\ served = <<>>
  /\ pc = "closed" /\ caller = "none" /\ err = FALSE
  /\ safe = <<>> /\ astray = FALSE
  /\ writes = 0 /\ crashes = 0

\* The first segment of wal/g is created, or opened with what it holds.
OpenWal(g) ==
  /\ Change([Now EXCEPT !.logs = @ \cup {g}])
  /\ wal' = IF g \in Now.logs THEN wal ELSE [wal EXCEPT ![g] = <<>>]
  /\ onDisk' = IF g \in Now.logs THEN onDisk ELSE [onDisk EXCEPT ![g] = 0]

-----------------------------------------------------------------------------
\* Open reads the files it sees and does not sync their directory; with a
\* MANIFEST it goes on to remove every other generation.
Open ==
  /\ pc = "closed"
  /\ Opens(Now)
  /\ OpenWal(CurrentGen(Now))
  /\ gen' = CurrentGen(Now)
  /\ served' = AtMost(Now)
  /\ pc' = IF Now.man = 0 THEN "idle" ELSE "cleanWal"
  /\ caller' = IF Now.man = 0 THEN "none" ELSE "open"
  /\ UNCHANGED <<err, aux, counts>>

\* Put or Delete; a checkpoint may follow.
AppendRecord ==
  /\ pc = "idle"
  /\ writes < MaxWrites
  /\ writes' = writes + 1
  /\ wal' = [wal EXCEPT ![gen] = Append(@, writes + 1)]
  /\ served' = Append(served, writes + 1)
  /\ astray' = (astray \/ CurrentGen(Now) # gen)
  /\ \/ UNCHANGED locals
     \/ gen < MaxGen /\ pc' = "ckSnapshot" /\ caller' = "write" /\ UNCHANGED err
  /\ UNCHANGED <<images, onDisk, gen, safe, crashes>>

\* Close, with a checkpoint first when sync_on_close is set.
Close ==
  /\ pc = "idle"
  /\ \/ pc' = "closed" /\ UNCHANGED caller
     \/ gen < MaxGen /\ pc' = "ckSnapshot" /\ caller' = "close"
  /\ UNCHANGED <<files, memory, err, aux, counts>>

\* Return to the caller.  Close goes on to close the segments whatever the
\* checkpoint answered, and syncs those this process has stored to.
Finish(failed) ==
  /\ pc' = IF caller = "close" \/ (caller = "open" /\ failed) THEN "closed"
                                                             ELSE "idle"
  /\ caller' = "none"
  /\ err' = FALSE
  /\ IF caller = "close"
     THEN \E n \in onDisk[gen]..Len(wal[gen]) : onDisk' = [onDisk EXCEPT ![gen] = n]
     ELSE UNCHANGED onDisk

-----------------------------------------------------------------------------
(***************************************************************************)
(* CheckpointLocked.                                                       *)
(***************************************************************************)

\* Mutant: the records that are still in the old snapshot are not collected.
CollectWalOnly == wal[gen]

\* CollectLiveItemsLocked.
Collect == served

\* Mutant: the temporary file is written and not renamed.
LeaveTmp == UNCHANGED images

\* WriteSnapshot: a file whose content is synced gets its name.
PublishSnapshot == Change([Now EXCEPT !.snap[gen + 1] = Collect])

WriteSnapshot ==
  /\ pc = "ckSnapshot"
  /\ PublishSnapshot
  /\ pc' = "ckSnapSync"
  /\ UNCHANGED <<wal, onDisk, memory, caller, err, aux, counts>>

SnapshotFails ==
  /\ "snapshot" \in Faults
  /\ pc \in {"ckSnapshot", "ckSnapSync"}
  /\ Finish(TRUE)
  /\ UNCHANGED <<images, wal, memory, aux, counts>>

\* Mutant: the directory is not synced.
NoSync == UNCHANGED images

\* SyncDir(dir): the renames in it are on the disk, and in a journal all that
\* came before them.
SyncDir ==
  images' = IF Ordered
            THEN <<Now>>
            ELSE [n \in DOMAIN images |-> [Now EXCEPT !.logs = images[n].logs]]

SyncSnapshot ==
  /\ pc = "ckSnapSync"
  /\ SyncDir
  /\ pc' = "ckManifest"
  /\ UNCHANGED <<wal, onDisk, memory, caller, err, aux, counts>>

\* Mutant: the generation is counted up twice.
WriteManifestTwice ==
  /\ pc = "ckManifest"
  /\ Change([Now EXCEPT !.man = gen + 2])
  /\ pc' = "ckManSync"
  /\ UNCHANGED <<wal, onDisk, memory, caller, err, aux, counts>>

\* The directory wal/g+1, without a segment, and WriteManifest.
WriteManifest ==
  /\ pc = "ckManifest"
  /\ Change([Now EXCEPT !.man = gen + 1])
  /\ pc' = "ckManSync"
  /\ UNCHANGED <<wal, onDisk, memory, caller, err, aux, counts>>

\* Mutant: the checkpoint goes on.
ManifestErrorIgnored ==
  /\ "manifest" \in Faults
  /\ pc = "ckManifest"
  /\ pc' = "ckReset"
  /\ UNCHANGED <<files, memory, caller, err, aux, counts>>

\* Nothing is renamed.
ManifestFails ==
  /\ "manifest" \in Faults
  /\ pc = "ckManifest"
  /\ Finish(TRUE)
  /\ UNCHANGED <<images, wal, memory, aux, counts>>

\* From here on the content of the checkpoint is safe from every crash.
SyncManifest ==
  /\ pc = "ckManSync"
  /\ SyncDir
  /\ safe' = served
  /\ pc' = "ckReset"
  /\ UNCHANGED <<wal, onDisk, memory, caller, err, astray, counts>>

\* MANIFEST is renamed and stays so, and the process stays where it was.
ManifestSyncFails ==
  /\ "manifest_sync" \in Faults
  /\ pc = "ckManSync"
  /\ Finish(TRUE)
  /\ UNCHANGED <<images, wal, memory, aux, counts>>

\* ResetToSnapshot opens the first segment of the next generation and replays
\* nothing, and the index is rebuilt from what was collected.  (One that fails
\* leaves the files as they are and a process that cannot write: module Store.)
ResetToSnapshot ==
  /\ pc = "ckReset"
  /\ OpenWal(gen + 1)
  /\ gen' = gen + 1
  /\ pc' = "cleanWal"
  /\ UNCHANGED <<served, caller, err, aux, counts>>

-----------------------------------------------------------------------------
(***************************************************************************)
(* RemoveOldWalGenerations and RemoveOldSnapshots, unsynced.               *)
(***************************************************************************)
RemoveWal ==
  /\ pc = "cleanWal"
  /\ \E g \in Now.logs \ {gen} : Change([Now EXCEPT !.logs = @ \ {g}])
  /\ UNCHANGED <<wal, onDisk, memory, locals, aux, counts>>

\* All are removed, or the rest resists.
WalRemoved ==
  /\ pc = "cleanWal"
  /\ \/ Now.logs \subseteq {gen} /\ UNCHANGED err
     \/ "unlink" \in Faults /\ ~(Now.logs \subseteq {gen}) /\ err' = TRUE
  /\ pc' = "cleanSnap"
  /\ UNCHANGED <<files, memory, caller, aux, counts>>

OldSnapshots == {g \in Gen \ {gen} : Now.snap[g] # NoFile}

RemoveSnapshot ==
  /\ pc = "cleanSnap"
  /\ \E g \in OldSnapshots : Change([Now EXCEPT !.snap[g] = NoFile])
  /\ UNCHANGED <<wal, onDisk, memory, locals, aux, counts>>

SnapshotsRemoved ==
  /\ pc = "cleanSnap"
  /\ \/ OldSnapshots = {} /\ Finish(err)
     \/ "unlink" \in Faults /\ OldSnapshots # {} /\ Finish(TRUE)
  /\ UNCHANGED <<images, wal, memory, aux, counts>>

-----------------------------------------------------------------------------
\* The process dies; the cache stays.
Crash ==
  /\ pc # "closed"
  /\ pc' = "closed" /\ caller' = "none" /\ err' = FALSE
  /\ UNCHANGED <<files, memory, aux, counts>>

\* The directories a crash of the machine may leave.
CrashImages ==
  LET all == {images[n] : n \in DOMAIN images}
  IN IF Ordered THEN all
     ELSE {[man |-> i.man, snap |-> j.snap, logs |-> k.logs] : i, j, k \in all}

\* The machine crashes, and the disk is all there is: of every WAL a prefix.
MachineCrash ==
  /\ crashes < MaxCrash
  /\ crashes' = crashes + 1
  /\ \E i \in CrashImages :
       /\ images' = <<i>>
       /\ \E n \in onDisk[CurrentGen(i)]..Len(wal[CurrentGen(i)]) :
            /\ served' = Recovered(i, n)
            /\ wal' = [g \in Gen |-> IF g = CurrentGen(i) /\ g \in i.logs
                                     THEN SubSeq(wal[g], 1, n)
                                     ELSE <<>>]
  /\ onDisk' = [g \in Gen |-> Len(wal'[g])]
  /\ safe' = served'
  /\ astray' = FALSE
  /\ pc' = "closed" /\ caller' = "none" /\ err' = FALSE
  /\ UNCHANGED <<gen, writes>>

Next == \/ Open \/ AppendRecord \/ Close
        \/ WriteSnapshot \/ SnapshotFails \/ SyncSnapshot
        \/ WriteManifest \/ ManifestFails \/ SyncManifest \/ ManifestSyncFails
        \/ ResetToSnapshot
        \/ RemoveWal \/ WalRemoved \/ RemoveSnapshot \/ SnapshotsRemoved
        \/ Crash \/ MachineCrash

Spec == Init /\ [][Next]_vars

-----------------------------------------------------------------------------
(***************************************************************************)
(* Properties.  Each speaks of every state a crash at this moment may      *)
(* leave, so of every crash.                                               *)
(***************************************************************************)

\* Every variable has its type.
TypeOK ==
  /\ images \in Seq(Image) /\ Len(images) > 0
  /\ wal \in [Gen -> Seq(Record)]
  /\ onDisk \in [Gen -> Nat] /\ \A g \in Gen : onDisk[g] <= Len(wal[g])
  /\ gen \in Gen
  /\ served \in Seq(Record) /\ safe \in Seq(Record)
  /\ pc \in {"closed", "idle", "ckSnapshot", "ckSnapSync", "ckManifest",
             "ckManSync", "ckReset", "cleanWal", "cleanSnap"}
  /\ caller \in {"none", "open", "write", "close"}
  /\ err \in BOOLEAN /\ astray \in BOOLEAN
  /\ writes \in 0..MaxWrites /\ crashes \in 0..MaxCrash

\* Open never finds "snapshot missing for manifest generation".
AlwaysOpens == \A i \in CrashImages : Opens(i)

\* What a checkpoint held when it published its MANIFEST, and what one crash of
\* the machine has left, survives every crash, although neither the unlinks of a
\* cleanup nor the MANIFEST an Open relies on are ever synced.
SyncedSurvives == \A i \in CrashImages : Prefix(safe, AtLeast(i))

\* A crash leaves a prefix of the writes, on whichever side of the MANIFEST it
\* falls, unless writes went on in a generation that MANIFEST had left because
\* the sync of its directory failed.
CrashKeepsPrefix == ~astray => \A i \in CrashImages : Prefix(AtMost(i), served)

\* The generation after the one MANIFEST names holds no write: ResetToSnapshot
\* opens its first segment without a replay and appends behind what is there.
NextGenerationIsFresh ==
  \A i \in CrashImages : \A g \in i.logs : CurrentGen(i) < g => wal[g] = <<>>
=============================================================================
