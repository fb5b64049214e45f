# Formal model of minweight_store

`minweight_store` is an embedded, ordered key-value store: a Patricia-trie
index in memory (`minpatricia`) over a write-ahead log of memory-mapped
segments, with checkpoints that replace a log generation by a snapshot. This
directory holds TLA+ models of it, the TLC configurations that check them on
small instances, and TLAPS proofs of the results that do not depend on the
instance.

Run everything from this directory:

    tlc -config store_safety.cfg MCStore.tla        # and so on for the other runs
    tlc -config wal_recovery.cfg Wal.tla
    tlc -config checkpoint_durability.cfg DiskCheckpoint.tla
    tlc -config index_pages.cfg MCPatricia.tla
    tlc -config index_records.cfg MCPatriciaRecords.tla
    tlapm StoreProofs.tla
    tlapm StoreLocksProofs.tla
    tlapm WalProofs.tla
    tlapm DiskCheckpointProofs.tla
    tlapm HeapRecordsProofs.tla
    tlapm PatriciaKeysProofs.tla
    tlapm PatriciaTreeProofs.tla
    tlapm PatriciaPageProofs.tla

`PROJECT.json` lists the runs, the mutants that show each property can fail, the
source lines of every definition, the hazards and the findings.

## 1. Inventory of the system

Line numbers are those of `src/src/minweight_store/store.cc` unless another file
is named.

| component | state | operations | interacts with |
|---|---|---|---|
| `Store::Impl` (1440-1942) | `records_`, `index_`, `nodes_`, `open_`, `fatal_`, `primary_mu_` | `Open`, `New`, `Close`, `Put`, `Delete`, `Get`, `Len`, scans and seeks | owns the record store and the index; every operation runs under one reader-writer lock |
| checkpoint (385-798, 1794-1880) | files `MANIFEST`, `SNAPSHOT.g`, directories `wal/g` | `CollectLiveItemsLocked`, `WriteSnapshot`, `CreateDirs`, `WriteManifest`, `ResetToSnapshot`, `RebuildIndexFromSnapshotLocked`, `RemoveOldWalGenerations`, `RemoveOldSnapshots` | called by `Put`, `Delete` (more than three segments) and by `Close` (`sync_on_close`) with the write lock held |
| `SegmentedRecordStore` (1086-1394) | `segments_`, `active_file_no_`, `next_file_no_`, `generation_`, `snapshot_records_` | `Open`, `Append`, `DeleteRecord`, `Rollover`, `ReplayAll`, `Sync`, `Close`, `ResetToSnapshot` | gives the index the key of a position (`Key`), so the index calls back into it on every comparison |
| `WalSegment` (800-1084) | mapped file: header (magic, version, `used`) and records with a CRC | `Open`, `Append`, `Replay`, `Truncate`, `Sync`, `Close` | page cache and disk |
| `runtime.h` | the reader-writer lock, `BlockingIO` | `ReadLock`, `WriteLock`, `StdRuntime` | replaceable by the user; callbacks of scans run inside the read lock |
| `minpatricia::Index` (`index.h`) | root page, length | `Put`, `Get`, `Delete`, `Ascend`, `Descend`, `SeekGE`, `SeekLE` with split, promotion, merge, root compression | `NodePage`s in a `HeapNodeStore`, keys from the record store |
| `NodePage` (`node_page.h`), `CompareAndDiffBit` (`diff.h`) | the routes of one page in preorder, its representatives | insertion, deletion, search of a route | `Index` |
| `HeapNodeStore`, `HeapRecordStore` | pages and a free list, records | allocate, free, get | `Index` |
| `Status`, `Result`, `Options` | none | none | everywhere |

What is hard in this code:

* crash consistency: a checkpoint publishes four things (snapshot, directory,
  MANIFEST, the segment of the new generation) and then deletes two lists of
  files, and the process may die between any two of them; replay has to meet
  whatever is left;
* partial failure: every one of these system calls may fail with the store left
  open, and memory and disk then have to agree on the generation;
* ordering: mapped pages reach the disk in any order, segments are sealed
  without being synced, recovery itself changes files that it has not synced;
* `Delete` changes the index before the log and undoes it when the log fails;
* durability: `SyncDir` is called after two renames and nowhere else, so that a
  crash of the machine may take back the creation of a log, or the removal of one;
* reuse: the index holds positions only, and a freed position is given to another
  record at once;
* user callbacks inside a lock that is not recursive, and `Close` racing reads;
* the index algorithms: page splits and merges that keep a trie of critical bits
  spread over pages.

What makes each component correct:

* Store: what a reader sees is what a crash at this moment would recover; the
  files always hold the content of an abstract map that changes by one `Put` or
  `Delete` at a time.
* Checkpoint: MANIFEST only moves to a generation whose snapshot holds exactly
  the content of the one before; what it names is never removed or rewritten;
  what it has left behind is removed.
* Checkpoint on a disk: whatever directories a crash of the machine leaves, the
  store opens, with all that a published checkpoint held and with a prefix of the
  writes.
* WAL: recovery yields a contiguous prefix of the writes, all of them unless a
  record is damaged or the machine crashes; it ends; no dropped segment returns.
* Locks: no torn read, no use of a closed record store, no wait for oneself.
* Index: a sorted map; every page's routes are the Cartesian tree of its
  critical bits; seek and scan agree with the sorted order.
* Record store: every position the index holds leads to a live record with the key
  the index took it for; no record is lost or has two owners.

## 2. Modules

| module | what it is |
|---|---|
| `KVStore` | the promise to the caller: a map that `Put` and `Delete` change one key at a time, and that opening, closing, checkpointing and dying do not change |
| `Store` | `Store::Impl` with the record store, the checkpoint and the files of its directory; implements `KVStore` |
| `StoreInv` | the inductive invariant of `Store`, in named parts |
| `StoreProofs` | theorems about `Store`: those that hold whatever fails (types, MANIFEST and its files, cleanups, what an `Open` serves, what an acknowledged write may rely on), and those where a switch of generations does not fail half way (the inductive invariant, what a reader sees, the refinement of `KVStore`) |
| `MCStore` | instances of `Store` for TLC |
| `KVCalls` | the promise to threads that share a store: every call takes its effect, and a read its whole answer, at one moment between its start and its return |
| `StoreLocks` | `Store::Impl` shared by threads, call by call and step by step under the reader-writer lock; implements `KVCalls` |
| `StoreLocksProofs` | the inductive invariant of `StoreLocks` and theorems for any number of threads, the refinement of `KVCalls` among them |
| `MCStoreLocks` | instances of `StoreLocks` for TLC |
| `Wal` | one generation of the log, page cache and disk; crashes of the process and of the machine, damaged records, both replay policies |
| `WalProofs` | the inductive invariant of `Wal` and theorems for any number of segments, records, crashes and damaged records |
| `DiskCheckpoint` | checkpoint, `Open` and `Close` over directories and logs that reach the disk later; crashes of the machine between any two steps |
| `DiskCheckpointProofs` | the inductive invariant of `DiskCheckpoint` and theorems for any number of generations, writes and crashes |
| `PatriciaKeys` | the order of keys, diff numbers and routes: `diff.h` and the class `Route` |
| `PatriciaPage` | one page of the index: lookup, insertion and deletion of a route, the routes that diffs give, the choice of a split; what the routes of a page have to be for the keys it holds (`KeyPage`) |
| `Patricia` | `minpatricia::Index` over a `HeapNodeStore`: put, delete, retarget, reopen, seeks and scans over pages |
| `HeapRecords` | `HeapRecordStore`: records, their positions and the free list |
| `HeapRecordsProofs` | theorems about the free list for any sequence of calls |
| `PatriciaRecords` | `Patricia` over `HeapRecords`, and the client that calls both |
| `PatriciaKeysProofs` | theorems about the order of keys, diff numbers and routes for keys of any length and bytes of any width |
| `PatriciaTreeProofs` | theorems about the tree of a page: a rebuild makes the Cartesian tree of the diffs, there is only one, and editing routes in place makes the same |
| `PatriciaPageProofs` | theorems about the pages of the index: `Lookup` finds the slot of a key, and every operation that writes pages leaves pages that their keys ask for |
| `MCPatricia`, `MCPatriciaRecords` | instances of `Patricia` and of `PatriciaRecords` for TLC |

### Store

One step is what one system call publishes. `pc` is the next step of the
operation that holds the write lock; `caller` tells whether a checkpoint or a
cleanup runs for `Open`, for a write or for `Close`, which decides what a failure
does (`Finish`).

    Open    OpenRecords -> [LoadSnapshot] -> ReplayRecord* / ReplayNextSegment*
            -> ReplayDone -> [cleanup] -> idle
    write   Write, or WriteRollover -> RetryAppend / RetryFails,
            -> [checkpoint, if more than CheckpointThreshold segments]
    Close   -> [checkpoint, if sync_on_close] -> closed
    checkpoint  Collect -> WriteSnapshot -> CreateWalDir -> WriteManifest
            -> ResetToSnapshot -> Rebuild -> cleanup
    cleanup RemoveSegment*, RemoveDir per generation -> CleanSnapshots
            -> RemoveSnapshot* -> CleanDone

| TLA+ | code |
|---|---|
| `manifest`, `snapFiles`, `snapData`, `walDirs`, `walFiles`, `walLog` | `MANIFEST` (0: no file), `SNAPSHOT.g`, `wal/g`, its segment files and the records below their `used` offsets |
| `gen`, `segs`, `active`, `snapRecs` | `generation_`, the keys of `segments_`, `active_file_no_` (`next_file_no_` is always one more), `snapshot_records_` |
| `index` | `index_`: a function from keys to positions |
| `pending`, `entries`, `cursor`, `todo`, `err` | arguments and locals of `Append`/`Delete`, `CheckpointLocked`, `ReplayAll`, `RemoveOld...` |

A position is `<<file_no, offset>>`; file number 0 stands for positions below
2^30, the slots of `snapshot_records_`. A tombstone is a record whose value is
`Missing`. `Oversize` values are those whose record no segment can hold.
`SegmentCapacity` counts records. A crash (`Crash`) loses the memory and keeps
the files, which is what the page cache of a machine that stays up does;
crashes of the machine are in `Wal` and `DiskCheckpoint`. The steps named `...Fails` are the error
branches of the step they are named for, guarded by the name of the failure in
`Faults`.

Simplifications: the creation of a segment and its header is one step here (torn
headers are in `Wal`); temporary files are left out, since they are only ever
renamed or unlinked and never listed (`.tmp` names do not parse); the replay
policy does not matter because no record of a log that only the process lost is
damaged; `Open` creating and locking nothing, two processes on one directory are
excluded; `MarkFatal` (1892) is left to `StoreLocks`: it needs an index operation that
fails, that is, a position whose key cannot be read, and `IndexResolves` shows
there is none as long as a generation switch does not fail half way.

### Wal

Segments are a header and slots of one record; every header and slot has a
cached content and a set of contents the disk may hold. A record is the number
of its append, so lost, repeated and resurrected records are visible. `hist` is
an auxiliary variable: the records the log holds as its users know it. `policy`
is the replay policy of the `Open` in progress, chosen anew by each. A replay visits
records in the order of their positions; `Spells(s, P, content)` says that the
sequence `s` is what the positions `P` hold in that order, the n-th record being at
the position with n positions up to it. `dirty` holds
the segments whose `data_dirty_` this process has set: only these are synced by
`Sync` and `Close`, and `Open` starts with none but the segments it gave a header.
Creating and unlinking files is taken to be durable at once (`DiskCheckpoint` does
not). An `OsCrash` picks any of the contents the disk may hold for every page, and
may tear a record that spans pages.

The code has three weak points, each the subject of a violation run: a drop of
segments that does not finish, a truncated record that comes back, a sealed
segment that was never synced. `exposed` is an auxiliary variable that records
which of them a recovery has met. `RecoversPrefixUnlessExposed` says that there is
no fourth: with all faults together, whatever else happens, recovery keeps a
contiguous prefix.

### DiskCheckpoint

`Store` lets the process die between any two steps of a checkpoint and keeps what
the steps did; here a step also has to reach the disk. `images` is the sequence of
directories (MANIFEST, snapshots, logs) after each change since the last sync: the
first is on the disk for certain, the last is what system calls see, and a crash of
the machine goes back to one of them. `SyncDir` keeps only the last. A log is a
sequence of writes of which a crash keeps a prefix no shorter than `onDisk`; that
this is what a log amounts to is the subject of `Wal`, with the exceptions named
there.

    checkpoint  WriteSnapshot -> SyncSnapshot -> WriteManifest -> SyncManifest
                -> ResetToSnapshot -> RemoveWal* -> RemoveSnapshot*
    Open        (reads what it sees, syncs nothing) -> RemoveWal* -> RemoveSnapshot*

| TLA+ | code |
|---|---|
| an image: `man`, `snap`, `logs` | `MANIFEST` (0: no file), the content of `SNAPSHOT.g`, the generations with segments in `wal/g` |
| `served` | the content of `index_`, as the writes that made it |
| `safe` | auxiliary: `served` when the last MANIFEST was synced, or what the last crash of the machine left |
| `astray` | auxiliary: a write went to a generation that MANIFEST had left (`ManifestSyncFails`) |

`AlwaysOpens`, `SyncedSurvives` and `CrashKeepsPrefix` speak of every image a crash
at this moment may leave, so that each state stands for all crashes from it.

The constant `Ordered` is an assumption on the file system: directory changes reach
the disk in the order they were made, as with a journal. The code depends on it. With
`Ordered = FALSE` TLC finds `SyncedSurvives` violated in twelve steps: a process
renames MANIFEST and dies before its `SyncDir`; the next `Open` finds the new
MANIFEST in the page cache, trusts it and removes the log of the old generation;
then the machine crashes, and the disk has the removal without the rename: the old
MANIFEST over an empty log. No run is kept for this, since no document of the
repository says which file systems it is meant for.

Simplifications: the segments of one generation are created and removed as a unit
(file by file in `Store`); a failing `ResetToSnapshot` leaves the files as they are and
is left to `Store`; at most `MaxPending` changes are pending, the oldest is written
when there would be more.

### StoreLocks

The other half of `Store::Impl`: threads, the lock, reads, and what an index call
that fails does. The files are left out; `log` and `index` are the content each
of the two says. `Store` takes a call that holds the write lock as the only one;
`StoreLocks` shows that this is what callers see.

    read    Invoke -> RLock -> Check -> Look -> Value | Len | Visit* / VisitEnds
            -> Unlock -> Return
    Put     Invoke -> Lock -> Check -> Append -> Apply -> CheckpointIfNeeded
            -> Unlock -> Return
    Delete  ... Check -> FindDeleted -> Remove -> Tombstone -> CheckpointIfNeeded,
            Tombstone -> Restore when the log refuses the record
    Close   ... Check -> Shut -> Unlock -> Unmap -> Return

| TLA+ | code |
|---|---|
| `open`, `fatal` | `open_`, `fatal_` |
| `readers`, `writer` | the holders of `primary_mu_` |
| `pc`, `call`, `answer` | where a thread is in its call, the arguments, the status and result |
| `held` | the position that `Get` or `Delete` has from the index; `Dangling` when somebody else's checkpoint or `Close` has unmapped the record |
| `seen` | the items a scan has given to its callback |

The refinement of `KVCalls` maps the content that calls see to `Served`: the index,
with the entry that a `Delete` has taken out but not logged yet. In a fatal store
the next `Open` may find either copy, and so `dict` is the set of both; `Close`
with `sync_on_close` then writes the index as a snapshot and settles it.

Simplifications: positions are the values they lead to; an index call that fails
has done its work or has not; a checkpoint that fails does so before the switch
of generations or while cleaning up (in between is `Store`'s subject); the checks of
arguments (key size, ends of a range) that answer before anything else are left
out. Callbacks do not call the store: its lock is not recursive.

### Patricia

The index has one caller at a time (the store's lock), so every operation is one
step, and its helpers are operators that take and return the state as a record.
What makes it worth checking is not concurrency but the state that survives an
operation: pages whose routes are edited in place, diffs that splits and merges
pass on instead of comparing keys again, and the first and last position that
every page caches of what is below it.

| TLA+ | code |
|---|---|
| `nodes`, `free` | `HeapNodeStore::nodes_` and `free_`; page 1 is the root |
| a page: `reps`, `routes`, `first`, `last` | `NodePage` without its unused entries; slots and routes count from 1 |
| `[child |-> id]` or a position | `Rep` |
| `[key, ver]` | a position: the record it leads to has that key, and `ver` tells two positions of a key apart |
| a path | the vector of `PutFrame`, or `IterPath` |
| `count` | `count_` |
| `st.ok` | no operation has answered `kCorruptLayout`, `kUnsortedKeys` or `kDuplicateKey` |
| `dict` | auxiliary: the position each key was given last |

    Put     Lookup down to a record -> Replace -> PropagateBoundary
            or InsertSlotFromPath -> InsertAtPath:
               InsertAtIncremental | PromoteSibling | SplitAndWriteNodeAt
               -> PropagateBoundary
    Delete  DeleteFrom -> DeleteAtIncremental -> on the way back AfterChildDelete:
               free the child | MergeChildIntoParent | MergeSiblings
               | RebuildParentAfterChildBoundary -> CompressRoot

A subtree of a page is a frame (first route, first slot, number of slots), as the
locals of the code's loops are. The loops and stacks over frames are written
without recursion, as orbits of the step they repeat (`Orbit`): the way to a slot is
the frames passed until one has a single slot, the frames of a page are those that
splitting every frame reaches.
The limits 339 (`kMaxNodeReps`) and 339 / 32 = 10 are the constants `MaxNodeReps`
and `MinNodeReps`. `SplitAndWriteNodeAt` loops until a page fits; a page is at most
one over its limit, and so the model has one pass. A route is a record of its
three fields; that each fits its bits is `DiffBitFits`. Keys that exceed
`kMaxKeySize` are refused before anything changes and are left out, as is a
`RecordStore` that cannot answer `Key`.

What the index promises is the map `dict` with the order of its keys:
`FindsWhatWasPut`, `AnswersAgree` and `ScansAgree` compare every read of the index,
each of the eight scans with every key or pair of keys as its bounds, and the
answer of every possible next write with `dict`, in every state. (A refinement of a
separate sorted map would evaluate the whole index on both sides of every step,
and say the same.)

### HeapRecords and PatriciaRecords

`HeapRecords` is `HeapRecordStore`: `records` holds the positions from 1 on
(`records_[0]` is never live), `unused` is `free_`, a stack, `live` is `live_`.
`PatriciaRecords` composes it with `Patricia`: a position is `[key, slot]`, where
`slot` is the number that the index holds and `key` is what `Patricia` reads there.
`EveryPositionResolves` is what justifies that reading: if it holds between any two
calls, `RecordStore::Key` answers with that key.

    put     AddRecord -> PutRecord | RetargetRecord -> [FreeRecord]
    delete  DeleteRecord -> [FreeRecord]

`pending` is the client between its calls. The code has no client of its own for this
pair but its tests, and the order of calls is theirs
(`minpatricia_test.cc:1054-1059`, `1083-1085`): a record is added before its position
goes into the index, and the position that the index answers with is freed
afterwards. The values that records carry are left out: they do not change while a
record is live.

## 3. Runs

| run | instance | what it shows |
|---|---|---|
| `store_safety` | 2 keys, a value and an oversize value, 1 record per segment, checkpoint above 1 segment, 3 files, 3 generations, all failures except those of the two below | 1.2 million states: types, the inductive invariant `Inv`, `VisibleIsRecoverable`, `IndexResolves`, `ManifestIsBacked`, the refinement of `KVStore`, `CheckpointPreservesContent`, `CurrentGenerationKept`, `CleanupIsComplete` |
| `store_switch_faults` | 1 key, 1 value, 2 records per segment, all failures but those of removals, with fairness | with a MANIFEST whose directory sync fails, and a generation switch that fails half way: acknowledged writes stay recoverable, the next `Open` serves what the files hold, operations end, old generations are removed |
| `store_reset_fails` | as `store_safety`, only `reset` fails | expected violation of `IndexResolves` |
| `wal_recovery` | 3 segments of 2 records, 4 appends, 1 crash of the machine, 1 damaged record, all faults, both policies, with fairness | 579 thousand states: types, `StoredIsHistory`, `NoStaleSegment`, `RecoversPrefixUnlessExposed`, `ProcessCrashLosesNothing`, `StrictNeverTruncates`, `RecoveryEnds` |
| `locks_calls` | 2 threads, 2 keys, 2 values, a range of both keys and one of the larger, all failures, any number of calls | 243 thousand states: types, `PositionsResolve`, `DivergedIsFatal`, the inductive invariant `LockInv`, the refinement of `KVCalls` |
| `locks_return` | 2 threads, 1 key, 1 value, all failures, with fairness | `HoldersReturn` |
| `index_pages` | 7 keys of up to 2 bytes of 8 bits, 2 of them with two positions, pages of 4, merges below 4 | 11 thousand states: types, `NeverCorrupt`, `PagesCanonical`, `NoPageLost`, `FindsWhatWasPut`, `AnswersAgree`, `ScansAgree` |
| `index_records` | 5 keys, 5 slots for records, pages of 3, merges below 3 | 764 thousand states: `EveryPositionResolves`, `RecordsOwned` |
| `checkpoint_durability` | 2 checkpoints, 4 writes, 2 crashes of the machine, any number of crashes of the process, 6 pending changes, all failures | 679 thousand states: types, `AlwaysOpens`, `SyncedSurvives`, `CrashKeepsPrefix`, `NextGenerationIsFresh` |
| `wal_unsynced_rollover`, `wal_crash_in_drop`, `wal_stale_tail` | minimal instances | expected violations, see findings |

Bounds. `MaxGen = 3` allows two checkpoints, so that a snapshot is itself
superseded and a key may live in the snapshot, in the log or in both; the last
generation takes no writes and no checkpoint (`CanWrite`, `Close`), it can only
be opened, read and closed. `CheckpointThreshold` is 3 in the code and 1 here: a
checkpoint then sees a sealed and an active segment. One record per segment makes
every second write a rollover. Three files allow a stray file beyond the segment
that triggers a checkpoint. Two keys are enough for one key to be touched
while the other is only in the snapshot. In `Wal` three segments are one
damaged, one dropped and one to be dropped when the process dies; four appends in
segments of two fill two segments and, after a truncation, overwrite a slot; one
crash of the machine is enough for a sealed segment to end early, and a record that
comes back shows after one crash when a damaged record made the log give up what
followed it. In `DiskCheckpoint` two crashes of the machine with a checkpoint between
them let a generation be used again after a crash has undone it; a checkpoint
makes fewer than six changes between two of its syncs, the removals after it
included; five writes instead of four change nothing (2.3 million states).

In `Patricia` the keys contain a prefix of others, the empty key, and keys that
part at the end of a byte's bits. With pages of four, seven keys give trees of up
to four levels, and every branch of `InsertAtPath` and `AfterChildDelete` is taken.
The merge limit is the page size here (10 of 339 in the code): with a smaller one
these few keys never bring two siblings to `MergeSiblings`. The states are all
reachable layouts, for every order of writes, and so no bound on the number of
operations is needed; page numbers are part of them, which is what limits the
number of keys. `ChooseSplitRange` takes the subtree nearest to half a page only in
pages of six and more, where no subtree has a third to a half of the slots;
`MaxNodeReps = MinNodeReps = 6` with the eight one-byte keys 0 to 4, 8, 16 and 32
reaches it (7180 states, all properties hold) and is not kept as a run of its own.
Its last fallback (no candidate at all, index.h:1207-1211) is left out: it is never
reached (`SplitRangeIsSubtree`). In `PatriciaRecords` the order in which positions were given and
freed is part of the state, and pages of three let five keys reach trees whose child
pages are split, shrink and are merged again; with as many slots as keys a record is
replaced while three other keys are held.

Fairness. `FairSpec` asks that the steps of an operation that has been called
are taken (`WF_vars(InternalStep)`, in `Wal` `WF_vars(RecoveryStep)`): they run in
one thread that already holds the write lock and waits only for its own system
calls. No caller has to call, no failure or crash has to happen. In `StoreLocks`
`Fairness` asks the same of every thread that has had the lock, callbacks
included, and nothing of the lock itself: `std::shared_mutex` does not promise that
a waiting thread ever gets it, so `HoldersReturn` speaks of those who have it.
`StoreLocks` needs no bound on the number of calls: its states are finite. Two
threads show every conflict of two calls; the proofs cover any number. Deadlock
is checked in every run.

## 4. Findings

Each one is a run with an expected violation.

* `store_reset_fails`: when `ResetToSnapshot` fails after MANIFEST was published
  (1302-1319), the checkpoint returns the status without `MarkFatal`. The store
  stays open with `segments_` empty: reads meet positions that do not resolve
  and the next `Put` dereferences a null `Active()`. The design document
  (`docs/design/minweight_store.md:117`) says that a store whose log and index
  have parted becomes fatal. A reopen recovers (`OpenServesWhatFilesHold`).
* `wal_unsynced_rollover`: a sealed segment is not synced (1369), so after a
  crash of the machine it may end early and cleanly while the next segment is
  replayed: the gap that README.md:99 excludes.
* `wal_crash_in_drop`: recovery shortens the damaged segment before it unlinks
  the later ones (968, 1229); dying in between brings the later records back.
* `wal_stale_tail`: truncation (1053) lowers `used`, does not sync it and leaves the
  records behind it in the file. One crash of the machine loses a record; a later
  write takes its slot; after a second crash the old record is back and is replayed
  in its place, which `docs/design/minweight_store.md:183` excludes.

Seen in the models and recorded under hazards, without a document to hold them
against: `Put` and `Delete` return the error of the checkpoint they triggered
although their own write took effect; an oversize `Put` leaves a new empty
segment behind each time and runs no checkpoint; `InitHeader` (1041) is not atomic,
and a process that dies inside it leaves a header that every later `Open` rejects
(`CrashInInitHeader`, `OpenRejected`); durability across a crash of the machine
depends on a file system that keeps the order of directory changes
(`DiskCheckpoint`, `Ordered`).

## 5. Proofs

All theorems are for every value of the constants (sets of keys and values, segment
capacity, thresholds, numbers of threads, files, crashes, and every set of
`Faults`), under the assumption that the module states on its constants and what
is named here.

The first theorems of `StoreProofs` assume nothing about failures:

* `TypeCorrect`: `Spec => []TypeOK`, by the invariant `TypeInv`, which adds what
  each phase says of the local variables (`LocalsOK`): a generation is only
  written below `MaxGen`, a retry has a pending record.
* `ManifestAlwaysBacked`: `Spec => []ManifestIsBacked`. `PublishedInOrder` adds
  the order snapshot, directory, MANIFEST, and that a cleanup does not list the
  generation that MANIFEST names.
* `SuccessfulCleanupIsComplete`: `Spec => CleanupIsComplete`, by `CleanOK`: while
  nothing has failed, whatever is not listed any more is gone.

The next ones assume `SwitchNeverFails`: neither the directory sync
after MANIFEST was renamed nor `ResetToSnapshot` fails. Without it they are false;
run `store_reset_fails` shows why. Every other failure may happen. (Its lemmas about
steps assume less: that this step is not such a failure.)

* `InvariantHolds`: `Spec => []Inv`. None of the safety properties is inductive:
  they speak of idle states, and what a reader sees depends on the whole of the
  last replay and on every append since. The parts of `Inv` are, in the order of
  the argument:
  1. *structure* (`OnOneGeneration`, `FilesOK`, `SegmentsOK`): memory and MANIFEST
     name the same generation but for the step between `WriteManifest` and
     `ResetToSnapshot`; later generations have no log yet; the mapped segments
     are the files of the generation, except an empty one that a failed rollover
     left beyond the active segment;
  2. *index* (`Tracks`): an index entry is the newest of the records of its key
     that the index has seen (all of them, or those before the replay cursor), or
     the slot of its snapshot record if it has seen none, with the entry that a
     `Delete` waiting for a rollover has taken out put back (`PositionOf`);
  3. *entries* (`EntriesOK`): from the collection to the rebuild a checkpoint
     carries exactly what the files hold.
  Each part has one lemma per group of actions (`Structure...`, `Index...`,
  `EntriesNext`). Most steps leave what the files hold alone (`ContentKept`,
  `ContentKeptBySteps`, `RecoveredStable`); the others are the appends
  (`AppendedTouch`: the appended record is the newest) and the publication of
  MANIFEST (`ManifestMoves`).
* `VisibleAlwaysRecoverable`, `IndexAlwaysResolves`: by `EntryMeaning`, a settled
  index entry is absent exactly if its key is and else reads what would be
  recovered.
* `StoreImplementsMap`: `Spec => ImplementsKVStore`, by `StepOfContent`: a step
  changes nothing of the content or one key of it while the store is up.
* `CheckpointKeepsContent`, `CurrentGenerationIsKept`: the two action properties.

The last ones again assume nothing about failures.

* `FaultInvHolds`: `Spec => []FaultInv`. `FaultInv` says that either `Inv` holds or the
  store has parted from MANIFEST (`Parted`), in one of two ways. After a failed sync of
  MANIFEST it goes on with the segments of the old generation (`Behind`); a checkpoint
  was due then (`DueOK`), and stays due since segments are only added, so that every
  write runs into a checkpoint again. After a failed `ResetToSnapshot` it has no
  segments and takes no writes. Either way the files are in order, no file of the
  generation to come has been opened, and the snapshot about to be named is the one
  just written, which is all that `Inv` asks when the switch at last succeeds, the
  store is closed, or the process dies. `SyncParts` and `ResetParts` are the steps from
  `Inv` to `Parted`, `PartedNext` is every step from there.
* `AcknowledgedAlwaysRecoverable`: `Spec => AcknowledgedIsRecoverable`: a parted store
  never answers a write without an error.
* `OpenAlwaysServesFiles`: `Spec => OpenServesWhatFilesHold`: an `Open` is never parted.

`StoreLocksProofs` holds for any set of threads, keys, values and failures, under
`LocksAssumption`. `LockInvariant` is the invariant `LockInv`: the lock is held by
exactly the threads between `Lock` and `Unlock`, no reader beside a writer
(`LockOK`); a call is where its kind belongs (`CallsOK`) and was let pass by a store
that is still open and not fatal (`ServedOK`); the key of a held position still
leads to it (`HeldOK`); and the only difference between log and index in a store
that is not fatal is the write of the thread in the middle of one (`Unlogged`,
`AgreeOK`). `PositionsAlwaysResolve` and `DivergedAlwaysFatal` are its consequences;
alone they are not inductive, since who may change the index depends on who has
the lock. `Exclusive` and `InWriteLock` carry the argument.

The refinement of `KVCalls` needs more than `LockInv`: `MapInv` adds what a call
carries with it. `AnswerOK` says when a thread has an answer; `SeenOK` says of a
scan or seek in progress that its callback has been given exactly the live items in
front of its next one (`Visited`), which the read lock keeps true while it runs.

* `MapInvHolds`: `Spec => []MapInv`.
* `SharedStoreImplementsCalls`: `Spec => ImplementsCalls`. There is one lemma per
  action (`...Maps`) that says what the step is in `KVCalls`, joined in `StepMaps`:
  the step that looks up or visits the last item is the read, `Apply` of a put and
  `Tombstone` of a delete are the write, an index call that fails breaks the store,
  `Shut` is the close, and most others stutter. The middle of a write is hidden by
  `Served`.

Under `CallsAssumption` (the values that stand for no call and no answer are
neither).

`WalProofs` assumes nothing beyond `WalAssumption`: every fault, any number of
crashes of the process and of the machine, any number of damaged records and both
policies. The invariant `WalInv` consists of

* `Shape`: how files, mapped segments, the active one and the cursor of a recovery
  fit together;
* `ReplayOK`: a replay has applied what the positions it has passed hold, a drop
  what is left when it is done;
* `NothingLeft`: without a drop that stopped half way there is no file beside the
  mapped segments but the empty one of a failed rollover;
* `StoredIsHistory`: what an open log holds is what its users know;
* `PrefixStored`: unless a weak point was met, what a recovery would replay up to the
  first bad record is a prefix of that, and so is what it has applied so far;
* `AllStored`: without damage and crashes of the machine it is all of it.

The lemmas below it are about positions: a replay visits them in order, so that
a position added behind all others appends its record (`SpellsMore`), and the
positions up to one are the same in every set that only differs behind it.

* `OpenLogIsHistory`, `NoSegmentLeft`, `WalTypes`: parts of the invariant.
* `RecoveryKeepsPrefix`: `Spec => RecoversPrefixUnlessExposed`: there is no fourth
  weak point. `ProcessDeathIsHarmless`: `Spec => ProcessCrashLosesNothing`.
  `StrictKeepsHeaders`: `Spec => StrictNeverTruncates`.

`DiskCheckpointProofs` assumes `Ordered`; without it the theorems are false, as
section 2 says. The invariant `DiskInv` speaks of every image since the last
sync, because a crash may go back to any of them:

* `ImageOK`: the image opens by itself, no log in it is later than its MANIFEST, and
  what a recovery of it yields at least holds `safe`;
* `BesideNow`: beside the image that system calls see: MANIFEST has only gone forward,
  and an image of the same generation has the same snapshot and, if it has the log,
  the same one, so that an append reaches both or neither;
* `ProcessOK`: the generation of the process is that of MANIFEST or, between
  `WriteManifest` and the end of the switch, the one before; the snapshot it has
  written is what it serves;
* `ServedOK`: what is served extends `safe`, and is all that the files hold unless a
  write went to a generation MANIFEST had left.

`CrashAlwaysOpens`, `CheckpointSurvives`, `CrashAlwaysKeepsPrefix`, `NextAlwaysFresh` and
`DiskTypes` follow from it. The step that needs `Ordered` is the sync of a directory
and the growth of `images`: an image that a crash may leave is one that was there.

`HeapRecordsProofs` holds for any sequence of calls, under `DeadIsNoKey` (a record
that is not live is no key). `FreeListAlwaysDead`: the free list is exactly the dead
positions, each once. `LiveAlwaysKept`: a live record stays where and what it is until
it is freed. `PatriciaRecords` composes this module with the index.

`PatriciaKeysProofs` holds for keys of any length and bytes of any width, under
`BitsAssumption` (a byte has a bit) and `PowerAssumption`, the definition of the powers
of two up to the width of a byte, which the provers do not know; TLC evaluates it for
bytes of 8 bits in `index_pages`.

* `BytesDiffer`: two different bytes differ first in a bit that is 0 in the smaller
  one. It follows from the division of a byte by falling powers of two (`Halves`,
  `QuotientsOfByte`), by an induction over the bits.
* `DiffBitDecides`: the diff number of two keys is the first on which they disagree,
  and the smaller answers 0. Either one key is a prefix of the other
  (`PrefixDecides`) or they part in a byte (`ByteDecides`); diff numbers are ordered
  by byte and then by bit (`DivModLess`).
* `RouteKeepsDiff`, `RouteAsksItsDiff`: a route gives back its diff number and asks
  every key the same question.
* `DiffBitFits`: with keys of at most `kMaxKeySize` bytes no diff number overflows.
* The order of keys is total and transitive, and three keys in order part as their
  neighbours do: the two outer ones at the smaller of the two diffs.

`PatriciaTreeProofs` is about routes and diffs, without keys, for pages of any size.
`IsCartesian` says of routes that every frame they make of a page parts at the last of
its smallest diffs.

* `RoutesOfIsCartesian`: what a rebuild writes is such a tree, and
  `CartesianIsUnique`: it is the only one. So an operation that edits routes in place
  is right if what it leaves parts every frame at the last of its smallest diffs.
* `GrownIsCartesian`, `InsertRouteIsRebuild`: that is what `InsertRoute` leaves. Every
  frame of the old tree has an image in the new one: those above the insertion have one
  slot more, those behind it move by one, and the inserted route is the one new frame.
* `ShrunkIsCartesian`, `DeleteRouteIsRebuild`: the same for `DeleteRoute`, which takes
  away the larger of the two diffs beside the slot.
* `RouteDiffsAreDiffs`: `RouteDiffs` gives back what the routes were made from.

`PatriciaPageProofs` adds the keys. `KeyPage(page, lows, highs)` says that the slots of a
page stand for the keys from `lows[s]` to `highs[s]`, in order (`Ends`), and that its
routes are those of the diffs between them. The third conjunct of `Ends` is the
strengthening without which this is not inductive: the two ends of a child part later
than the child parts from what stands beside it. The code nowhere checks it, and every
operation that does not compare keys again rests on it: an insertion into a child would
otherwise change the diffs of the page above. `PagesCanonical` is this property of every
page of the index, with the ends that its children cache, and TLC checks it in all
states of `index_pages`: that the hypotheses of the theorems are met where the code
calls the operations is what that run shows.

* `LookupFindsSlot`: a key between the ends of a slot is led to that slot. It answers
  every route on its way as the ends of its slot do (`Alike`).
* `InsertSlotIs`, `InsertKeepsPage`, `ChildInsertKeepsPage`: a new key parts from the
  page in one frame; the slot the code computes is beside this frame; with the key there
  the page is again a `KeyPage`; and if the frame is a child, the page is one as it
  stands, whatever happened in the child.
* `DeleteKeepsPage`, `ChildDeleteKeepsPage`: the same for a key that goes.
* `SplitKeepsPages`, `SplitRangeIsSubtree`, `SplitMakesRoom`: the range that moves out is
  a whole subtree, both pages are `KeyPage`s and within the limit.
* `PromoteKeepsPages`, `ChildMergeKeepsPage`, `SiblingMergeKeepsPages`: so are the pages
  that take diffs over from one another. The last needs `IsDirectRoutePair`, the
  condition of the code.

Model-checked only:

* liveness under fairness (`Progress`, `OldGenerationReclaimed`, `RecoveryEnds`,
  `HoldersReturn`), which the prover does not reach;
* the index as a whole (all properties of `index_pages` and `index_records`): the theorems
  above are about one page, or a page and its children. The paths of `Patricia` over
  pages are recursive operators, as the recursion of `DeleteFrom` in the code is, and a
  proof about them would be an induction over the depth of the index.

## 6. Not modelled, and the plan

Not modelled: record and snapshot encodings (a CRC that matches is taken to mean an
undamaged record), the values of `HeapRecordStore`, the packing of routes and representatives into words, and a user's own `NodeStore`
or `RecordStore` that fails; two processes on one directory; callbacks that call the
store they are called by; benchmarks, tests and build files; the value types of
`status.h` and `options.h`, which have no behaviour.

Done, in the order of the plan: `KVStore`, `Store`, `Wal`, `StoreInv`,
`StoreProofs`, `KVCalls`, `StoreLocks`, `StoreLocksProofs`, `PatriciaKeys`,
`PatriciaPage`, `Patricia`, `PatriciaKeysProofs`, `DiskCheckpoint`, `HeapRecords`,
`PatriciaRecords`, `DiskCheckpointProofs`, `WalProofs`, `HeapRecordsProofs`, the
refinement in `StoreLocksProofs`, the store after a switch that fails half way,
`PatriciaTreeProofs`, `PatriciaPageProofs`. With them every safety property that a run
checks is proved, but for those of the index as a whole and of the records under it. What
is left:

1. The operators of `Patricia` over pages without recursion, as `PatriciaPage` has those
   over frames, and an induction over the depth of the index that joins the theorems
   about pages to `Spec => []PagesCanonical` and to what the reads answer.
2. `DiskCheckpoint` without `Ordered`: which of the guarantees remain when directory
   changes are reordered, and at which steps a `SyncDir` would restore the others.
