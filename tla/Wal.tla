-------------------------------- MODULE Wal --------------------------------
(***************************************************************************)
(* SegmentedRecordStore over WalSegment files: the write-ahead log of one  *)
(* generation, and what Open makes of it after the death of the process,   *)
(* a crash of the machine or a damaged record.                             *)
(*                                                                         *)
(* A segment is a header page, which holds the `used` offset, and slots of *)
(* one record each.  Segments are mapped MAP_SHARED: a store to one is in  *)
(* the page cache at once and survives the process, but reaches the disk   *)
(* whenever the kernel chooses, page by page and in any order, unless      *)
(* Sync forces it.  So every page has a cached content and a set of        *)
(* contents the disk may hold; a crash of the machine picks from the set.  *)
(* Creating and unlinking a file is taken to be durable at once.           *)
(*                                                                         *)
(* A record is the number of the append that wrote it, so a record that is *)
(* lost, skipped or resurrected can be told from every other.              *)
(***************************************************************************)
EXTENDS Integers, Sequences, FiniteSets, SequencesExt

CONSTANTS
  MaxFile,      \* bound on segment files
  Capacity,     \* records that fit in a segment
  MaxWrites,    \* bound on appends
  MaxOsCrash,   \* bound on crashes of the machine
  MaxCorrupt,   \* bound on damaged records
  Policies,     \* the replay policies an Open may ask for
  Faults        \* what else may go wrong

File == 1..MaxFile
Slot == 1..Capacity

FaultNames == {"create", "unlink", "sync", "crash_in_drop", "torn_header"}

ASSUME WalAssumption ==
  /\ MaxFile \in Nat \ {0} /\ Capacity \in Nat \ {0}
  /\ {MaxWrites, MaxOsCrash, MaxCorrupt} \subseteq Nat
  /\ Policies \subseteq {"point_in_time", "strict"}
  /\ Faults \subseteq FaultNames

\* Contents of a slot: a record, bytes never written, or a record that does
\* not pass its checks (op, lengths, CRC).
Written == 1..MaxWrites
Blank   == 0
Torn    == MaxWrites + 1
Content == {Blank, Torn} \cup Written

\* Contents of a header page: the number of records below `used`, a page of
\* zero bytes, or a magic without its `used`.
Zeroed  == -1
Partial == -2
Header  == {Zeroed, Partial} \cup 0..Capacity

VARIABLES
  files,      \* the segment files of the generation's directory
  hdr,        \* hdr[f]: the cached header page
  hdrDisk,    \* hdrDisk[f]: the header pages the disk may hold
  slot,       \* slot[f][i]: the cached record
  slotDisk,   \* slotDisk[f][i]: the contents of its pages the disk may hold
  segs,       \* segments_
  active,     \* active_file_no_
  next,       \* next_file_no_
  dirty,      \* segments whose data_dirty_ is set: stored to by this process
  pc,         \* "closed", "replay", "drop" or "idle"
  policy,     \* options.wal_replay_policy of the Open in progress
  cursor,     \* next position to replay
  todo,       \* segments still to be dropped
  applied,    \* records replayed so far
  hist,       \* auxiliary: the records the log holds, as its users know it
  exposed,    \* auxiliary: what a recovery has met that it does not handle
  writes,     \* appends so far
  osCrashes, corruptions   \* what has gone wrong so far

pages  == <<hdr, hdrDisk, slot, slotDisk>>
memory == <<segs, active, next, dirty>>
replay == <<policy, cursor, todo, applied>>
counts == <<writes, osCrashes, corruptions>>
aux    == <<hist, exposed>>
vars   == <<files, pages, memory, pc, replay, aux, counts>>

Exposures == {"leftover", "stale", "sealed"}

Largest(S)  == CHOOSE x \in S : \A y \in S : y <= x
Smallest(S) == CHOOSE x \in S : \A y \in S : x <= y

Init ==
  /\ files = {}
  /\ hdr = [f \in File |-> Zeroed]
  /\ hdrDisk = [f \in File |-> {Zeroed}]
  /\ slot = [f \in File |-> [i \in Slot |-> Blank]]
  /\ slotDisk = [f \in File |-> [i \in Slot |-> {Blank}]]
  /\ segs = {} /\ active = 1 /\ next = 2 /\ dirty = {}
  /\ pc = "closed"
  /\ policy = "none"
  /\ cursor = <<1, 1>> /\ todo = {} /\ applied = <<>>
  /\ hist = <<>> /\ exposed = {}
  /\ writes = 0 /\ osCrashes = 0 /\ corruptions = 0

\* Stores into mapped pages: the disk may hold any of the contents since.
StoreHeader(f, h) ==
  /\ hdr' = [hdr EXCEPT ![f] = h]
  /\ hdrDisk' = [hdrDisk EXCEPT ![f] = @ \cup {h}]

StoreSlot(f, i, r) ==
  /\ slot' = [slot EXCEPT ![f][i] = r]
  /\ slotDisk' = [slotDisk EXCEPT ![f][i] = @ \cup {r}]

\* The memory of the process is gone.
Gone == /\ pc' = "closed"
        /\ segs' = {} /\ active' = 1 /\ next' = 2 /\ dirty' = {}
        /\ policy' = "none"
        /\ cursor' = <<1, 1>> /\ todo' = {} /\ applied' = <<>>

\* Mutant: every opened file gets a fresh header.
OpenedAfresh(S) == [f \in File |-> IF f \in S THEN 0 ELSE hdr[f]]

\* WalSegment::Open on the files in S: a page of zero bytes gets a header, one
\* with a header is loaded.
Opened(S) == [f \in File |-> IF f \in S /\ hdr[f] = Zeroed THEN 0 ELSE hdr[f]]

\* The segments among them that get a header.
Fresh(S) == {f \in S : hdr[f] = Zeroed}

OpenedDisk(S) ==
  [f \in File |-> IF f \in S THEN hdrDisk[f] \cup {Opened(S)[f]} ELSE hdrDisk[f]]

-----------------------------------------------------------------------------
(***************************************************************************)
(* Open and ReplayAll.                                                     *)
(***************************************************************************)
SegmentsToOpen == IF files = {} THEN {1} ELSE files

\* SegmentedRecordStore::Open maps every segment; the last one is active.
OpenSegments ==
  /\ pc = "closed"
  /\ \A f \in files : hdr[f] # Partial
  /\ files' = SegmentsToOpen
  /\ segs' = SegmentsToOpen
  /\ hdr' = Opened(SegmentsToOpen)
  /\ hdrDisk' = OpenedDisk(SegmentsToOpen)
  /\ active' = Largest(SegmentsToOpen)
  /\ next' = active' + 1
  /\ dirty' = Fresh(SegmentsToOpen)
  /\ policy' \in Policies
  /\ cursor' = <<Smallest(SegmentsToOpen), 1>>
  /\ pc' = "replay"
  /\ UNCHANGED <<slot, slotDisk, todo, applied, aux, counts>>

\* LoadHeader rejects a header: Open fails, and will fail again.
OpenRejected ==
  /\ pc = "closed"
  /\ \E f \in files : hdr[f] = Partial
  /\ UNCHANGED vars

InUse == cursor[2] <= hdr[cursor[1]]

RecordAtCursor == slot[cursor[1]][cursor[2]]

\* WalSegment::Replay applies the next record.
ReplayRecord ==
  /\ pc = "replay"
  /\ InUse
  /\ RecordAtCursor \in Written
  /\ applied' = Append(applied, RecordAtCursor)
  /\ cursor' = <<cursor[1], cursor[2] + 1>>
  /\ UNCHANGED <<files, pages, memory, pc, policy, todo, aux, counts>>

\* Mutant: the segment just replayed is taken for a later one.
SameOrLaterSegments == {f \in segs : cursor[1] <= f}

\* Segments after the one being replayed.
LaterSegments == {f \in segs : cursor[1] < f}

ReplayNextSegment ==
  /\ pc = "replay"
  /\ ~InUse
  /\ LaterSegments # {}
  /\ cursor' = <<Smallest(LaterSegments), 1>>
  /\ UNCHANGED <<files, pages, memory, pc, policy, todo, applied, aux, counts>>

\* Mutant: the segment keeps its `used` offset.
KeepUsed(f, n) == UNCHANGED <<hdr, hdrDisk, dirty>>

\* Truncate segment f to its first n records.
Truncate(f, n) == StoreHeader(f, n) /\ dirty' = dirty \cup {f}

\* Mutant: the bad record is passed over.
SkipBadRecord ==
  /\ cursor' = <<cursor[1], cursor[2] + 1>>
  /\ UNCHANGED <<hdr, hdrDisk, memory, pc, policy, todo, applied>>

\* kPointInTime: the segment ends here, and every later one is dropped.
TruncateAndDrop ==
  /\ Truncate(cursor[1], cursor[2] - 1)
  /\ pc' = "drop"
  /\ todo' = LaterSegments
  /\ UNCHANGED <<segs, active, next, policy, cursor, applied>>

\* Mutant: the policy is not looked at.
NeverRefuses == FALSE

\* kStrict: Open fails.
Refuses == policy = "strict"

\* The next record fails its checks.
ReplayBadRecord ==
  /\ pc = "replay"
  /\ InUse
  /\ RecordAtCursor \notin Written
  /\ IF Refuses THEN Gone /\ UNCHANGED <<hdr, hdrDisk>> ELSE TruncateAndDrop
  /\ UNCHANGED <<files, slot, slotDisk, aux, counts>>

\* The log is open; its users see the records that were applied.
Serve == /\ pc' = "idle"
         /\ hist' = applied
         /\ policy' = "none"
         /\ cursor' = <<1, 1>> /\ applied' = <<>>
         /\ UNCHANGED exposed

ReplayDone ==
  /\ pc = "replay"
  /\ ~InUse
  /\ LaterSegments = {}
  /\ Serve
  /\ UNCHANGED <<files, pages, memory, todo, counts>>

\* Unlink the next segment after the truncated one ...
DropSegment ==
  /\ pc = "drop"
  /\ todo # {}
  /\ LET f == Smallest(todo)
     IN /\ files' = files \ {f}
        /\ hdr' = [hdr EXCEPT ![f] = Zeroed]
        /\ hdrDisk' = [hdrDisk EXCEPT ![f] = {Zeroed}]
        /\ slot' = [slot EXCEPT ![f] = [i \in Slot |-> Blank]]
        /\ slotDisk' = [slotDisk EXCEPT ![f] = [i \in Slot |-> {Blank}]]
        /\ segs' = segs \ {f}
        /\ dirty' = dirty \ {f}
        /\ todo' = todo \ {f}
  /\ UNCHANGED <<active, next, pc, policy, cursor, applied, aux, counts>>

\* ... and when the unlink fails nobody notices.
DropFails ==
  /\ "unlink" \in Faults
  /\ pc = "drop"
  /\ todo # {}
  /\ segs' = segs \ {Smallest(todo)}
  /\ dirty' = dirty \ {Smallest(todo)}
  /\ todo' = todo \ {Smallest(todo)}
  /\ exposed' = exposed \cup {"leftover"}
  /\ UNCHANGED <<files, pages, active, next, pc, policy, cursor, applied,
                 hist, counts>>

\* The truncated segment is the active one again.
DropDone ==
  /\ pc = "drop"
  /\ todo = {}
  /\ active' = cursor[1]
  /\ next' = cursor[1] + 1
  /\ Serve
  /\ UNCHANGED <<files, pages, segs, dirty, todo, counts>>

-----------------------------------------------------------------------------
(***************************************************************************)
(* Append, Rollover and Close.                                             *)
(***************************************************************************)

\* Mutant: one record too many.
HasRoomOffByOne == hdr[active] <= Capacity

HasRoom == hdr[active] < Capacity

\* WalSegment::Append: the record, then the `used` offset.
AppendRecord ==
  /\ pc = "idle"
  /\ HasRoom
  /\ writes < MaxWrites
  /\ StoreSlot(active, hdr[active] + 1, writes + 1)
  /\ StoreHeader(active, hdr[active] + 1)
  /\ hist' = Append(hist, writes + 1)
  /\ writes' = writes + 1
  /\ dirty' = dirty \cup {active}
  /\ UNCHANGED <<files, segs, active, next, pc, replay, exposed, osCrashes,
                 corruptions>>

\* A full segment is sealed, not synced, and the next file is opened, as it is
\* if there is one of that name.
NeedsRollover == /\ pc = "idle"
                 /\ hdr[active] = Capacity
                 /\ next \in File

Rollover ==
  /\ NeedsRollover
  /\ hdr[next] # Partial
  /\ files' = files \cup {next}
  /\ segs' = segs \cup {next}
  /\ hdr' = Opened({next})
  /\ hdrDisk' = OpenedDisk({next})
  /\ active' = next
  /\ next' = next + 1
  /\ dirty' = dirty \cup Fresh({next})
  /\ UNCHANGED <<slot, slotDisk, pc, replay, aux, counts>>

\* Mutant: next_file_no_ is not taken back.
RolloverFailsAndCounts ==
  /\ "create" \in Faults
  /\ NeedsRollover
  /\ files' = files \cup {next}
  /\ next' = next + 1
  /\ UNCHANGED <<pages, segs, active, dirty, pc, replay, aux, counts>>

\* Opening the next file fails after creating it; the old one is unsealed.
RolloverFails ==
  /\ "create" \in Faults
  /\ NeedsRollover
  /\ files' = files \cup {next}
  /\ UNCHANGED <<pages, memory, pc, replay, aux, counts>>

\* The disk holds what the cache holds, for the segments in S.
Synced(S) ==
  /\ hdrDisk' = [f \in File |-> IF f \in S THEN {hdr[f]} ELSE hdrDisk[f]]
  /\ slotDisk' = [f \in File |-> IF f \in S THEN [i \in Slot |-> {slot[f][i]}]
                                            ELSE slotDisk[f]]

\* Close, without sync or with it: then every segment this process has stored to
\* is synced, or those whose msync succeeds.  What an earlier process stored and
\* nobody synced stays as it is.
Close ==
  /\ pc = "idle"
  /\ \/ UNCHANGED <<hdrDisk, slotDisk>>
     \/ Synced(dirty)
     \/ "sync" \in Faults /\ \E S \in SUBSET dirty : Synced(S)
  /\ Gone
  /\ UNCHANGED <<files, hdr, slot, aux, counts>>

-----------------------------------------------------------------------------
(***************************************************************************)
(* What may go wrong.                                                      *)
(***************************************************************************)

\* Segments that were to be dropped stay when a recovery dies among them.
LeftBehind == IF pc = "drop" /\ todo # {} THEN {"leftover"} ELSE {}

\* The process dies.  "crash_in_drop" lets it die between truncating a segment
\* and dropping the later ones.
Crash ==
  /\ pc # "closed"
  /\ pc = "drop" => todo = {} \/ "crash_in_drop" \in Faults
  /\ exposed' = exposed \cup LeftBehind
  /\ Gone
  /\ UNCHANGED <<files, pages, hist, counts>>

\* The process dies inside InitHeader of a segment it has just created.
CrashInInitHeader ==
  /\ "torn_header" \in Faults
  /\ NeedsRollover
  /\ hdr[next] = Zeroed
  /\ files' = files \cup {next}
  /\ StoreHeader(next, Partial)
  /\ Gone
  /\ UNCHANGED <<slot, slotDisk, aux, counts>>

\* What the disk may show of a slot: a record over several pages may be torn.
OnDisk(f, i) ==
  IF slotDisk[f][i] = {slot[f][i]} THEN slotDisk[f][i]
                                   ELSE slotDisk[f][i] \cup {Torn}

SlotsOnDisk(f) == {s \in [Slot -> Content] : \A i \in Slot : s[i] \in OnDisk(f, i)}

\* A crash that leaves headers h and slots s shows a record below `used` that
\* the log had given up: truncated, and not yet or no longer written over.
ShowsStale(h, s) ==
  \E f \in File : \E i \in 1..h[f] :
    s[f][i] \in Written /\ (hdr[f] < i \/ s[f][i] # slot[f][i])

\* It loses a part of a segment that was sealed, and keeps the next one.
LosesSealed(h, s) ==
  \E f, g \in files :
    f < g /\ (h[f] # hdr[f] \/ \E i \in 1..hdr[f] : s[f][i] # slot[f][i])

\* The machine crashes, after the process died or with it, and the cache is read
\* again from the disk.
OsCrash ==
  /\ pc = "closed"
  /\ osCrashes < MaxOsCrash
  /\ osCrashes' = osCrashes + 1
  /\ LET slots == {s \in [File -> UNION {SlotsOnDisk(f) : f \in File}] :
                      \A f \in File : s[f] \in SlotsOnDisk(f)}
         headers == {h \in [File -> Header] : \A f \in File : h[f] \in hdrDisk[f]}
     IN slot' \in slots /\ hdr' \in headers
  /\ hdrDisk' = [f \in File |-> {hdr'[f]}]
  /\ slotDisk' = [f \in File |-> [i \in Slot |-> {slot'[f][i]}]]
  /\ exposed' = exposed
                  \cup {e \in {"stale"} : ShowsStale(hdr', slot')}
                  \cup {e \in {"sealed"} : LosesSealed(hdr', slot')}
  /\ UNCHANGED <<files, memory, pc, replay, hist, writes, corruptions>>

\* A record of a closed log is damaged on the disk.
Corrupt ==
  /\ corruptions < MaxCorrupt
  /\ pc = "closed"
  /\ \E f \in files : \E i \in 1..hdr[f] :
       /\ slot' = [slot EXCEPT ![f][i] = Torn]
       /\ slotDisk' = [slotDisk EXCEPT ![f][i] = {Torn}]
  /\ corruptions' = corruptions + 1
  /\ UNCHANGED <<files, hdr, hdrDisk, memory, pc, replay, aux, writes, osCrashes>>

-----------------------------------------------------------------------------
RecoveryStep == \/ OpenSegments \/ OpenRejected
                \/ ReplayRecord \/ ReplayNextSegment \/ ReplayBadRecord
                \/ ReplayDone
                \/ DropSegment \/ DropFails \/ DropDone

Next == \/ RecoveryStep
        \/ AppendRecord \/ Rollover \/ RolloverFails \/ Close
        \/ Crash \/ CrashInInitHeader \/ OsCrash \/ Corrupt

Spec == Init /\ [][Next]_vars

\* Open, once called, runs to its end.
FairSpec == Spec /\ WF_vars(RecoveryStep)

-----------------------------------------------------------------------------
(***************************************************************************)
(* Properties.                                                             *)
(***************************************************************************)

\* Every variable has its type.
TypeOK ==
  /\ files \subseteq File /\ segs \subseteq File /\ dirty \subseteq segs
  /\ hdr \in [File -> Header]
  /\ hdrDisk \in [File -> SUBSET Header]
  /\ slot \in [File -> [Slot -> Content]]
  /\ slotDisk \in [File -> [Slot -> SUBSET Content]]
  /\ active \in File /\ next \in 2..MaxFile + 1
  /\ pc \in {"closed", "replay", "drop", "idle"}
  /\ policy \in Policies \cup {"none"}
  /\ cursor \in File \X (1..Capacity + 1)
  /\ todo \subseteq File
  /\ applied \in Seq(Written) /\ hist \in Seq(Written)
  /\ exposed \subseteq Exposures
  /\ writes \in 0..MaxWrites
  /\ osCrashes \in 0..MaxOsCrash /\ corruptions \in 0..MaxCorrupt

\* Recovery keeps a contiguous prefix of the writes: it may lose a suffix, and
\* it never applies a record that follows one it lost or that an earlier
\* recovery dropped.
RecoversPrefix ==
  [][IsPrefix(hist', hist) \/ (pc = "idle" /\ hist' = Append(hist, writes'))]_vars

\* The same as long as none of the three weak points is met: a drop that does
\* not finish, a record that was given up and comes back, a sealed segment that
\* was never synced.  There is no fourth.
RecoversPrefixUnlessExposed ==
  [][\/ IsPrefix(hist', hist)
     \/ pc = "idle" /\ hist' = Append(hist, writes')
     \/ exposed # {}]_vars

\* Without damage and without a crash of the machine nothing is lost, however
\* often the process dies and whatever it was doing.
ProcessCrashLosesNothing ==
  [][(corruptions = 0 /\ osCrashes = 0) =>
       \/ hist' = hist
       \/ pc = "idle" /\ hist' = Append(hist, writes')]_vars

\* The positions of the records of the segments in S, and those among positions
\* P that are not behind p, in file and offset order.
Positions(S) == {p \in S \X Slot : p[2] <= hdr[p[1]]}

UpTo(p, P) == {q \in P : q[1] < p[1] \/ (q[1] = p[1] /\ q[2] <= p[2])}

\* s has one record for each position in P, the n-th for the n-th of them, which
\* is the one with n positions up to it.
Spells(s, P, content) ==
  /\ Len(s) = Cardinality(P)
  /\ \A p \in P : s[Cardinality(UpTo(p, P))] = content[p[1]][p[2]]

\* An open log stores exactly the records its users see, in the order of their
\* positions: what the next replay applies is what was applied and appended.
StoredIsHistory ==
  (pc = "idle" /\ "leftover" \notin exposed) => Spells(hist, Positions(segs), slot)

\* Between a recovery and the next one the files of the directory are the
\* mapped segments, but for one whose opening failed: no dropped segment is
\* left that Rollover could open again or that the next Open would replay.
NoStaleSegment ==
  (pc = "idle" /\ "leftover" \notin exposed) =>
     \A f \in files \ segs : f = next /\ hdr[f] = Zeroed

\* Under kStrict a log that opens has lost nothing: Open answers a bad record
\* with an error and leaves every segment as it is.
StrictNeverTruncates ==
  [][(policy = "strict" /\ osCrashes' = osCrashes) =>
       \A f \in File : hdr'[f] = hdr[f]]_vars

\* Replay and the dropping of segments come to an end.
RecoveryEnds ==
  \A p \in {"replay", "drop"} : (pc = p) ~> (pc \in {"idle", "closed"})
=============================================================================
