---------------------------- MODULE StoreLocks ----------------------------
(***************************************************************************)
(* Store::Impl shared by threads: every call under the one reader-writer   *)
(* lock, step by step, with the two copies of the content that have to     *)
(* agree, the log and the index.  Positions are what they lead to: an index*)
(* entry is the value of its record, and a position somebody still holds   *)
(* when a checkpoint or Close unmaps the records leads nowhere (Dangling). *)
(* The files are in module Store.                                          *)
(***************************************************************************)
EXTENDS Naturals, FiniteSets

CONSTANTS
  Thread, Key, Val, Missing,
  Ranges,        \* sets of keys that scans and seeks are asked for
  SyncModes,     \* the values of sync_on_close
  VerifyOnRead,  \* verify_index_on_read
  Faults,        \* calls that may fail: append, index, checkpoint, unmap
  NoOne, NoCall, NoAnswer, NoValue, Dangling, Changed

FaultNames == {"append", "index", "checkpoint", "unmap"}

ASSUME LocksAssumption ==
  /\ Key \subseteq Nat /\ IsFiniteSet(Key)
  /\ Ranges \subseteq SUBSET Key
  /\ SyncModes \subseteq BOOLEAN
  /\ VerifyOnRead \in BOOLEAN
  /\ Faults \subseteq FaultNames
  /\ NoOne \notin Thread
  /\ {Missing, NoValue, Dangling} \cap Val = {}
  /\ Missing # NoValue /\ Missing # Dangling /\ NoValue # Dangling

VARIABLES
  log,      \* the content that the records say
  index,    \* the content that index_ says
  open,     \* open_
  fatal,    \* fatal_ is set
  readers,  \* the threads in primary_mu_.RLock
  writer,   \* the thread in primary_mu_.Lock, or NoOne
  pc,       \* where thread t is in its call
  call,     \* the call itself
  held,     \* the position that Get or Delete has found
  seen,     \* the items given to a scan's callback
  answer    \* what the call will return

shared == <<log, index, open, fatal>>
locks == <<readers, writer>>
locals == <<pc, call, held, seen, answer>>
vars == <<shared, locks, locals>>

Content == [Key -> Val \cup {Missing}]

\* The content that calls see: that of the index, with the entry that a Delete has
\* taken out but not logged yet.
Served ==
  [k \in Key |->
     IF writer # NoOne /\ pc[writer] \in {"tombstone", "restore"} /\ call[writer].key = k
       THEN held[writer]
       ELSE index[k]]

\* A write has taken effect when log and index both have it, a Close when the store
\* is no longer open, although their answer may still turn into an error.
TookEffect(t) == answer[t] = NoAnswer /\ pc[t] \in {"ckpt", "release", "unmap"}

\* What the threads are promised, and what of it this is.  After Close only the log
\* is left, and after a fatal error the next Open may find either copy.
Promise == INSTANCE KVCalls WITH
  dict <- IF ~open THEN {log} ELSE IF fatal THEN {log, index} ELSE {Served},
  up <- open,
  broken <- fatal,
  answer <- [t \in Thread |-> IF TookEffect(t) THEN Changed ELSE answer[t]]

\* No call and no answer is taken for the absence of one.
ASSUME CallsAssumption ==
  /\ NoCall \notin Promise!Calls
  /\ {NoAnswer, Changed} \cap Promise!Answers = {}
  /\ NoAnswer # Changed

Reads == {"get", "len", "scan", "seek"}

UnderReadLock == {"look", "value", "count", "visit"}

UnderWriteLock == {"append", "apply", "find", "remove", "tombstone", "restore",
                   "ckpt", "shut", "release"}

Phases == UnderReadLock \cup UnderWriteLock
            \cup {"idle", "lock", "check", "unlock", "unmap", "return"}

\* Between two calls; also the state in which Open and New leave the store.
Init == /\ log \in Content
        /\ index = log
        /\ open = TRUE
        /\ fatal = FALSE
        /\ readers = {}
        /\ writer = NoOne
        /\ pc = [t \in Thread |-> "idle"]
        /\ call = [t \in Thread |-> NoCall]
        /\ held = [t \in Thread |-> NoValue]
        /\ seen = [t \in Thread |-> {}]
        /\ answer = [t \in Thread |-> NoAnswer]

-----------------------------------------------------------------------------
\* Thread t is at `from` of a call of one of the kinds.
At(t, from, kinds) == pc[t] = from /\ call[t].kind \in kinds

GoTo(t, to) == pc' = [pc EXCEPT ![t] = to]

Reply(t, status, items) ==
  answer' = [answer EXCEPT ![t] = [status |-> status, items |-> items]]

\* Leaves with an answer: the destructor of the lock is next.
Leave(t, status, items) == GoTo(t, "unlock") /\ Reply(t, status, items)

Invoke(t) == /\ pc[t] = "idle"
             /\ \E c \in Promise!Calls : call' = [call EXCEPT ![t] = c]
             /\ GoTo(t, "lock")
             /\ UNCHANGED <<shared, locks, held, seen, answer>>

RLock(t) == /\ At(t, "lock", Reads)
            /\ writer = NoOne
            /\ readers' = readers \cup {t}
            /\ GoTo(t, "check")
            /\ UNCHANGED <<shared, writer, call, held, seen, answer>>

\* Mutant: writers do not wait for readers.
LockOverReaders(t) == /\ At(t, "lock", {"put", "delete", "close"})
                      /\ writer = NoOne
                      /\ writer' = t
                      /\ GoTo(t, "check")
                      /\ UNCHANGED <<shared, readers, call, held, seen, answer>>

Lock(t) == /\ At(t, "lock", {"put", "delete", "close"})
           /\ writer = NoOne
           /\ readers = {}
           /\ writer' = t
           /\ GoTo(t, "check")
           /\ UNCHANGED <<shared, readers, call, held, seen, answer>>

FirstStep == [get |-> "look", len |-> "count", scan |-> "visit", seek |-> "visit",
              put |-> "append", delete |-> "find", close |-> "shut"]

\* CheckOpen; Close looks at open_ alone, and a second one has nothing to do.
Check(t) ==
  /\ pc[t] = "check"
  /\ LET close == call[t].kind = "close"
     IN \/ /\ ~open
           /\ Leave(t, IF close THEN "ok" ELSE "closed", {})
        \/ /\ open /\ fatal /\ ~close
           /\ Leave(t, "fatal", {})
        \/ /\ open /\ (close \/ ~fatal)
           /\ GoTo(t, FirstStep[call[t].kind])
           /\ UNCHANGED answer
  /\ UNCHANGED <<shared, locks, call, held, seen>>

-----------------------------------------------------------------------------
(* Reads. *)

\* Mutant: an absent key is not noticed.
FindAny(t, next) ==
  /\ held' = [held EXCEPT ![t] = index[call[t].key]]
  /\ GoTo(t, next)
  /\ UNCHANGED <<shared, locks, call, seen, answer>>

\* The position of the key, if it has one.
Find(t, next) ==
  LET k == call[t].key
  IN /\ \/ /\ index[k] = Missing
           /\ Leave(t, IF call[t].kind = "get" THEN "ok" ELSE "absent", {})
           /\ UNCHANGED held
        \/ /\ index[k] # Missing
           /\ held' = [held EXCEPT ![t] = index[k]]
           /\ GoTo(t, next)
           /\ UNCHANGED answer
     /\ UNCHANGED <<shared, locks, call, seen>>

\* Mutant: Get lets go of the lock before it reads the value.
LookThenUnlock(t) ==
  /\ At(t, "look", {"get"})
  /\ IF index[call[t].key] = Missing
       THEN Leave(t, "ok", {}) /\ UNCHANGED <<readers, held>>
       ELSE /\ held' = [held EXCEPT ![t] = index[call[t].key]]
            /\ GoTo(t, "value")
            /\ readers' = readers \ {t}
            /\ UNCHANGED answer
  /\ UNCHANGED <<shared, writer, call, seen>>

Look(t) == At(t, "look", {"get"}) /\ Find(t, "value")

\* VerifyReadPosition and OwnedValue, through the position found before.
Value(t) ==
  /\ At(t, "value", {"get"})
  /\ LET k == call[t].key
         mismatch == VerifyOnRead /\ index[k] # held[t]
     IN IF held[t] = Dangling \/ mismatch
          THEN Leave(t, "corrupt", {})
          ELSE Leave(t, "ok", {<<k, held[t]>>})
  /\ UNCHANGED <<shared, locks, call, held, seen>>

Len(t) == /\ At(t, "count", {"len"})
          /\ Leave(t, "ok", Promise!ItemsOf(index, Promise!Live(index, Key)))
          /\ UNCHANGED <<shared, locks, call, held, seen>>

\* The live keys of the range that the cursor of thread t has not passed.
Ahead(t) ==
  LET c == call[t]
  IN {k \in Promise!Live(index, c.keys) :
        \A item \in seen[t] : Promise!Precedes(c.forward, item[1], k)}

\* The next key, its item, and the callback, which may end a scan; that of a
\* seek always does.
Visit(t) ==
  /\ At(t, "visit", {"scan", "seek"})
  /\ \E k \in Ahead(t) :
       /\ \A other \in Ahead(t) \ {k} : Promise!Precedes(call[t].forward, k, other)
       /\ LET items == seen[t] \cup {<<k, index[k]>>}
          IN /\ seen' = [seen EXCEPT ![t] = items]
             /\ \/ Leave(t, "ok", items)
                \/ call[t].kind = "scan" /\ UNCHANGED <<pc, answer>>
  /\ UNCHANGED <<shared, locks, call, held>>

VisitEnds(t) == /\ At(t, "visit", {"scan", "seek"})
                /\ Ahead(t) = {}
                /\ Leave(t, "ok", seen[t])
                /\ UNCHANGED <<shared, locks, call, held, seen>>

-----------------------------------------------------------------------------
(* Writes. *)

MayFail(fault) == fault \in Faults

\* Whoever else holds a position into records that are gone.
OthersDangle(t) ==
  held' = [u \in Thread |-> IF u = t \/ held[u] = NoValue THEN held[u] ELSE Dangling]

Append(t) ==
  /\ At(t, "append", {"put"})
  /\ \/ /\ log' = [log EXCEPT ![call[t].key] = call[t].val]
        /\ GoTo(t, "apply")
        /\ UNCHANGED answer
     \/ /\ MayFail("append")
        /\ Leave(t, "failed", {})
        /\ UNCHANGED log
  /\ UNCHANGED <<index, open, fatal, locks, call, held, seen>>

\* Mutant: the error is returned, the store goes on.
IndexFailsOnce(t, after) ==
  /\ index' \in {index, after}
  /\ UNCHANGED fatal
  /\ Leave(t, "failed", {})

\* An index call that fails may have done its work or not.
IndexFails(t, after) ==
  /\ index' \in {index, after}
  /\ fatal' = TRUE
  /\ Leave(t, "fatal", {})

Apply(t) ==
  /\ At(t, "apply", {"put"})
  /\ LET after == [index EXCEPT ![call[t].key] = call[t].val]
     IN \/ index' = after /\ GoTo(t, "ckpt") /\ UNCHANGED <<fatal, answer>>
        \/ MayFail("index") /\ IndexFails(t, after)
  /\ UNCHANGED <<log, open, locks, call, held, seen>>

FindDeleted(t) == At(t, "find", {"delete"}) /\ Find(t, "remove")

\* The index first; another position than the one found is fatal as well.
Remove(t) ==
  /\ At(t, "remove", {"delete"})
  /\ LET k == call[t].key
         after == [index EXCEPT ![k] = Missing]
     IN \/ /\ index[k] = held[t]
           /\ index' = after
           /\ GoTo(t, "tombstone")
           /\ UNCHANGED <<fatal, answer>>
        \/ (MayFail("index") \/ index[k] # held[t]) /\ IndexFails(t, after)
  /\ UNCHANGED <<log, open, locks, call, held, seen>>

Tombstone(t) ==
  /\ At(t, "tombstone", {"delete"})
  /\ \/ log' = [log EXCEPT ![call[t].key] = Missing] /\ GoTo(t, "ckpt")
     \/ MayFail("append") /\ GoTo(t, "restore") /\ UNCHANGED log
  /\ UNCHANGED <<index, open, fatal, locks, call, held, seen, answer>>

\* Mutant: the record was refused and the error returned, but the key stays out.
RestoreNothing(t) == /\ At(t, "restore", {"delete"})
                     /\ Leave(t, "failed", {})
                     /\ UNCHANGED <<shared, locks, call, held, seen>>

\* Mutant: the Delete is tried again, for as long as it takes.
RestoreAndRetry(t) ==
  /\ At(t, "restore", {"delete"})
  /\ index' = [index EXCEPT ![call[t].key] = held[t]]
  /\ GoTo(t, "find")
  /\ UNCHANGED <<log, open, fatal, locks, call, held, seen, answer>>

\* The record was refused: the old position goes back.
Restore(t) ==
  /\ At(t, "restore", {"delete"})
  /\ LET after == [index EXCEPT ![call[t].key] = held[t]]
     IN \/ index' = after /\ Leave(t, "failed", {}) /\ UNCHANGED fatal
        \/ MayFail("index") /\ IndexFails(t, after)
  /\ UNCHANGED <<log, open, locks, call, held, seen>>

\* CheckpointIfNeededLocked: none is due, or it replaces the records by those the
\* index knows.  It may fail before that, or after it, when it cleans up.
CheckpointIfNeeded(t) ==
  /\ At(t, "ckpt", {"put", "delete"})
  /\ \/ Leave(t, "ok", {})
     \/ MayFail("checkpoint") /\ Leave(t, "failed", {})
  /\ \/ UNCHANGED <<log, held>>
     \/ log' = index /\ OthersDangle(t)
  /\ UNCHANGED <<index, open, fatal, locks, call, seen>>

-----------------------------------------------------------------------------
(* Close and the way out. *)

\* Under the lock: the last checkpoint, and the records and the index are taken
\* out of the store.
Shut(t) ==
  /\ At(t, "shut", {"close"})
  /\ open' = FALSE
  /\ index' = [k \in Key |-> Missing]
  /\ OthersDangle(t)
  /\ GoTo(t, "release")
  /\ \/ FALSE \in SyncModes /\ UNCHANGED <<log, answer>>
     \/ TRUE \in SyncModes /\ log' = index /\ UNCHANGED answer
     \/ /\ TRUE \in SyncModes /\ MayFail("checkpoint")
        /\ Reply(t, "failed", {})
        /\ log' \in {log, index}
  /\ UNCHANGED <<fatal, locks, call, seen>>

\* The destructors of ReadLock and WriteLock.
Unlock(t) ==
  /\ pc[t] \in {"unlock", "release"}
  /\ readers' = readers \ {t}
  /\ writer' = IF writer = t THEN NoOne ELSE writer
  /\ held' = [held EXCEPT ![t] = NoValue]
  /\ seen' = [seen EXCEPT ![t] = {}]
  /\ GoTo(t, IF pc[t] = "release" THEN "unmap" ELSE "return")
  /\ UNCHANGED <<shared, call, answer>>

\* SegmentedRecordStore::Close, when the lock is already free.
Unmap(t) ==
  /\ At(t, "unmap", {"close"})
  /\ GoTo(t, "return")
  /\ IF answer[t] # NoAnswer
       THEN UNCHANGED answer
       ELSE \/ Reply(t, "ok", {})
            \/ MayFail("unmap") /\ Reply(t, "failed", {})
  /\ UNCHANGED <<shared, locks, call, held, seen>>

Return(t) ==
  /\ pc[t] = "return"
  /\ GoTo(t, "idle")
  /\ call' = [call EXCEPT ![t] = NoCall]
  /\ answer' = [answer EXCEPT ![t] = NoAnswer]
  /\ UNCHANGED <<shared, locks, held, seen>>

-----------------------------------------------------------------------------
\* What a thread that has the lock, or has had it, goes on to do.
Step(t) ==
  \/ Check(t) \/ Look(t) \/ Value(t) \/ Len(t) \/ Visit(t) \/ VisitEnds(t)
  \/ Append(t) \/ Apply(t) \/ FindDeleted(t) \/ Remove(t) \/ Tombstone(t)
  \/ Restore(t) \/ CheckpointIfNeeded(t) \/ Shut(t) \/ Unlock(t) \/ Unmap(t)
  \/ Return(t)

Next == \E t \in Thread : Invoke(t) \/ RLock(t) \/ Lock(t) \/ Step(t)

Spec == Init /\ [][Next]_vars

\* A callback returns, and so does every system call.
Fairness == \A t \in Thread : WF_vars(Step(t))

FairSpec == Spec /\ Fairness

-----------------------------------------------------------------------------
(* Properties. *)

TypeOK ==
  /\ log \in Content /\ index \in Content
  /\ open \in BOOLEAN /\ fatal \in BOOLEAN
  /\ readers \subseteq Thread
  /\ writer \in Thread \cup {NoOne}
  /\ pc \in [Thread -> Phases]
  /\ call \in [Thread -> Promise!Calls \cup {NoCall}]
  /\ held \in [Thread -> Val \cup {NoValue, Dangling}]
  /\ seen \in [Thread -> SUBSET (Key \X Val)]
  /\ answer \in [Thread -> Promise!Answers \cup {NoAnswer}]

\* Get uses the position it found after looking it up, Delete after taking it out
\* of the index: nobody has unmapped its record or put another in its place.
PositionsResolve ==
  \A t \in Thread :
    /\ held[t] # Dangling
    /\ pc[t] \in {"value", "remove"} => held[t] = index[call[t].key]

\* docs/design/minweight_store.md:117: a store whose log and index have parted is
\* fatal, so no call is served from it.
DivergedIsFatal == open /\ writer = NoOne => fatal \/ index = log

\* Gets, scans, writes and Close of several threads behave as if each happened at
\* one moment between its start and its return.
ImplementsCalls == Promise!Spec

Holds(t) == t \in readers \/ t = writer

\* The destructor of the lock runs on every path out of a call, and what Close does
\* after it ends too.
HoldersReturn == \A t \in Thread : Holds(t) ~> ~Holds(t) /\ pc[t] = "idle"
=============================================================================
