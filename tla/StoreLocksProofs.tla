------------------------- MODULE StoreLocksProofs -------------------------
(***************************************************************************)
(* What holds of a store shared by any number of threads, for any keys,    *)
(* values and failures: who is where while the lock is taken, which        *)
(* positions resolve, and how log and index differ in the middle of a call.*)
(***************************************************************************)
EXTENDS StoreLocks, TLAPS

Writes == {"put", "delete", "close"}

\* A thread past Invoke has a call, of a kind that comes to where it is.
CallsOK ==
  \A t \in Thread :
    /\ pc[t] # "idle" => call[t] \in Promise!Calls
    /\ pc[t] \in {"look", "value"} => call[t].kind = "get"
    /\ pc[t] = "count" => call[t].kind = "len"
    /\ pc[t] = "visit" => call[t].kind \in {"scan", "seek"}
    /\ pc[t] \in {"append", "apply"} => call[t].kind = "put"
    /\ pc[t] \in {"find", "remove", "tombstone", "restore"} => call[t].kind = "delete"
    /\ pc[t] = "ckpt" => call[t].kind \in {"put", "delete"}
    /\ pc[t] \in {"shut", "release", "unmap"} => call[t].kind = "close"

InLock == {"check", "unlock"} \cup UnderReadLock \cup UnderWriteLock

\* The lock is held by exactly the threads that are between Lock and Unlock.
LockOK ==
  /\ writer # NoOne => readers = {}
  /\ \A t \in Thread :
       /\ t \in readers <=> pc[t] \in InLock /\ call[t].kind \in Reads
       /\ t = writer <=> pc[t] \in InLock /\ call[t].kind \in Writes

\* CheckOpen has let a call pass, and nothing has gone wrong since.
ServedOK ==
  \A t \in Thread :
    /\ pc[t] \in UnderReadLock \cup (UnderWriteLock \ {"shut", "release"}) => open /\ ~fatal
    /\ pc[t] = "shut" => open
    /\ pc[t] = "release" => ~open

\* A position is held under the lock only, and its key still leads to it.
HeldOK ==
  \A t \in Thread :
    /\ held[t] # Dangling
    /\ held[t] # NoValue => pc[t] \in InLock
    /\ pc[t] \in {"value", "remove", "tombstone", "restore"} => held[t] \in Val
    /\ pc[t] \in {"value", "remove"} => held[t] = index[call[t].key]

\* What the log has and the index has not, or has no longer.
Unlogged ==
  \A t \in Thread :
    /\ pc[t] = "apply" => log = [index EXCEPT ![call[t].key] = call[t].val]
    /\ pc[t] \in {"tombstone", "restore"} =>
         index[call[t].key] = Missing /\ log = [index EXCEPT ![call[t].key] = held[t]]

AgreeOK ==
  open /\ ~fatal =>
    \/ index = log
    \/ \E t \in Thread : pc[t] \in {"apply", "tombstone", "restore"}

LockInv == TypeOK /\ CallsOK /\ LockOK /\ ServedOK /\ HeldOK /\ Unlogged /\ AgreeOK

-----------------------------------------------------------------------------
\* The arguments of a call, by its kind.
LEMMA CallFacts ==
  ASSUME NEW c \in Promise!Calls
  PROVE  /\ c.kind \in Reads \cup Writes
         /\ c.kind \in {"get", "put", "delete"} => c.key \in Key
         /\ c.kind = "put" => c.val \in Val
         /\ c.kind \in {"scan", "seek"} => c.keys \in Ranges
BY DEF Promise!Calls, Reads, Writes

\* Nobody else is past Lock while a writer is.
LEMMA Exclusive ==
  ASSUME TypeOK, CallsOK, LockOK, NEW t \in Thread, t = writer,
         NEW u \in Thread, u # t
  PROVE  pc[u] \notin InLock
<1>1. SUFFICES ASSUME pc[u] \in InLock PROVE FALSE
  OBVIOUS
<1>2. pc[u] # "idle"
  BY <1>1 DEF InLock, UnderReadLock, UnderWriteLock
<1>3. call[u].kind \in Reads \cup Writes
  BY <1>2, CallFacts DEF CallsOK
<1>4. u \in readers
  BY <1>1, <1>3 DEF LockOK
<1>5. writer # NoOne
  BY LocksAssumption
<1> QED
  BY <1>4, <1>5 DEF LockOK

\* A thread at one of its own steps under the lock, and what it holds.
LEMMA InWriteLock ==
  ASSUME TypeOK, CallsOK, LockOK, NEW t \in Thread, pc[t] \in UnderWriteLock
  PROVE  t = writer
<1>1. call[t].kind \in Writes
  BY DEF CallsOK, UnderWriteLock, Writes
<1> QED
  BY <1>1 DEF LockOK, InLock

\* Going on and answering keep the types.
LEMMA Typed ==
  ASSUME TypeOK, NEW t \in Thread
  PROVE  /\ \A p \in Phases : GoTo(t, p) => pc' \in [Thread -> Phases]
         /\ \A status \in Promise!Statuses, items \in SUBSET (Key \X Val) :
              Reply(t, status, items) =>
                answer' \in [Thread -> Promise!Answers \cup {NoAnswer}]
<1>1. ASSUME NEW p \in Phases, GoTo(t, p) PROVE pc' \in [Thread -> Phases]
  BY <1>1 DEF TypeOK, GoTo
<1>2. ASSUME NEW status \in Promise!Statuses, NEW items \in SUBSET (Key \X Val),
             Reply(t, status, items)
      PROVE  answer' \in [Thread -> Promise!Answers \cup {NoAnswer}]
  <2>1. [status |-> status, items |-> items] \in Promise!Answers
    BY DEF Promise!Answers
  <2> QED
    BY <1>2, <2>1 DEF TypeOK, Reply
<1> QED
  BY <1>1, <1>2

\* The index after a change of one key is still an index.
LEMMA IndexTyped ==
  ASSUME TypeOK, NEW k \in Key, NEW v \in Val \cup {Missing}
  PROVE  [index EXCEPT ![k] = v] \in Content
BY DEF TypeOK, Content

\* Every action keeps the types.
LEMMA TypeNext ==
  ASSUME LockInv, [Next]_vars
  PROVE  TypeOK'
<1> USE DEF LockInv
<1> DEFINE Items == SUBSET (Key \X Val)
<1>0. /\ {} \in Items
      /\ {"ok", "absent", "closed", "fatal", "failed"} = Promise!Statuses
  BY DEF Promise!Statuses
<1>1. ASSUME NEW t \in Thread, Invoke(t) \/ RLock(t) \/ Lock(t) PROVE TypeOK'
  <2>1. "lock" \in Phases /\ "check" \in Phases
    BY DEF Phases
  <2> QED
    BY <1>1, <2>1, Typed DEF Invoke, RLock, Lock, TypeOK, shared, locks
<1>2. ASSUME NEW t \in Thread, Check(t) PROVE TypeOK'
  <2>1. "unlock" \in Phases /\ FirstStep[call[t].kind] \in Phases
    <3>1. call[t].kind \in Reads \cup Writes
      BY <1>2, CallFacts DEF Check, CallsOK
    <3> QED
      BY <3>1 DEF FirstStep, Phases, UnderReadLock, UnderWriteLock, Reads, Writes
  <2>2. /\ pc' \in [Thread -> Phases]
        /\ answer' \in [Thread -> Promise!Answers \cup {NoAnswer}]
    BY <1>0, <1>2, <2>1, Typed DEF Check, Leave, TypeOK
  <2> QED
    BY <1>2, <2>2 DEF Check, TypeOK, shared, locks
<1>3. ASSUME NEW t \in Thread, Look(t) \/ FindDeleted(t) PROVE TypeOK'
  <2>1. {"unlock", "value", "remove"} \subseteq Phases
    BY DEF Phases, UnderReadLock, UnderWriteLock
  <2>2. /\ pc' \in [Thread -> Phases]
        /\ answer' \in [Thread -> Promise!Answers \cup {NoAnswer}]
    BY <1>0, <1>3, <2>1, Typed DEF Look, FindDeleted, Find, Leave, TypeOK
  <2>3. call[t].key \in Key
    BY <1>3, CallFacts DEF Look, FindDeleted, At, CallsOK
  <2>4. held' \in [Thread -> Val \cup {NoValue, Dangling}]
    BY <1>3, <2>3 DEF Look, FindDeleted, Find, TypeOK, Content
  <2> QED
    BY <1>3, <2>2, <2>4 DEF Look, FindDeleted, Find, TypeOK, shared, locks
<1>4. ASSUME NEW t \in Thread, Value(t) PROVE TypeOK'
  <2>1. call[t].key \in Key /\ held[t] \in Val /\ held[t] = index[call[t].key]
    BY <1>4, CallFacts DEF Value, At, CallsOK, HeldOK
  <2>2. Leave(t, "ok", {<<call[t].key, held[t]>>})
    BY <1>4, <2>1 DEF Value, HeldOK
  <2>3. /\ pc' \in [Thread -> Phases]
        /\ answer' \in [Thread -> Promise!Answers \cup {NoAnswer}]
    <3>1. "unlock" \in Phases /\ {<<call[t].key, held[t]>>} \in Items
      BY <2>1 DEF Phases
    <3> QED
      BY <1>0, <2>2, <3>1, Typed DEF Leave
  <2> QED
    BY <1>4, <2>3 DEF Value, TypeOK, shared, locks
<1>5. ASSUME NEW t \in Thread, Len(t) PROVE TypeOK'
  <2>1. Promise!ItemsOf(index, Promise!Live(index, Key)) \in Items
    BY DEF Promise!ItemsOf, Promise!Live, TypeOK, Content
  <2>2. /\ pc' \in [Thread -> Phases]
        /\ answer' \in [Thread -> Promise!Answers \cup {NoAnswer}]
    BY <1>0, <1>5, <2>1, Typed DEF Len, Leave, Phases
  <2> QED
    BY <1>5, <2>2 DEF Len, TypeOK, shared, locks
<1>6. ASSUME NEW t \in Thread, Visit(t) \/ VisitEnds(t) PROVE TypeOK'
  <2>1. Ahead(t) \subseteq {k \in Key : index[k] # Missing}
    <3>1. call[t].keys \subseteq Key
      BY <1>6, CallFacts, LocksAssumption DEF Visit, VisitEnds, At, CallsOK
    <3> QED
      BY <3>1 DEF Ahead, Promise!Live
  <2>2. \A k \in Ahead(t) : seen[t] \cup {<<k, index[k]>>} \in Items
    BY <2>1 DEF TypeOK, Content
  <2>3. seen[t] \in Items
    BY DEF TypeOK
  <2>4. seen' \in [Thread -> Items]
    <3>1. CASE Visit(t)
      <4>1. PICK k \in Ahead(t) : seen' = [seen EXCEPT ![t] = seen[t] \cup {<<k, index[k]>>}]
        BY <3>1 DEF Visit
      <4>2. seen[t] \cup {<<k, index[k]>>} \in Items
        BY <2>2
      <4> HIDE DEF Items
      <4>3. seen \in [Thread -> Items]
        BY DEF TypeOK, Items
      <4> QED
        BY <4>1, <4>2, <4>3
    <3>2. CASE VisitEnds(t)
      BY <3>2 DEF VisitEnds, TypeOK
    <3> QED
      BY <1>6, <3>1, <3>2
  <2>5. /\ pc' \in [Thread -> Phases]
        /\ answer' \in [Thread -> Promise!Answers \cup {NoAnswer}]
    <3>1. CASE Visit(t)
      BY <1>0, <2>2, <3>1, Typed DEF Visit, Leave, Phases, TypeOK
    <3>2. CASE VisitEnds(t)
      BY <1>0, <2>3, <3>2, Typed DEF VisitEnds, Leave, Phases
    <3> QED
      BY <1>6, <3>1, <3>2
  <2> QED
    BY <1>6, <2>4, <2>5 DEF Visit, VisitEnds, TypeOK, shared, locks
<1>7. ASSUME NEW t \in Thread, Append(t) \/ Tombstone(t) PROVE TypeOK'
  <2>1. {"unlock", "apply", "ckpt", "restore"} \subseteq Phases
    BY DEF Phases, UnderReadLock, UnderWriteLock
  <2>2. /\ pc' \in [Thread -> Phases]
        /\ answer' \in [Thread -> Promise!Answers \cup {NoAnswer}]
    BY <1>0, <1>7, <2>1, Typed DEF Append, Tombstone, Leave, TypeOK
  <2>3. call[t].key \in Key /\ (Append(t) => call[t].val \in Val)
    BY <1>7, CallFacts DEF Append, Tombstone, At, CallsOK
  <2>4. log' \in Content
    <3>1. CASE Append(t)
      BY <3>1, <2>3 DEF Append, TypeOK, Content
    <3>2. CASE Tombstone(t)
      BY <3>2, <2>3 DEF Tombstone, TypeOK, Content
    <3> QED
      BY <1>7, <3>1, <3>2
  <2> QED
    BY <1>7, <2>2, <2>4 DEF Append, Tombstone, TypeOK, locks
<1>8. ASSUME NEW t \in Thread, Apply(t) \/ Remove(t) \/ Restore(t) PROVE TypeOK'
  <2>1. {"unlock", "ckpt", "tombstone"} \subseteq Phases
    BY DEF Phases, UnderReadLock, UnderWriteLock
  <2>2. /\ pc' \in [Thread -> Phases]
        /\ answer' \in [Thread -> Promise!Answers \cup {NoAnswer}]
    BY <1>0, <1>8, <2>1, Typed DEF Apply, Remove, Restore, IndexFails, Leave, TypeOK
  <2>3. /\ call[t].key \in Key
        /\ Apply(t) => call[t].val \in Val
        /\ Restore(t) => held[t] \in Val
    BY <1>8, CallFacts DEF Apply, Remove, Restore, At, CallsOK, HeldOK
  <2>4. index' \in Content /\ fatal' \in BOOLEAN
    <3>1. CASE Apply(t)
      <4>1. [index EXCEPT ![call[t].key] = call[t].val] \in Content
        BY <3>1, <2>3, IndexTyped
      <4> QED
        BY <3>1, <4>1 DEF Apply, IndexFails, TypeOK
    <3>2. CASE Remove(t)
      <4>1. [index EXCEPT ![call[t].key] = Missing] \in Content
        BY <3>2, <2>3, IndexTyped
      <4> QED
        BY <3>2, <4>1 DEF Remove, IndexFails, TypeOK
    <3>3. CASE Restore(t)
      <4>1. [index EXCEPT ![call[t].key] = held[t]] \in Content
        BY <3>3, <2>3, IndexTyped
      <4> QED
        BY <3>3, <4>1 DEF Restore, IndexFails, TypeOK
    <3> QED
      BY <1>8, <3>1, <3>2, <3>3
  <2> QED
    BY <1>8, <2>2, <2>4 DEF Apply, Remove, Restore, TypeOK, locks
<1>9. ASSUME NEW t \in Thread, CheckpointIfNeeded(t) \/ Shut(t) PROVE TypeOK'
  <2>1. {"unlock", "release"} \subseteq Phases
    BY DEF Phases, UnderWriteLock
  <2>2. /\ pc' \in [Thread -> Phases]
        /\ answer' \in [Thread -> Promise!Answers \cup {NoAnswer}]
    BY <1>0, <1>9, <2>1, Typed DEF CheckpointIfNeeded, Shut, Leave, TypeOK
  <2>3. held' \in [Thread -> Val \cup {NoValue, Dangling}]
    BY <1>9 DEF CheckpointIfNeeded, Shut, OthersDangle, TypeOK
  <2>4. log' \in Content /\ index' \in Content
    BY <1>9 DEF CheckpointIfNeeded, Shut, TypeOK, Content
  <2> QED
    BY <1>9, <2>2, <2>3, <2>4 DEF CheckpointIfNeeded, Shut, TypeOK, locks
<1>10. ASSUME NEW t \in Thread, Unlock(t) \/ Unmap(t) \/ Return(t) PROVE TypeOK'
  <2>1. {"unmap", "return", "idle"} \subseteq Phases
    BY DEF Phases
  <2>2. /\ pc' \in [Thread -> Phases]
        /\ answer' \in [Thread -> Promise!Answers \cup {NoAnswer}]
    BY <1>0, <1>10, <2>1, Typed DEF Unlock, Unmap, Return, TypeOK
  <2> QED
    BY <1>10, <2>2 DEF Unlock, Unmap, Return, TypeOK, shared, locks
<1>11. CASE UNCHANGED vars
  BY <1>11 DEF TypeOK, vars, shared, locks, locals
<1> QED
  BY <1>1, <1>2, <1>3, <1>4, <1>5, <1>6, <1>7, <1>8, <1>9, <1>10, <1>11 DEF Next, Step

\* Calls stay where their kind belongs.
LEMMA CallsNext ==
  ASSUME LockInv, [Next]_vars
  PROVE  CallsOK'
<1> USE DEF LockInv
<1>1. ASSUME NEW t \in Thread, Invoke(t) PROVE CallsOK'
  BY <1>1 DEF Invoke, CallsOK, GoTo, TypeOK, shared, locks
<1>2. ASSUME NEW t \in Thread, RLock(t) \/ Lock(t) PROVE CallsOK'
  BY <1>2 DEF RLock, Lock, CallsOK, At, GoTo, TypeOK, shared
<1>3. ASSUME NEW t \in Thread, Check(t) PROVE CallsOK'
  <2>1. /\ call[t] \in Promise!Calls
        /\ call[t].kind \in Reads \cup Writes
    BY <1>3, CallFacts DEF Check, CallsOK
  <2>2. /\ pc'[t] \in {"unlock", FirstStep[call[t].kind]}
        /\ \A u \in Thread \ {t} : pc'[u] = pc[u]
    BY <1>3 DEF Check, Leave, GoTo, TypeOK
  <2>3. call' = call
    BY <1>3 DEF Check
  <2> QED
    BY <2>1, <2>2, <2>3 DEF CallsOK, FirstStep, Reads, Writes
<1>4. ASSUME NEW t \in Thread, Look(t) \/ FindDeleted(t) PROVE CallsOK'
  BY <1>4 DEF Look, FindDeleted, CallsOK, At, GoTo, Reply, Leave, TypeOK, shared,
       locks, Find
<1>5. ASSUME NEW t \in Thread, Value(t) \/ Len(t) PROVE CallsOK'
  BY <1>5 DEF Value, Len, CallsOK, At, GoTo, Reply, Leave, TypeOK, shared, locks
<1>6. ASSUME NEW t \in Thread, Visit(t) \/ VisitEnds(t) PROVE CallsOK'
  BY <1>6 DEF Visit, VisitEnds, CallsOK, At, GoTo, Reply, Leave, TypeOK, shared, locks
<1>7. ASSUME NEW t \in Thread, Append(t) \/ Tombstone(t) PROVE CallsOK'
  BY <1>7 DEF Append, Tombstone, CallsOK, At, GoTo, Reply, Leave, TypeOK, locks
<1>8. ASSUME NEW t \in Thread, Apply(t) \/ Remove(t) \/ Restore(t) PROVE CallsOK'
  BY <1>8 DEF Apply, Remove, Restore, CallsOK, At, GoTo, Reply, Leave, TypeOK, locks,
       IndexFails
<1>9. ASSUME NEW t \in Thread, CheckpointIfNeeded(t) PROVE CallsOK'
  BY <1>9 DEF CheckpointIfNeeded, CallsOK, At, GoTo, Reply, Leave, TypeOK, locks,
       OthersDangle
<1>10. ASSUME NEW t \in Thread, Shut(t) PROVE CallsOK'
  BY <1>10 DEF Shut, CallsOK, At, GoTo, Reply, locks, OthersDangle
<1>11. ASSUME NEW t \in Thread, Unlock(t) PROVE CallsOK'
  BY <1>11 DEF Unlock, CallsOK, GoTo, shared
<1>12. ASSUME NEW t \in Thread, Unmap(t) \/ Return(t) PROVE CallsOK'
  BY <1>12 DEF Unmap, Return, CallsOK, At, GoTo, Reply, TypeOK, shared, locks
<1>13. CASE UNCHANGED vars
  BY <1>13 DEF CallsOK, vars, shared, locks, locals
<1> QED
  BY <1>1, <1>2, <1>3, <1>4, <1>5, <1>6, <1>7, <1>8, <1>9, <1>10, <1>11, <1>12, <1>13
       DEF Next, Step

\* The lock and the threads agree about who has it.
LEMMA LockNext ==
  ASSUME LockInv, [Next]_vars
  PROVE  LockOK'
<1> USE DEF LockInv
<1>1. ASSUME NEW t \in Thread, Invoke(t) PROVE LockOK'
  BY <1>1 DEF Invoke, LockOK, InLock, UnderReadLock, UnderWriteLock, GoTo, shared, locks
<1>2. ASSUME NEW t \in Thread, RLock(t) \/ Lock(t) PROVE LockOK'
  BY <1>2, LocksAssumption DEF RLock, Lock, LockOK, InLock, Reads, Writes, At, GoTo,
       TypeOK, shared
<1>3. ASSUME NEW t \in Thread, Check(t) PROVE LockOK'
  BY <1>3 DEF Check, LockOK, InLock, FirstStep, Reads, Writes, UnderReadLock,
       UnderWriteLock, GoTo, Reply, Leave, TypeOK, shared, locks
<1>4. ASSUME NEW t \in Thread, Look(t) \/ FindDeleted(t) PROVE LockOK'
  BY <1>4 DEF Look, FindDeleted, LockOK, InLock, UnderReadLock, UnderWriteLock, At,
       GoTo, Reply, Leave, TypeOK, shared, locks, Find
<1>5. ASSUME NEW t \in Thread, Value(t) \/ Len(t) PROVE LockOK'
  BY <1>5 DEF Value, Len, LockOK, InLock, UnderReadLock, At, GoTo, Reply, Leave,
       TypeOK, shared, locks
<1>6. ASSUME NEW t \in Thread, Visit(t) \/ VisitEnds(t) PROVE LockOK'
  BY <1>6 DEF Visit, VisitEnds, LockOK, InLock, UnderReadLock, At, GoTo, Reply, Leave,
       TypeOK, shared, locks
<1>7. ASSUME NEW t \in Thread, Append(t) \/ Tombstone(t) PROVE LockOK'
  BY <1>7 DEF Append, Tombstone, LockOK, InLock, UnderWriteLock, At, GoTo, Reply,
       Leave, TypeOK, locks
<1>8. ASSUME NEW t \in Thread, Apply(t) \/ Remove(t) \/ Restore(t) PROVE LockOK'
  BY <1>8 DEF Apply, Remove, Restore, LockOK, InLock, UnderWriteLock, At, GoTo, Reply,
       Leave, TypeOK, locks, IndexFails
<1>9. ASSUME NEW t \in Thread, CheckpointIfNeeded(t) PROVE LockOK'
  BY <1>9 DEF CheckpointIfNeeded, LockOK, InLock, UnderWriteLock, At, GoTo, Reply,
       Leave, TypeOK, locks, OthersDangle
<1>10. ASSUME NEW t \in Thread, Shut(t) PROVE LockOK'
  BY <1>10 DEF Shut, LockOK, InLock, UnderWriteLock, At, GoTo, Reply, locks,
       OthersDangle
<1>11. ASSUME NEW t \in Thread, Unlock(t) PROVE LockOK'
  BY <1>11, LocksAssumption DEF Unlock, LockOK, InLock, UnderReadLock, UnderWriteLock,
       GoTo, TypeOK, shared
<1>12. ASSUME NEW t \in Thread, Unmap(t) \/ Return(t) PROVE LockOK'
  BY <1>12 DEF Unmap, Return, LockOK, InLock, UnderReadLock, UnderWriteLock, At, GoTo,
       Reply, TypeOK, shared, locks
<1>13. CASE UNCHANGED vars
  BY <1>13 DEF LockOK, vars, shared, locks, locals
<1> QED
  BY <1>1, <1>2, <1>3, <1>4, <1>5, <1>6, <1>7, <1>8, <1>9, <1>10, <1>11, <1>12, <1>13
       DEF Next, Step

\* Only Shut closes the store and only a failing index call makes it fatal, both
\* with nobody else in the lock.
LEMMA ServedNext ==
  ASSUME LockInv, [Next]_vars
  PROVE  ServedOK'
<1> USE DEF LockInv
<1>1. ASSUME NEW t \in Thread, Invoke(t) PROVE ServedOK'
  BY <1>1 DEF Invoke, ServedOK, UnderReadLock, UnderWriteLock, GoTo, shared, locks
<1>2. ASSUME NEW t \in Thread, RLock(t) \/ Lock(t) PROVE ServedOK'
  BY <1>2 DEF RLock, Lock, ServedOK, UnderReadLock, UnderWriteLock, At, GoTo, TypeOK,
       shared
<1>3. ASSUME NEW t \in Thread, Check(t) PROVE ServedOK'
  BY <1>3, CallFacts DEF Check, CallsOK, ServedOK, FirstStep, Reads, Writes,
       UnderReadLock, UnderWriteLock, At, GoTo, Reply, Leave, TypeOK, shared, locks
<1>4. ASSUME NEW t \in Thread, Look(t) \/ FindDeleted(t) PROVE ServedOK'
  BY <1>4 DEF Look, FindDeleted, ServedOK, UnderReadLock, UnderWriteLock, At, GoTo,
       Reply, Leave, TypeOK, shared, locks, Find
<1>5. ASSUME NEW t \in Thread, Value(t) \/ Len(t) PROVE ServedOK'
  BY <1>5 DEF Value, Len, ServedOK, UnderReadLock, At, GoTo, Reply, Leave, TypeOK,
       shared, locks
<1>6. ASSUME NEW t \in Thread, Visit(t) \/ VisitEnds(t) PROVE ServedOK'
  BY <1>6 DEF Visit, VisitEnds, ServedOK, UnderReadLock, At, GoTo, Reply, Leave,
       TypeOK, shared, locks
<1>7. ASSUME NEW t \in Thread, Append(t) \/ Tombstone(t) PROVE ServedOK'
  BY <1>7 DEF Append, Tombstone, ServedOK, UnderWriteLock, At, GoTo, Reply, Leave,
       TypeOK, locks
<1>8. ASSUME NEW t \in Thread, Apply(t) \/ Remove(t) \/ Restore(t) PROVE ServedOK'
  BY <1>8, Exclusive, InWriteLock DEF Apply, Remove, Restore, ServedOK, InLock,
       UnderReadLock, UnderWriteLock, At, GoTo, Reply, Leave, TypeOK, shared, locks,
       IndexFails
<1>9. ASSUME NEW t \in Thread, CheckpointIfNeeded(t) PROVE ServedOK'
  BY <1>9 DEF CheckpointIfNeeded, ServedOK, UnderWriteLock, At, GoTo, Reply, Leave,
       TypeOK, locks, OthersDangle
<1>10. ASSUME NEW t \in Thread, Shut(t) PROVE ServedOK'
  BY <1>10, Exclusive, InWriteLock DEF Shut, ServedOK, InLock, UnderReadLock,
       UnderWriteLock, At, GoTo, Reply, Leave, TypeOK, shared, locks, OthersDangle
<1>11. ASSUME NEW t \in Thread, Unlock(t) PROVE ServedOK'
  BY <1>11 DEF Unlock, ServedOK, UnderReadLock, UnderWriteLock, GoTo, shared
<1>12. ASSUME NEW t \in Thread, Unmap(t) \/ Return(t) PROVE ServedOK'
  BY <1>12 DEF Unmap, Return, ServedOK, UnderReadLock, UnderWriteLock, At, GoTo,
       Reply, TypeOK, shared, locks
<1>13. CASE UNCHANGED vars
  BY <1>13 DEF ServedOK, vars, shared, locks, locals
<1> QED
  BY <1>1, <1>2, <1>3, <1>4, <1>5, <1>6, <1>7, <1>8, <1>9, <1>10, <1>11, <1>12, <1>13
       DEF Next, Step

\* Nobody changes the index or the records under a position that is held.
LEMMA HeldNext ==
  ASSUME LockInv, [Next]_vars
  PROVE  HeldOK'
<1> USE DEF LockInv
<1>1. ASSUME NEW t \in Thread, Invoke(t) PROVE HeldOK'
  BY <1>1 DEF Invoke, HeldOK, InLock, UnderReadLock, UnderWriteLock, GoTo, shared, locks
<1>2. ASSUME NEW t \in Thread, RLock(t) \/ Lock(t) PROVE HeldOK'
  BY <1>2 DEF RLock, Lock, HeldOK, InLock, At, GoTo, TypeOK, shared
<1>3. ASSUME NEW t \in Thread, Check(t) PROVE HeldOK'
  BY <1>3, CallFacts DEF Check, CallsOK, HeldOK, FirstStep, Reads, Writes, InLock,
       UnderReadLock, UnderWriteLock, At, GoTo, Reply, Leave, TypeOK, shared, locks
<1>4. ASSUME NEW t \in Thread, Look(t) \/ FindDeleted(t) PROVE HeldOK'
  <2>1. call[t].key \in Key
    BY <1>4, CallFacts DEF Look, FindDeleted, At, CallsOK
  <2>2. index[call[t].key] \in Val \cup {Missing}
    BY <2>1 DEF TypeOK, Content
  <2>3. CASE index[call[t].key] = Missing
    BY <1>4, <2>3 DEF Look, FindDeleted, Find, At, Leave, GoTo, TypeOK, HeldOK,
         InLock, shared
  <2>4. CASE index[call[t].key] # Missing
    <3>1. /\ held' = [held EXCEPT ![t] = index[call[t].key]]
          /\ pc' = [pc EXCEPT ![t] = IF pc[t] = "look" THEN "value" ELSE "remove"]
          /\ index' = index /\ call' = call
      BY <1>4, <2>4 DEF Look, FindDeleted, Find, At, GoTo, shared
    <3> QED
      BY <2>2, <2>4, <3>1, LocksAssumption
         DEF TypeOK, HeldOK, InLock, UnderReadLock, UnderWriteLock
  <2> QED
    BY <2>3, <2>4
<1>5. ASSUME NEW t \in Thread, Value(t) \/ Len(t) PROVE HeldOK'
  BY <1>5 DEF Value, Len, HeldOK, InLock, At, GoTo, Reply, Leave, TypeOK, shared, locks
<1>6. ASSUME NEW t \in Thread, Visit(t) \/ VisitEnds(t) PROVE HeldOK'
  BY <1>6 DEF Visit, VisitEnds, HeldOK, InLock, At, GoTo, Reply, Leave, TypeOK,
       shared, locks
<1>7. ASSUME NEW t \in Thread, Append(t) \/ Tombstone(t) PROVE HeldOK'
  BY <1>7 DEF Append, Tombstone, HeldOK, InLock, UnderWriteLock, At, GoTo, Reply,
       Leave, TypeOK, locks
<1>8. ASSUME NEW t \in Thread, Apply(t) \/ Remove(t) \/ Restore(t) PROVE HeldOK'
  BY <1>8, Exclusive, InWriteLock, LocksAssumption DEF Apply, Remove, Restore, HeldOK,
       InLock, UnderWriteLock, At, GoTo, Reply, Leave, TypeOK, locks, IndexFails
<1>9. ASSUME NEW t \in Thread, CheckpointIfNeeded(t) PROVE HeldOK'
  BY <1>9, Exclusive, InWriteLock DEF CheckpointIfNeeded, HeldOK, InLock,
       UnderWriteLock, At, GoTo, Reply, Leave, TypeOK, locks, OthersDangle
<1>10. ASSUME NEW t \in Thread, Shut(t) PROVE HeldOK'
  BY <1>10, Exclusive, InWriteLock, LocksAssumption DEF Shut, HeldOK, InLock,
       UnderWriteLock, At, GoTo, Reply, locks, OthersDangle
<1>11. ASSUME NEW t \in Thread, Unlock(t) PROVE HeldOK'
  BY <1>11, LocksAssumption DEF Unlock, HeldOK, GoTo, TypeOK, shared
<1>12. ASSUME NEW t \in Thread, Unmap(t) \/ Return(t) PROVE HeldOK'
  BY <1>12 DEF Unmap, Return, HeldOK, InLock, UnderReadLock, UnderWriteLock, At, GoTo,
       Reply, TypeOK, shared, locks
<1>13. CASE UNCHANGED vars
  BY <1>13 DEF HeldOK, vars, shared, locks, locals
<1> QED
  BY <1>1, <1>2, <1>3, <1>4, <1>5, <1>6, <1>7, <1>8, <1>9, <1>10, <1>11, <1>12, <1>13
       DEF Next, Step

\* A half-done write is the only difference between log and index ...
LEMMA UnloggedNext ==
  ASSUME LockInv, [Next]_vars
  PROVE  Unlogged'
<1> USE DEF LockInv
<1>1. ASSUME NEW t \in Thread, Invoke(t) PROVE Unlogged'
  BY <1>1 DEF Invoke, Unlogged, GoTo, shared, locks
<1>2. ASSUME NEW t \in Thread, RLock(t) \/ Lock(t) PROVE Unlogged'
  BY <1>2 DEF RLock, Lock, Unlogged, At, GoTo, TypeOK, shared
<1>3. ASSUME NEW t \in Thread, Check(t) PROVE Unlogged'
  BY <1>3, CallFacts DEF Check, CallsOK, Unlogged, FirstStep, Reads, Writes, At, GoTo,
       Reply, Leave, TypeOK, shared, locks
<1>4. ASSUME NEW t \in Thread, Look(t) \/ FindDeleted(t) PROVE Unlogged'
  BY <1>4 DEF Look, FindDeleted, Unlogged, At, GoTo, Reply, Leave, TypeOK, shared,
       locks, Find
<1>5. ASSUME NEW t \in Thread, Value(t) \/ Len(t) PROVE Unlogged'
  BY <1>5 DEF Value, Len, Unlogged, At, GoTo, Reply, Leave, TypeOK, shared, locks
<1>6. ASSUME NEW t \in Thread, Visit(t) \/ VisitEnds(t) PROVE Unlogged'
  BY <1>6 DEF Visit, VisitEnds, Unlogged, At, GoTo, Reply, Leave, TypeOK, shared, locks
<1>7. ASSUME NEW t \in Thread, Append(t) \/ Tombstone(t) PROVE Unlogged'
  BY <1>7, InWriteLock DEF Append, Tombstone, Unlogged, AgreeOK, ServedOK,
       UnderWriteLock, At, GoTo, Reply, Leave, TypeOK, shared, locks
<1>8. ASSUME NEW t \in Thread, Apply(t) \/ Remove(t) \/ Restore(t) PROVE Unlogged'
  BY <1>8, CallFacts, InWriteLock DEF Apply, Remove, Restore, CallsOK, Unlogged,
       AgreeOK, ServedOK, Content, UnderWriteLock, At, GoTo, Reply, Leave, TypeOK,
       shared, locks, IndexFails
<1>9. ASSUME NEW t \in Thread, CheckpointIfNeeded(t) PROVE Unlogged'
  BY <1>9, InWriteLock DEF CheckpointIfNeeded, Unlogged, UnderWriteLock, At, GoTo,
       Reply, Leave, TypeOK, shared, locks, OthersDangle
<1>10. ASSUME NEW t \in Thread, Shut(t) PROVE Unlogged'
  BY <1>10, InWriteLock DEF Shut, Unlogged, UnderWriteLock, At, GoTo, Reply, Leave,
       shared, locks, OthersDangle
<1>11. ASSUME NEW t \in Thread, Unlock(t) PROVE Unlogged'
  BY <1>11 DEF Unlock, Unlogged, GoTo, shared
<1>12. ASSUME NEW t \in Thread, Unmap(t) \/ Return(t) PROVE Unlogged'
  BY <1>12 DEF Unmap, Return, Unlogged, At, GoTo, Reply, TypeOK, shared, locks
<1>13. CASE UNCHANGED vars
  BY <1>13 DEF Unlogged, vars, shared, locks, locals
<1> QED
  BY <1>1, <1>2, <1>3, <1>4, <1>5, <1>6, <1>7, <1>8, <1>9, <1>10, <1>11, <1>12, <1>13
       DEF Next, Step

\* ... and whoever lets go of the lock leaves none, or a fatal store.
LEMMA AgreeNext ==
  ASSUME LockInv, [Next]_vars
  PROVE  AgreeOK'
<1> USE DEF LockInv
<1>1. ASSUME NEW t \in Thread, Invoke(t) PROVE AgreeOK'
  BY <1>1 DEF Invoke, AgreeOK, GoTo, shared, locks
<1>2. ASSUME NEW t \in Thread, RLock(t) \/ Lock(t) PROVE AgreeOK'
  BY <1>2 DEF RLock, Lock, AgreeOK, At, GoTo, TypeOK, shared
<1>3. ASSUME NEW t \in Thread, Check(t) PROVE AgreeOK'
  BY <1>3 DEF Check, AgreeOK, FirstStep, GoTo, Reply, Leave, TypeOK, shared, locks
<1>4. ASSUME NEW t \in Thread, Look(t) \/ FindDeleted(t) PROVE AgreeOK'
  BY <1>4 DEF Look, FindDeleted, AgreeOK, At, GoTo, Reply, Leave, TypeOK, shared,
       locks, Find
<1>5. ASSUME NEW t \in Thread, Value(t) \/ Len(t) PROVE AgreeOK'
  BY <1>5 DEF Value, Len, AgreeOK, At, GoTo, Reply, Leave, TypeOK, shared, locks
<1>6. ASSUME NEW t \in Thread, Visit(t) \/ VisitEnds(t) PROVE AgreeOK'
  BY <1>6 DEF Visit, VisitEnds, AgreeOK, At, GoTo, Reply, Leave, TypeOK, shared, locks
<1>7. ASSUME NEW t \in Thread, Append(t) \/ Tombstone(t) PROVE AgreeOK'
  <2>1. pc[t] \in {"append", "tombstone"} /\ t = writer
    BY <1>7, InWriteLock DEF Append, Tombstone, At, UnderWriteLock
  <2>2. \A u \in Thread \ {t} : pc[u] \notin InLock
    BY <2>1, Exclusive
  <2>3. open /\ ~fatal
    BY <2>1 DEF ServedOK, UnderWriteLock
  <2>4. CASE Append(t)
    <3>1. index = log
      BY <2>2, <2>3, <2>4 DEF AgreeOK, Append, At, InLock, UnderWriteLock
    <3> QED
      BY <2>4, <3>1 DEF AgreeOK, Append, Leave, GoTo, TypeOK
  <2>5. CASE Tombstone(t)
    <3>1. \/ pc'[t] = "restore"
          \/ log' = [log EXCEPT ![call[t].key] = Missing] /\ index' = index
      BY <2>5 DEF Tombstone, GoTo, TypeOK
    <3>2. /\ index[call[t].key] = Missing
          /\ log = [index EXCEPT ![call[t].key] = held[t]]
      BY <2>1, <2>5 DEF Unlogged, Tombstone, At
    <3>3. pc'[t] = "restore" \/ log' = index'
      BY <3>1, <3>2 DEF TypeOK, Content
    <3> QED
      BY <3>3 DEF AgreeOK
  <2> QED
    BY <1>7, <2>4, <2>5
<1>8. ASSUME NEW t \in Thread, Apply(t) \/ Remove(t) \/ Restore(t) PROVE AgreeOK'
  <2>1. CASE Apply(t)
    <3>1. log = [index EXCEPT ![call[t].key] = call[t].val]
      BY <2>1 DEF Apply, At, Unlogged
    <3> QED
      BY <2>1, <3>1 DEF Apply, IndexFails, AgreeOK
  <2>2. CASE Remove(t)
    BY <2>2 DEF Remove, IndexFails, GoTo, AgreeOK, TypeOK
  <2>3. CASE Restore(t)
    <3>1. log = [index EXCEPT ![call[t].key] = held[t]]
      BY <2>3 DEF Restore, At, Unlogged
    <3> QED
      BY <2>3, <3>1 DEF Restore, IndexFails, AgreeOK
  <2> QED
    BY <1>8, <2>1, <2>2, <2>3
<1>9. ASSUME NEW t \in Thread, CheckpointIfNeeded(t) PROVE AgreeOK'
  BY <1>9 DEF CheckpointIfNeeded, AgreeOK, At, GoTo, Reply, Leave, TypeOK, locks,
       OthersDangle
<1>10. ASSUME NEW t \in Thread, Shut(t) PROVE AgreeOK'
  BY <1>10 DEF Shut, AgreeOK, At, GoTo, Reply, locks, OthersDangle
<1>11. ASSUME NEW t \in Thread, Unlock(t) PROVE AgreeOK'
  BY <1>11 DEF Unlock, AgreeOK, GoTo, shared
<1>12. ASSUME NEW t \in Thread, Unmap(t) \/ Return(t) PROVE AgreeOK'
  <2>1. pc[t] \notin {"apply", "tombstone", "restore"}
    BY <1>12 DEF Unmap, Return, At
  <2>2. UNCHANGED shared /\ \A u \in Thread \ {t} : pc'[u] = pc[u]
    BY <1>12 DEF Unmap, Return, GoTo, TypeOK
  <2> QED
    BY <2>1, <2>2 DEF AgreeOK, shared
<1>13. CASE UNCHANGED vars
  BY <1>13 DEF AgreeOK, vars, shared, locks, locals
<1> QED
  BY <1>1, <1>2, <1>3, <1>4, <1>5, <1>6, <1>7, <1>8, <1>9, <1>10, <1>11, <1>12, <1>13
       DEF Next, Step

-----------------------------------------------------------------------------
LEMMA InitLocked == Init => LockInv
<1> SUFFICES ASSUME Init PROVE LockInv
  OBVIOUS
<1>1. TypeOK
  BY DEF Init, TypeOK, Phases
<1>2. CallsOK /\ ServedOK /\ Unlogged
  BY DEF Init, CallsOK, ServedOK, Unlogged, UnderReadLock, UnderWriteLock
<1>3. LockOK
  BY LocksAssumption DEF Init, LockOK, InLock, UnderReadLock, UnderWriteLock
<1>4. HeldOK /\ AgreeOK
  BY LocksAssumption DEF Init, HeldOK, AgreeOK
<1> QED
  BY <1>1, <1>2, <1>3, <1>4 DEF LockInv

LEMMA LockStep == LockInv /\ [Next]_vars => LockInv'
BY TypeNext, CallsNext, LockNext, ServedNext, HeldNext, UnloggedNext, AgreeNext
   DEF LockInv

\* The invariant holds in every reachable state.
THEOREM LockInvariant == Spec => []LockInv
BY InitLocked, LockStep, PTL DEF Spec

\* Types, for any number of threads.
THEOREM LocksTypeCorrect == Spec => []TypeOK
<1>1. LockInv => TypeOK
  BY DEF LockInv
<1> QED
  BY <1>1, LockInvariant, PTL

\* The position that Get or Delete has found is neither unmapped nor replaced
\* before it is used, whatever the other threads call.
THEOREM PositionsAlwaysResolve == Spec => []PositionsResolve
<1>1. LockInv => PositionsResolve
  BY DEF LockInv, HeldOK, PositionsResolve
<1> QED
  BY <1>1, LockInvariant, PTL

\* Whenever a call can get the lock, log and index agree or the store is fatal.
THEOREM DivergedAlwaysFatal == Spec => []DivergedIsFatal
<1>1. LockInv => DivergedIsFatal
  <2> SUFFICES ASSUME LockInv, open, writer = NoOne, ~fatal PROVE index = log
    BY DEF DivergedIsFatal
  <2>1. \A t \in Thread : pc[t] \notin UnderWriteLock
    BY InWriteLock, LocksAssumption DEF LockInv
  <2> QED
    BY <2>1 DEF LockInv, AgreeOK, UnderWriteLock
<1> QED
  BY <1>1, LockInvariant, PTL

-----------------------------------------------------------------------------
(***************************************************************************)
(* The calls take their effect at one moment: StoreLocks implements        *)
(* KVCalls.                                                                *)
(***************************************************************************)

\* A call is answered when it leaves the lock, or is a Close that was answered
\* before.
AnswerOK ==
  \A t \in Thread :
    /\ pc[t] = "idle" => call[t] = NoCall
    /\ pc[t] \notin {"release", "unlock", "unmap", "return"} => answer[t] = NoAnswer
    /\ pc[t] \in {"unlock", "return"} => answer[t] # NoAnswer

\* The items of the live keys in S are what the callback of a scan or seek has
\* been given: a stretch from the first key of the range on.
Visited(t, S) ==
  /\ S \subseteq Promise!Live(index, call[t].keys)
  /\ seen[t] = Promise!ItemsOf(index, S)
  /\ \A x \in S, y \in Promise!Live(index, call[t].keys) :
       Promise!Precedes(call[t].forward, y, x) => y \in S
  /\ call[t].kind = "seek" => S = {}

SeenOK ==
  \A t \in Thread :
    /\ pc[t] \notin {"visit", "unlock"} => seen[t] = {}
    /\ pc[t] = "visit" => \E S \in SUBSET Key : Visited(t, S)

\* A reply is an answer.
LEMMA ReplyAnswers ==
  ASSUME TypeOK, NEW t \in Thread, NEW status \in Promise!Statuses,
         NEW items \in SUBSET (Key \X Val), Reply(t, status, items)
  PROVE  answer'[t] # NoAnswer /\ \A u \in Thread \ {t} : answer'[u] = answer[u]
<1>1. [status |-> status, items |-> items] \in Promise!Answers
  BY DEF Promise!Answers
<1> QED
  BY <1>1, CallsAssumption DEF TypeOK, Reply

LEMMA AnswerNext ==
  ASSUME LockInv, AnswerOK, [Next]_vars
  PROVE  AnswerOK'
<1> USE DEF LockInv
<1> DEFINE Items == SUBSET (Key \X Val)
<1>0. {} \in Items /\ {"ok", "absent", "closed", "fatal", "failed"} = Promise!Statuses
  BY DEF Promise!Statuses
<1>1. ASSUME NEW t \in Thread, Invoke(t) \/ RLock(t) \/ Lock(t) PROVE AnswerOK'
  BY <1>1 DEF Invoke, RLock, Lock, At, GoTo, AnswerOK, TypeOK
\* A step that answers.
<1>2. ASSUME NEW t \in Thread, NEW status \in Promise!Statuses, NEW items \in Items,
             Leave(t, status, items), call' = call
      PROVE  AnswerOK'
  <2>1. answer'[t] # NoAnswer /\ \A u \in Thread \ {t} : answer'[u] = answer[u]
    BY <1>2, ReplyAnswers DEF Leave
  <2>2. pc'[t] = "unlock" /\ \A u \in Thread \ {t} : pc'[u] = pc[u]
    BY <1>2 DEF Leave, GoTo, TypeOK
  <2> QED
    BY <1>2, <2>1, <2>2 DEF AnswerOK
\* One that goes on without an answer.
<1>3. ASSUME NEW t \in Thread, NEW to, GoTo(t, to), call' = call, answer' = answer,
             to \notin {"idle", "unlock", "return"}, answer[t] = NoAnswer
      PROVE  AnswerOK'
  <2>1. pc'[t] = to /\ \A u \in Thread \ {t} : pc'[u] = pc[u]
    BY <1>3 DEF GoTo, TypeOK
  <2> QED
    BY <1>3, <2>1 DEF AnswerOK
<1>4. ASSUME NEW t \in Thread, Check(t) PROVE AnswerOK'
  <2>1. call[t].kind \in Reads \cup Writes
    BY <1>4, CallFacts DEF Check, CallsOK
  <2>2. FirstStep[call[t].kind] \notin {"idle", "unlock", "return"} /\ answer[t] = NoAnswer
    BY <1>4, <2>1 DEF FirstStep, Reads, Writes, Check, AnswerOK
  <2> QED
    BY <1>0, <1>2, <1>3, <1>4, <2>2 DEF Check
<1>5. ASSUME NEW t \in Thread, Look(t) \/ FindDeleted(t) PROVE AnswerOK'
  <2>1. answer[t] = NoAnswer
    BY <1>5 DEF Look, FindDeleted, At, AnswerOK
  <2> QED
    BY <1>0, <1>2, <1>3, <1>5, <2>1 DEF Look, FindDeleted, Find
<1>6. ASSUME NEW t \in Thread, Value(t) PROVE AnswerOK'
  <2>1. held[t] \in Val /\ held[t] = index[call[t].key] /\ held[t] # Dangling
    BY <1>6 DEF Value, At, HeldOK
  <2>2. {<<call[t].key, held[t]>>} \in Items
    BY <1>6, <2>1, CallFacts DEF Value, At, CallsOK
  <2>3. Leave(t, "ok", {<<call[t].key, held[t]>>}) /\ call' = call
    BY <1>6, <2>1 DEF Value
  <2> QED
    BY <1>0, <1>2, <2>2, <2>3
<1>7. ASSUME NEW t \in Thread, Len(t) PROVE AnswerOK'
  <2>1. Promise!ItemsOf(index, Promise!Live(index, Key)) \in Items
    BY DEF TypeOK, Content, Promise!ItemsOf, Promise!Live
  <2> QED
    BY <1>0, <1>2, <1>7, <2>1 DEF Len
<1>8. ASSUME NEW t \in Thread, Visit(t) \/ VisitEnds(t) PROVE AnswerOK'
  <2>1. \A k \in Ahead(t) : seen[t] \cup {<<k, index[k]>>} \in Items
    <3>1. call[t] \in Promise!Calls /\ call[t].keys \in Ranges
      BY <1>8, CallFacts DEF Visit, VisitEnds, At, CallsOK
    <3>2. \A k \in Ahead(t) : k \in Key /\ index[k] \in Val
      BY <3>1, LocksAssumption DEF Ahead, Promise!Live, TypeOK, Content
    <3> QED
      BY <3>2 DEF TypeOK
  <2>2. seen[t] \in Items
    BY DEF TypeOK
  <2>3. CASE Visit(t)
    <3>1. PICK k \in Ahead(t) :
            \/ Leave(t, "ok", seen[t] \cup {<<k, index[k]>>}) /\ call' = call
            \/ UNCHANGED <<pc, answer, call>>
      BY <2>3 DEF Visit
    <3> QED
      BY <1>0, <1>2, <2>1, <3>1 DEF AnswerOK
  <2>4. CASE VisitEnds(t)
    BY <1>0, <1>2, <2>2, <2>4 DEF VisitEnds
  <2> QED
    BY <1>8, <2>3, <2>4
<1>9. ASSUME NEW t \in Thread,
             Append(t) \/ Apply(t) \/ Remove(t) \/ Tombstone(t) \/ Restore(t)
      PROVE  AnswerOK'
  <2>1. answer[t] = NoAnswer /\ call' = call
    BY <1>9 DEF Append, Apply, Remove, Tombstone, Restore, At, AnswerOK
  <2>2. \/ Leave(t, "failed", {}) \/ Leave(t, "fatal", {})
        \/ /\ answer' = answer
           /\ \E to \in {"apply", "ckpt", "tombstone", "restore"} : GoTo(t, to)
    BY <1>9 DEF Append, Apply, Remove, Tombstone, Restore, IndexFails
  <2> QED
    BY <1>0, <1>2, <1>3, <2>1, <2>2
<1>10. ASSUME NEW t \in Thread, CheckpointIfNeeded(t) PROVE AnswerOK'
  BY <1>0, <1>2, <1>10 DEF CheckpointIfNeeded
<1>11. ASSUME NEW t \in Thread, Shut(t) PROVE AnswerOK'
  <2>1. answer' = answer \/ Reply(t, "failed", {})
    BY <1>11 DEF Shut
  <2>2. \A u \in Thread \ {t} : answer'[u] = answer[u]
    BY <1>0, <2>1, ReplyAnswers
  <2>3. pc'[t] = "release" /\ (\A u \in Thread \ {t} : pc'[u] = pc[u]) /\ call' = call
    BY <1>11 DEF Shut, GoTo, TypeOK
  <2> QED
    BY <2>2, <2>3 DEF AnswerOK
<1>12. ASSUME NEW t \in Thread, Unlock(t) PROVE AnswerOK'
  BY <1>12 DEF Unlock, GoTo, AnswerOK, TypeOK
<1>13. ASSUME NEW t \in Thread, Unmap(t) PROVE AnswerOK'
  <2>1. /\ pc'[t] = "return" /\ (\A u \in Thread \ {t} : pc'[u] = pc[u]) /\ call' = call
    BY <1>13 DEF Unmap, GoTo, TypeOK
  <2>2. \/ answer[t] # NoAnswer /\ answer' = answer
        \/ \E status \in {"ok", "failed"} : Reply(t, status, {})
    BY <1>13 DEF Unmap
  <2>3. answer'[t] # NoAnswer /\ \A u \in Thread \ {t} : answer'[u] = answer[u]
    BY <1>0, <2>2, ReplyAnswers
  <2> QED
    BY <2>1, <2>3 DEF AnswerOK
<1>14. ASSUME NEW t \in Thread, Return(t) PROVE AnswerOK'
  BY <1>14 DEF Return, GoTo, AnswerOK, TypeOK
<1>15. CASE UNCHANGED vars
  BY <1>15 DEF AnswerOK, vars, locals
<1> QED
  BY <1>1, <1>4, <1>5, <1>6, <1>7, <1>8, <1>9, <1>10, <1>11, <1>12, <1>13, <1>14, <1>15
     DEF Next, Step

\* One more key, the first of those ahead, keeps a stretch without gaps.
LEMMA NextKey ==
  ASSUME NEW L \in SUBSET Nat, NEW forward \in BOOLEAN, NEW S \in SUBSET L,
         \A x \in S, y \in L : Promise!Precedes(forward, y, x) => y \in S,
         NEW k \in L,
         \A y \in L \ {k} : (\A z \in S : Promise!Precedes(forward, z, y))
                              => Promise!Precedes(forward, k, y)
  PROVE  \A x \in S \cup {k}, y \in L : Promise!Precedes(forward, y, x) => y \in S \cup {k}
<1> SUFFICES ASSUME NEW y \in L, Promise!Precedes(forward, y, k), y \notin S, y # k
             PROVE  FALSE
  OBVIOUS
<1>1. ASSUME NEW z \in S PROVE Promise!Precedes(forward, z, y)
  <2>1. ~Promise!Precedes(forward, y, z) /\ z # y /\ z \in Nat /\ y \in Nat
    OBVIOUS
  <2> QED
    BY <2>1 DEF Promise!Precedes
<1>2. Promise!Precedes(forward, k, y)
  BY <1>1
<1> QED
  BY <1>2 DEF Promise!Precedes

\* The cursor of a scan or seek, in terms of the keys it has passed.
LEMMA AheadFacts ==
  ASSUME LockInv, NEW t \in Thread, pc[t] = "visit", NEW S, Visited(t, S),
         NEW L, L = Promise!Live(index, call[t].keys)
  PROVE  /\ L \in SUBSET Nat /\ L \in SUBSET Key /\ L \in SUBSET call[t].keys
         /\ call[t].forward \in BOOLEAN /\ S \in SUBSET L
         /\ \A y : y \in Ahead(t) <=>
              y \in L /\ \A z \in S : Promise!Precedes(call[t].forward, z, y)
<1> USE DEF LockInv
<1>1. call[t] \in Promise!Calls /\ call[t].kind \in {"scan", "seek"}
  BY DEF CallsOK
<1>2. call[t].forward \in BOOLEAN /\ call[t].keys \in Ranges
  BY <1>1 DEF Promise!Calls
<1>3. L \in SUBSET Key /\ L \in SUBSET call[t].keys /\ L \in SUBSET Nat
  BY <1>2, LocksAssumption DEF Promise!Live
<1>4. S \in SUBSET L
  BY DEF Visited
<1>5. \A item \in seen[t] : item[1] \in S
  BY DEF Visited, Promise!ItemsOf
<1>6. ASSUME NEW z \in S PROVE \E item \in seen[t] : item[1] = z
  <2>1. <<z, index[z]>> \in seen[t]
    BY DEF Visited, Promise!ItemsOf
  <2>2. <<z, index[z]>>[1] = z
    OBVIOUS
  <2> QED
    BY <2>1, <2>2
<1>7. ASSUME NEW y
      PROVE  (\A item \in seen[t] : Promise!Precedes(call[t].forward, item[1], y))
               <=> \A z \in S : Promise!Precedes(call[t].forward, z, y)
  BY <1>5, <1>6
<1> QED
  BY <1>2, <1>3, <1>4, <1>7 DEF Ahead

LEMMA VisitKeeps ==
  ASSUME LockInv, SeenOK, NEW t \in Thread, Visit(t), pc' = pc
  PROVE  SeenOK'
<1> USE DEF LockInv
<1>1. /\ pc[t] = "visit" /\ call[t].kind \in {"scan", "seek"} /\ call' = call
      /\ index' = index
  BY DEF Visit, At, shared
<1>2. PICK k \in Ahead(t) :
        /\ \A other \in Ahead(t) \ {k} : Promise!Precedes(call[t].forward, k, other)
        /\ seen' = [seen EXCEPT ![t] = seen[t] \cup {<<k, index[k]>>}]
        /\ \/ Leave(t, "ok", seen[t] \cup {<<k, index[k]>>})
           \/ call[t].kind = "scan"
  BY DEF Visit
<1>3. call[t].kind = "scan"
  BY <1>1, <1>2 DEF Leave, GoTo, TypeOK
<1>4. PICK S \in SUBSET Key : Visited(t, S)
  BY <1>1 DEF SeenOK
<1>L. PICK L : L = Promise!Live(index, call[t].keys)
  OBVIOUS
<1>5. /\ L \in SUBSET Nat /\ call[t].forward \in BOOLEAN /\ L \in SUBSET Key
      /\ S \in SUBSET L /\ seen[t] = Promise!ItemsOf(index, S)
      /\ \A x \in S, y \in L : Promise!Precedes(call[t].forward, y, x) => y \in S
  BY <1>1, <1>4, <1>L, AheadFacts DEF Visited
<1>6. \A y : y \in Ahead(t) <=> y \in L /\ \A z \in S : Promise!Precedes(call[t].forward, z, y)
  BY <1>1, <1>4, <1>L, AheadFacts
<1>7. k \in L
  BY <1>6
<1>8. \A x \in S \cup {k}, y \in L :
        Promise!Precedes(call[t].forward, y, x) => y \in S \cup {k}
  <2>1. \A y \in L \ {k} : (\A z \in S : Promise!Precedes(call[t].forward, z, y))
                              => Promise!Precedes(call[t].forward, k, y)
    BY <1>2, <1>6
  <2> QED
    BY <1>5, <1>7, <2>1, NextKey
<1>9. seen[t] \cup {<<k, index[k]>>} = Promise!ItemsOf(index, S \cup {k})
  BY <1>5 DEF Promise!ItemsOf
<1>10. seen'[t] = Promise!ItemsOf(index, S \cup {k})
  BY <1>2, <1>9 DEF TypeOK
<1>11. Visited(t, S \cup {k})'
  BY <1>1, <1>3, <1>5, <1>7, <1>8, <1>10, <1>L DEF Visited
<1>12. S \cup {k} \in SUBSET Key
  BY <1>5, <1>7
<1>13. ASSUME NEW u \in Thread \ {t}, NEW R, Visited(u, R) PROVE Visited(u, R)'
  BY <1>1, <1>2, <1>13 DEF Visited, TypeOK
<1>14. \A u \in Thread \ {t} : seen'[u] = seen[u]
  BY <1>2 DEF TypeOK
<1>15. ASSUME NEW u \in Thread, pc'[u] = "visit" PROVE \E R \in SUBSET Key : Visited(u, R)'
  BY <1>11, <1>12, <1>13, <1>15 DEF SeenOK
<1> QED
  BY <1>1, <1>14, <1>15 DEF SeenOK

LEMMA SeenNext ==
  ASSUME LockInv, SeenOK, [Next]_vars
  PROVE  SeenOK'
<1> USE DEF LockInv
\* Nothing that the callback was given for has changed.
<1>1. ASSUME NEW t \in Thread,
             \A u \in Thread \ {t} : /\ pc'[u] = pc[u] /\ seen'[u] = seen[u]
                                     /\ call'[u] = call[u],
             index' = index \/ \A u \in Thread \ {t} : pc[u] # "visit",
             pc'[t] # "visit",
             pc'[t] = "unlock" \/ seen'[t] = {}
      PROVE  SeenOK'
  <2>1. ASSUME NEW u \in Thread \ {t}, pc'[u] = "visit"
        PROVE  \E S \in SUBSET Key : Visited(u, S)'
    <3>1. PICK S \in SUBSET Key : Visited(u, S)
      BY <1>1, <2>1 DEF SeenOK
    <3>2. index' = index
      BY <1>1, <2>1
    <3>3. Visited(u, S)'
      BY <1>1, <3>1, <3>2 DEF Visited
    <3> QED
      BY <3>3
  <2> QED
    BY <1>1, <2>1 DEF SeenOK
<1>2. ASSUME NEW t \in Thread, Check(t) PROVE SeenOK'
  <2>1. /\ seen' = seen /\ call' = call /\ index' = index /\ seen[t] = {} /\ pc[t] = "check"
        /\ \A u \in Thread \ {t} : pc'[u] = pc[u]
    BY <1>2 DEF Check, SeenOK, Leave, GoTo, TypeOK, shared, locks
  <2>2. CASE pc'[t] # "visit"
    BY <1>1, <2>1, <2>2
  <2>3. CASE pc'[t] = "visit"
    <3>1. Visited(t, {})'
      BY <2>1 DEF Visited, Promise!ItemsOf
    <3>2. ASSUME NEW u \in Thread \ {t}, NEW S, Visited(u, S) PROVE Visited(u, S)'
      BY <2>1, <3>2 DEF Visited
    <3> QED
      BY <2>1, <2>3, <3>1, <3>2 DEF SeenOK
  <2> QED
    BY <2>2, <2>3
<1>3. ASSUME NEW t \in Thread, Visit(t) PROVE SeenOK'
  <2>1. CASE pc' = pc
    BY <1>3, <2>1, VisitKeeps
  <2>2. CASE pc' # pc
    <3>1. /\ pc' = [pc EXCEPT ![t] = "unlock"] /\ call' = call /\ index' = index
          /\ \E items : seen' = [seen EXCEPT ![t] = items]
      BY <1>3, <2>2 DEF Visit, Leave, GoTo, shared
    <3> QED
      BY <1>1, <3>1 DEF TypeOK
  <2> QED
    BY <2>1, <2>2
<1>4. ASSUME NEW t \in Thread, Invoke(t) \/ RLock(t) \/ Lock(t) PROVE SeenOK'
  BY <1>1, <1>4 DEF Invoke, RLock, Lock, At, GoTo, SeenOK, TypeOK, shared
<1>5. ASSUME NEW t \in Thread, Look(t) \/ FindDeleted(t) \/ Value(t) \/ Len(t) \/ VisitEnds(t)
      PROVE  SeenOK'
  BY <1>1, <1>5 DEF Look, FindDeleted, Find, Value, Len, VisitEnds, At, Leave, GoTo,
       SeenOK, TypeOK, shared
<1>6. ASSUME NEW t \in Thread, Append(t) \/ Tombstone(t) \/ CheckpointIfNeeded(t)
      PROVE  SeenOK'
  BY <1>1, <1>6 DEF Append, Tombstone, CheckpointIfNeeded, At, Leave, GoTo, SeenOK,
       TypeOK
<1>7. ASSUME NEW t \in Thread, Apply(t) \/ Remove(t) \/ Restore(t) \/ Shut(t)
      PROVE  SeenOK'
  <2>1. \A u \in Thread \ {t} : pc[u] # "visit"
    <3>1. pc[t] \in UnderWriteLock
      BY <1>7 DEF Apply, Remove, Restore, Shut, At, UnderWriteLock
    <3>2. t = writer
      BY <3>1, InWriteLock
    <3> QED
      BY <3>2, Exclusive DEF InLock, UnderReadLock
  <2>2. /\ pc[t] # "visit" /\ pc'[t] # "visit" /\ seen' = seen /\ call' = call
        /\ seen[t] = {} /\ \A u \in Thread \ {t} : pc'[u] = pc[u]
    BY <1>7 DEF Apply, Remove, Restore, Shut, IndexFails, At, Leave, GoTo, SeenOK, TypeOK
  <2> QED
    BY <1>1, <2>1, <2>2
<1>8. ASSUME NEW t \in Thread, Unlock(t) \/ Unmap(t) \/ Return(t) PROVE SeenOK'
  BY <1>1, <1>8 DEF Unlock, Unmap, Return, At, GoTo, SeenOK, TypeOK, shared
<1>9. CASE UNCHANGED vars
  BY <1>9 DEF SeenOK, Visited, vars, shared, locals
<1> QED
  BY <1>2, <1>3, <1>4, <1>5, <1>6, <1>7, <1>8, <1>9 DEF Next, Step

\* The map and the answers of KVCalls, as StoreLocks has them.
Dict == IF ~open THEN {log} ELSE IF fatal THEN {log, index} ELSE {Served}

Ans == [t \in Thread |-> IF TookEffect(t) THEN Changed ELSE answer[t]]

\* The abstract action of each concrete one, in terms of these.
Answers(t, status, items) == Ans' = [Ans EXCEPT ![t] = [status |-> status, items |-> items]]

Asks(t, kinds) == call[t] # NoCall /\ call[t].kind \in kinds /\ Ans[t] = NoAnswer

LEMMA StutterMaps ==
  ASSUME Dict' = Dict, Ans' = Ans, UNCHANGED <<open, fatal, call>>
  PROVE  UNCHANGED Promise!vars
BY DEF Promise!vars, Dict, Ans

LEMMA InvokeMaps ==
  ASSUME NEW t \in Thread, call[t] = NoCall, NEW c \in Promise!Calls,
         call' = [call EXCEPT ![t] = c], Dict' = Dict, Ans' = Ans, UNCHANGED <<open, fatal>>
  PROVE  Promise!Invoke(t)
BY DEF Promise!Invoke, Dict, Ans

LEMMA ReturnMaps ==
  ASSUME NEW t \in Thread, Ans[t] \in Promise!Answers,
         call' = [call EXCEPT ![t] = NoCall], Ans' = [Ans EXCEPT ![t] = NoAnswer],
         Dict' = Dict, UNCHANGED <<open, fatal>>
  PROVE  Promise!Return(t)
BY DEF Promise!Return, Dict, Ans

LEMMA ReadMaps ==
  ASSUME NEW t \in Thread, Asks(t, Reads), open, ~fatal,
         NEW items, Answers(t, "ok", items), Dict' = Dict, UNCHANGED <<open, fatal, call>>,
         NEW d \in Dict,
         \/ call[t].kind = "get" /\ items = Promise!ItemsOf(d, Promise!Live(d, {call[t].key}))
         \/ call[t].kind = "len" /\ items = Promise!ItemsOf(d, Promise!Live(d, Key))
         \/ /\ call[t].kind \in {"scan", "seek"}
            /\ \E S \in SUBSET call[t].keys :
                 /\ Promise!VisitedOf(call[t], Promise!Live(d, call[t].keys), S)
                 /\ items = Promise!ItemsOf(d, S)
  PROVE  Promise!Read(t)
<1>1. Promise!Waiting(t, {"get", "len", "scan", "seek"})
  BY DEF Promise!Waiting, Asks, Reads, Ans
<1>2. Ans' = [Ans EXCEPT ![t] = [status |-> "ok", items |-> items]]
  BY DEF Answers
<1>3. UNCHANGED <<Dict, open, fatal, call>>
  OBVIOUS
<1>4. CASE call[t].kind = "get" /\ items = Promise!ItemsOf(d, Promise!Live(d, {call[t].key}))
  BY <1>1, <1>2, <1>3, <1>4 DEF Promise!Read, Promise!Reply, Dict, Ans
<1>5. CASE call[t].kind = "len" /\ items = Promise!ItemsOf(d, Promise!Live(d, Key))
  BY <1>1, <1>2, <1>3, <1>5 DEF Promise!Read, Promise!Reply, Dict, Ans
<1>6. CASE /\ call[t].kind \in {"scan", "seek"}
           /\ \E S \in SUBSET call[t].keys :
                /\ Promise!VisitedOf(call[t], Promise!Live(d, call[t].keys), S)
                /\ items = Promise!ItemsOf(d, S)
  BY <1>1, <1>2, <1>3, <1>6 DEF Promise!Read, Promise!Reply, Dict, Ans
<1> QED
  BY <1>4, <1>5, <1>6

LEMMA ChangeMaps ==
  ASSUME NEW t \in Thread, Asks(t, {"put", "delete"}), open, ~fatal, NEW d \in Dict,
         call[t].kind = "delete" => d[call[t].key] # Missing,
         Dict' = {Promise!After(call[t], d)}, Ans' = [Ans EXCEPT ![t] = Changed],
         UNCHANGED <<open, fatal, call>>
  PROVE  Promise!Change(t)
BY DEF Promise!Change, Promise!Waiting, Asks, Dict, Ans

LEMMA DoneMaps ==
  ASSUME NEW t \in Thread, Ans[t] = Changed, NEW status \in {"ok", "failed"},
         Answers(t, status, {}), Dict' = Dict, UNCHANGED <<open, fatal, call>>
  PROVE  Promise!Done(t)
BY DEF Promise!Done, Promise!Reply, Answers, Dict, Ans

LEMMA DeleteAbsentMaps ==
  ASSUME NEW t \in Thread, Asks(t, {"delete"}), open, ~fatal, NEW d \in Dict,
         d[call[t].key] = Missing, Answers(t, "absent", {}), Dict' = Dict,
         UNCHANGED <<open, fatal, call>>
  PROVE  Promise!DeleteAbsent(t)
BY DEF Promise!DeleteAbsent, Promise!Waiting, Promise!Reply, Asks, Answers, Dict, Ans

LEMMA FailMaps ==
  ASSUME NEW t \in Thread, Asks(t, {"put", "delete"}), open, ~fatal,
         Answers(t, "failed", {}), Dict' = Dict, UNCHANGED <<open, fatal, call>>
  PROVE  Promise!Fail(t)
BY DEF Promise!Fail, Promise!Waiting, Promise!Reply, Asks, Answers, Dict, Ans

LEMMA BreakMaps ==
  ASSUME NEW t \in Thread, Asks(t, {"put", "delete"}), open, ~fatal, fatal',
         NEW d \in Dict, Dict' \subseteq {d, Promise!After(call[t], d)}, Dict' # {},
         fatal' = TRUE, Answers(t, "fatal", {}), UNCHANGED <<open, call>>
  PROVE  Promise!Break(t)
BY DEF Promise!Break, Promise!Waiting, Promise!Reply, Asks, Answers, Dict, Ans

LEMMA RefuseMaps ==
  ASSUME NEW t \in Thread, Dict' = Dict, UNCHANGED <<open, fatal, call>>,
         \/ /\ ~open /\ Asks(t, {"get", "len", "scan", "seek", "put", "delete"})
            /\ Answers(t, "closed", {})
         \/ /\ fatal /\ Asks(t, {"get", "len", "scan", "seek", "put", "delete"})
            /\ Answers(t, "fatal", {})
         \/ ~open /\ Asks(t, {"close"}) /\ Answers(t, "ok", {})
  PROVE  Promise!Refuse(t)
BY DEF Promise!Refuse, Promise!Waiting, Promise!Reply, Asks, Answers, Dict, Ans

LEMMA CloseMaps ==
  ASSUME NEW t \in Thread, Asks(t, {"close"}), open, open' = FALSE,
         NEW d \in Dict, Dict' = {d}, UNCHANGED <<fatal, call>>,
         Ans' = [Ans EXCEPT ![t] = Changed] \/ Answers(t, "failed", {})
  PROVE  Promise!Close(t)
BY DEF Promise!Close, Promise!Waiting, Promise!Reply, Asks, Answers, Dict, Ans

MapInv == LockInv /\ AnswerOK /\ SeenOK

\* What a step leaves alone of the threads that do not take it.
OthersKept(t) ==
  \A u \in Thread \ {t} : /\ pc'[u] = pc[u] /\ call'[u] = call[u] /\ held'[u] = held[u]
                          /\ answer'[u] = answer[u]

\* The entry that a Delete has taken out is the only one the index lacks.
LEMMA ServedIsIndex ==
  ASSUME TypeOK, writer # NoOne => pc[writer] \notin {"tombstone", "restore"}
  PROVE  Served = index
BY DEF Served, TypeOK, Content

LEMMA ServedIsIndexNext ==
  ASSUME TypeOK', writer' # NoOne => pc'[writer'] \notin {"tombstone", "restore"}
  PROVE  Served' = index'
BY DEF Served, TypeOK, Content

LEMMA ServedOfDelete ==
  ASSUME TypeOK, writer # NoOne, pc[writer] \in {"tombstone", "restore"}
  PROVE  Served = [index EXCEPT ![call[writer].key] = held[writer]]
BY DEF Served, TypeOK, Content

LEMMA ServedOfDeleteNext ==
  ASSUME TypeOK', writer' # NoOne, pc'[writer'] \in {"tombstone", "restore"}
  PROVE  Served' = [index' EXCEPT ![call'[writer'].key] = held'[writer']]
BY DEF Served, TypeOK, Content

\* A step that takes nothing out of the index leaves what is served as it is.
LEMMA ServedKept ==
  ASSUME TypeOK, NEW t \in Thread, OthersKept(t), index' = index,
         pc[t] \notin {"tombstone", "restore"}, pc'[t] \notin {"tombstone", "restore"},
         writer' = writer \/ {writer, writer'} \subseteq {NoOne, t}
  PROVE  Served' = Served
<1>1. CASE writer = NoOne \/ writer = t
  <2>1. writer' = NoOne \/ writer' = t
    BY <1>1
  <2> QED
    BY <1>1, <2>1 DEF Served
<1>2. CASE writer # NoOne /\ writer # t
  <2>1. writer \in Thread \ {t} /\ writer' = writer
    BY <1>2 DEF TypeOK
  <2>2. pc'[writer] = pc[writer] /\ call'[writer] = call[writer] /\ held'[writer] = held[writer]
    BY <2>1 DEF OthersKept
  <2> QED
    BY <2>1, <2>2 DEF Served
<1> QED
  BY <1>1, <1>2

LEMMA DictKept ==
  ASSUME Served' = Served, UNCHANGED <<open, fatal>>,
         UNCHANGED <<log, index>> \/ (open /\ ~fatal)
  PROVE  Dict' = Dict
BY DEF Dict

LEMMA AnsKept ==
  ASSUME NEW t \in Thread, OthersKept(t), answer' = answer,
         answer[t] # NoAnswer \/ (pc'[t] \in {"ckpt", "release", "unmap"}
                                     <=> pc[t] \in {"ckpt", "release", "unmap"})
  PROVE  Ans' = Ans
BY DEF Ans, TookEffect, OthersKept

LEMMA AnsChanged ==
  ASSUME NEW t \in Thread, OthersKept(t), answer'[t] = NoAnswer,
         pc'[t] \in {"ckpt", "release", "unmap"}
  PROVE  Ans' = [Ans EXCEPT ![t] = Changed]
BY DEF Ans, TookEffect, OthersKept

\* A thread that has its answer, or leaves with one.
LEMMA AnsAnswered ==
  ASSUME TypeOK, NEW t \in Thread, NEW status \in Promise!Statuses,
         NEW items \in SUBSET (Key \X Val), Reply(t, status, items), OthersKept(t)
  PROVE  Answers(t, status, items)
<1>1. PICK a : a = [status |-> status, items |-> items]
  OBVIOUS
<1>2. answer' = [answer EXCEPT ![t] = a]
  BY <1>1 DEF Reply
<1>3. answer'[t] = a
  BY <1>2 DEF TypeOK
<1>4. answer'[t] # NoAnswer
  BY ReplyAnswers
<1>5. Ans' = [Ans EXCEPT ![t] = a]
  BY <1>3, <1>4 DEF Ans, TookEffect, OthersKept
<1> QED
  BY <1>1, <1>5 DEF Answers

\* A thread at a step of its call has not been answered yet.
LEMMA NotAnswered ==
  ASSUME LockInv, AnswerOK, NEW t \in Thread,
         pc[t] \notin {"idle", "ckpt", "release", "unlock", "unmap", "return"}
  PROVE  Asks(t, {call[t].kind})
BY CallsAssumption DEF LockInv, CallsOK, AnswerOK, Asks, Ans, TookEffect

LEMMA Left ==
  ASSUME TypeOK, NEW t \in Thread, NEW status, NEW items, Leave(t, status, items),
         UNCHANGED <<call, held>>
  PROVE  OthersKept(t) /\ pc'[t] = "unlock" /\ Reply(t, status, items)
BY DEF Leave, Reply, GoTo, TypeOK, OthersKept

LEMMA GoneTo ==
  ASSUME TypeOK, NEW t \in Thread, NEW to, GoTo(t, to), UNCHANGED <<call, answer>>,
         \A u \in Thread \ {t} : held'[u] = held[u]
  PROVE  OthersKept(t) /\ pc'[t] = to
BY DEF GoTo, TypeOK, OthersKept

\* Every step is one of KVCalls or none, action by action.
LEMMA StartMaps ==
  ASSUME MapInv, MapInv', NEW t \in Thread, Invoke(t)
  PROVE  Promise!Invoke(t)
<1> USE DEF MapInv, LockInv
<1>1. /\ call[t] = NoCall /\ pc[t] = "idle" /\ pc'[t] = "lock"
      /\ \A u \in Thread \ {t} : pc'[u] = pc[u]
  BY DEF Invoke, AnswerOK, GoTo, TypeOK
<1>2. PICK c \in Promise!Calls : call' = [call EXCEPT ![t] = c]
  BY DEF Invoke
<1>3. OthersKept(t) /\ answer' = answer
  BY <1>1, <1>2 DEF Invoke, OthersKept, TypeOK
<1>4. Served' = Served
  BY <1>1, <1>3, ServedKept DEF Invoke, shared, locks
<1>5. Dict' = Dict /\ Ans' = Ans
  BY <1>1, <1>3, <1>4, DictKept, AnsKept DEF Invoke, shared
<1> QED
  BY <1>1, <1>2, <1>5, InvokeMaps DEF Invoke, shared

LEMMA LockMaps ==
  ASSUME MapInv, MapInv', NEW t \in Thread, RLock(t) \/ Lock(t)
  PROVE  UNCHANGED Promise!vars
<1> USE DEF MapInv, LockInv
<1>1. pc[t] = "lock" /\ GoTo(t, "check") /\ UNCHANGED <<shared, call, held, seen, answer>>
  BY DEF RLock, Lock, At
<1>2. OthersKept(t) /\ pc'[t] = "check"
  BY <1>1, GoneTo
<1>3. writer' = writer \/ (writer = NoOne /\ writer' = t)
  BY DEF RLock, Lock
<1>4. Served' = Served
  BY <1>1, <1>2, <1>3, ServedKept DEF shared
<1>5. Dict' = Dict /\ Ans' = Ans
  BY <1>1, <1>2, <1>4, DictKept, AnsKept DEF shared
<1> QED
  BY <1>1, <1>5, StutterMaps DEF shared

\* A step that goes on under the lock without a change that is seen.
LEMMA GoesOn ==
  ASSUME MapInv, MapInv', NEW t \in Thread, NEW to, GoTo(t, to),
         UNCHANGED <<index, open, fatal, writer, call, answer>>,
         log' = log \/ (open /\ ~fatal),
         \A u \in Thread \ {t} : held'[u] = held[u],
         {pc[t], to} \cap {"tombstone", "restore", "ckpt", "release", "unmap"} = {}
  PROVE  UNCHANGED Promise!vars
<1> USE DEF MapInv, LockInv
<1>1. OthersKept(t) /\ pc'[t] = to
  BY GoneTo
<1>2. Served' = Served
  BY <1>1, ServedKept
<1>3. Dict' = Dict /\ Ans' = Ans
  BY <1>1, <1>2, DictKept, AnsKept
<1> QED
  BY <1>3, StutterMaps

\* One that leaves with an answer and changes nothing.
LEMMA LeavesWith ==
  ASSUME MapInv, MapInv', NEW t \in Thread, NEW status \in Promise!Statuses,
         NEW items \in SUBSET (Key \X Val), Leave(t, status, items),
         UNCHANGED <<shared, writer, call, held>>,
         pc[t] \notin {"idle", "tombstone", "restore", "ckpt", "release", "unlock",
                       "unmap", "return"}
  PROVE  /\ Asks(t, {call[t].kind}) /\ Answers(t, status, items)
         /\ Dict' = Dict /\ UNCHANGED <<open, fatal, call>>
<1> USE DEF MapInv, LockInv
<1>1. OthersKept(t) /\ pc'[t] = "unlock" /\ Reply(t, status, items)
  BY Left
<1>2. Served' = Served
  BY <1>1, ServedKept DEF shared
<1>3. Dict' = Dict
  BY <1>2, DictKept DEF shared
<1>4. Answers(t, status, items)
  BY <1>1, AnsAnswered
<1> QED
  BY <1>3, <1>4, NotAnswered DEF shared

LEMMA CheckMaps ==
  ASSUME MapInv, MapInv', NEW t \in Thread, Check(t)
  PROVE  Promise!Refuse(t) \/ UNCHANGED Promise!vars
<1> USE DEF MapInv, LockInv
<1>1. pc[t] = "check" /\ UNCHANGED <<shared, locks, call, held, seen>>
  BY DEF Check
<1>2. call[t].kind \in Reads \cup Writes
  BY <1>1, CallFacts DEF CallsOK
<1>3. {"ok", "closed", "fatal"} \subseteq Promise!Statuses /\ {} \in SUBSET (Key \X Val)
  BY DEF Promise!Statuses
<1>4. CASE open /\ (call[t].kind = "close" \/ ~fatal)
  <2>1. GoTo(t, FirstStep[call[t].kind]) /\ answer' = answer
    BY <1>4 DEF Check
  <2>2. FirstStep[call[t].kind] \notin {"tombstone", "restore", "ckpt", "release", "unmap"}
    BY <1>2 DEF FirstStep, Reads, Writes
  <2> QED
    BY <1>1, <2>1, <2>2, GoesOn DEF shared, locks
<1>5. CASE ~open /\ call[t].kind = "close"
  <2>1. Leave(t, "ok", {})
    BY <1>5 DEF Check
  <2>2. /\ Asks(t, {call[t].kind}) /\ Answers(t, "ok", {})
        /\ Dict' = Dict /\ UNCHANGED <<open, fatal, call>>
    BY <1>1, <1>3, <2>1, LeavesWith DEF locks
  <2> QED
    BY <1>5, <2>2, RefuseMaps DEF Asks
<1>6. CASE ~open /\ call[t].kind # "close"
  <2>1. Leave(t, "closed", {})
    BY <1>6 DEF Check
  <2>2. /\ Asks(t, {call[t].kind}) /\ Answers(t, "closed", {})
        /\ Dict' = Dict /\ UNCHANGED <<open, fatal, call>>
    BY <1>1, <1>3, <2>1, LeavesWith DEF locks
  <2> QED
    BY <1>2, <1>6, <2>2, RefuseMaps DEF Asks, Reads, Writes
<1>7. CASE open /\ fatal /\ call[t].kind # "close"
  <2>1. Leave(t, "fatal", {})
    BY <1>7 DEF Check
  <2>2. /\ Asks(t, {call[t].kind}) /\ Answers(t, "fatal", {})
        /\ Dict' = Dict /\ UNCHANGED <<open, fatal, call>>
    BY <1>1, <1>3, <2>1, LeavesWith DEF locks
  <2> QED
    BY <1>2, <1>7, <2>2, RefuseMaps DEF Asks, Reads, Writes
<1> QED
  BY <1>4, <1>5, <1>6, <1>7

\* Nobody writes while a thread reads: the map is the index.
LEMMA ReaderSees ==
  ASSUME MapInv, NEW t \in Thread, pc[t] \in UnderReadLock
  PROVE  open /\ ~fatal /\ index \in Dict /\ call[t] \in Promise!Calls
<1> USE DEF MapInv, LockInv
<1>1. call[t].kind \in Reads
  BY DEF CallsOK, UnderReadLock, Reads
<1>2. t \in readers
  BY <1>1 DEF LockOK, InLock
<1>3. writer = NoOne
  BY <1>2 DEF LockOK
<1>4. open /\ ~fatal
  BY DEF ServedOK
<1>5. Served = index
  BY <1>3, ServedIsIndex
<1>6. pc[t] # "idle"
  BY DEF UnderReadLock
<1> QED
  BY <1>4, <1>5, <1>6 DEF Dict, CallsOK

LEMMA LookMaps ==
  ASSUME MapInv, MapInv', NEW t \in Thread, Look(t)
  PROVE  Promise!Read(t) \/ UNCHANGED Promise!vars
<1> USE DEF MapInv, LockInv
<1>1. pc[t] = "look" /\ call[t].kind = "get" /\ UNCHANGED <<shared, locks, call, seen>>
  BY DEF Look, At, Find
<1>2. open /\ ~fatal /\ index \in Dict /\ call[t].key \in Key
  BY <1>1, ReaderSees, CallFacts DEF UnderReadLock
<1>3. CASE index[call[t].key] = Missing
  <2>1. Leave(t, "ok", {}) /\ held' = held
    BY <1>1, <1>3 DEF Look, Find
  <2>2. "ok" \in Promise!Statuses /\ {} \in SUBSET (Key \X Val)
    BY DEF Promise!Statuses
  <2>3. /\ Asks(t, {call[t].kind}) /\ Answers(t, "ok", {})
        /\ Dict' = Dict /\ UNCHANGED <<open, fatal, call>>
    BY <1>1, <2>1, <2>2, LeavesWith DEF locks
  <2>4. {} = Promise!ItemsOf(index, Promise!Live(index, {call[t].key}))
    BY <1>3 DEF Promise!ItemsOf, Promise!Live
  <2>5. Asks(t, Reads)
    BY <1>1, <2>3 DEF Asks, Reads
  <2> QED
    BY <1>1, <1>2, <2>3, <2>4, <2>5, ReadMaps
<1>4. CASE index[call[t].key] # Missing
  <2>1. GoTo(t, "value") /\ answer' = answer /\ \A u \in Thread \ {t} : held'[u] = held[u]
    BY <1>4 DEF Look, Find, TypeOK
  <2> QED
    BY <1>1, <2>1, GoesOn DEF shared, locks
<1> QED
  BY <1>3, <1>4

\* One read that leaves with the items of the index.
LEMMA ReadLeaves ==
  ASSUME MapInv, MapInv', NEW t \in Thread, pc[t] \in UnderReadLock,
         NEW items \in SUBSET (Key \X Val), Leave(t, "ok", items),
         UNCHANGED <<shared, locks, call, held>>,
         \/ /\ call[t].kind = "get"
            /\ items = Promise!ItemsOf(index, Promise!Live(index, {call[t].key}))
         \/ call[t].kind = "len" /\ items = Promise!ItemsOf(index, Promise!Live(index, Key))
         \/ /\ call[t].kind \in {"scan", "seek"}
            /\ \E S \in SUBSET call[t].keys :
                 /\ Promise!VisitedOf(call[t], Promise!Live(index, call[t].keys), S)
                 /\ items = Promise!ItemsOf(index, S)
  PROVE  Promise!Read(t)
<1> USE DEF MapInv, LockInv
<1>1. "ok" \in Promise!Statuses
  BY DEF Promise!Statuses
<1>2. pc[t] \notin {"idle", "tombstone", "restore", "ckpt", "release", "unlock", "unmap",
                    "return"}
  BY DEF UnderReadLock
<1>3. /\ Asks(t, {call[t].kind}) /\ Answers(t, "ok", items)
      /\ Dict' = Dict /\ UNCHANGED <<open, fatal, call>>
  BY <1>1, <1>2, LeavesWith DEF locks
<1>4. open /\ ~fatal /\ index \in Dict
  BY ReaderSees
<1>5. Asks(t, Reads)
  BY <1>3 DEF Asks, Reads
<1> QED
  BY <1>3, <1>4, <1>5, ReadMaps

LEMMA ValueMaps ==
  ASSUME MapInv, MapInv', NEW t \in Thread, Value(t)
  PROVE  Promise!Read(t)
<1> USE DEF MapInv, LockInv
<1>1. /\ pc[t] = "value" /\ call[t].kind = "get"
      /\ UNCHANGED <<shared, locks, call, held, seen>>
  BY DEF Value, At
<1>2. held[t] \in Val /\ held[t] = index[call[t].key] /\ held[t] # Dangling
  BY <1>1 DEF HeldOK
<1>3. call[t].key \in Key
  BY <1>1, CallFacts DEF CallsOK
<1>4. PICK items : items = {<<call[t].key, held[t]>>}
  OBVIOUS
<1>5. Leave(t, "ok", items)
  BY <1>2, <1>4 DEF Value
<1>6. items = Promise!ItemsOf(index, Promise!Live(index, {call[t].key}))
  BY <1>2, <1>4, LocksAssumption DEF Promise!ItemsOf, Promise!Live
<1>7. items \in SUBSET (Key \X Val) /\ pc[t] \in UnderReadLock
  BY <1>1, <1>2, <1>3, <1>4 DEF UnderReadLock
<1> QED
  BY <1>1, <1>5, <1>6, <1>7, ReadLeaves

LEMMA LenMaps ==
  ASSUME MapInv, MapInv', NEW t \in Thread, Len(t)
  PROVE  Promise!Read(t)
<1> USE DEF MapInv, LockInv
<1>1. PICK items : items = Promise!ItemsOf(index, Promise!Live(index, Key))
  OBVIOUS
<1>2. /\ pc[t] = "count" /\ call[t].kind = "len" /\ Leave(t, "ok", items)
      /\ UNCHANGED <<shared, locks, call, held, seen>>
  BY <1>1 DEF Len, At
<1>3. items \in SUBSET (Key \X Val) /\ pc[t] \in UnderReadLock
  BY <1>1, <1>2 DEF UnderReadLock, Promise!ItemsOf, Promise!Live, TypeOK, Content
<1> QED
  BY <1>1, <1>2, <1>3, ReadLeaves

LEMMA VisitMaps ==
  ASSUME MapInv, MapInv', NEW t \in Thread, Visit(t)
  PROVE  Promise!Read(t) \/ UNCHANGED Promise!vars
<1> USE DEF MapInv, LockInv
<1>1. /\ pc[t] = "visit" /\ call[t].kind \in {"scan", "seek"}
      /\ UNCHANGED <<shared, locks, call, held>>
  BY DEF Visit, At
<1>0. PICK k \in Ahead(t) :
        /\ \A other \in Ahead(t) \ {k} : Promise!Precedes(call[t].forward, k, other)
        /\ \/ Leave(t, "ok", seen[t] \cup {<<k, index[k]>>})
           \/ UNCHANGED <<pc, answer>>
  BY DEF Visit
<1>P. PICK items : items = seen[t] \cup {<<k, index[k]>>}
  OBVIOUS
<1>2. /\ \A other \in Ahead(t) \ {k} : Promise!Precedes(call[t].forward, k, other)
      /\ items = seen[t] \cup {<<k, index[k]>>}
      /\ Leave(t, "ok", items) \/ UNCHANGED <<pc, answer>>
  BY <1>0, <1>P
<1>3. CASE UNCHANGED <<pc, answer>>
  <2>1. OthersKept(t)
    BY <1>1, <1>3 DEF OthersKept
  <2>2. Served' = Served
    BY <1>1, <1>3, <2>1, ServedKept DEF shared, locks
  <2>3. Dict' = Dict /\ Ans' = Ans
    BY <1>1, <1>3, <2>1, <2>2, DictKept, AnsKept DEF shared
  <2> QED
    BY <1>1, <2>3, StutterMaps DEF shared
<1>4. CASE Leave(t, "ok", items)
  <2>1. PICK S \in SUBSET Key : Visited(t, S)
    BY <1>1 DEF SeenOK
  <2>2. PICK L : L = Promise!Live(index, call[t].keys)
    OBVIOUS
  <2>3. /\ L \in SUBSET Nat /\ L \in SUBSET Key /\ L \in SUBSET call[t].keys
        /\ call[t].forward \in BOOLEAN /\ S \in SUBSET L
        /\ \A y : y \in Ahead(t) <=>
             y \in L /\ \A z \in S : Promise!Precedes(call[t].forward, z, y)
    BY <1>1, <2>1, <2>2, AheadFacts
  <2>4. k \in L
    BY <2>3
  <2>5. \A x \in S, y \in L : Promise!Precedes(call[t].forward, y, x) => y \in S
    BY <2>1, <2>2 DEF Visited
  <2>6. \A y \in L \ {k} : (\A z \in S : Promise!Precedes(call[t].forward, z, y))
                              => Promise!Precedes(call[t].forward, k, y)
    BY <1>2, <2>3
  <2>7. \A x \in S \cup {k}, y \in L :
          Promise!Precedes(call[t].forward, y, x) => y \in S \cup {k}
    BY <2>3, <2>4, <2>5, <2>6, NextKey
  <2>8. items = Promise!ItemsOf(index, S \cup {k})
    BY <1>2, <2>1 DEF Visited, Promise!ItemsOf
  <2>9. call[t].kind = "seek" => \A x, y \in S \cup {k} : x = y
    BY <2>1 DEF Visited
  <2>10. Promise!VisitedOf(call[t], L, S \cup {k})
    BY <2>3, <2>4, <2>7, <2>9 DEF Promise!VisitedOf
  <2>11. items \in SUBSET (Key \X Val)
    <3>1. k \in Key /\ index[k] # Missing
      BY <2>2, <2>3, <2>4 DEF Promise!Live
    <3> QED
      BY <1>2, <3>1 DEF TypeOK, Content
  <2>12. S \cup {k} \in SUBSET call[t].keys /\ pc[t] \in UnderReadLock
    BY <1>1, <2>3, <2>4 DEF UnderReadLock
  <2>13. \E R \in SUBSET call[t].keys :
           /\ Promise!VisitedOf(call[t], Promise!Live(index, call[t].keys), R)
           /\ items = Promise!ItemsOf(index, R)
    BY <2>2, <2>8, <2>10, <2>12
  <2> QED
    BY <1>1, <1>4, <2>11, <2>12, <2>13, ReadLeaves
<1> QED
  BY <1>2, <1>3, <1>4

LEMMA VisitEndsMaps ==
  ASSUME MapInv, MapInv', NEW t \in Thread, VisitEnds(t)
  PROVE  Promise!Read(t)
<1> USE DEF MapInv, LockInv
<1>1. /\ pc[t] = "visit" /\ call[t].kind \in {"scan", "seek"} /\ Ahead(t) = {}
      /\ Leave(t, "ok", seen[t]) /\ UNCHANGED <<shared, locks, call, held>>
  BY DEF VisitEnds, At
<1>2. PICK S \in SUBSET Key : Visited(t, S)
  BY <1>1 DEF SeenOK
<1>3. PICK L : L = Promise!Live(index, call[t].keys)
  OBVIOUS
<1>4. /\ L \in SUBSET Key /\ L \in SUBSET call[t].keys /\ S \in SUBSET L
      /\ \A y : y \in Ahead(t) <=>
           y \in L /\ \A z \in S : Promise!Precedes(call[t].forward, z, y)
  BY <1>1, <1>2, <1>3, AheadFacts
<1>5. S = {} => L = {}
  BY <1>1, <1>4
<1>6. Promise!VisitedOf(call[t], L, S)
  BY <1>2, <1>3, <1>4, <1>5 DEF Promise!VisitedOf, Visited
<1>7. seen[t] = Promise!ItemsOf(index, S) /\ seen[t] \in SUBSET (Key \X Val)
  BY <1>2 DEF Visited, TypeOK
<1>8. pc[t] \in UnderReadLock /\ S \in SUBSET call[t].keys
  BY <1>1, <1>4 DEF UnderReadLock
<1>9. \E R \in SUBSET call[t].keys :
        /\ Promise!VisitedOf(call[t], Promise!Live(index, call[t].keys), R)
        /\ seen[t] = Promise!ItemsOf(index, R)
  BY <1>3, <1>6, <1>7, <1>8
<1> QED
  BY <1>1, <1>7, <1>8, <1>9, ReadLeaves

\* A writer is alone, and until it changes one of them log and index agree.
LEMMA WriterSees ==
  ASSUME MapInv, NEW t \in Thread, pc[t] \in UnderWriteLock
  PROVE  /\ t = writer /\ writer # NoOne
         /\ \A u \in Thread \ {t} : pc[u] \notin InLock
         /\ pc[t] \notin {"shut", "release"} =>
              /\ open /\ ~fatal /\ Dict = {Served}
              /\ call[t] \in Promise!Calls /\ call[t].key \in Key
         /\ pc[t] \notin {"tombstone", "restore"} => Served = index
         /\ open /\ ~fatal /\ pc[t] \notin {"apply", "tombstone", "restore"} => log = index
<1> USE DEF MapInv, LockInv
<1>1. t = writer /\ writer # NoOne
  BY InWriteLock, LocksAssumption
<1>2. \A u \in Thread \ {t} : pc[u] \notin InLock
  BY <1>1, Exclusive
<1>3. ASSUME pc[t] \notin {"shut", "release"}
      PROVE  /\ open /\ ~fatal /\ Dict = {Served}
             /\ call[t] \in Promise!Calls /\ call[t].key \in Key
  <2>1. open /\ ~fatal
    BY <1>3 DEF ServedOK
  <2>2. call[t] \in Promise!Calls /\ call[t].kind \in {"put", "delete"}
    BY <1>3 DEF CallsOK, UnderWriteLock
  <2> QED
    BY <2>1, <2>2, CallFacts DEF Dict
<1>4. pc[t] \notin {"tombstone", "restore"} => Served = index
  BY <1>1, ServedIsIndex
<1>5. ASSUME open, ~fatal, pc[t] \notin {"apply", "tombstone", "restore"} PROVE log = index
  <2>1. \A u \in Thread : pc[u] \notin {"apply", "tombstone", "restore"}
    BY <1>2, <1>5 DEF InLock, UnderWriteLock
  <2> QED
    BY <1>5, <2>1 DEF AgreeOK
<1> QED
  BY <1>1, <1>2, <1>3, <1>4, <1>5

\* The index call of a write fails: log and index are the content before the call
\* or the one after it, and it is not known which the next Open finds.
LEMMA FailsMaps ==
  ASSUME MapInv, MapInv', NEW t \in Thread,
         pc[t] \in {"apply", "remove", "restore"}, NEW after, IndexFails(t, after),
         UNCHANGED <<log, open, locks, call, held, seen>>,
         {log, index, after} \subseteq {Served, Promise!After(call[t], Served)}
  PROVE  Promise!Break(t)
<1> USE DEF MapInv, LockInv
<1>1. pc[t] \in UnderWriteLock
  BY DEF UnderWriteLock
<1>2. open /\ ~fatal /\ Served \in Dict
  BY <1>1, WriterSees
<1>3. Leave(t, "fatal", {}) /\ index' \in {index, after} /\ fatal' = TRUE
  BY DEF IndexFails
<1>4. OthersKept(t) /\ pc'[t] = "unlock" /\ Reply(t, "fatal", {})
  BY <1>3, Left
<1>5. Answers(t, "fatal", {})
  <2>1. "fatal" \in Promise!Statuses /\ {} \in SUBSET (Key \X Val)
    BY DEF Promise!Statuses
  <2> QED
    BY <1>4, <2>1, AnsAnswered
<1>6. Dict' = {log', index'}
  BY <1>2, <1>3 DEF Dict
<1>7. Asks(t, {"put", "delete"})
  <2>1. Asks(t, {call[t].kind}) /\ call[t].kind \in {"put", "delete"}
    BY NotAnswered DEF CallsOK
  <2> QED
    BY <2>1 DEF Asks
<1>8. Dict' \subseteq {Served, Promise!After(call[t], Served)} /\ Dict' # {}
  BY <1>3, <1>6
<1> QED
  BY <1>2, <1>3, <1>5, <1>7, <1>8, BreakMaps

LEMMA AppendMaps ==
  ASSUME MapInv, MapInv', NEW t \in Thread, Append(t)
  PROVE  Promise!Fail(t) \/ UNCHANGED Promise!vars
<1> USE DEF MapInv, LockInv
<1>1. /\ pc[t] = "append" /\ call[t].kind = "put"
      /\ UNCHANGED <<index, open, fatal, locks, call, held, seen>>
  BY DEF Append, At
<1>2. open /\ ~fatal
  BY <1>1, WriterSees DEF UnderWriteLock
<1>3. CASE GoTo(t, "apply") /\ answer' = answer
  BY <1>1, <1>2, <1>3, GoesOn DEF locks
<1>4. CASE Leave(t, "failed", {}) /\ log' = log
  <2>1. "failed" \in Promise!Statuses /\ {} \in SUBSET (Key \X Val)
    BY DEF Promise!Statuses
  <2>2. UNCHANGED <<shared, writer, call, held>>
    BY <1>1, <1>4 DEF shared, locks
  <2>3. /\ Asks(t, {call[t].kind}) /\ Answers(t, "failed", {})
        /\ Dict' = Dict /\ UNCHANGED <<open, fatal, call>>
    BY <1>1, <1>4, <2>1, <2>2, LeavesWith
  <2>4. Asks(t, {"put", "delete"})
    BY <1>1, <2>3 DEF Asks
  <2> QED
    BY <1>2, <2>3, <2>4, FailMaps
<1> QED
  BY <1>3, <1>4 DEF Append

LEMMA ApplyMaps ==
  ASSUME MapInv, MapInv', NEW t \in Thread, Apply(t)
  PROVE  Promise!Change(t) \/ Promise!Break(t)
<1> USE DEF MapInv, LockInv
<1>1. /\ pc[t] = "apply" /\ call[t].kind = "put"
      /\ UNCHANGED <<log, open, locks, call, held, seen>>
  BY DEF Apply, At
<1>2. /\ t = writer /\ writer # NoOne /\ open /\ ~fatal /\ Dict = {Served} /\ Served = index
  BY <1>1, WriterSees DEF UnderWriteLock
<1>3. PICK after : after = [index EXCEPT ![call[t].key] = call[t].val]
  OBVIOUS
<1>4. log = after /\ after = Promise!After(call[t], Served)
  BY <1>1, <1>2, <1>3 DEF Unlogged, Promise!After
<1>5. CASE index' = after /\ GoTo(t, "ckpt") /\ UNCHANGED <<fatal, answer>>
  <2>1. OthersKept(t) /\ pc'[t] = "ckpt"
    BY <1>1, <1>5, GoneTo
  <2>2. Served' = after
    BY <1>1, <1>2, <1>5, <2>1, ServedIsIndexNext DEF locks
  <2>3. Dict' = {Promise!After(call[t], Served)}
    BY <1>1, <1>2, <1>4, <1>5, <2>2 DEF Dict
  <2>4. Asks(t, {"put", "delete"})
    BY <1>1, NotAnswered DEF Asks
  <2>5. answer'[t] = NoAnswer
    BY <1>1, <1>5 DEF AnswerOK
  <2>6. Ans' = [Ans EXCEPT ![t] = Changed]
    BY <2>1, <2>5, AnsChanged
  <2>7. Served \in Dict
    BY <1>2
  <2> QED
    BY <1>1, <1>2, <1>5, <2>3, <2>4, <2>6, <2>7, ChangeMaps
<1>6. CASE IndexFails(t, after)
  BY <1>1, <1>2, <1>4, <1>6, FailsMaps
<1> QED
  BY <1>3, <1>5, <1>6 DEF Apply

LEMMA FindDeletedMaps ==
  ASSUME MapInv, MapInv', NEW t \in Thread, FindDeleted(t)
  PROVE  Promise!DeleteAbsent(t) \/ UNCHANGED Promise!vars
<1> USE DEF MapInv, LockInv
<1>1. pc[t] = "find" /\ call[t].kind = "delete" /\ UNCHANGED <<shared, locks, call, seen>>
  BY DEF FindDeleted, At, Find
<1>2. open /\ ~fatal /\ Dict = {index}
  BY <1>1, WriterSees DEF UnderWriteLock
<1>3. CASE index[call[t].key] = Missing
  <2>1. Leave(t, "absent", {}) /\ held' = held
    BY <1>1, <1>3 DEF FindDeleted, Find
  <2>2. "absent" \in Promise!Statuses /\ {} \in SUBSET (Key \X Val)
    BY DEF Promise!Statuses
  <2>3. /\ Asks(t, {call[t].kind}) /\ Answers(t, "absent", {})
        /\ Dict' = Dict /\ UNCHANGED <<open, fatal, call>>
    BY <1>1, <2>1, <2>2, LeavesWith DEF locks
  <2>4. index \in Dict
    BY <1>2
  <2> QED
    BY <1>1, <1>2, <1>3, <2>3, <2>4, DeleteAbsentMaps DEF Asks
<1>4. CASE index[call[t].key] # Missing
  <2>1. GoTo(t, "remove") /\ answer' = answer /\ \A u \in Thread \ {t} : held'[u] = held[u]
    BY <1>4 DEF FindDeleted, Find, TypeOK
  <2> QED
    BY <1>1, <2>1, GoesOn DEF shared, locks
<1> QED
  BY <1>3, <1>4

LEMMA RemoveMaps ==
  ASSUME MapInv, MapInv', NEW t \in Thread, Remove(t)
  PROVE  Promise!Break(t) \/ UNCHANGED Promise!vars
<1> USE DEF MapInv, LockInv
<1>1. /\ pc[t] = "remove" /\ call[t].kind = "delete"
      /\ UNCHANGED <<log, open, locks, call, held, seen>>
  BY DEF Remove, At
<1>2. /\ t = writer /\ writer # NoOne /\ open /\ ~fatal /\ Dict = {Served} /\ Served = index
      /\ log = index /\ call[t].key \in Key
  BY <1>1, WriterSees DEF UnderWriteLock
<1>3. PICK after : after = [index EXCEPT ![call[t].key] = Missing]
  OBVIOUS
<1>4. after = Promise!After(call[t], Served) /\ held[t] = index[call[t].key]
  BY <1>1, <1>2, <1>3 DEF Promise!After, HeldOK
<1>5. CASE index' = after /\ GoTo(t, "tombstone") /\ UNCHANGED <<fatal, answer>>
  <2>1. OthersKept(t) /\ pc'[t] = "tombstone"
    BY <1>1, <1>5, GoneTo
  <2>2. Served' = [after EXCEPT ![call[t].key] = held[t]]
    <3>1. writer' = t /\ call' = call /\ held' = held
      BY <1>1, <1>2 DEF locks
    <3> QED
      BY <1>2, <1>5, <2>1, <3>1, ServedOfDeleteNext
  <2>3. Served' = Served
    BY <1>2, <1>3, <1>4, <2>2 DEF TypeOK, Content
  <2>4. Dict' = Dict
    BY <1>1, <1>2, <1>5, <2>3, DictKept
  <2>5. Ans' = Ans
    BY <1>1, <1>5, <2>1, AnsKept
  <2> QED
    BY <1>1, <1>5, <2>4, <2>5, StutterMaps
<1>6. CASE IndexFails(t, after)
  BY <1>1, <1>2, <1>4, <1>6, FailsMaps
<1> QED
  BY <1>3, <1>5, <1>6 DEF Remove

\* Between Remove and the record or its refusal, the log has the content that is
\* served, and the index the one after the Delete.
LEMMA DeleteSees ==
  ASSUME MapInv, NEW t \in Thread, pc[t] \in {"tombstone", "restore"}
  PROVE  /\ t = writer /\ writer # NoOne /\ open /\ ~fatal /\ Dict = {Served}
         /\ call[t].kind = "delete" /\ call[t].key \in Key
         /\ Served = [index EXCEPT ![call[t].key] = held[t]] /\ log = Served
         /\ Served[call[t].key] # Missing
         /\ index = Promise!After(call[t], Served)
<1> USE DEF MapInv, LockInv
<1>1. /\ t = writer /\ writer # NoOne /\ open /\ ~fatal /\ Dict = {Served}
      /\ call[t].key \in Key
  BY WriterSees DEF UnderWriteLock
<1>2. call[t].kind = "delete"
  BY DEF CallsOK
<1>3. Served = [index EXCEPT ![call[t].key] = held[t]]
  BY <1>1, ServedOfDelete
<1>4. /\ held[t] \in Val /\ index[call[t].key] = Missing
      /\ log = [index EXCEPT ![call[t].key] = held[t]]
  BY DEF HeldOK, Unlogged
<1>5. Served[call[t].key] # Missing
  BY <1>1, <1>3, <1>4, LocksAssumption DEF TypeOK, Content
<1>6. index = [Served EXCEPT ![call[t].key] = Missing]
  BY <1>1, <1>3, <1>4 DEF TypeOK, Content
<1>7. index = Promise!After(call[t], Served)
  BY <1>2, <1>6 DEF Promise!After
<1> QED
  BY <1>1, <1>2, <1>3, <1>4, <1>5, <1>7

LEMMA TombstoneMaps ==
  ASSUME MapInv, MapInv', NEW t \in Thread, Tombstone(t)
  PROVE  Promise!Change(t) \/ UNCHANGED Promise!vars
<1> USE DEF MapInv, LockInv
<1>1. /\ pc[t] = "tombstone" /\ call[t].kind = "delete"
      /\ UNCHANGED <<index, open, fatal, locks, call, held, seen, answer>>
  BY DEF Tombstone, At
<1>2. /\ t = writer /\ writer # NoOne /\ open /\ ~fatal /\ Dict = {Served}
      /\ Served = [index EXCEPT ![call[t].key] = held[t]]
      /\ Served[call[t].key] # Missing
      /\ index = Promise!After(call[t], Served)
  BY <1>1, DeleteSees
<1>3. CASE GoTo(t, "ckpt")
  <2>1. OthersKept(t) /\ pc'[t] = "ckpt"
    BY <1>1, <1>3, GoneTo
  <2>2. Served' = index
    BY <1>1, <1>2, <2>1, ServedIsIndexNext DEF locks
  <2>3. Dict' = {Promise!After(call[t], Served)}
    BY <1>1, <1>2, <2>2 DEF Dict
  <2>4. Asks(t, {"put", "delete"})
    BY <1>1, NotAnswered DEF Asks
  <2>5. answer'[t] = NoAnswer
    BY <1>1 DEF AnswerOK
  <2>6. Ans' = [Ans EXCEPT ![t] = Changed]
    BY <2>1, <2>5, AnsChanged
  <2>7. Served \in Dict
    BY <1>2
  <2> QED
    BY <1>1, <1>2, <2>3, <2>4, <2>6, <2>7, ChangeMaps
<1>4. CASE GoTo(t, "restore") /\ log' = log
  <2>1. OthersKept(t) /\ pc'[t] = "restore"
    BY <1>1, <1>4, GoneTo
  <2>2. Served' = Served
    <3>1. writer' = t /\ call' = call /\ held' = held /\ index' = index
      BY <1>1, <1>2 DEF locks
    <3> QED
      BY <1>2, <2>1, <3>1, ServedOfDeleteNext
  <2>3. Dict' = Dict
    BY <1>1, <1>2, <2>2, DictKept
  <2>4. Ans' = Ans
    BY <1>1, <2>1, AnsKept
  <2> QED
    BY <1>1, <2>3, <2>4, StutterMaps
<1> QED
  BY <1>3, <1>4 DEF Tombstone

LEMMA RestoreMaps ==
  ASSUME MapInv, MapInv', NEW t \in Thread, Restore(t)
  PROVE  Promise!Fail(t) \/ Promise!Break(t)
<1> USE DEF MapInv, LockInv
<1>1. /\ pc[t] = "restore" /\ call[t].kind = "delete"
      /\ UNCHANGED <<log, open, locks, call, held, seen>>
  BY DEF Restore, At
<1>2. /\ t = writer /\ writer # NoOne /\ open /\ ~fatal /\ Dict = {Served}
      /\ Served = [index EXCEPT ![call[t].key] = held[t]] /\ log = Served
      /\ index = Promise!After(call[t], Served)
  BY <1>1, DeleteSees
<1>3. PICK after : after = [index EXCEPT ![call[t].key] = held[t]]
  OBVIOUS
<1>4. CASE index' = after /\ Leave(t, "failed", {}) /\ UNCHANGED fatal
  <2>1. OthersKept(t) /\ pc'[t] = "unlock" /\ Reply(t, "failed", {})
    BY <1>1, <1>4, Left
  <2>2. Served' = Served
    BY <1>1, <1>2, <1>3, <1>4, <2>1, ServedIsIndexNext DEF locks
  <2>3. Dict' = Dict
    BY <1>1, <1>2, <1>4, <2>2, DictKept
  <2>4. Answers(t, "failed", {})
    <3>1. "failed" \in Promise!Statuses /\ {} \in SUBSET (Key \X Val)
      BY DEF Promise!Statuses
    <3> QED
      BY <2>1, <3>1, AnsAnswered
  <2>5. Asks(t, {"put", "delete"})
    BY <1>1, NotAnswered DEF Asks
  <2> QED
    BY <1>1, <1>2, <1>4, <2>3, <2>4, <2>5, FailMaps
<1>5. CASE IndexFails(t, after)
  BY <1>1, <1>2, <1>3, <1>5, FailsMaps
<1> QED
  BY <1>3, <1>4, <1>5 DEF Restore

\* Nobody but the writer holds a position, so none is left dangling.
LEMMA NoneDangles ==
  ASSUME MapInv, NEW t \in Thread, pc[t] \in UnderWriteLock, OthersDangle(t)
  PROVE  held' = held
<1> USE DEF MapInv, LockInv
<1>1. \A u \in Thread \ {t} : held[u] = NoValue
  BY WriterSees DEF HeldOK
<1> QED
  BY <1>1 DEF OthersDangle, TypeOK

LEMMA CheckpointMaps ==
  ASSUME MapInv, MapInv', NEW t \in Thread, CheckpointIfNeeded(t)
  PROVE  Promise!Done(t)
<1> USE DEF MapInv, LockInv
<1>1. /\ pc[t] = "ckpt" /\ pc[t] \in UnderWriteLock
      /\ UNCHANGED <<index, open, fatal, locks, call, seen>>
  BY DEF CheckpointIfNeeded, At, UnderWriteLock
<1>2. PICK status \in {"ok", "failed"} : Leave(t, status, {})
  BY DEF CheckpointIfNeeded
<1>3. held' = held
  BY <1>1, NoneDangles DEF CheckpointIfNeeded
<1>4. /\ t = writer /\ open /\ ~fatal /\ Served = index
  BY <1>1, WriterSees
<1>5. OthersKept(t) /\ pc'[t] = "unlock" /\ Reply(t, status, {})
  BY <1>1, <1>2, <1>3, Left
<1>6. Served' = Served
  BY <1>1, <1>4, <1>5, ServedIsIndexNext DEF locks
<1>7. Dict' = Dict
  BY <1>1, <1>4, <1>6, DictKept
<1>8. Answers(t, status, {})
  <2>1. status \in Promise!Statuses /\ {} \in SUBSET (Key \X Val)
    BY DEF Promise!Statuses
  <2> QED
    BY <1>5, <2>1, AnsAnswered
<1>9. Ans[t] = Changed
  <2>1. answer[t] = NoAnswer
    BY <1>1 DEF AnswerOK
  <2> QED
    BY <1>1, <2>1 DEF Ans, TookEffect
<1> QED
  BY <1>1, <1>7, <1>8, <1>9, DoneMaps

LEMMA ShutMaps ==
  ASSUME MapInv, MapInv', NEW t \in Thread, Shut(t)
  PROVE  Promise!Close(t)
<1> USE DEF MapInv, LockInv
<1>1. /\ pc[t] = "shut" /\ pc[t] \in UnderWriteLock /\ call[t].kind = "close"
      /\ open' = FALSE /\ UNCHANGED <<fatal, locks, call, seen>> /\ GoTo(t, "release")
  BY DEF Shut, At, UnderWriteLock
<1>2. held' = held
  BY <1>1, NoneDangles DEF Shut
<1>3. open /\ Served = index /\ (~fatal => log = index)
  BY <1>1, WriterSees DEF ServedOK
<1>4. log' \in Dict /\ Dict' = {log'}
  <2>1. log' \in {log, index}
    BY DEF Shut
  <2> QED
    BY <1>1, <1>3, <2>1 DEF Dict
<1>5. Asks(t, {"close"})
  BY <1>1, NotAnswered
<1>6. CASE answer' = answer
  <2>1. OthersKept(t) /\ pc'[t] = "release"
    BY <1>1, <1>2, <1>6, GoneTo
  <2>2. answer'[t] = NoAnswer
    BY <1>1, <1>6 DEF AnswerOK
  <2>3. Ans' = [Ans EXCEPT ![t] = Changed]
    BY <2>1, <2>2, AnsChanged
  <2> QED
    BY <1>1, <1>3, <1>4, <1>5, <2>3, CloseMaps
<1>7. CASE Reply(t, "failed", {})
  <2>1. OthersKept(t)
    BY <1>1, <1>2, <1>7 DEF GoTo, Reply, TypeOK, OthersKept
  <2>2. "failed" \in Promise!Statuses /\ {} \in SUBSET (Key \X Val)
    BY DEF Promise!Statuses
  <2>3. Answers(t, "failed", {})
    BY <1>7, <2>1, <2>2, AnsAnswered
  <2> QED
    BY <1>1, <1>3, <1>4, <1>5, <2>3, CloseMaps
<1> QED
  BY <1>6, <1>7 DEF Shut

LEMMA UnlockMaps ==
  ASSUME MapInv, MapInv', NEW t \in Thread, Unlock(t)
  PROVE  UNCHANGED Promise!vars
<1> USE DEF MapInv, LockInv
<1>1. /\ pc[t] \in {"unlock", "release"} /\ UNCHANGED <<shared, call, answer>>
      /\ GoTo(t, IF pc[t] = "release" THEN "unmap" ELSE "return")
      /\ \A u \in Thread \ {t} : held'[u] = held[u]
  BY DEF Unlock, TypeOK
<1>2. OthersKept(t) /\ pc'[t] = IF pc[t] = "release" THEN "unmap" ELSE "return"
  BY <1>1, GoneTo
<1>3. writer' = writer \/ {writer, writer'} \subseteq {NoOne, t}
  BY DEF Unlock
<1>4. Served' = Served
  BY <1>1, <1>2, <1>3, ServedKept DEF shared
<1>5. Dict' = Dict /\ Ans' = Ans
  BY <1>1, <1>2, <1>4, DictKept, AnsKept DEF shared, AnswerOK
<1> QED
  BY <1>1, <1>5, StutterMaps DEF shared

LEMMA UnmapMaps ==
  ASSUME MapInv, MapInv', NEW t \in Thread, Unmap(t)
  PROVE  Promise!Done(t) \/ UNCHANGED Promise!vars
<1> USE DEF MapInv, LockInv
<1>1. /\ pc[t] = "unmap" /\ GoTo(t, "return")
      /\ UNCHANGED <<shared, locks, call, held, seen>>
  BY DEF Unmap, At
<1>2. OthersKept(t) /\ pc'[t] = "return"
  <2>1. answer' = answer \/ \E status \in {"ok", "failed"} : Reply(t, status, {})
    BY DEF Unmap
  <2> QED
    BY <1>1, <2>1 DEF GoTo, Reply, TypeOK, OthersKept
<1>3. Served' = Served
  BY <1>1, <1>2, ServedKept DEF shared, locks
<1>4. Dict' = Dict
  BY <1>1, <1>3, DictKept DEF shared
<1>5. CASE answer[t] # NoAnswer
  <2>1. answer' = answer
    BY <1>5 DEF Unmap
  <2>2. Ans' = Ans
    BY <1>2, <1>5, <2>1, AnsKept
  <2> QED
    BY <1>1, <1>4, <2>2, StutterMaps DEF shared
<1>6. CASE answer[t] = NoAnswer
  <2>1. PICK status \in {"ok", "failed"} : Reply(t, status, {})
    BY <1>6 DEF Unmap
  <2>2. Answers(t, status, {})
    <3>1. status \in Promise!Statuses /\ {} \in SUBSET (Key \X Val)
      BY DEF Promise!Statuses
    <3> QED
      BY <1>2, <2>1, <3>1, AnsAnswered
  <2>3. Ans[t] = Changed
    BY <1>1, <1>6 DEF Ans, TookEffect
  <2> QED
    BY <1>1, <1>4, <2>2, <2>3, DoneMaps DEF shared
<1> QED
  BY <1>5, <1>6

LEMMA EndMaps ==
  ASSUME MapInv, MapInv', NEW t \in Thread, Return(t)
  PROVE  Promise!Return(t)
<1> USE DEF MapInv, LockInv
<1>1. /\ pc[t] = "return" /\ GoTo(t, "idle") /\ call' = [call EXCEPT ![t] = NoCall]
      /\ answer' = [answer EXCEPT ![t] = NoAnswer] /\ UNCHANGED <<shared, locks, held, seen>>
  BY DEF Return
<1>2. OthersKept(t) /\ pc'[t] = "idle" /\ answer'[t] = NoAnswer
  BY <1>1 DEF GoTo, TypeOK, OthersKept
<1>3. answer[t] # NoAnswer /\ answer[t] \in Promise!Answers
  BY <1>1 DEF AnswerOK, TypeOK
<1>4. Ans[t] \in Promise!Answers
  BY <1>3 DEF Ans, TookEffect
<1>5. Ans' = [Ans EXCEPT ![t] = NoAnswer]
  BY <1>2 DEF Ans, TookEffect, OthersKept
<1>6. Served' = Served
  BY <1>1, <1>2, ServedKept DEF shared, locks
<1>7. Dict' = Dict
  BY <1>1, <1>6, DictKept DEF shared
<1> QED
  BY <1>1, <1>4, <1>5, <1>7, ReturnMaps DEF shared

\* Nothing happens.
LEMMA IdleMaps ==
  ASSUME UNCHANGED vars
  PROVE  UNCHANGED Promise!vars
<1>1. Dict' = Dict /\ Ans' = Ans
  BY DEF Dict, Served, Ans, TookEffect, vars, shared, locks, locals
<1> QED
  BY <1>1, StutterMaps DEF vars, shared, locals

LEMMA StepMaps ==
  ASSUME MapInv, MapInv', [Next]_vars
  PROVE  [Promise!Next]_(Promise!vars)
<1>1. ASSUME NEW t \in Thread, Invoke(t) \/ RLock(t) \/ Lock(t)
      PROVE  [Promise!Next]_(Promise!vars)
  BY <1>1, StartMaps, LockMaps DEF Promise!Next
<1>2. ASSUME NEW t \in Thread,
             Check(t) \/ Look(t) \/ Value(t) \/ Len(t) \/ Visit(t) \/ VisitEnds(t)
      PROVE  [Promise!Next]_(Promise!vars)
  BY <1>2, CheckMaps, LookMaps, ValueMaps, LenMaps, VisitMaps, VisitEndsMaps
     DEF Promise!Next
<1>3. ASSUME NEW t \in Thread,
             \/ Append(t) \/ Apply(t) \/ FindDeleted(t) \/ Remove(t) \/ Tombstone(t)
             \/ Restore(t) \/ CheckpointIfNeeded(t)
      PROVE  [Promise!Next]_(Promise!vars)
  BY <1>3, AppendMaps, ApplyMaps, FindDeletedMaps, RemoveMaps, TombstoneMaps,
     RestoreMaps, CheckpointMaps DEF Promise!Next
<1>4. ASSUME NEW t \in Thread, Shut(t) \/ Unlock(t) \/ Unmap(t) \/ Return(t)
      PROVE  [Promise!Next]_(Promise!vars)
  BY <1>4, ShutMaps, UnlockMaps, UnmapMaps, EndMaps DEF Promise!Next
<1>5. CASE UNCHANGED vars
  BY <1>5, IdleMaps
<1> QED
  BY <1>1, <1>2, <1>3, <1>4, <1>5 DEF Next, Step


\* The inductive invariant of the refinement holds in every reachable state.
THEOREM MapInvHolds == Spec => []MapInv
<1>1. Init => MapInv
  <2>1. Init => LockInv
    BY InitLocked
  <2>2. Init => AnswerOK /\ SeenOK
    BY DEF Init, AnswerOK, SeenOK
  <2> QED
    BY <2>1, <2>2 DEF MapInv
<1>2. MapInv /\ [Next]_vars => MapInv'
  <2> SUFFICES ASSUME MapInv, [Next]_vars PROVE MapInv'
    OBVIOUS
  <2>1. LockInv'
    BY LockStep DEF MapInv
  <2> QED
    BY <2>1, AnswerNext, SeenNext DEF MapInv
<1> QED
  BY <1>1, <1>2, PTL DEF Spec

LEMMA InitOfCalls == Init => Promise!Init
<1> SUFFICES ASSUME Init PROVE Promise!Init
  OBVIOUS
<1>1. Served = index /\ open /\ ~fatal /\ log \in Promise!Content
  BY DEF Init, Served, Content, Promise!Content
<1>2. Ans = [t \in Thread |-> NoAnswer]
  BY DEF Init, Ans, TookEffect
<1>3. Dict = {log}
  BY <1>1 DEF Init, Dict
<1> QED
  BY <1>1, <1>2, <1>3 DEF Init, Promise!Init, Dict, Ans

\* Gets, scans, writes and Close of any number of threads behave as if each
\* happened at one moment between its start and its return, whichever append,
\* index call, checkpoint or unmap fails.
THEOREM SharedStoreImplementsCalls == Spec => ImplementsCalls
<1>1. ASSUME MapInv, MapInv', [Next]_vars PROVE [Promise!Next]_(Promise!vars)
  BY <1>1, StepMaps
<1> QED
  BY <1>1, InitOfCalls, MapInvHolds, PTL DEF Spec, ImplementsCalls, Promise!Spec
=============================================================================
