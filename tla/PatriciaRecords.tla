--------------------------- MODULE PatriciaRecords ---------------------------
(***************************************************************************)
(* An Index over a HeapRecordStore, and the client between them (NewHeap   *)
(* in minpatricia.h; the order of its calls is that of the tests): a new   *)
(* record is added before its position goes into the index, and the record *)
(* that the index answered with is freed afterwards, so that its position  *)
(* is given to another record, often of another key.  The index keeps      *)
(* positions only, and asks for the key of one whenever it compares.       *)
(*                                                                         *)
(* A position here is [key, slot]: slot is the number the index holds, and *)
(* key the one that Patricia reads there; EveryPositionResolves is what    *)
(* makes that reading right.                                               *)
(***************************************************************************)
EXTENDS Patricia

CONSTANTS Dead,         \* a record that is not live
          NoCall        \* the client is between two operations

VARIABLES records,      \* HeapRecordStore::records_, free_ and live_
          unused,
          live,
          pending       \* the client: NoCall, the position it is about to put,
                        \* or the one it is about to free

store == INSTANCE HeapRecords WITH RecordKey <- Key

recordVars == <<records, unused, live>>
allVars    == <<vars, recordVars, pending>>

ToPut(pos)  == [put |-> pos]
ToFree(pos) == [free |-> pos]

IsPut  == pending # NoCall /\ "put" \in DOMAIN pending
IsFree == pending # NoCall /\ "free" \in DOMAIN pending

StartInit == Init /\ store!Init /\ pending = NoCall

\* Position bounds how many records there can be.
AddRecord(key) ==
    LET pos == [key |-> key, slot |-> store!NextPosition]
    IN  /\ pending = NoCall
        /\ ok
        /\ pos \in Position
        /\ store!Add(key)
        /\ pending' = ToPut(pos)
        /\ UNCHANGED vars

\* Put, and what the client does with its answer.
PutRecord ==
    /\ IsPut
    /\ Put(pending.put)
    /\ LET old == InsertOrReplace(Now, pending.put).old
       IN  pending' = IF old = NoPos THEN NoCall ELSE ToFree(old)
    /\ UNCHANGED recordVars

RetargetRecord ==
    /\ IsPut
    /\ LET old == Get(Now, pending.put.key)
       IN  /\ old # NoPos
           /\ Retarget(old, pending.put)
           /\ pending' = ToFree(old)
    /\ UNCHANGED recordVars

DeleteRecord(key) ==
    /\ pending = NoCall
    /\ Delete(key)
    /\ LET old == DeleteKey(Now, key).old
       IN  pending' = IF old = NoPos THEN NoCall ELSE ToFree(old)
    /\ UNCHANGED recordVars

FreeRecord ==
    /\ IsFree
    /\ store!Free(pending.free.slot)
    /\ pending' = NoCall
    /\ UNCHANGED vars

ReopenIndex == Reopen /\ UNCHANGED <<recordVars, pending>>

RecordsNext ==
    \/ \E key \in Key : AddRecord(key) \/ DeleteRecord(key)
    \/ PutRecord \/ RetargetRecord \/ FreeRecord
    \/ ReopenIndex

RecordsSpec == StartInit /\ [][RecordsNext]_allVars

-----------------------------------------------------------------------------
\* Between any two calls of the client, every position that a page holds, also
\* as its first or last, leads to a live record with the key the page was
\* ordered by: no page remembers a position that Put, Delete or Retarget gave
\* up, at which another key may be by now (Index::Put, Delete and
\* PropagateBoundary; HeapRecordStore::Add and Free).
EveryPositionResolves ==
    \A id \in Live :
        LET page == nodes[id]
            held == {rep \in ToSet(page.reps) : ~IsChild(rep)}
                    \cup ({page.first, page.last} \ {NoPos})
        IN  \A pos \in held :
                pos.slot \in DOMAIN records /\ records[pos.slot] = pos.key

\* The live records are those of the index and the one the client is handling,
\* each once, and the others are on the free list, once: every position that
\* Put and Delete answer with is one the index let go, and no record is lost
\* (HeapRecordStore::Add and Free; Index::Put and Delete).
RecordsOwned ==
    LET indexed == Records(Now, Root)
        slots   == {pos.slot : pos \in ToSet(indexed)}
        held    == IF IsPut THEN {pending.put.slot}
                   ELSE IF IsFree THEN {pending.free.slot} ELSE {}
    IN  /\ Cardinality(slots) = Len(indexed)
        /\ slots \cap held = {}
        /\ {s \in DOMAIN records : records[s] # Dead} = slots \cup held
        /\ store!FreeListIsDead
=============================================================================
