----------------------------- MODULE HeapRecords -----------------------------
(***************************************************************************)
(* minpatricia::HeapRecordStore (record_store.h): records found by their   *)
(* position.  records_[0] is never live and no record is ever at position  *)
(* 0, so that records holds the positions from 1 on.  A record is its key; *)
(* the value that a client keeps with it is left out.                      *)
(***************************************************************************)
EXTENDS Naturals, Sequences, FiniteSets, SequencesExt

CONSTANTS RecordKey,    \* keys of records
          Dead          \* a record that is not live, no member of RecordKey

VARIABLES records,  \* records_ from position 1 on: a key, or Dead
          unused,   \* free_, a stack of positions
          live      \* live_

recordVars == <<records, unused, live>>

IsLive(pos) == pos \in DOMAIN records /\ records[pos] # Dead

\* The position that Add gives.
NextPosition == IF unused = <<>> THEN Len(records) + 1 ELSE Last(unused)

Init == records = <<>> /\ unused = <<>> /\ live = 0

\* Mutant: the position that is given again stays on the free list.
AddWithoutPop(key) ==
    /\ records' = IF unused = <<>> THEN Append(records, key)
                  ELSE [records EXCEPT ![Last(unused)] = key]
    /\ UNCHANGED unused
    /\ live' = live + 1

Add(key) ==
    /\ IF unused = <<>>
       THEN records' = Append(records, key) /\ UNCHANGED unused
       ELSE /\ records' = [records EXCEPT ![Last(unused)] = key]
            /\ unused' = Front(unused)
    /\ live' = live + 1

\* Position 0, a position beyond the last and a dead record are refused.
Free(pos) ==
    IF IsLive(pos)
    THEN /\ records' = [records EXCEPT ![pos] = Dead]
         /\ unused' = Append(unused, pos)
         /\ live' = live - 1
    ELSE UNCHANGED recordVars

Next == \/ \E key \in RecordKey : Add(key)
        \/ \E pos \in Nat : Free(pos)

Spec == Init /\ [][Next]_recordVars

-----------------------------------------------------------------------------
\* The free list holds every dead position, once, and Len counts the others
\* (HeapRecordStore::Add, Free): no position is given to two records, and none
\* is lost.
FreeListIsDead ==
    /\ ToSet(unused) = {pos \in DOMAIN records : records[pos] = Dead}
    /\ Len(unused) = Cardinality(ToSet(unused))
    /\ live = Cardinality({pos \in DOMAIN records : records[pos] # Dead})
=============================================================================
