------------------------------ MODULE KVStore ------------------------------
(***************************************************************************)
(* What minweight_store promises its caller, seen from outside: a map from *)
(* keys to values.  Put and Delete change one key, atomically; opening,    *)
(* closing, checkpointing and a crash of the process change nothing.       *)
(* Module Store implements this specification.                             *)
(***************************************************************************)
CONSTANTS Key,      \* the keys
          Val,      \* the values
          Missing   \* the absent value

VARIABLES dict,     \* dict[k] is the value of k, or Missing
          up        \* TRUE while a process has the store open

vars == <<dict, up>>

Content == [Key -> Val \cup {Missing}]

TypeOK == /\ dict \in Content
          /\ up \in BOOLEAN

Init == /\ dict = [k \in Key |-> Missing]
        /\ up = FALSE

\* Open rebuilds the map that earlier processes left.
Open == /\ ~up
        /\ up' = TRUE
        /\ UNCHANGED dict

\* Close, or the death of the process, at any moment.
Stop == /\ up
        /\ up' = FALSE
        /\ UNCHANGED dict

Put(k, v) == /\ up
             /\ dict' = [dict EXCEPT ![k] = v]
             /\ UNCHANGED up

\* Deleting an absent key writes nothing and is a stuttering step.
Delete(k) == /\ up
             /\ dict[k] # Missing
             /\ dict' = [dict EXCEPT ![k] = Missing]
             /\ UNCHANGED up

Next == \/ Open
        \/ Stop
        \/ \E k \in Key : \/ Delete(k)
                          \/ \E v \in Val : Put(k, v)

Spec == Init /\ [][Next]_vars
=============================================================================
