---------------------------- MODULE MCStoreLocks ----------------------------
(* Instances of StoreLocks for TLC. *)
EXTENDS StoreLocksProofs, TLC

CONSTANTS t1, t2, v1, v2

MCThread == {t1, t2}
MCKey == {1, 2}
MCOneKey == {1}
MCVal == {v1, v2}
MCOneVal == {v1}

MCRanges == {{1, 2}, {2}}
MCOneRange == {{1}}

MCSymmetry == Permutations({t1, t2}) \cup Permutations({v1, v2})
=============================================================================
