------------------------------ MODULE MCStore ------------------------------
(* Instances of Store for TLC. *)
EXTENDS StoreInv, TLC

CONSTANTS k1, k2, v1, v2, big

MCKey == {k1, k2}
MCVal == {v1, v2, big}
MCOversize == {big}
MCOneVal == {v1, big}
MCSmallVal == {v1, v2}

\* Keys are alike, and so are the values that fit.
MCSymmetry == Permutations({k1, k2}) \cup Permutations({v1, v2})
MCKeySymmetry == Permutations({k1, k2})

\* Every failure but that of a removal.
MCSwitchFaults == FaultNames \ {"unlink"}

\* Every failure after which the store keeps its promises.
MCSafeFaults == {"open", "rollover", "snapshot", "dirs", "manifest", "unlink"}
=============================================================================
