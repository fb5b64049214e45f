----------------------------- MODULE MCPatricia -----------------------------
(* Instances of Patricia for TLC: few keys. *)
EXTENDS Patricia, PatriciaKeysProofs

\* A key that is a prefix of others, a byte that parts late, and neighbours.
MCKeys == {<<>>, <<0>>, <<0, 0>>, <<0, 1>>, <<1>>, <<2>>, <<3>>}

\* The keys that are written again under a second position.
MCRewritten == {<<0>>, <<1>>}

MCPositions == [key : MCKeys, ver : {0}] \cup [key : MCRewritten, ver : {1}]
=============================================================================
