-------------------------- MODULE MCPatriciaRecords --------------------------
(* An instance of PatriciaRecords for TLC: few keys, and a slot for each, so *)
(* that a record is replaced while all other keys but one are held.          *)
EXTENDS PatriciaRecords

\* Keys that are prefixes of others, and keys that stay together in a page
\* below the root when the others go.
MCKeys == {<<>>, <<1>>, <<2>>, <<2, 0>>, <<3>>}

MCPositions == [key : MCKeys, slot : 1 .. Cardinality(MCKeys)]
=============================================================================
