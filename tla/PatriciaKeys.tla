---------------------------- MODULE PatriciaKeys ----------------------------
(***************************************************************************)
(* Keys, critical bits and routes of minpatricia: diff.h and the value     *)
(* class Route of node_page.h.  A key is a sequence of bytes of            *)
(* BitsPerByte bits (8 in the code).  Each byte has Width = BitsPerByte+1  *)
(* diff numbers: the first asks whether the byte exists, the others ask    *)
(* for its bits from the highest down, so that a key comes before every    *)
(* longer key it is a prefix of.                                           *)
(***************************************************************************)
EXTENDS Integers, Sequences

CONSTANT BitsPerByte    \* bits in a byte of a key

ASSUME BitsAssumption == BitsPerByte \in Nat \ {0}

Width == BitsPerByte + 1
Byte  == 0 .. 2^BitsPerByte - 1

AnyKey == Seq(Byte)

-----------------------------------------------------------------------------
(* CompareAndDiffBit *)

Shorter(a, b) == IF Len(a) < Len(b) THEN Len(a) ELSE Len(b)

\* The number of leading bytes in which a and b agree.
Agreed(a, b) ==
    CHOOSE i \in 0 .. Shorter(a, b) :
        /\ \A j \in 1 .. i : a[j] = b[j]
        /\ i < Shorter(a, b) => a[i + 1] # b[i + 1]

\* Bit i of a byte, the highest being bit 1.
Bit(byte, i) == (byte \div 2^(BitsPerByte - i)) % 2

FirstDifferentBit(x, y) ==
    CHOOSE i \in 1 .. BitsPerByte :
        /\ Bit(x, i) # Bit(y, i)
        /\ \A j \in 1 .. i - 1 : Bit(x, j) = Bit(y, j)

\* The order of keys: memcmp, then length.
KeyLess(a, b) ==
    LET i == Agreed(a, b)
    IN  IF i = Shorter(a, b) THEN Len(a) < Len(b) ELSE a[i + 1] < b[i + 1]

KeyLeq(a, b) == a = b \/ KeyLess(a, b)

\* The first diff number at which two different keys disagree.
DiffBit(a, b) ==
    LET i == Agreed(a, b)
    IN  IF i = Shorter(a, b)
        THEN i * Width
        ELSE i * Width + FirstDifferentBit(a[i + 1], b[i + 1])

\* What key answers to diff number diff.
GetDiffBit(key, diff) ==
    LET byte == diff \div Width
    IN  IF byte >= Len(key) THEN 0
        ELSE IF diff % Width = 0 THEN 1
        ELSE Bit(key[byte + 1], diff % Width)

-----------------------------------------------------------------------------
(* Route: a diff number as the byte and the shift that reads it, and the   *)
(* number of leaves to the left.                                           *)

TermBitOp == BitsPerByte

MakeRoute(diff, left) ==
    [byte |-> diff \div Width,
     op   |-> IF diff % Width = 0 THEN TermBitOp ELSE BitsPerByte - (diff % Width),
     left |-> left]

RouteDiff(route) ==
    IF route.op = TermBitOp
    THEN route.byte * Width
    ELSE route.byte * Width + BitsPerByte - route.op

\* What key answers to a route.
RouteBit(route, key) ==
    IF route.byte >= Len(key) THEN 0
    ELSE IF route.op = TermBitOp THEN 1
    ELSE (key[route.byte + 1] \div 2^route.op) % 2
=============================================================================
