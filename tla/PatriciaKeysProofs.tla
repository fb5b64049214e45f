------------------------- MODULE PatriciaKeysProofs -------------------------
(***************************************************************************)
(* What the index relies on about bytes, diff numbers and routes, and the  *)
(* order of keys they decide, for keys of any length.                      *)
(***************************************************************************)
EXTENDS PatriciaKeys, WellFoundedInduction, SequenceTheorems, TLAPS

\* Powers of two, as far as a byte needs them: the provers have no arithmetic
\* of powers; TLC evaluates it, for bytes of 8 bits in run index_pages.
ASSUME PowerAssumption ==
    /\ 2^0 = 1
    /\ \A n \in 0 .. BitsPerByte - 1 : 2^(n + 1) = 2 * 2^n

-----------------------------------------------------------------------------
\* A diff number counts Width questions per byte, one more than the byte has
\* bits.
LEMMA WidthIsPositive == Width \in Nat \ {0} /\ BitsPerByte = Width - 1
BY BitsAssumption DEF Width

\* A diff number is a byte index and a remainder.
LEMMA DivMod ==
    ASSUME NEW d \in Nat
    PROVE  /\ d \div Width \in Nat
           /\ d % Width \in 0 .. Width - 1
           /\ d = (d \div Width) * Width + (d % Width)
BY WidthIsPositive, SMT

\* A diff number is a byte index and a question about that byte, and only one
\* such pair.
LEMMA DivModUnique ==
    ASSUME NEW i \in Nat, NEW r \in 0 .. Width - 1
    PROVE  /\ (i * Width + r) \div Width = i
           /\ (i * Width + r) % Width = r
BY WidthIsPositive, SMT

\* A set of numbers has a smallest one.
LEMMA Smallest ==
    ASSUME NEW T \in SUBSET Nat, T # {}
    PROVE  \E m \in T : \A n \in T : m <= n
<1>1. PICK m \in T : \A n \in T : <<n, m>> \notin OpToRel(<, Nat)
  BY NatLessThanWellFounded, WFMin
<1>2. ASSUME NEW n \in T
      PROVE  ~ (n < m)
  BY <1>1 DEF OpToRel
<1> QED
  BY <1>2, SMT

\* Sets closed under successor hold all numbers.
LEMMA SetInduction ==
    ASSUME NEW T \in SUBSET Nat, 0 \in T, \A n \in T : n + 1 \in T
    PROVE  T = Nat
<1> SUFFICES ASSUME Nat \ T # {}
             PROVE  FALSE
  OBVIOUS
<1>1. PICK m \in Nat \ T : \A n \in Nat \ T : m <= n
  BY Smallest
<1>2. m - 1 \in T
  BY <1>1
<1> QED
  BY <1>1, <1>2

-----------------------------------------------------------------------------
(* Bits *)

\* PowerAssumption gives every power of two of a byte.
LEMMA PowerIs ==
    ASSUME NEW n \in 0 .. BitsPerByte
    PROVE  2^n \in Nat \ {0}
<1> DEFINE T == {k \in Nat : k <= BitsPerByte => 2^k \in Nat \ {0}}
<1>1. 0 \in T
  BY PowerAssumption
<1>2. ASSUME NEW k \in T
      PROVE  k + 1 \in T
  <2> SUFFICES ASSUME k + 1 <= BitsPerByte
               PROVE  2^(k + 1) \in Nat \ {0}
    OBVIOUS
  <2>1. k \in 0 .. BitsPerByte - 1 /\ k <= BitsPerByte
    BY BitsAssumption
  <2>2. 2^k \in Nat \ {0} /\ 2^(k + 1) = 2 * 2^k
    BY <2>1, PowerAssumption
  <2> DEFINE p == 2^k
  <2> HIDE DEF p
  <2>3. p \in Nat \ {0} => 2 * p \in Nat \ {0}
    OBVIOUS
  <2> QED
    BY <2>2, <2>3 DEF p
<1>3. T = Nat
  <2>1. T \in SUBSET Nat
    OBVIOUS
  <2> HIDE DEF T
  <2> QED
    BY <1>1, <1>2, <2>1, SetInduction
<1> QED
  BY <1>3, BitsAssumption

\* A quotient by 2m is half the quotient by m.
LEMMA Halves ==
    ASSUME NEW x \in Nat, NEW m \in Nat \ {0}
    PROVE  /\ x \div m \in Nat /\ x \div (2 * m) \in Nat
           /\ (x \div m) % 2 \in {0, 1}
           /\ x \div m = 2 * (x \div (2 * m)) + ((x \div m) % 2)
<1> DEFINE q == x \div m
           r == x % m
           p == q \div 2
           b == q % 2
<1>1. q \in Nat /\ r \in 0 .. m - 1 /\ x = q * m + r
  BY SMT
<1> HIDE DEF q, r
<1>2. p \in Nat /\ b \in {0, 1} /\ q = 2 * p + b
  BY <1>1, SMT
<1> HIDE DEF p, b
<1>3. \E s \in 0 .. 2 * m - 1 : x = p * (2 * m) + s
  <2> DEFINE s == b * m + r
  <2>1. s \in 0 .. 2 * m - 1
    <3>1. b = 0 => s = r
      BY <1>1
    <3>2. b = 1 => s = m + r
      BY <1>1
    <3> HIDE DEF s
    <3> QED
      BY <1>1, <1>2, <3>1, <3>2
  <2>2. x = p * (2 * m) + s
    <3>1. q * m = p * (2 * m) + b * m
      BY <1>2, SMT
    <3> QED
      BY <1>1, <1>2, <3>1, SMT
  <2> QED
    BY <2>1, <2>2
<1>4. x \div (2 * m) = p
  <2> DEFINE w == 2 * m
  <2>1. w \in Nat \ {0} /\ p \in Nat
    BY <1>2
  <2>2. PICK s \in 0 .. w - 1 : x = p * w + s
    BY <1>3
  <2> HIDE DEF w
  <2>3. (p * w + s) \div w = p
    BY <2>1, SMT
  <2> QED
    BY <2>2, <2>3 DEF w
<1> QED
  BY <1>1, <1>2, <1>4 DEF q, b

\* Division keeps the order of numbers.
LEMMA QuotientsInOrder ==
    ASSUME NEW x \in Nat, NEW y \in Nat, x <= y, NEW m \in Nat \ {0}
    PROVE  x \div m <= y \div m
<1> DEFINE q == x \div m
           p == y \div m
<1>1. /\ q \in Nat /\ p \in Nat /\ q * m <= x /\ y < (p + 1) * m
  BY SMT
<1> HIDE DEF q, p
<1>2. ~ (p + 1 <= q)
  <2> SUFFICES ASSUME p + 1 <= q PROVE FALSE
    OBVIOUS
  <2>1. (p + 1) * m <= q * m
    BY <1>1, SMT
  <2> QED
    BY <1>1, <2>1, SMT
<1> QED
  BY <1>1, <1>2 DEF q, p

\* The quotients of a byte, from the highest bit on: none of it, half as much
\* for each bit less, all of it.
LEMMA QuotientsOfByte ==
    ASSUME NEW x \in Byte
    PROVE  /\ x \in Nat
           /\ x \div 2^(BitsPerByte - 0) = 0
           /\ x \div 2^(BitsPerByte - BitsPerByte) = x
           /\ \A i \in 0 .. BitsPerByte : x \div 2^(BitsPerByte - i) \in Nat
           /\ \A i \in 1 .. BitsPerByte :
                /\ Bit(x, i) \in {0, 1}
                /\ x \div 2^(BitsPerByte - i)
                     = 2 * (x \div 2^(BitsPerByte - (i - 1))) + Bit(x, i)
<1> DEFINE B == BitsPerByte
<1>1. B \in Nat \ {0} /\ 2^B \in Nat \ {0}
  BY BitsAssumption, PowerIs
<1>2. x \in Nat /\ x < 2^B
  BY <1>1 DEF Byte
<1> HIDE DEF B
<1>3. x \div 2^(B - 0) = 0
  <2> DEFINE m == 2^B
  <2>1. m \in Nat \ {0} /\ x < m
    BY <1>1, <1>2
  <2> HIDE DEF m
  <2>2. x \div m = 0
    BY <1>2, <2>1, SMT
  <2>3. B - 0 = B
    BY <1>1
  <2> QED
    BY <2>2, <2>3 DEF m
<1>4. x \div 2^(B - B) = x
  <2>1. B - B = 0 /\ 2^0 = 1
    BY <1>1, PowerAssumption
  <2>2. x \div 1 = x
    BY <1>2
  <2> QED
    BY <2>1, <2>2
<1>5. ASSUME NEW i \in 0 .. B
      PROVE  x \div 2^(B - i) \in Nat
  <2> DEFINE m == 2^(B - i)
  <2>1. B - i \in 0 .. B
    BY <1>1
  <2>2. m \in Nat \ {0}
    BY <2>1, PowerIs DEF B
  <2> HIDE DEF m
  <2>3. x \div m \in Nat
    BY <1>2, <2>2, Halves
  <2> QED
    BY <2>3 DEF m
<1>6. ASSUME NEW i \in 1 .. B
      PROVE  /\ Bit(x, i) \in {0, 1}
             /\ x \div 2^(B - i) = 2 * (x \div 2^(B - (i - 1))) + Bit(x, i)
  <2> DEFINE k == B - i
             m == 2^k
  <2>1. k \in 0 .. B - 1 /\ k \in 0 .. B /\ B - (i - 1) = k + 1
    BY <1>1
  <2>2. 2^(k + 1) = 2 * m /\ m \in Nat \ {0}
    BY <2>1, PowerAssumption, PowerIs DEF B
  <2>3. Bit(x, i) = (x \div m) % 2
    BY DEF Bit, B
  <2>4. 2^(B - (i - 1)) = 2 * m
    BY <2>1, <2>2
  <2> HIDE DEF m
  <2>5. (x \div m) % 2 \in {0, 1} /\ x \div m = 2 * (x \div (2 * m)) + ((x \div m) % 2)
    BY <1>2, <2>2, Halves
  <2> QED
    BY <2>3, <2>4, <2>5 DEF m
<1> QED
  BY <1>2, <1>3, <1>4, <1>5, <1>6 DEF B

\* Two bytes agree in their first i bits when they do in the quotients there.
LEMMA AgreeSoFar ==
    ASSUME NEW x \in Byte, NEW y \in Byte, NEW i \in 0 .. BitsPerByte,
           \A j \in 1 .. i : Bit(x, j) = Bit(y, j)
    PROVE  x \div 2^(BitsPerByte - i) = y \div 2^(BitsPerByte - i)
<1> DEFINE B == BitsPerByte
           Q(z, j) == z \div 2^(B - j)
           T == {j \in Nat : j <= i => Q(x, j) = Q(y, j)}
<1>1. /\ B \in Nat /\ Q(x, 0) = 0 /\ Q(y, 0) = 0
      /\ \A j \in 1 .. B : /\ Q(x, j) = 2 * Q(x, j - 1) + Bit(x, j)
                           /\ Q(y, j) = 2 * Q(y, j - 1) + Bit(y, j)
  BY QuotientsOfByte, BitsAssumption
<1> HIDE DEF B, Q
<1>2. 0 \in T
  BY <1>1
<1>3. ASSUME NEW j \in T
      PROVE  j + 1 \in T
  <2> SUFFICES ASSUME j + 1 <= i
               PROVE  Q(x, j + 1) = Q(y, j + 1)
    OBVIOUS
  <2>1. j + 1 \in 1 .. i /\ j + 1 \in 1 .. B /\ (j + 1) - 1 = j /\ j <= i
    BY <1>1 DEF B
  <2>2. Q(x, j) = Q(y, j) /\ Bit(x, j + 1) = Bit(y, j + 1)
    BY <2>1
  <2> QED
    BY <1>1, <2>1, <2>2
<1>4. T = Nat
  <2>1. T \in SUBSET Nat
    OBVIOUS
  <2> HIDE DEF T
  <2> QED
    BY <1>2, <1>3, <2>1, SetInduction
<1>5. i \in T /\ i <= i
  BY <1>1, <1>4
<1>6. Q(x, i) = Q(y, i)
  BY <1>5
<1> QED
  BY <1>6 DEF Q, B

\* Two bytes differ in some bit, and the first such bit is 0 in the smaller one
\* (FirstDiffBit of diff.h, which takes it from the leading zeros of their xor).
THEOREM BytesDiffer ==
    ASSUME NEW x \in Byte, NEW y \in Byte, x < y
    PROVE  LET i == FirstDifferentBit(x, y)
           IN  /\ i \in 1 .. BitsPerByte
               /\ FirstDifferentBit(y, x) = i
               /\ Bit(x, i) = 0
               /\ Bit(y, i) = 1
               /\ \A j \in 1 .. i - 1 : Bit(x, j) = Bit(y, j)
<1> DEFINE B == BitsPerByte
           Q(z, j) == z \div 2^(B - j)
           D == {j \in 1 .. B : Bit(x, j) # Bit(y, j)}
           First(a, b, i) == /\ Bit(a, i) # Bit(b, i)
                             /\ \A j \in 1 .. i - 1 : Bit(a, j) = Bit(b, j)
<1>1. /\ B \in Nat \ {0} /\ x \in Nat /\ y \in Nat
      /\ Q(x, B) = x /\ Q(y, B) = y
      /\ \A j \in 1 .. B : /\ Q(x, j) = 2 * Q(x, j - 1) + Bit(x, j)
                           /\ Q(y, j) = 2 * Q(y, j - 1) + Bit(y, j)
                           /\ Bit(x, j) \in {0, 1} /\ Bit(y, j) \in {0, 1}
      /\ \A j \in 0 .. B : Q(x, j) \in Nat /\ Q(y, j) \in Nat
  BY QuotientsOfByte, BitsAssumption
<1>2. D # {}
  <2> SUFFICES ASSUME D = {} PROVE FALSE
    OBVIOUS
  <2>1. \A j \in 1 .. B : Bit(x, j) = Bit(y, j)
    OBVIOUS
  <2>2. B \in 0 .. BitsPerByte
    BY <1>1
  <2>3. Q(x, B) = Q(y, B)
    BY <2>1, <2>2, AgreeSoFar
  <2> QED
    BY <1>1, <2>3
<1>3. PICK i \in D : \A j \in D : i <= j
  <2>1. D \in SUBSET Nat
    OBVIOUS
  <2> QED
    BY <1>2, <2>1, Smallest
<1>4. i \in 1 .. B /\ Bit(x, i) # Bit(y, i) /\ \A j \in 1 .. i - 1 : Bit(x, j) = Bit(y, j)
  BY <1>1, <1>3
<1>5. Q(x, i - 1) = Q(y, i - 1)
  <2>1. i - 1 \in 0 .. BitsPerByte
    BY <1>1, <1>4
  <2> QED
    BY <1>4, <2>1, AgreeSoFar
<1>6. Q(x, i) <= Q(y, i)
  <2> DEFINE m == 2^(B - i)
  <2>1. B - i \in 0 .. BitsPerByte
    BY <1>1, <1>4
  <2>2. m \in Nat \ {0}
    BY <2>1, PowerIs
  <2> HIDE DEF m
  <2>3. x \div m <= y \div m
    <3>1. x \in Nat /\ y \in Nat /\ x <= y
      BY <1>1
    <3> QED
      BY <2>2, <3>1, QuotientsInOrder
  <2> QED
    BY <2>3 DEF m
<1> HIDE DEF Q, B, D
<1>7. Bit(x, i) = 0 /\ Bit(y, i) = 1
  <2>1. i - 1 \in 0 .. B /\ i \in 1 .. B
    BY <1>1, <1>4
  <2>2. /\ Q(x, i) = 2 * Q(x, i - 1) + Bit(x, i) /\ Q(y, i) = 2 * Q(y, i - 1) + Bit(y, i)
        /\ Bit(x, i) \in {0, 1} /\ Bit(y, i) \in {0, 1} /\ Q(x, i - 1) \in Nat
    BY <1>1, <2>1
  <2> QED
    BY <1>4, <1>5, <1>6, <2>2
<1>8. \A a, b : (a = x /\ b = y) \/ (a = y /\ b = x) =>
        /\ First(a, b, i)
        /\ \A j \in 1 .. B : First(a, b, j) => j = i
  <2> TAKE a, b
  <2> SUFFICES ASSUME (a = x /\ b = y) \/ (a = y /\ b = x)
               PROVE  /\ First(a, b, i)
                      /\ \A j \in 1 .. B : First(a, b, j) => j = i
    OBVIOUS
  <2>1. First(a, b, i)
    BY <1>4
  <2>2. ASSUME NEW j \in 1 .. B, First(a, b, j)
        PROVE  j = i
    <3>1. ~ (j < i)
      <4>1. j < i => j \in 1 .. i - 1
        BY <1>1, <1>4
      <4> QED
        BY <2>1, <2>2, <4>1
    <3>2. ~ (i < j)
      <4>1. i < j => i \in 1 .. j - 1
        BY <1>1, <1>4
      <4> QED
        BY <2>1, <2>2, <4>1
    <3> QED
      BY <1>1, <1>4, <3>1, <3>2
  <2> QED
    BY <2>1, <2>2
<1>9. FirstDifferentBit(x, y) = i /\ FirstDifferentBit(y, x) = i
  <2>1. /\ FirstDifferentBit(x, y) = CHOOSE j \in 1 .. B : First(x, y, j)
        /\ FirstDifferentBit(y, x) = CHOOSE j \in 1 .. B : First(y, x, j)
    BY DEF FirstDifferentBit, B
  <2>2. /\ First(x, y, i) /\ \A j \in 1 .. B : First(x, y, j) => j = i
        /\ First(y, x, i) /\ \A j \in 1 .. B : First(y, x, j) => j = i
    BY <1>8
  <2> HIDE DEF First
  <2> QED
    BY <1>4, <2>1, <2>2
<1> QED
  BY <1>4, <1>7, <1>9 DEF B

-----------------------------------------------------------------------------
(* Routes *)

\* Unpacking a route gives the diff number that was packed (Route::Make and
\* Route::diff of node_page.h).
THEOREM RouteKeepsDiff ==
    ASSUME NEW d \in Nat, NEW left
    PROVE  RouteDiff(MakeRoute(d, left)) = d
BY DivMod, WidthIsPositive, SMT DEF RouteDiff, MakeRoute, TermBitOp

\* A route asks a key the same question as its diff number does (Route::bit
\* against GetDiffBit of node_page.h): the lookup that follows routes and the
\* insertion that places a diff take the same turns.
THEOREM RouteAsksItsDiff ==
    ASSUME NEW d \in Nat, NEW left, NEW key \in Seq(Byte)
    PROVE  RouteBit(MakeRoute(d, left), key) = GetDiffBit(key, d)
<1>1. CASE d % Width = 0
  BY <1>1 DEF RouteBit, GetDiffBit, MakeRoute
<1>2. CASE d % Width # 0
  <2> DEFINE op == BitsPerByte - (d % Width)
  <2>1. op # TermBitOp
    <3>1. d % Width \in 0 .. Width - 1
      BY DivMod
    <3> QED
      BY <1>2, <3>1, WidthIsPositive, BitsAssumption DEF TermBitOp
  <2>2. MakeRoute(d, left) = [byte |-> d \div Width, op |-> op, left |-> left]
    BY <1>2 DEF MakeRoute
  <2> HIDE DEF op
  <2>3. /\ MakeRoute(d, left).byte = d \div Width
        /\ MakeRoute(d, left).op = op
    BY <2>2
  <2>4. RouteBit(MakeRoute(d, left), key)
          = IF d \div Width >= Len(key) THEN 0
            ELSE (key[d \div Width + 1] \div 2^op) % 2
    BY <2>1, <2>3 DEF RouteBit
  <2> QED
    BY <1>2, <2>4 DEF GetDiffBit, Bit, op
<1> QED
  BY <1>1, <1>2

-----------------------------------------------------------------------------
(* Keys *)

\* Shorter is the length of the shorter of two keys.
LEMMA ShorterIs ==
    ASSUME NEW a \in Seq(Byte), NEW b \in Seq(Byte)
    PROVE  /\ Len(a) \in Nat /\ Len(b) \in Nat /\ Shorter(a, b) \in Nat
           /\ Shorter(a, b) <= Len(a) /\ Shorter(a, b) <= Len(b)
           /\ Shorter(a, b) = Len(a) \/ Shorter(a, b) = Len(b)
BY DEF Shorter

\* Two keys agree up to the end of one or to a byte in which they differ.
LEMMA AgreedIs ==
    ASSUME NEW a \in Seq(Byte), NEW b \in Seq(Byte)
    PROVE  /\ Agreed(a, b) \in 0 .. Shorter(a, b)
           /\ \A j \in 1 .. Agreed(a, b) : a[j] = b[j]
           /\ Agreed(a, b) < Shorter(a, b) =>
                a[Agreed(a, b) + 1] # b[Agreed(a, b) + 1]
<1> DEFINE n == Shorter(a, b)
           T == {m \in 0 .. n : m < n => a[m + 1] # b[m + 1]}
<1>1. n \in Nat
  BY ShorterIs
<1> HIDE DEF n
<1>2. n \in T /\ T \subseteq Nat
  BY <1>1
<1>3. PICK m \in T : \A k \in T : m <= k
  BY <1>2, Smallest
<1>4. m \in 0 .. n /\ (m < n => a[m + 1] # b[m + 1])
  OBVIOUS
<1>5. ASSUME NEW j \in 1 .. m
      PROVE  a[j] = b[j]
  <2>1. j - 1 \in 0 .. n /\ j - 1 < n /\ j - 1 < m /\ (j - 1) + 1 = j
    BY <1>1, <1>4
  <2> SUFFICES ASSUME a[j] # b[j]
               PROVE  FALSE
    OBVIOUS
  <2>2. j - 1 \in T
    BY <2>1
  <2>3. m <= j - 1
    BY <1>3, <2>2
  <2> QED
    BY <1>1, <1>4, <2>1, <2>3
<1> QED
  BY <1>4, <1>5 DEF Agreed, n

\* Keys that agree to the end of both are equal.
LEMMA DifferentKeys ==
    ASSUME NEW a \in Seq(Byte), NEW b \in Seq(Byte), a # b
    PROVE  Agreed(a, b) = Shorter(a, b) => Len(a) # Len(b)
<1> SUFFICES ASSUME Agreed(a, b) = Shorter(a, b), Len(a) = Len(b)
             PROVE  a = b
  OBVIOUS
<1>1. Agreed(a, b) = Len(a)
  BY ShorterIs
<1>2. \A j \in 1 .. Len(a) : a[j] = b[j]
  BY <1>1, AgreedIs
<1> QED
  BY <1>2, SeqEqual

\* The byte in which two keys differ.
LEMMA PartingBytes ==
    ASSUME NEW a \in Seq(Byte), NEW b \in Seq(Byte),
           Agreed(a, b) < Shorter(a, b)
    PROVE  LET i == Agreed(a, b) + 1
           IN  /\ i \in 1 .. Len(a) /\ i \in 1 .. Len(b)
               /\ a[i] \in Byte /\ b[i] \in Byte
               /\ a[i] < b[i] \/ b[i] < a[i]
<1> DEFINE i == Agreed(a, b) + 1
<1>1. i \in 1 .. Len(a) /\ i \in 1 .. Len(b) /\ a[i] # b[i]
  BY AgreedIs, ShorterIs
<1>2. a[i] \in Byte /\ b[i] \in Byte
  BY <1>1
<1>3. a[i] \in Int /\ b[i] \in Int
  BY <1>2 DEF Byte
<1> HIDE DEF i
<1> QED
  BY <1>1, <1>2, <1>3 DEF i

\* Diff numbers are ordered by byte, then by remainder.
LEMMA DivModLess ==
    ASSUME NEW q \in Nat, NEW r \in 0 .. Width - 1,
           NEW i \in Nat, NEW f \in 0 .. Width - 1,
           q * Width + r < i * Width + f
    PROVE  q < i \/ (q = i /\ r < f)
<1>1. CASE q > i
  <2> DEFINE k == q - i - 1
  <2>1. k \in Nat /\ q = (k + i) + 1
    BY <1>1
  <2> HIDE DEF k
  <2>2. q * Width = k * Width + i * Width + Width
    BY <2>1, WidthIsPositive, SMT
  <2>3. k * Width \in Nat /\ i * Width \in Nat
    BY <2>1, WidthIsPositive, SMT
  <2> QED
    BY <2>2, <2>3, WidthIsPositive, SMT
<1>2. CASE q = i
  <2>1. i * Width \in Nat
    BY WidthIsPositive, SMT
  <2> QED
    BY <1>2, <2>1, WidthIsPositive
<1> QED
  BY <1>1, <1>2

\* A diff number of byte i, remainder f, asks whether byte i exists or for
\* its bit f.
LEMMA GetDiffBitOf ==
    ASSUME NEW key, NEW i \in Nat, NEW f \in 0 .. Width - 1
    PROVE  GetDiffBit(key, i * Width + f) =
             IF i >= Len(key) THEN 0
             ELSE IF f = 0 THEN 1
             ELSE Bit(key[i + 1], f)
BY DivModUnique DEF GetDiffBit

\* Keys that agree in i bytes agree on the diff numbers of those bytes.
LEMMA AgreedBytes ==
    ASSUME NEW a \in Seq(Byte), NEW b \in Seq(Byte),
           NEW q \in Nat, q < Agreed(a, b), NEW r \in 0 .. Width - 1
    PROVE  GetDiffBit(a, q * Width + r) = GetDiffBit(b, q * Width + r)
<1>1. q < Len(a) /\ q < Len(b) /\ a[q + 1] = b[q + 1]
  BY AgreedIs, ShorterIs
<1> QED
  BY <1>1, GetDiffBitOf, ShorterIs

\* What DiffBit promises of two keys.
Decides(a, b, d) ==
    /\ d \in Nat
    /\ KeyLess(a, b) => GetDiffBit(a, d) = 0 /\ GetDiffBit(b, d) = 1
    /\ ~KeyLess(a, b) => GetDiffBit(a, d) = 1 /\ GetDiffBit(b, d) = 0
    /\ \A e \in 0 .. d - 1 : GetDiffBit(a, e) = GetDiffBit(b, e)

\* One key is a prefix of the other: the diff asks for the byte after it,
\* before any bit of that byte.
LEMMA PrefixDecides ==
    ASSUME NEW a \in Seq(Byte), NEW b \in Seq(Byte), a # b,
           Agreed(a, b) = Shorter(a, b)
    PROVE  Decides(a, b, DiffBit(a, b))
<1> DEFINE i == Agreed(a, b)
           d == i * Width
<1>1. DiffBit(a, b) = d
  BY DEF DiffBit
<1>2. i \in Nat /\ d \in Nat /\ d + 0 = d
  BY AgreedIs, ShorterIs, WidthIsPositive, SMT
<1>3. KeyLess(a, b) <=> Len(a) < Len(b)
  BY DEF KeyLess
<1>4. /\ GetDiffBit(a, d) = IF i >= Len(a) THEN 0 ELSE 1
      /\ GetDiffBit(b, d) = IF i >= Len(b) THEN 0 ELSE 1
  <2>1. 0 \in 0 .. Width - 1
    BY WidthIsPositive
  <2> HIDE DEF i
  <2>2. /\ GetDiffBit(a, i * Width + 0) = IF i >= Len(a) THEN 0 ELSE 1
        /\ GetDiffBit(b, i * Width + 0) = IF i >= Len(b) THEN 0 ELSE 1
    BY <1>2, <2>1, GetDiffBitOf
  <2> QED
    BY <1>2, <2>2
<1>5. ASSUME NEW e \in 0 .. d - 1
      PROVE  GetDiffBit(a, e) = GetDiffBit(b, e)
  <2> DEFINE q == e \div Width
             r == e % Width
  <2>1. q \in Nat /\ r \in 0 .. Width - 1 /\ e = q * Width + r
    BY <1>2, DivMod
  <2>2. 0 \in 0 .. Width - 1 /\ q * Width + r < i * Width + 0
    <3>1. e < d + 0
      BY <1>2
    <3>2. 0 \in 0 .. Width - 1
      BY WidthIsPositive
    <3> HIDE DEF q, r, i
    <3> QED
      BY <2>1, <3>1, <3>2
  <2> HIDE DEF q, r, i
  <2>3. q < i
    BY <1>2, <2>1, <2>2, DivModLess
  <2> QED
    BY <2>1, <2>3, AgreedBytes DEF i
<1>6. /\ Len(a) < Len(b) => i = Len(a) /\ i < Len(b)
      /\ ~(Len(a) < Len(b)) => i < Len(a) /\ i = Len(b)
  BY ShorterIs, DifferentKeys
<1> HIDE DEF i, d
<1>7. Decides(a, b, d)
  BY <1>2, <1>3, <1>4, <1>5, <1>6, ShorterIs DEF Decides
<1> QED
  BY <1>1, <1>7

\* The keys part inside a byte: the diff asks for the first bit in which the
\* two bytes differ.
LEMMA ByteDecides ==
    ASSUME NEW a \in Seq(Byte), NEW b \in Seq(Byte),
           Agreed(a, b) < Shorter(a, b)
    PROVE  Decides(a, b, DiffBit(a, b))
<1> DEFINE i == Agreed(a, b)
           x == a[i + 1]
           y == b[i + 1]
           f == FirstDifferentBit(x, y)
           d == i * Width + f
<1>1. DiffBit(a, b) = d /\ (KeyLess(a, b) <=> x < y)
  BY AgreedIs, ShorterIs DEF DiffBit, KeyLess
<1>2. i \in Nat /\ i < Len(a) /\ i < Len(b)
  BY AgreedIs, ShorterIs
<1>3. x \in Byte /\ y \in Byte /\ (x < y \/ y < x)
  BY PartingBytes
<1>4. x \in Int /\ y \in Int
  BY <1>3 DEF Byte
<1>5. /\ f \in 1 .. BitsPerByte
      /\ x < y => Bit(x, f) = 0 /\ Bit(y, f) = 1
      /\ ~(x < y) => Bit(x, f) = 1 /\ Bit(y, f) = 0
      /\ \A j \in 1 .. f - 1 : Bit(x, j) = Bit(y, j)
  <2> HIDE DEF x, y
  <2>1. CASE x < y
    BY <1>3, <2>1, BytesDiffer
  <2>2. CASE ~(x < y)
    BY <1>3, <2>2, BytesDiffer
  <2> QED
    BY <2>1, <2>2
<1> HIDE DEF f
<1>6. f \in 0 .. Width - 1 /\ f # 0 /\ d \in Nat
  BY <1>2, <1>5, WidthIsPositive, SMT
<1>7. /\ GetDiffBit(a, d) = Bit(x, f)
      /\ GetDiffBit(b, d) = Bit(y, f)
  <2> HIDE DEF i
  <2> QED
    BY <1>2, <1>6, GetDiffBitOf, ShorterIs
<1>8. ASSUME NEW e \in 0 .. d - 1
      PROVE  GetDiffBit(a, e) = GetDiffBit(b, e)
  <2> DEFINE q == e \div Width
             r == e % Width
  <2>1. q \in Nat /\ r \in 0 .. Width - 1 /\ e = q * Width + r
    BY <1>6, DivMod
  <2>2. q * Width + r < i * Width + f
    BY <1>6, <2>1
  <2> HIDE DEF q, r, i
  <2>3. q < i \/ (q = i /\ r < f)
    BY <1>2, <1>6, <2>1, <2>2, DivModLess
  <2>4. CASE q < i
    BY <2>1, <2>4, AgreedBytes DEF i
  <2>5. CASE q = i /\ r < f
    <3>1. /\ GetDiffBit(a, q * Width + r) = IF r = 0 THEN 1 ELSE Bit(x, r)
          /\ GetDiffBit(b, q * Width + r) = IF r = 0 THEN 1 ELSE Bit(y, r)
      BY <1>2, <2>1, <2>5, GetDiffBitOf, ShorterIs
    <3>2. r # 0 => r \in 1 .. f - 1
      BY <1>5, <2>1, <2>5
    <3> QED
      BY <1>5, <2>1, <3>1, <3>2
  <2> QED
    BY <2>3, <2>4, <2>5
<1> HIDE DEF i, d, x, y
<1>9. Decides(a, b, d)
  BY <1>1, <1>5, <1>6, <1>7, <1>8 DEF Decides
<1> QED
  BY <1>1, <1>9

\* The diff number of two different keys is the first on which they disagree,
\* and it orders them: the smaller key answers 0 and goes left (CompareAndDiffBit
\* of diff.h, on which every route, Cartesian tree and slot rests; a key that is
\* a prefix of the other is the smaller one).
THEOREM DiffBitDecides ==
    ASSUME NEW a \in Seq(Byte), NEW b \in Seq(Byte), a # b
    PROVE  Decides(a, b, DiffBit(a, b))
<1>1. Agreed(a, b) = Shorter(a, b) \/ Agreed(a, b) < Shorter(a, b)
  BY AgreedIs, ShorterIs
<1> QED
  BY <1>1, PrefixDecides, ByteDecides

\* The diff numbers of keys of at most m bytes are below m * Width: with
\* kMaxKeySize = kMaxDiff / 9 = 7281 they fit the 16 bits of CompareDiff::diff,
\* and their byte index the 13 bits of a Route (diff.h and position.h).
THEOREM DiffBitFits ==
    ASSUME NEW a \in Seq(Byte), NEW b \in Seq(Byte), a # b,
           NEW m \in Nat, Len(a) <= m, Len(b) <= m
    PROVE  DiffBit(a, b) < m * Width
<1> DEFINE i == Agreed(a, b)
<1>1. i \in Nat /\ i < m
  BY AgreedIs, ShorterIs, DifferentKeys
<1>2. (i + 1) * Width <= m * Width
  <2> HIDE DEF i
  <2> DEFINE k == m - (i + 1)
  <2>1. k \in Nat /\ m = k + (i + 1)
    BY <1>1
  <2> HIDE DEF k
  <2>2. m * Width = k * Width + (i + 1) * Width
    BY <1>1, <2>1, WidthIsPositive, SMT
  <2>3. k * Width \in Nat /\ (i + 1) * Width \in Nat
    BY <1>1, <2>1, WidthIsPositive, SMT
  <2> QED
    BY <2>2, <2>3, SMT
<1>3. \E f \in 0 .. Width - 1 : DiffBit(a, b) = i * Width + f
  <2>1. CASE i = Shorter(a, b)
    <3>1. DiffBit(a, b) = i * Width
      BY <2>1 DEF DiffBit
    <3>2. i * Width + 0 = i * Width /\ 0 \in 0 .. Width - 1
      BY <1>1, WidthIsPositive, SMT
    <3> HIDE DEF i
    <3> QED
      BY <3>1, <3>2
  <2>2. CASE i # Shorter(a, b)
    <3>1. i < Shorter(a, b)
      BY <2>2, AgreedIs, ShorterIs
    <3>2. FirstDifferentBit(a[i + 1], b[i + 1]) \in 1 .. BitsPerByte
      BY <3>1, PartingBytes, BytesDiffer
    <3>3. DiffBit(a, b) = i * Width + FirstDifferentBit(a[i + 1], b[i + 1])
      BY <2>2 DEF DiffBit
    <3> HIDE DEF i
    <3> QED
      BY <3>2, <3>3, WidthIsPositive
  <2> QED
    BY <2>1, <2>2
<1>4. (i + 1) * Width = i * Width + Width /\ i * Width \in Nat
  BY <1>1, WidthIsPositive, SMT
<1>5. m * Width \in Nat
  BY WidthIsPositive, SMT
<1> HIDE DEF i
<1> QED
  BY <1>2, <1>3, <1>4, <1>5, WidthIsPositive

-----------------------------------------------------------------------------
(* Keys in order *)

\* a and b answer alike to all diff numbers below d.
Alike(a, b, d) == \A e \in 0 .. d - 1 : GetDiffBit(a, e) = GetDiffBit(b, e)

\* No key is before itself.
LEMMA NotLessItself ==
    ASSUME NEW a \in AnyKey
    PROVE  ~ KeyLess(a, a)
<1>1. /\ Agreed(a, a) \in 0 .. Shorter(a, a)
      /\ Agreed(a, a) < Shorter(a, a) =>
            a[Agreed(a, a) + 1] # a[Agreed(a, a) + 1]
  BY AgreedIs DEF AnyKey
<1>2. Len(a) \in Nat /\ Shorter(a, a) \in Nat
  BY ShorterIs DEF AnyKey
<1>3. Agreed(a, a) = Shorter(a, a)
  BY <1>1, <1>2
<1> QED
  BY <1>2, <1>3 DEF KeyLess

\* Different keys are ordered, by their answers to DiffBit.
LEMMA KeysPart ==
    ASSUME NEW a \in AnyKey, NEW b \in AnyKey, a # b
    PROVE  LET d == DiffBit(a, b)
           IN  /\ d \in Nat /\ Alike(a, b, d)
               /\ \/ KeyLess(a, b) /\ GetDiffBit(a, d) = 0 /\ GetDiffBit(b, d) = 1
                  \/ ~ KeyLess(a, b) /\ GetDiffBit(a, d) = 1 /\ GetDiffBit(b, d) = 0
BY DiffBitDecides DEF Decides, Alike, AnyKey

\* The first answer in which two keys differ is their diff number, and it
\* orders them.
LEMMA FirstDifference ==
    ASSUME NEW a \in AnyKey, NEW b \in AnyKey, NEW d \in Nat,
           Alike(a, b, d), GetDiffBit(a, d) = 0, GetDiffBit(b, d) = 1
    PROVE  /\ a # b /\ DiffBit(a, b) = d /\ DiffBit(b, a) = d
           /\ KeyLess(a, b) /\ ~ KeyLess(b, a)
<1>1. a # b
  OBVIOUS
<1>2. ASSUME NEW x \in AnyKey, NEW y \in AnyKey, x # y, Alike(x, y, d),
             GetDiffBit(x, d) # GetDiffBit(y, d)
      PROVE  DiffBit(x, y) = d
  <2> DEFINE e == DiffBit(x, y)
  <2>1. e \in Nat /\ Alike(x, y, e) /\ GetDiffBit(x, e) # GetDiffBit(y, e)
    BY <1>2, KeysPart
  <2> HIDE DEF e
  <2>2. ~ (e < d)
    BY <1>2, <2>1 DEF Alike
  <2>3. ~ (d < e)
    BY <1>2, <2>1 DEF Alike
  <2>4. e = d
    BY <2>1, <2>2, <2>3
  <2> QED
    BY <2>4 DEF e
<1>3. Alike(b, a, d) /\ 0 # 1
  BY DEF Alike
<1>4. DiffBit(a, b) = d /\ DiffBit(b, a) = d
  BY <1>1, <1>2, <1>3
<1> QED
  BY <1>1, <1>3, <1>4, KeysPart

\* Two keys in order part at one diff number, where the first answers 0.
LEMMA LessPart ==
    ASSUME NEW a \in AnyKey, NEW b \in AnyKey, KeyLess(a, b)
    PROVE  LET d == DiffBit(a, b)
           IN  /\ d \in Nat /\ Alike(a, b, d) /\ a # b
               /\ GetDiffBit(a, d) = 0 /\ GetDiffBit(b, d) = 1
               /\ DiffBit(b, a) = d /\ ~ KeyLess(b, a)
<1>1. a # b
  BY NotLessItself
<1>2. /\ DiffBit(a, b) \in Nat /\ Alike(a, b, DiffBit(a, b))
      /\ GetDiffBit(a, DiffBit(a, b)) = 0 /\ GetDiffBit(b, DiffBit(a, b)) = 1
  BY <1>1, KeysPart
<1> QED
  BY <1>1, <1>2, FirstDifference

\* Different keys are comparable.
LEMMA KeysCompare ==
    ASSUME NEW a \in AnyKey, NEW b \in AnyKey, a # b
    PROVE  /\ KeyLess(a, b) <=> ~ KeyLess(b, a)
           /\ DiffBit(a, b) = DiffBit(b, a)
<1>1. CASE KeyLess(a, b)
  BY <1>1, LessPart
<1>2. CASE ~ KeyLess(a, b)
  <2> DEFINE d == DiffBit(a, b)
  <2>1. d \in Nat /\ Alike(a, b, d) /\ GetDiffBit(a, d) = 1 /\ GetDiffBit(b, d) = 0
    BY <1>2, KeysPart
  <2>2. Alike(b, a, d)
    BY <2>1 DEF Alike
  <2> QED
    BY <1>2, <2>1, <2>2, FirstDifference
<1> QED
  BY <1>1, <1>2

\* Of three keys in order the outer ones part at the smaller of the two diffs,
\* and these are not the same.
LEMMA MiddleKey ==
    ASSUME NEW a \in AnyKey, NEW k \in AnyKey, NEW c \in AnyKey,
           KeyLess(a, k), KeyLess(k, c)
    PROVE  /\ KeyLess(a, c)
           /\ DiffBit(a, k) # DiffBit(k, c)
           /\ DiffBit(a, k) < DiffBit(k, c) => DiffBit(a, c) = DiffBit(a, k)
           /\ DiffBit(k, c) < DiffBit(a, k) => DiffBit(a, c) = DiffBit(k, c)
<1> DEFINE x == DiffBit(a, k)
           y == DiffBit(k, c)
<1>1. /\ x \in Nat /\ Alike(a, k, x) /\ GetDiffBit(a, x) = 0 /\ GetDiffBit(k, x) = 1
      /\ y \in Nat /\ Alike(k, c, y) /\ GetDiffBit(k, y) = 0 /\ GetDiffBit(c, y) = 1
  BY LessPart
<1> HIDE DEF x, y
<1>2. x # y
  BY <1>1
<1>3. CASE x < y
  <2>1. Alike(a, c, x) /\ GetDiffBit(c, x) = 1
    BY <1>1, <1>3 DEF Alike
  <2> QED
    BY <1>1, <1>2, <1>3, <2>1, FirstDifference DEF x, y
<1>4. CASE y < x
  <2>1. Alike(a, c, y) /\ GetDiffBit(a, y) = 0
    BY <1>1, <1>4 DEF Alike
  <2> QED
    BY <1>1, <1>2, <1>4, <2>1, FirstDifference DEF x, y
<1> QED
  BY <1>1, <1>2, <1>3, <1>4

\* The order of keys is transitive.
LEMMA LeqTransitive ==
    ASSUME NEW a \in AnyKey, NEW b \in AnyKey, NEW c \in AnyKey, KeyLeq(a, b), KeyLeq(b, c)
    PROVE  /\ KeyLeq(a, c)
           /\ KeyLess(a, b) \/ KeyLess(b, c) => KeyLess(a, c)
BY MiddleKey DEF KeyLeq

\* The order of keys is total.
LEMMA LeqOrLess ==
    ASSUME NEW a \in AnyKey, NEW b \in AnyKey
    PROVE  /\ KeyLeq(a, b) \/ KeyLess(b, a)
           /\ ~ (KeyLeq(a, b) /\ KeyLess(b, a))
BY KeysCompare, NotLessItself DEF KeyLeq

\* Keys that are alike below d answer to d in their order.
LEMMA LeqAnswers ==
    ASSUME NEW a \in AnyKey, NEW b \in AnyKey, KeyLeq(a, b), NEW d \in Nat, Alike(a, b, d)
    PROVE  /\ GetDiffBit(b, d) = 0 => GetDiffBit(a, d) = 0
           /\ GetDiffBit(a, d) = 1 => GetDiffBit(b, d) = 1
<1> SUFFICES ASSUME KeyLess(a, b)
             PROVE  /\ GetDiffBit(b, d) = 0 => GetDiffBit(a, d) = 0
                    /\ GetDiffBit(a, d) = 1 => GetDiffBit(b, d) = 1
  BY DEF KeyLeq
<1> DEFINE e == DiffBit(a, b)
<1>1. e \in Nat /\ Alike(a, b, e) /\ GetDiffBit(a, e) = 0 /\ GetDiffBit(b, e) = 1
  BY LessPart
<1> HIDE DEF e
<1>2. ~ (e < d)
  BY <1>1 DEF Alike
<1>3. e = d \/ d \in 0 .. e - 1
  BY <1>1, <1>2
<1> QED
  BY <1>1, <1>3 DEF Alike

\* A key between two that are alike below d is like them.
LEMMA LeqAlike ==
    ASSUME NEW a \in AnyKey, NEW k \in AnyKey, NEW c \in AnyKey, KeyLeq(a, k), KeyLeq(k, c),
           NEW d \in Nat, Alike(a, c, d)
    PROVE  Alike(a, k, d)
<1>1. CASE a = k \/ k = c
  BY <1>1 DEF Alike
<1>2. CASE KeyLess(a, k) /\ KeyLess(k, c)
  <2> DEFINE x == DiffBit(a, k)
             z == DiffBit(a, c)
  <2>1. /\ x \in Nat /\ Alike(a, k, x)
        /\ z \in Nat /\ GetDiffBit(a, z) = 0 /\ GetDiffBit(c, z) = 1
        /\ DiffBit(k, c) \in Nat
    BY <1>2, MiddleKey, LessPart
  <2>2. z <= x
    BY <1>2, <2>1, MiddleKey
  <2> HIDE DEF x, z
  <2>3. ~ (z < d)
    BY <2>1 DEF Alike
  <2> QED
    BY <2>1, <2>2, <2>3 DEF Alike
<1> QED
  BY <1>1, <1>2 DEF KeyLeq

\* Keys are alike below their diff number.
LEMMA AlikeBelowDiff ==
    ASSUME NEW a \in AnyKey, NEW b \in AnyKey, NEW d \in Nat,
           a = b \/ d <= DiffBit(a, b)
    PROVE  Alike(a, b, d)
<1>1. CASE a = b
  BY <1>1 DEF Alike
<1>2. CASE a # b
  <2>1. DiffBit(a, b) \in Nat /\ Alike(a, b, DiffBit(a, b)) /\ d <= DiffBit(a, b)
    BY <1>2, KeysPart
  <2> HIDE DEF AnyKey
  <2> QED
    BY <2>1 DEF Alike
<1> QED
  BY <1>1, <1>2

\* Keys alike up to d: an equivalence, and alike up to every number below d.
LEMMA AlikeIs ==
    ASSUME NEW a, NEW b, NEW c, NEW d \in Nat, Alike(a, b, d)
    PROVE  /\ Alike(b, a, d)
           /\ Alike(b, c, d) => Alike(a, c, d)
           /\ \A e \in Nat : e <= d => Alike(a, b, e)
           /\ \A e \in Nat : e < d => GetDiffBit(a, e) = GetDiffBit(b, e)
BY DEF Alike
=============================================================================
