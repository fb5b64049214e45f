------------------------- MODULE PatriciaPageProofs -------------------------
(***************************************************************************)
(* The pages of the index over the keys they hold (KeyPage of              *)
(* PatriciaPage), for pages of any size and keys of any length: Lookup     *)
(* finds the slot of a key, and every operation that writes a page         *)
(* (insertion and deletion of a slot, a split, a promotion, a merge with   *)
(* the parent or with a sibling) leaves pages of their kind.               *)
(***************************************************************************)
EXTENDS PatriciaTreeProofs

-----------------------------------------------------------------------------
(* The keys of a page *)

\* key lies in slot s.
InSlot(lows, highs, s, key) ==
    /\ s \in 1 .. Len(lows) /\ key \in AnyKey
    /\ KeyLeq(lows[s], key) /\ KeyLeq(key, highs[s])

\* The slots of a page, their ends and the diffs between them, in one place.
LEMMA EndsAre ==
    ASSUME NEW lows, NEW highs, Ends(lows, highs)
    PROVE  LET n == Len(lows)
               diffs == DiffsBetween(lows, highs)
           IN  /\ n \in Nat /\ n > 0 /\ Len(highs) = n
               /\ diffs \in Seq(Nat) /\ Len(diffs) = n - 1 /\ Len(diffs) + 1 = n
               /\ Len(diffs) \in Nat
               /\ \A s \in 1 .. n : /\ lows[s] \in AnyKey /\ highs[s] \in AnyKey
                                    /\ KeyLeq(lows[s], highs[s])
                                    /\ InSlot(lows, highs, s, lows[s])
                                    /\ InSlot(lows, highs, s, highs[s])
               /\ \A i \in 1 .. n - 1 :
                    /\ diffs[i] = DiffBit(highs[i], lows[i + 1])
                    /\ diffs[i] \in Nat
                    /\ KeyLess(highs[i], lows[i + 1])
                    /\ Alike(highs[i], lows[i + 1], diffs[i])
                    /\ GetDiffBit(highs[i], diffs[i]) = 0
                    /\ GetDiffBit(lows[i + 1], diffs[i]) = 1
<1> DEFINE n == Len(lows)
           diffs == DiffsBetween(lows, highs)
<1>1. /\ lows \in Seq(AnyKey) /\ highs \in Seq(AnyKey) /\ Len(highs) = n
      /\ n \in Nat /\ n > 0
      /\ \A s \in 1 .. n : KeyLeq(lows[s], highs[s])
      /\ \A s \in 1 .. n - 1 : KeyLess(highs[s], lows[s + 1])
  BY DEF Ends
<1>2. \A s \in 1 .. n : lows[s] \in AnyKey /\ highs[s] \in AnyKey
  BY <1>1
<1>3. diffs = [i \in 1 .. n - 1 |-> DiffBit(highs[i], lows[i + 1])]
  BY DEF DiffsBetween
<1>4. ASSUME NEW i \in 1 .. n - 1
      PROVE  /\ diffs[i] = DiffBit(highs[i], lows[i + 1])
             /\ diffs[i] \in Nat
             /\ KeyLess(highs[i], lows[i + 1])
             /\ Alike(highs[i], lows[i + 1], diffs[i])
             /\ GetDiffBit(highs[i], diffs[i]) = 0
             /\ GetDiffBit(lows[i + 1], diffs[i]) = 1
  <2>1. i \in 1 .. n /\ i + 1 \in 1 .. n
    BY <1>1
  <2>2. highs[i] \in AnyKey /\ lows[i + 1] \in AnyKey /\ KeyLess(highs[i], lows[i + 1])
    BY <1>1, <1>2, <2>1
  <2>3. diffs[i] = DiffBit(highs[i], lows[i + 1])
    BY <1>3
  <2> HIDE DEF diffs
  <2> QED
    BY <2>2, <2>3, LessPart
<1>5. \A s \in 1 .. n : InSlot(lows, highs, s, lows[s]) /\ InSlot(lows, highs, s, highs[s])
  BY <1>1, <1>2 DEF InSlot, KeyLeq
<1> HIDE DEF diffs
<1>6. diffs \in Seq(Nat) /\ Len(diffs) = n - 1
  <2>1. n - 1 \in Nat /\ diffs = [i \in 1 .. n - 1 |-> diffs[i]]
    BY <1>1, <1>3
  <2>2. \A i \in 1 .. n - 1 : diffs[i] \in Nat
    BY <1>4
  <2> HIDE DEF n
  <2> QED
    BY <2>1, <2>2
<1> QED
  BY <1>1, <1>2, <1>4, <1>5, <1>6 DEF diffs

\* The slots are in order.
LEMMA SlotsInOrder ==
    ASSUME NEW lows, NEW highs, Ends(lows, highs),
           NEW s \in 1 .. Len(lows), NEW r \in 1 .. Len(lows), s < r
    PROVE  KeyLess(highs[s], lows[r])
<1> DEFINE n == Len(lows)
           T == {k \in Nat : (s + 1) + k <= n => KeyLess(highs[s], lows[(s + 1) + k])}
<1>1. /\ n \in Nat
      /\ \A i \in 1 .. n : lows[i] \in AnyKey /\ highs[i] \in AnyKey /\ KeyLeq(lows[i], highs[i])
      /\ \A i \in 1 .. n - 1 : KeyLess(highs[i], lows[i + 1])
  BY EndsAre
<1> HIDE DEF n
<1>2. s \in 1 .. n /\ r \in 1 .. n
  BY DEF n
<1>3. 0 \in T
  <2>1. s \in 1 .. n - 1 /\ (s + 1) + 0 = s + 1
    BY <1>1, <1>2
  <2>2. KeyLess(highs[s], lows[s + 1])
    BY <1>1, <2>1
  <2> QED
    BY <2>1, <2>2
<1>4. ASSUME NEW k \in T
      PROVE  k + 1 \in T
  <2> DEFINE m == (s + 1) + k
  <2>1. SUFFICES ASSUME (s + 1) + (k + 1) <= n
                 PROVE  KeyLess(highs[s], lows[(s + 1) + (k + 1)])
    OBVIOUS
  <2>2. /\ k \in Nat /\ m \in 1 .. n - 1 /\ m \in 1 .. n /\ m + 1 \in 1 .. n
        /\ (s + 1) + (k + 1) = m + 1
    BY <1>1, <1>2, <2>1
  <2>3. KeyLess(highs[s], lows[m])
    BY <2>2
  <2> HIDE DEF m
  <2>4. KeyLeq(lows[m], highs[m]) /\ KeyLess(highs[m], lows[m + 1])
        /\ lows[m] \in AnyKey /\ highs[m] \in AnyKey /\ lows[m + 1] \in AnyKey
        /\ highs[s] \in AnyKey
    BY <1>1, <1>2, <2>2
  <2>5. KeyLess(highs[s], highs[m])
    BY <2>3, <2>4, LeqTransitive DEF KeyLeq
  <2>6. KeyLess(highs[s], lows[m + 1])
    BY <2>4, <2>5, LeqTransitive DEF KeyLeq
  <2> QED
    BY <2>2, <2>6
<1>5. T = Nat
  <2>1. T \in SUBSET Nat
    OBVIOUS
  <2> HIDE DEF T
  <2> QED
    BY <1>3, <1>4, <2>1, SetInduction
<1>6. r - (s + 1) \in T /\ (s + 1) + (r - (s + 1)) = r /\ r <= n
  <2>1. r - (s + 1) \in Nat /\ (s + 1) + (r - (s + 1)) = r /\ r <= n
    BY <1>1, <1>2
  <2> QED
    BY <1>5, <2>1
<1> QED
  BY <1>6

\* All keys of neighbouring slots are alike below the smallest diff between them.
LEMMA RangeAlike ==
    ASSUME NEW lows, NEW highs, Ends(lows, highs),
           NEW a \in 1 .. Len(lows), NEW b \in 1 .. Len(lows), a <= b,
           NEW d \in Nat,
           \A i \in a .. b - 1 : d <= DiffsBetween(lows, highs)[i],
           \A s \in a .. b : Alike(lows[s], highs[s], d)
    PROVE  \A s \in a .. b, r \in a .. b : \A k, l :
             InSlot(lows, highs, s, k) /\ InSlot(lows, highs, r, l) => Alike(k, l, d)
<1> DEFINE n == Len(lows)
           diffs == DiffsBetween(lows, highs)
           T == {j \in Nat : a + j <= b => Alike(lows[a], lows[a + j], d)}
<1>1. /\ n \in Nat
      /\ \A i \in 1 .. n : lows[i] \in AnyKey /\ highs[i] \in AnyKey /\ KeyLeq(lows[i], highs[i])
      /\ \A i \in 1 .. n - 1 : diffs[i] \in Nat /\ Alike(highs[i], lows[i + 1], diffs[i])
  BY EndsAre
<1> HIDE DEF n, diffs
<1>2. a \in 1 .. n /\ b \in 1 .. n /\ \A i \in a .. b - 1 : d <= diffs[i]
  BY DEF n, diffs
<1>3. 0 \in T
  <2>1. a + 0 = a
    BY <1>2
  <2>2. Alike(lows[a], lows[a], d)
    BY DEF Alike
  <2> QED
    BY <2>1, <2>2
<1>4. ASSUME NEW j \in T
      PROVE  j + 1 \in T
  <2> DEFINE m == a + j
  <2>1. SUFFICES ASSUME a + (j + 1) <= b
                 PROVE  Alike(lows[a], lows[a + (j + 1)], d)
    OBVIOUS
  <2>2. /\ j \in Nat /\ m \in 1 .. n - 1 /\ m \in a .. b - 1 /\ m \in a .. b
        /\ a + (j + 1) = m + 1
    BY <1>1, <1>2, <2>1
  <2>3. Alike(lows[a], lows[m], d)
    BY <2>2
  <2> HIDE DEF m
  <2>4. Alike(lows[m], highs[m], d)
    BY <2>2
  <2>5. Alike(highs[m], lows[m + 1], d)
    <3>1. diffs[m] \in Nat /\ d <= diffs[m] /\ Alike(highs[m], lows[m + 1], diffs[m])
      BY <1>1, <1>2, <2>2
    <3> QED
      BY <3>1, AlikeIs
  <2>6. Alike(lows[a], lows[m + 1], d)
    BY <2>3, <2>4, <2>5, AlikeIs
  <2> QED
    BY <2>2, <2>6
<1>5. T = Nat
  <2>1. T \in SUBSET Nat
    OBVIOUS
  <2> HIDE DEF T
  <2> QED
    BY <1>3, <1>4, <2>1, SetInduction
<1>6. ASSUME NEW s \in a .. b
      PROVE  Alike(lows[a], lows[s], d)
  <2>1. s - a \in Nat /\ a + (s - a) = s /\ s <= b
    BY <1>2
  <2>2. s - a \in T
    <3> HIDE DEF T
    <3> QED
      BY <1>5, <2>1
  <2> QED
    BY <2>1, <2>2
<1>7. ASSUME NEW s \in a .. b, NEW k, InSlot(lows, highs, s, k)
      PROVE  Alike(lows[a], k, d)
  <2>1. /\ lows[s] \in AnyKey /\ highs[s] \in AnyKey /\ k \in AnyKey
        /\ KeyLeq(lows[s], k) /\ KeyLeq(k, highs[s]) /\ Alike(lows[s], highs[s], d)
    BY <1>1, <1>2, <1>7 DEF InSlot, n
  <2>2. Alike(lows[s], k, d)
    BY <2>1, LeqAlike
  <2> QED
    BY <1>6, <2>2, AlikeIs
<1>8. ASSUME NEW s \in a .. b, NEW r \in a .. b, NEW k, NEW l,
             InSlot(lows, highs, s, k), InSlot(lows, highs, r, l)
      PROVE  Alike(k, l, d)
  <2>1. Alike(lows[a], k, d) /\ Alike(lows[a], l, d)
    BY <1>7, <1>8
  <2> QED
    BY <2>1, AlikeIs
<1> QED
  BY <1>8

\* The keys of one slot are alike below the diffs beside it.
LEMMA SlotAlike ==
    ASSUME NEW lows, NEW highs, Ends(lows, highs),
           NEW s \in 1 .. Len(lows), NEW i \in 1 .. Len(lows) - 1, i \in {s - 1, s},
           NEW d \in Nat, d <= DiffsBetween(lows, highs)[i]
    PROVE  /\ Alike(lows[s], highs[s], d)
           /\ Alike(lows[s], highs[s], d + 1)
<1> DEFINE e == DiffsBetween(lows, highs)[i]
           z == DiffBit(lows[s], highs[s])
<1>1. lows[s] \in AnyKey /\ highs[s] \in AnyKey /\ e \in Nat
  BY EndsAre
<1>2. lows[s] # highs[s] => e < z
  BY DEF Ends
<1>3. lows[s] # highs[s] => z \in Nat
  BY <1>1, KeysPart
<1> HIDE DEF e, z
<1>4. d <= e
  BY DEF e
<1>5. lows[s] = highs[s] \/ (d <= z /\ d + 1 <= z)
  BY <1>1, <1>2, <1>3, <1>4
<1>6. d + 1 \in Nat
  OBVIOUS
<1> QED
  BY <1>1, <1>5, <1>6, AlikeBelowDiff DEF z

\* The keys of a frame are alike below the diff of its route, and answer to it
\* with the side they are on.
LEMMA FrameKeys ==
    ASSUME NEW lows, NEW highs, Ends(lows, highs),
           NEW f \in CartesianFrames(DiffsBetween(lows, highs)), IsRoute(f)
    PROVE  LET diffs == DiffsBetween(lows, highs)
               x == PlaceOf(diffs, f)
               d == diffs[x]
           IN  /\ d \in Nat /\ x \in f.lo .. f.lo + f.n - 2
               /\ f.lo >= 1 /\ f.lo + f.n - 1 <= Len(lows)
               /\ \A s \in SlotsOf(f), r \in SlotsOf(f) : \A k, l :
                    InSlot(lows, highs, s, k) /\ InSlot(lows, highs, r, l) => Alike(k, l, d)
               /\ \A s \in SlotsOf(f) : \A k : InSlot(lows, highs, s, k) =>
                    /\ s <= x => GetDiffBit(k, d) = 0
                    /\ s > x => GetDiffBit(k, d) = 1
<1> DEFINE n == Len(lows)
           diffs == DiffsBetween(lows, highs)
           x == PlaceOf(diffs, f)
           d == diffs[x]
           a == f.lo
           fn == f.n
           b == a + fn - 1
           t == CartesianTree(diffs)
<1>1. /\ n \in Nat /\ diffs \in Seq(Nat) /\ Len(diffs) + 1 = n
      /\ \A s \in 1 .. n : /\ lows[s] \in AnyKey /\ highs[s] \in AnyKey
                           /\ KeyLeq(lows[s], highs[s])
                           /\ InSlot(lows, highs, s, lows[s]) /\ InSlot(lows, highs, s, highs[s])
  BY EndsAre
<1>2. /\ a \in Nat /\ fn \in Nat /\ a >= 1 /\ fn > 1 /\ b <= n
  <2>1. a \in Nat \ {0} /\ fn \in Nat \ {0} /\ fn > 1 /\ a + fn - 1 <= Len(diffs) + 1
    BY <1>1, CartesianParts
  <2> QED
    BY <1>1, <2>1
<1>3. /\ x \in a .. a + fn - 2 /\ x \in 1 .. Len(diffs)
      /\ PartsAt(diffs, f, t[f]) /\ x = a + t[f] - 1
  BY <1>1, CartesianBasics DEF PlaceOf
<1>4. \A j \in a .. a + fn - 2 : d <= diffs[j]
  BY <1>3 DEF PartsAt
<1>5. SlotsOf(f) = a .. b
  BY DEF SlotsOf
<1> HIDE DEF x, a, fn, t, diffs, n
<1>6. /\ x \in 1 .. n - 1 /\ x \in 1 .. n /\ x + 1 \in 1 .. n
      /\ a \in 1 .. n /\ b \in 1 .. n /\ a <= b /\ b \in Nat /\ b - 1 = a + fn - 2
      /\ x \in a .. b /\ x + 1 \in a .. b /\ x < b
  <2>1. n \in Nat /\ x \in a .. a + fn - 2
    BY <1>1, <1>3
  <2> QED
    BY <1>2, <2>1
<1>7. /\ d \in Nat /\ GetDiffBit(highs[x], d) = 0 /\ GetDiffBit(lows[x + 1], d) = 1
  BY <1>6, EndsAre DEF n, diffs
<1> HIDE DEF d, b
<1>8. ASSUME NEW s \in a .. b
      PROVE  Alike(lows[s], highs[s], d)
  <2>1. s \in 1 .. n /\ s \in Nat
    <3>1. n \in Nat /\ a \in 1 .. n /\ b \in 1 .. n
      BY <1>1, <1>6
    <3> QED
      BY <3>1
  <2>2. \E i \in a .. a + fn - 2 : i \in {s - 1, s}
    <3>1. CASE s < b
      <4>1. s \in a .. a + fn - 2
        BY <1>2, <1>6, <2>1, <3>1
      <4> QED
        BY <4>1
    <3>2. CASE s = b
      <4>1. s - 1 \in a .. a + fn - 2
        BY <1>2, <1>6, <2>1, <3>2 DEF b
      <4> QED
        BY <4>1
    <3> QED
      BY <1>6, <3>1, <3>2
  <2>3. PICK i \in a .. a + fn - 2 : i \in {s - 1, s}
    BY <2>2
  <2>4. i \in 1 .. n - 1 /\ d <= diffs[i]
    BY <1>1, <1>2, <1>4, <1>6
  <2> QED
    BY <1>7, <2>1, <2>3, <2>4, SlotAlike DEF n, diffs
<1>9. \A s \in a .. b, r \in a .. b : \A k, l :
        InSlot(lows, highs, s, k) /\ InSlot(lows, highs, r, l) => Alike(k, l, d)
  <2>1. \A i \in a .. b - 1 : d <= diffs[i]
    BY <1>4, <1>6
  <2>2. a \in 1 .. Len(lows) /\ b \in 1 .. Len(lows) /\ a <= b
    BY <1>6 DEF n
  <2> QED
    BY <1>7, <1>8, <2>1, <2>2, RangeAlike DEF diffs
<1>10. ASSUME NEW s \in a .. b, NEW k, InSlot(lows, highs, s, k)
       PROVE  /\ s <= x => GetDiffBit(k, d) = 0
              /\ s > x => GetDiffBit(k, d) = 1
  <2>1. s \in 1 .. n /\ s \in Nat /\ k \in AnyKey /\ KeyLeq(lows[s], k) /\ KeyLeq(k, highs[s])
        /\ lows[s] \in AnyKey /\ highs[s] \in AnyKey
    BY <1>1, <1>6, <1>10 DEF InSlot
  <2>2. ASSUME s <= x
        PROVE  GetDiffBit(k, d) = 0
    <3>1. KeyLeq(k, highs[x]) /\ highs[x] \in AnyKey
      <4>1. CASE s = x
        BY <2>1, <4>1
      <4>2. CASE s < x
        <5>1. KeyLess(highs[s], lows[x])
          BY <1>6, <2>1, <4>2, SlotsInOrder DEF n
        <5>2. /\ KeyLeq(highs[s], lows[x]) /\ lows[x] \in AnyKey /\ highs[x] \in AnyKey
              /\ KeyLeq(lows[x], highs[x])
          BY <1>1, <1>6, <5>1 DEF KeyLeq
        <5>3. KeyLeq(highs[s], highs[x])
          BY <2>1, <5>2, LeqTransitive
        <5> QED
          BY <2>1, <5>2, <5>3, LeqTransitive
      <4> QED
        BY <1>6, <2>1, <2>2, <4>1, <4>2
    <3>2. Alike(k, highs[x], d)
      BY <1>1, <1>6, <1>9, <1>10
    <3> QED
      BY <1>7, <2>1, <3>1, <3>2, LeqAnswers
  <2>3. ASSUME s > x
        PROVE  GetDiffBit(k, d) = 1
    <3>1. KeyLeq(lows[x + 1], k) /\ lows[x + 1] \in AnyKey
      <4>1. CASE s = x + 1
        BY <2>1, <4>1
      <4>2. CASE x + 1 < s
        <5>1. KeyLess(highs[x + 1], lows[s])
          BY <1>6, <2>1, <4>2, SlotsInOrder DEF n
        <5>2. /\ KeyLeq(highs[x + 1], lows[s]) /\ lows[x + 1] \in AnyKey /\ highs[x + 1] \in AnyKey
              /\ KeyLeq(lows[x + 1], highs[x + 1])
          BY <1>1, <1>6, <5>1 DEF KeyLeq
        <5>3. KeyLeq(highs[x + 1], k)
          BY <2>1, <5>2, LeqTransitive
        <5> QED
          BY <2>1, <5>2, <5>3, LeqTransitive
      <4> QED
        BY <1>6, <2>1, <2>3, <4>1, <4>2
    <3>2. Alike(lows[x + 1], k, d)
      BY <1>1, <1>6, <1>9, <1>10
    <3> QED
      BY <1>7, <2>1, <3>1, <3>2, LeqAnswers
  <2> QED
    BY <2>2, <2>3
<1>11. /\ d \in Nat /\ x \in a .. a + fn - 2 /\ a >= 1 /\ a + fn - 1 <= n
  BY <1>2, <1>3, <1>7 DEF b
<1>12. /\ \A s \in SlotsOf(f), r \in SlotsOf(f) : \A k, l :
            InSlot(lows, highs, s, k) /\ InSlot(lows, highs, r, l) => Alike(k, l, d)
       /\ \A s \in SlotsOf(f) : \A k : InSlot(lows, highs, s, k) =>
            /\ s <= x => GetDiffBit(k, d) = 0
            /\ s > x => GetDiffBit(k, d) = 1
  BY <1>5, <1>9, <1>10
<1> QED
  BY <1>11, <1>12 DEF d, x, a, fn, diffs, n

-----------------------------------------------------------------------------
(* Search *)

\* The routes of such a page are those of the diffs between its slots.
LEMMA KeyPageIs ==
    ASSUME NEW page, NEW lows, NEW highs, KeyPage(page, lows, highs)
    PROVE  /\ Ends(lows, highs)
           /\ Canonical(page, DiffsBetween(lows, highs))
<1>1. Ends(lows, highs) /\ Len(page.reps) = Len(lows)
      /\ page.routes = RoutesOf(DiffsBetween(lows, highs))
  BY DEF KeyPage
<1>2. DiffsBetween(lows, highs) \in Seq(Nat) /\ Len(DiffsBetween(lows, highs)) + 1 = Len(lows)
  BY <1>1, EndsAre
<1> QED
  BY <1>1, <1>2 DEF Canonical

\* A slot of a frame is on the left side up to its place and on the right after.
LEMMA SideOf ==
    ASSUME NEW diffs \in Seq(Nat), NEW f \in CartesianFrames(diffs), IsRoute(f),
           NEW s \in SlotsOf(f)
    PROVE  LET t == CartesianTree(diffs)
           IN  /\ s <= PlaceOf(diffs, f) => s \in SlotsOf(LeftOf(t, f))
               /\ s > PlaceOf(diffs, f) => s \in SlotsOf(RightOf(t, f))
<1> DEFINE t == CartesianTree(diffs)
           x == PlaceOf(diffs, f)
           fl == f.lo
           fn == f.n
           k == t[f]
<1>1. /\ LeftOf(t, f).lo = fl /\ LeftOf(t, f).n = k
      /\ RightOf(t, f).lo = fl + k /\ RightOf(t, f).n = fn - k
      /\ k \in 1 .. fn - 1 /\ fl \in Nat /\ fn \in Nat
  BY CartesianParts
<1>2. x = fl + k - 1
  BY DEF PlaceOf
<1>3. s \in fl .. fl + fn - 1
  BY DEF SlotsOf
<1>4. /\ SlotsOf(LeftOf(t, f)) = fl .. fl + k - 1
      /\ SlotsOf(RightOf(t, f)) = fl + k .. fl + k + (fn - k) - 1
  BY <1>1 DEF SlotsOf
<1> HIDE DEF x, fl, fn, k, t
<1> QED
  BY <1>1, <1>2, <1>3, <1>4 DEF x, t

\* The way of a key in a slot leads to that slot.
LEMMA WayToSlot ==
    ASSUME NEW page, NEW lows, NEW highs, KeyPage(page, lows, highs),
           NEW s, NEW key, InSlot(lows, highs, s, key)
    PROVE  LET p == PathFor(page, key)
           IN  /\ WayDown(p, DiffsBetween(lows, highs))
               /\ \A j \in 1 .. Len(p) : s \in SlotsOf(p[j])
<1> DEFINE diffs == DiffsBetween(lows, highs)
           size == Len(diffs) + 1
           t == CartesianTree(diffs)
           all == CartesianFrames(diffs)
           p == PathFor(page, key)
           T == {j \in Nat : j + 1 <= Len(p) => s \in SlotsOf(p[j + 1])}
<1>1. /\ Ends(lows, highs) /\ Canonical(page, diffs) /\ key \in Seq(Byte)
      /\ diffs \in Seq(Nat) /\ size = Len(lows) /\ Len(lows) \in Nat
      /\ s \in 1 .. Len(lows)
  BY KeyPageIs, EndsAre DEF InSlot, AnyKey
<1> HIDE DEF p, t, diffs, all
<1>2. /\ WayDown(p, diffs)
      /\ \A j \in 1 .. Len(p) - 1 :
           p[j + 1] = IF GetDiffBit(key, diffs[PlaceOf(diffs, p[j])]) = 0
                      THEN LeftOf(t, p[j]) ELSE RightOf(t, p[j])
  BY <1>1, PathForIs DEF p, t
<1>3. /\ p \in Seq(all) /\ Len(p) \in Nat \ {0} /\ p[1] = WholePage(size)
      /\ \A j \in 1 .. Len(p) - 1 : IsRoute(p[j]) /\ p[j] \in all
  BY <1>2 DEF WayDown, all
<1>4. 0 \in T
  <2>1. SlotsOf(p[1]) = 1 .. size
    BY <1>1, <1>3 DEF SlotsOf, WholePage
  <2> QED
    BY <1>1, <2>1
<1>5. ASSUME NEW j \in T
      PROVE  j + 1 \in T
  <2>1. SUFFICES ASSUME (j + 1) + 1 <= Len(p)
                 PROVE  s \in SlotsOf(p[(j + 1) + 1])
    OBVIOUS
  <2>2. j + 1 \in 1 .. Len(p) - 1 /\ j + 1 <= Len(p)
    BY <1>3, <2>1
  <2> DEFINE f == p[j + 1]
             x == PlaceOf(diffs, f)
  <2>3. /\ s \in SlotsOf(f)
        /\ p[(j + 1) + 1] = IF GetDiffBit(key, diffs[x]) = 0 THEN LeftOf(t, f) ELSE RightOf(t, f)
        /\ f \in all /\ IsRoute(f)
    BY <1>2, <1>3, <2>2
  <2> HIDE DEF f
  <2>4. /\ s <= x => GetDiffBit(key, diffs[x]) = 0
        /\ s > x => GetDiffBit(key, diffs[x]) = 1
        /\ x \in f.lo .. f.lo + f.n - 2
    BY <1>1, <2>3, FrameKeys DEF all, diffs
  <2>5. /\ s <= x => s \in SlotsOf(LeftOf(t, f))
        /\ s > x => s \in SlotsOf(RightOf(t, f))
    BY <1>1, <2>3, SideOf DEF all, t
  <2>6. x \in Int /\ s \in Int
    <3>1. f.lo \in Nat
      BY <1>1, <2>3, CartesianParts DEF all
    <3> QED
      BY <1>1, <2>4, <3>1
  <2> HIDE DEF x
  <2> QED
    BY <2>3, <2>4, <2>5, <2>6
<1>6. T = Nat
  <2>1. T \in SUBSET Nat
    OBVIOUS
  <2> HIDE DEF T
  <2> QED
    BY <1>4, <1>5, <2>1, SetInduction
<1>7. ASSUME NEW j \in 1 .. Len(p)
      PROVE  s \in SlotsOf(p[j])
  <2>1. j - 1 \in Nat /\ (j - 1) + 1 = j /\ j <= Len(p)
    BY <1>3
  <2>2. j - 1 \in T
    <3> HIDE DEF T
    <3> QED
      BY <1>6, <2>1
  <2> QED
    BY <2>1, <2>2
<1> QED
  BY <1>2, <1>7 DEF p, diffs

\* A way ends at one slot.
LEMMA WayEnds ==
    ASSUME NEW diffs \in Seq(Nat), NEW p, WayDown(p, diffs)
    PROVE  /\ Last(p) = p[Len(p)] /\ p[Len(p)] \in CartesianFrames(diffs)
           /\ Last(p).lo \in 1 .. Len(diffs) + 1
           /\ SlotsOf(Last(p)) = {Last(p).lo}
<1> DEFINE f == p[Len(p)]
<1>1. f \in CartesianFrames(diffs) /\ ~ IsRoute(f) /\ Last(p) = f
  BY DEF WayDown, Last
<1> HIDE DEF f
<1>2. f.lo \in Nat \ {0} /\ f.n \in Nat \ {0} /\ f.lo + f.n - 1 <= Len(diffs) + 1
  BY <1>1, CartesianParts
<1>3. f.n = 1
  BY <1>1, <1>2 DEF IsRoute
<1>4. f.lo \in 1 .. Len(diffs) + 1
  BY <1>2, <1>3
<1>5. SlotsOf(f) = {f.lo}
  BY <1>2, <1>3 DEF SlotsOf
<1> QED
  BY <1>1, <1>4, <1>5 DEF f

\* NodePage::Lookup leads every key between the ends of a slot to that slot,
\* although it compares no key and reads only the bits its routes ask for.
THEOREM LookupFindsSlot ==
    ASSUME NEW page, NEW lows, NEW highs, KeyPage(page, lows, highs),
           NEW s, NEW key, InSlot(lows, highs, s, key)
    PROVE  Lookup(page, key) = s
<1> DEFINE diffs == DiffsBetween(lows, highs)
           p == PathFor(page, key)
<1>1. diffs \in Seq(Nat)
  BY KeyPageIs, EndsAre
<1>2. WayDown(p, diffs) /\ \A j \in 1 .. Len(p) : s \in SlotsOf(p[j])
  BY WayToSlot
<1>3. Len(p) \in 1 .. Len(p)
  <2>1. Len(p) \in Nat \ {0}
    BY <1>2 DEF WayDown
  <2> QED
    BY <2>1
<1> HIDE DEF p, diffs
<1>4. SlotsOf(Last(p)) = {Last(p).lo} /\ Last(p) = p[Len(p)]
  BY <1>1, <1>2, WayEnds
<1>5. s = Last(p).lo
  BY <1>2, <1>3, <1>4
<1> QED
  BY <1>5 DEF Lookup, p

\* The slots of a frame inside f are slots of f.
LEMMA InsideSlots ==
    ASSUME NEW diffs \in Seq(Nat), NEW f \in CartesianFrames(diffs),
           NEW g \in CartesianFrames(diffs), Inside(g, f)
    PROVE  SlotsOf(g) \in SUBSET SlotsOf(f)
<1> DEFINE fl == f.lo
           fn == f.n
           gl == g.lo
           gn == g.n
<1>1. fl \in Nat /\ fn \in Nat /\ gl \in Nat /\ gn \in Nat
  BY CartesianParts
<1>2. fl <= gl /\ gl + gn <= fl + fn
  BY DEF Inside
<1>3. SlotsOf(f) = fl .. fl + fn - 1 /\ SlotsOf(g) = gl .. gl + gn - 1
  BY DEF SlotsOf
<1> HIDE DEF fl, fn, gl, gn
<1> QED
  BY <1>1, <1>2, <1>3

\* The slots of the two sides of a route are those up to its place and those
\* after.
LEMMA SlotsOfSides ==
    ASSUME NEW diffs \in Seq(Nat), NEW f \in CartesianFrames(diffs), IsRoute(f)
    PROVE  LET t == CartesianTree(diffs)
               x == PlaceOf(diffs, f)
           IN  /\ x \in Nat /\ f.lo \in Nat /\ f.n \in Nat
               /\ SlotsOf(LeftOf(t, f)) = f.lo .. x
               /\ SlotsOf(RightOf(t, f)) = x + 1 .. f.lo + f.n - 1
<1> DEFINE t == CartesianTree(diffs)
           x == PlaceOf(diffs, f)
           fl == f.lo
           fn == f.n
           k == t[f]
<1>1. /\ LeftOf(t, f).lo = fl /\ LeftOf(t, f).n = k
      /\ RightOf(t, f).lo = fl + k /\ RightOf(t, f).n = fn - k
      /\ k \in 1 .. fn - 1 /\ fl \in Nat \ {0} /\ fn \in Nat
  BY CartesianParts
<1>2. x = fl + k - 1
  BY DEF PlaceOf
<1>3. /\ SlotsOf(LeftOf(t, f)) = fl .. fl + k - 1
      /\ SlotsOf(RightOf(t, f)) = fl + k .. fl + k + (fn - k) - 1
  BY <1>1 DEF SlotsOf
<1> HIDE DEF x, fl, fn, k, t
<1>4. /\ x \in Nat /\ fl + k - 1 = x /\ fl + k = x + 1 /\ fl + k + (fn - k) - 1 = fl + fn - 1
  BY <1>1, <1>2
<1> QED
  BY <1>1, <1>3, <1>4 DEF x, t, fl, fn

\* The diff of a key to a key of the slot it leads to is one that no route on
\* its way asks for.
LEMMA NotAskedIs ==
    ASSUME NEW page, NEW lows, NEW highs, KeyPage(page, lows, highs),
           NEW k \in AnyKey, NEW ck, InSlot(lows, highs, Lookup(page, k), ck), k # ck
    PROVE  NotAsked(page, k, DiffBit(k, ck))
<1> DEFINE diffs == DiffsBetween(lows, highs)
           t == CartesianTree(diffs)
           all == CartesianFrames(diffs)
           p == PathFor(page, k)
           c == Lookup(page, k)
           d == DiffBit(k, ck)
<1>1. /\ Ends(lows, highs) /\ Canonical(page, diffs) /\ ck \in AnyKey
      /\ diffs \in Seq(Nat) /\ k \in Seq(Byte)
  BY KeyPageIs, EndsAre DEF InSlot, AnyKey
<1>2. /\ d \in Nat
      /\ \/ GetDiffBit(k, d) = 0 /\ GetDiffBit(ck, d) = 1
         \/ GetDiffBit(k, d) = 1 /\ GetDiffBit(ck, d) = 0
  BY <1>1, KeysPart
<1> HIDE DEF diffs, t, all, p, c, d
<1>3. /\ WayDown(p, diffs)
      /\ \A j \in 1 .. Len(p) - 1 :
           p[j + 1] = IF GetDiffBit(k, diffs[PlaceOf(diffs, p[j])]) = 0
                      THEN LeftOf(t, p[j]) ELSE RightOf(t, p[j])
  BY <1>1, PathForIs DEF p, t
<1>4. /\ p \in Seq(all) /\ Len(p) \in Nat \ {0} /\ ~ IsRoute(p[Len(p)])
      /\ \A j \in 1 .. Len(p) - 1 : IsRoute(p[j]) /\ p[j] \in all
  BY <1>3 DEF WayDown, all
<1>5. ASSUME NEW j \in 1 .. Len(p)
      PROVE  c \in SlotsOf(p[j])
  <2>1. /\ Last(p) = p[Len(p)] /\ SlotsOf(Last(p)) = {c}
    BY <1>1, <1>3, WayEnds DEF c, Lookup, p
  <2>2. Len(p) \in 1 .. Len(p) /\ j \in 1 .. Len(p)
    BY <1>4
  <2>3. p[Len(p)] \in all /\ p[j] \in all /\ Inside(p[Len(p)], p[j])
    BY <1>1, <1>3, <2>2, WayIsBelow, FramesAround DEF all
  <2>4. SlotsOf(p[Len(p)]) \in SUBSET SlotsOf(p[j])
    BY <1>1, <2>3, InsideSlots DEF all
  <2> QED
    BY <2>1, <2>4
<1>6. ASSUME NEW j \in 1 .. Len(p), IsRoute(p[j])
      PROVE  RouteDiff(page.routes[p[j].node]) # d
  <2> DEFINE f == p[j]
             x == PlaceOf(diffs, f)
             e == diffs[x]
             l == LeftOf(t, f)
             r == RightOf(t, f)
  <2>1. j \in 1 .. Len(p) - 1 /\ j + 1 \in 1 .. Len(p)
    BY <1>4, <1>6
  <2>2. /\ f \in all /\ IsRoute(f) /\ c \in SlotsOf(f) /\ c \in SlotsOf(p[j + 1])
        /\ p[j + 1] = IF GetDiffBit(k, e) = 0 THEN l ELSE r
    BY <1>3, <1>4, <1>5, <2>1
  <2> HIDE DEF f
  <2>3. /\ c <= x => GetDiffBit(ck, e) = 0
        /\ c > x => GetDiffBit(ck, e) = 1
        /\ x \in Int /\ e \in Nat /\ RouteDiff(page.routes[f.node]) = e
    <3>1. /\ c <= x => GetDiffBit(ck, e) = 0
          /\ c > x => GetDiffBit(ck, e) = 1
      BY <1>1, <2>2, FrameKeys DEF diffs, all, c
    <3>2. x \in 1 .. Len(diffs)
      BY <1>1, <2>2, CartesianBasics DEF all
    <3>3. e \in Nat /\ RouteDiff(page.routes[f.node]) = e
      BY <1>1, <2>2, CanonicalRoute DEF all
    <3> QED
      BY <3>1, <3>2, <3>3
  <2>4. /\ SlotsOf(l) = f.lo .. x /\ SlotsOf(r) = x + 1 .. f.lo + f.n - 1
    BY <1>1, <2>2, SlotsOfSides DEF all, t
  <2>5. GetDiffBit(k, e) = 0 => GetDiffBit(ck, e) = 0
    <3>1. SUFFICES ASSUME GetDiffBit(k, e) = 0 PROVE c <= x
      BY <2>3
    <3>2. c \in f.lo .. x
      BY <2>2, <2>4, <3>1
    <3> QED
      BY <3>2
  <2>6. GetDiffBit(k, e) # 0 => GetDiffBit(ck, e) = 1
    <3>1. SUFFICES ASSUME GetDiffBit(k, e) # 0 PROVE c > x
      BY <2>3
    <3>2. c \in x + 1 .. f.lo + f.n - 1
      BY <2>2, <2>4, <3>1
    <3> HIDE DEF x
    <3> QED
      BY <2>3, <3>2
  <2> HIDE DEF e
  <2>7. e # d
    BY <1>2, <2>5, <2>6
  <2> QED
    BY <2>3, <2>7 DEF f
<1> QED
  BY <1>6 DEF NotAsked, p, d

-----------------------------------------------------------------------------
(* Insertion of a key *)

\* The route that parts a frame from a slot beside it is above the frame.
LEMMA RouteBeside ==
    ASSUME NEW diffs \in Seq(Nat), NEW q \in CartesianFrames(diffs),
           NEW y \in 1 .. Len(diffs), y \in {q.lo - 1, q.lo + q.n - 1}
    PROVE  \E g \in CartesianFrames(diffs) :
             /\ IsRoute(g) /\ PlaceOf(diffs, g) = y
             /\ q \in FramesBelow(CartesianTree(diffs), g) /\ g # q
<1> DEFINE t == CartesianTree(diffs)
           size == Len(diffs) + 1
           all == CartesianFrames(diffs)
           whole == WholePage(size)
           ql == q.lo
           qn == q.n
<1>1. diffs \in Seq(Nat) /\ q \in all /\ Len(diffs) \in Nat
  OBVIOUS
<1>2. /\ IsTree(t, size) /\ whole \in AllFrames(t, size)
      /\ all = AllFrames(t, size) /\ all = FramesBelow(t, whole)
      /\ whole.lo = 1 /\ whole.n = size
  BY <1>1, CartesianBasics DEF AllFrames, WholePage
<1>3. y \in whole.lo .. whole.lo + whole.n - 2
  BY <1>1, <1>2
<1> HIDE DEF whole
<1>4. PICK g \in all : IsRoute(g) /\ g.lo + t[g] - 1 = y
  BY <1>2, <1>3, RoutesCover
<1> DEFINE gl == g.lo
           gn == g.n
<1>5. PlaceOf(diffs, g) = y /\ y \in gl .. gl + gn - 2
  BY <1>1, <1>4, CartesianBasics DEF PlaceOf
<1>6. gl \in Nat /\ gn \in Nat /\ ql \in Nat /\ qn \in Nat
  BY <1>1, CartesianParts
<1>7. y \in {ql - 1, ql + qn - 1} /\ y \in Nat
  OBVIOUS
<1> HIDE DEF t, size
<1>8. ~ Before(g, q) /\ ~ Before(q, g)
  <2>1. /\ Before(g, q) => gl + gn <= ql
        /\ Before(q, g) => ql + qn <= gl
    BY DEF Before
  <2> HIDE DEF gl, gn, ql, qn, all
  <2> QED
    BY <1>5, <1>6, <1>7, <2>1
<1>9. g \notin FramesBelow(t, q)
  <2>1. g \in FramesBelow(t, q) => Inside(g, q)
    BY <1>1, <1>4, FramesAround DEF t, all
  <2>2. Inside(g, q) => ql <= gl /\ gl + gn <= ql + qn
    BY DEF Inside
  <2> HIDE DEF gl, gn, ql, qn, all
  <2> QED
    BY <1>5, <1>6, <1>7, <2>1, <2>2
<1>10. q \in FramesBelow(t, g) /\ g # q
  BY <1>1, <1>4, <1>8, <1>9, FramesAround DEF t, all
<1> QED
  BY <1>4, <1>5, <1>10 DEF t

\* The routes beside the frame that a key parts from ask earlier.
LEMMA NeighboursAskEarlier ==
    ASSUME NEW diffs, NEW q, NEW diff, NEW bit, Growth(diffs, q, diff, bit),
           NEW y \in 1 .. Len(diffs), y \in {q.lo - 1, q.lo + q.n - 1}
    PROVE  diffs[y] < diff
<1>1. diffs \in Seq(Nat) /\ q \in CartesianFrames(diffs)
  BY DEF Growth
<1>2. PICK g \in CartesianFrames(diffs) :
         /\ IsRoute(g) /\ PlaceOf(diffs, g) = y
         /\ q \in FramesBelow(CartesianTree(diffs), g) /\ g # q
  BY <1>1, RouteBeside
<1>3. diffs[PlaceOf(diffs, g)] < diff
  BY <1>2 DEF Growth
<1> QED
  BY <1>2, <1>3

\* A slot's keys are all alike past diff d.
Whole(lows, highs, s, d) == lows[s] = highs[s] \/ d < DiffBit(lows[s], highs[s])

\* The keys of a slot agree up to d exactly if its ends do.
LEMMA WholeAlike ==
    ASSUME NEW lows, NEW highs, Ends(lows, highs), NEW s \in 1 .. Len(lows), NEW d \in Nat
    PROVE  Whole(lows, highs, s, d) <=> Alike(lows[s], highs[s], d + 1)
<1>1. lows[s] \in AnyKey /\ highs[s] \in AnyKey /\ d + 1 \in Nat
  BY EndsAre
<1> DEFINE z == DiffBit(lows[s], highs[s])
<1>2. lows[s] # highs[s] =>
        z \in Nat /\ GetDiffBit(lows[s], z) # GetDiffBit(highs[s], z)
  BY <1>1, KeysPart
<1> HIDE DEF z
<1>3. Whole(lows, highs, s, d) => Alike(lows[s], highs[s], d + 1)
  <2> SUFFICES ASSUME Whole(lows, highs, s, d) PROVE Alike(lows[s], highs[s], d + 1)
    OBVIOUS
  <2>1. lows[s] = highs[s] \/ d < z
    BY DEF Whole, z
  <2>2. lows[s] = highs[s] \/ d + 1 <= z
    BY <1>2, <2>1
  <2> QED
    BY <1>1, <2>2, AlikeBelowDiff DEF z
<1>4. Alike(lows[s], highs[s], d + 1) => Whole(lows, highs, s, d)
  <2> SUFFICES ASSUME Alike(lows[s], highs[s], d + 1), lows[s] # highs[s] PROVE d < z
    BY DEF Whole, z
  <2>1. ~ (z < d + 1)
    BY <1>1, <1>2, AlikeIs
  <2> QED
    BY <1>2, <2>1
<1> QED
  BY <1>3, <1>4

\* Key k, led to slot c of a page, parts at d from a key ck of that slot; q is
\* the frame it parts from.
Led(page, lows, highs, k, ck, d, q) ==
    /\ KeyPage(page, lows, highs)
    /\ k \in AnyKey /\ InSlot(lows, highs, Lookup(page, k), ck)
    /\ k # ck /\ d = DiffBit(k, ck)
    /\ q = FrameParted(page, k, d)

\* It does not part from the keys of that slot at one inside it.
Parting(page, lows, highs, k, ck, d, q) ==
    /\ Led(page, lows, highs, k, ck, d, q)
    /\ IsRoute(q) \/ Whole(lows, highs, Lookup(page, k), d)

\* What a key that was led to a slot gives: it agrees with the slot up to d,
\* no route on its way asks d, and the frame it parts from may grow.
LEMMA LedGrows ==
    ASSUME NEW page, NEW lows, NEW highs, NEW k, NEW ck, NEW d, NEW q,
           Led(page, lows, highs, k, ck, d, q)
    PROVE  LET diffs == DiffsBetween(lows, highs)
           IN  /\ Ends(lows, highs) /\ Canonical(page, diffs)
               /\ k \in AnyKey /\ ck \in AnyKey /\ d \in Nat
               /\ \/ GetDiffBit(k, d) = 0 /\ GetDiffBit(ck, d) = 1
                  \/ GetDiffBit(k, d) = 1 /\ GetDiffBit(ck, d) = 0
               /\ Alike(k, ck, d)
               /\ NotAsked(page, k, d)
               /\ q \in CartesianFrames(diffs)
               /\ \A bit \in {0, 1} : Growth(diffs, q, d, bit)
               /\ Lookup(page, k) \in SlotsOf(q)
               /\ ~ IsRoute(q) => SlotsOf(q) = {Lookup(page, k)}
<1> DEFINE diffs == DiffsBetween(lows, highs)
           p == PathFor(page, k)
           above == FrameAbove(page, k, d)
           i == IF above = 0 THEN Len(p) ELSE above
           c == Lookup(page, k)
<1>1. /\ KeyPage(page, lows, highs) /\ k \in AnyKey /\ InSlot(lows, highs, c, ck)
      /\ k # ck /\ d = DiffBit(k, ck) /\ q = p[i]
  BY DEF Led, FrameParted
<1>2. /\ Ends(lows, highs) /\ Canonical(page, diffs) /\ ck \in AnyKey
      /\ diffs \in Seq(Nat) /\ k \in Seq(Byte)
  BY <1>1, KeyPageIs, EndsAre DEF InSlot, AnyKey
<1>3. /\ d \in Nat /\ Alike(k, ck, d)
      /\ \/ GetDiffBit(k, d) = 0 /\ GetDiffBit(ck, d) = 1
         \/ GetDiffBit(k, d) = 1 /\ GetDiffBit(ck, d) = 0
  BY <1>1, <1>2, KeysPart
<1>4. NotAsked(page, k, d)
  BY <1>1, NotAskedIs
<1> HIDE DEF diffs, c
<1>5. i \in 1 .. Len(p) /\ \A bit \in {0, 1} : Growth(diffs, q, d, bit)
  BY <1>1, <1>2, <1>3, <1>4, PartedGrows
<1>6. q \in CartesianFrames(diffs)
  BY <1>5 DEF Growth
<1>7. WayDown(p, diffs)
  BY <1>2, PathForIs
<1> HIDE DEF p, i, above
<1>8. Last(p) = p[Len(p)] /\ SlotsOf(Last(p)) = {c} /\ p[Len(p)] \in CartesianFrames(diffs)
  BY <1>2, <1>7, WayEnds DEF c, Lookup, p
<1>9. Len(p) \in Nat \ {0} /\ Len(p) \in 1 .. Len(p)
  <2>1. Len(p) \in Nat \ {0}
    BY <1>7 DEF WayDown
  <2> QED
    BY <2>1
<1>10. c \in SlotsOf(q)
  <2>1. Inside(p[Len(p)], q)
    BY <1>1, <1>2, <1>5, <1>6, <1>7, <1>8, <1>9, WayIsBelow, FramesAround
  <2>2. SlotsOf(p[Len(p)]) \in SUBSET SlotsOf(q)
    BY <1>2, <1>6, <1>8, <2>1, InsideSlots
  <2> QED
    BY <1>8, <2>2
<1>11. ~ IsRoute(q) => SlotsOf(q) = {c}
  <2> SUFFICES ASSUME ~ IsRoute(q) PROVE SlotsOf(q) = {c}
    OBVIOUS
  <2>1. q.lo \in Nat /\ q.n \in Nat \ {0}
    BY <1>2, <1>6, CartesianParts
  <2>2. q.n = 1
    BY <2>1 DEF IsRoute
  <2>3. SlotsOf(q) = {q.lo}
    BY <2>1, <2>2 DEF SlotsOf
  <2> QED
    BY <1>10, <2>3
<1> QED
  BY <1>1, <1>2, <1>3, <1>4, <1>5, <1>6, <1>10, <1>11 DEF diffs, c

\* All keys of the frame that k parts from are on the other side of k, at d.
LEMMA PartedKeys ==
    ASSUME NEW page, NEW lows, NEW highs, NEW k, NEW ck, NEW d, NEW q,
           Parting(page, lows, highs, k, ck, d, q)
    PROVE  /\ \A s \in SlotsOf(q) : s \in 1 .. Len(lows) /\ Whole(lows, highs, s, d)
           /\ \A s \in SlotsOf(q) : \A l : InSlot(lows, highs, s, l) =>
                /\ GetDiffBit(k, d) = 0 => KeyLess(k, l) /\ DiffBit(k, l) = d
                /\ GetDiffBit(k, d) # 0 => KeyLess(l, k) /\ DiffBit(l, k) = d
<1> DEFINE diffs == DiffsBetween(lows, highs)
           c == Lookup(page, k)
<1>1. /\ Ends(lows, highs) /\ k \in AnyKey /\ ck \in AnyKey /\ d \in Nat
      /\ \/ GetDiffBit(k, d) = 0 /\ GetDiffBit(ck, d) = 1
         \/ GetDiffBit(k, d) = 1 /\ GetDiffBit(ck, d) = 0
      /\ Alike(k, ck, d)
      /\ q \in CartesianFrames(diffs) /\ Growth(diffs, q, d, 0)
      /\ c \in SlotsOf(q) /\ (~ IsRoute(q) => SlotsOf(q) = {c})
  BY LedGrows DEF Parting
<1>2. /\ InSlot(lows, highs, c, ck) /\ (IsRoute(q) \/ Whole(lows, highs, c, d))
  BY DEF Parting, Led
<1>3. /\ diffs \in Seq(Nat)
      /\ \A s \in 1 .. Len(lows) : InSlot(lows, highs, s, lows[s]) /\ InSlot(lows, highs, s, highs[s])
  BY <1>1, EndsAre
<1> HIDE DEF diffs, c
<1>4. \A s \in SlotsOf(q) : s \in 1 .. Len(lows)
  <2> DEFINE ql == q.lo
             qn == q.n
             n == Len(lows)
  <2>1. /\ ql \in Nat \ {0} /\ qn \in Nat /\ ql + qn - 1 <= n /\ n \in Nat
    BY <1>1, <1>3, CartesianParts, EndsAre DEF diffs
  <2>2. SlotsOf(q) = ql .. ql + qn - 1
    BY DEF SlotsOf
  <2> HIDE DEF ql, qn, n
  <2>3. \A s \in ql .. ql + qn - 1 : s \in 1 .. n
    BY <2>1
  <2> QED
    BY <2>2, <2>3 DEF n
<1>5. ASSUME NEW s \in SlotsOf(q), NEW l, InSlot(lows, highs, s, l)
      PROVE  Alike(l, ck, d + 1) /\ l \in AnyKey
  <2>1. CASE IsRoute(q)
    <3> DEFINE e == diffs[PlaceOf(diffs, q)]
    <3>1. e \in Nat /\ Alike(l, ck, e)
      BY <1>1, <1>2, <1>5, <2>1, FrameKeys DEF diffs
    <3>2. d < e
      BY <1>1, <2>1 DEF Growth
    <3>3. d + 1 \in Nat /\ d + 1 <= e
      BY <1>1, <3>1, <3>2
    <3> HIDE DEF e
    <3>4. Alike(l, ck, d + 1)
      BY <3>1, <3>3, AlikeIs
    <3> QED
      BY <1>5, <3>4 DEF InSlot
  <2>2. CASE ~ IsRoute(q)
    <3>1. s = c /\ c \in 1 .. Len(lows)
      BY <1>1, <1>4, <2>2
    <3>2. Alike(lows[c], highs[c], d + 1) /\ d + 1 \in Nat
      <4>1. d + 1 \in Nat /\ d \in Nat
        BY <1>1
      <4>2. Whole(lows, highs, c, d) /\ Ends(lows, highs)
        BY <1>1, <1>2, <2>2
      <4> QED
        BY <3>1, <4>1, <4>2, WholeAlike
    <3>3. /\ lows[c] \in AnyKey /\ highs[c] \in AnyKey /\ l \in AnyKey
          /\ KeyLeq(lows[c], l) /\ KeyLeq(l, highs[c])
          /\ KeyLeq(lows[c], ck) /\ KeyLeq(ck, highs[c])
      BY <1>1, <1>2, <1>5, <3>1, EndsAre DEF InSlot
    <3>4. Alike(lows[c], l, d + 1) /\ Alike(lows[c], ck, d + 1)
      BY <1>1, <3>2, <3>3, LeqAlike
    <3>5. Alike(l, lows[c], d + 1)
      BY <3>2, <3>4, AlikeIs
    <3> QED
      BY <3>2, <3>3, <3>4, <3>5, AlikeIs
  <2> QED
    BY <2>1, <2>2
<1>6. d + 1 \in Nat /\ d < d + 1 /\ d <= d + 1
  BY <1>1
<1>7. ASSUME NEW s \in SlotsOf(q)
      PROVE  Whole(lows, highs, s, d)
  <2>1. InSlot(lows, highs, s, lows[s]) /\ InSlot(lows, highs, s, highs[s])
    BY <1>3, <1>4
  <2>2. Alike(lows[s], ck, d + 1) /\ Alike(highs[s], ck, d + 1)
    BY <1>5, <2>1
  <2>3. Alike(ck, highs[s], d + 1)
    BY <1>6, <2>2, AlikeIs
  <2>4. Alike(lows[s], highs[s], d + 1)
    BY <1>6, <2>2, <2>3, AlikeIs
  <2> QED
    BY <1>1, <1>4, <2>4, WholeAlike
<1>8. ASSUME NEW s \in SlotsOf(q), NEW l, InSlot(lows, highs, s, l)
      PROVE  /\ GetDiffBit(k, d) = 0 => KeyLess(k, l) /\ DiffBit(k, l) = d
             /\ GetDiffBit(k, d) # 0 => KeyLess(l, k) /\ DiffBit(l, k) = d
  <2>1. Alike(l, ck, d + 1) /\ l \in AnyKey
    BY <1>5, <1>8
  <2>2. Alike(l, ck, d) /\ GetDiffBit(l, d) = GetDiffBit(ck, d)
    BY <1>1, <1>6, <2>1, AlikeIs
  <2>3. Alike(l, k, d) /\ Alike(k, l, d)
    <3>1. Alike(ck, k, d)
      BY <1>1, AlikeIs
    <3>2. Alike(l, k, d)
      BY <1>1, <2>2, <3>1, AlikeIs
    <3> QED
      BY <1>1, <3>2, AlikeIs
  <2>4. CASE GetDiffBit(k, d) = 0
    <3>1. GetDiffBit(l, d) = 1
      BY <1>1, <2>2, <2>4
    <3>2. KeyLess(k, l) /\ DiffBit(k, l) = d
      BY <1>1, <2>1, <2>3, <2>4, <3>1, FirstDifference
    <3> QED
      BY <2>4, <3>2
  <2>5. CASE GetDiffBit(k, d) # 0
    <3>1. GetDiffBit(l, d) = 0 /\ GetDiffBit(k, d) = 1
      BY <1>1, <2>2, <2>5
    <3>2. KeyLess(l, k) /\ DiffBit(l, k) = d
      BY <1>1, <2>1, <2>3, <3>1, FirstDifference
    <3> QED
      BY <2>5, <3>2
  <2> QED
    BY <2>4, <2>5
<1> QED
  BY <1>4, <1>7, <1>8

\* Key k belongs before slot (after it where slot is past the end) and parts at
\* d from the keys on the side of place, where the others part from it earlier.
Between(lows, highs, slot, place, k, d) ==
    LET n == Len(lows)
        diffs == DiffsBetween(lows, highs)
    IN  /\ k \in AnyKey /\ d \in Nat
        /\ slot \in 1 .. n + 1 /\ place \in 1 .. n
        /\ slot > 1 => KeyLess(highs[slot - 1], k)
        /\ slot <= n => KeyLess(k, lows[slot])
        /\ Whole(lows, highs, place, d)
        /\ \/ /\ place = slot
              /\ DiffBit(k, lows[slot]) = d
              /\ slot > 1 => /\ diffs[slot - 1] < d
                             /\ DiffBit(highs[slot - 1], k) = diffs[slot - 1]
           \/ /\ place = slot - 1
              /\ DiffBit(highs[place], k) = d
              /\ slot <= n => /\ diffs[place] < d
                              /\ DiffBit(k, lows[slot]) = diffs[place]

\* The new key stands between its neighbours with the diffs the grown page
\* has.
LEMMA PartedBetween ==
    ASSUME NEW page, NEW lows, NEW highs, NEW k, NEW ck, NEW d, NEW q,
           Parting(page, lows, highs, k, ck, d, q)
    PROVE  LET slot == SlotAt(q, k, d)
               place == IF GetDiffBit(k, d) = 0 THEN slot ELSE slot - 1
           IN  Between(lows, highs, slot, place, k, d)
<1> DEFINE n == Len(lows)
           diffs == DiffsBetween(lows, highs)
           slot == SlotAt(q, k, d)
           place == IF GetDiffBit(k, d) = 0 THEN slot ELSE slot - 1
           ql == q.lo
           qn == q.n
<1>1. /\ Ends(lows, highs) /\ k \in AnyKey /\ d \in Nat
      /\ GetDiffBit(k, d) \in {0, 1}
      /\ q \in CartesianFrames(diffs) /\ Growth(diffs, q, d, 0)
  BY LedGrows DEF Parting
<1>2. /\ diffs \in Seq(Nat) /\ n \in Nat /\ Len(diffs) = n - 1
      /\ \A s \in 1 .. n : /\ lows[s] \in AnyKey /\ highs[s] \in AnyKey
                           /\ InSlot(lows, highs, s, lows[s]) /\ InSlot(lows, highs, s, highs[s])
      /\ \A i \in 1 .. n - 1 :
           /\ diffs[i] \in Nat
           /\ Alike(highs[i], lows[i + 1], diffs[i])
           /\ GetDiffBit(highs[i], diffs[i]) = 0 /\ GetDiffBit(lows[i + 1], diffs[i]) = 1
  BY <1>1, EndsAre
<1>3. /\ ql \in Nat \ {0} /\ qn \in Nat \ {0} /\ ql + qn - 1 <= n /\ n \in Nat
  <2>1. /\ ql \in Nat \ {0} /\ qn \in Nat \ {0} /\ ql + qn - 1 <= Len(diffs) + 1
    BY <1>1, <1>2, CartesianParts
  <2> HIDE DEF ql, qn, diffs, n
  <2> QED
    BY <1>2, <2>1
<1>4. \A y \in {ql - 1, ql + qn - 1} : y \in 1 .. n - 1 => diffs[y] < d
  BY <1>1, <1>2, NeighboursAskEarlier
<1>5. /\ \A s \in ql .. ql + qn - 1 : s \in 1 .. n /\ Whole(lows, highs, s, d)
      /\ \A s \in ql .. ql + qn - 1 : \A l : InSlot(lows, highs, s, l) =>
           /\ GetDiffBit(k, d) = 0 => KeyLess(k, l) /\ DiffBit(k, l) = d
           /\ GetDiffBit(k, d) # 0 => KeyLess(l, k) /\ DiffBit(l, k) = d
  BY PartedKeys DEF SlotsOf
<1>6. slot = IF GetDiffBit(k, d) = 0 THEN ql ELSE ql + qn
  BY DEF SlotAt
<1> HIDE DEF n, diffs, slot, ql, qn
<1>7. CASE GetDiffBit(k, d) = 0
  <2>1. slot \in 1 .. n /\ slot \in 1 .. n + 1 /\ slot \in ql .. ql + qn - 1 /\ slot = ql
    BY <1>3, <1>6, <1>7
  <2>2. Whole(lows, highs, slot, d) /\ InSlot(lows, highs, slot, lows[slot])
        /\ lows[slot] \in AnyKey
    BY <1>2, <1>5, <2>1
  <2>3. KeyLess(k, lows[slot]) /\ DiffBit(k, lows[slot]) = d
    BY <1>5, <1>7, <2>1, <2>2
  <2>4. Alike(lows[slot], k, d)
    <3>1. Alike(k, lows[slot], d)
      BY <1>1, <2>2, <2>3, LessPart
    <3> QED
      BY <1>1, <3>1, AlikeIs
  <2>5. ASSUME slot > 1
        PROVE  /\ KeyLess(highs[slot - 1], k)
               /\ diffs[slot - 1] < d
               /\ DiffBit(highs[slot - 1], k) = diffs[slot - 1]
    <3> DEFINE y == slot - 1
               e == diffs[y]
    <3>1. y \in 1 .. n - 1 /\ y \in 1 .. n /\ y + 1 = slot /\ y = ql - 1
      BY <1>3, <2>1, <2>5
    <3>2. e < d
      BY <1>4, <3>1
    <3>3. /\ e \in Nat /\ Alike(highs[y], lows[slot], e) /\ highs[y] \in AnyKey
          /\ GetDiffBit(highs[y], e) = 0 /\ GetDiffBit(lows[slot], e) = 1
      BY <1>2, <3>1
    <3> HIDE DEF y, e
    <3>4. Alike(lows[slot], k, e) /\ GetDiffBit(k, e) = 1
      <4>1. e <= d
        BY <1>1, <3>2, <3>3
      <4>2. Alike(lows[slot], k, e) /\ GetDiffBit(lows[slot], e) = GetDiffBit(k, e)
        BY <1>1, <2>4, <3>2, <3>3, <4>1, AlikeIs
      <4> QED
        BY <3>3, <4>2
    <3>5. Alike(highs[y], k, e)
      BY <3>3, <3>4, AlikeIs
    <3>6. KeyLess(highs[y], k) /\ DiffBit(highs[y], k) = e
      BY <1>1, <3>3, <3>4, <3>5, FirstDifference
    <3> QED
      BY <3>2, <3>6 DEF y, e
  <2> QED
    BY <1>1, <1>7, <2>1, <2>2, <2>3, <2>5 DEF Between, n, diffs, slot
<1>8. CASE GetDiffBit(k, d) # 0
  <2> DEFINE y == slot - 1
  <2>1. y \in 1 .. n /\ slot \in 1 .. n + 1 /\ y \in ql .. ql + qn - 1 /\ slot > 1
        /\ y = ql + qn - 1 /\ slot = ql + qn /\ y + 1 = slot
    BY <1>3, <1>6, <1>8
  <2> HIDE DEF y
  <2>2. Whole(lows, highs, y, d) /\ InSlot(lows, highs, y, highs[y])
        /\ highs[y] \in AnyKey
    BY <1>2, <1>5, <2>1
  <2>3. KeyLess(highs[y], k) /\ DiffBit(highs[y], k) = d
    BY <1>5, <1>8, <2>1, <2>2
  <2>4. Alike(highs[y], k, d) /\ Alike(k, highs[y], d)
    <3>1. Alike(highs[y], k, d)
      BY <1>1, <2>2, <2>3, LessPart
    <3> QED
      BY <1>1, <3>1, AlikeIs
  <2>5. ASSUME slot <= n
        PROVE  /\ KeyLess(k, lows[slot])
               /\ diffs[y] < d
               /\ DiffBit(k, lows[slot]) = diffs[y]
    <3> DEFINE e == diffs[y]
    <3>1. y \in 1 .. n - 1 /\ slot \in 1 .. n
      BY <1>3, <2>1, <2>5
    <3>2. e < d
      BY <1>4, <2>1, <3>1
    <3>3. /\ e \in Nat /\ Alike(highs[y], lows[slot], e) /\ lows[slot] \in AnyKey
          /\ GetDiffBit(highs[y], e) = 0 /\ GetDiffBit(lows[slot], e) = 1
      BY <1>2, <2>1, <3>1
    <3> HIDE DEF e
    <3>4. Alike(k, highs[y], e) /\ GetDiffBit(k, e) = 0
      <4>1. e <= d
        BY <1>1, <3>2, <3>3
      <4>2. Alike(k, highs[y], e) /\ GetDiffBit(k, e) = GetDiffBit(highs[y], e)
        BY <1>1, <2>4, <3>2, <3>3, <4>1, AlikeIs
      <4> QED
        BY <3>3, <4>2
    <3>5. Alike(k, lows[slot], e)
      BY <3>3, <3>4, AlikeIs
    <3>6. KeyLess(k, lows[slot]) /\ DiffBit(k, lows[slot]) = e
      BY <1>1, <3>3, <3>4, <3>5, FirstDifference
    <3> QED
      BY <3>2, <3>6 DEF e
  <2>6. ASSUME y = slot - 1
        PROVE Between(lows, highs, slot, y, k, d)
    BY <1>1, <2>1, <2>2, <2>3, <2>5, <2>6 DEF Between, n, diffs
  <2> QED
    BY <1>8, <2>6 DEF y, slot
<1> QED
  BY <1>7, <1>8 DEF slot

\* t is s, of length n, with e put in at i.
Inserted(t, s, i, e, n, S) ==
    /\ \A j \in 1 .. n + 1 : t[j] = IF j < i THEN s[j] ELSE IF j = i THEN e ELSE s[j - 1]
    /\ t \in Seq(S) /\ Len(t) = n + 1

\* InsertAt with an element of the same set.
LEMMA InsertAtSame ==
    ASSUME NEW S, NEW s \in Seq(S), NEW e \in S, NEW n, Len(s) = n, NEW i \in 1 .. n + 1
    PROVE  Inserted(InsertAt(s, i, e), s, i, e, n, S)
<1>1. S \cup {e} = S /\ i \in 1 .. Len(s) + 1
  OBVIOUS
<1>2. /\ \A j \in 1 .. Len(s) + 1 : InsertAt(s, i, e)[j] =
           IF j < i THEN s[j] ELSE IF j = i THEN e ELSE s[j - 1]
      /\ InsertAt(s, i, e) \in Seq(S \cup {e})
      /\ Len(InsertAt(s, i, e)) = Len(s) + 1
  BY <1>1, InsertAtIs
<1> HIDE DEF InsertAt
<1> QED
  BY <1>1, <1>2 DEF Inserted

\* Putting a key between the slots keeps the slots in order and adds one diff.
LEMMA EndsInsert ==
    ASSUME NEW lows, NEW highs, Ends(lows, highs),
           NEW slot, NEW place, NEW k, NEW d, Between(lows, highs, slot, place, k, d)
    PROVE  LET newlows == InsertAt(lows, slot, k)
               newhighs == InsertAt(highs, slot, k)
           IN  /\ Ends(newlows, newhighs)
               /\ Len(newlows) = Len(lows) + 1
               /\ DiffsBetween(newlows, newhighs) = InsertAt(DiffsBetween(lows, highs), place, d)
<1> DEFINE n == Len(lows)
           diffs == DiffsBetween(lows, highs)
           l == InsertAt(lows, slot, k)
           h == InsertAt(highs, slot, k)
           e == InsertAt(diffs, place, d)
           m == Len(diffs)
<1>1. /\ k \in AnyKey /\ d \in Nat
      /\ slot \in 1 .. n + 1 /\ place \in 1 .. n
      /\ slot > 1 => KeyLess(highs[slot - 1], k)
      /\ slot <= n => KeyLess(k, lows[slot])
      /\ Whole(lows, highs, place, d)
      /\ \/ /\ place = slot
            /\ DiffBit(k, lows[slot]) = d
            /\ slot > 1 => DiffBit(highs[slot - 1], k) = diffs[slot - 1]
         \/ /\ place = slot - 1
            /\ DiffBit(highs[place], k) = d
            /\ slot <= n => DiffBit(k, lows[slot]) = diffs[place]
  BY DEF Between
<1>2. /\ n \in Nat /\ n > 0 /\ Len(highs) = n /\ m = n - 1 /\ m + 1 = n
      /\ diffs \in Seq(Nat) /\ lows \in Seq(AnyKey) /\ highs \in Seq(AnyKey)
      /\ \A s \in 1 .. n : KeyLeq(lows[s], highs[s])
      /\ \A i \in 1 .. n - 1 : diffs[i] = DiffBit(highs[i], lows[i + 1])
                               /\ KeyLess(highs[i], lows[i + 1])
  BY EndsAre DEF Ends
<1>3. \A s \in 1 .. n, i \in 1 .. n - 1 :
        i \in {s - 1, s} /\ lows[s] # highs[s] => diffs[i] < DiffBit(lows[s], highs[s])
  BY DEF Ends
<1>4. m + 1 = n /\ Len(diffs) = m /\ place \in 1 .. m + 1 /\ diffs \in Seq(Nat) /\ d \in Nat
      /\ Len(lows) = n /\ lows \in Seq(AnyKey) /\ highs \in Seq(AnyKey)
      /\ Len(highs) = n /\ slot \in 1 .. n + 1 /\ k \in AnyKey
  BY <1>1, <1>2
<1> HIDE DEF n, l, h, e, m, diffs
<1>5. /\ \A j \in 1 .. n + 1 : l[j] = IF j < slot THEN lows[j] ELSE IF j = slot THEN k ELSE lows[j - 1]
      /\ l \in Seq(AnyKey) /\ Len(l) = n + 1
  <2>1. Inserted(l, lows, slot, k, n, AnyKey)
    BY <1>4, InsertAtSame DEF l
  <2> QED
    BY <2>1 DEF Inserted
<1>6. /\ \A j \in 1 .. n + 1 : h[j] = IF j < slot THEN highs[j] ELSE IF j = slot THEN k ELSE highs[j - 1]
      /\ h \in Seq(AnyKey) /\ Len(h) = n + 1
  <2>1. Inserted(h, highs, slot, k, n, AnyKey)
    BY <1>4, InsertAtSame DEF h
  <2> QED
    BY <2>1 DEF Inserted
<1>7. /\ \A j \in 1 .. n : e[j] = IF j < place THEN diffs[j] ELSE IF j = place THEN d ELSE diffs[j - 1]
      /\ e \in Seq(Nat) /\ Len(e) = n
  <2>1. /\ \A j \in 1 .. m + 1 : e[j] = IF j < place THEN diffs[j] ELSE IF j = place THEN d ELSE diffs[j - 1]
        /\ e \in Seq(Nat) /\ Len(e) = m + 1
    <3>1. Inserted(e, diffs, place, d, m, Nat)
      BY <1>4, InsertAtSame DEF e
    <3> QED
      BY <3>1 DEF Inserted
  <2> QED
    BY <1>4, <2>1
<1>8. ASSUME NEW j \in 1 .. n
      PROVE  e[j] = DiffBit(h[j], l[j + 1]) /\ KeyLess(h[j], l[j + 1])
  <2>1. j \in 1 .. n + 1 /\ j + 1 \in 1 .. n + 1 /\ j \in Nat
    BY <1>2
  <2>2. CASE j < slot - 1
    <3>1. j < slot /\ j + 1 < slot /\ j < place /\ j \in 1 .. n - 1
      BY <1>1, <1>2, <2>1, <2>2
    <3>2. h[j] = highs[j] /\ l[j + 1] = lows[j + 1] /\ e[j] = diffs[j]
      BY <1>5, <1>6, <1>7, <2>1, <3>1
    <3> QED
      BY <1>2, <3>1, <3>2
  <2>3. CASE j = slot - 1
    <3>1. j < slot /\ j + 1 = slot /\ slot > 1
      BY <1>1, <1>2, <2>1, <2>3
    <3>2. h[j] = highs[j] /\ l[j + 1] = k
      BY <1>5, <1>6, <2>1, <3>1
    <3>3. e[j] = DiffBit(highs[j], k)
      <4>1. CASE place = slot
        BY <1>1, <1>7, <2>3, <3>1, <4>1
      <4>2. CASE place = slot - 1
        <5>1. e[j] = d
          BY <1>7, <2>3, <4>2
        <5>2. DiffBit(highs[j], k) = d
          BY <1>1, <2>3, <4>2
        <5> QED
          BY <5>1, <5>2
      <4> QED
        BY <1>1, <4>1, <4>2
    <3>4. KeyLess(highs[j], k)
      BY <1>1, <2>3, <3>1
    <3> QED
      BY <3>2, <3>3, <3>4
  <2>4. CASE j = slot
    <3>1. j + 1 > slot /\ slot <= n /\ (j + 1) - 1 = j
      BY <1>1, <1>2, <2>1, <2>4
    <3>2. h[j] = k /\ l[j + 1] = lows[j]
      BY <1>5, <1>6, <2>1, <2>4, <3>1
    <3>3. e[j] = DiffBit(k, lows[j])
      <4>1. CASE place = slot
        <5>1. e[j] = d
          BY <1>7, <2>4, <4>1
        <5>2. DiffBit(k, lows[j]) = d
          BY <1>1, <2>4, <4>1
        <5> QED
          BY <5>1, <5>2
      <4>2. CASE place = slot - 1
        <5>1. e[j] = diffs[j - 1]
          BY <1>1, <1>2, <1>7, <2>1, <2>4, <4>2
        <5>2. DiffBit(k, lows[j]) = diffs[j - 1]
          BY <1>1, <2>4, <3>1, <4>2
        <5> QED
          BY <5>1, <5>2
      <4> QED
        BY <1>1, <4>1, <4>2
    <3>4. KeyLess(k, lows[j])
      BY <1>1, <2>4, <3>1
    <3> QED
      BY <3>2, <3>3, <3>4
  <2>5. CASE j > slot
    <3>1. /\ ~ (j < slot) /\ ~ (j = slot) /\ j + 1 > slot /\ (j + 1) - 1 = (j - 1) + 1
          /\ j - 1 \in 1 .. n - 1 /\ j > place
      BY <1>1, <1>2, <2>1, <2>5
    <3>2. h[j] = highs[j - 1] /\ l[j + 1] = lows[(j - 1) + 1] /\ e[j] = diffs[j - 1]
      BY <1>1, <1>5, <1>6, <1>7, <2>1, <3>1
    <3> QED
      BY <1>2, <3>1, <3>2
  <2> QED
    BY <1>1, <2>1, <2>2, <2>3, <2>4, <2>5
<1>9. DiffsBetween(l, h) = e
  <2>1. DiffsBetween(l, h) = [i \in 1 .. n |-> DiffBit(h[i], l[i + 1])]
    BY <1>2, <1>5 DEF DiffsBetween
  <2>2. e = [i \in 1 .. n |-> e[i]]
    BY <1>7
  <2> QED
    BY <1>8, <2>1, <2>2
<1>10. \A s \in 1 .. n + 1 : KeyLeq(l[s], h[s])
  <2> TAKE s \in 1 .. n + 1
  <2>1. s < slot => s \in 1 .. n
    BY <1>1, <1>2
  <2>2. s > slot => s - 1 \in 1 .. n
    BY <1>1, <1>2
  <2>3. s < slot \/ s = slot \/ s > slot
    BY <1>1, <1>2
  <2>4. CASE s < slot
    BY <1>2, <1>5, <1>6, <2>1, <2>4
  <2>5. CASE s = slot
    BY <1>5, <1>6, <2>5 DEF KeyLeq
  <2>6. CASE s > slot
    <3>1. ~ (s < slot) /\ s # slot
      BY <1>1, <1>2, <2>6
    <3> QED
      BY <1>2, <1>5, <1>6, <2>2, <2>6, <3>1
  <2> QED
    BY <2>3, <2>4, <2>5, <2>6
<1>11. ASSUME NEW s \in 1 .. n + 1, NEW i \in 1 .. n, i \in {s - 1, s}, l[s] # h[s]
       PROVE  e[i] < DiffBit(l[s], h[s])
  <2>1. s # slot
    BY <1>5, <1>6, <1>11
  <2> DEFINE r == IF s < slot THEN s ELSE s - 1
  <2>2. /\ r \in 1 .. n /\ l[s] = lows[r] /\ h[s] = highs[r]
    <3>1. CASE s < slot
      BY <1>1, <1>2, <1>5, <1>6, <3>1
    <3>2. CASE ~ (s < slot)
      <4>1. s - 1 \in 1 .. n
        BY <1>1, <1>2, <2>1, <3>2
      <4> QED
        BY <1>5, <1>6, <2>1, <3>2, <4>1
    <3> QED
      BY <3>1, <3>2
  <2>3. (r = s /\ s < slot) \/ (r = s - 1 /\ s > slot)
    BY <1>1, <1>2, <2>1
  <2> HIDE DEF r
  <2>4. CASE i = place
    <3>1. e[i] = d
      BY <1>7, <2>4
    <3>2. r = place
      BY <1>1, <1>2, <1>11, <2>2, <2>3, <2>4
    <3>3. d < DiffBit(lows[r], highs[r])
      BY <1>1, <1>11, <2>2, <3>2 DEF Whole
    <3> QED
      BY <2>2, <3>1, <3>3
  <2>5. CASE i < place
    <3>1. e[i] = diffs[i] /\ i \in 1 .. n - 1
      BY <1>1, <1>2, <1>7, <2>5
    <3>2. i \in {r - 1, r}
      BY <1>1, <1>2, <1>11, <2>2, <2>3, <2>5
    <3> QED
      BY <1>3, <1>11, <2>2, <3>1, <3>2
  <2>6. CASE i > place
    <3>1. e[i] = diffs[i - 1] /\ i - 1 \in 1 .. n - 1
      <4>1. i \in Nat /\ place \in Nat /\ place >= 1 /\ i <= n
        BY <1>1, <1>2
      <4>2. i - 1 \in 1 .. n - 1 /\ ~ (i < place) /\ i # place
        BY <1>2, <2>6, <4>1
      <4> QED
        BY <1>7, <4>2
    <3>2. i - 1 \in {r - 1, r}
      BY <1>1, <1>2, <1>11, <2>2, <2>3, <2>6
    <3> QED
      BY <1>3, <1>11, <2>2, <3>1, <3>2
  <2> QED
    BY <1>1, <1>2, <2>4, <2>5, <2>6
<1>12. Ends(l, h)
  <2>1. Len(l) = n + 1 /\ Len(h) = n + 1 /\ n + 1 > 0 /\ (n + 1) - 1 = n
    BY <1>2, <1>5, <1>6
  <2> QED
    BY <1>5, <1>6, <1>8, <1>9, <1>10, <1>11, <2>1 DEF Ends
<1> QED
  BY <1>5, <1>9, <1>12 DEF l, h, e, n, diffs

\* Put into the slot of the frame it parts from, a key leaves the page one of
\* its kind (Index::InsertAtIncremental).
THEOREM InsertKeepsPage ==
    ASSUME NEW page, NEW lows, NEW highs, NEW k, NEW ck, NEW d, NEW q,
           Parting(page, lows, highs, k, ck, d, q),
           NEW slot, slot = SlotAt(q, k, d),
           NEW new, Len(new.reps) = Len(page.reps) + 1,
           new.routes = InsertRoute(page, slot, k, d)
    PROVE  KeyPage(new, InsertAt(lows, slot, k), InsertAt(highs, slot, k))
<1> DEFINE diffs == DiffsBetween(lows, highs)
           place == IF GetDiffBit(k, d) = 0 THEN slot ELSE slot - 1
           newlows == InsertAt(lows, slot, k)
           newhighs == InsertAt(highs, slot, k)
<1>1. /\ Ends(lows, highs) /\ Canonical(page, diffs) /\ k \in AnyKey /\ d \in Nat
      /\ NotAsked(page, k, d) /\ q = FrameParted(page, k, d)
      /\ Len(page.reps) = Len(lows)
  BY LedGrows DEF Parting, Led, KeyPage
<1>2. Between(lows, highs, slot, place, k, d)
  BY PartedBetween
<1> HIDE DEF diffs
<1>3. new.routes = RoutesOf(InsertAt(diffs, place, d))
  <2>1. k \in Seq(Byte)
    BY <1>1 DEF AnyKey
  <2> QED
    BY <1>1, <2>1, InsertRouteIsRebuild
<1> HIDE DEF place
<1>4. /\ Ends(newlows, newhighs) /\ Len(newlows) = Len(lows) + 1
      /\ DiffsBetween(newlows, newhighs) = InsertAt(diffs, place, d)
  BY <1>1, <1>2, EndsInsert DEF diffs
<1> HIDE DEF newlows, newhighs
<1>5. KeyPage(new, newlows, newhighs)
  BY <1>1, <1>3, <1>4 DEF KeyPage
<1> QED
  BY <1>5 DEF newlows, newhighs

\* The slot that InsertSlotFromPath takes is that of the frame the key parts
\* from: the one of the route that asks later or, in the last page, the one
\* beside the record found.
THEOREM InsertSlotIs ==
    ASSUME NEW page, NEW lows, NEW highs, NEW k, NEW ck, NEW d, NEW q,
           Led(page, lows, highs, k, ck, d, q)
    PROVE  LET above == InsertSlotAbovePath(page, k, d)
               c == Lookup(page, k)
           IN  /\ above # NoSlot => IsRoute(q) /\ SlotAt(q, k, d) = above
               /\ above = NoSlot =>
                    /\ ~ IsRoute(q)
                    /\ SlotAt(q, k, d) = IF KeyLess(k, ck) THEN c ELSE c + 1
<1> DEFINE p == PathFor(page, k)
           i == FrameAbove(page, k, d)
           c == Lookup(page, k)
           diffs == DiffsBetween(lows, highs)
<1>1. /\ Canonical(page, diffs) /\ k \in AnyKey /\ ck \in AnyKey /\ d \in Nat
      /\ \/ GetDiffBit(k, d) = 0 /\ GetDiffBit(ck, d) = 1
         \/ GetDiffBit(k, d) = 1 /\ GetDiffBit(ck, d) = 0
      /\ Alike(k, ck, d) /\ q \in CartesianFrames(diffs)
  BY LedGrows
<1>2. q = p[IF i = 0 THEN Len(p) ELSE i]
  BY DEF Led, FrameParted
<1>3. WayDown(p, diffs) /\ diffs \in Seq(Nat)
  BY <1>1, PathForIs DEF AnyKey, Canonical
<1> HIDE DEF diffs, p
<1>4. p \in Seq(CartesianFrames(diffs)) /\ ~ IsRoute(p[Len(p)])
  BY <1>3 DEF WayDown
<1>5. \/ i = 0
      \/ i \in 1 .. Len(p) /\ IsRoute(p[i])
  BY <1>4, FrameAboveIs DEF p
<1>6. q.lo \in Nat \ {0} /\ q.n \in Nat \ {0}
  BY <1>1, <1>3, CartesianParts
<1>7. SlotAt(q, k, d) # 0
  BY <1>6 DEF SlotAt
<1>8. i # 0 => InsertSlotAbovePath(page, k, d) = SlotAt(q, k, d) /\ IsRoute(q)
  BY <1>2, <1>5 DEF InsertSlotAbovePath, p
<1>9. i = 0 => InsertSlotAbovePath(page, k, d) = 0
  BY DEF InsertSlotAbovePath, NoSlot
<1>10. ASSUME i = 0
       PROVE  /\ ~ IsRoute(q)
              /\ SlotAt(q, k, d) = IF KeyLess(k, ck) THEN c ELSE c + 1
  <2>1. ~ IsRoute(q) /\ q.lo = c
    BY <1>2, <1>3, <1>4, <1>10, WayEnds DEF Lookup, p
  <2>2. q.n = 1
    BY <1>6, <2>1 DEF IsRoute
  <2>3. GetDiffBit(k, d) = 0 => KeyLess(k, ck)
    BY <1>1, FirstDifference
  <2>4. GetDiffBit(k, d) = 1 => ~ KeyLess(k, ck)
    <3>1. Alike(ck, k, d)
      BY <1>1, AlikeIs
    <3> QED
      BY <1>1, <3>1, FirstDifference
  <2>5. GetDiffBit(k, d) = 0 <=> KeyLess(k, ck)
    BY <1>1, <2>3, <2>4
  <2> QED
    BY <2>1, <2>2, <2>5 DEF SlotAt
<1> QED
  BY <1>5, <1>7, <1>8, <1>9, <1>10 DEF NoSlot

-----------------------------------------------------------------------------
(* A child whose ends change *)

\* a and b, in this order, may be the ends of slot c: they part from its
\* neighbours as its keys do.
FitsSlot(lows, highs, c, a, b) ==
    /\ c \in 1 .. Len(lows) /\ a \in AnyKey /\ b \in AnyKey /\ KeyLeq(a, b)
    /\ \A i \in 1 .. Len(lows) - 1 : i \in {c - 1, c} =>
         LET e == DiffsBetween(lows, highs)[i]
         IN  Alike(lows[c], a, e + 1) /\ Alike(lows[c], b, e + 1)

\* Keys alike up to e + 1 part after e.
LEMMA DifferLater ==
    ASSUME NEW a \in AnyKey, NEW b \in AnyKey, a # b, NEW e \in Nat, Alike(a, b, e + 1)
    PROVE  e < DiffBit(a, b)
<1> DEFINE z == DiffBit(a, b)
<1>1. z \in Nat /\ GetDiffBit(a, z) # GetDiffBit(b, z)
  BY KeysPart
<1> HIDE DEF z
<1>2. e + 1 \in Nat
  OBVIOUS
<1>3. ~ (z < e + 1)
  BY <1>1, <1>2, AlikeIs
<1>4. e < z
  BY <1>1, <1>3
<1> QED
  BY <1>4 DEF z

\* Other ends of one slot leave the diffs as they are.
LEMMA EndsReplace ==
    ASSUME NEW lows, NEW highs, Ends(lows, highs),
           NEW c, NEW a, NEW b, FitsSlot(lows, highs, c, a, b)
    PROVE  LET newlows == [lows EXCEPT ![c] = a]
               newhighs == [highs EXCEPT ![c] = b]
           IN  /\ Ends(newlows, newhighs)
               /\ Len(newlows) = Len(lows)
               /\ DiffsBetween(newlows, newhighs) = DiffsBetween(lows, highs)
<1> DEFINE n == Len(lows)
           diffs == DiffsBetween(lows, highs)
           l == [lows EXCEPT ![c] = a]
           h == [highs EXCEPT ![c] = b]
<1>1. /\ c \in 1 .. n /\ a \in AnyKey /\ b \in AnyKey /\ KeyLeq(a, b)
      /\ \A i \in 1 .. n - 1 : i \in {c - 1, c} =>
           Alike(lows[c], a, diffs[i] + 1) /\ Alike(lows[c], b, diffs[i] + 1)
  BY DEF FitsSlot
<1>2. /\ n \in Nat /\ n > 0 /\ Len(highs) = n
      /\ diffs \in Seq(Nat) /\ lows \in Seq(AnyKey) /\ highs \in Seq(AnyKey)
      /\ \A s \in 1 .. n : /\ KeyLeq(lows[s], highs[s])
                           /\ lows[s] \in AnyKey /\ highs[s] \in AnyKey
      /\ \A i \in 1 .. n - 1 :
           /\ diffs[i] = DiffBit(highs[i], lows[i + 1]) /\ diffs[i] \in Nat
           /\ KeyLess(highs[i], lows[i + 1])
           /\ Alike(highs[i], lows[i + 1], diffs[i])
           /\ GetDiffBit(highs[i], diffs[i]) = 0
           /\ GetDiffBit(lows[i + 1], diffs[i]) = 1
  BY EndsAre DEF Ends
<1>3. \A s \in 1 .. n, i \in 1 .. n - 1 :
        i \in {s - 1, s} /\ lows[s] # highs[s] => diffs[i] < DiffBit(lows[s], highs[s])
  BY DEF Ends
<1>4. \A s \in 1 .. n, i \in 1 .. n - 1 :
        i \in {s - 1, s} => Alike(lows[s], highs[s], diffs[i] + 1)
  <2> TAKE s \in 1 .. n, i \in 1 .. n - 1
  <2> SUFFICES ASSUME i \in {s - 1, s} PROVE Alike(lows[s], highs[s], diffs[i] + 1)
    OBVIOUS
  <2>1. diffs[i] \in Nat /\ diffs[i] <= diffs[i]
    BY <1>2
  <2> QED
    BY <2>1, SlotAlike
<1>5. DiffsBetween(lows, highs) = [i \in 1 .. n - 1 |-> DiffBit(highs[i], lows[i + 1])]
  BY DEF DiffsBetween
<1> HIDE DEF diffs
<1>6. /\ l \in Seq(AnyKey) /\ h \in Seq(AnyKey) /\ Len(l) = n /\ Len(h) = n
      /\ \A s \in 1 .. n : /\ l[s] = IF s = c THEN a ELSE lows[s]
                           /\ h[s] = IF s = c THEN b ELSE highs[s]
  BY <1>1, <1>2
<1> HIDE DEF n, l, h
<1>7. ASSUME NEW i \in 1 .. n - 1
      PROVE  DiffBit(h[i], l[i + 1]) = diffs[i] /\ KeyLess(h[i], l[i + 1])
  <2> DEFINE e == diffs[i]
  <2>1. i \in 1 .. n /\ i + 1 \in 1 .. n
    BY <1>2
  <2>2. /\ e \in Nat /\ Alike(highs[i], lows[i + 1], e)
        /\ GetDiffBit(highs[i], e) = 0 /\ GetDiffBit(lows[i + 1], e) = 1
        /\ highs[i] \in AnyKey /\ lows[i + 1] \in AnyKey
        /\ lows[i] \in AnyKey
    BY <1>2, <2>1
  <2>3. e + 1 \in Nat /\ e < e + 1 /\ e <= e + 1
    BY <2>2
  <2>4. /\ l[i + 1] \in AnyKey /\ Alike(lows[i + 1], l[i + 1], e + 1)
    <3>1. CASE i + 1 = c
      <4>1. i \in {c - 1, c}
        BY <1>1, <1>2, <3>1
      <4> QED
        BY <1>1, <1>6, <2>1, <3>1, <4>1
    <3>2. CASE i + 1 # c
      <4>1. l[i + 1] = lows[i + 1]
        BY <1>6, <2>1, <3>2
      <4> QED
        BY <2>2, <4>1 DEF Alike
    <3> QED
      BY <3>1, <3>2
  <2>5. /\ h[i] \in AnyKey /\ Alike(highs[i], h[i], e + 1)
    <3>1. CASE i = c
      <4>1. Alike(lows[i], highs[i], e + 1)
        BY <1>4, <2>1
      <4>2. Alike(highs[i], lows[i], e + 1)
        BY <2>3, <4>1, AlikeIs
      <4>3. Alike(lows[i], b, e + 1) /\ h[i] = b
        BY <1>1, <1>6, <2>1, <3>1
      <4>4. Alike(highs[i], b, e + 1)
        BY <2>3, <4>2, <4>3, AlikeIs
      <4> QED
        BY <1>1, <4>3, <4>4
    <3>2. CASE i # c
      <4>1. h[i] = highs[i]
        BY <1>6, <2>1, <3>2
      <4> QED
        BY <2>2, <4>1 DEF Alike
    <3> QED
      BY <3>1, <3>2
  <2> HIDE DEF e
  <2>6. /\ Alike(lows[i + 1], l[i + 1], e) /\ GetDiffBit(l[i + 1], e) = 1
    <3>1. Alike(lows[i + 1], l[i + 1], e) /\ GetDiffBit(lows[i + 1], e) = GetDiffBit(l[i + 1], e)
      BY <2>2, <2>3, <2>4, AlikeIs
    <3> QED
      BY <2>2, <3>1
  <2>7. /\ Alike(h[i], highs[i], e) /\ GetDiffBit(h[i], e) = 0
    <3>1. Alike(highs[i], h[i], e) /\ GetDiffBit(highs[i], e) = GetDiffBit(h[i], e)
      BY <2>2, <2>3, <2>5, AlikeIs
    <3> QED
      BY <2>2, <3>1, AlikeIs
  <2>8. Alike(h[i], l[i + 1], e)
    <3>1. Alike(h[i], lows[i + 1], e)
      BY <2>2, <2>7, AlikeIs
    <3> QED
      BY <2>2, <2>6, <3>1, AlikeIs
  <2>9. DiffBit(h[i], l[i + 1]) = e /\ KeyLess(h[i], l[i + 1])
    BY <2>2, <2>4, <2>5, <2>6, <2>7, <2>8, FirstDifference
  <2> QED
    BY <2>9 DEF e
<1>8. DiffsBetween(l, h) = diffs
  <2>1. DiffsBetween(l, h) = [i \in 1 .. n - 1 |-> DiffBit(h[i], l[i + 1])]
    BY <1>6 DEF DiffsBetween
  <2>2. diffs = [i \in 1 .. n - 1 |-> diffs[i]]
    BY <1>2, <1>5 DEF diffs
  <2> QED
    BY <1>7, <2>1, <2>2
<1>9. \A s \in 1 .. n : KeyLeq(l[s], h[s])
  BY <1>1, <1>2, <1>6
<1>10. ASSUME NEW s \in 1 .. n, NEW i \in 1 .. n - 1, i \in {s - 1, s}, l[s] # h[s]
       PROVE  diffs[i] < DiffBit(l[s], h[s])
  <2>1. CASE s # c
    <3>1. l[s] = lows[s] /\ h[s] = highs[s]
      BY <1>6, <2>1
    <3> QED
      BY <1>3, <1>10, <3>1
  <2>2. CASE s = c
    <3>1. l[s] = a /\ h[s] = b /\ a \in AnyKey /\ b \in AnyKey /\ a # b
      BY <1>1, <1>6, <1>10, <2>2
    <3> DEFINE e == diffs[i]
    <3>2. e \in Nat /\ Alike(lows[c], a, e + 1) /\ Alike(lows[c], b, e + 1)
      BY <1>1, <1>2, <1>10, <2>2
    <3> HIDE DEF e
    <3>3. e + 1 \in Nat
      BY <3>2
    <3>4. Alike(a, lows[c], e + 1)
      BY <3>2, <3>3, AlikeIs
    <3>5. Alike(a, b, e + 1)
      BY <3>2, <3>3, <3>4, AlikeIs
    <3>6. e < DiffBit(a, b)
      BY <3>1, <3>2, <3>5, DifferLater
    <3> QED
      BY <3>1, <3>6 DEF e
  <2> QED
    BY <2>1, <2>2
<1>11. Ends(l, h)
  BY <1>2, <1>6, <1>7, <1>8, <1>9, <1>10 DEF Ends
<1> QED
  BY <1>6, <1>8, <1>11 DEF l, h, diffs, n

\* Keys of one slot are alike up to the diffs beside it.
LEMMA InSlotAlike ==
    ASSUME NEW lows, NEW highs, Ends(lows, highs),
           NEW s, NEW i \in 1 .. Len(lows) - 1, i \in {s - 1, s},
           NEW k, InSlot(lows, highs, s, k)
    PROVE  Alike(lows[s], k, DiffsBetween(lows, highs)[i] + 1)
<1> DEFINE e == DiffsBetween(lows, highs)[i]
<1>1. s \in 1 .. Len(lows) /\ k \in AnyKey /\ KeyLeq(lows[s], k) /\ KeyLeq(k, highs[s])
  BY DEF InSlot
<1>2. e \in Nat /\ e <= e /\ lows[s] \in AnyKey /\ highs[s] \in AnyKey
  BY <1>1, EndsAre
<1>3. Alike(lows[s], highs[s], e + 1)
  BY <1>1, <1>2, SlotAlike
<1>4. e + 1 \in Nat
  BY <1>2
<1> HIDE DEF e
<1> QED
  BY <1>1, <1>2, <1>3, <1>4, LeqAlike DEF e

\* New ends that fit a slot leave the page as it is.
LEMMA PageReplace ==
    ASSUME NEW page, NEW lows, NEW highs, KeyPage(page, lows, highs),
           NEW c, NEW a, NEW b, FitsSlot(lows, highs, c, a, b)
    PROVE  KeyPage(page, [lows EXCEPT ![c] = a], [highs EXCEPT ![c] = b])
<1> DEFINE l == [lows EXCEPT ![c] = a]
           h == [highs EXCEPT ![c] = b]
<1>1. Ends(lows, highs) /\ Len(page.reps) = Len(lows)
      /\ page.routes = RoutesOf(DiffsBetween(lows, highs))
  BY DEF KeyPage
<1>2. Ends(l, h) /\ Len(l) = Len(lows) /\ DiffsBetween(l, h) = DiffsBetween(lows, highs)
  BY <1>1, EndsReplace
<1> HIDE DEF l, h
<1>3. KeyPage(page, l, h)
  BY <1>1, <1>2 DEF KeyPage
<1> QED
  BY <1>3 DEF l, h

\* A key that parts from no route of a page belongs into the child it is led
\* to, and the new ends of the child leave this page as it is:
\* PropagateBoundary need not touch its routes.
THEOREM ChildInsertKeepsPage ==
    ASSUME NEW page, NEW lows, NEW highs, NEW k, NEW ck, NEW d, NEW q,
           Led(page, lows, highs, k, ck, d, q),
           InsertSlotAbovePath(page, k, d) = NoSlot,
           NEW c, c = Lookup(page, k),
           NEW a, a = IF KeyLess(k, lows[c]) THEN k ELSE lows[c],
           NEW b, b = IF KeyLess(highs[c], k) THEN k ELSE highs[c]
    PROVE  KeyPage(page, [lows EXCEPT ![c] = a], [highs EXCEPT ![c] = b])
<1> DEFINE diffs == DiffsBetween(lows, highs)
           n == Len(lows)
<1>1. /\ Ends(lows, highs) /\ k \in AnyKey /\ ck \in AnyKey /\ d \in Nat
      /\ Alike(k, ck, d) /\ q \in CartesianFrames(diffs) /\ Growth(diffs, q, d, 0)
      /\ (~ IsRoute(q) => SlotsOf(q) = {c})
  BY LedGrows
<1>2. KeyPage(page, lows, highs) /\ InSlot(lows, highs, c, ck)
  BY DEF Led
<1>3. ~ IsRoute(q)
  BY InsertSlotIs
<1>4. c \in 1 .. n /\ KeyLeq(lows[c], ck) /\ KeyLeq(ck, highs[c])
  BY <1>2 DEF InSlot
<1>5. /\ lows[c] \in AnyKey /\ highs[c] \in AnyKey /\ KeyLeq(lows[c], highs[c])
      /\ InSlot(lows, highs, c, highs[c])
      /\ diffs \in Seq(Nat) /\ Len(diffs) = n - 1 /\ n \in Nat
  BY <1>1, <1>4, EndsAre
<1> HIDE DEF diffs, n
<1>6. q.lo = c /\ q.n = 1
  <2>1. q.lo \in Nat /\ q.n \in Nat \ {0}
    BY <1>1, <1>5, CartesianParts
  <2>2. q.n = 1
    BY <1>3, <2>1 DEF IsRoute
  <2>3. SlotsOf(q) = {q.lo}
    BY <2>1, <2>2 DEF SlotsOf
  <2> QED
    BY <1>1, <1>3, <2>2, <2>3
<1>7. ASSUME NEW i \in 1 .. n - 1, i \in {c - 1, c}
      PROVE  /\ Alike(lows[c], a, diffs[i] + 1) /\ Alike(lows[c], b, diffs[i] + 1)
  <2> DEFINE e == diffs[i]
  <2>1. i \in {q.lo - 1, q.lo + q.n - 1}
    BY <1>4, <1>6, <1>7
  <2>2. i \in 1 .. Len(diffs)
    BY <1>5
  <2>3. e < d /\ e \in Nat
    BY <1>1, <1>5, <2>1, <2>2, NeighboursAskEarlier
  <2>4. Alike(lows[c], ck, e + 1) /\ Alike(lows[c], highs[c], e + 1)
    BY <1>1, <1>2, <1>5, <1>7, InSlotAlike DEF n, diffs
  <2> HIDE DEF e
  <2>5. e + 1 \in Nat /\ e + 1 <= d
    BY <1>1, <2>3
  <2>6. Alike(ck, k, e + 1)
    <3>1. Alike(k, ck, e + 1)
      BY <1>1, <2>5, AlikeIs
    <3> QED
      BY <2>5, <3>1, AlikeIs
  <2>7. Alike(lows[c], k, e + 1)
    BY <2>4, <2>5, <2>6, AlikeIs
  <2>8. Alike(lows[c], lows[c], e + 1)
    BY DEF Alike
  <2> QED
    BY <2>4, <2>7, <2>8 DEF e
<1>8. a \in AnyKey /\ b \in AnyKey
  BY <1>1, <1>5
<1>9. KeyLeq(a, b)
  <2>1. KeyLeq(a, lows[c]) /\ KeyLeq(a, k)
    BY <1>1, <1>5, LeqOrLess DEF KeyLeq
  <2>2. KeyLeq(highs[c], b) /\ KeyLeq(k, b)
    BY <1>1, <1>5, LeqOrLess DEF KeyLeq
  <2> QED
    BY <1>1, <1>8, <2>1, <2>2, LeqTransitive
<1>10. FitsSlot(lows, highs, c, a, b)
  BY <1>4, <1>7, <1>8, <1>9 DEF FitsSlot, n, diffs
<1> QED
  BY <1>2, <1>10, PageReplace

\* The ends that a child has when keys are gone from it leave the page above
\* as it is (RebuildParentAfterChildBoundary).
THEOREM ChildDeleteKeepsPage ==
    ASSUME NEW page, NEW lows, NEW highs, KeyPage(page, lows, highs),
           NEW c, NEW a, NEW b, InSlot(lows, highs, c, a), InSlot(lows, highs, c, b),
           KeyLeq(a, b)
    PROVE  KeyPage(page, [lows EXCEPT ![c] = a], [highs EXCEPT ![c] = b])
<1>1. Ends(lows, highs)
  BY DEF KeyPage
<1>2. \A i \in 1 .. Len(lows) - 1 : i \in {c - 1, c} =>
        /\ Alike(lows[c], a, DiffsBetween(lows, highs)[i] + 1)
        /\ Alike(lows[c], b, DiffsBetween(lows, highs)[i] + 1)
  BY <1>1, InSlotAlike
<1>3. FitsSlot(lows, highs, c, a, b)
  BY <1>2 DEF FitsSlot, InSlot
<1> QED
  BY <1>3, PageReplace

-----------------------------------------------------------------------------
(* Deletion of a slot *)

\* t is s, of length n, without its element i.
Removed(t, s, i, n, S) ==
    /\ \A j \in 1 .. n - 1 : t[j] = IF j < i THEN s[j] ELSE s[j + 1]
    /\ t \in Seq(S) /\ Len(t) = n - 1

\* RemoveAt within one set.
LEMMA RemoveAtSame ==
    ASSUME NEW S, NEW s \in Seq(S), NEW n, Len(s) = n, NEW i \in 1 .. n
    PROVE  Removed(RemoveAt(s, i), s, i, n, S)
<1>1. i \in 1 .. Len(s)
  OBVIOUS
<1>2. /\ \A j \in 1 .. Len(s) - 1 : RemoveAt(s, i)[j] = IF j < i THEN s[j] ELSE s[j + 1]
      /\ RemoveAt(s, i) \in Seq(S) /\ Len(RemoveAt(s, i)) = Len(s) - 1
  BY <1>1, RemoveAtIs
<1> QED
  BY <1>2 DEF Removed

\* The larger of the diffs beside slot is at x.
LargerBeside(diffs, slot, x) ==
    /\ x \in {slot - 1, slot} /\ x \in 1 .. Len(diffs)
    /\ \A y \in {slot - 1, slot} : y \in 1 .. Len(diffs) => diffs[y] <= diffs[x]

\* Without a slot between them its neighbours part at the smaller diff.
LEMMA PartAcross ==
    ASSUME NEW lows, NEW highs, Ends(lows, highs),
           NEW j \in 1 .. Len(lows) - 2
    PROVE  LET diffs == DiffsBetween(lows, highs)
           IN  /\ KeyLess(highs[j], lows[j + 2])
               /\ diffs[j] \in Nat /\ diffs[j + 1] \in Nat /\ diffs[j] # diffs[j + 1]
               /\ DiffBit(highs[j], lows[j + 2])
                    = IF diffs[j] < diffs[j + 1] THEN diffs[j] ELSE diffs[j + 1]
<1> DEFINE n == Len(lows)
           diffs == DiffsBetween(lows, highs)
           a == highs[j]
           k == lows[j + 1]
           b == highs[j + 1]
           c == lows[j + 2]
           x == diffs[j]
           y == diffs[j + 1]
<1>1. n \in Nat /\ \A s \in 1 .. n : lows[s] \in AnyKey /\ highs[s] \in AnyKey
  BY EndsAre
<1>2. j \in 1 .. n - 1 /\ j + 1 \in 1 .. n - 1 /\ j \in 1 .. n /\ j + 1 \in 1 .. n
      /\ j + 2 \in 1 .. n /\ (j + 1) + 1 = j + 2
  <2> HIDE DEF n
  <2>1. j \in 1 .. n - 2
    BY DEF n
  <2> QED
    BY <1>1, <2>1
<1>3. a \in AnyKey /\ k \in AnyKey /\ b \in AnyKey /\ c \in AnyKey
  BY <1>1, <1>2
<1>4. /\ x \in Nat /\ y \in Nat /\ KeyLess(a, k) /\ DiffBit(a, k) = x
      /\ Alike(b, c, y) /\ GetDiffBit(b, y) = 0 /\ GetDiffBit(c, y) = 1
  BY <1>2, EndsAre
<1>5. Alike(k, b, y) /\ Alike(k, b, y + 1)
  <2>1. y \in Nat /\ y <= y
    BY <1>4
  <2>2. j + 1 \in 1 .. Len(lows) /\ j + 1 \in 1 .. Len(lows) - 1 /\ j + 1 \in {(j + 1) - 1, j + 1}
    BY <1>2
  <2> QED
    BY <2>1, <2>2, SlotAlike
<1> HIDE DEF a, b, c, k, x, y
<1>6. KeyLess(k, c) /\ DiffBit(k, c) = y
  <2>1. Alike(k, c, y)
    BY <1>4, <1>5, AlikeIs
  <2>2. y + 1 \in Nat /\ y < y + 1
    BY <1>4
  <2>3. GetDiffBit(k, y) = 0
    BY <1>4, <1>5, <2>2, AlikeIs
  <2> QED
    BY <1>3, <1>4, <2>1, <2>3, FirstDifference
<1>7. /\ KeyLess(a, c) /\ x # y
      /\ x < y => DiffBit(a, c) = x
      /\ y < x => DiffBit(a, c) = y
  BY <1>3, <1>4, <1>6, MiddleKey
<1>8. x < y \/ y < x
  BY <1>4, <1>7
<1>9. DiffBit(a, c) = IF x < y THEN x ELSE y
  BY <1>7, <1>8
<1> QED
  BY <1>4, <1>7, <1>9 DEF a, c, x, y

\* Taking a slot away takes away the larger diff beside it.
LEMMA EndsRemove ==
    ASSUME NEW lows, NEW highs, Ends(lows, highs), Len(lows) > 1,
           NEW slot \in 1 .. Len(lows),
           NEW x, LargerBeside(DiffsBetween(lows, highs), slot, x)
    PROVE  LET newlows == RemoveAt(lows, slot)
               newhighs == RemoveAt(highs, slot)
           IN  /\ Ends(newlows, newhighs)
               /\ Len(newlows) = Len(lows) - 1
               /\ DiffsBetween(newlows, newhighs) = RemoveAt(DiffsBetween(lows, highs), x)
<1> DEFINE n == Len(lows)
           diffs == DiffsBetween(lows, highs)
           l == RemoveAt(lows, slot)
           h == RemoveAt(highs, slot)
           e == RemoveAt(diffs, x)
           m == Len(diffs)
<1>1. /\ x \in {slot - 1, slot} /\ x \in 1 .. m /\ slot \in 1 .. n
      /\ \A y \in {slot - 1, slot} : y \in 1 .. m => diffs[y] <= diffs[x]
  BY DEF LargerBeside
<1>2. /\ n \in Nat /\ n > 1 /\ Len(highs) = n /\ m = n - 1
      /\ diffs \in Seq(Nat) /\ lows \in Seq(AnyKey) /\ highs \in Seq(AnyKey)
      /\ \A s \in 1 .. n : KeyLeq(lows[s], highs[s])
      /\ \A i \in 1 .. n - 1 : diffs[i] = DiffBit(highs[i], lows[i + 1]) /\ diffs[i] \in Nat
                               /\ KeyLess(highs[i], lows[i + 1])
  BY EndsAre DEF Ends
<1>3. /\ \A s \in 1 .. n, i \in 1 .. n - 1 :
           i \in {s - 1, s} /\ lows[s] # highs[s] => diffs[i] < DiffBit(lows[s], highs[s])
      /\ \A s \in 1 .. n : lows[s] # highs[s] => DiffBit(lows[s], highs[s]) \in Nat
  <2>1. \A s \in 1 .. n : lows[s] # highs[s] => DiffBit(lows[s], highs[s]) \in Nat
    BY EndsAre, KeysPart
  <2> QED
    BY <2>1 DEF Ends
<1>4. Len(lows) = n /\ Len(diffs) = m
  OBVIOUS
<1>5. \A j \in 1 .. n - 2 :
        /\ KeyLess(highs[j], lows[j + 2])
        /\ diffs[j] \in Nat /\ diffs[j + 1] \in Nat /\ diffs[j] # diffs[j + 1]
        /\ DiffBit(highs[j], lows[j + 2])
             = IF diffs[j] < diffs[j + 1] THEN diffs[j] ELSE diffs[j + 1]
  BY PartAcross
<1> HIDE DEF n, l, h, e, m, diffs
<1>6. /\ \A j \in 1 .. n - 1 : l[j] = IF j < slot THEN lows[j] ELSE lows[j + 1]
      /\ l \in Seq(AnyKey) /\ Len(l) = n - 1
  <2>1. Removed(l, lows, slot, n, AnyKey)
    BY <1>1, <1>2, <1>4, RemoveAtSame DEF l
  <2> QED
    BY <2>1 DEF Removed
<1>7. /\ \A j \in 1 .. n - 1 : h[j] = IF j < slot THEN highs[j] ELSE highs[j + 1]
      /\ h \in Seq(AnyKey) /\ Len(h) = n - 1
  <2>1. Removed(h, highs, slot, n, AnyKey)
    BY <1>1, <1>2, RemoveAtSame DEF h
  <2> QED
    BY <2>1 DEF Removed
<1>8. /\ \A j \in 1 .. m - 1 : e[j] = IF j < x THEN diffs[j] ELSE diffs[j + 1]
      /\ e \in Seq(Nat) /\ Len(e) = m - 1
  <2>1. Removed(e, diffs, x, m, Nat)
    BY <1>1, <1>2, <1>4, RemoveAtSame DEF e
  <2> QED
    BY <2>1 DEF Removed
<1>9. m - 1 = n - 2 /\ slot \in Nat /\ x \in Nat /\ m \in Nat
  BY <1>1, <1>2
\* What the diff numbers are before and after slot, and across it.
<1>10. ASSUME NEW j \in 1 .. n - 2
       PROVE  /\ j < slot - 1 => e[j] = diffs[j]
              /\ j = slot - 1 => /\ e[j] = DiffBit(highs[j], lows[j + 2])
                                 /\ e[j] <= diffs[j] /\ e[j] <= diffs[j + 1]
              /\ j >= slot => e[j] = diffs[j + 1]
  <2>1. j \in 1 .. m - 1 /\ j \in Nat
    BY <1>9
  <2>2. ASSUME j < slot - 1 PROVE e[j] = diffs[j]
    <3>1. j < x
      BY <1>1, <1>9, <2>1, <2>2
    <3> QED
      BY <1>8, <2>1, <3>1
  <2>3. ASSUME j >= slot PROVE e[j] = diffs[j + 1]
    <3>1. ~ (j < x)
      BY <1>1, <1>9, <2>1, <2>3
    <3> QED
      BY <1>8, <2>1, <3>1
  <2>4. ASSUME j = slot - 1
        PROVE  /\ e[j] = DiffBit(highs[j], lows[j + 2])
               /\ e[j] <= diffs[j] /\ e[j] <= diffs[j + 1]
    <3> DEFINE u == diffs[j]
               v == diffs[j + 1]
               w == DiffBit(highs[j], lows[j + 2])
    <3>1. u \in Nat /\ v \in Nat /\ u # v /\ w = IF u < v THEN u ELSE v
      BY <1>5
    <3>2. j + 1 = slot /\ j \in 1 .. m /\ j + 1 \in 1 .. m
      BY <1>9, <2>1, <2>4
    <3>3. CASE x = slot
      <4>1. e[j] = u
        BY <1>8, <1>9, <2>1, <2>4, <3>3
      <4>2. u <= v
        BY <1>1, <2>4, <3>2, <3>3
      <4> HIDE DEF u, v, w
      <4>3. e[j] = w /\ e[j] <= u /\ e[j] <= v
        BY <3>1, <4>1, <4>2
      <4> QED
        BY <4>3 DEF u, v, w
    <3>4. CASE x = slot - 1
      <4>1. e[j] = v
        BY <1>8, <1>9, <2>1, <2>4, <3>4
      <4>2. v <= u
        BY <1>1, <2>4, <3>2, <3>4
      <4> HIDE DEF u, v, w
      <4>3. e[j] = w /\ e[j] <= u /\ e[j] <= v
        BY <3>1, <4>1, <4>2
      <4> QED
        BY <4>3 DEF u, v, w
    <3> QED
      BY <1>1, <3>3, <3>4
  <2> QED
    BY <2>2, <2>3, <2>4
<1>11. ASSUME NEW j \in 1 .. n - 2
       PROVE  e[j] = DiffBit(h[j], l[j + 1]) /\ KeyLess(h[j], l[j + 1])
  <2>1. j \in 1 .. n - 1 /\ j + 1 \in 1 .. n - 1 /\ j \in Nat /\ (j + 1) + 1 = j + 2
    BY <1>2
  <2>2. CASE j < slot - 1
    <3>1. j < slot /\ j + 1 < slot
      BY <1>9, <2>1, <2>2
    <3>2. h[j] = highs[j] /\ l[j + 1] = lows[j + 1]
      BY <1>6, <1>7, <2>1, <3>1
    <3> QED
      BY <1>2, <1>10, <2>1, <2>2, <3>2
  <2>3. CASE j = slot - 1
    <3>1. j < slot /\ ~ (j + 1 < slot)
      BY <1>9, <2>1, <2>3
    <3>2. h[j] = highs[j] /\ l[j + 1] = lows[j + 2]
      BY <1>6, <1>7, <2>1, <3>1
    <3> QED
      BY <1>5, <1>10, <2>3, <3>2
  <2>4. CASE j >= slot
    <3>1. ~ (j < slot) /\ ~ (j + 1 < slot)
      BY <1>9, <2>1, <2>4
    <3>2. h[j] = highs[j + 1] /\ l[j + 1] = lows[(j + 1) + 1]
      BY <1>6, <1>7, <2>1, <3>1
    <3> QED
      BY <1>2, <1>10, <2>1, <2>4, <3>2
  <2> QED
    BY <1>9, <2>1, <2>2, <2>3, <2>4
<1>12. DiffsBetween(l, h) = e
  <2>1. DiffsBetween(l, h) = [i \in 1 .. n - 2 |-> DiffBit(h[i], l[i + 1])]
    <3>1. Len(l) - 1 = n - 2
      BY <1>2, <1>6
    <3> QED
      BY <3>1 DEF DiffsBetween
  <2>2. e = [i \in 1 .. n - 2 |-> e[i]]
    BY <1>8, <1>9
  <2> QED
    BY <1>11, <2>1, <2>2
<1>13. ASSUME NEW s \in 1 .. n - 1
       PROVE  \E r \in 1 .. n :
                /\ l[s] = lows[r] /\ h[s] = highs[r]
                /\ (s < slot /\ r = s) \/ (s >= slot /\ r = s + 1)
  <2>1. s \in 1 .. n /\ s + 1 \in 1 .. n
    BY <1>2
  <2>2. CASE s < slot
    BY <1>6, <1>7, <2>1, <2>2
  <2>3. CASE s >= slot
    <3>1. ~ (s < slot)
      BY <1>9, <2>1, <2>3
    <3> QED
      BY <1>6, <1>7, <2>1, <2>3, <3>1
  <2> QED
    BY <1>9, <2>1, <2>2, <2>3
<1>14. \A s \in 1 .. n - 1 : KeyLeq(l[s], h[s])
  BY <1>2, <1>13
<1>15. ASSUME NEW s \in 1 .. n - 1, NEW i \in 1 .. n - 2, i \in {s - 1, s}, l[s] # h[s]
       PROVE  e[i] < DiffBit(l[s], h[s])
  <2>1. PICK r \in 1 .. n :
          /\ l[s] = lows[r] /\ h[s] = highs[r]
          /\ (s < slot /\ r = s) \/ (s >= slot /\ r = s + 1)
    BY <1>13
  <2> DEFINE z == DiffBit(lows[r], highs[r])
  <2>2. /\ z \in Nat
        /\ \A y \in 1 .. n - 1 : y \in {r - 1, r} => diffs[y] < z
    BY <1>3, <1>15, <2>1
  <2>3. i \in 1 .. n - 1 /\ i + 1 \in 1 .. n - 1 /\ i \in Nat /\ s \in Nat
    BY <1>2
  <2>4. diffs[i] \in Nat /\ diffs[i + 1] \in Nat
    BY <1>2, <2>3
  <2> HIDE DEF z
  <2>5. CASE i < slot - 1
    <3>1. i \in {r - 1, r}
      BY <1>9, <1>15, <2>1, <2>3, <2>5
    <3> QED
      BY <1>10, <2>1, <2>2, <2>3, <2>5, <3>1 DEF z
  <2>6. CASE i = slot - 1
    <3>1. i \in {r - 1, r} \/ i + 1 \in {r - 1, r}
      BY <1>9, <1>15, <2>1, <2>3, <2>6
    <3>2. e[i] <= diffs[i] /\ e[i] <= diffs[i + 1] /\ e[i] \in Int
      BY <1>8, <1>9, <1>10, <2>3, <2>6
    <3>3. diffs[i] < z \/ diffs[i + 1] < z
      BY <2>2, <2>3, <3>1
    <3>4. e[i] < z
      BY <2>2, <2>4, <3>2, <3>3
    <3> QED
      BY <2>1, <3>4 DEF z
  <2>7. CASE i >= slot
    <3>1. i + 1 \in {r - 1, r}
      BY <1>9, <1>15, <2>1, <2>3, <2>7
    <3> QED
      BY <1>10, <2>1, <2>2, <2>3, <2>7, <3>1 DEF z
  <2> QED
    BY <1>9, <2>3, <2>5, <2>6, <2>7
<1>16. Ends(l, h)
  <2>1. Len(l) = n - 1 /\ Len(h) = n - 1 /\ n - 1 > 0 /\ (n - 1) - 1 = n - 2
    BY <1>2, <1>6, <1>7
  <2> QED
    BY <1>6, <1>7, <1>11, <1>12, <1>14, <1>15, <2>1 DEF Ends
<1> QED
  BY <1>6, <1>12, <1>16 DEF l, h, e, n, diffs

\* Without one of its slots a page is still one of its kind
\* (Index::DeleteAtIncremental), whichever slot it is.
THEOREM DeleteKeepsPage ==
    ASSUME NEW page, NEW lows, NEW highs, KeyPage(page, lows, highs), Len(lows) > 1,
           NEW slot \in 1 .. Len(lows),
           NEW new, Len(new.reps) = Len(page.reps) - 1,
           new.routes = DeleteRoute(page, slot)
    PROVE  KeyPage(new, RemoveAt(lows, slot), RemoveAt(highs, slot))
<1> DEFINE diffs == DiffsBetween(lows, highs)
           l == RemoveAt(lows, slot)
           h == RemoveAt(highs, slot)
<1>1. Ends(lows, highs) /\ Canonical(page, diffs) /\ Len(page.reps) = Len(lows)
  BY KeyPageIs DEF KeyPage
<1>2. Len(diffs) + 1 = Len(lows) /\ Len(diffs) \in Nat /\ Len(diffs) > 0
  <2>1. Len(diffs) + 1 = Len(lows) /\ Len(diffs) \in Nat
    BY <1>1, EndsAre
  <2> QED
    BY <2>1
<1> HIDE DEF diffs
<1>3. slot \in 1 .. Len(diffs) + 1
  BY <1>2
<1>4. PICK x \in {slot - 1, slot} :
        /\ x \in 1 .. Len(diffs)
        /\ \A y \in {slot - 1, slot} : y \in 1 .. Len(diffs) => diffs[y] <= diffs[x]
        /\ DeleteRoute(page, slot) = RoutesOf(RemoveAt(diffs, x))
  BY <1>1, <1>2, <1>3, DeleteRouteIsRebuild
<1>5. LargerBeside(diffs, slot, x)
  BY <1>4 DEF LargerBeside
<1>6. /\ Ends(l, h) /\ Len(l) = Len(lows) - 1
      /\ DiffsBetween(l, h) = RemoveAt(diffs, x)
  BY <1>1, <1>5, EndsRemove DEF diffs
<1> HIDE DEF l, h
<1>7. KeyPage(new, l, h)
  BY <1>1, <1>4, <1>6 DEF KeyPage
<1> QED
  BY <1>7 DEF l, h

-----------------------------------------------------------------------------
(* Splits: a range of slots becomes a child *)

\* Some of the slots of a page, one after the other, are slots of a page.
LEMMA EndsSub ==
    ASSUME NEW lows, NEW highs, Ends(lows, highs),
           NEW a \in 1 .. Len(lows), NEW b \in 1 .. Len(lows), a <= b
    PROVE  LET l == SubSeq(lows, a, b)
               h == SubSeq(highs, a, b)
           IN  /\ Ends(l, h) /\ Len(l) = b - a + 1
               /\ \A j \in 1 .. b - a + 1 : l[j] = lows[j + a - 1] /\ h[j] = highs[j + a - 1]
               /\ DiffsBetween(l, h) = SubSeq(DiffsBetween(lows, highs), a, b - 1)
<1> DEFINE n == Len(lows)
           m == b - a + 1
           diffs == DiffsBetween(lows, highs)
           l == SubSeq(lows, a, b)
           h == SubSeq(highs, a, b)
           e == SubSeq(diffs, a, b - 1)
<1>1. /\ n \in Nat /\ Len(highs) = n /\ Len(diffs) = n - 1
      /\ diffs \in Seq(Nat) /\ lows \in Seq(AnyKey) /\ highs \in Seq(AnyKey)
      /\ \A s \in 1 .. n : KeyLeq(lows[s], highs[s])
      /\ \A i \in 1 .. n - 1 : diffs[i] = DiffBit(highs[i], lows[i + 1])
                               /\ KeyLess(highs[i], lows[i + 1])
  BY EndsAre DEF Ends
<1>2. \A s \in 1 .. n, i \in 1 .. n - 1 :
        i \in {s - 1, s} /\ lows[s] # highs[s] => diffs[i] < DiffBit(lows[s], highs[s])
  BY DEF Ends
<1> HIDE DEF diffs
<1>3. /\ l \in Seq(AnyKey) /\ Len(l) = m
      /\ \A j \in 1 .. m : l[j] = lows[j + a - 1]
  BY <1>1
<1>4. /\ h \in Seq(AnyKey) /\ Len(h) = m
      /\ \A j \in 1 .. m : h[j] = highs[j + a - 1]
  BY <1>1
<1>5. e = [j \in 1 .. m - 1 |-> diffs[j + a - 1]]
  <2>1. /\ a \in Nat /\ b \in Nat /\ a >= 1 /\ a <= b /\ b - 1 <= n - 1
    BY <1>1
  <2>2. e = [j \in 1 .. (b - 1) - a + 1 |-> diffs[a + j - 1]]
    BY <1>1, <2>1 DEF SubSeq
  <2>3. (b - 1) - a + 1 = m - 1 /\ \A j \in 1 .. m - 1 : a + j - 1 = j + a - 1
    BY <2>1
  <2> QED
    BY <2>2, <2>3
<1> HIDE DEF n, l, h, e
<1>6. a \in 1 .. n /\ b \in 1 .. n /\ m \in Nat /\ m > 0
  BY <1>1 DEF n
<1>7. ASSUME NEW j \in 1 .. m
      PROVE  j + a - 1 \in 1 .. n
  BY <1>1, <1>6
<1>8. ASSUME NEW j \in 1 .. m - 1
      PROVE  /\ j \in 1 .. m /\ j + 1 \in 1 .. m /\ j + a - 1 \in 1 .. n - 1
             /\ (j + 1) + a - 1 = (j + a - 1) + 1
  BY <1>1, <1>6
<1> HIDE DEF m
<1>9. ASSUME NEW j \in 1 .. m - 1
      PROVE  e[j] = DiffBit(h[j], l[j + 1]) /\ KeyLess(h[j], l[j + 1])
  <2> DEFINE i == j + a - 1
  <2>1. /\ j \in 1 .. m /\ j + 1 \in 1 .. m /\ i \in 1 .. n - 1 /\ (j + 1) + a - 1 = i + 1
    BY <1>8
  <2>2. e[j] = diffs[i]
    BY <1>5
  <2>3. h[j] = highs[i] /\ l[j + 1] = lows[i + 1]
    BY <1>3, <1>4, <2>1
  <2> HIDE DEF i
  <2> QED
    BY <1>1, <2>1, <2>2, <2>3
<1>10. DiffsBetween(l, h) = e
  <2>1. DiffsBetween(l, h) = [j \in 1 .. m - 1 |-> DiffBit(h[j], l[j + 1])]
    BY <1>3 DEF DiffsBetween
  <2> QED
    BY <1>5, <1>9, <2>1
<1>11. \A j \in 1 .. m : KeyLeq(l[j], h[j])
  BY <1>1, <1>3, <1>4, <1>7
<1>12. ASSUME NEW s \in 1 .. m, NEW i \in 1 .. m - 1, i \in {s - 1, s}, l[s] # h[s]
       PROVE  e[i] < DiffBit(l[s], h[s])
  <2> DEFINE r == s + a - 1
             j == i + a - 1
  <2>1. r \in 1 .. n /\ j \in 1 .. n - 1 /\ l[s] = lows[r] /\ h[s] = highs[r] /\ e[i] = diffs[j]
    BY <1>3, <1>4, <1>5, <1>7, <1>8
  <2>2. j \in {r - 1, r}
    BY <1>6, <1>12
  <2> HIDE DEF r, j
  <2> QED
    BY <1>2, <1>12, <2>1, <2>2
<1>13. Ends(l, h)
  BY <1>3, <1>4, <1>6, <1>9, <1>10, <1>11, <1>12 DEF Ends
<1> QED
  BY <1>3, <1>4, <1>10, <1>13 DEF l, h, e, diffs, m

\* t is s, of length n, with e in the place of its elements a..b.
InPlace(t, s, a, b, e, n, S) ==
    /\ \A j \in 1 .. n - (b - a) :
         t[j] = IF j < a THEN s[j] ELSE IF j = a THEN e ELSE s[j + (b - a)]
    /\ t \in Seq(S) /\ Len(t) = n - (b - a)

\* The elements of Collapsed.
LEMMA CollapsedIs ==
    ASSUME NEW S, NEW s \in Seq(S), NEW n, Len(s) = n, NEW a \in 1 .. n, NEW b \in a .. n,
           NEW e \in S
    PROVE  InPlace(Collapsed(s, a, b, e), s, a, b, e, n, S)
<1> DEFINE x == SubSeq(s, 1, a - 1)
           y == SubSeq(s, b + 1, n)
           t == Collapsed(s, a, b, e)
<1>1. n \in Nat /\ a \in Nat /\ b \in Nat /\ a >= 1 /\ a <= b /\ b <= n
  OBVIOUS
<1>2. x \in Seq(S) /\ Len(x) = a - 1 /\ \A j \in 1 .. a - 1 : x[j] = s[j]
  BY <1>1
<1>3. y \in Seq(S) /\ Len(y) = n - b
  BY <1>1
<1>4. \A j \in 1 .. n - b : y[j] = s[j + b]
  <2> TAKE j \in 1 .. n - b
  <2>1. y = [i \in 1 .. n - (b + 1) + 1 |-> s[(b + 1) + i - 1]]
    BY DEF SubSeq
  <2>2. n - (b + 1) + 1 = n - b /\ (b + 1) + j - 1 = j + b
    BY <1>1
  <2> QED
    BY <2>1, <2>2
<1>5. t = (x \o <<e>>) \o y
  BY DEF Collapsed
<1> DEFINE z == x \o <<e>>
<1> HIDE DEF x, y
<1>6. /\ z \in Seq(S) /\ Len(z) = a /\ z[a] = e
      /\ \A j \in 1 .. a - 1 : z[j] = s[j]
  <2>1. <<e>> \in Seq(S) /\ Len(<<e>>) = 1 /\ <<e>>[1] = e
    OBVIOUS
  <2> DEFINE w == <<e>>
  <2> HIDE DEF w
  <2>2. /\ z = x \o w /\ w \in Seq(S) /\ Len(w) = 1 /\ w[1] = e
    BY <2>1 DEF w
  <2>3. z \in Seq(S) /\ Len(z) = Len(x) + 1
        /\ \A j \in 1 .. Len(x) + 1 : z[j] = IF j <= Len(x) THEN x[j] ELSE w[j - Len(x)]
    BY <1>2, <2>2, ConcatProperties
  <2> HIDE DEF z
  <2> QED
    BY <1>1, <1>2, <2>2, <2>3
<1>7. t = z \o y
  BY <1>5
<1> HIDE DEF z, t
<1>8. t \in Seq(S) /\ Len(t) = Len(z) + Len(y)
      /\ \A j \in 1 .. Len(z) + Len(y) : t[j] = IF j <= Len(z) THEN z[j] ELSE y[j - Len(z)]
  BY <1>3, <1>6, <1>7, ConcatProperties
<1>9. Len(z) + Len(y) = n - (b - a) /\ Len(z) = a
  BY <1>1, <1>3, <1>6
<1>10. ASSUME NEW j \in 1 .. n - (b - a)
       PROVE  t[j] = IF j < a THEN s[j] ELSE IF j = a THEN e ELSE s[j + (b - a)]
  <2>1. j \in Nat /\ j >= 1 /\ t[j] = IF j <= a THEN z[j] ELSE y[j - a]
    BY <1>1, <1>8, <1>9
  <2>2. CASE j < a
    <3>1. j <= a /\ j \in 1 .. a - 1
      BY <1>1, <2>1, <2>2
    <3> QED
      BY <1>6, <2>1, <2>2, <3>1
  <2>3. CASE j = a
    BY <1>1, <1>6, <2>1, <2>3
  <2>4. CASE j > a
    <3>1. ~ (j <= a) /\ j - a \in 1 .. n - b /\ (j - a) + b = j + (b - a) /\ j # a /\ ~ (j < a)
      BY <1>1, <2>1, <2>4
    <3> QED
      BY <1>4, <2>1, <3>1
  <2> QED
    BY <1>1, <2>1, <2>2, <2>3, <2>4
<1> QED
  BY <1>8, <1>9, <1>10 DEF InPlace, t

\* The keys of slots a..b part later than they part from those beside them.
PartLater(diffs, a, b) ==
    \A i \in 1 .. Len(diffs) : i \in {a - 1, b} =>
        \A j \in a .. b - 1 : diffs[i] < diffs[j]

\* Such slots have ends that make one slot.
LEMMA RangeIsSlot ==
    ASSUME NEW lows, NEW highs, Ends(lows, highs),
           NEW a \in 1 .. Len(lows), NEW b \in 1 .. Len(lows), a <= b,
           PartLater(DiffsBetween(lows, highs), a, b)
    PROVE  /\ KeyLeq(lows[a], highs[b])
           /\ \A i \in 1 .. Len(lows) - 1 : i \in {a - 1, b} /\ lows[a] # highs[b] =>
                DiffsBetween(lows, highs)[i] < DiffBit(lows[a], highs[b])
<1> DEFINE n == Len(lows)
           diffs == DiffsBetween(lows, highs)
<1>1. /\ n \in Nat /\ Len(diffs) = n - 1
      /\ \A s \in 1 .. n : /\ lows[s] \in AnyKey /\ highs[s] \in AnyKey
                           /\ KeyLeq(lows[s], highs[s])
                           /\ InSlot(lows, highs, s, lows[s]) /\ InSlot(lows, highs, s, highs[s])
      /\ \A i \in 1 .. n - 1 : diffs[i] \in Nat
  BY EndsAre
<1>2. \A i \in 1 .. Len(diffs) : i \in {a - 1, b} => \A j \in a .. b - 1 : diffs[i] < diffs[j]
  BY DEF PartLater
<1>3. KeyLeq(lows[a], highs[b])
  <2>1. CASE a = b
    BY <1>1, <2>1
  <2>2. CASE a # b
    <3>1. a < b
      BY <2>2
    <3>2. KeyLess(highs[a], lows[b])
      BY <3>1, SlotsInOrder
    <3>3. /\ lows[a] \in AnyKey /\ highs[a] \in AnyKey /\ lows[b] \in AnyKey /\ highs[b] \in AnyKey
          /\ KeyLeq(lows[a], highs[a]) /\ KeyLeq(highs[a], lows[b]) /\ KeyLeq(lows[b], highs[b])
      BY <1>1, <3>2 DEF KeyLeq
    <3>4. KeyLeq(lows[a], lows[b])
      BY <3>3, LeqTransitive
    <3> QED
      BY <3>3, <3>4, LeqTransitive
  <2> QED
    BY <2>1, <2>2
<1>4. ASSUME NEW i \in 1 .. n - 1, i \in {a - 1, b}, lows[a] # highs[b]
      PROVE  diffs[i] < DiffBit(lows[a], highs[b])
  <2> DEFINE e == diffs[i]
  <2>1. e \in Nat /\ e + 1 \in Nat /\ \A j \in a .. b - 1 : e < diffs[j]
    BY <1>1, <1>2, <1>4
  <2>2. CASE a = b
    <3>1. i \in {a - 1, a} /\ InSlot(lows, highs, a, highs[b])
      BY <1>1, <1>4, <2>2
    <3>2. Alike(lows[a], highs[b], e + 1)
      BY <3>1, InSlotAlike
    <3> QED
      BY <1>1, <1>4, <2>1, <3>2, DifferLater
  <2>3. CASE a < b
    <3>1. \A j \in a .. b - 1 : j \in 1 .. n - 1 /\ diffs[j] \in Nat /\ e + 1 <= diffs[j]
      <4> TAKE j \in a .. b - 1
      <4>1. j \in 1 .. n - 1
        BY <1>1
      <4>2. diffs[j] \in Nat /\ e < diffs[j]
        BY <1>1, <2>1, <4>1
      <4> HIDE DEF e
      <4>3. e + 1 <= diffs[j]
        BY <2>1, <4>2
      <4> QED
        BY <4>1, <4>2, <4>3
    <3>2. \A s \in a .. b : Alike(lows[s], highs[s], e + 1)
      <4> TAKE s \in a .. b
      <4>1. \E j \in a .. b - 1 : j \in {s - 1, s}
        <5>1. s < b => s \in a .. b - 1
          OBVIOUS
        <5>2. s = b => s - 1 \in a .. b - 1
          BY <2>3
        <5>3. s < b \/ s = b
          OBVIOUS
        <5> QED
          BY <5>1, <5>2, <5>3
      <4>2. PICK j \in a .. b - 1 : j \in {s - 1, s}
        BY <4>1
      <4>3. s \in 1 .. n
        BY <1>1
      <4>4. j \in 1 .. Len(lows) - 1 /\ e + 1 <= diffs[j]
        BY <3>1
      <4> HIDE DEF e
      <4> QED
        BY <2>1, <4>2, <4>3, <4>4, SlotAlike
    <3> DEFINE d == e + 1
    <3>3. d \in Nat /\ (\A j \in a .. b - 1 : d <= diffs[j]) /\ \A s \in a .. b : Alike(lows[s], highs[s], d)
      BY <2>1, <3>1, <3>2
    <3>4. a \in a .. b /\ b \in a .. b
      BY <2>3
    <3> HIDE DEF d
    <3>5. \A s \in a .. b, r \in a .. b : \A k, l :
             InSlot(lows, highs, s, k) /\ InSlot(lows, highs, r, l) => Alike(k, l, d)
      BY <3>3, RangeAlike
    <3>6. Alike(lows[a], highs[b], e + 1)
      BY <1>1, <3>4, <3>5 DEF d
    <3> QED
      BY <1>1, <1>4, <2>1, <3>6, DifferLater
  <2> QED
    BY <2>2, <2>3
<1> QED
  BY <1>3, <1>4

\* A key that answers 1 to d has no key after it that answers 0, if both agree
\* below d.
LEMMA AnswersInOrder ==
    ASSUME NEW a \in AnyKey, NEW b \in AnyKey, KeyLeq(a, b), NEW d \in Nat, Alike(a, b, d)
    PROVE  ~ (GetDiffBit(a, d) = 1 /\ GetDiffBit(b, d) = 0)
<1>1. CASE a = b
  BY <1>1
<1>2. CASE KeyLess(a, b)
  <2> DEFINE e == DiffBit(a, b)
  <2>1. /\ e \in Nat /\ Alike(a, b, e)
        /\ GetDiffBit(a, e) = 0 /\ GetDiffBit(b, e) = 1
    BY <1>2, LessPart
  <2> HIDE DEF e
  <2>2. CASE e < d
    <3>1. GetDiffBit(a, e) = GetDiffBit(b, e)
      BY <2>1, <2>2, AlikeIs
    <3> QED
      BY <2>1, <3>1
  <2>3. CASE e = d
    BY <2>1, <2>3
  <2>4. CASE d < e
    <3>1. GetDiffBit(a, d) = GetDiffBit(b, d)
      BY <2>1, <2>4, AlikeIs
    <3> QED
      BY <3>1
  <2> QED
    BY <2>1, <2>2, <2>3, <2>4
<1> QED
  BY <1>1, <1>2 DEF KeyLeq

\* Among the diffs of neighbouring slots the smallest stands once.
LEMMA SmallestStandsOnce ==
    ASSUME NEW lows, NEW highs, Ends(lows, highs),
           NEW j \in 1 .. Len(lows) - 1, NEW x \in 1 .. Len(lows) - 1, j < x,
           NEW d \in Nat,
           \A i \in j .. x : d <= DiffsBetween(lows, highs)[i],
           DiffsBetween(lows, highs)[x] = d
    PROVE  DiffsBetween(lows, highs)[j] # d
<1> DEFINE diffs == DiffsBetween(lows, highs)
           n == Len(lows)
           a == lows[j + 1]
           b == highs[x]
<1> SUFFICES ASSUME diffs[j] = d
             PROVE  FALSE
  OBVIOUS
<1>1. /\ n \in Nat /\ j \in Nat /\ x \in Nat /\ j + 1 \in 1 .. n /\ x \in 1 .. n /\ j + 1 <= x
      /\ j + 1 \in j + 1 .. x /\ x \in j + 1 .. x
  BY EndsAre
<1>2. GetDiffBit(a, d) = 1 /\ GetDiffBit(b, d) = 0 /\ a \in AnyKey /\ b \in AnyKey
  BY <1>1, EndsAre
<1>3. \A i \in (j + 1) .. x - 1 : d <= diffs[i]
  BY <1>1
<1>4. \A s \in j + 1 .. x : Alike(lows[s], highs[s], d)
  <2> TAKE s \in j + 1 .. x
  <2>1. s \in 1 .. n /\ s \in 1 .. Len(lows) - 1 /\ s \in {s - 1, s} /\ d <= diffs[s]
    BY <1>1
  <2> QED
    BY <2>1, SlotAlike
<1>5. \A s \in j + 1 .. x, r \in j + 1 .. x : \A k, l :
         InSlot(lows, highs, s, k) /\ InSlot(lows, highs, r, l) => Alike(k, l, d)
  BY <1>1, <1>3, <1>4, RangeAlike
<1>6. InSlot(lows, highs, j + 1, a) /\ InSlot(lows, highs, x, b)
  BY <1>1, EndsAre
<1>7. Alike(a, b, d)
  BY <1>1, <1>5, <1>6
<1>8. KeyLeq(a, b)
  <2>1. CASE j + 1 = x
    BY <1>1, <2>1, EndsAre
  <2>2. CASE j + 1 < x
    <3>1. KeyLess(highs[j + 1], lows[x])
      BY <1>1, <2>2, SlotsInOrder
    <3>2. /\ highs[j + 1] \in AnyKey /\ lows[x] \in AnyKey
          /\ KeyLeq(a, highs[j + 1]) /\ KeyLeq(lows[x], b)
      BY <1>1, EndsAre
    <3>3. KeyLeq(highs[j + 1], lows[x])
      BY <3>1 DEF KeyLeq
    <3>4. KeyLeq(a, lows[x])
      BY <1>2, <3>2, <3>3, LeqTransitive
    <3> QED
      BY <1>2, <3>2, <3>4, LeqTransitive
  <2> QED
    BY <1>1, <2>1, <2>2
<1> QED
  BY <1>2, <1>7, <1>8, AnswersInOrder

\* A route asks earlier than every route below it.
LEMMA AboveAsksEarlier ==
    ASSUME NEW lows, NEW highs, Ends(lows, highs),
           NEW g \in CartesianFrames(DiffsBetween(lows, highs)), IsRoute(g),
           NEW f \in CartesianFrames(DiffsBetween(lows, highs)), f # g,
           f \in FramesBelow(CartesianTree(DiffsBetween(lows, highs)), g),
           NEW j \in f.lo .. f.lo + f.n - 2
    PROVE  DiffsBetween(lows, highs)[PlaceOf(DiffsBetween(lows, highs), g)]
             < DiffsBetween(lows, highs)[j]
<1> DEFINE diffs == DiffsBetween(lows, highs)
           t == CartesianTree(diffs)
           x == PlaceOf(diffs, g)
           l == LeftOf(t, g)
           r == RightOf(t, g)
           gl == g.lo
           gn == g.n
           fl == f.lo
           fn == f.n
           m == Len(diffs)
<1>1. diffs \in Seq(Nat) /\ Len(diffs) = Len(lows) - 1 /\ m \in Nat
  BY EndsAre
<1>2. /\ x \in gl .. gl + gn - 2 /\ x \in 1 .. m
      /\ PartsAt(diffs, g, t[g])
  BY <1>1, CartesianBasics
<1>3. /\ gl \in Nat /\ gn \in Nat /\ fl \in Nat /\ fn \in Nat
      /\ gl >= 1 /\ fl >= 1 /\ gl + gn - 1 <= m + 1
      /\ l.lo = gl /\ l.n = t[g] /\ r.lo = gl + t[g] /\ r.n = gn - t[g]
      /\ t[g] \in 1 .. gn - 1
  <2>1. /\ gl \in Nat \ {0} /\ gn \in Nat \ {0} /\ gl + gn - 1 <= m + 1
        /\ l.lo = gl /\ l.n = t[g] /\ r.lo = gl + t[g] /\ r.n = gn - t[g]
        /\ t[g] \in 1 .. gn - 1
    BY <1>1, CartesianParts
  <2>2. fl \in Nat \ {0} /\ fn \in Nat \ {0}
    BY <1>1, CartesianParts
  <2> HIDE DEF gl, gn, fl, fn, l, r, t, m
  <2> QED
    BY <2>1, <2>2
<1>4. x = gl + t[g] - 1
  BY DEF PlaceOf
<1>5. Inside(f, l) \/ Inside(f, r)
  BY <1>1, SideOfAbove
<1>6. \A i \in gl .. gl + gn - 2 : diffs[x] <= diffs[i] /\ (i > x => diffs[x] # diffs[i])
  BY <1>2, <1>4 DEF PartsAt
<1> DEFINE ll == l.lo
           ln == l.n
           rl == r.lo
           rn == r.n
           k == t[g]
<1>7. \/ ll <= fl /\ fl + fn <= ll + ln
      \/ rl <= fl /\ fl + fn <= rl + rn
  BY <1>5 DEF Inside
<1>8. /\ ll = gl /\ ln = k /\ rl = gl + k /\ rn = gn - k /\ k \in 1 .. gn - 1 /\ x = gl + k - 1
  BY <1>3, <1>4
<1>9. j \in fl .. fl + fn - 2
  OBVIOUS
<1>10. j \in gl .. gl + gn - 2 /\ j # x /\ j \in 1 .. m /\ j \in Nat /\ x \in Nat
  <2>1. /\ gl \in Nat /\ gn \in Nat /\ fl \in Nat /\ fn \in Nat
        /\ gl >= 1 /\ fl >= 1 /\ gl + gn - 1 <= m + 1 /\ m \in Nat
    BY <1>1, <1>3
  <2> HIDE DEF gl, gn, fl, fn, m, x, k, ll, ln, rl, rn
  <2> QED
    BY <1>7, <1>8, <1>9, <2>1
<1>11. diffs[x] \in Nat /\ diffs[j] \in Nat /\ diffs[x] <= diffs[j]
  BY <1>1, <1>2, <1>6, <1>10
<1>12. diffs[x] # diffs[j]
  <2>1. CASE j > x
    BY <1>6, <1>10, <2>1
  <2>2. CASE j < x
    <3> DEFINE d == diffs[x]
    <3>1. j \in 1 .. Len(lows) - 1 /\ x \in 1 .. Len(lows) - 1 /\ d \in Nat
      BY <1>1, <1>2, <1>10, <1>11
    <3>2. \A i \in j .. x : i \in gl .. gl + gn - 2
      <4>1. x \in gl .. gl + gn - 2 /\ gl \in Nat /\ gn \in Nat
        BY <1>2, <1>3
      <4> HIDE DEF x, gl, gn
      <4> QED
        BY <1>10, <4>1
    <3>3. \A i \in j .. x : d <= diffs[i]
      BY <1>6, <3>2
    <3> HIDE DEF x
    <3>4. diffs[x] = d
      OBVIOUS
    <3> HIDE DEF d, diffs
    <3> QED
      BY <2>2, <3>1, <3>3, <3>4, SmallestStandsOnce DEF diffs
  <2> QED
    BY <1>10, <2>1, <2>2
<1> HIDE DEF diffs, x
<1>13. diffs[x] < diffs[j]
  BY <1>11, <1>12
<1> QED
  BY <1>13 DEF diffs, x

\* The slots of a frame part later than they part from those beside them.
LEMMA FramePartsLater ==
    ASSUME NEW lows, NEW highs, Ends(lows, highs),
           NEW f \in CartesianFrames(DiffsBetween(lows, highs))
    PROVE  /\ PartLater(DiffsBetween(lows, highs), f.lo, f.lo + f.n - 1)
           /\ f.lo \in 1 .. Len(lows) /\ f.lo + f.n - 1 \in 1 .. Len(lows)
           /\ f.lo <= f.lo + f.n - 1
<1> DEFINE diffs == DiffsBetween(lows, highs)
           fl == f.lo
           fn == f.n
           b == fl + fn - 1
           n == Len(lows)
<1>1. diffs \in Seq(Nat) /\ Len(diffs) + 1 = n /\ n \in Nat
  BY EndsAre
<1>2. fl \in Nat \ {0} /\ fn \in Nat \ {0} /\ fl + fn - 1 <= Len(diffs) + 1
  BY <1>1, CartesianParts
<1>3. ASSUME NEW i \in 1 .. Len(diffs), i \in {fl - 1, b}, NEW j \in fl .. b - 1
      PROVE  diffs[i] < diffs[j]
  <2>1. i \in {f.lo - 1, f.lo + f.n - 1}
    BY <1>3
  <2>2. PICK g \in CartesianFrames(diffs) :
           /\ IsRoute(g) /\ PlaceOf(diffs, g) = i
           /\ f \in FramesBelow(CartesianTree(diffs), g) /\ g # f
    BY <1>1, <2>1, RouteBeside
  <2>3. j \in fl .. fl + fn - 2
    <3>1. b - 1 = fl + fn - 2
      BY <1>2
    <3> QED
      BY <1>3, <3>1
  <2>4. diffs[PlaceOf(diffs, g)] < diffs[j]
    BY <2>2, <2>3, AboveAsksEarlier
  <2> QED
    BY <2>2, <2>4
<1>4. PartLater(diffs, fl, b)
  BY <1>3 DEF PartLater
<1>5. fl \in 1 .. n /\ b \in 1 .. n /\ fl <= b
  <2> HIDE DEF fl, fn
  <2> QED
    BY <1>1, <1>2
<1> QED
  BY <1>4, <1>5

\* Slots a..b that part later than from those beside them may become one slot:
\* the diffs of the others stay.
LEMMA EndsCollapse ==
    ASSUME NEW lows, NEW highs, Ends(lows, highs),
           NEW a \in 1 .. Len(lows), NEW b \in 1 .. Len(lows), a <= b,
           PartLater(DiffsBetween(lows, highs), a, b)
    PROVE  LET l == Collapsed(lows, a, b, lows[a])
               h == Collapsed(highs, a, b, highs[b])
           IN  /\ Ends(l, h) /\ Len(l) = Len(lows) - (b - a)
               /\ \A i \in 1 .. Len(l) - 1 :
                    DiffsBetween(l, h)[i] = DiffsBetween(lows, highs)[IF i < a THEN i ELSE i + (b - a)]
<1> DEFINE n == Len(lows)
           w == b - a
           m == n - w
           diffs == DiffsBetween(lows, highs)
           l == Collapsed(lows, a, b, lows[a])
           h == Collapsed(highs, a, b, highs[b])
           Low(j) == IF j <= a THEN j ELSE j + w
           High(j) == IF j < a THEN j ELSE j + w
<1>1. /\ n \in Nat /\ n > 0 /\ Len(highs) = n /\ lows \in Seq(AnyKey) /\ highs \in Seq(AnyKey)
      /\ \A s \in 1 .. n : /\ lows[s] \in AnyKey /\ highs[s] \in AnyKey
                           /\ KeyLeq(lows[s], highs[s])
      /\ \A i \in 1 .. n - 1 : /\ diffs[i] = DiffBit(highs[i], lows[i + 1])
                               /\ KeyLess(highs[i], lows[i + 1])
      /\ \A s \in 1 .. n, i \in 1 .. n - 1 : i \in {s - 1, s} /\ lows[s] # highs[s] =>
            diffs[i] < DiffBit(lows[s], highs[s])
  BY EndsAre DEF Ends
<1>2. a \in 1 .. n /\ b \in a .. n /\ w \in Nat /\ m \in Nat /\ m > 0 /\ a \in 1 .. m
      /\ a \in Nat /\ b = a + w /\ m + w = n
  BY <1>1
<1>3. /\ KeyLeq(lows[a], highs[b])
      /\ \A i \in 1 .. n - 1 : i \in {a - 1, b} /\ lows[a] # highs[b] =>
                diffs[i] < DiffBit(lows[a], highs[b])
  BY RangeIsSlot
<1>4. InPlace(l, lows, a, b, lows[a], n, AnyKey)
  BY <1>1, <1>2, CollapsedIs
<1>5. InPlace(h, highs, a, b, highs[b], n, AnyKey)
  BY <1>1, <1>2, CollapsedIs
<1> HIDE DEF l, h, diffs, n, m, w
<1>6. l \in Seq(AnyKey) /\ h \in Seq(AnyKey) /\ Len(l) = m /\ Len(h) = m
  BY <1>4, <1>5 DEF InPlace, m, w
<1>7. \A j \in 1 .. m : /\ Low(j) \in 1 .. n /\ High(j) \in 1 .. n
                        /\ l[j] = lows[Low(j)] /\ h[j] = highs[High(j)]
                        /\ j # a => Low(j) = High(j)
                        /\ j = a => Low(j) = a /\ High(j) = b
  <2> TAKE j \in 1 .. m
  <2>1. /\ l[j] = IF j < a THEN lows[j] ELSE IF j = a THEN lows[a] ELSE lows[j + w]
        /\ h[j] = IF j < a THEN highs[j] ELSE IF j = a THEN highs[b] ELSE highs[j + w]
    BY <1>4, <1>5 DEF InPlace, m, w
  <2>2. /\ j \in Nat /\ Low(j) \in 1 .. n /\ High(j) \in 1 .. n
        /\ (j # a => Low(j) = High(j)) /\ (j = a => Low(j) = a /\ High(j) = b)
        /\ (j < a => Low(j) = j) /\ (j > a => Low(j) = j + w)
    BY <1>1, <1>2
  <2>3. j < a \/ j = a \/ (j > a /\ ~ (j < a) /\ j # a)
    BY <1>2, <2>2
  <2> HIDE DEF Low, High
  <2>4. CASE j < a
    BY <2>1, <2>2, <2>4, <1>2
  <2>5. CASE j = a
    BY <2>1, <2>2, <2>5, <1>2
  <2>6. CASE j > a /\ ~ (j < a) /\ j # a
    BY <2>1, <2>2, <2>6
  <2> QED
    BY <2>2, <2>3, <2>4, <2>5, <2>6
<1>8. \A i \in 1 .. m - 1 : /\ i \in 1 .. m /\ i + 1 \in 1 .. m
                            /\ High(i) \in 1 .. n - 1 /\ Low(i + 1) = High(i) + 1
  BY <1>1, <1>2
<1>9. \A i \in 1 .. m - 1 : High(i) = IF i < a THEN i ELSE i + w
  OBVIOUS
<1>10. \A s \in 1 .. m, i \in 1 .. m - 1 : i \in {s - 1, s} =>
         /\ s # a => High(i) \in {Low(s) - 1, Low(s)}
         /\ s = a => High(i) \in {a - 1, b}
  BY <1>1, <1>2
<1> HIDE DEF Low, High
<1>11. \A i \in 1 .. m - 1 : /\ DiffBit(h[i], l[i + 1]) = diffs[High(i)]
                             /\ KeyLess(h[i], l[i + 1])
  <2> TAKE i \in 1 .. m - 1
  <2>1. h[i] = highs[High(i)] /\ l[i + 1] = lows[High(i) + 1]
    BY <1>7, <1>8
  <2> QED
    BY <1>1, <1>8, <2>1
<1>12. DiffsBetween(l, h) = [i \in 1 .. m - 1 |-> DiffBit(h[i], l[i + 1])]
  BY <1>6 DEF DiffsBetween
<1>13. \A i \in 1 .. m - 1 : DiffsBetween(l, h)[i] = diffs[High(i)]
  BY <1>11, <1>12
<1>14. \A s \in 1 .. m : KeyLeq(l[s], h[s])
  <2> TAKE s \in 1 .. m
  <2>1. CASE s = a
    BY <1>3, <1>7, <2>1
  <2>2. CASE s # a
    BY <1>1, <1>7, <2>2
  <2> QED
    BY <2>1, <2>2
<1>15. ASSUME NEW s \in 1 .. m, NEW i \in 1 .. m - 1, i \in {s - 1, s}, l[s] # h[s]
       PROVE  DiffsBetween(l, h)[i] < DiffBit(l[s], h[s])
  <2>1. DiffsBetween(l, h)[i] = diffs[High(i)] /\ High(i) \in 1 .. n - 1
    BY <1>8, <1>13
  <2>2. CASE s = a
    <3>1. l[s] = lows[a] /\ h[s] = highs[b] /\ High(i) \in {a - 1, b}
      BY <1>7, <1>10, <1>15, <2>2
    <3>2. diffs[High(i)] < DiffBit(lows[a], highs[b])
      BY <1>3, <1>15, <2>1, <3>1
    <3> QED
      BY <2>1, <3>1, <3>2
  <2>3. CASE s # a
    <3>1. /\ Low(s) \in 1 .. n /\ l[s] = lows[Low(s)] /\ h[s] = highs[Low(s)]
          /\ High(i) \in {Low(s) - 1, Low(s)}
      BY <1>7, <1>10, <1>15, <2>3
    <3>2. diffs[High(i)] < DiffBit(lows[Low(s)], highs[Low(s)])
      BY <1>1, <1>15, <2>1, <3>1
    <3> QED
      BY <2>1, <3>1, <3>2
  <2> QED
    BY <2>2, <2>3
<1>16. Ends(l, h)
  BY <1>2, <1>6, <1>11, <1>14, <1>15 DEF Ends
<1> QED
  BY <1>6, <1>9, <1>13, <1>16 DEF l, h, diffs, m, w, n

\* The ends of the slots a..b.
LEMMA EndsOfRange ==
    ASSUME NEW lows, NEW highs, Ends(lows, highs),
           NEW a \in 1 .. Len(lows), NEW b \in 1 .. Len(lows), a <= b
    PROVE  /\ Ends(SubSeq(lows, a, b), SubSeq(highs, a, b))
           /\ Len(SubSeq(lows, a, b)) = b - a + 1
           /\ \A j \in 1 .. b - a + 1 : /\ SubSeq(lows, a, b)[j] = lows[j + a - 1]
                                        /\ SubSeq(highs, a, b)[j] = highs[j + a - 1]
BY EndsSub

\* Slots a..b are those of the frame f.
RangeOf(lows, highs, f, a, b) ==
    /\ f \in CartesianFrames(DiffsBetween(lows, highs))
    /\ a = f.lo /\ b = f.lo + f.n - 1

\* The slots of a frame part later than from those beside them, and are as
\* many as the frame says.
LEMMA RangeIs ==
    ASSUME NEW lows, NEW highs, Ends(lows, highs),
           NEW f, NEW a, NEW b, RangeOf(lows, highs, f, a, b)
    PROVE  /\ PartLater(DiffsBetween(lows, highs), a, b)
           /\ a \in 1 .. Len(lows) /\ b \in 1 .. Len(lows) /\ a <= b
           /\ b - a + 1 = f.n /\ Len(lows) - (b - a) = Len(lows) - f.n + 1
           /\ 1 \in 1 .. b - a + 1 /\ f.n \in 1 .. b - a + 1
           /\ 1 + a - 1 = a /\ f.n + a - 1 = b
<1> DEFINE n == Len(lows)
           fl == f.lo
           fn == f.n
<1>1. /\ f \in CartesianFrames(DiffsBetween(lows, highs))
      /\ a = f.lo /\ b = f.lo + f.n - 1
  BY DEF RangeOf
<1>2. /\ PartLater(DiffsBetween(lows, highs), a, b)
      /\ a \in 1 .. Len(lows) /\ b \in 1 .. Len(lows) /\ a <= b
  BY <1>1, FramePartsLater
<1>3. DiffsBetween(lows, highs) \in Seq(Nat) /\ n \in Nat
  BY EndsAre
<1>4. fl \in Nat /\ fn \in Nat \ {0} /\ a = fl /\ b = fl + fn - 1
  BY <1>1, <1>3, CartesianParts
<1> HIDE DEF n, fl, fn
<1>5. b - a + 1 = fn
  BY <1>4
<1>6. b - a = fn - 1 /\ 1 \in 1 .. fn /\ fn \in 1 .. fn
  BY <1>4
<1>7. n - (b - a) = n - fn + 1
  BY <1>3, <1>4, <1>6
<1>8. 1 + a - 1 = a /\ fn + a - 1 = b
  BY <1>4
<1> QED
  BY <1>2, <1>5, <1>6, <1>7, <1>8 DEF n, fn

\* A page over its limit that moves a whole frame into a new child leaves two
\* pages of their kind (SplitAndWriteNodeAt): the child, and the page with the
\* child in the place of the slots it holds.
THEOREM SplitKeepsPages ==
    ASSUME NEW lows, NEW highs, Ends(lows, highs),
           NEW f, NEW a, NEW b, RangeOf(lows, highs, f, a, b),
           NEW below, Len(below.reps) = f.n,
           below.routes = RoutesOf(DiffsBetween(SubSeq(lows, a, b), SubSeq(highs, a, b))),
           NEW above, Len(above.reps) = Len(lows) - f.n + 1,
           above.routes = RoutesOf(DiffsBetween(Collapsed(lows, a, b, lows[a]),
                                                Collapsed(highs, a, b, highs[b])))
    PROVE  /\ KeyPage(below, SubSeq(lows, a, b), SubSeq(highs, a, b))
           /\ KeyPage(above, Collapsed(lows, a, b, lows[a]), Collapsed(highs, a, b, highs[b]))
           /\ SubSeq(lows, a, b)[1] = lows[a] /\ SubSeq(highs, a, b)[f.n] = highs[b]
<1>1. /\ PartLater(DiffsBetween(lows, highs), a, b)
      /\ a \in 1 .. Len(lows) /\ b \in 1 .. Len(lows) /\ a <= b
      /\ b - a + 1 = f.n /\ Len(lows) - (b - a) = Len(lows) - f.n + 1
      /\ 1 \in 1 .. b - a + 1 /\ f.n \in 1 .. b - a + 1
      /\ 1 + a - 1 = a /\ f.n + a - 1 = b
  BY RangeIs
<1>2. /\ Ends(SubSeq(lows, a, b), SubSeq(highs, a, b))
      /\ Len(SubSeq(lows, a, b)) = b - a + 1
      /\ \A j \in 1 .. b - a + 1 : /\ SubSeq(lows, a, b)[j] = lows[j + a - 1]
                                   /\ SubSeq(highs, a, b)[j] = highs[j + a - 1]
  BY <1>1, EndsOfRange
<1>3. /\ Ends(Collapsed(lows, a, b, lows[a]), Collapsed(highs, a, b, highs[b]))
      /\ Len(Collapsed(lows, a, b, lows[a])) = Len(lows) - (b - a)
  BY <1>1, EndsCollapse
<1>4. SubSeq(lows, a, b)[1] = lows[a] /\ SubSeq(highs, a, b)[f.n] = highs[b]
  BY <1>1, <1>2
<1> QED
  BY <1>1, <1>2, <1>3, <1>4 DEF KeyPage

\* Among the frames of least cost there is one with the smallest node.
LEMMA CheapestExists ==
    ASSUME NEW frames, frames # {}, \A f \in frames : f.node \in Nat,
           NEW cost, \A f \in frames : cost[f] \in Nat
    PROVE  \E f \in frames : \A g \in frames :
             cost[f] < cost[g] \/ (cost[f] = cost[g] /\ f.node <= g.node)
<1> DEFINE C == {cost[f] : f \in frames}
<1>1. C \in SUBSET Nat /\ C # {}
  OBVIOUS
<1>2. PICK c \in C : \A x \in C : c <= x
  BY <1>1, Smallest
<1> DEFINE N == {f.node : f \in {f \in frames : cost[f] = c}}
<1>3. N \in SUBSET Nat /\ N # {}
  <2>1. \E f \in frames : cost[f] = c
    OBVIOUS
  <2> QED
    BY <2>1
<1>4. PICK m \in N : \A x \in N : m <= x
  BY <1>3, Smallest
<1>5. PICK f \in frames : cost[f] = c /\ f.node = m
  OBVIOUS
<1>6. ASSUME NEW g \in frames
      PROVE  cost[f] < cost[g] \/ (cost[f] = cost[g] /\ f.node <= g.node)
  <2>1. c <= cost[g] /\ c \in Nat /\ cost[g] \in Nat
    BY <1>1, <1>2
  <2>2. CASE cost[g] = c
    <3>1. g.node \in N
      BY <2>2
    <3>2. m <= g.node
      BY <1>4, <3>1
    <3> QED
      BY <1>5, <2>2, <3>2
  <2>3. CASE cost[g] # c
    <3> DEFINE x == cost[g]
    <3>1. c <= x /\ c \in Nat /\ x \in Nat /\ x # c
      BY <2>1, <2>3
    <3> HIDE DEF x
    <3>2. c < x
      BY <3>1
    <3> QED
      BY <1>5, <3>2 DEF x
  <2> QED
    BY <2>2, <2>3
<1> QED
  BY <1>6

\* A page of four slots or more has a subtree of two slots or more that leaves
\* two others.
LEMMA SplitCandidateExists ==
    ASSUME NEW diffs \in Seq(Nat), Len(diffs) >= 3
    PROVE  SplitCandidates(diffs) # {}
<1> DEFINE all == CartesianFrames(diffs)
           t == CartesianTree(diffs)
           m == Len(diffs)
           Large == {f.n : f \in {f \in all : f.n > m - 1}}
<1>1. /\ m \in Nat /\ m >= 3
      /\ \A f \in all : f.n \in Nat \ {0}
      /\ WholePage(m + 1) \in all
  BY CartesianParts, CartesianBasics
<1>2. Large \in SUBSET Nat /\ Large # {}
  <2>1. WholePage(m + 1).n = m + 1
    BY DEF WholePage
  <2>2. m + 1 > m - 1
    BY <1>1
  <2>3. \E f \in all : f.n > m - 1
    BY <1>1, <2>1, <2>2
  <2> HIDE DEF all, m
  <2> QED
    BY <1>1, <2>3
<1>3. PICK x \in Large : \A y \in Large : x <= y
  BY <1>2, Smallest
<1>4. PICK g \in all : g.n > m - 1 /\ g.n = x
  OBVIOUS
<1> DEFINE gn == g.n
           l == LeftOf(t, g)
           r == RightOf(t, g)
           ln == l.n
           rn == r.n
<1>5. gn \in Nat /\ gn > m - 1 /\ gn = x
  BY <1>1, <1>4
<1>6. IsRoute(g)
  <2>1. gn > 1
    <3> HIDE DEF gn, m
    <3> QED
      BY <1>1, <1>5
  <2> QED
    BY <2>1 DEF IsRoute
<1>7. /\ l \in all /\ r \in all /\ t[g] \in 1 .. gn - 1
      /\ ln = t[g] /\ rn = gn - t[g]
  BY <1>4, <1>6, CartesianParts
<1>8. /\ ln > m - 1 => gn <= ln
      /\ rn > m - 1 => gn <= rn
  <2>1. ln > m - 1 => ln \in Large
    BY <1>7
  <2>2. rn > m - 1 => rn \in Large
    BY <1>7
  <2> HIDE DEF Large, ln, rn
  <2> QED
    BY <1>3, <1>5, <2>1, <2>2
<1>9. ln \in 2 .. m - 1 \/ rn \in 2 .. m - 1
  <2> DEFINE k == t[g]
  <2>1. k \in 1 .. gn - 1 /\ ln = k /\ rn = gn - k
    BY <1>7
  <2> HIDE DEF k, gn, ln, rn, m
  <2> QED
    BY <1>1, <1>5, <1>8, <2>1
<1>10. SplitCandidates(diffs) = {f \in all : f.n \in 2 .. m - 1}
  BY DEF SplitCandidates
<1> HIDE DEF all
<1> QED
  BY <1>7, <1>9, <1>10

\* Cheapest picks one of the frames it is given.
LEMMA CheapestIsOne ==
    ASSUME NEW diffs \in Seq(Nat), NEW S \in SUBSET CartesianFrames(diffs), S # {},
           NEW half \in Nat
    PROVE  /\ Cheapest(S, LAMBDA f : -f.n) \in S
           /\ Cheapest(S, LAMBDA f : IF f.n > half THEN f.n - half ELSE half - f.n) \in S
<1> DEFINE size == Len(diffs) + 1
           Far(f) == IF f.n > half THEN f.n - half ELSE half - f.n
           costL == [f \in S |-> size - f.n]
           costF == [f \in S |-> Far(f)]
<1>1. \A f \in S : f.node \in Nat
  BY CartesianParts
<1>2. \A f \in S : f.n \in 1 .. size
  BY CartesianParts DEF Frame
<1>3. size \in Nat
  OBVIOUS
<1> HIDE DEF size
<1>4. \A f \in S : costL[f] \in Nat /\ costF[f] \in Nat
  <2> TAKE f \in S
  <2> DEFINE n == f.n
  <2>1. n \in 1 .. size /\ n \in Nat
    BY <1>2, <1>3
  <2>2. costL[f] = size - n /\ costF[f] = IF n > half THEN n - half ELSE half - n
    OBVIOUS
  <2> HIDE DEF n, costL, costF
  <2> QED
    BY <1>3, <2>1, <2>2
<1>5. PICK f \in S : \A g \in S :
         costL[f] < costL[g] \/ (costL[f] = costL[g] /\ f.node <= g.node)
  <2> HIDE DEF costL
  <2> QED
    BY <1>1, <1>4, CheapestExists
<1>6. PICK h \in S : \A g \in S :
         costF[h] < costF[g] \/ (costF[h] = costF[g] /\ h.node <= g.node)
  <2> HIDE DEF costF
  <2> QED
    BY <1>1, <1>4, CheapestExists
<1>7. \A g \in S : -f.n < -g.n \/ (-f.n = -g.n /\ f.node <= g.node)
  <2> TAKE g \in S
  <2> DEFINE n == f.n
             m == g.n
  <2>1. n \in Nat /\ m \in Nat
    BY <1>2
  <2>2. size - n < size - m \/ (size - n = size - m /\ f.node <= g.node)
    BY <1>5
  <2>3. /\ size - n < size - m => -n < -m
        /\ size - n = size - m => -n = -m
    <3> HIDE DEF n, m
    <3> QED
      BY <1>3, <2>1
  <2> QED
    BY <2>2, <2>3
<1>8. \A g \in S : Far(h) < Far(g) \/ (Far(h) = Far(g) /\ h.node <= g.node)
  BY <1>6
<1>9. Cheapest(S, LAMBDA e : -e.n) \in S
  BY <1>7 DEF Cheapest
<1>10. Cheapest(S, LAMBDA e : IF e.n > half THEN e.n - half ELSE half - e.n) \in S
  BY <1>8 DEF Cheapest
<1> QED
  BY <1>9, <1>10

\* The range that a page over its limit gives to a child is always a whole
\* subtree that leaves the page two other slots (ChooseSplitRange): the plain
\* middle of the page that the code falls back to is never taken.
THEOREM SplitRangeIsSubtree ==
    ASSUME NEW diffs \in Seq(Nat), Len(diffs) >= 3, NEW edge
    PROVE  ChooseSplitRange(diffs, edge) \in SplitCandidates(diffs)
<1> DEFINE size == Len(diffs) + 1
           half == size \div 2
           all  == SplitCandidates(diffs)
           away == {f \in all : edge \notin SlotsOf(f)}
           preferred == {f \in all : f.n \in (size + 2) \div 3 .. half}
           L(S) == Cheapest(S, LAMBDA f : -f.n)
           F(S) == Cheapest(S, LAMBDA f : IF f.n > half THEN f.n - half ELSE half - f.n)
<1>1. all \in SUBSET CartesianFrames(diffs) /\ all # {}
  BY SplitCandidateExists DEF SplitCandidates
<1>2. half \in Nat
  OBVIOUS
<1>3. ChooseSplitRange(diffs, edge) =
        IF edge \in {1, size} /\ away # {} THEN L(away)
        ELSE IF preferred # {} THEN L(preferred)
        ELSE F(all)
  BY DEF ChooseSplitRange
<1>4. away \in SUBSET all /\ preferred \in SUBSET all
  OBVIOUS
<1> HIDE DEF half, size, all, away, preferred
<1>5. away # {} => L(away) \in away
  BY <1>1, <1>2, <1>4, CheapestIsOne
<1>6. preferred # {} => L(preferred) \in preferred
  BY <1>1, <1>2, <1>4, CheapestIsOne
<1>7. F(all) \in all
  BY <1>1, <1>2, CheapestIsOne
<1> HIDE DEF L, F
<1> QED
  BY <1>3, <1>4, <1>5, <1>6, <1>7 DEF all

\* With such a range moved to a child both pages are within the limit that the
\* page was one over, which SplitAndWriteNodeAt asks of the page and of the
\* child.
COROLLARY SplitMakesRoom ==
    ASSUME NEW diffs \in Seq(Nat), Len(diffs) >= 3, NEW edge,
           NEW f, f = ChooseSplitRange(diffs, edge)
    PROVE  /\ f \in CartesianFrames(diffs)
           /\ f.n >= 2 /\ f.n <= Len(diffs) - 1
           /\ Len(diffs) + 1 - f.n + 1 <= Len(diffs)
<1> DEFINE n == f.n
           m == Len(diffs)
<1>1. f \in CartesianFrames(diffs) /\ n \in 2 .. m - 1
  BY SplitRangeIsSubtree DEF SplitCandidates
<1>2. m \in Nat
  OBVIOUS
<1>3. n >= 2 /\ n <= m - 1 /\ m + 1 - n + 1 <= m
  <2> HIDE DEF n, m
  <2> QED
    BY <1>1, <1>2
<1> QED
  BY <1>1, <1>3

-----------------------------------------------------------------------------
(* A child gives way to what it holds *)

\* u is s, of length n, with t, of length m, put in before its element i.
SplicedInto(u, s, i, t, n, m, S) ==
    /\ \A j \in 1 .. n + m :
         u[j] = IF j < i THEN s[j] ELSE IF j < i + m THEN t[j - i + 1] ELSE s[j - m]
    /\ u \in Seq(S) /\ Len(u) = n + m

\* The elements of Spliced.
LEMMA SplicedIs ==
    ASSUME NEW S, NEW s \in Seq(S), NEW n, Len(s) = n, NEW t \in Seq(S), NEW m, Len(t) = m,
           NEW i \in 1 .. n + 1
    PROVE  SplicedInto(Spliced(s, i, t), s, i, t, n, m, S)
<1> DEFINE x == SubSeq(s, 1, i - 1)
           y == SubSeq(s, i, n)
           u == Spliced(s, i, t)
           z == x \o t
<1>1. n \in Nat /\ m \in Nat /\ i \in Nat /\ i >= 1 /\ i <= n + 1
  OBVIOUS
<1>2. x \in Seq(S) /\ Len(x) = i - 1 /\ \A j \in 1 .. i - 1 : x[j] = s[j]
  BY <1>1
<1>3. y \in Seq(S) /\ Len(y) = n + 1 - i
  BY <1>1
<1>4. \A j \in 1 .. n + 1 - i : y[j] = s[j + i - 1]
  <2> TAKE j \in 1 .. n + 1 - i
  <2>1. y = [k \in 1 .. n - i + 1 |-> s[i + k - 1]]
    BY DEF SubSeq
  <2>2. n - i + 1 = n + 1 - i /\ i + j - 1 = j + i - 1
    BY <1>1
  <2> QED
    BY <2>1, <2>2
<1>5. u = z \o y
  BY DEF Spliced
<1> HIDE DEF x, y, u
<1>6. z \in Seq(S) /\ Len(z) = Len(x) + Len(t)
      /\ \A j \in 1 .. Len(x) + Len(t) : z[j] = IF j <= Len(x) THEN x[j] ELSE t[j - Len(x)]
  BY <1>2, ConcatProperties
<1> HIDE DEF z
<1>10. z \in Seq(S) /\ y \in Seq(S) /\ u = z \o y
  BY <1>3, <1>5, <1>6
<1>7. u \in Seq(S) /\ Len(u) = Len(z) + Len(y)
      /\ \A j \in 1 .. Len(z) + Len(y) : u[j] = IF j <= Len(z) THEN z[j] ELSE y[j - Len(z)]
  BY <1>10, ConcatProperties
<1>8. /\ Len(z) = i - 1 + m /\ Len(z) + Len(y) = n + m
      /\ Len(x) + Len(t) = i - 1 + m
  BY <1>1, <1>2, <1>3, <1>6
<1>9. ASSUME NEW j \in 1 .. n + m
      PROVE  u[j] = IF j < i THEN s[j] ELSE IF j < i + m THEN t[j - i + 1] ELSE s[j - m]
  <2>1. j \in Nat /\ j >= 1 /\ u[j] = IF j <= i - 1 + m THEN z[j] ELSE y[j - (i - 1 + m)]
    BY <1>1, <1>7, <1>8
  <2>2. j <= i - 1 + m => z[j] = IF j <= i - 1 THEN x[j] ELSE t[j - (i - 1)]
    <3>1. j <= i - 1 + m => j \in 1 .. i - 1 + m
      BY <1>1, <2>1
    <3> QED
      BY <1>2, <1>6, <1>8, <3>1
  <2>3. CASE j < i
    <3>1. j <= i - 1 + m /\ j <= i - 1 /\ j \in 1 .. i - 1
      BY <1>1, <2>1, <2>3
    <3> QED
      BY <1>2, <2>1, <2>2, <2>3, <3>1
  <2>4. CASE ~ (j < i) /\ j < i + m
    <3>1. j <= i - 1 + m /\ ~ (j <= i - 1) /\ j - (i - 1) = j - i + 1
      BY <1>1, <2>1, <2>4
    <3> QED
      BY <2>1, <2>2, <2>4, <3>1
  <2>5. CASE ~ (j < i) /\ ~ (j < i + m)
    <3>1. /\ ~ (j <= i - 1 + m) /\ j - (i - 1 + m) \in 1 .. n + 1 - i
          /\ (j - (i - 1 + m)) + i - 1 = j - m
      BY <1>1, <2>1, <2>5
    <3> QED
      BY <1>4, <2>1, <2>5, <3>1
  <2> QED
    BY <2>3, <2>4, <2>5
<1> QED
  BY <1>7, <1>8, <1>9 DEF SplicedInto, u

\* The page below slot c: its keys are those of the slot.
PageOfSlot(pl, ph, c, il, ih) ==
    /\ Ends(pl, ph) /\ c \in 1 .. Len(pl)
    /\ Ends(il, ih) /\ il[1] = pl[c] /\ ih[Len(ih)] = ph[c]

\* The slots of the page below part later than slot c from those beside it.
LEMMA BelowPartsLater ==
    ASSUME NEW pl, NEW ph, NEW c, NEW il, NEW ih, PageOfSlot(pl, ph, c, il, ih),
           NEW r \in 1 .. Len(il), il[r] # ih[r],
           NEW i \in 1 .. Len(pl) - 1, i \in {c - 1, c}
    PROVE  DiffsBetween(pl, ph)[i] < DiffBit(il[r], ih[r])
<1> DEFINE e == DiffsBetween(pl, ph)[i]
           m == Len(il)
<1>1. /\ Ends(pl, ph) /\ c \in 1 .. Len(pl) /\ Ends(il, ih)
      /\ il[1] = pl[c] /\ ih[Len(ih)] = ph[c]
  BY DEF PageOfSlot
<1>2. /\ m \in Nat /\ m > 0 /\ Len(ih) = m /\ 1 \in 1 .. m /\ m \in 1 .. m
      /\ \A s \in 1 .. m : il[s] \in AnyKey /\ ih[s] \in AnyKey /\ KeyLeq(il[s], ih[s])
  BY <1>1, EndsAre
<1>3. r \in 1 .. m /\ r \in Nat
  BY <1>2
<1>4. KeyLeq(il[1], il[r])
  <2>1. CASE r = 1
    BY <2>1 DEF KeyLeq
  <2>2. CASE r # 1
    <3>1. 1 < r
      BY <1>2, <1>3, <2>2
    <3>2. KeyLess(ih[1], il[r])
      BY <1>1, <1>2, <3>1, SlotsInOrder
    <3>3. KeyLeq(ih[1], il[r]) /\ KeyLeq(il[1], ih[1])
      BY <1>2, <3>2 DEF KeyLeq
    <3> QED
      BY <1>2, <3>3, LeqTransitive
  <2> QED
    BY <2>1, <2>2
<1>5. KeyLeq(ih[r], ih[m])
  <2>1. CASE r = m
    BY <2>1 DEF KeyLeq
  <2>2. CASE r # m
    <3>1. r < m
      BY <1>2, <1>3, <2>2
    <3>2. KeyLess(ih[r], il[m])
      BY <1>1, <1>2, <3>1, SlotsInOrder
    <3>3. KeyLeq(ih[r], il[m]) /\ KeyLeq(il[m], ih[m])
      BY <1>2, <3>2 DEF KeyLeq
    <3> QED
      BY <1>2, <3>3, LeqTransitive
  <2> QED
    BY <2>1, <2>2
<1>6. il[r] \in AnyKey /\ ih[r] \in AnyKey /\ KeyLeq(il[r], ih[r])
  BY <1>2
<1>7. KeyLeq(il[r], ih[m]) /\ KeyLeq(il[1], ih[r])
  <2>1. il[1] \in AnyKey /\ ih[m] \in AnyKey
    BY <1>2
  <2> QED
    BY <1>4, <1>5, <1>6, <2>1, LeqTransitive
<1>8. InSlot(pl, ph, c, il[r]) /\ InSlot(pl, ph, c, ih[r])
  BY <1>1, <1>2, <1>4, <1>5, <1>6, <1>7 DEF InSlot
<1>9. /\ Alike(pl[c], il[r], e + 1) /\ Alike(pl[c], ih[r], e + 1)
      /\ e \in Nat
  BY <1>1, <1>8, InSlotAlike, EndsAre
<1>10. e + 1 \in Nat
  BY <1>9
<1> HIDE DEF e
<1>11. Alike(il[r], ih[r], e + 1)
  <2>1. Alike(il[r], pl[c], e + 1)
    BY <1>9, <1>10, AlikeIs
  <2> QED
    BY <1>9, <1>10, <2>1, AlikeIs
<1> QED
  BY <1>6, <1>9, <1>11, DifferLater DEF e

\* t is s with u in the place of its element c.
Opened(t, s, c, u) ==
    \A j \in 1 .. Len(t) : t[j] = IF j < c THEN s[j]
                                  ELSE IF j < c + Len(u) THEN u[j - c + 1]
                                  ELSE s[j - Len(u) + 1]

\* A slot may give way to the slots of the page below it: the diffs of both
\* pages stay.
LEMMA EndsExpand ==
    ASSUME NEW pl, NEW ph, NEW c, NEW il, NEW ih, PageOfSlot(pl, ph, c, il, ih)
    PROVE  LET l == Spliced(RemoveAt(pl, c), c, il)
               h == Spliced(RemoveAt(ph, c), c, ih)
           IN  /\ Ends(l, h) /\ Len(l) = Len(pl) - 1 + Len(il)
               /\ DiffsBetween(l, h) = Spliced(DiffsBetween(pl, ph), c, DiffsBetween(il, ih))
               /\ Opened(l, pl, c, il) /\ Opened(h, ph, c, ih)
<1> DEFINE n == Len(pl)
           m == Len(il)
           w == m - 1
           size == n + w
           pd == DiffsBetween(pl, ph)
           id == DiffsBetween(il, ih)
           l == Spliced(RemoveAt(pl, c), c, il)
           h == Spliced(RemoveAt(ph, c), c, ih)
           d == Spliced(pd, c, id)
           OutI(i) == i < c \/ i >= c + w
           InI(i) == c <= i /\ i < c + w
           OutS(s) == s < c \/ s >= c + m
           InS(s) == c <= s /\ s < c + m
           Up(i) == IF i < c THEN i ELSE i - w
           Down(i) == i - c + 1
<1>1. /\ Ends(pl, ph) /\ c \in 1 .. n /\ Ends(il, ih) /\ il[1] = pl[c] /\ ih[m] = ph[c]
      /\ n \in Nat /\ n > 0 /\ m \in Nat /\ m > 0 /\ Len(ph) = n /\ Len(ih) = m
      /\ pl \in Seq(AnyKey) /\ ph \in Seq(AnyKey) /\ il \in Seq(AnyKey) /\ ih \in Seq(AnyKey)
      /\ pd \in Seq(Nat) /\ id \in Seq(Nat) /\ Len(pd) = n - 1 /\ Len(id) = m - 1
  <2>1. Ends(pl, ph) /\ c \in 1 .. n /\ Ends(il, ih) /\ il[1] = pl[c] /\ ih[Len(ih)] = ph[c]
    BY DEF PageOfSlot
  <2> QED
    BY <2>1, EndsAre DEF Ends
<1>2. /\ \A s \in 1 .. n : KeyLeq(pl[s], ph[s])
      /\ \A i \in 1 .. n - 1 : pd[i] = DiffBit(ph[i], pl[i + 1]) /\ KeyLess(ph[i], pl[i + 1])
      /\ \A s \in 1 .. n, i \in 1 .. n - 1 : i \in {s - 1, s} /\ pl[s] # ph[s] =>
            pd[i] < DiffBit(pl[s], ph[s])
  BY <1>1, EndsAre DEF Ends
<1>3. /\ \A s \in 1 .. m : KeyLeq(il[s], ih[s])
      /\ \A i \in 1 .. m - 1 : id[i] = DiffBit(ih[i], il[i + 1]) /\ KeyLess(ih[i], il[i + 1])
      /\ \A s \in 1 .. m, i \in 1 .. m - 1 : i \in {s - 1, s} /\ il[s] # ih[s] =>
            id[i] < DiffBit(il[s], ih[s])
  BY <1>1, EndsAre DEF Ends
<1>4. \A r \in 1 .. m, i \in 1 .. n - 1 : il[r] # ih[r] /\ i \in {c - 1, c} =>
         pd[i] < DiffBit(il[r], ih[r])
  BY BelowPartsLater
<1>5. Removed(RemoveAt(pl, c), pl, c, n, AnyKey) /\ Removed(RemoveAt(ph, c), ph, c, n, AnyKey)
  BY <1>1, RemoveAtSame
<1>6. /\ SplicedInto(l, RemoveAt(pl, c), c, il, n - 1, m, AnyKey)
      /\ SplicedInto(h, RemoveAt(ph, c), c, ih, n - 1, m, AnyKey)
  <2>1. /\ RemoveAt(pl, c) \in Seq(AnyKey) /\ Len(RemoveAt(pl, c)) = n - 1
        /\ RemoveAt(ph, c) \in Seq(AnyKey) /\ Len(RemoveAt(ph, c)) = n - 1
    BY <1>5 DEF Removed
  <2>2. c \in 1 .. (n - 1) + 1
    BY <1>1
  <2>3. Len(il) = m /\ Len(ih) = m /\ il \in Seq(AnyKey) /\ ih \in Seq(AnyKey)
    BY <1>1
  <2> DEFINE x == RemoveAt(pl, c)
             y == RemoveAt(ph, c)
             k == n - 1
  <2>4. x \in Seq(AnyKey) /\ Len(x) = k /\ y \in Seq(AnyKey) /\ Len(y) = k /\ c \in 1 .. k + 1
    BY <2>1, <2>2
  <2> HIDE DEF x, y, k, m
  <2>5. SplicedInto(Spliced(x, c, il), x, c, il, k, m, AnyKey)
    BY <2>3, <2>4, SplicedIs
  <2>6. SplicedInto(Spliced(y, c, ih), y, c, ih, k, m, AnyKey)
    BY <2>3, <2>4, SplicedIs
  <2> QED
    BY <2>5, <2>6 DEF x, y, k
<1>7. SplicedInto(d, pd, c, id, n - 1, m - 1, Nat)
  <2>1. c \in 1 .. (n - 1) + 1
    BY <1>1
  <2> QED
    BY <1>1, <2>1, SplicedIs
<1> HIDE DEF n, m, pd, id, l, h, d
<1>8. /\ n \in Nat /\ m \in Nat /\ c \in Nat /\ c >= 1 /\ c <= n /\ w \in Nat /\ m = w + 1 /\ size \in Nat /\ size > 0
      /\ (n - 1) + m = size
      /\ n - 1 + (m - 1) = size - 1
  BY <1>1
<1>9. /\ l \in Seq(AnyKey) /\ h \in Seq(AnyKey) /\ Len(l) = size /\ Len(h) = size
      /\ d \in Seq(Nat) /\ Len(d) = size - 1
  BY <1>6, <1>7, <1>8 DEF SplicedInto
<1>10. \A j \in 1 .. size :
         /\ j < c => l[j] = pl[j] /\ h[j] = ph[j]
         /\ InS(j) => l[j] = il[Down(j)] /\ h[j] = ih[Down(j)]
         /\ j >= c + m => l[j] = pl[j - w] /\ h[j] = ph[j - w]
  <2> TAKE j \in 1 .. size
  <2>1. /\ l[j] = IF j < c THEN RemoveAt(pl, c)[j]
                  ELSE IF j < c + m THEN il[j - c + 1] ELSE RemoveAt(pl, c)[j - m]
        /\ h[j] = IF j < c THEN RemoveAt(ph, c)[j]
                  ELSE IF j < c + m THEN ih[j - c + 1] ELSE RemoveAt(ph, c)[j - m]
    BY <1>6, <1>8 DEF SplicedInto
  <2>2. \A i \in 1 .. n - 1 : /\ RemoveAt(pl, c)[i] = IF i < c THEN pl[i] ELSE pl[i + 1]
                              /\ RemoveAt(ph, c)[i] = IF i < c THEN ph[i] ELSE ph[i + 1]
    BY <1>5 DEF Removed
  <2>3. CASE j < c
    <3>1. j \in 1 .. n - 1
      BY <1>1, <1>8, <2>3
    <3>2. ~ InS(j) /\ ~ (j >= c + m)
      BY <1>1, <1>8, <2>3
    <3> QED
      BY <2>1, <2>2, <2>3, <3>1, <3>2
  <2>4. CASE InS(j)
    <3>1. ~ (j < c) /\ j < c + m /\ ~ (j >= c + m)
      BY <1>1, <1>8, <2>4
    <3> QED
      BY <2>1, <2>4, <3>1
  <2>5. CASE j >= c + m
    <3>1. /\ ~ (j < c) /\ ~ (j < c + m) /\ ~ InS(j)
          /\ j - m \in 1 .. n - 1 /\ ~ (j - m < c) /\ j - m + 1 = j - w
      BY <1>1, <1>8, <2>5
    <3> QED
      BY <2>1, <2>2, <2>5, <3>1
  <2>6. j < c \/ InS(j) \/ j >= c + m
    BY <1>1, <1>8
  <2> QED
    BY <2>3, <2>4, <2>5, <2>6
<1>11. \A i \in 1 .. size - 1 :
         /\ OutI(i) => d[i] = pd[Up(i)] /\ Up(i) \in 1 .. n - 1
         /\ InI(i) => d[i] = id[Down(i)] /\ Down(i) \in 1 .. m - 1
         /\ OutI(i) \/ InI(i)
  <2> TAKE i \in 1 .. size - 1
  <2>1. d[i] = IF i < c THEN pd[i] ELSE IF i < c + (m - 1) THEN id[i - c + 1] ELSE pd[i - (m - 1)]
    BY <1>7, <1>8 DEF SplicedInto
  <2>2. m - 1 = w /\ i \in Nat /\ i >= 1 /\ i <= size - 1
    BY <1>1, <1>8
  <2>3. /\ OutI(i) => Up(i) \in 1 .. n - 1
        /\ InI(i) => Down(i) \in 1 .. m - 1
        /\ OutI(i) \/ InI(i)
        /\ InI(i) => ~ (i < c) /\ i < c + w
        /\ OutI(i) => i < c \/ (~ (i < c) /\ ~ (i < c + w))
    BY <1>1, <1>8, <2>2
  <2>4. OutI(i) => d[i] = pd[Up(i)]
    <3>1. Up(i) = IF i < c THEN i ELSE i - w
      OBVIOUS
    <3> HIDE DEF OutI, Up, w
    <3> QED
      BY <2>1, <2>2, <2>3, <3>1
  <2>5. InI(i) => d[i] = id[Down(i)]
    <3>1. Down(i) = i - c + 1
      OBVIOUS
    <3> HIDE DEF InI, Down, w
    <3> QED
      BY <2>1, <2>2, <2>3, <3>1
  <2> QED
    BY <2>3, <2>4, <2>5
\* Neighbours.
<1>12. \A i \in 1 .. size - 1 :
         /\ OutI(i) => h[i] = ph[Up(i)] /\ l[i + 1] = pl[Up(i) + 1]
         /\ InI(i) => h[i] = ih[Down(i)] /\ l[i + 1] = il[Down(i) + 1]
  <2> TAKE i \in 1 .. size - 1
  <2>1. i \in 1 .. size /\ i + 1 \in 1 .. size /\ i \in Nat
    BY <1>8
  <2>2. CASE i + 1 < c
    <3>1. i < c /\ Up(i) = i /\ ~ InI(i)
      BY <1>8, <2>1, <2>2
    <3> QED
      BY <1>10, <2>1, <2>2, <3>1
  <2>3. CASE i + 1 = c
    <3>1. i < c /\ Up(i) = i /\ ~ InI(i) /\ InS(i + 1) /\ Down(i + 1) = 1
      BY <1>8, <2>1, <2>3
    <3>2. h[i] = ph[i] /\ l[i + 1] = il[1]
      BY <1>10, <2>1, <3>1
    <3> QED
      BY <1>1, <2>3, <3>1, <3>2
  <2>4. CASE InI(i)
    <3>1. ~ OutI(i) /\ InS(i) /\ InS(i + 1) /\ Down(i + 1) = Down(i) + 1
      BY <1>8, <2>1, <2>4
    <3> QED
      BY <1>10, <2>1, <2>4, <3>1
  <2>5. CASE i = c + w
    <3>1. /\ ~ InI(i) /\ Up(i) = c /\ InS(i) /\ Down(i) = m /\ i + 1 >= c + m
          /\ (i + 1) - w = c + 1
      BY <1>8, <2>1, <2>5
    <3>2. h[i] = ih[m] /\ l[i + 1] = pl[c + 1]
      BY <1>10, <2>1, <3>1
    <3> QED
      BY <1>1, <3>1, <3>2
  <2>6. CASE i > c + w
    <3>1. /\ ~ InI(i) /\ Up(i) = i - w /\ i >= c + m /\ i + 1 >= c + m
          /\ (i + 1) - w = Up(i) + 1
      BY <1>8, <2>1, <2>6
    <3>2. h[i] = ph[i - w] /\ l[i + 1] = pl[(i + 1) - w]
      BY <1>10, <2>1, <3>1
    <3> QED
      BY <3>1, <3>2
  <2>7. i + 1 < c \/ i + 1 = c \/ InI(i) \/ i = c + w \/ i > c + w
    BY <1>8, <2>1
  <2> QED
    BY <2>2, <2>3, <2>4, <2>5, <2>6, <2>7
<1>13. \A i \in 1 .. size - 1 : DiffBit(h[i], l[i + 1]) = d[i] /\ KeyLess(h[i], l[i + 1])
  <2> TAKE i \in 1 .. size - 1
  <2> HIDE DEF OutI, InI, Up, Down, w, size
  <2>1. CASE OutI(i)
    BY <1>2, <1>11, <1>12, <2>1
  <2>2. CASE InI(i)
    BY <1>3, <1>11, <1>12, <2>2
  <2> QED
    BY <1>11, <2>1, <2>2
<1>14. DiffsBetween(l, h) = d
  <2>1. DiffsBetween(l, h) = [i \in 1 .. size - 1 |-> DiffBit(h[i], l[i + 1])]
    BY <1>9 DEF DiffsBetween
  <2>2. d = [i \in 1 .. size - 1 |-> d[i]]
    BY <1>9
  <2> HIDE DEF size
  <2> QED
    BY <1>13, <2>1, <2>2
\* Each slot.
<1>15. \A s \in 1 .. size :
         /\ OutS(s) \/ InS(s)
         /\ OutS(s) => /\ Up(s) \in 1 .. n /\ l[s] = pl[Up(s)] /\ h[s] = ph[Up(s)]
                       /\ \A i \in 1 .. size - 1 : i \in {s - 1, s} =>
                            OutI(i) /\ Up(i) \in {Up(s) - 1, Up(s)}
         /\ InS(s) => /\ Down(s) \in 1 .. m /\ l[s] = il[Down(s)] /\ h[s] = ih[Down(s)]
                      /\ \A i \in 1 .. size - 1 : i \in {s - 1, s} =>
                           \/ OutI(i) /\ Up(i) \in {c - 1, c}
                           \/ InI(i) /\ Down(i) \in {Down(s) - 1, Down(s)}
  <2> TAKE s \in 1 .. size
  <2>1. s \in Nat /\ s >= 1 /\ s <= size /\ (OutS(s) \/ InS(s))
    BY <1>8
  <2>2. CASE s < c
    <3>1. Up(s) = s /\ Up(s) \in 1 .. n /\ ~ InS(s)
      BY <1>8, <2>1, <2>2
    <3>2. ASSUME NEW i \in 1 .. size - 1, i \in {s - 1, s}
          PROVE  OutI(i) /\ Up(i) = i
      BY <1>8, <2>1, <2>2, <3>2
    <3> QED
      BY <1>10, <2>1, <2>2, <3>1, <3>2
  <2>3. CASE s >= c + m
    <3>1. Up(s) = s - w /\ Up(s) \in 1 .. n /\ ~ InS(s)
      BY <1>8, <2>1, <2>3
    <3>2. ASSUME NEW i \in 1 .. size - 1, i \in {s - 1, s}
          PROVE  OutI(i) /\ Up(i) \in {s - w - 1, s - w}
      <4>1. i >= c + w /\ OutI(i) /\ Up(i) = i - w
        BY <1>8, <2>1, <2>3, <3>2
      <4>2. i - w \in {s - w - 1, s - w}
        BY <1>8, <2>1, <3>2
      <4> QED
        BY <4>1, <4>2
    <3> QED
      BY <1>10, <2>1, <2>3, <3>1, <3>2
  <2>4. CASE InS(s)
    <3>1. ~ OutS(s) /\ Down(s) \in 1 .. m
      BY <1>8, <2>1, <2>4
    <3>2. ASSUME NEW i \in 1 .. size - 1, i \in {s - 1, s}
          PROVE  \/ OutI(i) /\ Up(i) \in {c - 1, c}
                 \/ InI(i) /\ Down(i) \in {Down(s) - 1, Down(s)}
      BY <1>8, <2>1, <2>4, <3>2
    <3> QED
      BY <1>10, <2>1, <2>4, <3>1, <3>2
  <2> QED
    BY <2>1, <2>2, <2>3, <2>4
<1> HIDE DEF OutS, InS, OutI, InI, Up, Down
<1>16. \A s \in 1 .. size : KeyLeq(l[s], h[s])
  <2> TAKE s \in 1 .. size
  <2>1. CASE OutS(s)
    BY <1>2, <1>15, <2>1
  <2>2. CASE InS(s)
    BY <1>3, <1>15, <2>2
  <2> QED
    BY <1>15, <2>1, <2>2
<1>17. ASSUME NEW s \in 1 .. size, NEW i \in 1 .. size - 1, i \in {s - 1, s}, l[s] # h[s]
       PROVE  d[i] < DiffBit(l[s], h[s])
  <2>1. CASE OutS(s)
    <3>1. /\ Up(s) \in 1 .. n /\ l[s] = pl[Up(s)] /\ h[s] = ph[Up(s)]
          /\ OutI(i) /\ Up(i) \in {Up(s) - 1, Up(s)}
      BY <1>15, <1>17, <2>1
    <3>2. d[i] = pd[Up(i)] /\ Up(i) \in 1 .. n - 1
      BY <1>11, <3>1
    <3> QED
      BY <1>2, <1>17, <3>1, <3>2
  <2>2. CASE InS(s)
    <3>1. Down(s) \in 1 .. m /\ l[s] = il[Down(s)] /\ h[s] = ih[Down(s)]
      BY <1>15, <2>2
    <3>2. CASE OutI(i) /\ Up(i) \in {c - 1, c}
      <4>1. d[i] = pd[Up(i)] /\ Up(i) \in 1 .. n - 1
        BY <1>11, <3>2
      <4> QED
        BY <1>4, <1>17, <3>1, <3>2, <4>1
    <3>3. CASE InI(i) /\ Down(i) \in {Down(s) - 1, Down(s)}
      <4>1. d[i] = id[Down(i)] /\ Down(i) \in 1 .. m - 1
        BY <1>11, <3>3
      <4> QED
        BY <1>3, <1>17, <3>1, <3>3, <4>1
    <3> QED
      BY <1>15, <1>17, <2>2, <3>2, <3>3
  <2> QED
    BY <1>15, <2>1, <2>2
<1>18. Ends(l, h)
  <2> HIDE DEF size
  <2>1. \A i \in 1 .. size - 1 : KeyLess(h[i], l[i + 1])
    BY <1>13
  <2> QED
    BY <1>8, <1>9, <1>14, <1>16, <1>17, <2>1 DEF Ends
<1>19. ASSUME NEW j \in 1 .. size
       PROVE  /\ l[j] = IF j < c THEN pl[j] ELSE IF j < c + m THEN il[j - c + 1] ELSE pl[j - m + 1]
              /\ h[j] = IF j < c THEN ph[j] ELSE IF j < c + m THEN ih[j - c + 1] ELSE ph[j - m + 1]
  <2>1. j - w = j - m + 1 /\ (j < c \/ (~ (j < c) /\ InS(j) /\ j < c + m) \/ (~ (j < c) /\ ~ (j < c + m) /\ j >= c + m))
    BY <1>1, <1>8 DEF InS
  <2>2. Down(j) = j - c + 1
    BY DEF Down
  <2> HIDE DEF w, size
  <2> QED
    BY <1>10, <2>1, <2>2
<1>20. n - 1 + m = size
  BY <1>8
<1>21. Opened(l, pl, c, il) /\ Opened(h, ph, c, ih)
  BY <1>1, <1>9, <1>19 DEF Opened, n, m
<1> QED
  BY <1>9, <1>14, <1>18, <1>20, <1>21 DEF l, h, d, pd, id, n, m

\* A child may be replaced by what it holds (MergeChildIntoParent): the page
\* with the slots of the child in its place, and the diffs of both, is one of
\* its kind.
THEOREM ChildMergeKeepsPage ==
    ASSUME NEW page, NEW pl, NEW ph, KeyPage(page, pl, ph), NEW c \in 1 .. Len(pl),
           NEW inner, NEW il, NEW ih, KeyPage(inner, il, ih),
           il[1] = pl[c], ih[Len(ih)] = ph[c],
           NEW new, Len(new.reps) = Len(page.reps) - 1 + Len(inner.reps),
           new.routes = RoutesOf(Spliced(RouteDiffs(page), c, RouteDiffs(inner)))
    PROVE  KeyPage(new, Spliced(RemoveAt(pl, c), c, il), Spliced(RemoveAt(ph, c), c, ih))
<1> DEFINE l == Spliced(RemoveAt(pl, c), c, il)
           h == Spliced(RemoveAt(ph, c), c, ih)
<1>1. /\ Ends(pl, ph) /\ Ends(il, ih)
      /\ Len(page.reps) = Len(pl) /\ Len(inner.reps) = Len(il)
  BY DEF KeyPage
<1>2. PageOfSlot(pl, ph, c, il, ih)
  BY <1>1 DEF PageOfSlot
<1>3. /\ Ends(l, h) /\ Len(l) = Len(pl) - 1 + Len(il)
      /\ DiffsBetween(l, h) = Spliced(DiffsBetween(pl, ph), c, DiffsBetween(il, ih))
  BY <1>2, EndsExpand
<1>4. RouteDiffs(page) = DiffsBetween(pl, ph) /\ RouteDiffs(inner) = DiffsBetween(il, ih)
  BY KeyPageIs, RouteDiffsAreDiffs
<1> HIDE DEF l, h
<1>5. KeyPage(new, l, h)
  BY <1>1, <1>3, <1>4 DEF KeyPage
<1> QED
  BY <1>5 DEF l, h

\* The halves of a page that parts at the root of its tree, as two slots.
LEMMA HalvesAre ==
    ASSUME NEW lows, NEW highs, Ends(lows, highs), Len(lows) > 1,
           NEW split, split = CartesianRoot(DiffsBetween(lows, highs))
    PROVE  LET n == Len(lows)
               il == <<lows[1], lows[split + 1]>>
               ih == <<highs[split], highs[n]>>
           IN  /\ split \in 1 .. n - 1 /\ n \in Nat
               /\ Ends(il, ih)
               /\ DiffsBetween(il, ih) = <<DiffsBetween(lows, highs)[split]>>
<1> DEFINE n == Len(lows)
           diffs == DiffsBetween(lows, highs)
           t == CartesianTree(diffs)
           whole == WholePage(Len(diffs) + 1)
           l == LeftOf(t, whole)
           r == RightOf(t, whole)
           x == lows[1]
           y == lows[split + 1]
           u == highs[split]
           v == highs[n]
           il == <<x, y>>
           ih == <<u, v>>
           d == diffs[split]
<1>1. /\ diffs \in Seq(Nat) /\ Len(diffs) + 1 = n /\ n \in Nat /\ n > 1 /\ Len(diffs) = n - 1
      /\ \A s \in 1 .. n : lows[s] \in AnyKey /\ highs[s] \in AnyKey
      /\ \A i \in 1 .. n - 1 : /\ diffs[i] = DiffBit(highs[i], lows[i + 1])
                               /\ KeyLess(highs[i], lows[i + 1])
  BY EndsAre
<1>2. /\ whole \in CartesianFrames(diffs) /\ whole.lo = 1 /\ whole.n = n /\ IsRoute(whole)
      /\ split = t[whole]
  BY <1>1, CartesianBasics DEF WholePage, IsRoute, CartesianRoot
<1> HIDE DEF whole
<1>3. /\ l \in CartesianFrames(diffs) /\ r \in CartesianFrames(diffs)
      /\ split \in 1 .. n - 1 /\ l.lo = 1 /\ l.n = split
      /\ r.lo = 1 + split /\ r.n = n - split
  BY <1>1, <1>2, CartesianParts
<1>4. /\ l.lo + l.n - 1 = split /\ r.lo + r.n - 1 = n /\ r.lo = split + 1
      /\ 1 \in 1 .. n /\ split \in 1 .. n /\ split + 1 \in 1 .. n /\ n \in 1 .. n
      /\ 1 <= split /\ split + 1 <= n /\ split \in Nat
  BY <1>1, <1>3
<1> HIDE DEF l, r
<1>5. PartLater(diffs, 1, split)
  BY <1>3, <1>4, FramePartsLater
<1>6. PartLater(diffs, split + 1, n)
  BY <1>3, <1>4, FramePartsLater
<1>7. KeyLeq(x, u) /\ (x # u => d < DiffBit(x, u))
  <2>1. split \in {1 - 1, split}
    OBVIOUS
  <2> QED
    BY <1>3, <1>4, <1>5, <2>1, RangeIsSlot
<1>8. KeyLeq(y, v) /\ (y # v => d < DiffBit(y, v))
  <2>1. split \in {(split + 1) - 1, n}
    BY <1>4
  <2> QED
    BY <1>3, <1>4, <1>6, <2>1, RangeIsSlot
<1>9. /\ x \in AnyKey /\ y \in AnyKey /\ u \in AnyKey /\ v \in AnyKey
      /\ d = DiffBit(u, y) /\ KeyLess(u, y)
  BY <1>1, <1>3, <1>4
<1> HIDE DEF x, y, u, v, d
<1>10. il \in Seq(AnyKey) /\ ih \in Seq(AnyKey) /\ Len(il) = 2 /\ Len(ih) = 2
       /\ il[1] = x /\ il[2] = y /\ ih[1] = u /\ ih[2] = v
  BY <1>9
<1>11. DiffsBetween(il, ih) = <<d>>
  <2>1. DiffsBetween(il, ih) = [i \in 1 .. 2 - 1 |-> DiffBit(ih[i], il[i + 1])]
    BY <1>10 DEF DiffsBetween
  <2>2. \A i \in 1 .. 2 - 1 : i = 1
    OBVIOUS
  <2>3. DiffsBetween(il, ih) = [i \in 1 .. 1 |-> d]
    BY <1>9, <1>10, <2>1, <2>2
  <2> QED
    BY <2>3
<1>12. DiffsBetween(il, ih)[1] = d
  BY <1>11
<1> HIDE DEF il, ih
<1>13. Ends(il, ih)
  <2>1. \A s \in 1 .. 2 : s = 1 \/ s = 2
    OBVIOUS
  <2>2. \A i \in 1 .. 2 - 1 : i = 1 /\ i + 1 = 2
    OBVIOUS
  <2>3. \A s \in 1 .. 2 : KeyLeq(il[s], ih[s])
    BY <1>7, <1>8, <1>10, <2>1
  <2>4. \A i \in 1 .. 2 - 1 : KeyLess(ih[i], il[i + 1])
    BY <1>9, <1>10, <2>2
  <2>5. \A s \in 1 .. 2, i \in 1 .. 2 - 1 : i \in {s - 1, s} /\ il[s] # ih[s] =>
            DiffsBetween(il, ih)[i] < DiffBit(il[s], ih[s])
    BY <1>7, <1>8, <1>10, <1>12, <2>1, <2>2
  <2> QED
    BY <1>10, <2>3, <2>4, <2>5 DEF Ends
<1> QED
  BY <1>1, <1>3, <1>11, <1>13 DEF il, ih, x, y, u, v, d

-----------------------------------------------------------------------------
(* A full child parts in two *)

\* Two sequences of one length with the same elements.
LEMMA SameSequence ==
    ASSUME NEW S, NEW s \in Seq(S), NEW T, NEW t \in Seq(T), NEW n \in Nat,
           Len(s) = n, Len(t) = n, \A j \in 1 .. n : s[j] = t[j]
    PROVE  s = t
OBVIOUS

\* The elements of the page that takes the slots of the page below.
LEMMA ExpandedIs ==
    ASSUME NEW pl, NEW ph, NEW c, NEW il, NEW ih, PageOfSlot(pl, ph, c, il, ih),
           NEW l, l = Spliced(RemoveAt(pl, c), c, il),
           NEW h, h = Spliced(RemoveAt(ph, c), c, ih)
    PROVE  /\ Ends(l, h) /\ Len(l) = Len(pl) - 1 + Len(il)
           /\ DiffsBetween(l, h) = Spliced(DiffsBetween(pl, ph), c, DiffsBetween(il, ih))
           /\ Opened(l, pl, c, il) /\ Opened(h, ph, c, ih)
BY EndsExpand

\* A page below with two slots, y the low end of its second and u the high end
\* of its first.
TwoSlots(il, ih, y, u) ==
    /\ Len(il) = 2 /\ y \in AnyKey /\ y = il[2] /\ u \in AnyKey /\ u = ih[1]

\* A slot that becomes two: one element more in lows and highs.
LEMMA TwoForOne ==
    ASSUME NEW pl, NEW ph, NEW c, NEW il, NEW ih, PageOfSlot(pl, ph, c, il, ih),
           NEW y, NEW u, TwoSlots(il, ih, y, u)
    PROVE  /\ Spliced(RemoveAt(pl, c), c, il) = InsertAt(pl, c + 1, y)
           /\ Spliced(RemoveAt(ph, c), c, ih) = InsertAt(ph, c, u)
<1> DEFINE n == Len(pl)
           l == Spliced(RemoveAt(pl, c), c, il)
           h == Spliced(RemoveAt(ph, c), c, ih)
<1>1. /\ Ends(pl, ph) /\ c \in 1 .. n /\ Ends(il, ih)
      /\ il[1] = pl[c] /\ ih[Len(ih)] = ph[c]
      /\ Len(il) = 2 /\ y \in AnyKey /\ y = il[2] /\ u \in AnyKey /\ u = ih[1]
  BY DEF PageOfSlot, TwoSlots
<1>2. /\ n \in Nat /\ Len(ph) = n /\ pl \in Seq(AnyKey) /\ ph \in Seq(AnyKey)
      /\ Len(il) = 2 /\ Len(ih) = 2 /\ il[2] = y /\ ih[1] = u
      /\ ih[2] = ph[c] /\ il[1] = pl[c]
  BY <1>1, EndsAre DEF Ends
<1>3. /\ Ends(l, h) /\ Len(l) = n - 1 + 2
      /\ \A j \in 1 .. Len(l) : l[j] = IF j < c THEN pl[j]
                                        ELSE IF j < c + 2 THEN il[j - c + 1]
                                        ELSE pl[j - 2 + 1]
      /\ \A j \in 1 .. Len(l) : h[j] = IF j < c THEN ph[j]
                                        ELSE IF j < c + 2 THEN ih[j - c + 1]
                                        ELSE ph[j - 2 + 1]
  <2>1. PageOfSlot(pl, ph, c, il, ih)
    BY <1>1 DEF PageOfSlot
  <2>2. /\ Ends(l, h) /\ Len(l) = Len(pl) - 1 + Len(il)
        /\ Opened(l, pl, c, il) /\ Opened(h, ph, c, ih)
    <3>1. l = Spliced(RemoveAt(pl, c), c, il) /\ h = Spliced(RemoveAt(ph, c), c, ih)
      OBVIOUS
    <3> HIDE DEF l, h, n
    <3> QED
      BY <2>1, <3>1, ExpandedIs
  <2> HIDE DEF l, h
  <2>3. Len(h) = Len(l)
    BY <2>2 DEF Ends
  <2> QED
    BY <1>2, <2>2, <2>3 DEF Opened
<1>4. l \in Seq(AnyKey) /\ h \in Seq(AnyKey) /\ Len(h) = Len(l)
  BY <1>3 DEF Ends
<1>5. c \in 1 .. n + 1 /\ c + 1 \in 1 .. n + 1 /\ c \in Nat /\ n - 1 + 2 = n + 1
  BY <1>1, <1>2
<1> DEFINE a == InsertAt(pl, c + 1, y)
           b == InsertAt(ph, c, u)
<1>6. Inserted(a, pl, c + 1, y, n, AnyKey) /\ Inserted(b, ph, c, u, n, AnyKey)
  <2> DEFINE p == c + 1
  <2>1. /\ y \in AnyKey /\ u \in AnyKey /\ p \in 1 .. n + 1 /\ c \in 1 .. n + 1
        /\ pl \in Seq(AnyKey) /\ ph \in Seq(AnyKey) /\ Len(pl) = n /\ Len(ph) = n
    BY <1>1, <1>2, <1>5
  <2> HIDE DEF p, n
  <2>2. Inserted(InsertAt(pl, p, y), pl, p, y, n, AnyKey)
    BY <2>1, InsertAtSame
  <2>3. Inserted(InsertAt(ph, c, u), ph, c, u, n, AnyKey)
    BY <2>1, InsertAtSame
  <2> QED
    BY <2>2, <2>3 DEF p
<1> HIDE DEF l, h, a, b
<1>7. ASSUME NEW j \in 1 .. n + 1
      PROVE  l[j] = a[j] /\ h[j] = b[j]
  <2>1. /\ j \in 1 .. Len(l)
        /\ a[j] = IF j < c + 1 THEN pl[j] ELSE IF j = c + 1 THEN y ELSE pl[j - 1]
        /\ b[j] = IF j < c THEN ph[j] ELSE IF j = c THEN u ELSE ph[j - 1]
    BY <1>3, <1>5, <1>6 DEF Inserted
  <2>2. /\ l[j] = IF j < c THEN pl[j] ELSE IF j < c + 2 THEN il[j - c + 1] ELSE pl[j - 2 + 1]
        /\ h[j] = IF j < c THEN ph[j] ELSE IF j < c + 2 THEN ih[j - c + 1] ELSE ph[j - 2 + 1]
    BY <1>3, <2>1
  <2>3. j \in Nat
    OBVIOUS
  <2>4. CASE j < c
    <3>1. j < c + 1
      BY <1>5, <2>3, <2>4
    <3> QED
      BY <2>1, <2>2, <2>4, <3>1
  <2>5. CASE j = c
    <3>1. ~ (j < c) /\ j < c + 1 /\ j < c + 2 /\ j - c + 1 = 1
      BY <1>5, <2>5
    <3> QED
      BY <1>2, <2>1, <2>2, <2>5, <3>1
  <2>6. CASE j = c + 1
    <3>1. ~ (j < c) /\ ~ (j < c + 1) /\ j < c + 2 /\ j - c + 1 = 2 /\ j # c /\ j - 1 = c
      BY <1>5, <2>6
    <3> QED
      BY <1>2, <2>1, <2>2, <2>6, <3>1
  <2>7. CASE j > c + 1
    <3>1. /\ ~ (j < c) /\ ~ (j < c + 1) /\ ~ (j < c + 2) /\ j # c /\ j # c + 1
          /\ j - 2 + 1 = j - 1
      BY <1>5, <2>3, <2>7
    <3> QED
      BY <2>1, <2>2, <3>1
  <2>8. j < c \/ j = c \/ j = c + 1 \/ j > c + 1
    BY <1>5, <2>3
  <2> QED
    BY <2>4, <2>5, <2>6, <2>7, <2>8
<1>8. /\ a \in Seq(AnyKey) /\ b \in Seq(AnyKey) /\ Len(a) = n + 1 /\ Len(b) = n + 1
      /\ Len(l) = n + 1 /\ Len(h) = n + 1 /\ n + 1 \in Nat
  BY <1>2, <1>3, <1>4, <1>5, <1>6 DEF Inserted
<1>9. l = a
  BY <1>4, <1>7, <1>8, SameSequence
<1>10. h = b
  BY <1>4, <1>7, <1>8, SameSequence
<1> QED
  BY <1>9, <1>10 DEF l, h, a, b

\* What becomes of a slot whose page parts in two halves.
LEMMA PromotedEnds ==
    ASSUME NEW lows, NEW highs, Ends(lows, highs), Len(lows) > 1,
           NEW split, split = CartesianRoot(DiffsBetween(lows, highs)),
           NEW pl, NEW ph, Ends(pl, ph), NEW c \in 1 .. Len(pl),
           lows[1] = pl[c], highs[Len(highs)] = ph[c]
    PROVE  LET n == Len(lows)
               l == InsertAt(pl, c + 1, lows[split + 1])
               h == InsertAt(ph, c, highs[split])
           IN  /\ split \in 1 .. n - 1 /\ n \in Nat
               /\ Ends(l, h) /\ Len(l) = Len(pl) + 1
               /\ DiffsBetween(l, h)
                    = InsertAt(DiffsBetween(pl, ph), c, DiffsBetween(lows, highs)[split])
<1> DEFINE n == Len(lows)
           x == lows[1]
           y == lows[split + 1]
           u == highs[split]
           v == highs[n]
           il == <<x, y>>
           ih == <<u, v>>
           d == DiffsBetween(lows, highs)[split]
<1>1. /\ split \in 1 .. n - 1 /\ n \in Nat
      /\ Ends(il, ih) /\ DiffsBetween(il, ih) = <<d>>
  BY HalvesAre
<1>2. split \in 1 .. n /\ split + 1 \in 1 .. n /\ Len(highs) = n
  BY <1>1, EndsAre
<1>3. y \in AnyKey /\ u \in AnyKey
  BY <1>2, EndsAre
<1>4. PageOfSlot(pl, ph, c, il, ih)
  <2>1. il[1] = pl[c] /\ Len(ih) = 2 /\ ih[2] = ph[c]
    BY <1>2
  <2> HIDE DEF il, ih
  <2> QED
    BY <1>1, <2>1 DEF PageOfSlot
<1> DEFINE l == Spliced(RemoveAt(pl, c), c, il)
           h == Spliced(RemoveAt(ph, c), c, ih)
<1>5. Ends(l, h) /\ Len(l) = Len(pl) - 1 + Len(il)
      /\ DiffsBetween(l, h) = Spliced(DiffsBetween(pl, ph), c, DiffsBetween(il, ih))
  <2> HIDE DEF il, ih
  <2> QED
    BY <1>4, EndsExpand
<1>6. Len(il) = 2 /\ il[2] = y /\ ih[1] = u
  OBVIOUS
<1>7. Len(pl) - 1 + 2 = Len(pl) + 1
  BY EndsAre
<1> HIDE DEF x, y, u, v, d
<1>8. l = InsertAt(pl, c + 1, y) /\ h = InsertAt(ph, c, u)
  <2> HIDE DEF il, ih
  <2> QED
    <3>1. TwoSlots(il, ih, y, u)
      BY <1>3, <1>6 DEF TwoSlots
    <3> QED
      BY <1>4, <3>1, TwoForOne
<1>9. Spliced(DiffsBetween(pl, ph), c, <<d>>) = InsertAt(DiffsBetween(pl, ph), c, d)
  BY DEF Spliced, InsertAt
<1> HIDE DEF l, h, il, ih
<1>10. /\ Ends(l, h) /\ Len(l) = Len(pl) + 1
       /\ DiffsBetween(l, h) = InsertAt(DiffsBetween(pl, ph), c, d)
  BY <1>1, <1>5, <1>6, <1>7, <1>9
<1> QED
  BY <1>1, <1>8, <1>10 DEF y, u, d

\* The slots up to split and those after it.
LEMMA HalfPages ==
    ASSUME NEW lows, NEW highs, Ends(lows, highs), NEW split \in 1 .. Len(lows) - 1
    PROVE  LET n == Len(lows)
               diffs == DiffsBetween(lows, highs)
               ll == SubSeq(lows, 1, split)
               lh == SubSeq(highs, 1, split)
               rl == SubSeq(lows, split + 1, n)
               rh == SubSeq(highs, split + 1, n)
           IN  /\ Ends(ll, lh) /\ Len(ll) = split
               /\ DiffsBetween(ll, lh) = SubSeq(diffs, 1, split - 1)
               /\ Ends(rl, rh) /\ Len(rl) = n - split
               /\ DiffsBetween(rl, rh) = SubSeq(diffs, split + 1, Len(diffs))
<1> DEFINE n == Len(lows)
           diffs == DiffsBetween(lows, highs)
           ll == SubSeq(lows, 1, split)
           lh == SubSeq(highs, 1, split)
           rl == SubSeq(lows, split + 1, n)
           rh == SubSeq(highs, split + 1, n)
<1>1. n \in Nat /\ Len(diffs) = n - 1
  BY EndsAre
<1>2. /\ split \in 1 .. n /\ 1 \in 1 .. n /\ split + 1 \in 1 .. n /\ n \in 1 .. n
      /\ 1 <= split /\ split + 1 <= n /\ split - 1 + 1 = split /\ n - (split + 1) + 1 = n - split
  BY <1>1
<1>3. Ends(ll, lh) /\ Len(ll) = split - 1 + 1 /\ DiffsBetween(ll, lh) = SubSeq(diffs, 1, split - 1)
  BY <1>2, EndsSub
<1>4. Ends(rl, rh) /\ Len(rl) = n - (split + 1) + 1 /\ DiffsBetween(rl, rh) = SubSeq(diffs, split + 1, n - 1)
  <2> DEFINE a == split + 1
  <2>1. a \in 1 .. Len(lows) /\ n \in 1 .. Len(lows) /\ a <= n
    BY <1>2
  <2> HIDE DEF a, n
  <2>2. /\ Ends(SubSeq(lows, a, n), SubSeq(highs, a, n))
        /\ Len(SubSeq(lows, a, n)) = n - a + 1
        /\ DiffsBetween(SubSeq(lows, a, n), SubSeq(highs, a, n)) = SubSeq(diffs, a, n - 1)
    BY <2>1, EndsSub
  <2> QED
    BY <2>2 DEF a
<1> HIDE DEF ll, lh, rl, rh, diffs
<1>5. /\ Ends(ll, lh) /\ Len(ll) = split /\ DiffsBetween(ll, lh) = SubSeq(diffs, 1, split - 1)
      /\ Ends(rl, rh) /\ Len(rl) = n - split
      /\ DiffsBetween(rl, rh) = SubSeq(diffs, split + 1, Len(diffs))
  BY <1>1, <1>2, <1>3, <1>4
<1> QED
  BY <1>5 DEF ll, lh, rl, rh, diffs

\* The page of the slots up to split.
LEMMA LowerHalfIs ==
    ASSUME NEW lows, NEW highs, Ends(lows, highs), NEW split \in 1 .. Len(lows) - 1,
           NEW left, Len(left.reps) = split,
           left.routes = RoutesOf(SubSeq(DiffsBetween(lows, highs), 1, split - 1))
    PROVE  KeyPage(left, SubSeq(lows, 1, split), SubSeq(highs, 1, split))
<1> DEFINE ll == SubSeq(lows, 1, split)
           lh == SubSeq(highs, 1, split)
           d == SubSeq(DiffsBetween(lows, highs), 1, split - 1)
<1>1. Ends(ll, lh) /\ Len(ll) = split /\ DiffsBetween(ll, lh) = d
  BY HalfPages
<1> HIDE DEF ll, lh
<1>2. KeyPage(left, ll, lh)
  BY <1>1 DEF KeyPage
<1> QED
  BY <1>2 DEF ll, lh

\* The page of the slots after split.
LEMMA UpperHalfIs ==
    ASSUME NEW lows, NEW highs, Ends(lows, highs), NEW split \in 1 .. Len(lows) - 1,
           NEW n, n = Len(lows), NEW diffs, diffs = DiffsBetween(lows, highs),
           NEW right, Len(right.reps) = n - split,
           right.routes = RoutesOf(SubSeq(diffs, split + 1, Len(diffs)))
    PROVE  KeyPage(right, SubSeq(lows, split + 1, n), SubSeq(highs, split + 1, n))
<1> DEFINE rl == SubSeq(lows, split + 1, Len(lows))
           rh == SubSeq(highs, split + 1, Len(lows))
           d == SubSeq(DiffsBetween(lows, highs), split + 1, Len(DiffsBetween(lows, highs)))
<1>1. Ends(rl, rh) /\ Len(rl) = Len(lows) - split /\ DiffsBetween(rl, rh) = d
  BY HalfPages
<1> HIDE DEF rl, rh
<1>2. KeyPage(right, rl, rh)
  BY <1>1 DEF KeyPage
<1> QED
  BY <1>2 DEF rl, rh

\* A full child may part at the root of its tree (PromoteSibling): both halves
\* and the page above, with one slot and the diff between the halves more, are
\* of their kind.
THEOREM PromoteKeepsPages ==
    ASSUME NEW lows, NEW highs, Ends(lows, highs), Len(lows) > 1,
           NEW diffs, diffs = DiffsBetween(lows, highs),
           NEW split, split = CartesianRoot(diffs),
           NEW left, Len(left.reps) = split,
           left.routes = RoutesOf(SubSeq(diffs, 1, split - 1)),
           NEW right, Len(right.reps) = Len(lows) - split,
           right.routes = RoutesOf(SubSeq(diffs, split + 1, Len(diffs))),
           NEW parent, NEW pl, NEW ph, KeyPage(parent, pl, ph), NEW c \in 1 .. Len(pl),
           lows[1] = pl[c], highs[Len(highs)] = ph[c],
           NEW new, Len(new.reps) = Len(parent.reps) + 1,
           new.routes = RoutesOf(InsertAt(RouteDiffs(parent), c, diffs[split]))
    PROVE  LET n == Len(lows)
           IN  /\ KeyPage(left, SubSeq(lows, 1, split), SubSeq(highs, 1, split))
               /\ KeyPage(right, SubSeq(lows, split + 1, n), SubSeq(highs, split + 1, n))
               /\ KeyPage(new, InsertAt(pl, c + 1, lows[split + 1]),
                               InsertAt(ph, c, highs[split]))
<1> DEFINE n == Len(lows)
           l == InsertAt(pl, c + 1, lows[split + 1])
           h == InsertAt(ph, c, highs[split])
<1>1. /\ Ends(pl, ph) /\ Len(parent.reps) = Len(pl)
      /\ RouteDiffs(parent) = DiffsBetween(pl, ph)
  <2>1. RouteDiffs(parent) = DiffsBetween(pl, ph)
    BY KeyPageIs, RouteDiffsAreDiffs
  <2> QED
    BY <2>1 DEF KeyPage
<1>2. split = CartesianRoot(DiffsBetween(lows, highs))
  OBVIOUS
<1>3. /\ split \in 1 .. n - 1 /\ n \in Nat
      /\ Ends(l, h) /\ Len(l) = Len(pl) + 1
      /\ DiffsBetween(l, h) = InsertAt(DiffsBetween(pl, ph), c, DiffsBetween(lows, highs)[split])
  BY <1>1, <1>2, PromotedEnds
<1>9. split \in 1 .. Len(lows) - 1
  BY <1>3
<1>10. /\ Ends(lows, highs) /\ Len(left.reps) = split
       /\ left.routes = RoutesOf(SubSeq(DiffsBetween(lows, highs), 1, split - 1))
  OBVIOUS
<1>6. KeyPage(left, SubSeq(lows, 1, split), SubSeq(highs, 1, split))
  BY <1>9, <1>10, LowerHalfIs
<1>7. KeyPage(right, SubSeq(lows, split + 1, n), SubSeq(highs, split + 1, n))
  BY <1>9, UpperHalfIs
<1> HIDE DEF l, h
<1>8. KeyPage(new, l, h)
  BY <1>1, <1>3 DEF KeyPage
<1> QED
  BY <1>6, <1>7, <1>8 DEF l, h

-----------------------------------------------------------------------------
(* Two children become one *)

\* t is x followed by y, of lengths n and m.
Joined(t, x, n, y, m, S) ==
    /\ t \in Seq(S) /\ Len(t) = n + m
    /\ \A j \in 1 .. n + m : t[j] = IF j <= n THEN x[j] ELSE y[j - n]

\* The elements of a concatenation.
LEMMA JoinedIs ==
    ASSUME NEW S, NEW x \in Seq(S), NEW n, Len(x) = n, NEW y \in Seq(S), NEW m, Len(y) = m,
           NEW t, t = x \o y
    PROVE  Joined(t, x, n, y, m, S)
<1>1. x \in Seq(S) /\ y \in Seq(S) /\ t = x \o y
  OBVIOUS
<1>2. /\ t \in Seq(S) /\ Len(t) = Len(x) + Len(y)
      /\ \A j \in 1 .. Len(x) + Len(y) : t[j] = IF j <= Len(x) THEN x[j] ELSE y[j - Len(x)]
  BY <1>1, ConcatProperties
<1> QED
  BY <1>2 DEF Joined

\* The diffs of two pages with one between them.
LEMMA DiffsJoin ==
    ASSUME NEW ld \in Seq(Nat), NEW rd \in Seq(Nat), NEW d \in Nat
    PROVE  Spliced(Spliced(<<d>>, 2, rd), 1, ld) = Append(ld, d) \o rd
<1> DEFINE k == Len(ld)
           m == Len(rd)
           k1 == k + 1
           m1 == m + 1
           b == <<d>>
           x == Spliced(b, 2, rd)
           y == Spliced(x, 1, ld)
           a == Append(ld, d)
           z == a \o rd
           n == k + m + 1
<1>1. /\ k \in Nat /\ m \in Nat /\ ld \in Seq(Nat) /\ rd \in Seq(Nat)
      /\ b \in Seq(Nat) /\ Len(b) = 1 /\ b[1] = d
      /\ k1 = k + 1 /\ m1 = m + 1 /\ n = k + m + 1 /\ n \in Nat
      /\ 1 + m = m1 /\ m1 + k = n /\ k1 + m = n /\ 2 \in 1 .. 1 + 1 /\ 1 \in 1 .. m1 + 1
  OBVIOUS
<1>2. /\ a \in Seq(Nat) /\ Len(a) = k1
      /\ \A j \in 1 .. k1 : a[j] = IF j <= k THEN ld[j] ELSE d
  OBVIOUS
<1>3. Len(ld) = k /\ Len(rd) = m
  OBVIOUS
<1>4. z = a \o rd
  OBVIOUS
<1> HIDE DEF b, a, z, y, k, m, k1, m1, n
<1>5. SplicedInto(x, b, 2, rd, 1, m, Nat)
  BY <1>1, <1>3, SplicedIs
<1> HIDE DEF x
<1>6. /\ x \in Seq(Nat) /\ Len(x) = m1
      /\ \A j \in 1 .. m1 : x[j] = IF j < 2 THEN b[j] ELSE IF j < 2 + m THEN rd[j - 2 + 1] ELSE b[j - m]
  BY <1>1, <1>5 DEF SplicedInto
<1>7. SplicedInto(y, x, 1, ld, m1, k, Nat)
  BY <1>1, <1>3, <1>6, SplicedIs DEF y
<1>8. /\ y \in Seq(Nat) /\ Len(y) = n
      /\ \A j \in 1 .. n : y[j] = IF j < 1 THEN x[j] ELSE IF j < 1 + k THEN ld[j - 1 + 1] ELSE x[j - k]
  BY <1>1, <1>7 DEF SplicedInto
<1>9. Joined(z, a, k1, rd, m, Nat)
  BY <1>1, <1>2, <1>3, <1>4, JoinedIs
<1>10. /\ z \in Seq(Nat) /\ Len(z) = n
       /\ \A j \in 1 .. n : z[j] = IF j <= k1 THEN a[j] ELSE rd[j - k1]
  BY <1>1, <1>9 DEF Joined
<1>11. ASSUME NEW j \in 1 .. n
       PROVE  y[j] = z[j]
  <2>1. /\ j \in Nat
        /\ y[j] = IF j < 1 THEN x[j] ELSE IF j < 1 + k THEN ld[j - 1 + 1] ELSE x[j - k]
        /\ z[j] = IF j <= k1 THEN a[j] ELSE rd[j - k1]
    BY <1>1, <1>8, <1>10
  <2>2. CASE j <= k
    <3>1. ~ (j < 1) /\ j < 1 + k /\ j - 1 + 1 = j /\ j <= k1 /\ j \in 1 .. k1
      BY <1>1, <2>1, <2>2
    <3> QED
      BY <1>2, <2>1, <2>2, <3>1
  <2>3. CASE j = k1
    <3>1. /\ ~ (j < 1) /\ ~ (j < 1 + k) /\ j - k = 1 /\ j <= k1 /\ ~ (j <= k)
          /\ j \in 1 .. k1 /\ 1 \in 1 .. m1
      BY <1>1, <2>1, <2>3
    <3>2. x[1] = b[1]
      <4>1. x[1] = IF 1 < 2 THEN b[1] ELSE IF 1 < 2 + m THEN rd[1 - 2 + 1] ELSE b[1 - m]
        BY <1>6, <3>1
      <4>2. 1 < 2
        OBVIOUS
      <4> QED
        BY <4>1, <4>2
    <3> QED
      BY <1>1, <1>2, <2>1, <3>1, <3>2
  <2>4. CASE j > k1
    <3>1. /\ ~ (j < 1) /\ ~ (j < 1 + k) /\ ~ (j <= k1)
          /\ j - k \in 1 .. m1 /\ ~ (j - k < 2) /\ j - k < 2 + m /\ (j - k) - 2 + 1 = j - k1
      BY <1>1, <2>1, <2>4
    <3> QED
      BY <1>6, <2>1, <3>1
  <2>5. j <= k \/ j = k1 \/ j > k1
    BY <1>1, <2>1
  <2> QED
    BY <2>2, <2>3, <2>4, <2>5
<1>12. y = z
  BY <1>1, <1>8, <1>10, <1>11, SameSequence
<1> QED
  BY <1>12 DEF y, z, x, a, b

\* A page of two slots, the ends of which are those of the pages left and right.
PairOf(il, ih, ll, lh, rl, rh) ==
    /\ Ends(il, ih) /\ Ends(ll, lh) /\ Ends(rl, rh)
    /\ Len(il) = 2
    /\ il[1] = ll[1] /\ ih[1] = lh[Len(lh)]
    /\ il[2] = rl[1] /\ ih[2] = rh[Len(rh)]

\* The lows or highs of the pair, opened twice, are those of both pages.
LEMMA OpenedTwice ==
    ASSUME NEW s, NEW x, NEW y, NEW ll \in Seq(AnyKey), NEW rl \in Seq(AnyKey),
           NEW k \in Nat, NEW m \in Nat, Len(ll) = k, Len(rl) = m, k > 0, m > 0,
           Len(x) = m + 1, Opened(x, s, 2, rl),
           y \in Seq(AnyKey), Len(y) = k + m, Opened(y, x, 1, ll)
    PROVE  y = ll \o rl
<1> DEFINE z == ll \o rl
           n == k + m
<1>1. n \in Nat /\ n = k + m
  OBVIOUS
<1>2. /\ \A j \in 1 .. m + 1 : x[j] = IF j < 2 THEN s[j] ELSE IF j < 2 + m THEN rl[j - 2 + 1] ELSE s[j - m + 1]
      /\ \A j \in 1 .. n : y[j] = IF j < 1 THEN x[j] ELSE IF j < 1 + k THEN ll[j - 1 + 1] ELSE x[j - k + 1]
  BY DEF Opened
<1> HIDE DEF z
<1>3. Joined(z, ll, k, rl, m, AnyKey)
  <2>1. z = ll \o rl
    BY DEF z
  <2> QED
    BY <2>1, JoinedIs
<1>4. /\ z \in Seq(AnyKey) /\ Len(z) = n
      /\ \A j \in 1 .. n : z[j] = IF j <= k THEN ll[j] ELSE rl[j - k]
  BY <1>3 DEF Joined
<1>5. ASSUME NEW j \in 1 .. n
      PROVE  y[j] = z[j]
  <2>1. /\ j \in Nat
        /\ y[j] = IF j < 1 THEN x[j] ELSE IF j < 1 + k THEN ll[j - 1 + 1] ELSE x[j - k + 1]
        /\ z[j] = IF j <= k THEN ll[j] ELSE rl[j - k]
    BY <1>1, <1>2, <1>4
  <2>2. CASE j <= k
    <3>1. ~ (j < 1) /\ j < 1 + k /\ j - 1 + 1 = j
      BY <2>1, <2>2
    <3> QED
      BY <2>1, <2>2, <3>1
  <2>3. CASE ~ (j <= k)
    <3>1. /\ ~ (j < 1) /\ ~ (j < 1 + k) /\ j - k + 1 \in 1 .. m + 1
          /\ ~ (j - k + 1 < 2) /\ j - k + 1 < 2 + m /\ (j - k + 1) - 2 + 1 = j - k
      BY <1>1, <2>1, <2>3
    <3> QED
      BY <1>2, <2>1, <2>3, <3>1
  <2> QED
    BY <2>2, <2>3
<1> HIDE DEF n
<1>6. y \in Seq(AnyKey) /\ Len(y) = n
  BY <1>1
<1>7. y = z
  BY <1>1, <1>4, <1>5, <1>6, SameSequence
<1> QED
  BY <1>7 DEF z

\* What the ends of a page are at least.
LEMMA EndsShape ==
    ASSUME NEW lows, NEW highs, Ends(lows, highs), NEW n, n = Len(lows),
           NEW diffs, diffs = DiffsBetween(lows, highs)
    PROVE  /\ lows \in Seq(AnyKey) /\ highs \in Seq(AnyKey)
           /\ n \in Nat /\ n > 0 /\ Len(highs) = n
           /\ diffs \in Seq(Nat) /\ Len(diffs) = n - 1
<1>1. lows \in Seq(AnyKey) /\ highs \in Seq(AnyKey)
  BY DEF Ends
<1>2. /\ n \in Nat /\ n > 0 /\ Len(highs) = n
      /\ diffs \in Seq(Nat) /\ Len(diffs) = n - 1
  BY EndsAre
<1> QED
  BY <1>1, <1>2

\* Two pages side by side make one, with the diff of the pair between theirs.
LEMMA EndsJoin ==
    ASSUME NEW il, NEW ih, NEW ll, NEW lh, NEW rl, NEW rh, PairOf(il, ih, ll, lh, rl, rh)
    PROVE  /\ Ends(ll \o rl, lh \o rh) /\ Len(ll \o rl) = Len(ll) + Len(rl)
           /\ DiffsBetween(ll \o rl, lh \o rh)
                = Append(DiffsBetween(ll, lh), DiffsBetween(il, ih)[1]) \o DiffsBetween(rl, rh)
<1> DEFINE k == Len(ll)
           m == Len(rl)
           d == DiffsBetween(il, ih)[1]
           ld == DiffsBetween(ll, lh)
           rd == DiffsBetween(rl, rh)
           x == Spliced(RemoveAt(il, 2), 2, rl)
           xh == Spliced(RemoveAt(ih, 2), 2, rh)
           y == Spliced(RemoveAt(x, 1), 1, ll)
           yh == Spliced(RemoveAt(xh, 1), 1, lh)
<1>1. /\ Ends(il, ih) /\ Ends(ll, lh) /\ Ends(rl, rh)
      /\ Len(il) = 2 /\ il[1] = ll[1] /\ ih[1] = lh[Len(lh)]
      /\ il[2] = rl[1] /\ ih[2] = rh[Len(rh)]
  BY DEF PairOf
<1>2. /\ k \in Nat /\ k > 0 /\ m \in Nat /\ m > 0 /\ Len(lh) = k /\ Len(rh) = m
      /\ Len(ll) = k /\ Len(rl) = m
      /\ ll \in Seq(AnyKey) /\ lh \in Seq(AnyKey) /\ rl \in Seq(AnyKey) /\ rh \in Seq(AnyKey)
      /\ ld \in Seq(Nat) /\ rd \in Seq(Nat)
      /\ DiffsBetween(il, ih) \in Seq(Nat) /\ Len(DiffsBetween(il, ih)) = 1
  <2>1. /\ k = Len(ll) /\ m = Len(rl) /\ ld = DiffsBetween(ll, lh) /\ rd = DiffsBetween(rl, rh)
    OBVIOUS
  <2> DEFINE id == DiffsBetween(il, ih)
             two == Len(il)
  <2>2. two = 2 /\ two = Len(il) /\ id = DiffsBetween(il, ih)
    BY <1>1
  <2> HIDE DEF k, m, ld, rd, id, two
  <2>3. /\ ll \in Seq(AnyKey) /\ lh \in Seq(AnyKey) /\ k \in Nat /\ k > 0 /\ Len(lh) = k
        /\ ld \in Seq(Nat)
    BY <1>1, <2>1, EndsShape
  <2>4. /\ rl \in Seq(AnyKey) /\ rh \in Seq(AnyKey) /\ m \in Nat /\ m > 0 /\ Len(rh) = m
        /\ rd \in Seq(Nat)
    BY <1>1, <2>1, EndsShape
  <2>5. id \in Seq(Nat) /\ Len(id) = two - 1
    <3>1. Ends(il, ih) /\ two = Len(il) /\ id = DiffsBetween(il, ih)
      BY <1>1, <2>2
    <3> QED
      BY <3>1, EndsShape
  <2>6. two - 1 = 1
    BY <2>2
  <2> QED
    BY <2>1, <2>2, <2>3, <2>4, <2>5, <2>6
<1>3. DiffsBetween(il, ih) = <<d>> /\ d \in Nat
  <2> DEFINE id == DiffsBetween(il, ih)
  <2>1. id \in Seq(Nat) /\ Len(id) = 1
    BY <1>2
  <2> HIDE DEF id
  <2>2. id = <<id[1]>> /\ id[1] \in Nat
    BY <2>1
  <2> QED
    BY <2>2 DEF id
<1>4. PageOfSlot(il, ih, 2, rl, rh)
  <2>1. 2 \in 1 .. Len(il)
    BY <1>1
  <2> QED
    BY <1>1, <2>1 DEF PageOfSlot
<1>5. x = Spliced(RemoveAt(il, 2), 2, rl) /\ xh = Spliced(RemoveAt(ih, 2), 2, rh)
  OBVIOUS
<1>6. y = Spliced(RemoveAt(x, 1), 1, ll) /\ yh = Spliced(RemoveAt(xh, 1), 1, lh)
  OBVIOUS
<1> HIDE DEF x, xh, y, yh, k, m, d, ld, rd
<1>7. /\ Ends(x, xh) /\ Len(x) = Len(il) - 1 + Len(rl)
      /\ DiffsBetween(x, xh) = Spliced(DiffsBetween(il, ih), 2, DiffsBetween(rl, rh))
      /\ Opened(x, il, 2, rl) /\ Opened(xh, ih, 2, rh)
  BY <1>4, <1>5, ExpandedIs
<1>8. /\ Len(x) = m + 1 /\ Len(xh) = m + 1 /\ 1 \in 1 .. Len(x) /\ 1 \in 1 .. Len(xh)
  BY <1>1, <1>2, <1>7 DEF Ends
<1>9. x[1] = ll[1] /\ xh[1] = lh[Len(lh)]
  BY <1>1, <1>2, <1>7, <1>8 DEF Opened
<1>10. PageOfSlot(x, xh, 1, ll, lh)
  BY <1>1, <1>7, <1>8, <1>9 DEF PageOfSlot
<1>11. /\ Ends(y, yh) /\ Len(y) = Len(x) - 1 + Len(ll)
       /\ DiffsBetween(y, yh) = Spliced(DiffsBetween(x, xh), 1, DiffsBetween(ll, lh))
       /\ Opened(y, x, 1, ll) /\ Opened(yh, xh, 1, lh)
  BY <1>6, <1>10, ExpandedIs
<1>12. /\ Len(y) = k + m /\ Len(yh) = k + m
       /\ y \in Seq(AnyKey) /\ yh \in Seq(AnyKey)
  BY <1>2, <1>8, <1>11 DEF Ends
<1>13. y = ll \o rl
  <2>1. k > 0 /\ m > 0 /\ Len(x) = m + 1 /\ Opened(x, il, 2, rl) /\ Len(y) = k + m
        /\ Opened(y, x, 1, ll)
    BY <1>2, <1>7, <1>8, <1>11, <1>12
  <2>2. ll \in Seq(AnyKey) /\ rl \in Seq(AnyKey) /\ y \in Seq(AnyKey)
        /\ k \in Nat /\ m \in Nat /\ Len(ll) = k /\ Len(rl) = m
    BY <1>2, <1>12
  <2> QED
    BY <2>1, <2>2, OpenedTwice
<1>14. yh = lh \o rh
  <2>1. k > 0 /\ m > 0 /\ Len(xh) = m + 1 /\ Opened(xh, ih, 2, rh) /\ Len(yh) = k + m
        /\ Opened(yh, xh, 1, lh)
    BY <1>2, <1>7, <1>8, <1>11, <1>12
  <2>2. lh \in Seq(AnyKey) /\ rh \in Seq(AnyKey) /\ yh \in Seq(AnyKey)
        /\ k \in Nat /\ m \in Nat /\ Len(lh) = k /\ Len(rh) = m
    BY <1>2, <1>12
  <2> QED
    BY <2>1, <2>2, OpenedTwice
<1>15. Spliced(Spliced(<<d>>, 2, rd), 1, ld) = Append(ld, d) \o rd
  BY <1>2, <1>3, DiffsJoin
<1>16. DiffsBetween(y, yh) = Append(ld, d) \o rd
  BY <1>3, <1>7, <1>11, <1>15 DEF ld, rd
<1> QED
  BY <1>2, <1>11, <1>12, <1>13, <1>14, <1>16 DEF ld, rd, d, k, m

\* Two slots of one route part later than from the slots beside them.
LEMMA DirectPairParts ==
    ASSUME NEW page, NEW pl, NEW ph, KeyPage(page, pl, ph),
           NEW i, IsDirectRoutePair(page, i), NEW j, j = i + 1
    PROVE  /\ i \in 1 .. Len(pl) /\ j \in 1 .. Len(pl) /\ i < j
           /\ i \in 1 .. Len(pl) - 1
           /\ PartLater(DiffsBetween(pl, ph), i, j)
<1> DEFINE diffs == DiffsBetween(pl, ph)
           n == Len(pl)
<1>1. Ends(pl, ph) /\ Canonical(page, diffs)
  BY KeyPageIs
<1>2. Frames(page) = CartesianFrames(diffs)
  BY <1>1, CanonicalTree
<1>3. PICK f \in CartesianFrames(diffs) : f.lo = i /\ f.n = 2
  BY <1>2 DEF IsDirectRoutePair
<1> DEFINE b == f.lo + f.n - 1
<1>4. /\ PartLater(diffs, f.lo, b) /\ f.lo \in 1 .. n /\ b \in 1 .. n /\ f.lo <= b
  BY <1>1, FramePartsLater
<1>5. i \in 1 .. n /\ n \in Nat
  BY <1>1, <1>3, <1>4, EndsAre
<1>6. b = i + 2 - 1
  BY <1>3
<1> HIDE DEF b, n, diffs
<1>7. i + 2 - 1 = j /\ i < j /\ (j \in 1 .. n => i \in 1 .. n - 1)
  BY <1>5
<1>8. PartLater(diffs, i, j) /\ j \in 1 .. n
  BY <1>3, <1>4, <1>6, <1>7
<1> QED
  BY <1>5, <1>7, <1>8 DEF n, diffs

\* The two slots may become one, from the low end of the first to the high end
\* of the second.
LEMMA EndsOfMerged ==
    ASSUME NEW pl, NEW ph, Ends(pl, ph), NEW i \in 1 .. Len(pl), NEW j \in 1 .. Len(pl), j = i + 1,
           PartLater(DiffsBetween(pl, ph), i, j)
    PROVE  /\ Ends(RemoveAt(pl, j), RemoveAt(ph, i)) /\ Len(RemoveAt(pl, j)) = Len(pl) - 1
           /\ DiffsBetween(RemoveAt(pl, j), RemoveAt(ph, i)) = RemoveAt(DiffsBetween(pl, ph), i)
<1> DEFINE n == Len(pl)
           w == n - 1
           diffs == DiffsBetween(pl, ph)
           x == pl[i]
           y == ph[j]
           l == Collapsed(pl, i, j, x)
           h == Collapsed(ph, i, j, y)
           a == RemoveAt(pl, j)
           b == RemoveAt(ph, i)
           e == RemoveAt(diffs, i)
           d == DiffsBetween(l, h)
<1>1. /\ pl \in Seq(AnyKey) /\ ph \in Seq(AnyKey) /\ Len(ph) = n /\ Len(pl) = n
      /\ n \in Nat /\ n > 0 /\ diffs \in Seq(Nat) /\ Len(diffs) = w
  BY EndsShape
<1>2. /\ i \in 1 .. n /\ j \in i .. n /\ i <= j /\ j - i = 1 /\ n - (j - i) = w /\ w \in Nat
      /\ i \in 1 .. w /\ x \in AnyKey /\ y \in AnyKey /\ j \in 1 .. n /\ j = i + 1 /\ i \in Nat
  BY <1>1
<1>3. /\ Ends(l, h) /\ Len(l) = Len(pl) - (j - i)
      /\ \A s \in 1 .. Len(l) - 1 :
            DiffsBetween(l, h)[s] = DiffsBetween(pl, ph)[IF s < i THEN s ELSE s + (j - i)]
  BY <1>2, EndsCollapse
<1> HIDE DEF n, w, diffs, x, y, l, h, a, b, e, d
<1>4. InPlace(l, pl, i, j, x, n, AnyKey)
  BY <1>1, <1>2, CollapsedIs DEF l
<1>5. InPlace(h, ph, i, j, y, n, AnyKey)
  BY <1>1, <1>2, CollapsedIs DEF h
<1>6. Removed(a, pl, j, n, AnyKey)
  BY <1>1, <1>2, RemoveAtSame DEF a
<1>7. Removed(b, ph, i, n, AnyKey)
  BY <1>1, <1>2, RemoveAtSame DEF b
<1>8. Removed(e, diffs, i, w, Nat)
  BY <1>1, <1>2, RemoveAtSame DEF e
<1>9. /\ l \in Seq(AnyKey) /\ Len(l) = w /\ h \in Seq(AnyKey) /\ Len(h) = w
      /\ a \in Seq(AnyKey) /\ Len(a) = w /\ b \in Seq(AnyKey) /\ Len(b) = w
      /\ e \in Seq(Nat) /\ Len(e) = w - 1
  BY <1>2, <1>4, <1>5, <1>6, <1>7, <1>8 DEF InPlace, Removed, w
<1>10. ASSUME NEW s \in 1 .. w
       PROVE  l[s] = a[s] /\ h[s] = b[s]
  <2>1. /\ l[s] = IF s < i THEN pl[s] ELSE IF s = i THEN x ELSE pl[s + (j - i)]
        /\ h[s] = IF s < i THEN ph[s] ELSE IF s = i THEN y ELSE ph[s + (j - i)]
    BY <1>2, <1>4, <1>5 DEF InPlace
  <2>2. /\ a[s] = IF s < j THEN pl[s] ELSE pl[s + 1]
        /\ b[s] = IF s < i THEN ph[s] ELSE ph[s + 1]
    BY <1>6, <1>7 DEF Removed, w
  <2>3. /\ x = pl[i] /\ y = ph[j] /\ j - i = 1
    BY <1>2 DEF x, y
  <2>4. CASE s < i
    <3>1. s < j
      BY <1>2, <2>4
    <3> QED
      BY <2>1, <2>2, <2>4, <3>1
  <2>5. CASE s = i
    <3>1. s < j /\ ~ (s < i) /\ s + 1 = j
      BY <1>2, <2>5
    <3> QED
      BY <2>1, <2>2, <2>3, <2>5, <3>1
  <2>6. CASE s > i
    <3>1. ~ (s < j) /\ ~ (s < i) /\ s # i
      BY <1>2, <2>6
    <3> QED
      BY <2>1, <2>2, <2>3, <3>1
  <2>7. s < i \/ s = i \/ s > i
    BY <1>2
  <2> QED
    BY <2>4, <2>5, <2>6, <2>7
<1>11. l = a
  BY <1>2, <1>9, <1>10, SameSequence
<1>12. h = b
  BY <1>2, <1>9, <1>10, SameSequence
<1>13. d \in Seq(Nat) /\ Len(d) = w - 1
  <2>1. Ends(l, h) /\ w = Len(l) /\ d = DiffsBetween(l, h)
    BY <1>3, <1>9 DEF l, h, x, y, d
  <2> QED
    BY <2>1, EndsShape
<1>14. ASSUME NEW s \in 1 .. w - 1
       PROVE  d[s] = e[s]
  <2>1. d[s] = diffs[IF s < i THEN s ELSE s + (j - i)]
    BY <1>3, <1>9 DEF d, l, h, x, y, diffs
  <2>2. e[s] = IF s < i THEN diffs[s] ELSE diffs[s + 1]
    BY <1>8 DEF Removed
  <2> QED
    BY <1>2, <2>1, <2>2
<1>15. w - 1 \in Nat
  BY <1>2
<1>16. d = e
  BY <1>9, <1>13, <1>14, <1>15, SameSequence
<1>17. Ends(a, b)
  BY <1>3, <1>11, <1>12 DEF l, h, x, y
<1>18. DiffsBetween(a, b) = e
  BY <1>11, <1>12, <1>16 DEF d
<1> QED
  BY <1>9, <1>17, <1>18 DEF a, b, e, diffs, w, n

\* Slots i and j = i + 1 of a page, and the pages below them.
PagesOfPair(pl, ph, i, j, ll, lh, rl, rh) ==
    /\ Ends(pl, ph) /\ Ends(ll, lh) /\ Ends(rl, rh)
    /\ i \in 1 .. Len(pl) /\ j \in 1 .. Len(pl) /\ j = i + 1
    /\ ll[1] = pl[i] /\ lh[Len(lh)] = ph[i]
    /\ rl[1] = pl[j] /\ rh[Len(rh)] = ph[j]

\* Slots i and j as a page of their own.
LEMMA EndsOfPair ==
    ASSUME NEW pl, NEW ph, NEW i, NEW j, NEW ll, NEW lh, NEW rl, NEW rh,
           PagesOfPair(pl, ph, i, j, ll, lh, rl, rh)
    PROVE  PairOf(SubSeq(pl, i, j), SubSeq(ph, i, j), ll, lh, rl, rh)
<1> DEFINE il == SubSeq(pl, i, j)
           ih == SubSeq(ph, i, j)
<1>1. /\ Ends(pl, ph) /\ Ends(ll, lh) /\ Ends(rl, rh)
      /\ i \in 1 .. Len(pl) /\ j \in 1 .. Len(pl) /\ j = i + 1
      /\ ll[1] = pl[i] /\ lh[Len(lh)] = ph[i]
      /\ rl[1] = pl[j] /\ rh[Len(rh)] = ph[j]
  BY DEF PagesOfPair
<1>2. i \in Nat /\ i <= j /\ j - i + 1 = 2 /\ 1 + i - 1 = i /\ 2 + i - 1 = j
  <2>1. Len(pl) \in Nat
    BY <1>1, EndsAre
  <2> QED
    BY <1>1, <2>1
<1>3. /\ Ends(il, ih) /\ Len(il) = j - i + 1
      /\ \A s \in 1 .. j - i + 1 : il[s] = pl[s + i - 1] /\ ih[s] = ph[s + i - 1]
  <2>1. Ends(pl, ph) /\ i \in 1 .. Len(pl) /\ j \in 1 .. Len(pl) /\ i <= j
    BY <1>1, <1>2
  <2> QED
    BY <2>1, EndsSub
<1> HIDE DEF il, ih
<1>4. /\ Len(il) = 2 /\ il[1] = pl[i] /\ ih[1] = ph[i] /\ il[2] = pl[j] /\ ih[2] = ph[j]
  <2>1. 1 \in 1 .. 2 /\ 2 \in 1 .. 2
    OBVIOUS
  <2> QED
    BY <1>2, <1>3, <2>1
<1>5. PairOf(il, ih, ll, lh, rl, rh)
  BY <1>1, <1>3, <1>4 DEF PairOf
<1> QED
  BY <1>5 DEF il, ih

\* The diff between them.
LEMMA DiffOfPair ==
    ASSUME NEW pl, NEW ph, NEW i, NEW j, NEW ll, NEW lh, NEW rl, NEW rh,
           PagesOfPair(pl, ph, i, j, ll, lh, rl, rh)
    PROVE  DiffsBetween(SubSeq(pl, i, j), SubSeq(ph, i, j))[1] = DiffsBetween(pl, ph)[i]
<1> DEFINE il == SubSeq(pl, i, j)
           ih == SubSeq(ph, i, j)
           pd == DiffsBetween(pl, ph)
           n == Len(pl)
<1>1. Ends(pl, ph) /\ i \in 1 .. n /\ j \in 1 .. n /\ j = i + 1
  BY DEF PagesOfPair
<1>2. n \in Nat /\ n = Len(pl) /\ pd = DiffsBetween(pl, ph)
  BY <1>1, EndsAre
<1>3. i \in Nat /\ i <= j /\ j - 1 = i /\ i \in 1 .. n - 1
  BY <1>1, <1>2
<1>4. DiffsBetween(il, ih) = SubSeq(pd, i, j - 1)
  <2>1. Ends(pl, ph) /\ i \in 1 .. Len(pl) /\ j \in 1 .. Len(pl) /\ i <= j
    BY <1>1, <1>3
  <2> QED
    BY <2>1, EndsSub
<1> HIDE DEF pd, n, il, ih
<1>5. DiffsBetween(il, ih) = SubSeq(pd, i, i)
  BY <1>3, <1>4
<1>6. pd \in Seq(Nat) /\ Len(pd) = n - 1
  BY <1>1, <1>2, EndsShape
<1>7. SubSeq(pd, i, i)[1] = pd[i]
  BY <1>2, <1>3, <1>6
<1> QED
  BY <1>5, <1>7 DEF pd, il, ih

\* The diffs of two children, with that of the pair between them, are those of
\* the slots of both.
LEMMA EndsOfSiblings ==
    ASSUME NEW pl, NEW ph, NEW i, NEW j, NEW ll, NEW lh, NEW rl, NEW rh,
           PagesOfPair(pl, ph, i, j, ll, lh, rl, rh)
    PROVE  /\ Ends(ll \o rl, lh \o rh) /\ Len(ll \o rl) = Len(ll) + Len(rl)
           /\ DiffsBetween(ll \o rl, lh \o rh)
                = Append(DiffsBetween(ll, lh), DiffsBetween(pl, ph)[i]) \o DiffsBetween(rl, rh)
<1> DEFINE il == SubSeq(pl, i, j)
           ih == SubSeq(ph, i, j)
           pd == DiffsBetween(pl, ph)
<1>1. PairOf(il, ih, ll, lh, rl, rh)
  BY EndsOfPair
<1>2. DiffsBetween(il, ih)[1] = pd[i]
  BY DiffOfPair
<1> HIDE DEF il, ih, pd
<1>3. /\ Ends(ll \o rl, lh \o rh) /\ Len(ll \o rl) = Len(ll) + Len(rl)
      /\ DiffsBetween(ll \o rl, lh \o rh)
           = Append(DiffsBetween(ll, lh), DiffsBetween(il, ih)[1]) \o DiffsBetween(rl, rh)
  BY <1>1, EndsJoin
<1> QED
  BY <1>2, <1>3 DEF pd

\* Two children whose slots part at one route may become one child
\* (MergeSiblings): it has the slots of both and the diff of the route between
\* them, and the page loses the route: both pages stay of their kind.
THEOREM SiblingMergeKeepsPages ==
    ASSUME NEW page, NEW pl, NEW ph, KeyPage(page, pl, ph),
           NEW i, IsDirectRoutePair(page, i), NEW j, j = i + 1,
           NEW left, NEW ll, NEW lh, KeyPage(left, ll, lh),
           ll[1] = pl[i], lh[Len(lh)] = ph[i],
           NEW right, NEW rl, NEW rh, KeyPage(right, rl, rh),
           rl[1] = pl[j], rh[Len(rh)] = ph[j],
           NEW merged, Len(merged.reps) = Len(left.reps) + Len(right.reps),
           merged.routes = RoutesOf(Append(RouteDiffs(left), RouteDiffs(page)[i])
                                      \o RouteDiffs(right)),
           NEW new, Len(new.reps) = Len(page.reps) - 1,
           new.routes = RoutesOf(RemoveAt(RouteDiffs(page), i))
    PROVE  /\ KeyPage(merged, ll \o rl, lh \o rh)
           /\ KeyPage(new, RemoveAt(pl, j), RemoveAt(ph, i))
<1>1. /\ Ends(pl, ph) /\ Ends(ll, lh) /\ Ends(rl, rh)
      /\ Len(page.reps) = Len(pl) /\ Len(left.reps) = Len(ll) /\ Len(right.reps) = Len(rl)
  BY DEF KeyPage
<1>2. /\ RouteDiffs(page) = DiffsBetween(pl, ph) /\ RouteDiffs(left) = DiffsBetween(ll, lh)
      /\ RouteDiffs(right) = DiffsBetween(rl, rh)
  BY KeyPageIs, RouteDiffsAreDiffs
<1>3. /\ i \in 1 .. Len(pl) /\ j \in 1 .. Len(pl)
      /\ PartLater(DiffsBetween(pl, ph), i, j)
  BY DirectPairParts
<1>4. PagesOfPair(pl, ph, i, j, ll, lh, rl, rh)
  BY <1>1, <1>3 DEF PagesOfPair
<1>5. /\ Ends(ll \o rl, lh \o rh) /\ Len(ll \o rl) = Len(ll) + Len(rl)
      /\ DiffsBetween(ll \o rl, lh \o rh)
           = Append(DiffsBetween(ll, lh), DiffsBetween(pl, ph)[i]) \o DiffsBetween(rl, rh)
  BY <1>4, EndsOfSiblings
<1>6. /\ Ends(RemoveAt(pl, j), RemoveAt(ph, i)) /\ Len(RemoveAt(pl, j)) = Len(pl) - 1
      /\ DiffsBetween(RemoveAt(pl, j), RemoveAt(ph, i)) = RemoveAt(DiffsBetween(pl, ph), i)
  BY <1>1, <1>3, EndsOfMerged
<1>7. KeyPage(merged, ll \o rl, lh \o rh)
  BY <1>1, <1>2, <1>5 DEF KeyPage
<1>8. KeyPage(new, RemoveAt(pl, j), RemoveAt(ph, i))
  BY <1>1, <1>2, <1>6 DEF KeyPage
<1> QED
  BY <1>7, <1>8
=============================================================================
