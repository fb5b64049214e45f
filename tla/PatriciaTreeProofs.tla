------------------------- MODULE PatriciaTreeProofs -------------------------
(***************************************************************************)
(* The routes of a page as the Cartesian tree of its diffs, for pages of   *)
(* any size: RoutesOf makes it, no other routes have its form, RouteDiffs  *)
(* reads it back, and InsertRoute and DeleteRoute, which edit the routes   *)
(* in place, keep it.                                                      *)
(***************************************************************************)
EXTENDS PatriciaPage, PatriciaKeysProofs

-----------------------------------------------------------------------------
(* Induction over a set of numbers, and orbits *)

\* A set that has every number whose predecessors it has, has all.
LEMMA StrongInduction ==
    ASSUME NEW T \in SUBSET Nat,
           \A n \in Nat : (\A m \in 0 .. n - 1 : m \in T) => n \in T
    PROVE  T = Nat
<1> SUFFICES ASSUME Nat \ T # {}
             PROVE  FALSE
  OBVIOUS
<1>1. PICK m \in Nat \ T : \A n \in Nat \ T : m <= n
  BY Smallest
<1>2. \A n \in 0 .. m - 1 : n \in T
  BY <1>1
<1> QED
  BY <1>1, <1>2

\* The orbit of x up to its element k.
IsOrbitUpTo(k, o, step, x) ==
    o = [i \in 0 .. k |-> IF i = 0 THEN x ELSE step[o[i - 1]]]

\* The recursion of Orbit is defined up to every number.
LEMMA OrbitUpToExists ==
    ASSUME NEW step, NEW x, NEW k \in Nat
    PROVE  \E o : IsOrbitUpTo(k, o, step, x)
<1> DEFINE T == {n \in Nat : \E o : IsOrbitUpTo(n, o, step, x)}
<1>1. 0 \in T
  <2>1. IsOrbitUpTo(0, [i \in 0 .. 0 |-> x], step, x)
    BY DEF IsOrbitUpTo
  <2> QED
    BY <2>1
<1>2. ASSUME NEW n \in T
      PROVE  n + 1 \in T
  <2>1. n \in Nat
    OBVIOUS
  <2>2. PICK o : IsOrbitUpTo(n, o, step, x)
    OBVIOUS
  <2> DEFINE p == [i \in 0 .. n + 1 |-> IF i = n + 1 THEN step[o[n]] ELSE o[i]]
             q == [i \in 0 .. n + 1 |-> IF i = 0 THEN x ELSE step[p[i - 1]]]
  <2>3. ASSUME NEW i \in 0 .. n + 1
        PROVE  p[i] = q[i]
    <3>1. \A j \in 0 .. n : o[j] = IF j = 0 THEN x ELSE step[o[j - 1]]
      BY <2>2, Zenon DEF IsOrbitUpTo
    <3>2. CASE i = n + 1
      BY <2>1, <3>2
    <3>3. CASE i \in 0 .. n
      <4>1. p[i] = o[i]
        BY <2>1, <3>3
      <4>2. i # 0 => p[i - 1] = o[i - 1]
        BY <2>1, <3>3
      <4> QED
        BY <2>1, <3>1, <3>3, <4>1, <4>2
    <3> QED
      BY <2>1, <3>2, <3>3
  <2>4. p = q
    BY <2>3
  <2>5. IsOrbitUpTo(n + 1, p, step, x)
    BY <2>4 DEF IsOrbitUpTo
  <2> QED
    BY <2>1, <2>5
<1>3. T = Nat
  <2> HIDE DEF T
  <2>1. T \in SUBSET Nat
    BY DEF T
  <2> QED
    BY <1>1, <1>2, <2>1, SetInduction
<1> QED
  BY <1>3

\* Two starts of an orbit agree as far as both go.
LEMMA OrbitUpToUnique ==
    ASSUME NEW step, NEW x,
           NEW k \in Nat, NEW o, IsOrbitUpTo(k, o, step, x),
           NEW l \in Nat, NEW p, IsOrbitUpTo(l, p, step, x),
           NEW i \in Nat, i <= k, i <= l
    PROVE  o[i] = p[i]
<1> DEFINE T == {n \in Nat : n <= k /\ n <= l => o[n] = p[n]}
<1>1. /\ \A j \in 0 .. k : o[j] = IF j = 0 THEN x ELSE step[o[j - 1]]
      /\ \A j \in 0 .. l : p[j] = IF j = 0 THEN x ELSE step[p[j - 1]]
  BY Zenon DEF IsOrbitUpTo
<1>2. 0 \in T
  BY <1>1
<1>3. ASSUME NEW n \in T
      PROVE  n + 1 \in T
  <2> SUFFICES ASSUME n + 1 <= k, n + 1 <= l
               PROVE  o[n + 1] = p[n + 1]
    OBVIOUS
  <2>1. n + 1 \in 0 .. k /\ n + 1 \in 0 .. l /\ (n + 1) - 1 = n /\ n + 1 # 0
    OBVIOUS
  <2>2. o[n] = p[n]
    OBVIOUS
  <2> QED
    BY <1>1, <2>1, <2>2
<1>4. T = Nat
  <2> HIDE DEF T
  <2>1. T \in SUBSET Nat
    BY DEF T
  <2> QED
    BY <1>2, <1>3, <2>1, SetInduction
<1> QED
  BY <1>4

\* The recursive definition of an orbit defines what it says.
LEMMA OrbitIs ==
    ASSUME NEW step, NEW x
    PROVE  /\ Orbit(step, x)[0] = x
           /\ \A i \in Nat : Orbit(step, x)[i + 1] = step[Orbit(step, x)[i]]
<1> DEFINE UpTo(k, o) == IsOrbitUpTo(k, o, step, x)
           Some(k) == CHOOSE o : UpTo(k, o)
           all == [i \in Nat |-> Some(i)[i]]
           Next(o) == [i \in Nat |-> IF i = 0 THEN x ELSE step[o[i - 1]]]
<1>1. \A k \in Nat : UpTo(k, Some(k))
  BY OrbitUpToExists
<1> HIDE DEF Some
<1>2. \A k \in Nat : \A i \in 0 .. k :
        Some(k)[i] = IF i = 0 THEN x ELSE step[Some(k)[i - 1]]
  BY <1>1, Zenon DEF IsOrbitUpTo
<1>3. ASSUME NEW i \in Nat
      PROVE  all[i] = Next(all)[i]
  <2>1. CASE i = 0
    BY <1>2, <2>1
  <2>2. CASE i # 0
    <3>1. i - 1 \in Nat /\ i \in 0 .. i /\ i - 1 <= i /\ i - 1 <= i - 1
      BY <2>2
    <3>2. Some(i)[i] = step[Some(i)[i - 1]]
      BY <1>2, <2>2, <3>1
    <3>3. UpTo(i, Some(i)) /\ UpTo(i - 1, Some(i - 1))
      BY <1>1, <3>1
    <3>4. Some(i)[i - 1] = Some(i - 1)[i - 1]
      BY <3>1, <3>3, OrbitUpToUnique
    <3> QED
      BY <2>2, <3>1, <3>2, <3>4
  <2> QED
    BY <2>1, <2>2
<1>4. all = Next(all)
  BY <1>3
<1>5. Orbit(step, x) = CHOOSE o : o = Next(o)
  BY DEF Orbit
<1>6. \E o : o = Next(o)
  BY <1>4
<1> HIDE DEF Next
<1>7. Orbit(step, x) = Next(Orbit(step, x))
  BY <1>5, <1>6
<1> DEFINE orbit == Orbit(step, x)
<1> HIDE DEF orbit
<1>8. orbit = Next(orbit)
  BY <1>7 DEF orbit
<1>9. \A i \in Nat : orbit[i] = IF i = 0 THEN x ELSE step[orbit[i - 1]]
  BY <1>8, Zenon DEF Next
<1>10. /\ orbit[0] = x
       /\ \A i \in Nat : orbit[i + 1] = step[orbit[i]]
  BY <1>9
<1> QED
  BY <1>10 DEF orbit

\* An orbit stays in a set that its step does not leave.
LEMMA OrbitStays ==
    ASSUME NEW S, NEW step, NEW x \in S, \A s \in S : step[s] \in S
    PROVE  \A i \in Nat : Orbit(step, x)[i] \in S
<1> DEFINE T == {i \in Nat : Orbit(step, x)[i] \in S}
<1>1. 0 \in T /\ \A i \in T : i + 1 \in T
  BY OrbitIs
<1>2. T = Nat
  <2> HIDE DEF T
  <2>1. T \in SUBSET Nat
    BY DEF T
  <2> QED
    BY <1>1, <2>1, SetInduction
<1> QED
  BY <1>2

-----------------------------------------------------------------------------
(* The frames of a tree *)

\* Each frame of G that is not a slot parts into two frames of G.
Closed(tree, G) ==
    \A f \in G : IsRoute(f) =>
        /\ tree[f] \in 1 .. f.n - 1
        /\ LeftOf(tree, f) \in G
        /\ RightOf(tree, f) \in G

\* tree parts the whole page into its slots.
IsTree(tree, size) ==
    /\ size \in Nat \ {0}
    /\ DOMAIN tree = Frame(size)
    /\ \E G \in SUBSET Frame(size) : WholePage(size) \in G /\ Closed(tree, G)

\* The slots and the routes of g are among those of f.
Inside(g, f) ==
    /\ f.lo <= g.lo /\ g.lo + g.n <= f.lo + f.n
    /\ f.node <= g.node /\ g.node + g.n <= f.node + f.n

\* The slots and the routes of f come before those of g.
Before(f, g) ==
    /\ f.lo + f.n <= g.lo
    /\ f.node + f.n - 1 <= g.node

\* A frame is a record of three numbers up to the size of the page.
LEMMA FrameType ==
    ASSUME NEW size \in Nat, NEW f \in Frame(size)
    PROVE  /\ f.node \in 1 .. size /\ f.lo \in 1 .. size /\ f.n \in 1 .. size
           /\ f = [node |-> f.node, lo |-> f.lo, n |-> f.n]
BY DEF Frame

\* Frames with the same numbers are the same.
LEMMA FrameEqual ==
    ASSUME NEW size \in Nat, NEW f \in Frame(size), NEW g \in Frame(size),
           f.node = g.node, f.lo = g.lo, f.n = g.n
    PROVE  f = g
BY FrameType

\* The step whose orbit is FramesBelow.
Step(tree) == [frames \in SUBSET DOMAIN tree |-> frames \cup Children(tree, frames)]

\* FramesBelow is the orbit of Step.
LEMMA FramesBelowIsOrbit ==
    ASSUME NEW tree, NEW f
    PROVE  FramesBelow(tree, f) = Orbit(Step(tree), {f})[f.n]
BY DEF FramesBelow, Step

\* The children of a set of frames are the two sides of its routes.
LEMMA ChildrenOf ==
    ASSUME NEW tree, NEW frames, NEW c
    PROVE  c \in Children(tree, frames) <=>
             \E g \in frames : IsRoute(g) /\ (c = LeftOf(tree, g) \/ c = RightOf(tree, g))
BY DEF Children

\* What holds of f, and of the two parts of each frame it holds of, holds of
\* all frames below f.
LEMMA FrameInduction ==
    ASSUME NEW size \in Nat, NEW tree, DOMAIN tree = Frame(size),
           NEW G \in SUBSET Frame(size), Closed(tree, G), NEW f \in G,
           NEW S, f \in S,
           \A g \in G \cap S : IsRoute(g) =>
                LeftOf(tree, g) \in S /\ RightOf(tree, g) \in S
    PROVE  FramesBelow(tree, f) \subseteq G \cap S
<1> DEFINE Q == SUBSET (G \cap S)
<1>1. {f} \in Q
  OBVIOUS
<1>2. ASSUME NEW frames \in Q
      PROVE  Step(tree)[frames] \in Q
  <2>1. frames \in SUBSET DOMAIN tree
    OBVIOUS
  <2>2. Step(tree)[frames] = frames \cup Children(tree, frames)
    BY <2>1 DEF Step
  <2>3. Children(tree, frames) \subseteq G \cap S
    BY ChildrenOf DEF Closed
  <2> QED
    BY <2>2, <2>3
<1>3. f.n \in Nat
  BY FrameType
<1>4. \A i \in Nat : Orbit(Step(tree), {f})[i] \in Q
  <2> HIDE DEF Q
  <2> QED
    BY <1>1, <1>2, OrbitStays
<1> QED
  BY <1>3, <1>4, FramesBelowIsOrbit

\* The frames below f are f and the parts of all of them.
LEMMA FramesBelowIs ==
    ASSUME NEW size \in Nat, NEW tree, DOMAIN tree = Frame(size),
           NEW G \in SUBSET Frame(size), Closed(tree, G), NEW f \in G
    PROVE  /\ f \in FramesBelow(tree, f)
           /\ FramesBelow(tree, f) \subseteq G
           /\ Closed(tree, FramesBelow(tree, f))
<1> DEFINE o == Orbit(Step(tree), {f})
           Done(g, F) == IsRoute(g) => LeftOf(tree, g) \in F /\ RightOf(tree, g) \in F
           T == {k \in Nat : /\ f \in o[k] /\ o[k] \subseteq G
                             /\ \A g \in o[k] : Done(g, o[k]) \/ g.n <= f.n - k}
<1>0. f.n \in Nat
  BY FrameType
<1>1. 0 \in T
  <2>1. o[0] = {f}
    BY OrbitIs
  <2> HIDE DEF o
  <2>2. f \in o[0] /\ o[0] \subseteq G
    BY <2>1
  <2>3. \A g \in o[0] : g.n <= f.n - 0
    BY <1>0, <2>1
  <2> QED
    BY <2>2, <2>3
<1>2. ASSUME NEW k \in T
      PROVE  k + 1 \in T
  <2> DEFINE F == o[k]
             E == o[k + 1]
  <2>1. /\ k \in Nat /\ f \in F /\ F \subseteq G
        /\ \A g \in F : Done(g, F) \/ g.n <= f.n - k
    OBVIOUS
  <2>2. E = F \cup Children(tree, F)
    <3>1. E = Step(tree)[F]
      BY <2>1, OrbitIs
    <3>2. F \in SUBSET DOMAIN tree
      BY <2>1
    <3> HIDE DEF E, F
    <3> QED
      BY <3>1, <3>2 DEF Step
  <2> HIDE DEF o, E, F, T
  <2>3. \A c \in E : c \in F \/ \E g \in F : IsRoute(g) /\ (c = LeftOf(tree, g) \/ c = RightOf(tree, g))
    BY <2>2, ChildrenOf
  <2>4. \A g \in F : Done(g, E)
    BY <2>2, ChildrenOf
  <2>5. f \in E /\ E \subseteq G
    BY <2>1, <2>2, <2>3 DEF Closed
  <2>6. ASSUME NEW c \in E
        PROVE  Done(c, E) \/ c.n <= f.n - (k + 1)
    <3>1. CASE c \in F
      BY <2>4, <3>1
    <3>2. CASE c \notin F
      <4>1. PICK g \in F : IsRoute(g) /\ (c = LeftOf(tree, g) \/ c = RightOf(tree, g))
        BY <2>3, <3>2
      <4>2. g.n <= f.n - k
        BY <2>1, <3>2, <4>1
      <4>3. g \in G /\ tree[g] \in 1 .. g.n - 1 /\ g.n \in Nat
        BY <2>1, <4>1, FrameType DEF Closed
      <4>4. c.n <= g.n - 1
        BY <4>1, <4>3 DEF LeftOf, RightOf
      <4>5. c.n \in Nat
        BY <2>5, FrameType
      <4> QED
        BY <1>0, <2>1, <4>2, <4>3, <4>4, <4>5
    <3> QED
      BY <3>1, <3>2
  <2> QED
    BY <2>1, <2>5, <2>6 DEF T, E
<1>3. T = Nat
  <2> HIDE DEF T
  <2>1. T \in SUBSET Nat
    BY DEF T
  <2> QED
    BY <1>1, <1>2, <2>1, SetInduction
<1>4. f.n \in T
  BY <1>0, <1>3
<1> DEFINE F == o[f.n]
<1>5. /\ f \in F /\ F \subseteq G
      /\ \A g \in F : Done(g, F) \/ g.n <= f.n - f.n
  BY <1>4
<1>6. FramesBelow(tree, f) = F
  BY FramesBelowIsOrbit
<1> HIDE DEF o, F, T
<1>7. \A g \in F : Done(g, F)
  <2> SUFFICES ASSUME NEW g \in F
               PROVE  ~(g.n <= f.n - f.n)
    BY <1>5
  <2>1. g.n \in 1 .. size
    BY <1>5, FrameType
  <2> QED
    BY <1>0, <2>1
<1>8. Closed(tree, F)
  BY <1>5, <1>7 DEF Closed
<1> QED
  BY <1>5, <1>6, <1>8

\* The frames of a tree are closed under taking sides.
LEMMA TreeFrames ==
    ASSUME NEW size, NEW tree, IsTree(tree, size)
    PROVE  LET all == FramesBelow(tree, WholePage(size))
           IN  /\ size \in Nat \ {0} /\ DOMAIN tree = Frame(size)
               /\ all \in SUBSET Frame(size)
               /\ Closed(tree, all)
               /\ WholePage(size) \in all
<1>1. PICK G \in SUBSET Frame(size) : WholePage(size) \in G /\ Closed(tree, G)
  BY DEF IsTree
<1>2. size \in Nat \ {0} /\ DOMAIN tree = Frame(size)
  BY DEF IsTree
<1> QED
  BY <1>1, <1>2, FramesBelowIs

-----------------------------------------------------------------------------
(* How the frames of a tree lie to each other.  G is the set of all of them. *)

\* A frame below another lies inside it.
LEMMA BelowIsInside ==
    ASSUME NEW size \in Nat, NEW tree, DOMAIN tree = Frame(size),
           NEW G \in SUBSET Frame(size), Closed(tree, G), NEW f \in G,
           NEW g \in FramesBelow(tree, f)
    PROVE  Inside(g, f)
<1> DEFINE S == {h \in G : Inside(h, f)}
<1>1. f \in S
  BY FrameType DEF Inside
<1>2. ASSUME NEW h \in G \cap S, IsRoute(h)
      PROVE  LeftOf(tree, h) \in S /\ RightOf(tree, h) \in S
  <2>1. /\ h.node \in Nat /\ h.lo \in Nat /\ h.n \in Nat /\ tree[h] \in 1 .. h.n - 1
        /\ f.node \in Nat /\ f.lo \in Nat /\ f.n \in Nat
        /\ Inside(h, f) /\ LeftOf(tree, h) \in G /\ RightOf(tree, h) \in G
    BY <1>2, FrameType DEF Closed
  <2>2. Inside(LeftOf(tree, h), f)
    BY <2>1 DEF Inside, LeftOf
  <2>3. Inside(RightOf(tree, h), f)
    BY <2>1 DEF Inside, RightOf
  <2> QED
    BY <2>1, <2>2, <2>3
<1>3. FramesBelow(tree, f) \subseteq G \cap S
  <2> HIDE DEF S
  <2> QED
    BY <1>1, <1>2, FrameInduction
<1> QED
  BY <1>3

\* The frames below f are f and those below its two parts.
LEMMA BelowParts ==
    ASSUME NEW size \in Nat, NEW tree, DOMAIN tree = Frame(size),
           NEW G \in SUBSET Frame(size), Closed(tree, G), NEW f \in G
    PROVE  FramesBelow(tree, f) =
             IF IsRoute(f)
             THEN {f} \cup FramesBelow(tree, LeftOf(tree, f))
                      \cup FramesBelow(tree, RightOf(tree, f))
             ELSE {f}
<1>1. ASSUME NEW g \in FramesBelow(tree, f)
      PROVE  FramesBelow(tree, g) \subseteq FramesBelow(tree, f)
  <2> DEFINE F == FramesBelow(tree, f)
  <2>1. F \in SUBSET Frame(size) /\ Closed(tree, F) /\ g \in F
    BY FramesBelowIs
  <2> HIDE DEF F
  <2> QED
    BY <2>1, FramesBelowIs DEF F
<1>2. f \in FramesBelow(tree, f) /\ Closed(tree, FramesBelow(tree, f))
  BY FramesBelowIs
<1>3. CASE IsRoute(f)
  <2> DEFINE l == LeftOf(tree, f)
             r == RightOf(tree, f)
             S == {f} \cup FramesBelow(tree, l) \cup FramesBelow(tree, r)
  <2>1. l \in G /\ r \in G
    BY <1>3 DEF Closed
  <2>2. l \in FramesBelow(tree, f) /\ r \in FramesBelow(tree, f)
    BY <1>2, <1>3 DEF Closed
  <2>3. S \subseteq FramesBelow(tree, f)
    BY <1>1, <1>2, <2>2
  <2>4. /\ l \in FramesBelow(tree, l) /\ Closed(tree, FramesBelow(tree, l))
        /\ r \in FramesBelow(tree, r) /\ Closed(tree, FramesBelow(tree, r))
    BY <2>1, FramesBelowIs
  <2>5. \A g \in G \cap S : IsRoute(g) => LeftOf(tree, g) \in S /\ RightOf(tree, g) \in S
    BY <2>4 DEF Closed
  <2>6. FramesBelow(tree, f) \subseteq G \cap S
    <3>1. f \in S
      OBVIOUS
    <3> HIDE DEF S
    <3> QED
      BY <2>5, <3>1, FrameInduction
  <2> QED
    BY <1>3, <2>3, <2>6
<1>4. CASE ~IsRoute(f)
  <2> DEFINE S == {f}
  <2>1. f \in S /\ \A g \in G \cap S : ~IsRoute(g)
    BY <1>4
  <2>2. FramesBelow(tree, f) \subseteq G \cap S
    <3> HIDE DEF S
    <3> QED
      BY <2>1, FrameInduction
  <2> QED
    BY <1>2, <1>4, <2>2
<1> QED
  BY <1>3, <1>4

\* What is below a frame below f is below f.
LEMMA BelowBelow ==
    ASSUME NEW size \in Nat, NEW tree, DOMAIN tree = Frame(size),
           NEW G \in SUBSET Frame(size), Closed(tree, G), NEW f \in G,
           NEW g \in FramesBelow(tree, f)
    PROVE  g \in G /\ FramesBelow(tree, g) \subseteq FramesBelow(tree, f)
<1> DEFINE F == FramesBelow(tree, f)
<1>1. F \in SUBSET Frame(size) /\ Closed(tree, F) /\ g \in F /\ F \subseteq G
  BY FramesBelowIs
<1> HIDE DEF F
<1> QED
  BY <1>1, FramesBelowIs DEF F

\* The frames of the whole page.
AllFrames(tree, size) == FramesBelow(tree, WholePage(size))

\* The numbers of a frame and of its parts.
LEMMA PartsAre ==
    ASSUME NEW size, NEW tree, IsTree(tree, size),
           NEW f \in AllFrames(tree, size)
    PROVE  /\ size \in Nat \ {0}
           /\ f.node \in Nat \ {0} /\ f.lo \in Nat \ {0} /\ f.n \in Nat \ {0}
           /\ f \in Frame(size)
           /\ f.lo + f.n - 1 <= size /\ f.node + f.n - 1 <= size
           /\ IsRoute(f) => LET l == LeftOf(tree, f)
                                r == RightOf(tree, f)
                            IN  /\ tree[f] \in 1 .. f.n - 1
                                /\ l \in AllFrames(tree, size)
                                /\ r \in AllFrames(tree, size)
                                /\ l.node = f.node + 1 /\ l.lo = f.lo /\ l.n = tree[f]
                                /\ r.node = f.node + tree[f] /\ r.lo = f.lo + tree[f]
                                /\ r.n = f.n - tree[f]
                                /\ Before(l, r)
<1> DEFINE G == AllFrames(tree, size)
           w == WholePage(size)
<1>1. /\ size \in Nat \ {0} /\ DOMAIN tree = Frame(size)
      /\ G \in SUBSET Frame(size) /\ Closed(tree, G) /\ w \in G
  BY TreeFrames DEF AllFrames
<1>2. f \in G /\ f \in Frame(size)
  BY <1>1
<1>3. /\ f.node \in Nat \ {0} /\ f.lo \in Nat \ {0} /\ f.n \in Nat \ {0}
  BY <1>1, <1>2, FrameType
<1>4. Inside(f, w)
  <2>1. f \in FramesBelow(tree, w)
    BY <1>2 DEF AllFrames
  <2> HIDE DEF G, w
  <2> QED
    BY <1>1, <2>1, BelowIsInside
<1>5. f.lo + f.n - 1 <= size /\ f.node + f.n - 1 <= size
  BY <1>1, <1>3, <1>4 DEF Inside, WholePage
<1>6. ASSUME IsRoute(f)
      PROVE  LET l == LeftOf(tree, f)
                 r == RightOf(tree, f)
             IN  /\ tree[f] \in 1 .. f.n - 1 /\ l \in G /\ r \in G
                 /\ l.node = f.node + 1 /\ l.lo = f.lo /\ l.n = tree[f]
                 /\ r.node = f.node + tree[f] /\ r.lo = f.lo + tree[f]
                 /\ r.n = f.n - tree[f]
                 /\ Before(l, r)
  <2>1. tree[f] \in 1 .. f.n - 1 /\ LeftOf(tree, f) \in G /\ RightOf(tree, f) \in G
    BY <1>1, <1>2, <1>6 DEF Closed
  <2> HIDE DEF G
  <2> QED
    BY <1>3, <2>1 DEF LeftOf, RightOf, Before
<1> QED
  BY <1>1, <1>2, <1>3, <1>5, <1>6

\* The subtree of a frame: the frame itself and the subtrees of its sides.
LEMMA AllBelow ==
    ASSUME NEW size, NEW tree, IsTree(tree, size),
           NEW f \in AllFrames(tree, size)
    PROVE  /\ f \in FramesBelow(tree, f)
           /\ \A g \in FramesBelow(tree, f) :
                /\ g \in AllFrames(tree, size)
                /\ Inside(g, f)
                /\ FramesBelow(tree, g) \subseteq FramesBelow(tree, f)
           /\ FramesBelow(tree, f) =
                IF IsRoute(f)
                THEN {f} \cup FramesBelow(tree, LeftOf(tree, f))
                         \cup FramesBelow(tree, RightOf(tree, f))
                ELSE {f}
           /\ IsRoute(f) => /\ LeftOf(tree, f) \in FramesBelow(tree, f)
                            /\ RightOf(tree, f) \in FramesBelow(tree, f)
<1> DEFINE G == AllFrames(tree, size)
<1>1. /\ size \in Nat /\ DOMAIN tree = Frame(size)
      /\ G \in SUBSET Frame(size) /\ Closed(tree, G) /\ f \in G
  BY TreeFrames DEF AllFrames
<1> HIDE DEF G
<1>2. f \in FramesBelow(tree, f) /\ Closed(tree, FramesBelow(tree, f))
  BY <1>1, FramesBelowIs
<1>3. \A g \in FramesBelow(tree, f) :
         g \in G /\ Inside(g, f) /\ FramesBelow(tree, g) \subseteq FramesBelow(tree, f)
  BY <1>1, BelowIsInside, BelowBelow
<1>4. FramesBelow(tree, f) =
        IF IsRoute(f)
        THEN {f} \cup FramesBelow(tree, LeftOf(tree, f))
                 \cup FramesBelow(tree, RightOf(tree, f))
        ELSE {f}
  BY <1>1, BelowParts
<1>5. IsRoute(f) => /\ LeftOf(tree, f) \in FramesBelow(tree, f)
                    /\ RightOf(tree, f) \in FramesBelow(tree, f)
  BY <1>2 DEF Closed
<1> QED
  BY <1>2, <1>3, <1>4, <1>5 DEF G

\* Frames inside two frames, one before the other, stand in the same order.
LEMMA BeforeInside ==
    ASSUME NEW size \in Nat,
           NEW f \in Frame(size), NEW g \in Frame(size),
           NEW e \in Frame(size), NEW h \in Frame(size),
           Before(f, g), Inside(e, f), Inside(h, g)
    PROVE  Before(e, h)
<1>1. /\ f.node \in Nat /\ f.lo \in Nat /\ f.n \in Nat
      /\ g.node \in Nat /\ g.lo \in Nat /\ g.n \in Nat
      /\ e.node \in Nat /\ e.lo \in Nat /\ e.n \in Nat
      /\ h.node \in Nat /\ h.lo \in Nat /\ h.n \in Nat
  BY FrameType
<1> QED
  BY <1>1 DEF Before, Inside

\* Of two frames, one is below the other or all of one comes before the other.
LEMMA FramesNest ==
    ASSUME NEW size, NEW tree, IsTree(tree, size),
           NEW f \in AllFrames(tree, size), NEW g \in AllFrames(tree, size)
    PROVE  \/ g \in FramesBelow(tree, f) \/ f \in FramesBelow(tree, g)
           \/ Before(f, g) \/ Before(g, f)
<1> DEFINE G == AllFrames(tree, size)
           Nest(e, h) == \/ h \in FramesBelow(tree, e) \/ e \in FramesBelow(tree, h)
                         \/ Before(e, h) \/ Before(h, e)
           S == {e \in G : \A h \in G : Nest(e, h)}
           w == WholePage(size)
<1>1. /\ size \in Nat /\ DOMAIN tree = Frame(size)
      /\ G \in SUBSET Frame(size) /\ Closed(tree, G) /\ w \in G
      /\ G = FramesBelow(tree, w)
  BY TreeFrames DEF AllFrames
<1>2. w \in S
  BY <1>1
<1>3. ASSUME NEW e \in G \cap S, IsRoute(e)
      PROVE  LeftOf(tree, e) \in S /\ RightOf(tree, e) \in S
  <2> DEFINE l == LeftOf(tree, e)
             r == RightOf(tree, e)
  <2>1. /\ l \in G /\ r \in G /\ Before(l, r)
        /\ l \in FramesBelow(tree, e) /\ r \in FramesBelow(tree, e)
        /\ e \in G /\ l \in Frame(size) /\ r \in Frame(size)
    BY <1>1, <1>3, PartsAre, AllBelow
  <2>2. FramesBelow(tree, e) = {e} \cup FramesBelow(tree, l) \cup FramesBelow(tree, r)
    BY <1>3, <2>1, AllBelow
  <2>3. ASSUME NEW h \in G, NEW c \in {l, r}
        PROVE  Nest(c, h)
    <3>1. Nest(e, h)
      BY <2>1
    <3>2. c \in G /\ c \in FramesBelow(tree, e) /\ Inside(c, e)
      BY <2>1, AllBelow
    <3>3. CASE h = e
      BY <3>2, <3>3
    <3>4. CASE h \in FramesBelow(tree, l)
      <4>1. Inside(h, l) /\ Inside(r, r)
        BY <2>1, <3>4, AllBelow
      <4>2. Before(h, r)
        BY <1>1, <2>1, <4>1, BeforeInside
      <4> QED
        BY <3>4, <4>2
    <3>5. CASE h \in FramesBelow(tree, r)
      <4>1. Inside(h, r) /\ Inside(l, l)
        BY <2>1, <3>5, AllBelow
      <4>2. Before(l, h)
        BY <1>1, <2>1, <4>1, BeforeInside
      <4> QED
        BY <3>5, <4>2
    <3>6. CASE e \in FramesBelow(tree, h)
      BY <3>2, <3>6, AllBelow
    <3>7. CASE Before(e, h) \/ Before(h, e)
      <4>1. Inside(h, h) /\ Inside(c, e)
        BY <3>2, AllBelow
      <4>2. Before(e, h) => Before(c, h)
        BY <1>1, <2>1, <3>2, <4>1, BeforeInside
      <4>3. Before(h, e) => Before(h, c)
        BY <1>1, <2>1, <3>2, <4>1, BeforeInside
      <4> QED
        BY <3>7, <4>2, <4>3
    <3> QED
      BY <2>2, <3>1, <3>3, <3>4, <3>5, <3>6, <3>7
  <2> QED
    BY <2>1, <2>3
<1>4. FramesBelow(tree, w) \subseteq G \cap S
  <2> HIDE DEF S, G, w
  <2> QED
    BY <1>1, <1>2, <1>3, FrameInduction
<1> QED
  BY <1>1, <1>4

\* No two routes have one number, and no two part their slots at one place.
LEMMA RouteIsUnique ==
    ASSUME NEW size, NEW tree, IsTree(tree, size),
           NEW f \in AllFrames(tree, size), NEW g \in AllFrames(tree, size),
           IsRoute(f), IsRoute(g),
           f.node = g.node \/ f.lo + tree[f] = g.lo + tree[g]
    PROVE  f = g
<1> DEFINE Same(e, h) == e.node = h.node \/ e.lo + tree[e] = h.lo + tree[h]
<1>1. ASSUME NEW e \in AllFrames(tree, size), NEW h \in AllFrames(tree, size),
             IsRoute(e), IsRoute(h), Same(e, h), h \in FramesBelow(tree, e)
      PROVE  e = h
  <2> DEFINE l == LeftOf(tree, e)
             r == RightOf(tree, e)
  <2>1. /\ e.node \in Nat /\ e.lo \in Nat /\ e.n \in Nat /\ tree[e] \in 1 .. e.n - 1
        /\ l \in AllFrames(tree, size) /\ r \in AllFrames(tree, size)
        /\ l.node = e.node + 1 /\ l.lo = e.lo /\ l.n = tree[e]
        /\ r.node = e.node + tree[e] /\ r.lo = e.lo + tree[e] /\ r.n = e.n - tree[e]
        /\ h.node \in Nat /\ h.lo \in Nat /\ h.n \in Nat /\ tree[h] \in 1 .. h.n - 1
    BY <1>1, PartsAre
  <2>2. h = e \/ h \in FramesBelow(tree, l) \/ h \in FramesBelow(tree, r)
    BY <1>1, AllBelow
  <2>3. CASE h \in FramesBelow(tree, l)
    <3>1. Inside(h, l)
      BY <2>1, <2>3, AllBelow
    <3> HIDE DEF l, r
    <3> QED
      BY <1>1, <2>1, <3>1 DEF Inside
  <2>4. CASE h \in FramesBelow(tree, r)
    <3>1. Inside(h, r)
      BY <2>1, <2>4, AllBelow
    <3> HIDE DEF l, r
    <3> QED
      BY <1>1, <2>1, <3>1 DEF Inside
  <2> QED
    BY <2>2, <2>3, <2>4
<1>2. ASSUME NEW e \in AllFrames(tree, size), NEW h \in AllFrames(tree, size),
             IsRoute(e), IsRoute(h), Before(e, h)
      PROVE  ~Same(e, h)
  <2>1. /\ e.node \in Nat /\ e.lo \in Nat /\ e.n \in Nat /\ tree[e] \in 1 .. e.n - 1
        /\ h.node \in Nat /\ h.lo \in Nat /\ h.n \in Nat /\ tree[h] \in 1 .. h.n - 1
    BY <1>2, PartsAre
  <2> QED
    BY <1>2, <2>1 DEF Before
<1>3. Same(f, g) /\ Same(g, f)
  OBVIOUS
<1> HIDE DEF Same
<1> QED
  BY <1>1, <1>2, <1>3, FramesNest

\* Every number and every place between two slots of a frame has its route.
LEMMA RoutesCover ==
    ASSUME NEW size, NEW tree, IsTree(tree, size),
           NEW f \in AllFrames(tree, size)
    PROVE  /\ \A j \in f.node .. f.node + f.n - 2 :
                \E g \in FramesBelow(tree, f) : IsRoute(g) /\ g.node = j
           /\ \A j \in f.lo .. f.lo + f.n - 2 :
                \E g \in FramesBelow(tree, f) : IsRoute(g) /\ g.lo + tree[g] - 1 = j
<1> DEFINE HasNode(e, j) == \E g \in FramesBelow(tree, e) : IsRoute(g) /\ g.node = j
           HasPlace(e, j) == \E g \in FramesBelow(tree, e) :
                                IsRoute(g) /\ g.lo + tree[g] - 1 = j
           Covered(e) == /\ \A j \in e.node .. e.node + e.n - 2 : HasNode(e, j)
                         /\ \A j \in e.lo .. e.lo + e.n - 2 : HasPlace(e, j)
           T == {n \in Nat : \A e \in AllFrames(tree, size) : e.n = n => Covered(e)}
<1>1. ASSUME NEW n \in Nat, \A m \in 0 .. n - 1 : m \in T
      PROVE  n \in T
  <2> SUFFICES ASSUME NEW e \in AllFrames(tree, size), e.n = n
               PROVE  Covered(e)
    OBVIOUS
  <2>1. CASE IsRoute(e)
    <3> DEFINE l == LeftOf(tree, e)
               r == RightOf(tree, e)
    <3>1. /\ e.node \in Nat /\ e.lo \in Nat /\ e.n \in Nat /\ tree[e] \in 1 .. e.n - 1
          /\ l \in AllFrames(tree, size) /\ r \in AllFrames(tree, size)
          /\ l.node = e.node + 1 /\ l.lo = e.lo /\ l.n = tree[e]
          /\ r.node = e.node + tree[e] /\ r.lo = e.lo + tree[e] /\ r.n = e.n - tree[e]
      BY <2>1, PartsAre
    <3>2. e \in FramesBelow(tree, e) /\ FramesBelow(tree, l) \subseteq FramesBelow(tree, e)
          /\ FramesBelow(tree, r) \subseteq FramesBelow(tree, e)
      BY <2>1, AllBelow
    <3>3. Covered(l) /\ Covered(r)
      <4>1. l.n \in 0 .. n - 1 /\ r.n \in 0 .. n - 1
        BY <3>1
      <4> HIDE DEF Covered, l, r
      <4> QED
        BY <1>1, <3>1, <4>1
    <3> HIDE DEF l, r
    <3>4. ASSUME NEW j \in e.node .. e.node + e.n - 2
          PROVE  HasNode(e, j)
      <4>1. CASE j = e.node
        BY <2>1, <3>2, <4>1
      <4>2. CASE j \in l.node .. l.node + l.n - 2
        BY <3>2, <3>3, <4>2
      <4>3. CASE j \in r.node .. r.node + r.n - 2
        BY <3>2, <3>3, <4>3
      <4>4. j = e.node \/ j \in l.node .. l.node + l.n - 2 \/ j \in r.node .. r.node + r.n - 2
        BY <3>1
      <4> QED
        BY <4>1, <4>2, <4>3, <4>4
    <3>5. ASSUME NEW j \in e.lo .. e.lo + e.n - 2
          PROVE  HasPlace(e, j)
      <4>1. CASE j = e.lo + tree[e] - 1
        BY <2>1, <3>2, <4>1
      <4>2. CASE j \in l.lo .. l.lo + l.n - 2
        BY <3>2, <3>3, <4>2
      <4>3. CASE j \in r.lo .. r.lo + r.n - 2
        BY <3>2, <3>3, <4>3
      <4>4. j = e.lo + tree[e] - 1 \/ j \in l.lo .. l.lo + l.n - 2 \/ j \in r.lo .. r.lo + r.n - 2
        BY <3>1
      <4> QED
        BY <4>1, <4>2, <4>3, <4>4
    <3> QED
      BY <3>4, <3>5
  <2>2. CASE ~IsRoute(e)
    <3>1. e.node \in Nat /\ e.lo \in Nat /\ e.n \in Nat /\ e.n <= 1
      BY <2>2, PartsAre DEF IsRoute
    <3>2. (e.node .. e.node + e.n - 2) = {} /\ (e.lo .. e.lo + e.n - 2) = {}
      BY <3>1
    <3> QED
      BY <3>2
  <2> QED
    BY <2>1, <2>2
<1>2. T = Nat
  <2> HIDE DEF T
  <2>1. T \in SUBSET Nat
    BY DEF T
  <2> QED
    BY <1>1, <2>1, StrongInduction
<1>3. f.n \in T
  BY <1>2, PartsAre
<1> QED
  BY <1>3

-----------------------------------------------------------------------------
(* Paths *)

\* Each step goes to one of the two parts of a frame.
GoesDown(step, tree, size) ==
    \A f \in AllFrames(tree, size) :
        IF IsRoute(f) THEN step[f] \in {LeftOf(tree, f), RightOf(tree, f)}
        ELSE step[f] = f

\* A path from the whole page to a slot.
IsPath(p, step, tree, size) ==
    /\ p \in Seq(AllFrames(tree, size))
    /\ Len(p) \in 1 .. size
    /\ p[1] = WholePage(size)
    /\ \A j \in 1 .. Len(p) - 1 : IsRoute(p[j]) /\ p[j + 1] = step[p[j]]
    /\ ~IsRoute(p[Len(p)])

\* A step that always goes to a side of a route makes a path down to a slot.
LEMMA PathIs ==
    ASSUME NEW size, NEW tree, IsTree(tree, size),
           NEW step, GoesDown(step, tree, size)
    PROVE  IsPath(Path(step, size), step, tree, size)
<1> DEFINE G == AllFrames(tree, size)
           w == WholePage(size)
           way == Orbit(step, w)
<1>1. size \in Nat \ {0} /\ w \in G
  BY TreeFrames DEF AllFrames
<1>2. ASSUME NEW f \in G
      PROVE  step[f] \in G /\ (IsRoute(f) => step[f].n < f.n)
  BY PartsAre DEF GoesDown
<1>3. \A i \in Nat : way[i] \in G
  <2> HIDE DEF G, w
  <2> QED
    BY <1>1, <1>2, OrbitStays
<1>4. way[0] = w /\ \A i \in Nat : way[i + 1] = step[way[i]]
  BY OrbitIs
<1> HIDE DEF G, way
\* A way through routes only gets narrower.
<1>5. \A i \in Nat : (\A j \in 0 .. i - 1 : IsRoute(way[j])) => way[i].n <= size - i
  <2> DEFINE T == {i \in Nat : (\A j \in 0 .. i - 1 : IsRoute(way[j])) => way[i].n <= size - i}
  <2>1. 0 \in T
    BY <1>1, <1>4 DEF WholePage
  <2>2. ASSUME NEW i \in T
        PROVE  i + 1 \in T
    <3> SUFFICES ASSUME \A j \in 0 .. (i + 1) - 1 : IsRoute(way[j])
                 PROVE  way[i + 1].n <= size - (i + 1)
      OBVIOUS
    <3>1. i \in Nat /\ IsRoute(way[i]) /\ way[i].n <= size - i
      OBVIOUS
    <3>2. way[i + 1].n < way[i].n
      BY <1>2, <1>3, <1>4, <3>1
    <3>3. way[i + 1].n \in Nat /\ way[i].n \in Nat
      BY <1>3, <3>1, PartsAre DEF G
    <3> QED
      BY <1>1, <3>1, <3>2, <3>3
  <2>3. T = Nat
    <3> HIDE DEF T
    <3>1. T \in SUBSET Nat
      BY DEF T
    <3> QED
      BY <2>1, <2>2, <3>1, SetInduction
  <2> QED
    BY <2>3
<1> DEFINE Leaves == {i \in Nat : ~IsRoute(way[i])}
           IsLength(i) == ~IsRoute(way[i - 1]) /\ \A j \in 1 .. i - 1 : IsRoute(way[j - 1])
           length == CHOOSE i \in 1 .. size : IsLength(i)
<1>6. Leaves # {}
  <2> SUFFICES ASSUME \A i \in Nat : IsRoute(way[i])
               PROVE  FALSE
    OBVIOUS
  <2>1. size \in Nat /\ way[size].n <= size - size
    BY <1>1, <1>5
  <2>2. way[size].n > 1 /\ way[size].n \in Nat
    BY <1>3, <2>1, PartsAre DEF IsRoute, G
  <2> QED
    BY <2>1, <2>2
<1>7. PICK m \in Leaves : \A i \in Leaves : m <= i
  <2>1. Leaves \in SUBSET Nat
    OBVIOUS
  <2> HIDE DEF Leaves
  <2> QED
    BY <1>6, <2>1, Smallest
<1>8. m + 1 \in 1 .. size /\ IsLength(m + 1)
  <2>1. m \in Nat /\ ~IsRoute(way[m])
    OBVIOUS
  <2>2. \A j \in 0 .. m - 1 : IsRoute(way[j])
    BY <1>7, <2>1
  <2>3. way[m].n <= size - m
    BY <1>5, <2>1, <2>2
  <2>4. way[m].n \in Nat /\ way[m].n >= 1
    BY <1>3, <2>1, PartsAre DEF G
  <2> HIDE DEF Leaves
  <2>5. m + 1 \in 1 .. size
    BY <1>1, <2>1, <2>3, <2>4
  <2>6. (m + 1) - 1 = m /\ \A j \in 1 .. (m + 1) - 1 : j - 1 \in 0 .. m - 1
    BY <2>1
  <2> QED
    BY <2>1, <2>2, <2>5, <2>6
<1>9. length \in 1 .. size /\ IsLength(length)
  <2> HIDE DEF IsLength
  <2> QED
    BY <1>8
<1>10. Path(step, size) = [i \in 1 .. length |-> way[i - 1]]
  BY DEF Path, way
<1> HIDE DEF length
<1> DEFINE p == [i \in 1 .. length |-> way[i - 1]]
<1>11. length \in Nat /\ Len(p) = length /\ p \in Seq(G)
  BY <1>3, <1>9
<1>12. p[1] = w
  BY <1>4, <1>9
<1>13. \A j \in 1 .. length - 1 : IsRoute(p[j]) /\ p[j + 1] = step[p[j]]
  <2> SUFFICES ASSUME NEW j \in 1 .. length - 1
               PROVE  IsRoute(p[j]) /\ p[j + 1] = step[p[j]]
    OBVIOUS
  <2>1. j \in 1 .. length /\ j + 1 \in 1 .. length /\ j - 1 \in Nat /\ (j + 1) - 1 = (j - 1) + 1
    BY <1>9
  <2>2. p[j] = way[j - 1] /\ p[j + 1] = way[(j - 1) + 1]
    BY <2>1
  <2> QED
    BY <1>4, <1>9, <2>1, <2>2
<1>14. ~IsRoute(p[length])
  BY <1>9
<1> HIDE DEF p, IsLength
<1> QED
  BY <1>9, <1>10, <1>11, <1>12, <1>13, <1>14 DEF IsPath, p, G

-----------------------------------------------------------------------------
(* The Cartesian tree of diffs *)

\* With k slots on its left side f parts at the last of its smallest diffs.
PartsAt(diffs, f, k) ==
    \A j \in f.lo .. f.lo + f.n - 2 :
        /\ diffs[f.lo + k - 1] <= diffs[j]
        /\ j > f.lo + k - 1 => diffs[f.lo + k - 1] # diffs[j]

\* The place where a frame with k slots on its left side parts.
LEMMA PlaceOfPart ==
    ASSUME NEW lo \in Nat, NEW n \in Nat, NEW m \in Nat, NEW k \in 1 .. n - 1,
           lo >= 1, lo + n - 1 <= m + 1
    PROVE  /\ lo + k - 1 \in lo .. lo + n - 2
           /\ lo + k - 1 \in 1 .. m
           /\ lo + k - 1 \in Nat
OBVIOUS

\* The place of a diff in a frame, as a number of slots on the left.
LEMMA PartOfPlace ==
    ASSUME NEW lo \in Nat, NEW n \in Nat, NEW i \in lo .. lo + n - 2, lo >= 1
    PROVE  /\ i \in Nat
           /\ i - lo + 1 \in 1 .. n - 1
           /\ lo + (i - lo + 1) - 1 = i
           /\ lo + n - 2 - i \in Nat
OBVIOUS

\* A frame has at most one last smallest diff.
LEMMA PartsAtOnePlace ==
    ASSUME NEW diffs \in Seq(Nat), NEW f \in Frame(Len(diffs) + 1),
           f.lo + f.n - 1 <= Len(diffs) + 1,
           NEW k \in 1 .. f.n - 1, PartsAt(diffs, f, k),
           NEW l \in 1 .. f.n - 1, PartsAt(diffs, f, l)
    PROVE  k = l
<1> DEFINE i == f.lo + k - 1
           j == f.lo + l - 1
<1>1. /\ f.lo \in Nat /\ f.n \in Nat /\ f.lo >= 1 /\ Len(diffs) \in Nat
  BY FrameType
<1>2. i \in f.lo .. f.lo + f.n - 2 /\ j \in f.lo .. f.lo + f.n - 2
      /\ i \in 1 .. Len(diffs) /\ j \in 1 .. Len(diffs)
  BY <1>1, PlaceOfPart
<1>3. diffs[i] \in Nat /\ diffs[j] \in Nat
  BY <1>2
<1>4. /\ diffs[i] <= diffs[j] /\ (j > i => diffs[i] # diffs[j])
      /\ diffs[j] <= diffs[i] /\ (i > j => diffs[j] # diffs[i])
  BY <1>2 DEF PartsAt
<1>5. i = j
  <2> HIDE DEF i, j
  <2> QED
    BY <1>1, <1>2, <1>3, <1>4
<1> QED
  BY <1>1, <1>5

\* A frame of a route has a last smallest diff.
LEMMA PartsSomewhere ==
    ASSUME NEW diffs \in Seq(Nat), NEW f \in Frame(Len(diffs) + 1),
           f.lo + f.n - 1 <= Len(diffs) + 1, IsRoute(f)
    PROVE  \E k \in 1 .. f.n - 1 : PartsAt(diffs, f, k)
<1> DEFINE J == f.lo .. f.lo + f.n - 2
           V == {diffs[j] : j \in J}
<1>1. /\ f.lo \in Nat /\ f.n \in Nat /\ f.lo >= 1 /\ Len(diffs) \in Nat /\ f.n > 1
  BY FrameType DEF IsRoute
<1>2. J \subseteq 1 .. Len(diffs) /\ f.lo \in J /\ J \subseteq Nat
  BY <1>1
<1>3. V \in SUBSET Nat /\ V # {}
  BY <1>2
<1>4. PICK v \in V : \A u \in V : v <= u
  <2> HIDE DEF V
  <2> QED
    BY <1>3, Smallest
<1> DEFINE Back == {d \in Nat : \E j \in J : diffs[j] = v /\ d = f.lo + f.n - 2 - j}
<1>5. Back \in SUBSET Nat /\ Back # {}
  <2>1. PICK j \in J : diffs[j] = v
    OBVIOUS
  <2>2. f.lo + f.n - 2 - j \in Nat
    BY <1>1, <2>1
  <2> QED
    BY <2>1, <2>2
<1>6. PICK d \in Back : \A e \in Back : d <= e
  <2> HIDE DEF Back
  <2> QED
    BY <1>5, Smallest
<1>7. PICK i \in J : diffs[i] = v /\ d = f.lo + f.n - 2 - i
  OBVIOUS
<1>8. \A j \in J : diffs[i] <= diffs[j]
  BY <1>4, <1>7
<1>9. ASSUME NEW j \in J, j > i
      PROVE  diffs[i] # diffs[j]
  <2> SUFFICES ASSUME diffs[j] = v
               PROVE  FALSE
    BY <1>7
  <2>0. j \in Nat /\ i \in Nat /\ f.lo + f.n - 2 - j \in Nat
    BY <1>1, PartOfPlace
  <2>1. f.lo + f.n - 2 - j \in Back
    BY <2>0
  <2>2. d <= f.lo + f.n - 2 - j
    BY <1>6, <2>1
  <2>3. d = f.lo + f.n - 2 - i
    BY <1>7
  <2> HIDE DEF Back, J, V
  <2> QED
    BY <1>1, <1>9, <2>0, <2>2, <2>3
<1> DEFINE k == i - f.lo + 1
<1>10. k \in 1 .. f.n - 1 /\ f.lo + k - 1 = i
  <2> HIDE DEF Back, V
  <2> QED
    BY <1>1, PartOfPlace
<1>11. PartsAt(diffs, f, k)
  BY <1>8, <1>9, <1>10 DEF PartsAt
<1> QED
  BY <1>10, <1>11

\* The Cartesian tree parts each frame at its last smallest diff.
LEMMA CartesianTreeIs ==
    ASSUME NEW diffs \in Seq(Nat), NEW f \in Frame(Len(diffs) + 1),
           f.lo + f.n - 1 <= Len(diffs) + 1, IsRoute(f)
    PROVE  /\ CartesianTree(diffs)[f] \in 1 .. f.n - 1
           /\ PartsAt(diffs, f, CartesianTree(diffs)[f])
           /\ \A k \in 1 .. f.n - 1 : PartsAt(diffs, f, k) => k = CartesianTree(diffs)[f]
<1>1. CartesianTree(diffs)[f] = CHOOSE k \in 1 .. f.n - 1 : PartsAt(diffs, f, k)
  BY DEF CartesianTree, PartsAt
<1>2. \E k \in 1 .. f.n - 1 : PartsAt(diffs, f, k)
  BY PartsSomewhere
<1> DEFINE t == CartesianTree(diffs)[f]
<1>3. t \in 1 .. f.n - 1 /\ PartsAt(diffs, f, t)
  <2> HIDE DEF t
  <2>1. t = CHOOSE k \in 1 .. f.n - 1 : PartsAt(diffs, f, k)
    BY <1>1 DEF t
  <2> QED
    BY <1>2, <2>1
<1> HIDE DEF t
<1>4. \A k \in 1 .. f.n - 1 : PartsAt(diffs, f, k) => k = t
  BY <1>3, PartsAtOnePlace
<1> QED
  BY <1>3, <1>4 DEF t

\* The parts of a frame within the page are within the page.
LEMMA PartsFit ==
    ASSUME NEW at \in Nat, NEW n \in Nat, NEW size \in Nat, at + n - 1 <= size,
           NEW k \in 1 .. n - 1
    PROVE  /\ at + k - 1 <= size /\ at + 1 + k - 1 <= size
           /\ at + k + (n - k) - 1 <= size
OBVIOUS

\* The Cartesian tree leaves a slot at least on each side of a route.
LEMMA CartesianIsTree ==
    ASSUME NEW diffs \in Seq(Nat)
    PROVE  IsTree(CartesianTree(diffs), Len(diffs) + 1)
<1> DEFINE size == Len(diffs) + 1
           tree == CartesianTree(diffs)
           G == {g \in Frame(size) : g.lo + g.n - 1 <= size /\ g.node + g.n - 1 <= size}
<1>1. size \in Nat \ {0} /\ Len(diffs) \in Nat
  OBVIOUS
<1>2. DOMAIN tree = Frame(size)
  BY DEF CartesianTree
<1>3. WholePage(size) \in G
  BY <1>1 DEF WholePage, Frame
<1>4. ASSUME NEW f \in G, IsRoute(f)
      PROVE  /\ tree[f] \in 1 .. f.n - 1
             /\ LeftOf(tree, f) \in G /\ RightOf(tree, f) \in G
  <2>1. tree[f] \in 1 .. f.n - 1
    BY <1>4, CartesianTreeIs
  <2>2. /\ f.node \in 1 .. size /\ f.lo \in 1 .. size /\ f.n \in 1 .. size
        /\ f.lo + f.n - 1 <= size /\ f.node + f.n - 1 <= size
        /\ f.node \in Nat /\ f.lo \in Nat /\ f.n \in Nat /\ size \in Nat
    BY <1>1, FrameType
  <2> HIDE DEF tree, size
  <2>3. LeftOf(tree, f) \in Frame(size) /\ RightOf(tree, f) \in Frame(size)
    BY <1>1, <2>1, <2>2 DEF LeftOf, RightOf, Frame
  <2>4. LeftOf(tree, f) \in G /\ RightOf(tree, f) \in G
    <3> DEFINE l == LeftOf(tree, f)
               r == RightOf(tree, f)
    <3>1. /\ l.node = f.node + 1 /\ l.lo = f.lo /\ l.n = tree[f]
          /\ r.node = f.node + tree[f] /\ r.lo = f.lo + tree[f] /\ r.n = f.n - tree[f]
      BY DEF LeftOf, RightOf
    <3> HIDE DEF l, r
    <3>2. /\ l.lo + l.n - 1 <= size /\ l.node + l.n - 1 <= size
          /\ r.lo + r.n - 1 <= size /\ r.node + r.n - 1 <= size
      <4> HIDE DEF G
      <4> QED
        BY <2>1, <2>2, <3>1, PartsFit
    <3> QED
      BY <2>3, <3>2 DEF l, r
  <2> QED
    BY <2>1, <2>4
<1>5. Closed(tree, G)
  BY <1>4 DEF Closed
<1> QED
  BY <1>1, <1>2, <1>3, <1>5 DEF IsTree

-----------------------------------------------------------------------------
(* The routes of diffs *)

\* The tree that routes stand for, as TreeOf reads it.
RouteTree(routes, size) == [f \in Frame(size) |-> routes[f.node].left]

\* Every frame parts where its diffs are smallest, and its route says so.
IsCartesian(routes, diffs) ==
    LET size == Len(diffs) + 1
        tree == RouteTree(routes, size)
    IN  /\ IsTree(tree, size)
        /\ \A f \in AllFrames(tree, size) : IsRoute(f) =>
             /\ PartsAt(diffs, f, tree[f])
             /\ routes[f.node] = MakeRoute(diffs[f.lo + tree[f] - 1], tree[f])

\* A route keeps the left count it was made with.
LEMMA MakeRouteLeft ==
    ASSUME NEW d, NEW k
    PROVE  MakeRoute(d, k).left = k
BY DEF MakeRoute

\* Frames that both trees part alike.
LEMMA SameFrames ==
    ASSUME NEW size, NEW tree, IsTree(tree, size),
           NEW other, DOMAIN other = Frame(size),
           \A f \in AllFrames(tree, size) : IsRoute(f) => other[f] = tree[f]
    PROVE  /\ IsTree(other, size)
           /\ AllFrames(other, size) = AllFrames(tree, size)
<1> DEFINE G == AllFrames(tree, size)
           w == WholePage(size)
<1>1. /\ size \in Nat \ {0} /\ DOMAIN tree = Frame(size)
      /\ G \in SUBSET Frame(size) /\ Closed(tree, G) /\ w \in G
  BY TreeFrames DEF AllFrames
<1>2. Closed(other, G)
  BY <1>1 DEF Closed, LeftOf, RightOf
<1>3. IsTree(other, size)
  BY <1>1, <1>2 DEF IsTree
<1> DEFINE H == AllFrames(other, size)
<1>4. H \subseteq G
  <2> HIDE DEF G, w
  <2>1. FramesBelow(other, w) \subseteq G
    BY <1>1, <1>2, FramesBelowIs
  <2> QED
    BY <2>1 DEF AllFrames, w
<1>5. H \in SUBSET Frame(size) /\ Closed(other, H) /\ w \in H
  BY <1>3, TreeFrames DEF AllFrames
<1>6. Closed(tree, H)
  BY <1>4, <1>5 DEF Closed, LeftOf, RightOf
<1>7. G \subseteq H
  <2> HIDE DEF H, w
  <2>1. FramesBelow(tree, w) \subseteq H
    BY <1>1, <1>5, <1>6, FramesBelowIs
  <2> QED
    BY <2>1 DEF AllFrames, w
<1> QED
  BY <1>3, <1>4, <1>7

\* The routes of diffs, as they are defined.
LEMMA RoutesOfAt ==
    ASSUME NEW diffs \in Seq(Nat), NEW f \in CartesianFrames(diffs), IsRoute(f)
    PROVE  LET t == CartesianTree(diffs)
           IN  /\ f.node \in 1 .. Len(diffs)
               /\ RoutesOf(diffs)[f.node] = MakeRoute(diffs[f.lo + t[f] - 1], t[f])
<1> DEFINE t == CartesianTree(diffs)
           size == Len(diffs) + 1
           all == CartesianFrames(diffs)
           At(node) == CHOOSE g \in all : IsRoute(g) /\ g.node = node
<1>1. IsTree(t, size) /\ all = AllFrames(t, size)
  BY CartesianIsTree DEF CartesianFrames, AllFrames
<1> HIDE DEF t
<1>2. f.node \in Nat \ {0} /\ f.n \in Nat /\ f.n > 1 /\ f.node + f.n - 1 <= size
  BY <1>1, PartsAre DEF IsRoute
<1>3. Len(diffs) \in Nat
  OBVIOUS
<1>4. f.node \in 1 .. Len(diffs)
  BY <1>2, <1>3
<1>5. At(f.node) \in all /\ IsRoute(At(f.node)) /\ At(f.node).node = f.node
  OBVIOUS
<1>6. At(f.node) = f
  <2> DEFINE h == At(f.node)
  <2>1. h \in all /\ IsRoute(h) /\ h.node = f.node
    BY <1>5
  <2>2. h \in AllFrames(t, size) /\ f \in AllFrames(t, size)
    BY <1>1, <2>1
  <2> HIDE DEF all, size, h
  <2>3. h = f
    BY <1>1, <2>1, <2>2, RouteIsUnique
  <2> QED
    BY <2>3 DEF h
<1>7. RoutesOf(diffs)[f.node]
        = MakeRoute(diffs[At(f.node).lo + t[At(f.node)] - 1], t[At(f.node)])
  BY <1>4 DEF RoutesOf, t
<1> QED
  BY <1>4, <1>6, <1>7 DEF t

\* RoutesOf gives one route per diff.
LEMMA RoutesOfIsSeq ==
    ASSUME NEW diffs \in Seq(Nat)
    PROVE  /\ DOMAIN RoutesOf(diffs) = 1 .. Len(diffs)
           /\ Len(RoutesOf(diffs)) = Len(diffs)
           /\ \E R : RoutesOf(diffs) \in Seq(R)
<1>1. Len(diffs) \in Nat
  OBVIOUS
<1> DEFINE r == RoutesOf(diffs)
<1>2. DOMAIN r = 1 .. Len(diffs)
  BY DEF RoutesOf
<1>3. r = [i \in 1 .. Len(diffs) |-> r[i]]
  BY DEF RoutesOf
<1> HIDE DEF r
<1>4. r \in Seq({r[i] : i \in 1 .. Len(diffs)})
  BY <1>1, <1>3
<1> QED
  BY <1>1, <1>2, <1>4 DEF r

\* RoutesOf makes the Cartesian tree (Index::BuildCartesian and
\* WritePreorderRoutes).
THEOREM RoutesOfIsCartesian ==
    ASSUME NEW diffs \in Seq(Nat)
    PROVE  IsCartesian(RoutesOf(diffs), diffs)
<1> DEFINE size == Len(diffs) + 1
           t == CartesianTree(diffs)
           routes == RoutesOf(diffs)
           tree == RouteTree(routes, size)
           all == CartesianFrames(diffs)
<1>1. IsTree(t, size) /\ all = AllFrames(t, size) /\ DOMAIN tree = Frame(size)
      /\ all \in SUBSET Frame(size) /\ size = Len(diffs) + 1
  BY CartesianIsTree, TreeFrames DEF CartesianFrames, AllFrames, RouteTree
<1>2. ASSUME NEW f \in all, IsRoute(f)
      PROVE  /\ routes[f.node] = MakeRoute(diffs[f.lo + t[f] - 1], t[f])
             /\ tree[f] = t[f]
             /\ PartsAt(diffs, f, t[f])
  <2>1. routes[f.node] = MakeRoute(diffs[f.lo + t[f] - 1], t[f])
    BY <1>2, RoutesOfAt
  <2>2. tree[f] = t[f]
    BY <1>1, <2>1, MakeRouteLeft DEF RouteTree
  <2>3. f.lo + f.n - 1 <= size
    BY <1>1, PartsAre
  <2>4. PartsAt(diffs, f, t[f])
    BY <1>1, <1>2, <2>3, CartesianTreeIs
  <2> QED
    BY <2>1, <2>2, <2>4
<1> HIDE DEF t, tree, size, all
<1>3. IsTree(tree, size) /\ AllFrames(tree, size) = all
  BY <1>1, <1>2, SameFrames
<1>4. \A f \in AllFrames(tree, size) : IsRoute(f) =>
         /\ PartsAt(diffs, f, tree[f])
         /\ routes[f.node] = MakeRoute(diffs[f.lo + tree[f] - 1], tree[f])
  BY <1>2, <1>3
<1> QED
  BY <1>3, <1>4 DEF IsCartesian, tree, size

\* There is no other: routes that part every frame where its diffs are
\* smallest, as InsertRoute and DeleteRoute of NodePage keep them in place,
\* are those that Index::BuildCartesian would write.
THEOREM CartesianIsUnique ==
    ASSUME NEW diffs \in Seq(Nat), NEW routes, IsCartesian(routes, diffs),
           routes = [i \in 1 .. Len(diffs) |-> routes[i]]
    PROVE  /\ routes = RoutesOf(diffs)
           /\ AllFrames(RouteTree(routes, Len(diffs) + 1), Len(diffs) + 1)
                = CartesianFrames(diffs)
<1> DEFINE size == Len(diffs) + 1
           t == CartesianTree(diffs)
           tree == RouteTree(routes, size)
           all == CartesianFrames(diffs)
<1>1. /\ IsTree(tree, size)
      /\ \A f \in AllFrames(tree, size) : IsRoute(f) =>
             /\ PartsAt(diffs, f, tree[f])
             /\ routes[f.node] = MakeRoute(diffs[f.lo + tree[f] - 1], tree[f])
  BY DEF IsCartesian
<1>2. DOMAIN t = Frame(size) /\ all = AllFrames(t, size) /\ size \in Nat /\ Len(diffs) \in Nat
      /\ size = Len(diffs) + 1
  BY DEF CartesianTree, CartesianFrames, AllFrames
<1> HIDE DEF tree
<1>3. ASSUME NEW f \in AllFrames(tree, size), IsRoute(f)
      PROVE  t[f] = tree[f]
  <2>1. tree[f] \in 1 .. f.n - 1 /\ f \in Frame(size) /\ f.lo + f.n - 1 <= size
    BY <1>1, <1>3, PartsAre
  <2>2. PartsAt(diffs, f, tree[f])
    BY <1>1, <1>3
  <2> QED
    BY <1>3, <2>1, <2>2, CartesianTreeIs
<1> HIDE DEF t, all, size
<1>4. all = AllFrames(tree, size)
  BY <1>1, <1>2, <1>3, SameFrames
<1>5. ASSUME NEW j \in 1 .. Len(diffs)
      PROVE  routes[j] = RoutesOf(diffs)[j]
  <2> DEFINE w == WholePage(size)
  <2>1. w \in AllFrames(tree, size) /\ w.node = 1 /\ w.n = size
    BY <1>1, TreeFrames DEF AllFrames, WholePage
  <2>2. j \in w.node .. w.node + w.n - 2
    BY <1>2, <2>1
  <2>3. PICK f \in FramesBelow(tree, w) : IsRoute(f) /\ f.node = j
    <3> HIDE DEF w
    <3> QED
      BY <1>1, <2>1, <2>2, RoutesCover
  <2>4. f \in AllFrames(tree, size)
    BY <2>3 DEF AllFrames
  <2>5. routes[j] = MakeRoute(diffs[f.lo + tree[f] - 1], tree[f])
    BY <1>1, <2>3, <2>4
  <2>6. RoutesOf(diffs)[j] = MakeRoute(diffs[f.lo + t[f] - 1], t[f])
    BY <1>4, <2>3, <2>4, RoutesOfAt DEF t, all
  <2> QED
    BY <1>3, <2>3, <2>4, <2>5, <2>6
<1>6. routes = RoutesOf(diffs)
  <2>1. RoutesOf(diffs) = [i \in 1 .. Len(diffs) |-> RoutesOf(diffs)[i]]
    BY DEF RoutesOf
  <2> HIDE DEF IsCartesian
  <2> QED
    BY <1>5, <2>1
<1> QED
  BY <1>4, <1>6 DEF tree, size, all

-----------------------------------------------------------------------------
(* One element more, one element less *)

\* The elements of InsertAt.
LEMMA InsertAtIs ==
    ASSUME NEW S, NEW s \in Seq(S), NEW e, NEW i \in 1 .. Len(s) + 1
    PROVE  /\ \A j \in 1 .. Len(s) + 1 : InsertAt(s, i, e)[j] =
                IF j < i THEN s[j] ELSE IF j = i THEN e ELSE s[j - 1]
           /\ InsertAt(s, i, e) \in Seq(S \cup {e})
           /\ Len(InsertAt(s, i, e)) = Len(s) + 1
<1> DEFINE T == S \cup {e}
           a == SubSeq(s, 1, i - 1)
           b == SubSeq(s, i, Len(s))
<1>1. s \in Seq(T) /\ Len(s) \in Nat /\ i \in Nat /\ <<e>> \in Seq(T)
  OBVIOUS
<1>2. a \in Seq(T) /\ Len(a) = i - 1 /\ \A j \in 1 .. i - 1 : a[j] = s[j]
  BY <1>1
<1>3. b \in Seq(T) /\ Len(b) = Len(s) - i + 1
      /\ \A j \in 1 .. Len(s) - i + 1 : b[j] = s[i + j - 1]
  BY <1>1
<1> HIDE DEF a, b, T
<1>4. (a \o <<e>>) \o b \in Seq(T) /\ Len((a \o <<e>>) \o b) = Len(s) + 1
  <2>1. a \o <<e>> \in Seq(T) /\ Len(a \o <<e>>) = Len(a) + 1
    BY <1>1, <1>2
  <2>2. /\ (a \o <<e>>) \o b \in Seq(T)
        /\ Len((a \o <<e>>) \o b) = Len(a \o <<e>>) + Len(b)
    BY <1>3, <2>1, ConcatProperties
  <2> DEFINE c == (a \o <<e>>) \o b
             d == a \o <<e>>
  <2>3. /\ c \in Seq(T) /\ Len(c) = Len(d) + Len(b) /\ Len(d) = Len(a) + 1
    BY <2>1, <2>2
  <2> HIDE DEF c, d
  <2>4. c \in Seq(T) /\ Len(c) = Len(s) + 1
    BY <1>1, <1>2, <1>3, <2>3
  <2> QED
    BY <2>4 DEF c
<1> DEFINE c == (a \o <<e>>) \o b
<1>5. ASSUME NEW j \in 1 .. Len(s) + 1
      PROVE  c[j] = IF j < i THEN s[j] ELSE IF j = i THEN e ELSE s[j - 1]
  <2>1. CASE j < i
    BY <1>1, <1>2, <1>3, <2>1
  <2>2. CASE j = i
    BY <1>1, <1>2, <1>3, <2>2
  <2>3. CASE j > i
    <3>1. c[j] = b[j - i] /\ j - i \in 1 .. Len(s) - i + 1
      BY <1>1, <1>2, <1>3, <2>3
    <3>2. i + (j - i) - 1 = j - 1 /\ ~ (j < i) /\ j # i
      BY <1>1, <2>3
    <3> HIDE DEF c
    <3>3. b[j - i] = s[i + (j - i) - 1]
      BY <1>3, <3>1
    <3> QED
      BY <3>1, <3>2, <3>3
  <2>4. j < i \/ j = i \/ j > i
    BY <1>1
  <2> HIDE DEF c
  <2> QED
    BY <2>1, <2>2, <2>3, <2>4
<1>6. c \in Seq(T) /\ Len(c) = Len(s) + 1
  BY <1>4
<1> HIDE DEF c
<1>7. InsertAt(s, i, e) = c
  BY DEF InsertAt, a, b, c
<1> QED
  BY <1>5, <1>6, <1>7 DEF T

\* The elements of RemoveAt.
LEMMA RemoveAtIs ==
    ASSUME NEW S, NEW s \in Seq(S), NEW i \in 1 .. Len(s)
    PROVE  /\ \A j \in 1 .. Len(s) - 1 : RemoveAt(s, i)[j] =
                IF j < i THEN s[j] ELSE s[j + 1]
           /\ RemoveAt(s, i) \in Seq(S)
           /\ Len(RemoveAt(s, i)) = Len(s) - 1
<1> DEFINE a == SubSeq(s, 1, i - 1)
           b == SubSeq(s, i + 1, Len(s))
<1>1. Len(s) \in Nat /\ i \in Nat /\ i >= 1 /\ i <= Len(s)
  OBVIOUS
<1>2. a \in Seq(S) /\ Len(a) = i - 1 /\ \A j \in 1 .. i - 1 : a[j] = s[j]
  BY <1>1
<1>3. b \in Seq(S) /\ Len(b) = Len(s) - i
      /\ \A j \in 1 .. Len(s) - i : b[j] = s[i + j]
  BY <1>1
<1> HIDE DEF a, b
<1> DEFINE c == a \o b
<1>4. c \in Seq(S) /\ Len(c) = Len(s) - 1
  <2>1. c \in Seq(S) /\ Len(c) = Len(a) + Len(b)
    BY <1>2, <1>3, ConcatProperties
  <2> HIDE DEF c
  <2> QED
    BY <1>1, <1>2, <1>3, <2>1
<1>5. ASSUME NEW j \in 1 .. Len(s) - 1
      PROVE  c[j] = IF j < i THEN s[j] ELSE s[j + 1]
  <2>1. CASE j < i
    BY <1>1, <1>2, <1>3, <2>1
  <2>2. CASE j >= i
    <3>1. c[j] = b[j - i + 1] /\ j - i + 1 \in 1 .. Len(s) - i
      BY <1>1, <1>2, <1>3, <2>2
    <3>2. i + (j - i + 1) = j + 1 /\ ~ (j < i)
      BY <1>1, <2>2
    <3> HIDE DEF c
    <3>3. b[j - i + 1] = s[i + (j - i + 1)]
      BY <1>3, <3>1
    <3> QED
      BY <3>1, <3>2, <3>3
  <2>3. j < i \/ j >= i
    BY <1>1
  <2> HIDE DEF c
  <2> QED
    BY <2>1, <2>2, <2>3
<1> HIDE DEF c
<1>6. RemoveAt(s, i) = c
  BY DEF RemoveAt, a, b, c
<1> QED
  BY <1>4, <1>5, <1>6

-----------------------------------------------------------------------------
(* Routes from a set of frames *)

\* f parts after its first k slots, into frames of G, where its diffs are
\* smallest, and its route says so.
PartsWell(routes, diffs, G, f, k) ==
    /\ k \in 1 .. f.n - 1
    /\ [node |-> f.node + 1, lo |-> f.lo, n |-> k] \in G
    /\ [node |-> f.node + k, lo |-> f.lo + k, n |-> f.n - k] \in G
    /\ PartsAt(diffs, f, k)
    /\ routes[f.node] = MakeRoute(diffs[f.lo + k - 1], k)

\* To show that routes are those of diffs it is enough to name their frames.
LEMMA CartesianFrom ==
    ASSUME NEW diffs \in Seq(Nat), NEW routes,
           routes = [i \in 1 .. Len(diffs) |-> routes[i]],
           NEW G \in SUBSET Frame(Len(diffs) + 1), WholePage(Len(diffs) + 1) \in G,
           \A f \in G : IsRoute(f) => \E k \in Nat : PartsWell(routes, diffs, G, f, k)
    PROVE  routes = RoutesOf(diffs)
<1> DEFINE size == Len(diffs) + 1
           tree == RouteTree(routes, size)
<1>1. size \in Nat \ {0} /\ DOMAIN tree = Frame(size)
  BY DEF RouteTree
<1>2. ASSUME NEW f \in G, IsRoute(f)
      PROVE  PartsWell(routes, diffs, G, f, tree[f])
  <2>1. PICK k \in Nat : PartsWell(routes, diffs, G, f, k)
    BY <1>2
  <2>2. tree[f] = k
    BY <2>1, MakeRouteLeft DEF PartsWell, RouteTree
  <2> QED
    BY <2>1, <2>2
<1> HIDE DEF tree
<1>3. Closed(tree, G)
  BY <1>2 DEF Closed, PartsWell, LeftOf, RightOf
<1>4. IsTree(tree, size)
  BY <1>1, <1>3 DEF IsTree
<1>5. AllFrames(tree, size) \subseteq G
  <2> HIDE DEF size
  <2>1. G \in SUBSET Frame(size) /\ WholePage(size) \in G
    BY DEF size
  <2> QED
    BY <1>1, <1>3, <2>1, FramesBelowIs DEF AllFrames
<1>6. IsCartesian(routes, diffs)
  <2>1. \A f \in AllFrames(tree, size) : IsRoute(f) =>
             /\ PartsAt(diffs, f, tree[f])
             /\ routes[f.node] = MakeRoute(diffs[f.lo + tree[f] - 1], tree[f])
    BY <1>2, <1>5 DEF PartsWell
  <2> QED
    BY <1>4, <2>1 DEF IsCartesian, tree
<1> QED
  BY <1>6, CartesianIsUnique

-----------------------------------------------------------------------------
(* One route more *)

\* The place where f parts.
PlaceOf(diffs, f) == f.lo + CartesianTree(diffs)[f] - 1

\* The nodes that have q on their left side.
LeftNodes(diffs, q) ==
    {g.node : g \in {g \in CartesianFrames(diffs) :
        IsRoute(g) /\ q \in FramesBelow(CartesianTree(diffs), LeftOf(CartesianTree(diffs), g))}}

\* A key that asks diff first parts from the whole of q, the routes above q ask
\* earlier and those below later ones.  bit is the key's answer.
Growth(diffs, q, diff, bit) ==
    /\ diffs \in Seq(Nat) /\ diff \in Nat /\ bit \in {0, 1}
    /\ q \in CartesianFrames(diffs)
    /\ IsRoute(q) => diff < diffs[PlaceOf(diffs, q)]
    /\ \A g \in CartesianFrames(diffs) :
         q \in FramesBelow(CartesianTree(diffs), g) /\ g # q => diffs[PlaceOf(diffs, g)] < diff

\* Where the new diff goes when q grows by a slot on its left (bit 0) or right
\* (bit 1).
GrownPlace(q, bit) == IF bit = 0 THEN q.lo ELSE q.lo + q.n - 1

\* The diffs of a page after the insertion of a key that parts from q.
GrownDiffs(diffs, q, diff, bit) == InsertAt(diffs, GrownPlace(q, bit), diff)

\* The routes that InsertRoute leaves: left counts on the way raised by one,
\* and a new route in front of q.
GrownRoutes(diffs, q, diff, bit) ==
    InsertAt(Recount(RoutesOf(diffs), LeftNodes(diffs, q), 1), q.node,
             MakeRoute(diff, IF bit = 0 THEN 1 ELSE q.n))

\* The Cartesian tree, its frames and its routes, put together.
LEMMA CartesianBasics ==
    ASSUME NEW diffs \in Seq(Nat)
    PROVE  /\ IsTree(CartesianTree(diffs), Len(diffs) + 1)
           /\ CartesianFrames(diffs) = AllFrames(CartesianTree(diffs), Len(diffs) + 1)
           /\ CartesianFrames(diffs) \in SUBSET Frame(Len(diffs) + 1)
           /\ WholePage(Len(diffs) + 1) \in CartesianFrames(diffs)
           /\ \A f \in CartesianFrames(diffs) : IsRoute(f) =>
                /\ f.node \in 1 .. Len(diffs)
                /\ PlaceOf(diffs, f) \in f.lo .. f.lo + f.n - 2
                /\ PlaceOf(diffs, f) \in 1 .. Len(diffs)
                /\ PartsAt(diffs, f, CartesianTree(diffs)[f])
                /\ RoutesOf(diffs)[f.node]
                     = MakeRoute(diffs[PlaceOf(diffs, f)], CartesianTree(diffs)[f])
<1> DEFINE t == CartesianTree(diffs)
           size == Len(diffs) + 1
           all == CartesianFrames(diffs)
<1>1. IsTree(t, size) /\ all = AllFrames(t, size) /\ Len(diffs) \in Nat
  BY CartesianIsTree DEF CartesianFrames, AllFrames
<1>2. all \in SUBSET Frame(size) /\ WholePage(size) \in all
  BY <1>1, TreeFrames DEF AllFrames
<1>3. ASSUME NEW f \in all, IsRoute(f)
      PROVE  /\ f.node \in 1 .. Len(diffs)
             /\ PlaceOf(diffs, f) \in f.lo .. f.lo + f.n - 2
             /\ PlaceOf(diffs, f) \in 1 .. Len(diffs)
             /\ PartsAt(diffs, f, t[f])
             /\ RoutesOf(diffs)[f.node] = MakeRoute(diffs[PlaceOf(diffs, f)], t[f])
  <2>1. /\ f.node \in 1 .. Len(diffs)
        /\ RoutesOf(diffs)[f.node] = MakeRoute(diffs[PlaceOf(diffs, f)], t[f])
    BY <1>3, RoutesOfAt DEF PlaceOf
  <2>2. f.lo \in Nat /\ f.n \in Nat /\ f.lo >= 1 /\ f.lo + f.n - 1 <= size /\ f \in Frame(size)
    BY <1>1, PartsAre
  <2>3. t[f] \in 1 .. f.n - 1 /\ PartsAt(diffs, f, t[f])
    BY <1>3, <2>2, CartesianTreeIs
  <2> HIDE DEF t, all
  <2>4. /\ f.lo + t[f] - 1 \in f.lo .. f.lo + f.n - 2
        /\ f.lo + t[f] - 1 \in 1 .. Len(diffs)
    BY <1>1, <2>2, <2>3, PlaceOfPart
  <2> QED
    BY <2>1, <2>3, <2>4 DEF PlaceOf, t
<1> QED
  BY <1>1, <1>2, <1>3

\* A frame of the Cartesian tree and its two sides, in numbers.
LEMMA CartesianParts ==
    ASSUME NEW diffs \in Seq(Nat), NEW f \in CartesianFrames(diffs)
    PROVE  LET size == Len(diffs) + 1
               t == CartesianTree(diffs)
               l == LeftOf(t, f)
               r == RightOf(t, f)
           IN  /\ size \in Nat \ {0} /\ Len(diffs) \in Nat
               /\ f.node \in Nat \ {0} /\ f.lo \in Nat \ {0} /\ f.n \in Nat \ {0}
               /\ f \in Frame(size)
               /\ f.lo + f.n - 1 <= size /\ f.node + f.n - 1 <= size
               /\ IsRoute(f) =>
                    /\ f.n > 1
                    /\ t[f] \in 1 .. f.n - 1
                    /\ l \in CartesianFrames(diffs)
                    /\ r \in CartesianFrames(diffs)
                    /\ l.node = f.node + 1 /\ l.lo = f.lo /\ l.n = t[f]
                    /\ r.node = f.node + t[f] /\ r.lo = f.lo + t[f]
                    /\ r.n = f.n - t[f]
                    /\ Before(l, r)
<1> DEFINE t == CartesianTree(diffs)
           size == Len(diffs) + 1
<1>1. IsTree(t, size) /\ CartesianFrames(diffs) = AllFrames(t, size) /\ Len(diffs) \in Nat
  BY CartesianBasics
<1>2. f \in AllFrames(t, size)
  BY <1>1
<1> HIDE DEF t, size
<1>3. IsRoute(f) => f.n > 1
  BY DEF IsRoute
<1> QED
  BY <1>1, <1>2, <1>3, PartsAre DEF t, size

\* The nodes that count q on their left side.
LEMMA LeftNodesAre ==
    ASSUME NEW diffs \in Seq(Nat), NEW q \in CartesianFrames(diffs),
           NEW f \in CartesianFrames(diffs), IsRoute(f)
    PROVE  f.node \in LeftNodes(diffs, q) <=>
             q \in FramesBelow(CartesianTree(diffs), LeftOf(CartesianTree(diffs), f))
<1> DEFINE t == CartesianTree(diffs)
           size == Len(diffs) + 1
           all == CartesianFrames(diffs)
<1>1. IsTree(t, size) /\ all = AllFrames(t, size)
  BY CartesianBasics
<1>2. ASSUME f.node \in LeftNodes(diffs, q)
      PROVE  q \in FramesBelow(t, LeftOf(t, f))
  <2>1. PICK g \in all : /\ IsRoute(g) /\ q \in FramesBelow(t, LeftOf(t, g))
                         /\ g.node = f.node
    BY <1>2 DEF LeftNodes
  <2>2. g \in AllFrames(t, size) /\ f \in AllFrames(t, size)
    BY <1>1
  <2> HIDE DEF t, size, all
  <2>3. g = f
    BY <1>1, <2>1, <2>2, RouteIsUnique
  <2> QED
    BY <2>1, <2>3
<1>3. ASSUME q \in FramesBelow(t, LeftOf(t, f))
      PROVE  f.node \in LeftNodes(diffs, q)
  BY <1>3 DEF LeftNodes
<1> QED
  BY <1>2, <1>3

\* Where the other frames lie.
LEMMA FramesAround ==
    ASSUME NEW diffs \in Seq(Nat), NEW q \in CartesianFrames(diffs),
           NEW f \in CartesianFrames(diffs)
    PROVE  LET t == CartesianTree(diffs)
           IN  /\ \/ Before(f, q) \/ Before(q, f) \/ f \in FramesBelow(t, q)
                  \/ f # q /\ q \in FramesBelow(t, f)
               /\ f \in FramesBelow(t, q) => Inside(f, q)
               /\ q \in FramesBelow(t, f) => Inside(q, f)
               /\ Inside(f, q) /\ Inside(q, f) => f = q
               /\ q \in FramesBelow(t, q)
<1> DEFINE t == CartesianTree(diffs)
           size == Len(diffs) + 1
           all == CartesianFrames(diffs)
<1>1. IsTree(t, size) /\ all = AllFrames(t, size) /\ size \in Nat
  BY CartesianBasics
<1>2. q \in AllFrames(t, size) /\ f \in AllFrames(t, size)
  BY <1>1
<1> HIDE DEF t, size, all
<1>3. f \in FramesBelow(t, f) /\ q \in FramesBelow(t, q)
  BY <1>1, <1>2, AllBelow
<1>4. \/ f \in FramesBelow(t, q) \/ q \in FramesBelow(t, f)
      \/ Before(f, q) \/ Before(q, f)
  BY <1>1, <1>2, FramesNest
<1>5. /\ f \in FramesBelow(t, q) => Inside(f, q)
      /\ q \in FramesBelow(t, f) => Inside(q, f)
  BY <1>1, <1>2, AllBelow
<1>6. ASSUME Inside(f, q), Inside(q, f)
      PROVE  f = q
  <2>1. /\ f.node \in Nat /\ f.lo \in Nat /\ f.n \in Nat
        /\ q.node \in Nat /\ q.lo \in Nat /\ q.n \in Nat
        /\ f \in Frame(size) /\ q \in Frame(size)
    BY <1>1, <1>2, PartsAre
  <2>2. f.node = q.node /\ f.lo = q.lo /\ f.n = q.n
    BY <1>6, <2>1 DEF Inside
  <2> QED
    BY <1>1, <2>1, <2>2, FrameEqual
<1> QED
  BY <1>3, <1>4, <1>5, <1>6 DEF t

\* The elements of GrownDiffs.
LEMMA GrownDiffsAre ==
    ASSUME NEW diffs, NEW q, NEW diff, NEW bit, Growth(diffs, q, diff, bit)
    PROVE  LET p == GrownPlace(q, bit)
               new == GrownDiffs(diffs, q, diff, bit)
           IN  /\ p \in 1 .. Len(diffs) + 1 /\ p \in Nat
               /\ (bit = 0 /\ p = q.lo) \/ (bit = 1 /\ p = q.lo + q.n - 1)
               /\ new \in Seq(Nat) /\ Len(new) = Len(diffs) + 1
               /\ new[p] = diff
               /\ \A j \in 1 .. Len(diffs) : j < p => new[j] = diffs[j]
               /\ \A j \in 1 .. Len(diffs) : j >= p => new[j + 1] = diffs[j]
<1> DEFINE p == GrownPlace(q, bit)
           new == GrownDiffs(diffs, q, diff, bit)
<1>1. /\ diffs \in Seq(Nat) /\ diff \in Nat /\ bit \in {0, 1}
      /\ q \in CartesianFrames(diffs)
  BY DEF Growth
<1>2. /\ q.lo \in Nat /\ q.n \in Nat /\ q.lo >= 1 /\ q.n >= 1
      /\ q.lo + q.n - 1 <= Len(diffs) + 1 /\ Len(diffs) \in Nat
  BY <1>1, CartesianParts
<1>3. /\ p \in 1 .. Len(diffs) + 1 /\ p \in Nat
      /\ (bit = 0 /\ p = q.lo) \/ (bit = 1 /\ p = q.lo + q.n - 1)
  BY <1>1, <1>2 DEF GrownPlace
<1> HIDE DEF p
<1>4. new = InsertAt(diffs, p, diff)
  BY DEF GrownDiffs, p
<1> HIDE DEF new
<1>5. /\ \A j \in 1 .. Len(diffs) + 1 : new[j] =
                  IF j < p THEN diffs[j] ELSE IF j = p THEN diff ELSE diffs[j - 1]
      /\ new \in Seq(Nat \cup {diff}) /\ Len(new) = Len(diffs) + 1
  <2>1. /\ \A j \in 1 .. Len(diffs) + 1 : InsertAt(diffs, p, diff)[j] =
                  IF j < p THEN diffs[j] ELSE IF j = p THEN diff ELSE diffs[j - 1]
        /\ InsertAt(diffs, p, diff) \in Seq(Nat \cup {diff})
        /\ Len(InsertAt(diffs, p, diff)) = Len(diffs) + 1
    BY <1>1, <1>3, InsertAtIs, Zenon
  <2> QED
    BY <1>4, <2>1, Zenon
<1>6. new \in Seq(Nat) /\ Len(new) = Len(diffs) + 1
  <2>1. Nat \cup {diff} = Nat
    BY <1>1
  <2> QED
    BY <1>5, <2>1
<1>7. new[p] = diff
  BY <1>3, <1>5
<1>8. ASSUME NEW j \in 1 .. Len(diffs)
      PROVE  /\ j < p => new[j] = diffs[j]
             /\ j >= p => new[j + 1] = diffs[j]
  <2>1. j \in 1 .. Len(diffs) + 1 /\ j + 1 \in 1 .. Len(diffs) + 1 /\ (j + 1) - 1 = j
        /\ j \in Nat
    BY <1>2
  <2>2. j < p => new[j] = diffs[j]
    BY <1>5, <2>1
  <2>3. j >= p => ~ (j + 1 < p) /\ j + 1 # p
    BY <1>3, <2>1
  <2>4. j >= p => new[j + 1] = diffs[(j + 1) - 1]
    BY <1>5, <2>1, <2>3
  <2> QED
    BY <2>1, <2>2, <2>4
<1> QED
  BY <1>3, <1>6, <1>7, <1>8 DEF p, new

\* Recount changes the left counts of the given nodes and nothing else.
LEMMA RecountIs ==
    ASSUME NEW diffs \in Seq(Nat), NEW nodes, NEW by
    PROVE  LET routes == Recount(RoutesOf(diffs), nodes, by)
           IN  /\ \E R : routes \in Seq(R)
               /\ Len(routes) = Len(diffs)
               /\ \A f \in CartesianFrames(diffs) : IsRoute(f) =>
                    routes[f.node] = MakeRoute(diffs[PlaceOf(diffs, f)],
                        IF f.node \in nodes THEN CartesianTree(diffs)[f] + by
                        ELSE CartesianTree(diffs)[f])
<1> DEFINE old == RoutesOf(diffs)
           routes == Recount(old, nodes, by)
           N == 1 .. Len(diffs)
<1>1. DOMAIN old = N /\ Len(diffs) \in Nat
  BY RoutesOfIsSeq
<1>2. routes = [j \in N |-> IF j \in nodes THEN [old[j] EXCEPT !.left = @ + by] ELSE old[j]]
  BY <1>1 DEF Recount
<1> HIDE DEF routes
<1>3. routes = [j \in N |-> routes[j]]
  BY <1>2
<1>4. routes \in Seq({routes[j] : j \in N})
  BY <1>1, <1>3
<1>5. Len(routes) = Len(diffs)
  BY <1>1, <1>2, <1>4
<1>6. ASSUME NEW f \in CartesianFrames(diffs), IsRoute(f)
      PROVE  routes[f.node] = MakeRoute(diffs[PlaceOf(diffs, f)],
                        IF f.node \in nodes THEN CartesianTree(diffs)[f] + by
                        ELSE CartesianTree(diffs)[f])
  <2> DEFINE d == diffs[PlaceOf(diffs, f)]
             k == CartesianTree(diffs)[f]
  <2>1. f.node \in N /\ old[f.node] = MakeRoute(d, k)
    BY <1>6, CartesianBasics
  <2> HIDE DEF d, k, old
  <2>2. routes[f.node] = IF f.node \in nodes THEN [old[f.node] EXCEPT !.left = @ + by]
                         ELSE old[f.node]
    BY <1>2, <2>1
  <2>3. [MakeRoute(d, k) EXCEPT !.left = @ + by] = MakeRoute(d, k + by)
    BY DEF MakeRoute
  <2> QED
    BY <2>1, <2>2, <2>3 DEF d, k
<1> QED
  BY <1>4, <1>5, <1>6 DEF routes

\* The elements of GrownRoutes: old routes keep their order, around the new
\* one.
LEMMA GrownRoutesAre ==
    ASSUME NEW diffs, NEW q, NEW diff, NEW bit, Growth(diffs, q, diff, bit)
    PROVE  LET new == GrownRoutes(diffs, q, diff, bit)
               Route(f) == MakeRoute(diffs[PlaceOf(diffs, f)],
                             IF f.node \in LeftNodes(diffs, q)
                             THEN CartesianTree(diffs)[f] + 1 ELSE CartesianTree(diffs)[f])
           IN  /\ new = [i \in 1 .. Len(diffs) + 1 |-> new[i]]
               /\ new[q.node] = MakeRoute(diff, IF bit = 0 THEN 1 ELSE q.n)
               /\ \A f \in CartesianFrames(diffs) : IsRoute(f) =>
                    /\ f.node < q.node => new[f.node] = Route(f)
                    /\ f.node >= q.node => new[f.node + 1] = Route(f)
<1> DEFINE nodes == LeftNodes(diffs, q)
           routes == Recount(RoutesOf(diffs), nodes, 1)
           new == GrownRoutes(diffs, q, diff, bit)
           own == MakeRoute(diff, IF bit = 0 THEN 1 ELSE q.n)
           t == CartesianTree(diffs)
           Route(f) == MakeRoute(diffs[PlaceOf(diffs, f)],
                             IF f.node \in nodes THEN t[f] + 1 ELSE t[f])
<1>1. diffs \in Seq(Nat) /\ q \in CartesianFrames(diffs)
  BY DEF Growth
<1>2. PICK R : routes \in Seq(R)
  BY <1>1, RecountIs
<1>3. Len(routes) = Len(diffs) /\ Len(diffs) \in Nat
      /\ \A f \in CartesianFrames(diffs) : IsRoute(f) => routes[f.node] = Route(f)
  BY <1>1, RecountIs
<1>4. q.node \in Nat /\ q.node \in 1 .. Len(diffs) + 1
  <2>1. q.node \in Nat \ {0} /\ q.n \in Nat \ {0} /\ q.node + q.n - 1 <= Len(diffs) + 1
    BY <1>1, CartesianParts
  <2> QED
    BY <1>3, <2>1
<1> HIDE DEF nodes, routes, own, t
<1>5. new = InsertAt(routes, q.node, own)
  BY DEF GrownRoutes, routes, own, nodes
<1> HIDE DEF new, Route
<1>6. /\ \A j \in 1 .. Len(diffs) + 1 : new[j] =
             IF j < q.node THEN routes[j] ELSE IF j = q.node THEN own ELSE routes[j - 1]
      /\ new \in Seq(R \cup {own}) /\ Len(new) = Len(diffs) + 1
  <2>1. q.node \in 1 .. Len(routes) + 1
    BY <1>3, <1>4
  <2>2. /\ \A j \in 1 .. Len(routes) + 1 : InsertAt(routes, q.node, own)[j] =
             IF j < q.node THEN routes[j] ELSE IF j = q.node THEN own ELSE routes[j - 1]
        /\ InsertAt(routes, q.node, own) \in Seq(R \cup {own})
        /\ Len(InsertAt(routes, q.node, own)) = Len(routes) + 1
    BY <1>2, <2>1, InsertAtIs, Zenon
  <2> QED
    BY <1>3, <1>5, <2>2
<1>7. new = [i \in 1 .. Len(diffs) + 1 |-> new[i]]
  BY <1>6
<1>8. new[q.node] = own
  BY <1>4, <1>6
<1>9. ASSUME NEW f \in CartesianFrames(diffs), IsRoute(f)
      PROVE  /\ f.node < q.node => new[f.node] = Route(f)
             /\ f.node >= q.node => new[f.node + 1] = Route(f)
  <2> DEFINE j == f.node
  <2>1. j \in 1 .. Len(diffs) /\ routes[j] = Route(f)
    BY <1>1, <1>3, <1>9, CartesianBasics
  <2> HIDE DEF j, Route
  <2>2. j \in 1 .. Len(diffs) + 1 /\ j + 1 \in 1 .. Len(diffs) + 1 /\ (j + 1) - 1 = j
        /\ j \in Nat
    BY <1>3, <2>1
  <2>3. j < q.node => new[j] = routes[j]
    BY <1>6, <2>2
  <2>4. j >= q.node => ~ (j + 1 < q.node) /\ j + 1 # q.node
    BY <1>4, <2>2
  <2>5. j >= q.node => new[j + 1] = routes[(j + 1) - 1]
    BY <1>6, <2>2, <2>4
  <2> QED
    BY <2>1, <2>2, <2>3, <2>5 DEF j
<1> QED
  BY <1>7, <1>8, <1>9 DEF new, own, nodes, t, Route

\* new has one diff more than old, at place p.
OneMore(old, new, p) ==
    /\ old \in Seq(Nat) /\ new \in Seq(Nat) /\ Len(new) = Len(old) + 1
    /\ p \in 1 .. Len(new)
    /\ \A j \in 1 .. Len(old) : j < p => new[j] = old[j]
    /\ \A j \in 1 .. Len(old) : j >= p => new[j + 1] = old[j]

\* The elements of a sequence with one more diff at p.
LEMMA OneMoreIs ==
    ASSUME NEW old, NEW new, NEW p, OneMore(old, new, p)
    PROVE  /\ Len(old) \in Nat /\ Len(new) = Len(old) + 1 /\ p \in Nat /\ p >= 1
           /\ p <= Len(new)
           /\ \A j \in 1 .. Len(old) :
                /\ old[j] \in Nat
                /\ j < p => new[j] = old[j]
                /\ j >= p => new[j + 1] = old[j]
           /\ \A j \in 1 .. Len(new) :
                /\ new[j] \in Nat
                /\ j < p => j \in 1 .. Len(old)
                /\ j > p => j - 1 \in 1 .. Len(old) /\ new[j] = old[j - 1]
<1>1. old \in Seq(Nat) /\ new \in Seq(Nat) /\ Len(new) = Len(old) + 1
      /\ p \in 1 .. Len(new) /\ Len(old) \in Nat /\ Len(new) \in Nat
  BY DEF OneMore
<1>2. p \in Nat /\ p >= 1 /\ p <= Len(new)
  BY <1>1
<1>3. ASSUME NEW j \in 1 .. Len(old)
      PROVE  /\ old[j] \in Nat
             /\ j < p => new[j] = old[j]
             /\ j >= p => new[j + 1] = old[j]
  BY <1>1 DEF OneMore
<1>4. ASSUME NEW j \in 1 .. Len(new)
      PROVE  /\ new[j] \in Nat
             /\ j < p => j \in 1 .. Len(old)
             /\ j > p => j - 1 \in 1 .. Len(old) /\ new[j] = old[j - 1]
  <2>1. new[j] \in Nat
    BY <1>1
  <2>2. /\ j < p => j \in 1 .. Len(old)
        /\ j > p => j - 1 \in 1 .. Len(old) /\ j - 1 >= p /\ (j - 1) + 1 = j
    BY <1>1, <1>2
  <2> QED
    BY <1>3, <2>1, <2>2
<1> QED
  BY <1>1, <1>2, <1>3, <1>4

\* Of diffs[a..b] the one at place i is the last of the smallest.
LastSmallest(diffs, a, b, i) ==
    \A j \in a .. b : diffs[i] <= diffs[j] /\ (j > i => diffs[i] # diffs[j])

\* A frame parts where LastSmallest says.
LEMMA PartsAtIs ==
    ASSUME NEW diffs, NEW f, NEW k
    PROVE  PartsAt(diffs, f, k) <=>
             LastSmallest(diffs, f.lo, f.lo + f.n - 2, f.lo + k - 1)
BY DEF PartsAt, LastSmallest

\* It stays so when a larger one comes in at place p.
LEMMA OneMoreLarger ==
    ASSUME NEW old, NEW new, NEW p, OneMore(old, new, p),
           NEW a \in Nat \ {0}, NEW b \in Nat, b <= Len(old),
           NEW i \in a .. b, LastSmallest(old, a, b, i),
           p \in a .. b + 1, old[i] < new[p]
    PROVE  LET h == IF p <= i THEN i + 1 ELSE i
           IN  LastSmallest(new, a, b + 1, h) /\ new[h] = old[i]
<1> DEFINE h == IF p <= i THEN i + 1 ELSE i
<1>0. /\ Len(old) \in Nat /\ Len(new) = Len(old) + 1 /\ p \in Nat
  BY OneMoreIs
<1>1. i \in Nat /\ i \in 1 .. Len(old) /\ h \in Nat
  BY <1>0
<1>3. (p <= i => h = i + 1) /\ (p > i => h = i) /\ (p <= i \/ p > i)
  BY <1>0, <1>1
<1> HIDE DEF h
<1>2. old[i] \in Nat /\ new[h] = old[i]
  <2>1. /\ old[i] \in Nat
        /\ i < p => new[i] = old[i]
        /\ i >= p => new[i + 1] = old[i]
    BY <1>1, OneMoreIs
  <2> QED
    BY <1>0, <1>1, <1>3, <2>1
<1>4. ASSUME NEW j \in a .. b + 1
      PROVE  /\ new[h] <= new[j]
             /\ j > h => new[h] # new[j]
  <2>0. j \in Nat /\ j \in 1 .. Len(new)
    BY <1>0
  <2>1. new[j] \in Nat
    BY <2>0, OneMoreIs
  <2>2. CASE j < p
    <3>1. j \in a .. b /\ j \in 1 .. Len(old)
      BY <1>0, <2>0, <2>2
    <3>2. new[j] = old[j]
      BY <2>2, <3>1, OneMoreIs
    <3>3. old[i] <= old[j] /\ (j > i => old[i] # old[j])
      BY <3>1 DEF LastSmallest
    <3>4. j > h => j > i
      BY <1>0, <1>1, <1>3, <2>0, <2>2
    <3> QED
      BY <1>2, <3>2, <3>3, <3>4
  <2>3. CASE j = p
    BY <1>2, <2>1, <2>3
  <2>4. CASE j > p
    <3>1. j - 1 \in a .. b /\ j - 1 \in 1 .. Len(old)
      BY <1>0, <2>0, <2>4
    <3>2. new[j] = old[j - 1]
      BY <2>0, <2>4, OneMoreIs
    <3>3. old[i] <= old[j - 1] /\ (j - 1 > i => old[i] # old[j - 1])
      BY <3>1 DEF LastSmallest
    <3>4. j > h => j - 1 > i
      BY <1>0, <1>1, <1>3, <2>0, <2>4
    <3> QED
      BY <1>2, <3>2, <3>3, <3>4
  <2> QED
    BY <1>0, <2>0, <2>2, <2>3, <2>4
<1> QED
  BY <1>2, <1>4 DEF LastSmallest, h

\* It stays so when another one goes.
LEMMA OneLessKeeps ==
    ASSUME NEW old, NEW new, NEW p, OneMore(old, new, p),
           NEW a \in Nat \ {0}, NEW b \in Nat, b <= Len(new),
           NEW h \in a .. b, LastSmallest(new, a, b, h),
           p \in a .. b, p # h
    PROVE  LET i == IF p < h THEN h - 1 ELSE h
           IN  LastSmallest(old, a, b - 1, i) /\ old[i] = new[h]
<1> DEFINE i == IF p < h THEN h - 1 ELSE h
<1>0. /\ Len(old) \in Nat /\ Len(new) = Len(old) + 1 /\ p \in Nat
  BY OneMoreIs
<1>1. h \in Nat /\ h \in 1 .. Len(new) /\ i \in Nat
      /\ (p < h => i = h - 1) /\ (p > h => i = h) /\ (p < h \/ p > h)
  BY <1>0
<1>2. i \in 1 .. Len(old) /\ (p < h => i >= p /\ i + 1 = h)
  BY <1>0, <1>1
<1> HIDE DEF i
<1>3. old[i] \in Nat /\ old[i] = new[h]
  <2>1. /\ old[i] \in Nat
        /\ i < p => new[i] = old[i]
        /\ i >= p => new[i + 1] = old[i]
    BY <1>2, OneMoreIs
  <2> QED
    BY <1>0, <1>1, <1>2, <2>1
<1>4. ASSUME NEW j \in a .. b - 1
      PROVE  /\ old[i] <= old[j]
             /\ j > i => old[i] # old[j]
  <2>0. j \in Nat /\ j \in 1 .. Len(old)
    BY <1>0
  <2>1. CASE j < p
    <3>0. new[j] = old[j]
      BY <2>0, <2>1, OneMoreIs
    <3>1. j \in a .. b /\ new[j] = old[j]
      BY <1>0, <2>0, <2>1, <3>0
    <3>2. new[h] <= new[j] /\ (j > h => new[h] # new[j])
      BY <3>1 DEF LastSmallest
    <3>3. j > i => j > h
      BY <1>0, <1>1, <2>0, <2>1
    <3> QED
      BY <1>3, <3>1, <3>2, <3>3
  <2>2. CASE j >= p
    <3>1. j + 1 \in a .. b /\ new[j + 1] = old[j]
      BY <1>0, <2>0, <2>2, OneMoreIs
    <3>2. new[h] <= new[j + 1] /\ (j + 1 > h => new[h] # new[j + 1])
      BY <3>1 DEF LastSmallest
    <3>3. j > i => j + 1 > h
      BY <1>0, <1>1, <2>0, <2>2
    <3> QED
      BY <1>3, <3>1, <3>2, <3>3
  <2> QED
    BY <1>0, <2>0, <2>1, <2>2
<1> QED
  BY <1>3, <1>4 DEF LastSmallest, i

\* It stays so when all of them move by s places.
LEMMA AllMoved ==
    ASSUME NEW old, NEW new, NEW a \in Nat, NEW b \in Int, NEW i \in a .. b,
           LastSmallest(old, a, b, i), NEW s \in {-1, 0, 1},
           \A j \in a .. b : new[j + s] = old[j]
    PROVE  LastSmallest(new, a + s, b + s, i + s) /\ new[i + s] = old[i]
<1>1. new[i + s] = old[i]
  OBVIOUS
<1>2. ASSUME NEW j \in a + s .. b + s
      PROVE  /\ new[i + s] <= new[j]
             /\ j > i + s => new[i + s] # new[j]
  <2>1. j - s \in a .. b /\ (j - s) + s = j
    OBVIOUS
  <2>2. new[j] = old[j - s]
    BY <2>1
  <2>3. /\ old[i] <= old[j - s]
        /\ j - s > i => old[i] # old[j - s]
    BY <2>1 DEF LastSmallest
  <2>4. j > i + s => j - s > i
    OBVIOUS
  <2> QED
    BY <1>1, <2>2, <2>3, <2>4
<1> QED
  BY <1>1, <1>2 DEF LastSmallest

\* Where a frame of the page is after the new route has come in above q.
GrownFrame(f, q, bit) ==
    IF Before(f, q) THEN f
    ELSE IF Before(q, f) THEN [node |-> f.node + 1, lo |-> f.lo + 1, n |-> f.n]
    ELSE IF Inside(f, q)
    THEN [node |-> f.node + 1, lo |-> f.lo + (1 - bit), n |-> f.n]
    ELSE [node |-> f.node, lo |-> f.lo, n |-> f.n + 1]

\* The frame of the new route: q and the new slot.
NewFrame(q) == [node |-> q.node, lo |-> q.lo, n |-> q.n + 1]

\* The frame of the new slot.
NewSlot(q, bit) ==
    [node |-> IF bit = 0 THEN q.node + 1 ELSE q.node + q.n,
     lo   |-> IF bit = 0 THEN q.lo ELSE q.lo + q.n,
     n    |-> 1]

\* The frames after the growth: the old ones, moved, the new route and the new
\* slot.
GrownFrames(diffs, q, bit) ==
    {GrownFrame(f, q, bit) : f \in CartesianFrames(diffs)}
        \cup {NewFrame(q), NewSlot(q, bit)}

\* Where a frame moves, by how it stands to q.
LEMMA GrownFrameIs ==
    ASSUME NEW diffs \in Seq(Nat), NEW q \in CartesianFrames(diffs),
           NEW f \in CartesianFrames(diffs), NEW bit
    PROVE  LET g == GrownFrame(f, q, bit)
           IN  /\ Before(f, q) => g = f
               /\ Before(q, f) => g = [node |-> f.node + 1, lo |-> f.lo + 1, n |-> f.n]
               /\ Inside(f, q) =>
                    g = [node |-> f.node + 1, lo |-> f.lo + (1 - bit), n |-> f.n]
               /\ f # q /\ Inside(q, f) =>
                    g = [node |-> f.node, lo |-> f.lo, n |-> f.n + 1]
<1>1. /\ f.node \in Nat /\ f.lo \in Nat /\ f.n \in Nat /\ f.n >= 1
      /\ q.node \in Nat /\ q.lo \in Nat /\ q.n \in Nat /\ q.n >= 1
  BY CartesianParts
<1>2. Before(q, f) => ~ Before(f, q)
  BY <1>1 DEF Before
<1>3. Inside(f, q) => ~ Before(f, q) /\ ~ Before(q, f)
  BY <1>1 DEF Before, Inside
<1>4. Inside(q, f) => ~ Before(f, q) /\ ~ Before(q, f)
  BY <1>1 DEF Before, Inside
<1>5. f # q /\ Inside(q, f) => ~ Inside(f, q)
  BY FramesAround
<1> QED
  BY <1>2, <1>3, <1>4, <1>5 DEF GrownFrame

\* The frames that contain q gain a slot.
LEMMA WiderFrame ==
    ASSUME NEW diffs \in Seq(Nat), NEW q \in CartesianFrames(diffs),
           NEW f \in CartesianFrames(diffs), NEW bit, Inside(q, f)
    PROVE  [node |-> f.node, lo |-> f.lo, n |-> f.n + 1] \in GrownFrames(diffs, q, bit)
<1>1. CASE f = q
  BY <1>1 DEF GrownFrames, NewFrame
<1>2. CASE f # q
  BY <1>2, GrownFrameIs DEF GrownFrames
<1> QED
  BY <1>1, <1>2

\* The routes of f move by a numbers, its slots and diffs by b.
Beside(diffs, q, diff, bit, f, a, b) ==
    LET l == LeftOf(CartesianTree(diffs), f)
        r == RightOf(CartesianTree(diffs), f)
    IN  /\ GrownFrame(l, q, bit) = [node |-> l.node + a, lo |-> l.lo + b, n |-> l.n]
        /\ GrownFrame(r, q, bit) = [node |-> r.node + a, lo |-> r.lo + b, n |-> r.n]
        /\ f.node \notin LeftNodes(diffs, q)
        /\ a = IF f.node < q.node THEN 0 ELSE 1
        /\ \A j \in f.lo .. f.lo + f.n - 2 : GrownDiffs(diffs, q, diff, bit)[j + b] = diffs[j]

\* The frames that do not contain q keep their routes, at other numbers.
LEMMA GrownBeside ==
    ASSUME NEW diffs, NEW q, NEW diff, NEW bit, Growth(diffs, q, diff, bit),
           NEW f \in CartesianFrames(diffs), IsRoute(f),
           NEW a \in {0, 1}, NEW b \in {0, 1}, Beside(diffs, q, diff, bit, f, a, b),
           NEW g, g = [node |-> f.node + a, lo |-> f.lo + b, n |-> f.n]
    PROVE  PartsWell(GrownRoutes(diffs, q, diff, bit), GrownDiffs(diffs, q, diff, bit),
                     GrownFrames(diffs, q, bit), g, CartesianTree(diffs)[f])
<1> DEFINE t == CartesianTree(diffs)
           k == t[f]
           l == LeftOf(t, f)
           r == RightOf(t, f)
           i == PlaceOf(diffs, f)
           new == GrownDiffs(diffs, q, diff, bit)
           routes == GrownRoutes(diffs, q, diff, bit)
           G == GrownFrames(diffs, q, bit)
<1>1. diffs \in Seq(Nat) /\ q \in CartesianFrames(diffs)
  BY DEF Growth
<1>2. /\ f.node \in Nat /\ f.lo \in Nat /\ f.n \in Nat /\ f.n > 1 /\ f.lo >= 1 /\ q.node \in Nat
      /\ k \in 1 .. f.n - 1
      /\ l \in CartesianFrames(diffs) /\ r \in CartesianFrames(diffs)
      /\ l.node = f.node + 1 /\ l.lo = f.lo /\ l.n = k
      /\ r.node = f.node + k /\ r.lo = f.lo + k /\ r.n = f.n - k
  <2>1. q.node \in Nat
    BY <1>1, CartesianParts
  <2>2. f.node \in Nat /\ f.lo \in Nat /\ f.n \in Nat /\ f.n > 1 /\ f.lo >= 1
    BY <1>1, CartesianParts
  <2> HIDE DEF new, routes, G, i
  <2>3. /\ k \in 1 .. f.n - 1
        /\ l \in CartesianFrames(diffs) /\ r \in CartesianFrames(diffs)
        /\ l.node = f.node + 1 /\ l.lo = f.lo /\ l.n = k
        /\ r.node = f.node + k /\ r.lo = f.lo + k /\ r.n = f.n - k
    BY <1>1, CartesianParts
  <2> QED
    BY <2>1, <2>2, <2>3
<1>3. i \in f.lo .. f.lo + f.n - 2 /\ PartsAt(diffs, f, k) /\ i = f.lo + k - 1
  BY <1>1, CartesianBasics DEF PlaceOf
<1>4. /\ [node |-> l.node + a, lo |-> l.lo + b, n |-> l.n] \in G
      /\ [node |-> r.node + a, lo |-> r.lo + b, n |-> r.n] \in G
  BY <1>2 DEF GrownFrames, Beside
<1>5. routes[f.node + a] = MakeRoute(diffs[i], k)
  <2>1. /\ f.node < q.node => routes[f.node] = MakeRoute(diffs[i], k)
        /\ f.node >= q.node => routes[f.node + 1] = MakeRoute(diffs[i], k)
    BY GrownRoutesAre DEF Beside
  <2>2. a = IF f.node < q.node THEN 0 ELSE 1
    BY DEF Beside
  <2> HIDE DEF routes, i, k
  <2> QED
    BY <1>2, <2>1, <2>2
<1>6. LastSmallest(diffs, f.lo, f.lo + f.n - 2, i)
  BY <1>3, PartsAtIs
<1>7. \A j \in f.lo .. f.lo + f.n - 2 : new[j + b] = diffs[j]
  BY DEF Beside
<1> HIDE DEF t, k, l, r, i, new, routes, G
<1>8. LastSmallest(new, f.lo + b, f.lo + f.n - 2 + b, i + b) /\ new[i + b] = diffs[i]
  <2> DEFINE x == f.lo
             y == f.lo + f.n - 2
  <2>1. x \in Nat /\ y \in Int /\ i \in x .. y
    BY <1>2, <1>3
  <2>2. LastSmallest(diffs, x, y, i) /\ \A j \in x .. y : new[j + b] = diffs[j]
    BY <1>6, <1>7
  <2>3. b \in {-1, 0, 1}
    OBVIOUS
  <2> HIDE DEF x, y
  <2>4. LastSmallest(new, x + b, y + b, i + b) /\ new[i + b] = diffs[i]
    BY <2>1, <2>2, <2>3, AllMoved
  <2> QED
    BY <2>4 DEF x, y
<1>9. /\ g.node = f.node + a /\ g.lo = f.lo + b /\ g.n = f.n
  OBVIOUS
<1>10. /\ g.lo + g.n - 2 = f.lo + f.n - 2 + b /\ g.lo + k - 1 = i + b
       /\ k \in 1 .. g.n - 1
       /\ l.node + a = g.node + 1 /\ l.lo + b = g.lo
       /\ r.node + a = g.node + k /\ r.lo + b = g.lo + k
       /\ r.n = g.n - k
  BY <1>2, <1>3, <1>9
<1>11. PartsAt(new, g, k)
  BY <1>8, <1>9, <1>10, PartsAtIs
<1>12. routes[g.node] = MakeRoute(new[g.lo + k - 1], k)
  BY <1>5, <1>8, <1>9, <1>10
<1>13. /\ [node |-> g.node + 1, lo |-> g.lo, n |-> k] \in G
       /\ [node |-> g.node + k, lo |-> g.lo + k, n |-> g.n - k] \in G
  BY <1>2, <1>4, <1>10
<1>14. PartsWell(routes, new, G, g, k)
  BY <1>10, <1>11, <1>12, <1>13 DEF PartsWell
<1> QED
  BY <1>14 DEF routes, new, G, k, t

\* GrownDiffs is the diffs with one more.
LEMMA GrownIsOneMore ==
    ASSUME NEW diffs, NEW q, NEW diff, NEW bit, Growth(diffs, q, diff, bit)
    PROVE  /\ OneMore(diffs, GrownDiffs(diffs, q, diff, bit), GrownPlace(q, bit))
           /\ GrownDiffs(diffs, q, diff, bit)[GrownPlace(q, bit)] = diff
           /\ diffs \in Seq(Nat) /\ diff \in Nat /\ q \in CartesianFrames(diffs)
           /\ (bit = 0 /\ GrownPlace(q, bit) = q.lo)
              \/ (bit = 1 /\ GrownPlace(q, bit) = q.lo + q.n - 1)
<1>1. diffs \in Seq(Nat) /\ diff \in Nat /\ q \in CartesianFrames(diffs)
  BY DEF Growth
<1> QED
  BY <1>1, GrownDiffsAre DEF OneMore

\* Inside is transitive.
LEMMA InsideInside ==
    ASSUME NEW size \in Nat,
           NEW f \in Frame(size), NEW g \in Frame(size), NEW h \in Frame(size),
           Inside(h, g), Inside(g, f)
    PROVE  Inside(h, f)
<1>1. /\ f.node \in Nat /\ f.lo \in Nat /\ f.n \in Nat
      /\ g.node \in Nat /\ g.lo \in Nat /\ g.n \in Nat
      /\ h.node \in Nat /\ h.lo \in Nat /\ h.n \in Nat
  BY FrameType
<1> QED
  BY <1>1 DEF Inside

\* The frames beside q and below it.
LEMMA BesideBefore ==
    ASSUME NEW diffs, NEW q, NEW diff, NEW bit, Growth(diffs, q, diff, bit),
           NEW f \in CartesianFrames(diffs), IsRoute(f),
           Before(f, q) \/ Before(q, f) \/ Inside(f, q)
    PROVE  \E k \in Nat :
             PartsWell(GrownRoutes(diffs, q, diff, bit), GrownDiffs(diffs, q, diff, bit),
                       GrownFrames(diffs, q, bit), GrownFrame(f, q, bit), k)
<1> DEFINE t == CartesianTree(diffs)
           size == Len(diffs) + 1
           p == GrownPlace(q, bit)
           new == GrownDiffs(diffs, q, diff, bit)
           l == LeftOf(t, f)
           r == RightOf(t, f)
<1>1. /\ OneMore(diffs, new, p) /\ diffs \in Seq(Nat) /\ q \in CartesianFrames(diffs)
      /\ (bit = 0 /\ p = q.lo) \/ (bit = 1 /\ p = q.lo + q.n - 1)
  BY GrownIsOneMore
<1>2. q.node \in Nat /\ q.lo \in Nat /\ q.n \in Nat /\ q.lo >= 1 /\ q.n >= 1
      /\ q \in Frame(size) /\ size \in Nat /\ Len(diffs) \in Nat
  BY <1>1, CartesianParts
<1>3. /\ f.node \in Nat /\ f.lo \in Nat /\ f.n \in Nat /\ f.n > 1 /\ f.lo >= 1
      /\ f.lo + f.n - 1 <= Len(diffs) + 1 /\ f \in Frame(size)
      /\ t[f] \in Nat
  BY <1>1, CartesianParts
<1>4. l \in CartesianFrames(diffs) /\ r \in CartesianFrames(diffs)
      /\ Inside(l, f) /\ Inside(r, f) /\ l \in Frame(size) /\ r \in Frame(size)
  <2>1. /\ t[f] \in 1 .. f.n - 1
        /\ l \in CartesianFrames(diffs) /\ r \in CartesianFrames(diffs)
        /\ l.node = f.node + 1 /\ l.lo = f.lo /\ l.n = t[f]
        /\ r.node = f.node + t[f] /\ r.lo = f.lo + t[f] /\ r.n = f.n - t[f]
    BY <1>1, CartesianParts
  <2>2. l \in Frame(size) /\ r \in Frame(size)
    BY <1>1, <2>1, CartesianBasics
  <2> HIDE DEF l, r, t
  <2> QED
    BY <1>3, <2>1, <2>2 DEF Inside
<1>5. Inside(q, q)
  BY <1>2 DEF Inside
<1>6. ~ Inside(q, l)
  <2>1. ASSUME Inside(q, l)
        PROVE  FALSE
    <3>1. /\ t[f] \in 1 .. f.n - 1 /\ l.lo = f.lo /\ l.n = t[f]
      BY <1>1, CartesianParts
    <3> HIDE DEF l, t
    <3>2. q.lo >= f.lo /\ q.lo + q.n <= f.lo + t[f]
      BY <2>1, <3>1 DEF Inside
    <3> QED
      BY <1>2, <1>3, <3>1, <3>2 DEF Before, Inside
  <2> QED
    BY <2>1
<1>7. f.node \notin LeftNodes(diffs, q)
  <2>1. q \notin FramesBelow(t, l)
    BY <1>1, <1>4, <1>6, FramesAround
  <2> QED
    BY <1>1, <2>1, LeftNodesAre
<1> HIDE DEF t, l, r, size, p, new
<1>13. p \in Nat /\ q.lo <= p /\ p <= q.lo + q.n - 1
       /\ (1 - bit = 0 => p = q.lo + q.n - 1) /\ (1 - bit = 1 => p = q.lo) /\ 1 - bit \in {0, 1}
  BY <1>1, <1>2
<1> DEFINE fv == f.node
           fl == f.lo
           fn == f.n
           qv == q.node
           ql == q.lo
           qn == q.n
<1>14. /\ fv \in Nat /\ fl \in Nat /\ fn \in Nat /\ fn > 1
       /\ qv \in Nat /\ ql \in Nat /\ qn \in Nat /\ qn >= 1
       /\ p \in Nat /\ ql <= p /\ p <= ql + qn - 1
       /\ (1 - bit = 0 => p = ql + qn - 1) /\ (1 - bit = 1 => p = ql) /\ 1 - bit \in {0, 1}
  BY <1>2, <1>3, <1>13
<1> DEFINE Shift(h, a, b) == [node |-> h.node + a, lo |-> h.lo + b, n |-> h.n]
<1>8. ASSUME NEW a \in {0, 1}, NEW b \in {0, 1},
             a = IF f.node < q.node THEN 0 ELSE 1,
             GrownFrame(f, q, bit) = Shift(f, a, b),
             GrownFrame(l, q, bit) = Shift(l, a, b),
             GrownFrame(r, q, bit) = Shift(r, a, b),
             b = 0 => f.lo + f.n - 2 < p,
             b = 1 => f.lo >= p
      PROVE  \E k \in Nat :
               PartsWell(GrownRoutes(diffs, q, diff, bit), GrownDiffs(diffs, q, diff, bit),
                         GrownFrames(diffs, q, bit), GrownFrame(f, q, bit), k)
  <2>1. ASSUME NEW j \in f.lo .. f.lo + f.n - 2
        PROVE  new[j + b] = diffs[j]
    <3>1. j \in 1 .. Len(diffs) /\ j \in Nat /\ p \in Nat
      BY <1>2, <1>3, <1>13
    <3>2. /\ j < p => new[j] = diffs[j]
          /\ j >= p => new[j + 1] = diffs[j]
      BY <1>1, <3>1, OneMoreIs
    <3>3. (b = 0 => j < p) /\ (b = 1 => j >= p) /\ j + 0 = j
      BY <1>3, <1>8, <3>1
    <3> QED
      BY <3>2, <3>3
  <2>2. Beside(diffs, q, diff, bit, f, a, b)
    BY <1>7, <1>8, <2>1 DEF Beside, new, l, r, t
  <2>3. PartsWell(GrownRoutes(diffs, q, diff, bit), GrownDiffs(diffs, q, diff, bit),
                  GrownFrames(diffs, q, bit), GrownFrame(f, q, bit), t[f])
    BY <1>8, <2>2, GrownBeside DEF t
  <2> QED
    BY <1>3, <2>3
<1>9. \A h \in {f, l, r} : Inside(h, f) /\ h \in CartesianFrames(diffs) /\ h \in Frame(size)
                           /\ h.node \in Nat /\ h.lo \in Nat /\ h.n \in Nat
  <2>1. Inside(f, f)
    BY <1>3 DEF Inside
  <2>2. \A h \in {f, l, r} : Inside(h, f) /\ h \in CartesianFrames(diffs) /\ h \in Frame(size)
    BY <1>3, <1>4, <2>1
  <2> QED
    BY <1>2, <2>2, FrameType
<1>10. CASE Before(f, q)
  <2>1. ASSUME NEW h \in {f, l, r}
        PROVE  GrownFrame(h, q, bit) = Shift(h, 0, 0)
    <3>1. Before(h, q)
      BY <1>2, <1>3, <1>5, <1>9, <1>10, BeforeInside
    <3>2. GrownFrame(h, q, bit) = h
      BY <1>1, <1>9, <3>1, GrownFrameIs
    <3>3. Shift(h, 0, 0) = [node |-> h.node, lo |-> h.lo, n |-> h.n]
      BY <1>9
    <3> QED
      BY <1>2, <1>9, <3>2, <3>3, FrameType
  <2>2. f.node < q.node /\ f.lo + f.n - 2 < p
    <3>1. fl + fn <= ql /\ fv + fn - 1 <= qv
      BY <1>10 DEF Before
    <3> HIDE DEF fl, fn, fv, ql, qn, qv
    <3>2. fv < qv /\ fl + fn - 2 < p
      BY <1>14, <3>1
    <3> QED
      BY <3>2 DEF fv, qv, fl, fn
  <2>3. (0 = IF f.node < q.node THEN 0 ELSE 1) /\ 0 # 1
    BY <2>2
  <2> HIDE DEF Shift
  <2> QED
    BY <1>8, <2>1, <2>2, <2>3
<1>11. CASE Before(q, f)
  <2>1. ASSUME NEW h \in {f, l, r}
        PROVE  GrownFrame(h, q, bit) = Shift(h, 1, 1)
    <3>1. Before(q, h)
      BY <1>2, <1>3, <1>5, <1>9, <1>11, BeforeInside
    <3> QED
      BY <1>1, <1>9, <3>1, GrownFrameIs
  <2>2. ~ (f.node < q.node) /\ f.lo >= p
    <3>1. ql + qn <= fl /\ qv + qn - 1 <= fv
      BY <1>11 DEF Before
    <3> HIDE DEF fl, fn, fv, ql, qn, qv
    <3>2. ~ (fv < qv) /\ fl >= p
      BY <1>14, <3>1
    <3> QED
      BY <3>2 DEF fv, qv, fl
  <2>3. (1 = IF f.node < q.node THEN 0 ELSE 1) /\ 0 # 1
    BY <2>2
  <2> HIDE DEF Shift
  <2> QED
    BY <1>8, <2>1, <2>2, <2>3
<1>12. CASE Inside(f, q)
  <2> DEFINE b == 1 - bit
  <2>1. ASSUME NEW h \in {f, l, r}
        PROVE  GrownFrame(h, q, bit) = Shift(h, 1, b)
    <3>1. Inside(h, q)
      BY <1>2, <1>3, <1>9, <1>12, InsideInside
    <3> QED
      BY <1>1, <1>9, <3>1, GrownFrameIs
  <2>2. ~ (f.node < q.node)
    BY <1>2, <1>3, <1>12 DEF Inside
  <2>3. (b = 0 => f.lo + f.n - 2 < p) /\ (b = 1 => f.lo >= p) /\ b \in {0, 1}
    <3>1. ql <= fl /\ fl + fn <= ql + qn
      BY <1>12 DEF Inside
    <3> HIDE DEF fl, fn, fv, ql, qn, qv
    <3>2. (b = 0 => fl + fn - 2 < p) /\ (b = 1 => fl >= p) /\ b \in {0, 1}
      BY <1>14, <3>1
    <3> QED
      BY <3>2 DEF fl, fn
  <2>4. (1 = IF f.node < q.node THEN 0 ELSE 1)
    BY <2>2
  <2> HIDE DEF Shift, b
  <2> QED
    BY <1>8, <2>1, <2>2, <2>3, <2>4
<1> QED
  BY <1>10, <1>11, <1>12

\* The frame that the new route makes of q and the new slot.
LEMMA NewParts ==
    ASSUME NEW diffs, NEW q, NEW diff, NEW bit, Growth(diffs, q, diff, bit)
    PROVE  PartsWell(GrownRoutes(diffs, q, diff, bit), GrownDiffs(diffs, q, diff, bit),
                     GrownFrames(diffs, q, bit), NewFrame(q), IF bit = 0 THEN 1 ELSE q.n)
<1> DEFINE p == GrownPlace(q, bit)
           new == GrownDiffs(diffs, q, diff, bit)
           routes == GrownRoutes(diffs, q, diff, bit)
           G == GrownFrames(diffs, q, bit)
           k == IF bit = 0 THEN 1 ELSE q.n
           g == NewFrame(q)
           qv == q.node
           ql == q.lo
           qn == q.n
<1>1. /\ OneMore(diffs, new, p) /\ new[p] = diff /\ diffs \in Seq(Nat)
      /\ q \in CartesianFrames(diffs) /\ diff \in Nat
      /\ (bit = 0 /\ p = ql) \/ (bit = 1 /\ p = ql + qn - 1)
      /\ routes[qv] = MakeRoute(diff, k)
  BY GrownIsOneMore, GrownRoutesAre
<1>2. qv \in Nat /\ ql \in Nat /\ qn \in Nat /\ ql >= 1 /\ qn >= 1
      /\ ql + qn - 1 <= Len(diffs) + 1 /\ Len(diffs) \in Nat
  BY <1>1, CartesianParts
<1>3. g = [node |-> qv, lo |-> ql, n |-> qn + 1] /\ g.node = qv /\ g.lo = ql /\ g.n = qn + 1
  BY DEF NewFrame
<1>4. [node |-> qv + 1, lo |-> ql + (1 - bit), n |-> qn] \in G
  <2>1. Inside(q, q)
    BY <1>2 DEF Inside
  <2>2. GrownFrame(q, q, bit) = [node |-> qv + 1, lo |-> ql + (1 - bit), n |-> qn]
    BY <1>1, <2>1, GrownFrameIs
  <2> QED
    BY <1>1, <2>2 DEF GrownFrames
<1>5. [node |-> IF bit = 0 THEN qv + 1 ELSE qv + qn,
       lo   |-> IF bit = 0 THEN ql ELSE ql + qn, n |-> 1] \in G
  BY DEF GrownFrames, NewSlot
<1>6. ASSUME NEW j \in ql .. ql + qn - 2
      PROVE  j \in 1 .. Len(diffs) /\ diff < diffs[j]
  <2>1. q.n > 1
    BY <1>2
  <2>2. IsRoute(q)
    BY <2>1 DEF IsRoute
  <2>3. diff < diffs[PlaceOf(diffs, q)] /\ PartsAt(diffs, q, CartesianTree(diffs)[q])
        /\ PlaceOf(diffs, q) \in 1 .. Len(diffs)
    BY <1>1, <2>2, CartesianBasics DEF Growth
  <2>4. diffs[PlaceOf(diffs, q)] <= diffs[j]
    BY <2>3 DEF PartsAt, PlaceOf
  <2>5. j \in 1 .. Len(diffs)
    <3> HIDE DEF ql, qn
    <3> QED
      BY <1>2
  <2> HIDE DEF ql, qn
  <2>6. diffs[j] \in Nat /\ diffs[PlaceOf(diffs, q)] \in Nat
    BY <1>1, <2>3, <2>5
  <2> QED
    BY <1>1, <2>3, <2>4, <2>5, <2>6
<1> HIDE DEF p, new, routes, G, g, qv, ql, qn
<1>7. k = IF bit = 0 THEN 1 ELSE qn
  BY DEF qn
<1> HIDE DEF k
<1>8. /\ k \in 1 .. qn /\ ql + k - 1 = p /\ p \in Nat /\ p \in ql .. ql + qn - 1
      /\ (bit = 0 /\ k = 1 /\ p = ql) \/ (bit = 1 /\ k = qn /\ p = ql + qn - 1)
  BY <1>1, <1>2, <1>7
<1>9. ASSUME NEW j \in ql .. ql + qn - 1
      PROVE  new[p] <= new[j] /\ (j > p => new[p] # new[j])
  <2>1. CASE j = p
    BY <1>1, <1>8, <2>1
  <2>2. CASE j < p
    <3>1. j \in ql .. ql + qn - 2
      BY <1>2, <1>8, <2>2
    <3>2. j \in 1 .. Len(diffs) /\ diff < diffs[j]
      BY <1>6, <3>1
    <3>3. new[j] = diffs[j] /\ diffs[j] \in Nat
      BY <1>1, <2>2, <3>2, OneMoreIs
    <3> QED
      BY <1>1, <3>2, <3>3
  <2>3. CASE j > p
    <3>1. j - 1 \in ql .. ql + qn - 2 /\ j - 1 >= p /\ (j - 1) + 1 = j
      BY <1>2, <1>8, <2>3
    <3>2. j - 1 \in 1 .. Len(diffs) /\ diff < diffs[j - 1]
      BY <1>6, <3>1
    <3>3. new[(j - 1) + 1] = diffs[j - 1] /\ diffs[j - 1] \in Nat
      BY <1>1, <3>1, <3>2, OneMoreIs
    <3>4. new[j] = diffs[j - 1]
      BY <3>1, <3>3
    <3> QED
      BY <1>1, <3>2, <3>3, <3>4
  <2> QED
    BY <1>2, <1>8, <2>1, <2>2, <2>3
<1>10. g.lo + g.n - 2 = ql + qn - 1 /\ g.lo + k - 1 = p /\ k \in 1 .. g.n - 1
  BY <1>2, <1>3, <1>8
<1>11. PartsAt(new, g, k)
  BY <1>3, <1>9, <1>10 DEF PartsAt
<1>12. routes[g.node] = MakeRoute(new[g.lo + k - 1], k)
  BY <1>1, <1>3, <1>10
<1>13. /\ [node |-> g.node + 1, lo |-> g.lo, n |-> k] \in G
       /\ [node |-> g.node + k, lo |-> g.lo + k, n |-> g.n - k] \in G
  <2>1. CASE bit = 0
    <3>1. qv + 1 = g.node + 1 /\ ql = g.lo /\ k = 1 /\ ql + (1 - bit) = g.lo + k
          /\ qv + 1 = g.node + k /\ qn = g.n - k
      BY <1>2, <1>3, <1>8, <2>1
    <3> QED
      BY <1>4, <1>5, <2>1, <3>1
  <2>2. CASE bit = 1
    <3>1. qv + 1 = g.node + 1 /\ ql + (1 - bit) = g.lo /\ qn = k
          /\ qv + qn = g.node + k /\ ql + qn = g.lo + k /\ 1 = g.n - k
      BY <1>2, <1>3, <1>8, <2>2
    <3>2. [node |-> qv + qn, lo |-> ql + qn, n |-> 1] \in G
      BY <1>5, <2>2
    <3> QED
      BY <1>4, <3>1, <3>2
  <2> QED
    BY <1>8, <2>1, <2>2
<1>14. PartsWell(routes, new, G, g, k)
  BY <1>10, <1>11, <1>12, <1>13 DEF PartsWell
<1> QED
  BY <1>14 DEF routes, new, G, g, k

\* A frame of a tree has numbers, and at least one slot.
LEMMA FrameNumbers ==
    ASSUME NEW size, NEW tree, IsTree(tree, size), NEW f \in AllFrames(tree, size)
    PROVE  /\ f \in Frame(size) /\ f.n >= 1
           /\ f.node \in Nat /\ f.lo \in Nat /\ f.n \in Nat
BY PartsAre

\* A route above q has q on one of its sides.
LEMMA SideOfAbove ==
    ASSUME NEW diffs \in Seq(Nat), NEW q \in CartesianFrames(diffs),
           NEW f \in CartesianFrames(diffs), f # q,
           q \in FramesBelow(CartesianTree(diffs), f)
    PROVE  LET t == CartesianTree(diffs)
               l == LeftOf(t, f)
               r == RightOf(t, f)
           IN  /\ IsRoute(f)
               /\ \/ /\ q \in FramesBelow(t, l) /\ Inside(q, l) /\ Before(q, r)
                  \/ /\ q \notin FramesBelow(t, l)
                     /\ q \in FramesBelow(t, r) /\ Inside(q, r) /\ Before(l, q)
<1> DEFINE t == CartesianTree(diffs)
           size == Len(diffs) + 1
           all == CartesianFrames(diffs)
           l == LeftOf(t, f)
           r == RightOf(t, f)
<1>1. IsTree(t, size) /\ all = AllFrames(t, size) /\ size \in Nat
  BY CartesianBasics
<1>2. f \in AllFrames(t, size) /\ q \in AllFrames(t, size)
  BY <1>1
<1> HIDE DEF t, size, all
<1>3. FramesBelow(t, f) = IF IsRoute(f)
                          THEN {f} \cup FramesBelow(t, l) \cup FramesBelow(t, r)
                          ELSE {f}
  BY <1>1, <1>2, AllBelow
<1>4. IsRoute(f) /\ (q \in FramesBelow(t, l) \/ q \in FramesBelow(t, r))
  <2>1. q \in FramesBelow(t, f)
    BY DEF t
  <2> QED
    BY <1>3, <2>1
<1>5. l \in AllFrames(t, size) /\ r \in AllFrames(t, size) /\ Before(l, r)
  BY <1>1, <1>2, <1>4, PartsAre
<1> HIDE DEF l, r
<1>6. /\ l \in Frame(size) /\ r \in Frame(size) /\ q \in Frame(size)
      /\ q.node \in Nat /\ q.lo \in Nat /\ q.n \in Nat /\ q.n >= 1
      /\ l.node \in Nat /\ l.lo \in Nat /\ l.n \in Nat
      /\ r.node \in Nat /\ r.lo \in Nat /\ r.n \in Nat
  BY <1>1, <1>2, <1>5, FrameNumbers
<1>7. /\ q \in FramesBelow(t, l) => Inside(q, l)
      /\ q \in FramesBelow(t, r) => Inside(q, r)
  BY <1>1, <1>5, AllBelow
<1>8. Inside(l, l) /\ Inside(r, r)
  BY <1>6 DEF Inside
<1>9. /\ Inside(q, l) => Before(q, r)
      /\ Inside(q, r) => Before(l, q)
  BY <1>1, <1>5, <1>6, <1>8, BeforeInside
<1>10. ~ (Before(q, r) /\ Inside(q, r))
  BY <1>6 DEF Before, Inside
<1> QED
  BY <1>4, <1>7, <1>9, <1>10 DEF t, l, r

\* The routes above q gain a slot on one of their sides.
LEMMA GrownAbove ==
    ASSUME NEW diffs, NEW q, NEW diff, NEW bit, Growth(diffs, q, diff, bit),
           NEW f \in CartesianFrames(diffs), f # q,
           q \in FramesBelow(CartesianTree(diffs), f)
    PROVE  \E k \in Nat :
             PartsWell(GrownRoutes(diffs, q, diff, bit), GrownDiffs(diffs, q, diff, bit),
                       GrownFrames(diffs, q, bit), GrownFrame(f, q, bit), k)
<1> DEFINE t == CartesianTree(diffs)
           size == Len(diffs) + 1
           p == GrownPlace(q, bit)
           new == GrownDiffs(diffs, q, diff, bit)
           routes == GrownRoutes(diffs, q, diff, bit)
           G == GrownFrames(diffs, q, bit)
           l == LeftOf(t, f)
           r == RightOf(t, f)
           i == PlaceOf(diffs, f)
           onLeft == f.node \in LeftNodes(diffs, q)
           fv == f.node
           fl == f.lo
           fn == f.n
           k == t[f]
           m == IF onLeft THEN k + 1 ELSE k
           h == IF onLeft THEN i + 1 ELSE i
           g == GrownFrame(f, q, bit)
<1>1. /\ OneMore(diffs, new, p) /\ diffs \in Seq(Nat) /\ q \in CartesianFrames(diffs)
      /\ (bit = 0 /\ p = q.lo) \/ (bit = 1 /\ p = q.lo + q.n - 1)
      /\ new[p] = diff
  BY GrownIsOneMore
<1>2. /\ IsRoute(f)
      /\ onLeft <=> q \in FramesBelow(t, l)
      /\ \/ /\ q \in FramesBelow(t, l) /\ Inside(q, l) /\ Before(q, r)
         \/ /\ q \notin FramesBelow(t, l) /\ Inside(q, r) /\ Before(l, q)
  BY <1>1, SideOfAbove, LeftNodesAre
<1>3. \/ onLeft /\ Inside(q, l) /\ Before(q, r)
      \/ ~ onLeft /\ Inside(q, r) /\ Before(l, q)
  BY <1>2
<1>4. /\ q.node \in Nat /\ q.lo \in Nat /\ q.n \in Nat /\ q.lo >= 1 /\ q.n >= 1
      /\ Len(diffs) \in Nat
  BY <1>1, CartesianParts
<1>5. /\ fv \in Nat /\ fl \in Nat /\ fn \in Nat /\ fn > 1 /\ fl >= 1
      /\ fl + fn - 1 <= Len(diffs) + 1
  BY <1>1, <1>2, CartesianParts
<1>6. /\ k \in 1 .. fn - 1
      /\ l \in CartesianFrames(diffs) /\ r \in CartesianFrames(diffs)
      /\ l.node = fv + 1 /\ l.lo = fl /\ l.n = k
      /\ r.node = fv + k /\ r.lo = fl + k /\ r.n = fn - k
  <2> HIDE DEF new, routes, G, i, onLeft
  <2> QED
    BY <1>1, <1>2, CartesianParts
<1>7. /\ i = fl + k - 1 /\ PartsAt(diffs, f, k) /\ diffs[i] < diff /\ i \in 1 .. Len(diffs)
  BY <1>1, <1>2, CartesianBasics DEF PlaceOf, Growth
<1>8. /\ g = [node |-> fv, lo |-> fl, n |-> fn + 1]
      /\ g.node = fv /\ g.lo = fl /\ g.n = fn + 1
  <2>1. Inside(q, f)
    BY <1>1, FramesAround
  <2> QED
    BY <1>1, <2>1, GrownFrameIs
<1>9. /\ fv < q.node => routes[fv] = MakeRoute(diffs[i], m)
  <2> HIDE DEF routes, i, G, new
  <2> QED
    BY <1>2, GrownRoutesAre DEF routes, i
<1>10. LastSmallest(diffs, fl, fl + fn - 2, i)
  BY <1>7, PartsAtIs
<1> HIDE DEF t, size, p, new, routes, G, l, r, i, onLeft, fv, fl, fn, k, g
<1>11. /\ p \in Nat /\ p \in fl .. fl + fn - 1 /\ fv < q.node
       /\ onLeft <=> p <= i
  <2> DEFINE qv == q.node
             ql == q.lo
             qn == q.n
  <2>1. /\ ql <= p /\ p <= ql + qn - 1 /\ p \in Nat
        /\ qv \in Nat /\ ql \in Nat /\ qn \in Nat
    BY <1>1, <1>4
  <2>2. \/ onLeft /\ ql >= fl /\ ql + qn <= fl + k /\ qv >= fv + 1
        \/ ~ onLeft /\ ql >= fl + k /\ ql + qn <= fl + k + (fn - k) /\ qv >= fv + k
    <3>1. ASSUME Inside(q, l)
          PROVE  ql >= fl /\ ql + qn <= fl + k /\ qv >= fv + 1
      BY <1>6, <3>1 DEF Inside
    <3>2. ASSUME Inside(q, r)
          PROVE  ql >= fl + k /\ ql + qn <= fl + k + (fn - k) /\ qv >= fv + k
      BY <1>6, <3>2 DEF Inside
    <3> QED
      BY <1>3, <3>1, <3>2
  <2> HIDE DEF qv, ql, qn
  <2>3. /\ p \in Nat /\ p \in fl .. fl + fn - 1 /\ fv < qv
        /\ onLeft <=> p <= i
    BY <1>5, <1>6, <1>7, <2>1, <2>2
  <2> QED
    BY <2>3 DEF qv
<1> HIDE DEF m, h
<1>12. /\ onLeft => m = k + 1 /\ h = i + 1
       /\ ~ onLeft => m = k /\ h = i
  BY DEF m, h
<1>13. LastSmallest(new, fl, fl + fn - 1, h) /\ new[h] = diffs[i]
  <2> DEFINE b == fl + fn - 2
  <2>1. /\ fl \in Nat \ {0} /\ b \in Nat /\ b <= Len(diffs) /\ i \in fl .. b /\ p \in fl .. b + 1
        /\ b + 1 = fl + fn - 1
    BY <1>4, <1>5, <1>6, <1>7, <1>11
  <2>2. h = IF p <= i THEN i + 1 ELSE i
    BY <1>11, <1>12
  <2>3. LastSmallest(diffs, fl, b, i) /\ diffs[i] < new[p]
    BY <1>1, <1>7, <1>10
  <2> HIDE DEF b
  <2>4. OneMore(diffs, new, p)
    BY <1>1
  <2>5. fl \in Nat \ {0} /\ b \in Nat /\ b <= Len(diffs) /\ i \in fl .. b
    BY <2>1
  <2>6. p \in fl .. b + 1
    BY <2>1
  <2>7. LET z == IF p <= i THEN i + 1 ELSE i
        IN  LastSmallest(new, fl, b + 1, z) /\ new[z] = diffs[i]
    BY <2>3, <2>4, <2>5, <2>6, OneMoreLarger
  <2>8. LastSmallest(new, fl, b + 1, h) /\ new[h] = diffs[i]
    BY <2>2, <2>7
  <2> QED
    BY <2>1, <2>8
<1>14. g.lo + g.n - 2 = fl + fn - 1 /\ g.lo + m - 1 = h /\ m \in 1 .. g.n - 1
  BY <1>5, <1>6, <1>7, <1>8, <1>12
<1>15. PartsAt(new, g, m)
  BY <1>8, <1>13, <1>14, PartsAtIs
<1>16. routes[g.node] = MakeRoute(new[g.lo + m - 1], m)
  BY <1>8, <1>9, <1>11, <1>13, <1>14 DEF m
<1>17. /\ [node |-> g.node + 1, lo |-> g.lo, n |-> m] \in G
       /\ [node |-> g.node + m, lo |-> g.lo + m, n |-> g.n - m] \in G
  <2>1. CASE onLeft
    <3>1. Inside(q, l) /\ Before(q, r)
      BY <1>3, <2>1
    <3>2. [node |-> l.node, lo |-> l.lo, n |-> l.n + 1] \in G
      BY <1>1, <1>6, <3>1, WiderFrame DEF G
    <3>3. [node |-> r.node + 1, lo |-> r.lo + 1, n |-> r.n] \in G
      <4>1. GrownFrame(r, q, bit) = [node |-> r.node + 1, lo |-> r.lo + 1, n |-> r.n]
        BY <1>1, <1>6, <3>1, GrownFrameIs
      <4> QED
        BY <1>6, <4>1 DEF G, GrownFrames
    <3>4. /\ l.node = g.node + 1 /\ l.lo = g.lo /\ l.n + 1 = m
          /\ r.node + 1 = g.node + m /\ r.lo + 1 = g.lo + m /\ r.n = g.n - m
      BY <1>5, <1>6, <1>8, <1>12, <2>1
    <3> QED
      BY <3>2, <3>3, <3>4
  <2>2. CASE ~ onLeft
    <3>1. Inside(q, r) /\ Before(l, q)
      BY <1>3, <2>2
    <3>2. [node |-> r.node, lo |-> r.lo, n |-> r.n + 1] \in G
      BY <1>1, <1>6, <3>1, WiderFrame DEF G
    <3>3. l \in G
      <4>1. GrownFrame(l, q, bit) = l
        BY <1>1, <1>6, <3>1, GrownFrameIs
      <4> QED
        BY <1>6, <4>1 DEF G, GrownFrames
    <3>4. l = [node |-> l.node, lo |-> l.lo, n |-> l.n]
      <4>1. l \in Frame(size) /\ size \in Nat
        BY <1>1, <1>4, <1>6, CartesianBasics DEF size
      <4> QED
        BY <4>1, FrameType
    <3>5. /\ l.node = g.node + 1 /\ l.lo = g.lo /\ l.n = m
          /\ r.node = g.node + m /\ r.lo = g.lo + m /\ r.n + 1 = g.n - m
      BY <1>5, <1>6, <1>8, <1>12, <2>2
    <3> QED
      BY <3>2, <3>3, <3>4, <3>5
  <2> QED
    BY <2>1, <2>2
<1>18. PartsWell(routes, new, G, g, m)
  BY <1>14, <1>15, <1>16, <1>17 DEF PartsWell
<1>19. m \in Nat
  BY <1>5, <1>6, <1>12
<1> QED
  BY <1>18, <1>19 DEF routes, new, G, g

\* The grown frames are frames of a page one slot larger.
LEMMA GrownFramesFit ==
    ASSUME NEW diffs \in Seq(Nat), NEW q \in CartesianFrames(diffs), NEW bit \in {0, 1}
    PROVE  /\ GrownFrames(diffs, q, bit) \in SUBSET Frame(Len(diffs) + 2)
           /\ WholePage(Len(diffs) + 2) \in GrownFrames(diffs, q, bit)
<1> DEFINE size == Len(diffs) + 1
           w == WholePage(size)
           B(v) == v \in 1 .. Len(diffs) + 2
<1>1. Len(diffs) \in Nat
  OBVIOUS
<1>2. ASSUME NEW f \in CartesianFrames(diffs)
      PROVE  GrownFrame(f, q, bit) \in Frame(Len(diffs) + 2)
  <2> DEFINE fv == f.node
             fl == f.lo
             fn == f.n
             s == Len(diffs) + 2
  <2>1. /\ fv \in Nat \ {0} /\ fl \in Nat \ {0} /\ fn \in Nat \ {0}
        /\ fl + fn - 1 <= s - 1 /\ fv + fn - 1 <= s - 1 /\ s \in Nat
        /\ f \in Frame(Len(diffs) + 1)
    BY <1>1, CartesianParts
  <2>2. f = [node |-> fv, lo |-> fl, n |-> fn]
    BY <1>1, <2>1, FrameType
  <2>3. \/ GrownFrame(f, q, bit) = [node |-> fv, lo |-> fl, n |-> fn]
        \/ GrownFrame(f, q, bit) = [node |-> fv + 1, lo |-> fl + 1, n |-> fn]
        \/ GrownFrame(f, q, bit) = [node |-> fv + 1, lo |-> fl + (1 - bit), n |-> fn]
        \/ GrownFrame(f, q, bit) = [node |-> fv, lo |-> fl, n |-> fn + 1]
    BY <2>2 DEF GrownFrame
  <2> HIDE DEF fv, fl, fn, s
  <2>4. /\ fv \in 1 .. s /\ fl \in 1 .. s /\ fn \in 1 .. s
        /\ fv + 1 \in 1 .. s /\ fl + 1 \in 1 .. s /\ fl + (1 - bit) \in 1 .. s /\ fn + 1 \in 1 .. s
    BY <2>1
  <2>5. GrownFrame(f, q, bit) \in Frame(s)
    BY <2>3, <2>4 DEF Frame
  <2> QED
    BY <2>5 DEF s
<1>3. NewFrame(q) \in Frame(Len(diffs) + 2) /\ NewSlot(q, bit) \in Frame(Len(diffs) + 2)
  <2> DEFINE fv == q.node
             fl == q.lo
             fn == q.n
             s == Len(diffs) + 2
  <2>1. /\ fv \in Nat \ {0} /\ fl \in Nat \ {0} /\ fn \in Nat \ {0}
        /\ fl + fn - 1 <= s - 1 /\ fv + fn - 1 <= s - 1 /\ s \in Nat
    BY <1>1, CartesianParts
  <2>2. /\ NewFrame(q) = [node |-> fv, lo |-> fl, n |-> fn + 1]
        /\ \/ NewSlot(q, bit) = [node |-> fv + 1, lo |-> fl, n |-> 1]
           \/ NewSlot(q, bit) = [node |-> fv + fn, lo |-> fl + fn, n |-> 1]
    BY DEF NewFrame, NewSlot
  <2> HIDE DEF fv, fl, fn, s
  <2>3. /\ fv \in 1 .. s /\ fl \in 1 .. s /\ fn + 1 \in 1 .. s /\ 1 \in 1 .. s
        /\ fv + 1 \in 1 .. s /\ fv + fn \in 1 .. s /\ fl + fn \in 1 .. s
    BY <2>1
  <2>4. NewFrame(q) \in Frame(s) /\ NewSlot(q, bit) \in Frame(s)
    BY <2>2, <2>3 DEF Frame
  <2> QED
    BY <2>4 DEF s
<1>4. GrownFrames(diffs, q, bit) \in SUBSET Frame(Len(diffs) + 2)
  BY <1>2, <1>3 DEF GrownFrames
<1>5. w \in CartesianFrames(diffs) /\ w.node = 1 /\ w.lo = 1 /\ w.n = size
  BY CartesianBasics DEF WholePage
<1>6. Inside(q, w)
  <2>1. CartesianFrames(diffs) = FramesBelow(CartesianTree(diffs), w)
    BY DEF CartesianFrames
  <2> HIDE DEF w
  <2> QED
    BY <1>5, <2>1, FramesAround
<1>7. [node |-> w.node, lo |-> w.lo, n |-> w.n + 1] \in GrownFrames(diffs, q, bit)
  <2> HIDE DEF w
  <2> QED
    BY <1>5, <1>6, WiderFrame
<1>8. w.n + 1 = Len(diffs) + 2
  BY <1>1, <1>5
<1>9. WholePage(Len(diffs) + 2) \in GrownFrames(diffs, q, bit)
  BY <1>5, <1>7, <1>8 DEF WholePage
<1> QED
  BY <1>4, <1>9

\* Inserting the route above q makes the routes of the diffs with one more
\* (NodePage::InsertRoute against Index::BuildCartesian).
THEOREM GrownIsCartesian ==
    ASSUME NEW diffs, NEW q, NEW diff, NEW bit, Growth(diffs, q, diff, bit)
    PROVE  GrownRoutes(diffs, q, diff, bit) = RoutesOf(GrownDiffs(diffs, q, diff, bit))
<1> DEFINE new == GrownDiffs(diffs, q, diff, bit)
           routes == GrownRoutes(diffs, q, diff, bit)
           G == GrownFrames(diffs, q, bit)
<1>1. /\ diffs \in Seq(Nat) /\ q \in CartesianFrames(diffs) /\ bit \in {0, 1}
  BY DEF Growth
<1>2. new \in Seq(Nat) /\ Len(new) = Len(diffs) + 1 /\ Len(diffs) \in Nat
  BY <1>1, GrownDiffsAre
<1>3. routes = [i \in 1 .. Len(diffs) + 1 |-> routes[i]]
  BY GrownRoutesAre
<1>4. G \in SUBSET Frame(Len(diffs) + 2) /\ WholePage(Len(diffs) + 2) \in G
  BY <1>1, GrownFramesFit
<1>5. ASSUME NEW g \in G, IsRoute(g)
      PROVE  \E k \in Nat : PartsWell(routes, new, G, g, k)
  <2>1. CASE g = NewFrame(q)
    <3>1. (IF bit = 0 THEN 1 ELSE q.n) \in Nat
      BY <1>1, CartesianParts
    <3> QED
      BY <2>1, <3>1, NewParts
  <2>2. CASE g = NewSlot(q, bit)
    BY <1>5, <2>2 DEF NewSlot, IsRoute
  <2>3. CASE g \notin {NewFrame(q), NewSlot(q, bit)}
    <3>1. PICK f \in CartesianFrames(diffs) : g = GrownFrame(f, q, bit)
      BY <2>3 DEF GrownFrames
    <3>2. CASE Before(f, q) \/ Before(q, f) \/ Inside(f, q)
      <4>1. g.n = f.n
        BY <1>1, <3>1, <3>2, GrownFrameIs
      <4>2. IsRoute(f)
        BY <1>5, <4>1 DEF IsRoute
      <4> QED
        BY <3>1, <3>2, <4>2, BesideBefore
    <3>3. CASE ~ (Before(f, q) \/ Before(q, f) \/ Inside(f, q))
      <4>1. f # q /\ q \in FramesBelow(CartesianTree(diffs), f)
        BY <1>1, <3>3, FramesAround
      <4> QED
        BY <3>1, <4>1, GrownAbove
    <3> QED
      BY <3>2, <3>3
  <2> QED
    BY <2>1, <2>2, <2>3
<1> HIDE DEF new, routes, G
<1>6. Len(new) + 1 = Len(diffs) + 2
  BY <1>2
<1>7. routes = RoutesOf(new)
  BY <1>2, <1>3, <1>4, <1>5, <1>6, CartesianFrom
<1> QED
  BY <1>7 DEF new, routes

-----------------------------------------------------------------------------
(* The path to a frame *)

\* The first element that passes a test.
LEMMA FrameAboveIs ==
    ASSUME NEW page, NEW key, NEW diff, NEW S, PathFor(page, key) \in Seq(S)
    PROVE  LET p == PathFor(page, key)
               Test(f) == IsRoute(f) /\ diff < RouteDiff(page.routes[f.node])
               i == FrameAbove(page, key, diff)
           IN  \/ i = 0 /\ \A j \in 1 .. Len(p) : ~ Test(p[j])
               \/ /\ i \in 1 .. Len(p) /\ Test(p[i])
                  /\ \A j \in 1 .. i - 1 : ~ Test(p[j])
<1> DEFINE p == PathFor(page, key)
           Test(f) == IsRoute(f) /\ diff < RouteDiff(page.routes[f.node])
           I == {j \in 1 .. Len(p) : Test(p[j])}
           i == FrameAbove(page, key, diff)
<1>1. i = IF I # {} THEN Min(I) ELSE 0
  BY DEF FrameAbove, SelectInSeq
<1>2. Len(p) \in Nat /\ I \in SUBSET Nat
  OBVIOUS
<1>3. CASE I = {}
  BY <1>1, <1>3
<1>4. CASE I # {}
  <2>1. i = Min(I)
    BY <1>1, <1>4
  <2>2. \E m \in I : \A n \in I : m <= n
    <3> HIDE DEF I
    <3> QED
      BY <1>2, <1>4, Smallest
  <2>3. i \in I /\ \A n \in I : i <= n
    <3> HIDE DEF I, i
    <3> QED
      BY <2>1, <2>2 DEF Min
  <2>4. i \in 1 .. Len(p) /\ Test(p[i])
    BY <2>3
  <2>5. ASSUME NEW j \in 1 .. i - 1, Test(p[j])
        PROVE  FALSE
    <3> HIDE DEF i
    <3>1. j \in 1 .. Len(p) /\ j < i
      BY <1>2, <2>4
    <3>2. i <= j
      BY <2>3, <2>5, <3>1
    <3> QED
      BY <1>2, <2>4, <3>1, <3>2
  <2> QED
    BY <2>4, <2>5
<1> QED
  BY <1>3, <1>4

\* A page whose routes are those of diffs.
Canonical(page, diffs) ==
    /\ diffs \in Seq(Nat)
    /\ Len(page.reps) = Len(diffs) + 1
    /\ page.routes = RoutesOf(diffs)

\* The tree of a page is that of its diffs.
LEMMA CanonicalTree ==
    ASSUME NEW page, NEW diffs, Canonical(page, diffs)
    PROVE  LET size == Len(diffs) + 1
               t == CartesianTree(diffs)
               tree == TreeOf(page)
           IN  /\ diffs \in Seq(Nat)
               /\ size \in Nat \ {0} /\ Len(page.reps) = size
               /\ DOMAIN tree = Frame(size)
               /\ IsTree(tree, size)
               /\ AllFrames(tree, size) = CartesianFrames(diffs)
               /\ Frames(page) = CartesianFrames(diffs)
               /\ \A f \in CartesianFrames(diffs) : IsRoute(f) =>
                    /\ tree[f] = t[f]
                    /\ LeftOf(tree, f) = LeftOf(t, f)
                    /\ RightOf(tree, f) = RightOf(t, f)
<1> DEFINE size == Len(diffs) + 1
           t == CartesianTree(diffs)
           tree == TreeOf(page)
           all == CartesianFrames(diffs)
<1>1. /\ diffs \in Seq(Nat) /\ Len(page.reps) = size /\ page.routes = RoutesOf(diffs)
      /\ Len(diffs) \in Nat
  BY DEF Canonical
<1>2. tree = RouteTree(RoutesOf(diffs), size)
  BY <1>1 DEF TreeOf, RouteTree
<1>3. /\ IsTree(tree, size)
      /\ \A f \in AllFrames(tree, size) : IsRoute(f) =>
           RoutesOf(diffs)[f.node] = MakeRoute(diffs[f.lo + tree[f] - 1], tree[f])
  BY <1>1, <1>2, RoutesOfIsCartesian DEF IsCartesian
<1>4. RoutesOf(diffs) = [i \in 1 .. Len(diffs) |-> RoutesOf(diffs)[i]]
  BY DEF RoutesOf
<1>5. AllFrames(tree, size) = all
  BY <1>1, <1>2, <1>4, RoutesOfIsCartesian, CartesianIsUnique
<1>6. Frames(page) = all
  BY <1>1, <1>5 DEF Frames, AllFrames
<1>7. ASSUME NEW f \in all, IsRoute(f)
      PROVE  tree[f] = t[f]
  <2>1. RoutesOf(diffs)[f.node] = MakeRoute(diffs[f.lo + tree[f] - 1], tree[f])
    BY <1>3, <1>5, <1>7
  <2>2. RoutesOf(diffs)[f.node] = MakeRoute(diffs[f.lo + t[f] - 1], t[f])
    BY <1>1, <1>7, RoutesOfAt
  <2> DEFINE k == tree[f]
             l == t[f]
             x == diffs[f.lo + k - 1]
             y == diffs[f.lo + l - 1]
  <2>3. MakeRoute(x, k).left = k /\ MakeRoute(y, l).left = l
    BY MakeRouteLeft
  <2>4. MakeRoute(x, k) = MakeRoute(y, l)
    BY <2>1, <2>2
  <2> HIDE DEF x, y, k, l
  <2>5. k = l
    BY <2>3, <2>4
  <2> QED
    BY <2>5 DEF k, l
<1>8. \A f \in all : IsRoute(f) =>
        LeftOf(tree, f) = LeftOf(t, f) /\ RightOf(tree, f) = RightOf(t, f)
  <2> HIDE DEF tree, t, all
  <2> QED
    BY <1>7 DEF LeftOf, RightOf
<1>9. DOMAIN tree = Frame(size) /\ size \in Nat \ {0}
  BY <1>1, <1>2 DEF RouteTree
<1> QED
  BY <1>1, <1>3, <1>5, <1>6, <1>7, <1>8, <1>9

\* The route of a frame of a canonical page asks for the diff at the frame's
\* place.
LEMMA CanonicalRoute ==
    ASSUME NEW page, NEW diffs, Canonical(page, diffs),
           NEW f \in CartesianFrames(diffs), IsRoute(f)
    PROVE  LET d == diffs[PlaceOf(diffs, f)]
           IN  /\ d \in Nat
               /\ RouteDiff(page.routes[f.node]) = d
               /\ \A key \in Seq(Byte) : RouteBit(page.routes[f.node], key) = GetDiffBit(key, d)
<1> DEFINE d == diffs[PlaceOf(diffs, f)]
<1>1. diffs \in Seq(Nat) /\ page.routes = RoutesOf(diffs)
  BY DEF Canonical
<1>2. /\ PlaceOf(diffs, f) \in 1 .. Len(diffs)
      /\ page.routes[f.node] = MakeRoute(d, CartesianTree(diffs)[f])
  BY <1>1, CartesianBasics
<1>3. d \in Nat
  BY <1>1, <1>2
<1> QED
  BY <1>2, <1>3, RouteKeepsDiff, RouteAsksItsDiff

\* A way from the whole page down to one slot.
WayDown(p, diffs) ==
    /\ p \in Seq(CartesianFrames(diffs))
    /\ Len(p) \in Nat \ {0}
    /\ p[1] = WholePage(Len(diffs) + 1)
    /\ \A j \in 1 .. Len(p) - 1 :
         /\ IsRoute(p[j])
         /\ p[j + 1] \in {LeftOf(CartesianTree(diffs), p[j]), RightOf(CartesianTree(diffs), p[j])}
    /\ ~ IsRoute(p[Len(p)])

\* The way that the routes lead a key.
LEMMA PathForIs ==
    ASSUME NEW page, NEW diffs, Canonical(page, diffs), NEW key \in Seq(Byte)
    PROVE  LET p == PathFor(page, key)
           IN  /\ WayDown(p, diffs)
               /\ \A j \in 1 .. Len(p) - 1 :
                    p[j + 1] = IF GetDiffBit(key, diffs[PlaceOf(diffs, p[j])]) = 0
                               THEN LeftOf(CartesianTree(diffs), p[j])
                               ELSE RightOf(CartesianTree(diffs), p[j])
<1> DEFINE size == Len(diffs) + 1
           t == CartesianTree(diffs)
           tree == TreeOf(page)
           all == CartesianFrames(diffs)
           turn == TurnFor(page, key)
           p == PathFor(page, key)
<1>1. /\ IsTree(tree, size) /\ AllFrames(tree, size) = all /\ Len(page.reps) = size
      /\ DOMAIN tree = Frame(size) /\ diffs \in Seq(Nat)
      /\ all \in SUBSET Frame(size)
  BY CanonicalTree, CartesianBasics
<1>2. ASSUME NEW f \in all
      PROVE  /\ ~ IsRoute(f) => turn[f] = f
             /\ IsRoute(f) =>
                  turn[f] = IF GetDiffBit(key, diffs[PlaceOf(diffs, f)]) = 0
                            THEN LeftOf(t, f) ELSE RightOf(t, f)
             /\ IsRoute(f) => LeftOf(tree, f) = LeftOf(t, f) /\ RightOf(tree, f) = RightOf(t, f)
  <2>1. f \in DOMAIN tree
    BY <1>1
  <2>2. turn[f] = IF ~ IsRoute(f) THEN f
                  ELSE IF RouteBit(page.routes[f.node], key) = 0
                  THEN LeftOf(tree, f) ELSE RightOf(tree, f)
    BY <2>1 DEF TurnFor
  <2>3. IsRoute(f) => /\ LeftOf(tree, f) = LeftOf(t, f) /\ RightOf(tree, f) = RightOf(t, f)
                      /\ RouteBit(page.routes[f.node], key)
                           = GetDiffBit(key, diffs[PlaceOf(diffs, f)])
    BY CanonicalTree, CanonicalRoute
  <2> HIDE DEF turn, t, tree
  <2> QED
    BY <2>2, <2>3
<1>3. GoesDown(turn, tree, size)
  <2> HIDE DEF turn, t, tree, all
  <2> QED
    BY <1>1, <1>2 DEF GoesDown
<1>4. IsPath(p, turn, tree, size)
  <2>1. p = Path(turn, size)
    BY <1>1 DEF PathFor
  <2> HIDE DEF p, turn, tree
  <2> QED
    BY <1>1, <1>3, <2>1, PathIs
<1> HIDE DEF p, turn, tree, t
<1>5. /\ p \in Seq(all) /\ Len(p) \in Nat \ {0} /\ p[1] = WholePage(size)
      /\ \A j \in 1 .. Len(p) - 1 : IsRoute(p[j]) /\ p[j + 1] = turn[p[j]]
      /\ ~ IsRoute(p[Len(p)])
  BY <1>1, <1>4 DEF IsPath
<1>6. ASSUME NEW j \in 1 .. Len(p) - 1
      PROVE  /\ IsRoute(p[j])
             /\ p[j + 1] = IF GetDiffBit(key, diffs[PlaceOf(diffs, p[j])]) = 0
                           THEN LeftOf(t, p[j]) ELSE RightOf(t, p[j])
  <2>1. p[j] \in all
    BY <1>5
  <2> QED
    BY <1>2, <1>5, <2>1
<1> QED
  BY <1>5, <1>6 DEF WayDown, p, t

\* No frame is inside both sides of a route.
LEMMA OneSide ==
    ASSUME NEW diffs \in Seq(Nat), NEW f \in CartesianFrames(diffs), IsRoute(f),
           NEW e \in CartesianFrames(diffs)
    PROVE  ~ (/\ Inside(e, LeftOf(CartesianTree(diffs), f))
              /\ Inside(e, RightOf(CartesianTree(diffs), f)))
<1> DEFINE l == LeftOf(CartesianTree(diffs), f)
           r == RightOf(CartesianTree(diffs), f)
<1>1. l.lo + l.n = r.lo /\ l.lo \in Nat /\ l.n \in Nat /\ r.lo \in Nat
  BY CartesianParts
<1>2. e.lo \in Nat /\ e.n \in Nat \ {0}
  BY CartesianParts
<1> HIDE DEF l, r
<1>3. ~ (Inside(e, l) /\ Inside(e, r))
  <2> DEFINE el == e.lo
             en == e.n
             ll == l.lo
             ln == l.n
             rl == r.lo
  <2>1. SUFFICES ASSUME Inside(e, l), Inside(e, r) PROVE FALSE
    OBVIOUS
  <2>2. el + en <= ll + ln /\ rl <= el
    BY <2>1 DEF Inside
  <2>3. el \in Nat /\ en \in Nat \ {0} /\ ll + ln = rl /\ ll \in Nat /\ ln \in Nat /\ rl \in Nat
    BY <1>1, <1>2
  <2> HIDE DEF el, en, ll, ln, rl
  <2> QED
    BY <2>2, <2>3
<1> QED
  BY <1>3 DEF l, r

\* The frames of a way down lie in each other.
LEMMA WayIsBelow ==
    ASSUME NEW diffs \in Seq(Nat), NEW p, WayDown(p, diffs), NEW i \in 1 .. Len(p),
           NEW j \in 1 .. i
    PROVE  /\ p[i] \in CartesianFrames(diffs) /\ p[j] \in CartesianFrames(diffs)
           /\ p[i] \in FramesBelow(CartesianTree(diffs), p[j])
<1> DEFINE t == CartesianTree(diffs)
           size == Len(diffs) + 1
           all == CartesianFrames(diffs)
           T == {k \in Nat : j + k <= Len(p) => p[j + k] \in FramesBelow(t, p[j])}
<1>1. /\ IsTree(t, size) /\ all = AllFrames(t, size)
      /\ p \in Seq(all) /\ Len(p) \in Nat
      /\ \A k \in 1 .. Len(p) - 1 : IsRoute(p[k]) /\ p[k + 1] \in {LeftOf(t, p[k]), RightOf(t, p[k])}
  BY CartesianBasics DEF WayDown
<1> HIDE DEF t, all, size
<1>2. \A k \in 1 .. Len(p) : p[k] \in all
  BY <1>1
<1>3. p[j] \in FramesBelow(t, p[j])
  BY <1>1, <1>2, AllBelow
<1>4. 0 \in T
  BY <1>3
<1>5. ASSUME NEW k \in T
      PROVE  k + 1 \in T
  <2>1. SUFFICES ASSUME j + (k + 1) <= Len(p)
                 PROVE  p[j + (k + 1)] \in FramesBelow(t, p[j])
    OBVIOUS
  <2>2. /\ k \in Nat /\ j + k <= Len(p) /\ j + k \in 1 .. Len(p) - 1
        /\ j + (k + 1) = (j + k) + 1
    BY <1>1, <2>1
  <2>3. p[j + k] \in FramesBelow(t, p[j]) /\ p[j + k] \in all
    BY <1>2, <2>2
  <2>4. p[(j + k) + 1] \in FramesBelow(t, p[j + k])
    BY <1>1, <2>2, <2>3, AllBelow
  <2>5. FramesBelow(t, p[j + k]) \subseteq FramesBelow(t, p[j])
    BY <1>1, <1>2, <2>3, AllBelow
  <2> QED
    BY <2>2, <2>4, <2>5
<1>6. T = Nat
  <2>1. T \in SUBSET Nat
    OBVIOUS
  <2> HIDE DEF T
  <2> QED
    BY <1>4, <1>5, <2>1, SetInduction
<1>7. i - j \in T
  <2>1. i - j \in Nat
    BY <1>1
  <2> QED
    BY <1>6, <2>1
<1>8. j + (i - j) = i /\ i <= Len(p)
  BY <1>1
<1> QED
  BY <1>1, <1>2, <1>7, <1>8 DEF t, all

\* A frame above the next frame of a way is that frame, or above the last one.
LEMMA AboveChild ==
    ASSUME NEW diffs \in Seq(Nat), NEW f \in CartesianFrames(diffs), IsRoute(f),
           NEW c \in {LeftOf(CartesianTree(diffs), f), RightOf(CartesianTree(diffs), f)},
           NEW g \in CartesianFrames(diffs), c \in FramesBelow(CartesianTree(diffs), g)
    PROVE  g = c \/ f \in FramesBelow(CartesianTree(diffs), g)
<1> DEFINE t == CartesianTree(diffs)
           l == LeftOf(t, f)
           r == RightOf(t, f)
<1>1. l \in CartesianFrames(diffs) /\ r \in CartesianFrames(diffs)
  BY CartesianParts
<1>2. c \in CartesianFrames(diffs)
  BY <1>1
<1>3. Inside(c, g)
  BY <1>2, FramesAround
<1>4. CASE g \in FramesBelow(t, f) /\ g # f
  <2>1. (Inside(g, l) \/ Inside(g, r)) /\ g.n >= 1
    BY <1>4, SideOfAbove, CartesianParts
  <2>2. /\ Inside(g, l) => Inside(c, l)
        /\ Inside(g, r) => Inside(c, r)
    <3>1. /\ g \in Frame(Len(diffs) + 1) /\ c \in Frame(Len(diffs) + 1)
          /\ l \in Frame(Len(diffs) + 1) /\ r \in Frame(Len(diffs) + 1)
          /\ Len(diffs) + 1 \in Nat
      BY <1>1, <1>2, CartesianParts
    <3> HIDE DEF l, r
    <3> QED
      BY <1>3, <3>1, InsideInside
  <2>3. Inside(l, l) /\ Inside(r, r)
    BY <1>1, FramesAround
  <2>4. ~ (Inside(c, l) /\ Inside(c, r))
    BY <1>2, OneSide
  <2>5. Inside(g, c)
    BY <2>1, <2>2, <2>3, <2>4
  <2> QED
    BY <1>2, <1>3, <2>5, FramesAround
<1>5. CASE Before(f, g) \/ Before(g, f)
  <2>1. Inside(c, f)
    <3>1. Inside(l, f) /\ Inside(r, f)
      <4>1. l \in FramesBelow(t, f) /\ r \in FramesBelow(t, f)
        BY CartesianBasics, AllBelow
      <4> HIDE DEF l, r, t
      <4> QED
        BY <1>1, <4>1, FramesAround DEF t
    <3> QED
      BY <3>1
  <2>2. /\ c \in Frame(Len(diffs) + 1) /\ f \in Frame(Len(diffs) + 1)
        /\ g \in Frame(Len(diffs) + 1) /\ Len(diffs) + 1 \in Nat
        /\ c.n >= 1 /\ c.lo \in Nat /\ c.n \in Nat
    <3>1. c.n \in Nat \ {0} /\ c.lo \in Nat \ {0} /\ c \in Frame(Len(diffs) + 1)
      BY <1>2, CartesianParts
    <3>2. f \in Frame(Len(diffs) + 1) /\ g \in Frame(Len(diffs) + 1) /\ Len(diffs) + 1 \in Nat
      BY CartesianParts
    <3> HIDE DEF l, r
    <3> QED
      BY <3>1, <3>2
  <2>3. Before(c, c)
    BY <1>3, <1>5, <2>1, <2>2, BeforeInside
  <2> QED
    BY <2>2, <2>3 DEF Before
<1> QED
  BY <1>4, <1>5, FramesAround

\* The frames above one of a way are those that come before it on the way.
LEMMA AboveIsOnWay ==
    ASSUME NEW diffs \in Seq(Nat), NEW p, WayDown(p, diffs), NEW i \in 1 .. Len(p),
           NEW g \in CartesianFrames(diffs), p[i] \in FramesBelow(CartesianTree(diffs), g)
    PROVE  \E j \in 1 .. i : g = p[j]
<1> DEFINE t == CartesianTree(diffs)
           all == CartesianFrames(diffs)
           whole == WholePage(Len(diffs) + 1)
           T == {k \in Nat : k + 1 <= Len(p) =>
                    (p[k + 1] \in FramesBelow(t, g) => \E j \in 1 .. k + 1 : g = p[j])}
<1>1. /\ p \in Seq(all) /\ Len(p) \in Nat /\ p[1] = whole
      /\ \A k \in 1 .. Len(p) - 1 : IsRoute(p[k]) /\ p[k + 1] \in {LeftOf(t, p[k]), RightOf(t, p[k])}
  BY DEF WayDown
<1>2. 0 \in T
  <2>1. SUFFICES ASSUME whole \in FramesBelow(t, g) PROVE g = whole
    BY <1>1
  <2>2. whole \in all /\ g \in FramesBelow(t, whole)
    BY CartesianBasics DEF AllFrames
  <2>3. Inside(g, whole)
    <3> HIDE DEF whole
    <3> QED
      BY <2>2, FramesAround
  <2>4. Inside(whole, g)
    <3> HIDE DEF whole
    <3> QED
      BY <2>1, <2>2, FramesAround
  <2> HIDE DEF whole
  <2> QED
    BY <2>2, <2>3, <2>4, FramesAround
<1> HIDE DEF t, all, whole
<1>3. ASSUME NEW k \in T
      PROVE  k + 1 \in T
  <2>1. SUFFICES ASSUME (k + 1) + 1 <= Len(p), p[(k + 1) + 1] \in FramesBelow(t, g)
                 PROVE  \E j \in 1 .. (k + 1) + 1 : g = p[j]
    OBVIOUS
  <2>2. k \in Nat /\ k + 1 \in 1 .. Len(p) - 1 /\ k + 1 <= Len(p)
    BY <1>1, <2>1
  <2>3. p[k + 1] \in all /\ IsRoute(p[k + 1])
        /\ p[(k + 1) + 1] \in {LeftOf(t, p[k + 1]), RightOf(t, p[k + 1])}
    BY <1>1, <2>2
  <2>4. g = p[(k + 1) + 1] \/ p[k + 1] \in FramesBelow(t, g)
    BY <2>1, <2>3, AboveChild DEF t, all
  <2>5. p[k + 1] \in FramesBelow(t, g) => \E j \in 1 .. k + 1 : g = p[j]
    BY <2>2
  <2>6. (k + 1) + 1 \in 1 .. (k + 1) + 1 /\ \A j \in 1 .. k + 1 : j \in 1 .. (k + 1) + 1
    BY <2>2
  <2> QED
    BY <2>4, <2>5, <2>6
<1>4. T = Nat
  <2>1. T \in SUBSET Nat
    OBVIOUS
  <2> HIDE DEF T
  <2> QED
    BY <1>2, <1>3, <2>1, SetInduction
<1>5. i - 1 \in T /\ (i - 1) + 1 = i /\ i <= Len(p)
  <2>1. i - 1 \in Nat /\ (i - 1) + 1 = i /\ i <= Len(p)
    BY <1>1
  <2> QED
    BY <1>4, <2>1
<1> QED
  BY <1>5 DEF t

\* The nodes that a way leaves to the left.
LEMMA LeftTurnsAre ==
    ASSUME NEW diffs \in Seq(Nat), NEW p, WayDown(p, diffs), NEW i \in 1 .. Len(p)
    PROVE  LeftTurns(p, i) = LeftNodes(diffs, p[i])
<1> DEFINE t == CartesianTree(diffs)
           all == CartesianFrames(diffs)
<1>1. /\ p \in Seq(all) /\ Len(p) \in Nat
      /\ \A k \in 1 .. Len(p) - 1 : IsRoute(p[k]) /\ p[k + 1] \in {LeftOf(t, p[k]), RightOf(t, p[k])}
  BY DEF WayDown
<1>2. \A k \in 1 .. Len(p) : p[k] \in all
  BY <1>1
<1>3. ASSUME NEW j \in 1 .. i - 1
      PROVE  /\ p[j] \in all /\ IsRoute(p[j])
             /\ p[j + 1].lo = p[j].lo <=> p[j + 1] = LeftOf(t, p[j])
             /\ p[j + 1] = LeftOf(t, p[j]) \/ p[j + 1] = RightOf(t, p[j])
             /\ p[i] \in FramesBelow(t, p[j + 1])
             /\ j \in 1 .. Len(p) /\ j + 1 \in 1 .. i
  <2>1. j \in 1 .. Len(p) - 1 /\ j \in 1 .. Len(p) /\ j + 1 \in 1 .. i
    BY <1>1
  <2>2. p[j] \in all /\ IsRoute(p[j])
        /\ (p[j + 1] = LeftOf(t, p[j]) \/ p[j + 1] = RightOf(t, p[j]))
    BY <1>1, <1>2, <2>1
  <2>3. LeftOf(t, p[j]).lo = p[j].lo /\ RightOf(t, p[j]).lo # p[j].lo
    <3>1. /\ LeftOf(t, p[j]).lo = p[j].lo /\ RightOf(t, p[j]).lo = p[j].lo + t[p[j]]
          /\ p[j].lo \in Nat /\ t[p[j]] \in 1 .. p[j].n - 1 /\ p[j].n \in Nat
      BY <2>2, CartesianParts
    <3> QED
      BY <3>1
  <2>4. p[i] \in FramesBelow(t, p[j + 1])
    BY <2>1, WayIsBelow
  <2> QED
    BY <2>1, <2>2, <2>3, <2>4
<1>4. ASSUME NEW g \in all, IsRoute(g), p[i] \in FramesBelow(t, LeftOf(t, g))
      PROVE  \E j \in 1 .. i - 1 : g = p[j] /\ p[j + 1].lo = p[j].lo
  <2> DEFINE l == LeftOf(t, g)
             r == RightOf(t, g)
  <2>0. p[i] \in all
    BY <1>2
  <2>1. /\ l \in all /\ r \in all
        /\ l.n = t[g] /\ t[g] \in 1 .. g.n - 1 /\ g.n \in Nat
    BY <1>4, CartesianParts
  <2>2. FramesBelow(t, l) \subseteq FramesBelow(t, g)
    <3>1. l \in FramesBelow(t, g) /\ IsTree(t, Len(diffs) + 1) /\ g \in AllFrames(t, Len(diffs) + 1)
      BY <1>4, CartesianBasics, AllBelow
    <3> QED
      BY <3>1, AllBelow
  <2>3. PICK j \in 1 .. i : g = p[j]
    BY <1>4, <2>2, AboveIsOnWay
  <2>4. Inside(p[i], l)
    BY <1>4, <2>0, <2>1, FramesAround
  <2>5. j # i
    <3>1. SUFFICES ASSUME Inside(g, l) PROVE FALSE
      BY <2>3, <2>4
    <3>2. Inside(l, g)
      <4>1. l \in FramesBelow(t, g)
        BY <1>4, CartesianBasics, AllBelow
      <4> HIDE DEF l
      <4> QED
        BY <1>4, <2>1, <4>1, FramesAround
    <3>3. l = g
      <4> HIDE DEF l, r
      <4> QED
        BY <2>1, <3>1, <3>2, FramesAround
    <3> QED
      BY <2>1, <3>3
  <2>6. j \in 1 .. i - 1 /\ i \in Nat
    BY <2>5
  <2>7. p[j + 1] # r
    <3>1. SUFFICES ASSUME p[j + 1] = r PROVE FALSE
      OBVIOUS
    <3>2. p[i] \in FramesBelow(t, r)
      BY <1>3, <2>6, <3>1
    <3>3. Inside(p[i], r)
      <4> HIDE DEF l, r
      <4> QED
        BY <2>0, <2>1, <3>2, FramesAround
    <3> QED
      BY <1>4, <2>0, <2>4, <3>3, OneSide
  <2>8. p[j + 1].lo = p[j].lo
    BY <1>3, <2>3, <2>6, <2>7
  <2> QED
    BY <2>3, <2>6, <2>8
<1>5. ASSUME NEW x \in LeftTurns(p, i)
      PROVE  x \in LeftNodes(diffs, p[i])
  <2>1. PICK j \in 1 .. i - 1 : p[j + 1].lo = p[j].lo /\ x = p[j].node
    BY DEF LeftTurns
  <2>2. /\ p[j] \in all /\ IsRoute(p[j])
        /\ p[i] \in FramesBelow(t, LeftOf(t, p[j]))
    BY <1>3, <2>1
  <2> QED
    BY <2>1, <2>2 DEF LeftNodes
<1>6. ASSUME NEW x \in LeftNodes(diffs, p[i])
      PROVE  x \in LeftTurns(p, i)
  <2>1. PICK g \in all : /\ IsRoute(g) /\ p[i] \in FramesBelow(t, LeftOf(t, g))
                         /\ x = g.node
    BY DEF LeftNodes
  <2>2. PICK j \in 1 .. i - 1 : g = p[j] /\ p[j + 1].lo = p[j].lo
    BY <1>4, <2>1
  <2> QED
    BY <2>1, <2>2 DEF LeftTurns
<1> QED
  BY <1>5, <1>6

\* The frame that a key parts from.
FrameParted(page, key, diff) ==
    LET above == FrameAbove(page, key, diff)
    IN  PathFor(page, key)[IF above = 0 THEN Len(PathFor(page, key)) ELSE above]

\* No route on the way of key asks for diff.
NotAsked(page, key, diff) ==
    \A j \in 1 .. Len(PathFor(page, key)) :
        IsRoute(PathFor(page, key)[j]) =>
            RouteDiff(page.routes[PathFor(page, key)[j].node]) # diff

\* The place that a key parts at makes room for a new route.
LEMMA PartedGrows ==
    ASSUME NEW page, NEW diffs, Canonical(page, diffs),
           NEW key \in Seq(Byte), NEW diff \in Nat, NotAsked(page, key, diff),
           NEW bit \in {0, 1}
    PROVE  LET p == PathFor(page, key)
               above == FrameAbove(page, key, diff)
               i == IF above = 0 THEN Len(p) ELSE above
           IN  /\ i \in 1 .. Len(p)
               /\ Growth(diffs, p[i], diff, bit)
               /\ LeftTurns(p, i) = LeftNodes(diffs, p[i])
<1> DEFINE t == CartesianTree(diffs)
           all == CartesianFrames(diffs)
           p == PathFor(page, key)
           above == FrameAbove(page, key, diff)
           i == IF above = 0 THEN Len(p) ELSE above
           Asks(f) == RouteDiff(page.routes[f.node])
<1>1. diffs \in Seq(Nat) /\ WayDown(p, diffs)
  BY PathForIs DEF Canonical
<1>2. /\ p \in Seq(all) /\ Len(p) \in Nat \ {0} /\ ~ IsRoute(p[Len(p)])
      /\ \A j \in 1 .. Len(p) : p[j] \in all
      /\ \A j \in 1 .. Len(p) - 1 : IsRoute(p[j])
  BY <1>1 DEF WayDown
<1>3. \A f \in all : IsRoute(f) =>
        Asks(f) = diffs[PlaceOf(diffs, f)] /\ Asks(f) \in Nat
  BY CanonicalRoute
<1>4. \/ above = 0 /\ \A j \in 1 .. Len(p) : ~ (IsRoute(p[j]) /\ diff < Asks(p[j]))
      \/ /\ above \in 1 .. Len(p) /\ IsRoute(p[above]) /\ diff < Asks(p[above])
         /\ \A j \in 1 .. above - 1 : ~ (IsRoute(p[j]) /\ diff < Asks(p[j]))
  BY <1>2, FrameAboveIs
<1>5. \A j \in 1 .. Len(p) : IsRoute(p[j]) => Asks(p[j]) # diff
  BY DEF NotAsked
<1> HIDE DEF p, above, t, all, Asks
<1>6. /\ i \in 1 .. Len(p)
      /\ IsRoute(p[i]) => diff < Asks(p[i])
      /\ \A j \in 1 .. i - 1 : IsRoute(p[j]) /\ ~ (diff < Asks(p[j]))
  BY <1>2, <1>4
<1> HIDE DEF i
<1>7. \A j \in 1 .. i - 1 : p[j] \in all /\ Asks(p[j]) < diff
  <2> TAKE j \in 1 .. i - 1
  <2>1. j \in 1 .. Len(p)
    BY <1>2, <1>6
  <2>2. p[j] \in all /\ Asks(p[j]) \in Nat /\ Asks(p[j]) # diff /\ ~ (diff < Asks(p[j]))
    BY <1>2, <1>3, <1>5, <1>6, <2>1
  <2> QED
    BY <2>2
<1>8. ASSUME NEW g \in all, p[i] \in FramesBelow(t, g), g # p[i]
      PROVE  diffs[PlaceOf(diffs, g)] < diff
  <2>1. PICK j \in 1 .. i : g = p[j]
    BY <1>1, <1>6, <1>8, AboveIsOnWay DEF t, all
  <2>2. j \in 1 .. i - 1
    BY <1>2, <1>6, <1>8, <2>1
  <2> QED
    BY <1>3, <1>6, <1>7, <2>1, <2>2
<1>9. IsRoute(p[i]) => diff < diffs[PlaceOf(diffs, p[i])]
  BY <1>2, <1>3, <1>6
<1>10. Growth(diffs, p[i], diff, bit)
  BY <1>1, <1>2, <1>6, <1>8, <1>9 DEF Growth, t, all
<1>11. LeftTurns(p, i) = LeftNodes(diffs, p[i])
  BY <1>1, <1>6, LeftTurnsAre
<1> QED
  BY <1>6, <1>10, <1>11 DEF p, i, above

\* NodePage::InsertRoute, which edits the routes of a page in place, writes
\* what a rebuild with the new diff would (Index::BuildCartesian over the
\* diffs with one more).
THEOREM InsertRouteIsRebuild ==
    ASSUME NEW page, NEW diffs, Canonical(page, diffs),
           NEW key \in Seq(Byte), NEW diff \in Nat, NotAsked(page, key, diff)
    PROVE  LET q == FrameParted(page, key, diff)
               slot == SlotAt(q, key, diff)
               place == IF GetDiffBit(key, diff) = 0 THEN slot ELSE slot - 1
           IN  InsertRoute(page, slot, key, diff) = RoutesOf(InsertAt(diffs, place, diff))
<1> DEFINE p == PathFor(page, key)
           above == FrameAbove(page, key, diff)
           i == IF above = 0 THEN Len(p) ELSE above
           q == FrameParted(page, key, diff)
           slot == SlotAt(q, key, diff)
           bit == IF GetDiffBit(key, diff) = 0 THEN 0 ELSE 1
           place == IF GetDiffBit(key, diff) = 0 THEN slot ELSE slot - 1
<1>1. q = p[i]
  BY DEF FrameParted
<1>2. bit \in {0, 1} /\ (bit = 0 <=> GetDiffBit(key, diff) = 0)
  OBVIOUS
<1>3. Growth(diffs, q, diff, bit) /\ LeftTurns(p, i) = LeftNodes(diffs, q)
  <2> HIDE DEF bit, q
  <2>1. Growth(diffs, p[i], diff, bit) /\ LeftTurns(p, i) = LeftNodes(diffs, p[i])
    BY <1>2, PartedGrows
  <2> QED
    BY <1>1, <2>1
<1>4. page.routes = RoutesOf(diffs)
  BY DEF Canonical
<1>5. InsertRoute(page, slot, key, diff)
        = InsertAt(Recount(page.routes, LeftTurns(p, i), 1), q.node,
                   MakeRoute(diff, IF GetDiffBit(key, diff) = 0 THEN 1 ELSE q.n))
  BY <1>1 DEF InsertRoute
<1>6. place = GrownPlace(q, bit)
  <2>1. q \in CartesianFrames(diffs) /\ diffs \in Seq(Nat)
    BY <1>3 DEF Growth
  <2>2. q.lo \in Nat /\ q.n \in Nat
    BY <2>1, CartesianParts
  <2> HIDE DEF q
  <2> QED
    BY <2>2 DEF SlotAt, GrownPlace
<1> HIDE DEF q, bit, place, p, i
<1>7. InsertRoute(page, slot, key, diff) = GrownRoutes(diffs, q, diff, bit)
  BY <1>2, <1>3, <1>4, <1>5 DEF GrownRoutes
<1>8. GrownRoutes(diffs, q, diff, bit) = RoutesOf(GrownDiffs(diffs, q, diff, bit))
  BY <1>3, GrownIsCartesian
<1> QED
  BY <1>6, <1>7, <1>8 DEF GrownDiffs, q, place

\* NodePage::RouteDiffs reads the diffs back that the routes of a page were
\* built from, so that splits and merges may pass them on.
THEOREM RouteDiffsAreDiffs ==
    ASSUME NEW page, NEW diffs, Canonical(page, diffs)
    PROVE  RouteDiffs(page) = diffs
<1> DEFINE t == CartesianTree(diffs)
           size == Len(diffs) + 1
           all == CartesianFrames(diffs)
           Parts(f, i) == IsRoute(f) /\ f.lo + page.routes[f.node].left - 1 = i
           At(i) == CHOOSE f \in Frames(page) : Parts(f, i)
<1>1. /\ diffs \in Seq(Nat) /\ Len(page.reps) - 1 = Len(diffs) /\ Len(diffs) \in Nat
      /\ page.routes = RoutesOf(diffs)
      /\ Frames(page) = all
  BY CanonicalTree DEF Canonical
<1>2. RouteDiffs(page) = [i \in 1 .. Len(diffs) |-> RouteDiff(page.routes[At(i).node])]
  BY <1>1 DEF RouteDiffs
<1>3. ASSUME NEW f \in all, IsRoute(f)
      PROVE  /\ f.lo + page.routes[f.node].left - 1 = PlaceOf(diffs, f)
             /\ RouteDiff(page.routes[f.node]) = diffs[PlaceOf(diffs, f)]
  <2>1. page.routes[f.node] = MakeRoute(diffs[PlaceOf(diffs, f)], t[f])
    BY <1>1, <1>3, CartesianBasics
  <2>2. page.routes[f.node].left = t[f]
    BY <2>1, MakeRouteLeft
  <2>3. RouteDiff(page.routes[f.node]) = diffs[PlaceOf(diffs, f)]
    BY <1>3, CanonicalRoute
  <2> QED
    BY <2>2, <2>3 DEF PlaceOf
<1>4. ASSUME NEW i \in 1 .. Len(diffs)
      PROVE  RouteDiff(page.routes[At(i).node]) = diffs[i]
  <2> DEFINE whole == WholePage(size)
  <2>1. /\ IsTree(t, size) /\ whole \in AllFrames(t, size)
        /\ all = AllFrames(t, size) /\ all = FramesBelow(t, whole)
        /\ whole.lo = 1 /\ whole.n = size
    BY <1>1, CartesianBasics DEF AllFrames, WholePage
  <2>2. i \in whole.lo .. whole.lo + whole.n - 2
    BY <1>1, <2>1
  <2> HIDE DEF whole
  <2>3. PICK g \in all : IsRoute(g) /\ g.lo + t[g] - 1 = i
    BY <2>1, <2>2, RoutesCover
  <2>4. \E f \in Frames(page) : Parts(f, i)
    BY <1>1, <1>3, <2>3 DEF PlaceOf
  <2>5. At(i) \in Frames(page) /\ Parts(At(i), i)
    BY <2>4
  <2> HIDE DEF At
  <2>6. PlaceOf(diffs, At(i)) = i
    BY <1>1, <1>3, <2>5
  <2> QED
    BY <1>1, <1>3, <2>5, <2>6
<1>5. RouteDiffs(page) = [i \in 1 .. Len(diffs) |-> diffs[i]]
  <2> HIDE DEF At
  <2> QED
    BY <1>2, <1>4
<1> QED
  BY <1>1, <1>5

-----------------------------------------------------------------------------
(* One route less *)

\* One side of h is a single slot: the left one if bit is 0.
Loss(diffs, h, bit) ==
    /\ diffs \in Seq(Nat) /\ h \in CartesianFrames(diffs) /\ IsRoute(h)
    /\ bit \in {0, 1}
    /\ CartesianTree(diffs)[h] = IF bit = 0 THEN 1 ELSE h.n - 1

\* The slot that goes with the route h.
LostSlot(diffs, h, bit) ==
    IF bit = 0 THEN LeftOf(CartesianTree(diffs), h) ELSE RightOf(CartesianTree(diffs), h)

\* The side of h that stays.
KeptSide(diffs, h, bit) ==
    IF bit = 0 THEN RightOf(CartesianTree(diffs), h) ELSE LeftOf(CartesianTree(diffs), h)

\* The diffs of a page after the deletion of that slot.
ShrunkDiffs(diffs, h) == RemoveAt(diffs, PlaceOf(diffs, h))

\* The routes that DeleteRoute leaves: left counts on the way lowered by one,
\* and h removed.
ShrunkRoutes(diffs, h) ==
    RemoveAt(Recount(RoutesOf(diffs), LeftNodes(diffs, h), -1), h.node)

\* Where a frame moves when the slot goes.
ShrunkFrame(f, h, bit) ==
    IF Before(f, h) THEN f
    ELSE IF Before(h, f) THEN [node |-> f.node - 1, lo |-> f.lo - 1, n |-> f.n]
    ELSE IF Inside(h, f) THEN [node |-> f.node, lo |-> f.lo, n |-> f.n - 1]
    ELSE [node |-> f.node - 1, lo |-> f.lo - (1 - bit), n |-> f.n]

\* The frames after the deletion.
ShrunkFrames(diffs, h, bit) ==
    {ShrunkFrame(f, h, bit) :
        f \in {f \in CartesianFrames(diffs) : f # LostSlot(diffs, h, bit)}}

\* A loss in numbers.
LEMMA LossIs ==
    ASSUME NEW diffs, NEW h, NEW bit, Loss(diffs, h, bit)
    PROVE  LET x == PlaceOf(diffs, h)
               e == LostSlot(diffs, h, bit)
               w == KeptSide(diffs, h, bit)
           IN  /\ h.node \in Nat /\ h.lo \in Nat /\ h.n \in Nat
               /\ h.node >= 1 /\ h.lo >= 1 /\ h.n > 1
               /\ h.node <= Len(diffs)
               /\ h.lo + h.n - 1 <= Len(diffs) + 1 /\ h.node + h.n - 1 <= Len(diffs) + 1
               /\ e \in CartesianFrames(diffs) /\ w \in CartesianFrames(diffs)
               /\ e.n = 1 /\ e.lo = IF bit = 0 THEN h.lo ELSE h.lo + h.n - 1
               /\ w.node = h.node + 1 /\ w.lo = h.lo + (1 - bit) /\ w.n = h.n - 1
               /\ x \in 1 .. Len(diffs)
               /\ x = IF bit = 0 THEN h.lo ELSE h.lo + h.n - 2
               /\ Len(diffs) \in Nat
<1> DEFINE t == CartesianTree(diffs)
           l == LeftOf(t, h)
           r == RightOf(t, h)
           k == t[h]
<1>1. /\ diffs \in Seq(Nat) /\ h \in CartesianFrames(diffs) /\ IsRoute(h) /\ bit \in {0, 1}
      /\ k = IF bit = 0 THEN 1 ELSE h.n - 1
  BY DEF Loss
<1>2. /\ h.node \in Nat \ {0} /\ h.lo \in Nat \ {0} /\ h.n \in Nat \ {0}
      /\ h.lo + h.n - 1 <= Len(diffs) + 1 /\ h.node + h.n - 1 <= Len(diffs) + 1
      /\ h.n > 1 /\ Len(diffs) \in Nat
  BY <1>1, CartesianParts
<1>3. /\ l \in CartesianFrames(diffs) /\ r \in CartesianFrames(diffs)
      /\ l.node = h.node + 1 /\ l.lo = h.lo /\ l.n = k
      /\ r.node = h.node + k /\ r.lo = h.lo + k /\ r.n = h.n - k
  BY <1>1, CartesianParts
<1>4. h.node \in 1 .. Len(diffs) /\ PlaceOf(diffs, h) \in 1 .. Len(diffs)
      /\ PlaceOf(diffs, h) = h.lo + k - 1
  BY <1>1, CartesianBasics DEF PlaceOf
<1> HIDE DEF k, t
<1>5. CASE bit = 0
  <2>1. k = 1 /\ LostSlot(diffs, h, bit) = l /\ KeptSide(diffs, h, bit) = r
    BY <1>1, <1>5 DEF LostSlot, KeptSide, t
  <2> HIDE DEF l, r
  <2> QED
    BY <1>2, <1>3, <1>4, <1>5, <2>1
<1>6. CASE bit = 1
  <2>1. k = h.n - 1 /\ LostSlot(diffs, h, bit) = r /\ KeptSide(diffs, h, bit) = l
    BY <1>1, <1>6 DEF LostSlot, KeptSide, t
  <2> DEFINE hv == h.node
             hl == h.lo
             hn == h.n
             x == PlaceOf(diffs, h)
             e == LostSlot(diffs, h, bit)
             w == KeptSide(diffs, h, bit)
  <2>2. /\ l.node = hv + 1 /\ l.lo = hl /\ l.n = k
        /\ r.lo = hl + k /\ r.n = hn - k
        /\ k = hn - 1 /\ x = hl + k - 1 /\ hv \in 1 .. Len(diffs)
        /\ hv \in Nat \ {0} /\ hl \in Nat \ {0} /\ hn \in Nat \ {0} /\ hn > 1
        /\ hl + hn - 1 <= Len(diffs) + 1 /\ hv + hn - 1 <= Len(diffs) + 1
    BY <1>2, <1>3, <1>4, <2>1
  <2>3. e = r /\ w = l /\ x \in 1 .. Len(diffs)
    BY <1>4, <2>1
  <2> HIDE DEF l, r, hv, hl, hn, x, e, w
  <2>4. /\ hv \in Nat /\ hl \in Nat /\ hn \in Nat
        /\ hv >= 1 /\ hl >= 1 /\ hn > 1 /\ hv <= Len(diffs)
        /\ hl + hn - 1 <= Len(diffs) + 1 /\ hv + hn - 1 <= Len(diffs) + 1
    BY <1>2, <2>2
  <2>5. /\ r.n = 1 /\ r.lo = hl + hn - 1
        /\ l.node = hv + 1 /\ l.lo = hl + (1 - bit) /\ l.n = hn - 1
        /\ x = hl + hn - 2
    BY <1>6, <2>2
  <2>6. e.n = 1 /\ e.lo = (IF bit = 0 THEN hl ELSE hl + hn - 1)
        /\ x = (IF bit = 0 THEN hl ELSE hl + hn - 2)
        /\ w.node = hv + 1 /\ w.lo = hl + (1 - bit) /\ w.n = hn - 1
    BY <1>6, <2>3, <2>5
  <2> QED
    BY <1>2, <1>3, <2>3, <2>4, <2>6 DEF e, w, x, hv, hl, hn
<1> QED
  BY <1>1, <1>5, <1>6

\* The other frames are beside h, above it, or on the side that is kept.
LEMMA LossAround ==
    ASSUME NEW diffs, NEW h, NEW bit, Loss(diffs, h, bit)
    PROVE  LET e == LostSlot(diffs, h, bit)
               w == KeptSide(diffs, h, bit)
           IN  /\ Inside(e, h) /\ Inside(w, h) /\ Inside(h, h)
               /\ \A f \in CartesianFrames(diffs) : ~ (Inside(f, e) /\ Inside(f, w))
               /\ \A f \in CartesianFrames(diffs) : f # e =>
                    Before(f, h) \/ Before(h, f) \/ Inside(f, w) \/ Inside(h, f)
               /\ \A f \in CartesianFrames(diffs) :
                    Inside(h, f) => f = h \/ h \in FramesBelow(CartesianTree(diffs), f)
<1> DEFINE t == CartesianTree(diffs)
           size == Len(diffs) + 1
           e == LostSlot(diffs, h, bit)
           w == KeptSide(diffs, h, bit)
           l == LeftOf(t, h)
           r == RightOf(t, h)
<1>1. /\ diffs \in Seq(Nat) /\ h \in CartesianFrames(diffs) /\ IsRoute(h)
      /\ (e = l /\ w = r) \/ (e = r /\ w = l)
  BY DEF Loss, LostSlot, KeptSide
<1>2. l \in CartesianFrames(diffs) /\ r \in CartesianFrames(diffs)
      /\ l \in FramesBelow(t, h) /\ r \in FramesBelow(t, h)
      /\ IsTree(t, size) /\ CartesianFrames(diffs) = AllFrames(t, size)
  BY <1>1, CartesianParts, CartesianBasics, AllBelow
<1> HIDE DEF l, r, t, size, e, w
<1>3. Inside(l, h) /\ Inside(r, h) /\ Inside(h, h)
  BY <1>1, <1>2, FramesAround DEF t
<1>4. \A f \in CartesianFrames(diffs) : ~ (Inside(f, l) /\ Inside(f, r))
  BY <1>1, OneSide DEF l, r, t
<1>5. ~ IsRoute(e)
  BY LossIs DEF e, IsRoute
<1>6. ASSUME NEW f \in CartesianFrames(diffs), f # e
      PROVE  Before(f, h) \/ Before(h, f) \/ Inside(f, w) \/ Inside(h, f)
  <2>1. CASE f \in FramesBelow(t, h) /\ f # h
    <3>1. \/ f \in FramesBelow(t, l) /\ Inside(f, l)
          \/ f \in FramesBelow(t, r) /\ Inside(f, r)
      BY <1>1, <2>1, SideOfAbove DEF l, r, t
    <3>2. f \notin FramesBelow(t, e)
      <4>1. FramesBelow(t, e) = {e}
        BY <1>1, <1>2, <1>5, AllBelow
      <4> QED
        BY <1>6, <4>1
    <3> QED
      BY <1>1, <3>1, <3>2
  <2>2. CASE f = h
    BY <1>3, <2>2
  <2>3. CASE f \notin FramesBelow(t, h) /\ f # h
    BY <1>1, <2>3, FramesAround DEF t
  <2> QED
    BY <2>1, <2>2, <2>3
<1>7. ASSUME NEW f \in CartesianFrames(diffs), Inside(h, f)
      PROVE  f = h \/ h \in FramesBelow(t, f)
  <2>1. CASE f \in FramesBelow(t, h)
    BY <1>1, <1>7, <2>1, FramesAround DEF t
  <2>2. CASE Before(f, h) \/ Before(h, f)
    <3>1. h.lo \in Nat /\ h.n \in Nat /\ h.n > 1 /\ f.lo \in Nat /\ f.n \in Nat
      BY <1>1, LossIs, CartesianParts
    <3> QED
      BY <1>7, <2>2, <3>1 DEF Before, Inside
  <2> QED
    BY <1>1, <2>1, <2>2, FramesAround DEF t
<1> QED
  BY <1>1, <1>3, <1>4, <1>6, <1>7 DEF e, w, t

\* Where a frame moves, by how it stands to h.
LEMMA ShrunkFrameIs ==
    ASSUME NEW diffs, NEW h, NEW bit, Loss(diffs, h, bit),
           NEW f \in CartesianFrames(diffs)
    PROVE  LET g == ShrunkFrame(f, h, bit)
           IN  /\ Before(f, h) => g = f
               /\ Before(h, f) => g = [node |-> f.node - 1, lo |-> f.lo - 1, n |-> f.n]
               /\ Inside(h, f) => g = [node |-> f.node, lo |-> f.lo, n |-> f.n - 1]
               /\ Inside(f, KeptSide(diffs, h, bit)) =>
                    g = [node |-> f.node - 1, lo |-> f.lo - (1 - bit), n |-> f.n]
<1> DEFINE w == KeptSide(diffs, h, bit)
           fv == f.node
           fl == f.lo
           fn == f.n
           hv == h.node
           hl == h.lo
           hn == h.n
<1>1. /\ hv \in Nat /\ hl \in Nat /\ hn \in Nat /\ hn > 1
      /\ w.node = hv + 1 /\ w.lo = hl + (1 - bit) /\ w.n = hn - 1 /\ bit \in {0, 1}
  BY LossIs DEF Loss
<1>2. fv \in Nat /\ fl \in Nat /\ fn \in Nat /\ fn >= 1
  <2>1. fv \in Nat \ {0} /\ fl \in Nat \ {0} /\ fn \in Nat \ {0}
    BY CartesianParts DEF Loss
  <2> HIDE DEF fv, fl, fn
  <2> QED
    BY <2>1
<1>3. /\ Before(f, h) <=> fl + fn <= hl /\ fv + fn - 1 <= hv
      /\ Before(h, f) <=> hl + hn <= fl /\ hv + hn - 1 <= fv
      /\ Inside(h, f) <=> /\ fl <= hl /\ hl + hn <= fl + fn
                          /\ fv <= hv /\ hv + hn <= fv + fn
      /\ Inside(f, w) <=> /\ w.lo <= fl /\ fl + fn <= w.lo + w.n
                          /\ w.node <= fv /\ fv + fn <= w.node + w.n
  <2> HIDE DEF w
  <2> QED
    BY DEF Before, Inside
<1>4. Inside(f, w) <=> /\ hl + (1 - bit) <= fl /\ fl + fn <= hl + (1 - bit) + (hn - 1)
                       /\ hv + 1 <= fv /\ fv + fn <= hv + 1 + (hn - 1)
  <2> HIDE DEF w, fv, fl, fn, hv, hl, hn
  <2> QED
    BY <1>1, <1>3
<1>5. /\ Before(f, h) => ~ Before(h, f) /\ ~ Inside(h, f) /\ ~ Inside(f, w)
      /\ Before(h, f) => ~ Inside(h, f) /\ ~ Inside(f, w)
      /\ Inside(h, f) => ~ Inside(f, w)
  <2>1. /\ Before(f, h) <=> fl + fn <= hl /\ fv + fn - 1 <= hv
        /\ Before(h, f) <=> hl + hn <= fl /\ hv + hn - 1 <= fv
        /\ Inside(h, f) <=> /\ fl <= hl /\ hl + hn <= fl + fn
                            /\ fv <= hv /\ hv + hn <= fv + fn
    BY <1>3
  <2> HIDE DEF w, fv, fl, fn, hv, hl, hn
  <2> QED
    BY <1>1, <1>2, <1>4, <2>1
<1> HIDE DEF w, fv, fl, fn, hv, hl, hn
<1>6. /\ Before(f, h) => ShrunkFrame(f, h, bit) = f
      /\ Before(h, f) => ShrunkFrame(f, h, bit) = [node |-> f.node - 1, lo |-> f.lo - 1, n |-> f.n]
      /\ Inside(h, f) => ShrunkFrame(f, h, bit) = [node |-> f.node, lo |-> f.lo, n |-> f.n - 1]
      /\ Inside(f, w) => ShrunkFrame(f, h, bit)
            = [node |-> f.node - 1, lo |-> f.lo - (1 - bit), n |-> f.n]
  BY <1>5 DEF ShrunkFrame
<1> QED
  BY <1>6 DEF w

\* The diffs before the loss are the diffs after it with one more.
LEMMA ShrunkDiffsAre ==
    ASSUME NEW diffs, NEW h, NEW bit, Loss(diffs, h, bit)
    PROVE  LET x == PlaceOf(diffs, h)
               new == ShrunkDiffs(diffs, h)
           IN  OneMore(new, diffs, x) /\ new \in Seq(Nat) /\ Len(new) = Len(diffs) - 1
<1> DEFINE x == PlaceOf(diffs, h)
           new == ShrunkDiffs(diffs, h)
<1>1. diffs \in Seq(Nat) /\ x \in 1 .. Len(diffs) /\ Len(diffs) \in Nat
  BY LossIs DEF Loss
<1> HIDE DEF x
<1>2. new = RemoveAt(diffs, x)
  BY DEF ShrunkDiffs, x
<1>3. /\ \A j \in 1 .. Len(diffs) - 1 : new[j] = IF j < x THEN diffs[j] ELSE diffs[j + 1]
      /\ new \in Seq(Nat) /\ Len(new) = Len(diffs) - 1
  BY <1>1, <1>2, RemoveAtIs
<1> HIDE DEF new
<1>4. OneMore(new, diffs, x)
  <2>1. \A j \in 1 .. Len(new) : j < x => diffs[j] = new[j]
    BY <1>1, <1>3
  <2>2. \A j \in 1 .. Len(new) : j >= x => diffs[j + 1] = new[j]
    BY <1>1, <1>3
  <2>3. Len(diffs) = Len(new) + 1
    BY <1>1, <1>3
  <2> QED
    BY <1>1, <1>3, <2>1, <2>2, <2>3 DEF OneMore
<1> QED
  BY <1>3, <1>4 DEF x, new

\* The elements of ShrunkRoutes: the routes left keep their order.
LEMMA ShrunkRoutesAre ==
    ASSUME NEW diffs, NEW h, NEW bit, Loss(diffs, h, bit)
    PROVE  LET new == ShrunkRoutes(diffs, h)
               Route(f) == MakeRoute(diffs[PlaceOf(diffs, f)],
                             IF f.node \in LeftNodes(diffs, h)
                             THEN CartesianTree(diffs)[f] + (-1) ELSE CartesianTree(diffs)[f])
           IN  /\ new = [i \in 1 .. Len(diffs) - 1 |-> new[i]]
               /\ \A f \in CartesianFrames(diffs) : IsRoute(f) =>
                    /\ f.node < h.node => new[f.node] = Route(f)
                    /\ f.node > h.node => new[f.node - 1] = Route(f)
<1> DEFINE nodes == LeftNodes(diffs, h)
           routes == Recount(RoutesOf(diffs), nodes, -1)
           new == ShrunkRoutes(diffs, h)
           t == CartesianTree(diffs)
           Route(f) == MakeRoute(diffs[PlaceOf(diffs, f)],
                             IF f.node \in nodes THEN t[f] + (-1) ELSE t[f])
<1>1. diffs \in Seq(Nat) /\ h \in CartesianFrames(diffs) /\ IsRoute(h)
  BY DEF Loss
<1>2. PICK R : routes \in Seq(R)
  BY <1>1, RecountIs
<1>3. Len(routes) = Len(diffs) /\ Len(diffs) \in Nat
      /\ \A f \in CartesianFrames(diffs) : IsRoute(f) => routes[f.node] = Route(f)
  BY <1>1, RecountIs
<1>4. h.node \in Nat /\ h.node \in 1 .. Len(diffs)
  BY <1>1, CartesianBasics
<1> HIDE DEF nodes, routes, t
<1>5. new = RemoveAt(routes, h.node)
  BY DEF ShrunkRoutes, routes, nodes
<1> HIDE DEF new, Route
<1>6. /\ \A j \in 1 .. Len(diffs) - 1 : new[j] =
             IF j < h.node THEN routes[j] ELSE routes[j + 1]
      /\ new \in Seq(R) /\ Len(new) = Len(diffs) - 1
  BY <1>2, <1>3, <1>4, <1>5, RemoveAtIs
<1>7. new = [i \in 1 .. Len(diffs) - 1 |-> new[i]]
  BY <1>6
<1>9. ASSUME NEW f \in CartesianFrames(diffs), IsRoute(f)
      PROVE  /\ f.node < h.node => new[f.node] = Route(f)
             /\ f.node > h.node => new[f.node - 1] = Route(f)
  <2> DEFINE j == f.node
  <2>1. j \in 1 .. Len(diffs) /\ routes[j] = Route(f)
    BY <1>1, <1>3, <1>9, CartesianBasics
  <2> HIDE DEF j, Route
  <2>2. j < h.node => new[j] = routes[j]
    BY <1>3, <1>4, <1>6, <2>1
  <2>3. j > h.node => j - 1 \in 1 .. Len(diffs) - 1 /\ ~ (j - 1 < h.node) /\ (j - 1) + 1 = j
    BY <1>3, <1>4, <2>1
  <2>4. j > h.node => new[j - 1] = routes[(j - 1) + 1]
    BY <1>6, <2>3
  <2> QED
    BY <2>1, <2>2, <2>3, <2>4 DEF j
<1> QED
  BY <1>7, <1>9 DEF new, nodes, t, Route

\* A frame moved by a nodes and b slots.
Moved(h, a, b) == [node |-> h.node - a, lo |-> h.lo - b, n |-> h.n]

\* f and its sides move by the same numbers, and so do the diffs between its slots.
LostBeside(diffs, h, bit, f, a, b) ==
    LET t == CartesianTree(diffs)
        l == LeftOf(t, f)
        r == RightOf(t, f)
    IN  /\ ShrunkFrame(l, h, bit) = Moved(l, a, b) /\ l # LostSlot(diffs, h, bit)
        /\ ShrunkFrame(r, h, bit) = Moved(r, a, b) /\ r # LostSlot(diffs, h, bit)
        /\ f.node \notin LeftNodes(diffs, h)
        /\ f.node # h.node
        /\ a = IF f.node < h.node THEN 0 ELSE 1
        /\ \A j \in f.lo .. f.lo + f.n - 2 : ShrunkDiffs(diffs, h)[j - b] = diffs[j]

\* A frame beside or below the loss parts as before.
LEMMA MovedParts ==
    ASSUME NEW diffs, NEW h, NEW bit, Loss(diffs, h, bit),
           NEW f \in CartesianFrames(diffs), IsRoute(f),
           NEW a \in {0, 1}, NEW b \in {0, 1}, LostBeside(diffs, h, bit, f, a, b),
           NEW g, g = Moved(f, a, b)
    PROVE  PartsWell(ShrunkRoutes(diffs, h), ShrunkDiffs(diffs, h),
                     ShrunkFrames(diffs, h, bit), g, CartesianTree(diffs)[f])
<1> DEFINE t == CartesianTree(diffs)
           k == t[f]
           l == LeftOf(t, f)
           r == RightOf(t, f)
           i == PlaceOf(diffs, f)
           new == ShrunkDiffs(diffs, h)
           routes == ShrunkRoutes(diffs, h)
           G == ShrunkFrames(diffs, h, bit)
           fv == f.node
           fl == f.lo
           fn == f.n
<1>1. diffs \in Seq(Nat) /\ h \in CartesianFrames(diffs) /\ h.node \in Nat
  BY LossIs DEF Loss
<1>2. fv \in Nat /\ fl \in Nat /\ fn \in Nat /\ fn > 1 /\ fl >= 1
  BY <1>1, CartesianParts
<1>3. /\ k \in 1 .. fn - 1
      /\ l \in CartesianFrames(diffs) /\ r \in CartesianFrames(diffs)
      /\ l.node = fv + 1 /\ l.lo = fl /\ l.n = k
      /\ r.node = fv + k /\ r.lo = fl + k /\ r.n = fn - k
  <2> HIDE DEF new, routes, G, i
  <2> QED
    BY <1>1, CartesianParts
<1>4. i \in fl .. fl + fn - 2 /\ PartsAt(diffs, f, k) /\ i = fl + k - 1
  BY <1>1, CartesianBasics DEF PlaceOf
<1>5. Moved(l, a, b) \in G /\ Moved(r, a, b) \in G
  BY <1>3 DEF ShrunkFrames, LostBeside
<1>6. routes[fv - a] = MakeRoute(diffs[i], k)
  <2>1. /\ fv < h.node => routes[fv] = MakeRoute(diffs[i], k)
        /\ fv > h.node => routes[fv - 1] = MakeRoute(diffs[i], k)
    BY ShrunkRoutesAre DEF LostBeside
  <2>2. fv # h.node /\ a = IF fv < h.node THEN 0 ELSE 1
    BY DEF LostBeside
  <2> HIDE DEF routes, i, k, fv
  <2>3. fv < h.node \/ fv > h.node
    BY <1>1, <1>2, <2>2
  <2>4. fv - 0 = fv
    BY <1>2
  <2> QED
    BY <1>1, <1>2, <2>1, <2>2, <2>3, <2>4
<1>7. LastSmallest(diffs, fl, fl + fn - 2, i)
  BY <1>4, PartsAtIs
<1>8. \A j \in fl .. fl + fn - 2 : new[j - b] = diffs[j]
  BY DEF LostBeside
<1>9. g.node = fv - a /\ g.lo = fl - b /\ g.n = fn
  BY DEF Moved
<1>10. /\ Moved(l, a, b) = [node |-> l.node - a, lo |-> l.lo - b, n |-> l.n]
       /\ Moved(r, a, b) = [node |-> r.node - a, lo |-> r.lo - b, n |-> r.n]
  BY DEF Moved
<1> HIDE DEF t, k, l, r, i, new, routes, G, fv, fl, fn
<1>11. LastSmallest(new, fl - b, fl + fn - 2 - b, i - b) /\ new[i - b] = diffs[i]
  <2> DEFINE y == fl + fn - 2
             s == -b
  <2>1. fl \in Nat /\ y \in Int /\ i \in fl .. y /\ s \in {-1, 0, 1} /\ i \in Int
    BY <1>2, <1>4
  <2>2. \A j \in fl .. y : new[j + s] = diffs[j]
    <3> TAKE j \in fl .. y
    <3>1. j + s = j - b
      BY <2>1
    <3> QED
      BY <1>8, <3>1
  <2>3. LastSmallest(diffs, fl, y, i)
    BY <1>7
  <2>4. fl + s = fl - b /\ y + s = fl + fn - 2 - b /\ i + s = i - b
    BY <1>2, <2>1
  <2> HIDE DEF y, s
  <2>5. LastSmallest(new, fl + s, y + s, i + s) /\ new[i + s] = diffs[i]
    BY <2>1, <2>2, <2>3, AllMoved
  <2> QED
    BY <2>4, <2>5
<1>12. /\ g.lo + g.n - 2 = fl + fn - 2 - b /\ g.lo + k - 1 = i - b
       /\ k \in 1 .. g.n - 1
       /\ l.node - a = g.node + 1 /\ l.lo - b = g.lo
       /\ r.node - a = g.node + k /\ r.lo - b = g.lo + k
       /\ r.n = g.n - k
  BY <1>2, <1>3, <1>4, <1>9
<1>13. PartsAt(new, g, k)
  BY <1>9, <1>11, <1>12, PartsAtIs
<1>14. routes[g.node] = MakeRoute(new[g.lo + k - 1], k)
  BY <1>6, <1>9, <1>11, <1>12
<1>15. /\ [node |-> g.node + 1, lo |-> g.lo, n |-> k] \in G
       /\ [node |-> g.node + k, lo |-> g.lo + k, n |-> g.n - k] \in G
  BY <1>3, <1>5, <1>10, <1>12
<1>16. PartsWell(routes, new, G, g, k)
  BY <1>12, <1>13, <1>14, <1>15 DEF PartsWell
<1> QED
  BY <1>16 DEF routes, new, G, k, t

\* The routes beside h and those on the side that is kept.
LEMMA LostBesideParts ==
    ASSUME NEW diffs, NEW h, NEW bit, Loss(diffs, h, bit),
           NEW f \in CartesianFrames(diffs), IsRoute(f),
           Before(f, h) \/ Before(h, f) \/ Inside(f, KeptSide(diffs, h, bit))
    PROVE  \E k \in Nat :
             PartsWell(ShrunkRoutes(diffs, h), ShrunkDiffs(diffs, h),
                       ShrunkFrames(diffs, h, bit), ShrunkFrame(f, h, bit), k)
<1> DEFINE t == CartesianTree(diffs)
           size == Len(diffs) + 1
           x == PlaceOf(diffs, h)
           new == ShrunkDiffs(diffs, h)
           e == LostSlot(diffs, h, bit)
           w == KeptSide(diffs, h, bit)
           l == LeftOf(t, f)
           r == RightOf(t, f)
           fv == f.node
           fl == f.lo
           fn == f.n
           hv == h.node
           hl == h.lo
           hn == h.n
           wl == w.lo
           wn == w.n
           wv == w.node
<1>1. /\ OneMore(new, diffs, x) /\ Len(new) = Len(diffs) - 1
      /\ diffs \in Seq(Nat) /\ h \in CartesianFrames(diffs) /\ bit \in {0, 1}
  BY ShrunkDiffsAre DEF Loss
<1>2. /\ hv \in Nat /\ hl \in Nat /\ hn \in Nat /\ hl >= 1 /\ hn > 1
      /\ h \in Frame(size) /\ size \in Nat /\ Len(diffs) \in Nat
      /\ e \in CartesianFrames(diffs) /\ w \in CartesianFrames(diffs)
      /\ w \in Frame(size)
      /\ x \in 1 .. Len(diffs)
      /\ x = IF bit = 0 THEN hl ELSE hl + hn - 2
      /\ w.node = hv + 1 /\ w.lo = hl + (1 - bit) /\ w.n = hn - 1
  <2>1. e \in CartesianFrames(diffs) /\ w \in CartesianFrames(diffs)
    BY LossIs
  <2>2. h \in Frame(size) /\ w \in Frame(size) /\ size \in Nat /\ Len(diffs) \in Nat
    BY <1>1, <2>1, CartesianParts
  <2> QED
    BY <2>1, <2>2, LossIs
<1>3. /\ fv \in Nat /\ fl \in Nat /\ fn \in Nat /\ fn > 1 /\ fl >= 1
      /\ fl + fn - 1 <= Len(diffs) + 1 /\ f \in Frame(size)
      /\ t[f] \in Nat
  BY <1>1, CartesianParts
<1>4. l \in CartesianFrames(diffs) /\ r \in CartesianFrames(diffs)
      /\ Inside(l, f) /\ Inside(r, f) /\ l \in Frame(size) /\ r \in Frame(size)
  <2>1. l \in CartesianFrames(diffs) /\ r \in CartesianFrames(diffs)
    BY <1>1, CartesianParts
  <2>2. l \in FramesBelow(t, f) /\ r \in FramesBelow(t, f)
    BY <1>1, CartesianBasics, AllBelow
  <2>3. l \in Frame(size) /\ r \in Frame(size)
    BY <1>1, <2>1, CartesianBasics
  <2> HIDE DEF l, r
  <2>4. Inside(l, f) /\ Inside(r, f)
    BY <1>1, <2>1, <2>2, FramesAround
  <2> QED
    BY <2>1, <2>3, <2>4
<1>5. /\ Inside(h, h) /\ Inside(e, h) /\ Inside(w, h)
      /\ \A g \in CartesianFrames(diffs) : ~ (Inside(g, e) /\ Inside(g, w))
      /\ Inside(e, e)
  BY <1>1, <1>2, LossAround, FramesAround
<1>6. f.node \notin LeftNodes(diffs, h)
  <2>1. ASSUME h \in FramesBelow(t, l)
        PROVE  FALSE
    <3>1. Inside(h, l)
      BY <1>1, <1>4, <2>1, FramesAround
    <3>2. Inside(h, f)
      <4> HIDE DEF l, size
      <4> QED
        BY <1>2, <1>3, <1>4, <3>1, InsideInside
    <3> HIDE DEF l
    <3>3. hl >= fl /\ hl + hn <= fl + fn
      BY <3>2 DEF Inside
    <3>4. \/ fl + fn <= hl
          \/ hl + hn <= fl
          \/ fl + fn <= wl + wn /\ wl <= fl
      <4> HIDE DEF w
      <4>1. Before(f, h) \/ Before(h, f) \/ Inside(f, w)
        BY DEF w
      <4> QED
        BY <4>1 DEF Before, Inside
    <3>5. /\ hl \in Nat /\ hn \in Nat /\ hn > 1 /\ fl \in Nat /\ fn \in Nat /\ fn > 1
          /\ wl = hl + (1 - bit) /\ wn = hn - 1 /\ bit \in {0, 1}
      BY <1>1, <1>2, <1>3
    <3> HIDE DEF fl, fn, hl, hn, wl, wn
    <3> QED
      BY <3>3, <3>4, <3>5
  <2> QED
    BY <1>1, <2>1, LeftNodesAre
<1> HIDE DEF t, l, r, size, x, new, e, w
<1>13. /\ hv \in Nat /\ hl \in Nat /\ hn \in Nat /\ hn > 1
       /\ fv \in Nat /\ fl \in Nat /\ fn \in Nat /\ fn > 1
       /\ wv = hv + 1 /\ wl = hl + (1 - bit) /\ wn = hn - 1 /\ bit \in {0, 1}
       /\ x = IF bit = 0 THEN hl ELSE hl + hn - 2
  BY <1>1, <1>2, <1>3
<1>7. /\ \A g \in {f, l, r} : Inside(g, f) /\ g \in CartesianFrames(diffs) /\ g \in Frame(size)
                           /\ g.node \in Nat /\ g.lo \in Nat /\ g.n \in Nat /\ g.n >= 1
  <2>1. Inside(f, f)
    BY <1>1, FramesAround
  <2>2. \A g \in {f, l, r} : Inside(g, f) /\ g \in CartesianFrames(diffs) /\ g \in Frame(size)
    BY <1>3, <1>4, <2>1
  <2>3. \A g \in {f, l, r} : g.node \in Nat /\ g.lo \in Nat /\ g.n \in Nat /\ g.n >= 1
    <3> TAKE g \in {f, l, r}
    <3>1. g.node \in 1 .. size /\ g.lo \in 1 .. size /\ g.n \in 1 .. size
      BY <1>2, <2>2, FrameType
    <3> QED
      BY <3>1
  <2> QED
    BY <2>2, <2>3
<1>8. \A g \in {f, l, r} : g # e
  <2> TAKE g \in {f, l, r}
  <2>1. SUFFICES ASSUME g = e PROVE FALSE
    OBVIOUS
  <2>2. CASE Before(f, h) \/ Before(h, f)
    <3>1. Before(e, e) \/ Before(e, h) \/ Before(h, e)
      BY <1>2, <1>3, <1>5, <1>7, <2>1, <2>2, BeforeInside
    <3>2. Before(e, e)
      BY <1>2, <1>5, <1>7, <2>1, <3>1, BeforeInside
    <3> QED
      BY <1>7, <2>1, <3>2 DEF Before
  <2>3. CASE Inside(f, w)
    <3>1. Inside(e, w)
      BY <1>2, <1>3, <1>7, <2>1, <2>3, InsideInside
    <3> QED
      BY <1>2, <1>5, <3>1
  <2> QED
    BY <2>2, <2>3 DEF w
<1>9. ASSUME NEW a \in {0, 1}, NEW b \in {0, 1},
             fv # hv,
             a = IF fv < hv THEN 0 ELSE 1,
             ShrunkFrame(f, h, bit) = Moved(f, a, b),
             ShrunkFrame(l, h, bit) = Moved(l, a, b),
             ShrunkFrame(r, h, bit) = Moved(r, a, b),
             b = 0 => fl + fn - 2 < x,
             b = 1 => fl > x
      PROVE  \E k \in Nat :
               PartsWell(ShrunkRoutes(diffs, h), ShrunkDiffs(diffs, h),
                         ShrunkFrames(diffs, h, bit), ShrunkFrame(f, h, bit), k)
  <2> HIDE DEF fv, fl, fn, hv, hl, hn
  <2>1. ASSUME NEW j \in fl .. fl + fn - 2
        PROVE  new[j - b] = diffs[j]
    <3>1. j \in 1 .. Len(diffs) /\ j \in Nat /\ x \in Nat
      BY <1>2, <1>3
    <3>2. (b = 0 => j < x) /\ (b = 1 => j > x) /\ j - 0 = j
      BY <1>3, <1>9, <3>1
    <3>3. /\ b = 0 => j \in 1 .. Len(new)
          /\ b = 1 => j - 1 \in 1 .. Len(new) /\ j - 1 >= x /\ (j - 1) + 1 = j
      BY <1>1, <1>2, <3>1, <3>2
    <3>4. /\ \A c \in 1 .. Len(new) : c < x => diffs[c] = new[c]
          /\ \A c \in 1 .. Len(new) : c >= x => diffs[c + 1] = new[c]
      BY <1>1 DEF OneMore
    <3>5. b = 0 => diffs[j] = new[j]
      BY <3>2, <3>3, <3>4
    <3>6. b = 1 => diffs[(j - 1) + 1] = new[j - 1]
      BY <3>3, <3>4
    <3> QED
      BY <3>2, <3>3, <3>5, <3>6
  <2>2. LostBeside(diffs, h, bit, f, a, b)
    BY <1>6, <1>8, <1>9, <2>1 DEF LostBeside, new, l, r, t, e, fv, fl, fn, hv
  <2>3. PartsWell(ShrunkRoutes(diffs, h), ShrunkDiffs(diffs, h),
                  ShrunkFrames(diffs, h, bit), ShrunkFrame(f, h, bit), t[f])
    BY <1>9, <2>2, MovedParts DEF t
  <2> QED
    BY <1>3, <2>3
<1>10. CASE Before(f, h)
  <2>1. ASSUME NEW g \in {f, l, r}
        PROVE  ShrunkFrame(g, h, bit) = Moved(g, 0, 0)
    <3>1. Before(g, h)
      BY <1>2, <1>3, <1>5, <1>7, <1>10, BeforeInside
    <3>2. ShrunkFrame(g, h, bit) = g
      BY <1>1, <1>7, <3>1, ShrunkFrameIs
    <3>3. Moved(g, 0, 0) = [node |-> g.node, lo |-> g.lo, n |-> g.n]
      <4>1. g.node - 0 = g.node /\ g.lo - 0 = g.lo
        BY <1>7
      <4> QED
        BY <4>1 DEF Moved
    <3> QED
      BY <1>2, <1>7, <3>2, <3>3, FrameType
  <2>2. fl + fn <= hl /\ fv + fn - 1 <= hv
    BY <1>10 DEF Before
  <2> HIDE DEF fl, fn, fv, hl, hn, hv
  <2>3. fv < hv /\ fl + fn - 2 < x
    BY <1>13, <2>2
  <2>4. fv # hv /\ (0 = IF fv < hv THEN 0 ELSE 1) /\ 0 # 1
    BY <1>2, <1>3, <2>3
  <2> QED
    BY <1>9, <2>1, <2>3, <2>4
<1>11. CASE Before(h, f)
  <2>1. ASSUME NEW g \in {f, l, r}
        PROVE  ShrunkFrame(g, h, bit) = Moved(g, 1, 1)
    <3>1. Before(h, g)
      BY <1>2, <1>3, <1>5, <1>7, <1>11, BeforeInside
    <3> QED
      BY <1>1, <1>7, <3>1, ShrunkFrameIs DEF Moved
  <2>2. hl + hn <= fl /\ hv + hn - 1 <= fv
    BY <1>11 DEF Before
  <2> HIDE DEF fl, fn, fv, hl, hn, hv
  <2>3. hv < fv /\ ~ (fv < hv) /\ fl > x
    BY <1>13, <2>2
  <2>4. fv # hv /\ (1 = IF fv < hv THEN 0 ELSE 1) /\ 0 # 1
    BY <1>2, <1>3, <2>3
  <2> QED
    BY <1>9, <2>1, <2>3, <2>4
<1>12. CASE Inside(f, w)
  <2> DEFINE b == 1 - bit
  <2>1. ASSUME NEW g \in {f, l, r}
        PROVE  ShrunkFrame(g, h, bit) = Moved(g, 1, b)
    <3>1. Inside(g, w)
      BY <1>2, <1>3, <1>7, <1>12, InsideInside
    <3> QED
      BY <1>1, <1>7, <3>1, ShrunkFrameIs DEF Moved, w
  <2>2. /\ wl <= fl /\ fl + fn <= wl + wn /\ wv <= fv
    BY <1>12 DEF Inside
  <2> HIDE DEF fl, fn, fv, hl, hn, hv, wl, wn, wv
  <2>3. /\ hv < fv /\ ~ (fv < hv) /\ b \in {0, 1}
        /\ b = 0 => fl + fn - 2 < x
        /\ b = 1 => fl > x
    BY <1>13, <2>2
  <2>4. fv # hv /\ (1 = IF fv < hv THEN 0 ELSE 1)
    BY <1>2, <1>3, <2>3
  <2> HIDE DEF b
  <2> QED
    BY <1>9, <2>1, <2>3, <2>4
<1> QED
  BY <1>10, <1>11, <1>12 DEF w

\* A frame around h has one slot less.
LEMMA NarrowerFrame ==
    ASSUME NEW diffs, NEW h, NEW bit, Loss(diffs, h, bit),
           NEW f \in CartesianFrames(diffs), Inside(h, f)
    PROVE  [node |-> f.node, lo |-> f.lo, n |-> f.n - 1] \in ShrunkFrames(diffs, h, bit)
<1>1. ShrunkFrame(f, h, bit) = [node |-> f.node, lo |-> f.lo, n |-> f.n - 1]
  BY ShrunkFrameIs
<1>2. f # LostSlot(diffs, h, bit)
  <2> DEFINE e == LostSlot(diffs, h, bit)
  <2>1. e.n = 1 /\ h.n > 1 /\ h.n \in Nat /\ h.lo \in Nat
        /\ e.lo = IF bit = 0 THEN h.lo ELSE h.lo + h.n - 1
    BY LossIs
  <2> HIDE DEF e
  <2>2. ASSUME f = e PROVE FALSE
    <3>1. e.lo <= h.lo /\ h.lo + h.n <= e.lo + e.n
      BY <2>2 DEF Inside
    <3> QED
      BY <2>1, <3>1
  <2> QED
    BY <2>2 DEF e
<1> QED
  BY <1>1, <1>2 DEF ShrunkFrames

\* The routes above h lose a slot on one of their sides.
LEMMA LostAboveParts ==
    ASSUME NEW diffs, NEW h, NEW bit, Loss(diffs, h, bit),
           NEW f \in CartesianFrames(diffs), f # h,
           h \in FramesBelow(CartesianTree(diffs), f)
    PROVE  \E k \in Nat :
             PartsWell(ShrunkRoutes(diffs, h), ShrunkDiffs(diffs, h),
                       ShrunkFrames(diffs, h, bit), ShrunkFrame(f, h, bit), k)
<1> DEFINE t == CartesianTree(diffs)
           size == Len(diffs) + 1
           x == PlaceOf(diffs, h)
           new == ShrunkDiffs(diffs, h)
           routes == ShrunkRoutes(diffs, h)
           G == ShrunkFrames(diffs, h, bit)
           l == LeftOf(t, f)
           r == RightOf(t, f)
           i == PlaceOf(diffs, f)
           onLeft == f.node \in LeftNodes(diffs, h)
           fv == f.node
           fl == f.lo
           fn == f.n
           k == t[f]
           m == IF onLeft THEN k - 1 ELSE k
           z == IF onLeft THEN i - 1 ELSE i
           g == ShrunkFrame(f, h, bit)
<1>1. /\ OneMore(new, diffs, x) /\ diffs \in Seq(Nat) /\ h \in CartesianFrames(diffs)
      /\ bit \in {0, 1}
  BY ShrunkDiffsAre DEF Loss
<1>2. /\ IsRoute(f)
      /\ onLeft <=> h \in FramesBelow(t, l)
      /\ \/ /\ h \in FramesBelow(t, l) /\ Inside(h, l) /\ Before(h, r)
         \/ /\ h \notin FramesBelow(t, l) /\ Inside(h, r) /\ Before(l, h)
  BY <1>1, SideOfAbove, LeftNodesAre
<1>3. \/ onLeft /\ Inside(h, l) /\ Before(h, r)
      \/ ~ onLeft /\ Inside(h, r) /\ Before(l, h)
  BY <1>2
<1>4. /\ h.node \in Nat /\ h.lo \in Nat /\ h.n \in Nat /\ h.lo >= 1 /\ h.n > 1
      /\ Len(diffs) \in Nat /\ x \in 1 .. Len(diffs)
      /\ x = IF bit = 0 THEN h.lo ELSE h.lo + h.n - 2
  BY LossIs
<1>5. /\ fv \in Nat /\ fl \in Nat /\ fn \in Nat /\ fn > 1 /\ fl >= 1
      /\ fl + fn - 1 <= Len(diffs) + 1
  BY <1>1, <1>2, CartesianParts
<1>6. /\ k \in 1 .. fn - 1
      /\ l \in CartesianFrames(diffs) /\ r \in CartesianFrames(diffs)
      /\ l.node = fv + 1 /\ l.lo = fl /\ l.n = k
      /\ r.node = fv + k /\ r.lo = fl + k /\ r.n = fn - k
  <2> HIDE DEF new, routes, G, i, onLeft
  <2> QED
    BY <1>1, <1>2, CartesianParts
<1>7. /\ i = fl + k - 1 /\ PartsAt(diffs, f, k) /\ i \in 1 .. Len(diffs)
  BY <1>1, <1>2, CartesianBasics DEF PlaceOf
<1>8. /\ g = [node |-> fv, lo |-> fl, n |-> fn - 1]
      /\ g.node = fv /\ g.lo = fl /\ g.n = fn - 1
  <2>1. Inside(h, f)
    BY <1>1, FramesAround
  <2> QED
    BY <1>1, <2>1, ShrunkFrameIs
<1>9. /\ fv < h.node => routes[fv] = MakeRoute(diffs[i], IF onLeft THEN k + (-1) ELSE k)
  <2> HIDE DEF routes, i, G, new
  <2> QED
    BY <1>2, ShrunkRoutesAre DEF routes, i
<1>10. LastSmallest(diffs, fl, fl + fn - 2, i)
  BY <1>7, PartsAtIs
<1>20. ASSUME NEW c \in {l, r}, Inside(h, c)
       PROVE  [node |-> c.node, lo |-> c.lo, n |-> c.n - 1] \in G
  <2> HIDE DEF l, r
  <2>1. c \in CartesianFrames(diffs)
    BY <1>6, <1>20
  <2> QED
    BY <1>20, <2>1, NarrowerFrame
<1>21. l # LostSlot(diffs, h, bit) \/ Inside(h, l)
  <2>1. ASSUME l = LostSlot(diffs, h, bit), ~ Inside(h, l)
        PROVE  FALSE
    <3>1. Before(l, h) /\ Inside(l, h)
      BY <1>3, <2>1, LossAround
    <3>2. l.lo \in Nat /\ l.n \in Nat \ {0}
      BY <1>1, <1>6, CartesianParts
    <3> HIDE DEF l
    <3> QED
      BY <1>4, <3>1, <3>2 DEF Before, Inside
  <2> QED
    BY <2>1
<1>22. r # LostSlot(diffs, h, bit) \/ Inside(h, r)
  <2>1. ASSUME r = LostSlot(diffs, h, bit), ~ Inside(h, r)
        PROVE  FALSE
    <3>1. Before(h, r) /\ Inside(r, h)
      BY <1>3, <2>1, LossAround
    <3>2. r.lo \in Nat /\ r.n \in Nat \ {0}
      BY <1>1, <1>6, CartesianParts
    <3> HIDE DEF r
    <3> QED
      BY <1>4, <3>1, <3>2 DEF Before, Inside
  <2> QED
    BY <2>1
<1>23. l = [node |-> l.node, lo |-> l.lo, n |-> l.n]
  BY DEF LeftOf
<1> HIDE DEF t, size, x, new, routes, G, l, r, i, onLeft, fv, fl, fn, k, g
<1>11. /\ x \in Nat /\ x \in fl .. fl + fn - 2 /\ fv < h.node
       /\ x # i
       /\ onLeft <=> x < i
       /\ onLeft => k > 1
       /\ fn > 2
  <2> DEFINE hv == h.node
             hl == h.lo
             hn == h.n
  <2>1. /\ hl <= x /\ x <= hl + hn - 2 /\ x \in Nat
        /\ hv \in Nat /\ hl \in Nat /\ hn \in Nat /\ hn > 1
    BY <1>1, <1>4
  <2>2. \/ onLeft /\ hl >= fl /\ hl + hn <= fl + k /\ hv >= fv + 1
        \/ ~ onLeft /\ hl >= fl + k /\ hl + hn <= fl + k + (fn - k) /\ hv >= fv + k
    <3>1. ASSUME Inside(h, l)
          PROVE  hl >= fl /\ hl + hn <= fl + k /\ hv >= fv + 1
      BY <1>6, <3>1 DEF Inside
    <3>2. ASSUME Inside(h, r)
          PROVE  hl >= fl + k /\ hl + hn <= fl + k + (fn - k) /\ hv >= fv + k
      BY <1>6, <3>2 DEF Inside
    <3> QED
      BY <1>3, <3>1, <3>2
  <2> HIDE DEF hv, hl, hn
  <2>3. /\ x \in Nat /\ x \in fl .. fl + fn - 2 /\ fv < hv
        /\ x # i
        /\ onLeft <=> x < i
        /\ onLeft => k > 1
        /\ fn > 2
    BY <1>5, <1>6, <1>7, <2>1, <2>2
  <2> QED
    BY <2>3 DEF hv
<1>12. /\ onLeft => m = k - 1 /\ z = i - 1 /\ m = k + (-1)
       /\ ~ onLeft => m = k /\ z = i
  BY <1>6 DEF m, z
<1> HIDE DEF m, z
<1>13. LastSmallest(new, fl, fl + fn - 3, z) /\ new[z] = diffs[i]
  <2> DEFINE b == fl + fn - 2
  <2>1. /\ fl \in Nat \ {0} /\ b \in Nat /\ b <= Len(diffs) /\ i \in fl .. b /\ x \in fl .. b
        /\ b - 1 = fl + fn - 3
    BY <1>4, <1>5, <1>6, <1>7, <1>11
  <2>2. z = IF x < i THEN i - 1 ELSE i
    BY <1>11, <1>12
  <2>3. LastSmallest(diffs, fl, b, i)
    BY <1>10
  <2> HIDE DEF b
  <2>4. OneMore(new, diffs, x)
    BY <1>1
  <2>5. fl \in Nat \ {0} /\ b \in Nat /\ b <= Len(diffs) /\ i \in fl .. b
    BY <2>1
  <2>6. x \in fl .. b /\ x # i
    BY <1>11, <2>1
  <2>7. LET y == IF x < i THEN i - 1 ELSE i
        IN  LastSmallest(new, fl, b - 1, y) /\ new[y] = diffs[i]
    BY <2>3, <2>4, <2>5, <2>6, OneLessKeeps
  <2>8. LastSmallest(new, fl, b - 1, z) /\ new[z] = diffs[i]
    BY <2>2, <2>7
  <2> QED
    BY <2>1, <2>8
<1>14. g.lo + g.n - 2 = fl + fn - 3 /\ g.lo + m - 1 = z /\ m \in 1 .. g.n - 1
  <2>1. fl + (fn - 1) - 2 = fl + fn - 3 /\ fl + m - 1 = z
    BY <1>5, <1>6, <1>7, <1>12
  <2>2. m \in 1 .. (fn - 1) - 1
    <3>1. CASE onLeft
      BY <1>5, <1>6, <1>11, <1>12, <3>1
    <3>2. CASE ~ onLeft
      BY <1>4, <1>5, <1>6, <1>7, <1>11, <1>12, <3>2
    <3> QED
      BY <3>1, <3>2
  <2> QED
    BY <1>8, <2>1, <2>2
<1>15. PartsAt(new, g, m)
  BY <1>8, <1>13, <1>14, PartsAtIs
<1>16. routes[g.node] = MakeRoute(new[g.lo + m - 1], m)
  BY <1>8, <1>9, <1>11, <1>12, <1>13, <1>14
<1>17. /\ [node |-> g.node + 1, lo |-> g.lo, n |-> m] \in G
       /\ [node |-> g.node + m, lo |-> g.lo + m, n |-> g.n - m] \in G
  <2>1. CASE onLeft
    <3>1. Inside(h, l) /\ Before(h, r)
      BY <1>3, <2>1
    <3>2. [node |-> l.node, lo |-> l.lo, n |-> l.n - 1] \in G
      BY <1>20, <3>1
    <3>3. [node |-> r.node - 1, lo |-> r.lo - 1, n |-> r.n] \in G
      <4>1. ShrunkFrame(r, h, bit) = [node |-> r.node - 1, lo |-> r.lo - 1, n |-> r.n]
        BY <1>1, <1>6, <3>1, ShrunkFrameIs
      <4>2. ~ Inside(h, r)
        <5>1. h.lo + h.n <= r.lo
          BY <3>1 DEF Before
        <5>2. r.lo \in Nat
          BY <1>5, <1>6
        <5> QED
          BY <1>4, <5>1, <5>2 DEF Inside
      <4> QED
        BY <1>6, <1>22, <4>1, <4>2 DEF G, ShrunkFrames
    <3>4. /\ l.node = g.node + 1 /\ l.lo = g.lo /\ l.n - 1 = m
          /\ r.node - 1 = g.node + m /\ r.lo - 1 = g.lo + m /\ r.n = g.n - m
      BY <1>5, <1>6, <1>8, <1>12, <2>1
    <3> QED
      BY <3>2, <3>3, <3>4
  <2>2. CASE ~ onLeft
    <3>1. Inside(h, r) /\ Before(l, h)
      BY <1>3, <2>2
    <3>2. [node |-> r.node, lo |-> r.lo, n |-> r.n - 1] \in G
      BY <1>20, <3>1
    <3>3. l \in G
      <4>1. ShrunkFrame(l, h, bit) = l
        BY <1>1, <1>6, <3>1, ShrunkFrameIs
      <4>2. ~ Inside(h, l)
        <5>1. l.lo + l.n <= h.lo
          BY <3>1 DEF Before
        <5>2. l.lo \in Nat /\ l.n \in Nat
          BY <1>5, <1>6
        <5> QED
          BY <1>4, <5>1, <5>2 DEF Inside
      <4> QED
        BY <1>6, <1>21, <4>1, <4>2 DEF G, ShrunkFrames
    <3>5. /\ l.node = g.node + 1 /\ l.lo = g.lo /\ l.n = m
          /\ r.node = g.node + m /\ r.lo = g.lo + m /\ r.n - 1 = g.n - m
      BY <1>5, <1>6, <1>8, <1>12, <2>2
    <3> QED
      BY <1>23, <3>2, <3>3, <3>5
  <2> QED
    BY <2>1, <2>2
<1>18. PartsWell(routes, new, G, g, m)
  BY <1>14, <1>15, <1>16, <1>17 DEF PartsWell
<1>19. m \in Nat
  BY <1>14
<1> QED
  BY <1>18, <1>19 DEF routes, new, G, g

\* The shrunk frames are frames of a page one slot smaller.
LEMMA ShrunkFramesFit ==
    ASSUME NEW diffs, NEW h, NEW bit, Loss(diffs, h, bit)
    PROVE  /\ ShrunkFrames(diffs, h, bit) \in SUBSET Frame(Len(diffs))
           /\ WholePage(Len(diffs)) \in ShrunkFrames(diffs, h, bit)
<1> DEFINE s == Len(diffs)
           w == KeptSide(diffs, h, bit)
           whole == WholePage(s + 1)
<1>1. /\ diffs \in Seq(Nat) /\ h \in CartesianFrames(diffs) /\ s \in Nat /\ bit \in {0, 1}
  BY DEF Loss
<1>2. ASSUME NEW f \in CartesianFrames(diffs), f # LostSlot(diffs, h, bit)
      PROVE  ShrunkFrame(f, h, bit) \in Frame(s)
  <2> DEFINE fv == f.node
             fl == f.lo
             fn == f.n
             hv == h.node
             hl == h.lo
             hn == h.n
             wv == w.node
             wl == w.lo
             wn == w.n
             g == ShrunkFrame(f, h, bit)
  <2>1. /\ fv \in Nat \ {0} /\ fl \in Nat \ {0} /\ fn \in Nat \ {0}
        /\ fl + fn - 1 <= s + 1 /\ fv + fn - 1 <= s + 1
        /\ f \in Frame(s + 1)
    BY <1>1, CartesianParts
  <2>2. f = [node |-> fv, lo |-> fl, n |-> fn]
    BY <1>1, <2>1, FrameType
  <2>3. /\ hv \in Nat /\ hl \in Nat /\ hn \in Nat /\ hn > 1 /\ hv >= 1 /\ hl >= 1
        /\ hl + hn - 1 <= s + 1 /\ hv + hn - 1 <= s + 1
        /\ wv = hv + 1 /\ wl = hl + (1 - bit) /\ wn = hn - 1
    BY LossIs
  <2>4. \/ Before(f, h) /\ g = [node |-> fv, lo |-> fl, n |-> fn]
        \/ Before(h, f) /\ g = [node |-> fv - 1, lo |-> fl - 1, n |-> fn]
        \/ Inside(h, f) /\ g = [node |-> fv, lo |-> fl, n |-> fn - 1]
        \/ Inside(f, w) /\ g = [node |-> fv - 1, lo |-> fl - (1 - bit), n |-> fn]
    <3> HIDE DEF g, w, fv, fl, fn
    <3>1. Before(f, h) \/ Before(h, f) \/ Inside(f, w) \/ Inside(h, f)
      BY <1>2, LossAround DEF w
    <3> QED
      BY <2>2, <3>1, ShrunkFrameIs DEF w, g, fv, fl, fn
  <2>5. /\ Before(f, h) => fl + fn <= hl /\ fv + fn - 1 <= hv
        /\ Before(h, f) => hl + hn <= fl /\ hv + hn - 1 <= fv
        /\ Inside(h, f) => hl + hn <= fl + fn /\ fl <= hl
        /\ Inside(f, w) => wl <= fl /\ fl + fn <= wl + wn /\ wv <= fv
    <3> HIDE DEF w
    <3> QED
      BY DEF Before, Inside
  <2> HIDE DEF fv, fl, fn, hv, hl, hn, wv, wl, wn, g, w, s
  <2>6. /\ Before(f, h) => fv \in 1 .. s /\ fl \in 1 .. s /\ fn \in 1 .. s
        /\ Before(h, f) => fv - 1 \in 1 .. s /\ fl - 1 \in 1 .. s /\ fn \in 1 .. s
        /\ Inside(h, f) => fv \in 1 .. s /\ fl \in 1 .. s /\ fn - 1 \in 1 .. s
        /\ Inside(f, w) => /\ fv - 1 \in 1 .. s /\ fl - (1 - bit) \in 1 .. s
                           /\ fn \in 1 .. s
    BY <1>1, <2>1, <2>3, <2>5
  <2>7. g \in Frame(s)
    BY <2>4, <2>6 DEF Frame
  <2> QED
    BY <2>7 DEF g
<1>4. ShrunkFrames(diffs, h, bit) \in SUBSET Frame(s)
  BY <1>2 DEF ShrunkFrames
<1>5. whole \in CartesianFrames(diffs) /\ whole.node = 1 /\ whole.lo = 1 /\ whole.n = s + 1
  BY <1>1, CartesianBasics DEF WholePage
<1>6. Inside(h, whole)
  <2>1. CartesianFrames(diffs) = FramesBelow(CartesianTree(diffs), whole)
    BY DEF CartesianFrames
  <2> HIDE DEF whole
  <2> QED
    BY <1>1, <1>5, <2>1, FramesAround
<1>7. [node |-> whole.node, lo |-> whole.lo, n |-> whole.n - 1] \in ShrunkFrames(diffs, h, bit)
  <2> HIDE DEF whole
  <2> QED
    BY <1>5, <1>6, NarrowerFrame
<1>8. whole.n - 1 = s
  BY <1>1, <1>5
<1>9. WholePage(s) \in ShrunkFrames(diffs, h, bit)
  BY <1>5, <1>7, <1>8 DEF WholePage
<1> QED
  BY <1>4, <1>9

\* Taking the route above a slot away leaves the routes of the diffs with one
\* less (NodePage::DeleteRoute against Index::BuildCartesian).
THEOREM ShrunkIsCartesian ==
    ASSUME NEW diffs, NEW h, NEW bit, Loss(diffs, h, bit)
    PROVE  ShrunkRoutes(diffs, h) = RoutesOf(ShrunkDiffs(diffs, h))
<1> DEFINE new == ShrunkDiffs(diffs, h)
           routes == ShrunkRoutes(diffs, h)
           G == ShrunkFrames(diffs, h, bit)
           e == LostSlot(diffs, h, bit)
           w == KeptSide(diffs, h, bit)
<1>1. /\ diffs \in Seq(Nat) /\ h \in CartesianFrames(diffs) /\ bit \in {0, 1}
      /\ h.node \in Nat /\ h.lo \in Nat
  BY LossIs DEF Loss
<1>2. new \in Seq(Nat) /\ Len(new) = Len(diffs) - 1 /\ Len(diffs) \in Nat
  BY <1>1, ShrunkDiffsAre
<1>3. routes = [i \in 1 .. Len(diffs) - 1 |-> routes[i]]
  BY ShrunkRoutesAre
<1>4. G \in SUBSET Frame(Len(diffs)) /\ WholePage(Len(diffs)) \in G
  BY ShrunkFramesFit
<1>5. ASSUME NEW g \in G, IsRoute(g)
      PROVE  \E k \in Nat : PartsWell(routes, new, G, g, k)
  <2>1. PICK f \in CartesianFrames(diffs) : f # e /\ g = ShrunkFrame(f, h, bit)
    BY DEF ShrunkFrames
  <2>2. ASSUME NEW c \in CartesianFrames(diffs), g = ShrunkFrame(c, h, bit),
               Before(c, h) \/ Before(h, c) \/ Inside(c, w)
        PROVE  \E k \in Nat : PartsWell(routes, new, G, g, k)
    <3>1. g.n = c.n
      BY <2>2, ShrunkFrameIs
    <3>2. IsRoute(c)
      BY <1>5, <3>1 DEF IsRoute
    <3> QED
      BY <2>2, <3>2, LostBesideParts
  <2>3. CASE Before(f, h) \/ Before(h, f) \/ Inside(f, w)
    BY <2>1, <2>2, <2>3
  <2>4. CASE f = h
    <3>1. Inside(h, h) /\ w \in CartesianFrames(diffs) /\ Inside(w, w)
      BY <1>1, LossAround, LossIs, FramesAround
    <3>2. g = [node |-> h.node, lo |-> h.lo, n |-> h.n - 1]
      BY <2>1, <2>4, <3>1, ShrunkFrameIs
    <3>3. ShrunkFrame(w, h, bit) = [node |-> w.node - 1, lo |-> w.lo - (1 - bit), n |-> w.n]
      BY <3>1, ShrunkFrameIs
    <3>4. w.node = h.node + 1 /\ w.lo = h.lo + (1 - bit) /\ w.n = h.n - 1
      BY LossIs
    <3> HIDE DEF w, e
    <3>5. w.node - 1 = h.node /\ w.lo - (1 - bit) = h.lo
      BY <1>1, <3>4
    <3>6. g = ShrunkFrame(w, h, bit)
      BY <3>2, <3>3, <3>4, <3>5
    <3> QED
      BY <2>2, <3>1, <3>6
  <2>5. CASE Inside(h, f) /\ f # h
    <3>1. h \in FramesBelow(CartesianTree(diffs), f)
      BY <2>5, LossAround
    <3> QED
      BY <2>1, <2>5, <3>1, LostAboveParts
  <2> QED
    BY <2>1, <2>3, <2>4, <2>5, LossAround
<1> HIDE DEF new, routes, G
<1>6. Len(new) + 1 = Len(diffs)
  BY <1>2
<1>7. routes = RoutesOf(new)
  BY <1>2, <1>3, <1>4, <1>5, <1>6, CartesianFrom
<1> QED
  BY <1>7 DEF new, routes

-----------------------------------------------------------------------------
(* The way to a slot *)

\* The way to a slot is a way down through frames that hold it.
LEMMA PathToIs ==
    ASSUME NEW page, NEW diffs, Canonical(page, diffs),
           NEW slot \in 1 .. Len(diffs) + 1
    PROVE  LET p == PathTo(page, slot)
           IN  /\ WayDown(p, diffs)
               /\ \A j \in 1 .. Len(p) : slot \in SlotsOf(p[j])
<1> DEFINE size == Len(diffs) + 1
           t == CartesianTree(diffs)
           tree == TreeOf(page)
           all == CartesianFrames(diffs)
           turn == TurnTo(page, slot)
           p == PathTo(page, slot)
<1>1. /\ IsTree(tree, size) /\ AllFrames(tree, size) = all /\ Len(page.reps) = size
      /\ DOMAIN tree = Frame(size) /\ diffs \in Seq(Nat)
      /\ all \in SUBSET Frame(size) /\ size \in Nat
  BY CanonicalTree, CartesianBasics
<1>2. ASSUME NEW f \in all
      PROVE  /\ ~ IsRoute(f) => turn[f] = f
             /\ IsRoute(f) =>
                  turn[f] = IF slot < f.lo + t[f] THEN LeftOf(t, f) ELSE RightOf(t, f)
             /\ IsRoute(f) => LeftOf(tree, f) = LeftOf(t, f) /\ RightOf(tree, f) = RightOf(t, f)
  <2>1. f \in DOMAIN tree
    BY <1>1
  <2>2. turn[f] = IF ~ IsRoute(f) THEN f
                  ELSE IF slot < f.lo + tree[f]
                  THEN LeftOf(tree, f) ELSE RightOf(tree, f)
    BY <2>1 DEF TurnTo
  <2>3. IsRoute(f) => /\ LeftOf(tree, f) = LeftOf(t, f) /\ RightOf(tree, f) = RightOf(t, f)
                      /\ tree[f] = t[f]
    BY CanonicalTree
  <2> HIDE DEF turn, t, tree
  <2> QED
    BY <2>2, <2>3
<1>3. GoesDown(turn, tree, size)
  <2> HIDE DEF turn, t, tree, all
  <2> QED
    BY <1>1, <1>2 DEF GoesDown
<1>4. IsPath(p, turn, tree, size)
  <2>1. p = Path(turn, size)
    BY <1>1 DEF PathTo
  <2> HIDE DEF p, turn, tree
  <2> QED
    BY <1>1, <1>3, <2>1, PathIs
<1> HIDE DEF p, turn, tree, t
<1>5. /\ p \in Seq(all) /\ Len(p) \in Nat \ {0} /\ p[1] = WholePage(size)
      /\ \A j \in 1 .. Len(p) - 1 : IsRoute(p[j]) /\ p[j + 1] = turn[p[j]]
      /\ ~ IsRoute(p[Len(p)])
  BY <1>1, <1>4 DEF IsPath
<1>6. ASSUME NEW j \in 1 .. Len(p) - 1
      PROVE  /\ p[j] \in all /\ IsRoute(p[j])
             /\ p[j + 1] = IF slot < p[j].lo + t[p[j]]
                           THEN LeftOf(t, p[j]) ELSE RightOf(t, p[j])
  <2>1. p[j] \in all
    BY <1>5
  <2> QED
    BY <1>2, <1>5, <2>1
<1>7. WayDown(p, diffs)
  BY <1>5, <1>6 DEF WayDown, t
<1> DEFINE T == {j \in Nat : j + 1 <= Len(p) => slot \in SlotsOf(p[j + 1])}
<1>8. 0 \in T
  <2>1. SlotsOf(p[1]) = 1 .. size
    BY <1>1, <1>5 DEF SlotsOf, WholePage
  <2> QED
    BY <2>1
<1>9. ASSUME NEW j \in T
      PROVE  j + 1 \in T
  <2>1. SUFFICES ASSUME (j + 1) + 1 <= Len(p)
                 PROVE  slot \in SlotsOf(p[(j + 1) + 1])
    OBVIOUS
  <2>2. j + 1 \in 1 .. Len(p) - 1 /\ j + 1 <= Len(p)
    BY <1>5, <2>1
  <2> DEFINE f == p[j + 1]
  <2>3. /\ slot \in SlotsOf(f)
        /\ p[(j + 1) + 1] = IF slot < f.lo + t[f] THEN LeftOf(t, f) ELSE RightOf(t, f)
        /\ f \in all /\ IsRoute(f)
    BY <1>6, <2>2
  <2> HIDE DEF f
  <2>4. /\ LeftOf(t, f).lo = f.lo /\ LeftOf(t, f).n = t[f]
        /\ RightOf(t, f).lo = f.lo + t[f] /\ RightOf(t, f).n = f.n - t[f]
        /\ t[f] \in 1 .. f.n - 1 /\ f.lo \in Nat /\ f.n \in Nat
    BY <1>1, <2>3, CartesianParts DEF t
  <2>5. slot < f.lo + t[f] => slot \in SlotsOf(LeftOf(t, f))
    BY <2>3, <2>4 DEF SlotsOf
  <2>6. ~ (slot < f.lo + t[f]) => slot \in SlotsOf(RightOf(t, f))
    BY <2>3, <2>4 DEF SlotsOf
  <2> QED
    BY <2>3, <2>5, <2>6
<1>10. T = Nat
  <2>1. T \in SUBSET Nat
    OBVIOUS
  <2> HIDE DEF T
  <2> QED
    BY <1>8, <1>9, <2>1, SetInduction
<1>11. ASSUME NEW j \in 1 .. Len(p)
       PROVE  slot \in SlotsOf(p[j])
  <2>1. j - 1 \in Nat /\ (j - 1) + 1 = j /\ j <= Len(p)
    BY <1>5
  <2>2. j - 1 \in T
    <3> HIDE DEF T
    <3> QED
      BY <1>10, <2>1
  <2> QED
    BY <2>1, <2>2
<1> QED
  BY <1>7, <1>11 DEF p

\* Of the diffs on both sides of the lost slot, the one at h is the larger.
LEMMA LostIsLarger ==
    ASSUME NEW diffs, NEW h, NEW bit, Loss(diffs, h, bit),
           NEW y \in 1 .. Len(diffs),
           y \in {LostSlot(diffs, h, bit).lo - 1, LostSlot(diffs, h, bit).lo}
    PROVE  diffs[y] <= diffs[PlaceOf(diffs, h)]
<1> DEFINE t == CartesianTree(diffs)
           size == Len(diffs) + 1
           all == CartesianFrames(diffs)
           whole == WholePage(size)
           x == PlaceOf(diffs, h)
           e == LostSlot(diffs, h, bit)
           hl == h.lo
           hn == h.n
           el == e.lo
<1>1. /\ diffs \in Seq(Nat) /\ h \in all /\ bit \in {0, 1} /\ Len(diffs) \in Nat
      /\ IsRoute(h)
  BY DEF Loss
<1>2. /\ hl \in Nat /\ hn \in Nat /\ hn > 1 /\ hl >= 1
      /\ x \in 1 .. Len(diffs)
      /\ x = IF bit = 0 THEN hl ELSE hl + hn - 2
      /\ el = IF bit = 0 THEN hl ELSE hl + hn - 1
      /\ hl + hn - 1 <= Len(diffs) + 1
  BY LossIs
<1>3. CASE y = x
  <2>1. diffs[x] \in Nat
    BY <1>1, <1>2
  <2> QED
    BY <1>3, <2>1
<1>4. CASE y # x
  <2>1. (bit = 0 /\ y = hl - 1) \/ (bit = 1 /\ y = hl + hn - 1)
    <3>1. y \in {el - 1, el}
      OBVIOUS
    <3> HIDE DEF hl, hn, el, e, x
    <3> QED
      BY <1>1, <1>2, <1>4, <3>1
  <2>2. /\ IsTree(t, size) /\ whole \in AllFrames(t, size)
        /\ all = AllFrames(t, size) /\ all = FramesBelow(t, whole)
        /\ whole.lo = 1 /\ whole.n = size
    BY <1>1, CartesianBasics DEF AllFrames, WholePage
  <2>3. y \in whole.lo .. whole.lo + whole.n - 2
    BY <1>1, <2>2
  <2> HIDE DEF whole
  <2>4. PICK g \in all : IsRoute(g) /\ g.lo + t[g] - 1 = y
    BY <2>2, <2>3, RoutesCover
  <2> DEFINE gl == g.lo
             gn == g.n
  <2>5. /\ PlaceOf(diffs, g) = y /\ y \in gl .. gl + gn - 2
        /\ PartsAt(diffs, g, t[g])
        /\ y = gl + t[g] - 1
    BY <1>1, <2>4, CartesianBasics DEF PlaceOf
  <2>6. gl \in Nat /\ gn \in Nat
    BY <1>1, CartesianParts
  <2> HIDE DEF t, all, size, x, e
  <2>7. x \in gl .. gl + gn - 2
    <3>1. CASE Inside(h, g)
      <4>1. gl <= hl /\ hl + hn <= gl + gn
        BY <3>1 DEF Inside
      <4> HIDE DEF gl, gn, hl, hn
      <4> QED
        BY <1>1, <1>2, <2>6, <4>1
    <3>2. CASE Inside(g, h)
      <4>1. hl <= gl /\ gl + gn <= hl + hn
        BY <3>2 DEF Inside
      <4> HIDE DEF gl, gn, hl, hn
      <4> QED
        BY <1>1, <1>2, <2>1, <2>5, <2>6, <4>1
    <3>3. CASE Before(g, h) \/ Before(h, g)
      <4>1. gl + gn <= hl \/ hl + hn <= gl
        BY <3>3 DEF Before
      <4> HIDE DEF gl, gn, hl, hn
      <4> QED
        BY <1>1, <1>2, <2>1, <2>5, <2>6, <4>1
    <3> QED
      BY <1>1, <2>4, <3>1, <3>2, <3>3, FramesAround DEF all
  <2>8. diffs[gl + t[g] - 1] <= diffs[x]
    BY <2>5, <2>7 DEF PartsAt
  <2> QED
    BY <2>5, <2>8 DEF x
<1> QED
  BY <1>3, <1>4

\* The route that DeleteRoute takes away is the one above the slot.
LEMMA LostOnWay ==
    ASSUME NEW page, NEW diffs, Canonical(page, diffs), Len(diffs) > 0,
           NEW slot \in 1 .. Len(diffs) + 1
    PROVE  LET p == PathTo(page, slot)
               h == p[Len(p) - 1]
           IN  /\ LeftTurns(p, Len(p) - 1) = LeftNodes(diffs, h)
               /\ \E bit \in {0, 1} :
                    Loss(diffs, h, bit) /\ LostSlot(diffs, h, bit).lo = slot
<1> DEFINE t == CartesianTree(diffs)
           size == Len(diffs) + 1
           all == CartesianFrames(diffs)
           p == PathTo(page, slot)
           h == p[Len(p) - 1]
           e == p[Len(p)]
           bit == IF e = LeftOf(t, h) THEN 0 ELSE 1
<1>1. /\ diffs \in Seq(Nat) /\ Len(diffs) \in Nat
      /\ WayDown(p, diffs) /\ \A j \in 1 .. Len(p) : slot \in SlotsOf(p[j])
  BY PathToIs DEF Canonical
<1>2. /\ p \in Seq(all) /\ Len(p) \in Nat \ {0} /\ p[1] = WholePage(size)
      /\ \A j \in 1 .. Len(p) - 1 : IsRoute(p[j]) /\ p[j + 1] \in {LeftOf(t, p[j]), RightOf(t, p[j])}
      /\ ~ IsRoute(e)
  BY <1>1 DEF WayDown
<1>3. Len(p) # 1
  <2>1. IsRoute(p[1])
    BY <1>1, <1>2 DEF IsRoute, WholePage
  <2> QED
    BY <1>2, <2>1
<1> HIDE DEF p
<1>4. Len(p) - 1 \in 1 .. Len(p) - 1 /\ Len(p) - 1 \in 1 .. Len(p) /\ (Len(p) - 1) + 1 = Len(p)
      /\ Len(p) \in 1 .. Len(p)
  <2> DEFINE n == Len(p)
  <2>1. n \in Nat \ {0} /\ n # 1
    BY <1>2, <1>3
  <2> HIDE DEF n
  <2>2. n - 1 \in 1 .. n - 1 /\ n - 1 \in 1 .. n /\ (n - 1) + 1 = n /\ n \in 1 .. n
    BY <2>1
  <2> QED
    BY <2>2 DEF n
<1>5. IsRoute(h) /\ (e = LeftOf(t, h) \/ e = RightOf(t, h)) /\ h \in all /\ e \in all
  BY <1>2, <1>4
<1>6. LeftTurns(p, Len(p) - 1) = LeftNodes(diffs, h)
  BY <1>1, <1>4, LeftTurnsAre
<1>7. slot \in SlotsOf(e)
  BY <1>1, <1>4
<1>8. /\ e.n = 1 /\ e.lo = slot
  <2>1. e.n \in Nat \ {0} /\ e.lo \in Nat
    BY <1>1, <1>5, CartesianParts
  <2> HIDE DEF e
  <2> QED
    BY <1>2, <1>7, <2>1 DEF IsRoute, SlotsOf
<1>9. /\ t[h] \in 1 .. h.n - 1 /\ h.n \in Nat
      /\ LeftOf(t, h).n = t[h] /\ RightOf(t, h).n = h.n - t[h]
  BY <1>1, <1>5, CartesianParts
<1> HIDE DEF h, e
<1>10. /\ t[h] = IF bit = 0 THEN 1 ELSE h.n - 1
       /\ e = IF bit = 0 THEN LeftOf(t, h) ELSE RightOf(t, h)
  BY <1>5, <1>8, <1>9
<1>11. Loss(diffs, h, bit) /\ LostSlot(diffs, h, bit) = e
  <2>1. bit \in {0, 1}
    OBVIOUS
  <2> HIDE DEF bit
  <2> QED
    BY <1>1, <1>5, <1>10, <2>1 DEF Loss, LostSlot, t, all
<1>12. bit \in {0, 1}
  OBVIOUS
<1> HIDE DEF bit
<1>13. \E b \in {0, 1} : Loss(diffs, h, b) /\ LostSlot(diffs, h, b).lo = slot
  BY <1>8, <1>11, <1>12
<1> QED
  BY <1>6, <1>13 DEF h, p

\* NodePage::DeleteRoute, which edits the routes of a page in place, writes
\* what a rebuild without the larger of the diffs beside the slot would.
THEOREM DeleteRouteIsRebuild ==
    ASSUME NEW page, NEW diffs, Canonical(page, diffs), Len(diffs) > 0,
           NEW slot \in 1 .. Len(diffs) + 1
    PROVE  \E x \in {slot - 1, slot} :
             /\ x \in 1 .. Len(diffs)
             /\ \A y \in {slot - 1, slot} : y \in 1 .. Len(diffs) => diffs[y] <= diffs[x]
             /\ DeleteRoute(page, slot) = RoutesOf(RemoveAt(diffs, x))
<1> DEFINE p == PathTo(page, slot)
           h == p[Len(p) - 1]
<1>1. LeftTurns(p, Len(p) - 1) = LeftNodes(diffs, h)
  BY LostOnWay
<1>2. PICK bit \in {0, 1} : Loss(diffs, h, bit) /\ LostSlot(diffs, h, bit).lo = slot
  BY LostOnWay
<1>3. DeleteRoute(page, slot) = ShrunkRoutes(diffs, h)
  BY <1>1 DEF DeleteRoute, ShrunkRoutes, Canonical
<1> HIDE DEF p, h
<1> DEFINE x == PlaceOf(diffs, h)
<1>4. DeleteRoute(page, slot) = RoutesOf(RemoveAt(diffs, x))
  BY <1>2, <1>3, ShrunkIsCartesian DEF ShrunkDiffs
<1>5. x \in 1 .. Len(diffs) /\ x \in {slot - 1, slot}
  <2> DEFINE hl == h.lo
             hn == h.n
             el == LostSlot(diffs, h, bit).lo
  <2>1. /\ hl \in Nat /\ hn \in Nat /\ x \in 1 .. Len(diffs)
        /\ x = IF bit = 0 THEN hl ELSE hl + hn - 2
        /\ el = IF bit = 0 THEN hl ELSE hl + hn - 1
        /\ el = slot
    BY <1>2, LossIs
  <2> HIDE DEF hl, hn, el, x
  <2> QED
    BY <2>1
<1>6. \A y \in {slot - 1, slot} : y \in 1 .. Len(diffs) => diffs[y] <= diffs[x]
  BY <1>2, LostIsLarger
<1> QED
  BY <1>4, <1>5, <1>6
=============================================================================
