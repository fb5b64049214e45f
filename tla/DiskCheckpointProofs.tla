------------------------ MODULE DiskCheckpointProofs ------------------------
(***************************************************************************)
(* What survives a crash of the machine, as theorems about DiskCheckpoint: *)
(* the inductive invariant DiskInv and the invariants that follow from it, *)
(* for every value of the constants, on a file system that keeps the order *)
(* of directory changes (Ordered).                                         *)
(***************************************************************************)
EXTENDS DiskCheckpoint, SequenceTheorems, TLAPS

-----------------------------------------------------------------------------
(***************************************************************************)
(* The inductive invariant.                                                *)
(***************************************************************************)

\* The images a crash may go back to when the order of changes is kept.
Held == {images[n] : n \in DOMAIN images}

\* An image by itself: Open finds the snapshot its MANIFEST names, no log is
\* of a later generation, and what it recovers holds what must survive.
ImageOK(i) ==
  /\ i.man # 1
  /\ Opens(i)
  /\ \A g \in i.logs : g <= CurrentGen(i)
  /\ Prefix(safe, AtLeast(i))

\* An image beside the one the system calls see: MANIFEST only goes forward,
\* and an image of the same generation misses no more than its log, so that an
\* append reaches both or neither.
BesideNow(i) ==
  /\ CurrentGen(i) <= CurrentGen(Now)
  /\ CurrentGen(i) = CurrentGen(Now) /\ CurrentGen(i) \in i.logs
       => CurrentGen(i) \in Now.logs
  /\ ~astray => /\ Prefix(AtMost(i), served)
                /\ CurrentGen(i) = CurrentGen(Now) => Base(i) = Base(Now)

ImagesOK == \A i \in Held : ImageOK(i) /\ BesideNow(i)

\* The process beside the directories it sees.
ProcessOK ==
  pc # "closed" =>
    /\ gen \in Now.logs
    /\ \A g \in Now.logs : g <= gen
    /\ CurrentGen(Now) \in {gen, gen + 1}
    /\ pc \in {"cleanWal", "cleanSnap"} => CurrentGen(Now) = gen
    /\ pc \in {"ckManSync", "ckReset"} => CurrentGen(Now) = gen + 1
    /\ pc \in {"ckSnapshot", "ckSnapSync", "ckManifest", "ckManSync", "ckReset"}
         => gen < MaxGen
    /\ pc \in {"ckSnapSync", "ckManifest", "ckManSync", "ckReset"}
         => Now.snap[gen + 1] = served

ServedOK ==
  /\ Prefix(safe, served)
  /\ ~astray => AtMost(Now) = served

DiskInv == TypeOK /\ ImagesOK /\ ProcessOK /\ ServedOK

-----------------------------------------------------------------------------
(***************************************************************************)
(* Prefixes.                                                               *)
(***************************************************************************)

\* A prefix, element by element.
LEMMA PrefixIs ==
  ASSUME NEW R, NEW s \in Seq(R), NEW t \in Seq(R)
  PROVE  Prefix(s, t) <=> /\ Len(s) <= Len(t)
                          /\ \A n \in 1..Len(s) : t[n] = s[n]
<1>1. SUFFICES ASSUME Len(s) <= Len(t)
               PROVE  SubSeq(t, 1, Len(s)) = s <=> \A n \in 1..Len(s) : t[n] = s[n]
  BY DEF Prefix
<1>2. Len(s) \in Nat /\ Len(t) \in Nat
  BY LenProperties
<1>3. \A n \in 1..Len(s) : t[n] \in R
  BY <1>1, <1>2, ElementOfSeq
<1>4. /\ SubSeq(t, 1, Len(s)) \in Seq(R)
      /\ Len(SubSeq(t, 1, Len(s))) = Len(s)
      /\ \A n \in 1..Len(s) : SubSeq(t, 1, Len(s))[n] = t[n]
  BY <1>2, <1>3, SubSeqProperties
<1>5. ASSUME \A n \in 1..Len(s) : t[n] = s[n]
      PROVE  SubSeq(t, 1, Len(s)) = s
  BY <1>2, <1>4, <1>5, SeqEqual
<1> QED
  BY <1>4, <1>5

LEMMA PrefixRefl == ASSUME NEW R, NEW s \in Seq(R) PROVE Prefix(s, s)
BY PrefixIs, LenProperties

LEMMA PrefixTrans ==
  ASSUME NEW R, NEW s \in Seq(R), NEW t \in Seq(R), NEW u \in Seq(R),
         Prefix(s, t), Prefix(t, u)
  PROVE  Prefix(s, u)
<1>1. Len(s) \in Nat /\ Len(t) \in Nat /\ Len(u) \in Nat
  BY LenProperties
<1>2. Len(s) <= Len(t) /\ \A n \in 1..Len(s) : t[n] = s[n]
  BY PrefixIs
<1>3. Len(t) <= Len(u) /\ \A n \in 1..Len(t) : u[n] = t[n]
  BY PrefixIs
<1>4. Len(s) <= Len(u) /\ \A n \in 1..Len(s) : u[n] = s[n]
  BY <1>1, <1>2, <1>3
<1> QED
  BY <1>4, PrefixIs

\* What is put behind a sequence leaves it a prefix.
LEMMA PrefixOfConcat ==
  ASSUME NEW R, NEW s \in Seq(R), NEW t \in Seq(R)
  PROVE  s \o t \in Seq(R) /\ Prefix(s, s \o t)
<1> DEFINE u == s \o t
<1>1. Len(s) \in Nat /\ Len(t) \in Nat
  BY LenProperties
<1>2. /\ u \in Seq(R) /\ Len(u) = Len(s) + Len(t)
      /\ \A n \in 1..Len(s) + Len(t) :
           u[n] = IF n <= Len(s) THEN s[n] ELSE t[n - Len(s)]
  BY ConcatProperties
<1> HIDE DEF u
<1>3. Len(s) <= Len(u) /\ \A n \in 1..Len(s) : u[n] = s[n]
  BY <1>1, <1>2
<1>4. Prefix(s, u)
  BY <1>2, <1>3, PrefixIs
<1> QED
  BY <1>2, <1>4 DEF u

LEMMA PrefixOfAppend ==
  ASSUME NEW R, NEW s \in Seq(R), NEW e \in R
  PROVE  Append(s, e) \in Seq(R) /\ Prefix(s, Append(s, e))
<1>1. <<e>> \in Seq(R)
  OBVIOUS
<1>2. Append(s, e) = s \o <<e>>
  BY AppendIsConcat
<1> QED
  BY <1>1, <1>2, PrefixOfConcat

LEMMA ConcatOfAppend ==
  ASSUME NEW R, NEW s \in Seq(R), NEW t \in Seq(R), NEW e \in R
  PROVE  s \o Append(t, e) = Append(s \o t, e)
<1>1. <<e>> \in Seq(R)
  OBVIOUS
<1>2. Append(t, e) = t \o <<e>> /\ Append(s \o t, e) = (s \o t) \o <<e>>
  BY AppendIsConcat, ConcatProperties
<1> QED
  BY <1>1, <1>2, ConcatAssociative

\* The same sequence before both.
LEMMA PrefixBehind ==
  ASSUME NEW R, NEW b \in Seq(R), NEW s \in Seq(R), NEW t \in Seq(R), Prefix(s, t)
  PROVE  Prefix(b \o s, b \o t)
<1> DEFINE bs == b \o s
           bt == b \o t
<1>1. Len(b) \in Nat /\ Len(s) \in Nat /\ Len(t) \in Nat
  BY LenProperties
<1>2. Len(s) <= Len(t) /\ \A n \in 1..Len(s) : t[n] = s[n]
  BY PrefixIs
<1>3. /\ bs \in Seq(R) /\ Len(bs) = Len(b) + Len(s)
      /\ \A n \in 1..Len(b) + Len(s) :
           bs[n] = IF n <= Len(b) THEN b[n] ELSE s[n - Len(b)]
  BY ConcatProperties
<1>4. /\ bt \in Seq(R) /\ Len(bt) = Len(b) + Len(t)
      /\ \A n \in 1..Len(b) + Len(t) :
           bt[n] = IF n <= Len(b) THEN b[n] ELSE t[n - Len(b)]
  BY ConcatProperties
<1> HIDE DEF bs, bt
<1>5. ASSUME NEW n \in 1..Len(bs)
      PROVE  bt[n] = bs[n]
  <2>1. n \in 1..Len(b) + Len(s) /\ n \in 1..Len(b) + Len(t)
    BY <1>1, <1>2, <1>3
  <2>2. CASE n <= Len(b)
    BY <1>3, <1>4, <2>1, <2>2
  <2>3. CASE ~ n <= Len(b)
    <3>1. n - Len(b) \in 1..Len(s)
      BY <1>1, <2>1, <2>3
    <3>2. bs[n] = s[n - Len(b)] /\ bt[n] = t[n - Len(b)]
      BY <1>3, <1>4, <2>1, <2>3
    <3> QED
      BY <1>2, <3>1, <3>2
  <2> QED
    BY <2>2, <2>3
<1>6. Len(bs) <= Len(bt)
  BY <1>1, <1>2, <1>3, <1>4
<1>7. Prefix(bs, bt)
  BY <1>3, <1>4, <1>5, <1>6, PrefixIs
<1> QED
  BY <1>7 DEF bs, bt

\* The first n elements, and more of them.
LEMMA FirstIs ==
  ASSUME NEW R, NEW s \in Seq(R), NEW n \in 0..Len(s)
  PROVE  /\ SubSeq(s, 1, n) \in Seq(R) /\ Len(SubSeq(s, 1, n)) = n
         /\ \A m \in 1..n : SubSeq(s, 1, n)[m] = s[m]
         /\ Prefix(SubSeq(s, 1, n), s)
<1>1. Len(s) \in Nat /\ n \in Nat /\ n <= Len(s)
  BY LenProperties
<1>2. \A m \in 1..n : s[m] \in R
  BY <1>1, ElementOfSeq
<1>3. /\ SubSeq(s, 1, n) \in Seq(R) /\ Len(SubSeq(s, 1, n)) = n
      /\ \A m \in 1..n : SubSeq(s, 1, n)[m] = s[m]
  BY <1>1, <1>2, SubSeqProperties
<1> QED
  BY <1>1, <1>3, PrefixIs

LEMMA FirstGrows ==
  ASSUME NEW R, NEW s \in Seq(R), NEW t \in Seq(R), Prefix(s, t),
         NEW m \in 0..Len(s), NEW n \in 0..Len(t), m <= n
  PROVE  Prefix(SubSeq(s, 1, m), SubSeq(t, 1, n))
<1>1. Len(s) \in Nat /\ Len(t) \in Nat
  BY LenProperties
<1>2. \A k \in 1..Len(s) : t[k] = s[k]
  BY PrefixIs
<1>3. /\ SubSeq(s, 1, m) \in Seq(R) /\ Len(SubSeq(s, 1, m)) = m
      /\ \A k \in 1..m : SubSeq(s, 1, m)[k] = s[k]
  BY FirstIs
<1>4. /\ SubSeq(t, 1, n) \in Seq(R) /\ Len(SubSeq(t, 1, n)) = n
      /\ \A k \in 1..n : SubSeq(t, 1, n)[k] = t[k]
  BY FirstIs
<1>5. \A k \in 1..m : SubSeq(t, 1, n)[k] = SubSeq(s, 1, m)[k]
  BY <1>1, <1>2, <1>3, <1>4
<1> QED
  BY <1>3, <1>4, <1>5, PrefixIs

\* The whole of a sequence, and the first elements of the first ones.
LEMMA FirstAll ==
  ASSUME NEW R, NEW s \in Seq(R)
  PROVE  SubSeq(s, 1, Len(s)) = s
<1>1. Len(s) \in Nat /\ Len(s) \in 0..Len(s)
  BY LenProperties
<1> QED
  BY <1>1, FirstIs, SeqEqual

LEMMA FirstOfFirst ==
  ASSUME NEW R, NEW s \in Seq(R), NEW n \in 0..Len(s)
  PROVE  SubSeq(SubSeq(s, 1, n), 1, n) = SubSeq(s, 1, n)
<1>1. SubSeq(s, 1, n) \in Seq(R) /\ Len(SubSeq(s, 1, n)) = n
  BY FirstIs
<1> QED
  BY <1>1, FirstAll

-----------------------------------------------------------------------------
(***************************************************************************)
(* Images and what Open recovers from them.                                *)
(***************************************************************************)

LEMMA ImageType ==
  ASSUME NEW i \in Image
  PROVE  /\ i = [man |-> i.man, snap |-> i.snap, logs |-> i.logs]
         /\ i.man \in 0..MaxGen /\ i.logs \subseteq Gen
         /\ i.snap \in [Gen -> Seq(Record) \cup {NoFile}]
         /\ CurrentGen(i) \in Gen
         /\ i.man # 0 => CurrentGen(i) = i.man
         /\ Opens(i) => Base(i) \in Seq(Record)
<1>1. /\ i = [man |-> i.man, snap |-> i.snap, logs |-> i.logs]
      /\ i.man \in 0..MaxGen /\ i.logs \subseteq Gen
      /\ i.snap \in [Gen -> Seq(Record) \cup {NoFile}]
  BY DEF Image
<1>2. MaxGen \in Nat \ {0}
  BY DiskAssumption
<1>3. CurrentGen(i) \in Gen /\ (i.man # 0 => CurrentGen(i) = i.man)
  BY <1>1, <1>2 DEF CurrentGen, Gen
<1>4. ASSUME Opens(i) PROVE Base(i) \in Seq(Record)
  <2>1. CASE i.man = 0
    BY <2>1, EmptySeq DEF Base
  <2>2. CASE i.man # 0
    BY <1>1, <1>3, <1>4, <2>2 DEF Base, Opens
  <2> QED
    BY <2>1, <2>2
<1> QED
  BY <1>1, <1>3, <1>4

\* The image the system calls see is one of those held, and all are images.
LEMMA HeldType ==
  ASSUME TypeOK
  PROVE  /\ Now \in Held /\ Now \in Image
         /\ \A i \in Held : i \in Image
<1>1. images \in Seq(Image) /\ Len(images) \in Nat /\ Len(images) > 0
  BY LenProperties DEF TypeOK
<1>2. DOMAIN images = 1..Len(images)
  BY <1>1, LenProperties
<1>3. \A n \in DOMAIN images : images[n] \in Image
  BY <1>1, <1>2, ElementOfSeq
<1> QED
  BY <1>1, <1>2, <1>3 DEF Held, Now

LEMMA WalType ==
  ASSUME TypeOK, NEW g \in Gen
  PROVE  /\ wal[g] \in Seq(Record) /\ Len(wal[g]) \in Nat
         /\ onDisk[g] \in 0..Len(wal[g]) /\ onDisk[g] \in Nat
<1>1. wal[g] \in Seq(Record) /\ onDisk[g] \in 0..Len(wal[g])
  BY LenProperties DEF TypeOK
<1> QED
  BY <1>1, LenProperties

\* A base and the first n writes of a log: longer for every longer log.
LEMMA WithLog ==
  ASSUME NEW b \in Seq(Record), NEW w \in Seq(Record), NEW n \in 0..Len(w)
  PROVE  /\ b \o SubSeq(w, 1, n) \in Seq(Record)
         /\ Prefix(b, b \o SubSeq(w, 1, n))
         /\ \A m \in 0..n : Prefix(b \o SubSeq(w, 1, m), b \o SubSeq(w, 1, n))
<1>1. Len(w) \in Nat
  BY LenProperties
<1>2. SubSeq(w, 1, n) \in Seq(Record)
  BY FirstIs
<1>3. ASSUME NEW m \in 0..n
      PROVE  Prefix(b \o SubSeq(w, 1, m), b \o SubSeq(w, 1, n))
  <2>1. m \in 0..Len(w) /\ m <= n
    BY <1>1
  <2>2. SubSeq(w, 1, m) \in Seq(Record)
    BY <2>1, FirstIs
  <2>3. Prefix(SubSeq(w, 1, m), SubSeq(w, 1, n))
    BY <2>1, PrefixRefl, FirstGrows
  <2> QED
    BY <1>2, <2>2, <2>3, PrefixBehind
<1> QED
  BY <1>2, <1>3, PrefixOfConcat

LEMMA RecoveredType ==
  ASSUME TypeOK, NEW i \in Image, Opens(i),
         NEW n \in 0..Len(wal[CurrentGen(i)])
  PROVE  /\ Recovered(i, n) \in Seq(Record)
         /\ Prefix(Base(i), Recovered(i, n))
         /\ \A m \in 0..n : Prefix(Recovered(i, m), Recovered(i, n))
<1>1. CurrentGen(i) \in Gen /\ Base(i) \in Seq(Record)
  BY ImageType
<1>2. wal[CurrentGen(i)] \in Seq(Record)
  BY <1>1, WalType
<1>3. CASE CurrentGen(i) \in i.logs
  BY <1>1, <1>2, <1>3, WithLog DEF Recovered
<1>4. CASE CurrentGen(i) \notin i.logs
  BY <1>1, <1>4, PrefixRefl DEF Recovered
<1> QED
  BY <1>3, <1>4

LEMMA BoundsType ==
  ASSUME TypeOK, NEW i \in Image, Opens(i)
  PROVE  /\ AtLeast(i) \in Seq(Record) /\ AtMost(i) \in Seq(Record)
         /\ Prefix(AtLeast(i), AtMost(i))
         /\ Prefix(Base(i), AtLeast(i))
<1>1. CurrentGen(i) \in Gen
  BY ImageType
<1>2. /\ Len(wal[CurrentGen(i)]) \in 0..Len(wal[CurrentGen(i)])
      /\ onDisk[CurrentGen(i)] \in 0..Len(wal[CurrentGen(i)])
  BY <1>1, WalType
<1> QED
  BY <1>2, RecoveredType DEF AtLeast, AtMost

\* What recovery gives depends on the log of the image's own generation, and
\* only if the image has that log.
LEMMA RecoversAlike ==
  ASSUME NEW i,
         CurrentGen(i) \in i.logs =>
           /\ wal'[CurrentGen(i)] = wal[CurrentGen(i)]
           /\ onDisk'[CurrentGen(i)] = onDisk[CurrentGen(i)]
  PROVE  AtLeast(i)' = AtLeast(i) /\ AtMost(i)' = AtMost(i)
BY DEF AtLeast, AtMost, Recovered, CurrentGen, Base

-----------------------------------------------------------------------------
(***************************************************************************)
(* Changes of directories.                                                 *)
(***************************************************************************)

LEMMA ChangeHolds ==
  ASSUME TypeOK, NEW i \in Image, Change(i)
  PROVE  /\ images' \in Seq(Image) /\ Len(images') > 0
         /\ Now' = i
         /\ Held' \subseteq Held \cup {i}
<1>1. /\ images \in Seq(Image) /\ Len(images) \in Nat /\ Len(images) > 0
      /\ DOMAIN images = 1..Len(images)
  BY LenProperties DEF TypeOK
<1>2. CASE i = Now
  BY <1>1, <1>2 DEF Change, Now, Held
<1>3. ASSUME NEW s \in Seq(Image), images' = Append(s, i),
             \A n \in 1..Len(s) : s[n] \in Held
      PROVE  /\ images' \in Seq(Image) /\ Len(images') > 0
             /\ Now' = i
             /\ Held' \subseteq Held \cup {i}
  <2>1. /\ images' \in Seq(Image) /\ Len(images') = Len(s) + 1
        /\ \A n \in 1..Len(s) : images'[n] = s[n]
        /\ images'[Len(s) + 1] = i
    BY <1>3, AppendProperties
  <2>2. Len(s) \in Nat /\ DOMAIN images' = 1..Len(images')
    BY <2>1, LenProperties
  <2>3. Len(images') > 0 /\ Now' = i
    BY <2>1, <2>2 DEF Now
  <2>4. \A n \in DOMAIN images' : images'[n] \in Held \cup {i}
    BY <1>3, <2>1, <2>2
  <2> QED
    BY <2>1, <2>3, <2>4 DEF Held
<1>4. CASE i # Now /\ Len(images) < MaxPending
  <2>1. \A n \in 1..Len(images) : images[n] \in Held
    BY <1>1 DEF Held
  <2> QED
    BY <1>1, <1>3, <1>4, <2>1 DEF Change
<1>5. CASE i # Now /\ ~ Len(images) < MaxPending
  <2>1. images # <<>>
    BY <1>1, EmptySeq
  <2>2. /\ Tail(images) \in Seq(Image) /\ Len(Tail(images)) = Len(images) - 1
        /\ \A n \in 1..Len(Tail(images)) : Tail(images)[n] = images[n + 1]
    BY <1>1, <2>1, HeadTailProperties
  <2>3. \A n \in 1..Len(Tail(images)) : Tail(images)[n] \in Held
    BY <1>1, <2>2 DEF Held
  <2> QED
    BY <1>3, <1>5, <2>2, <2>3 DEF Change
<1> QED
  BY <1>2, <1>4, <1>5

LEMMA SingleHeld ==
  ASSUME NEW i \in Image, images' = <<i>>
  PROVE  /\ images' \in Seq(Image) /\ Len(images') > 0
         /\ Now' = i
         /\ Held' = {i}
BY DEF Now, Held

-----------------------------------------------------------------------------
(***************************************************************************)
(* Every variable keeps its type.                                          *)
(***************************************************************************)

ControlType ==
  /\ pc \in {"closed", "idle", "ckSnapshot", "ckSnapSync", "ckManifest",
             "ckManSync", "ckReset", "cleanWal", "cleanSnap"}
  /\ caller \in {"none", "open", "write", "close"}
  /\ err \in BOOLEAN

LogType ==
  /\ wal \in [Gen -> Seq(Record)]
  /\ onDisk \in [Gen -> Nat] /\ \A g \in Gen : onDisk[g] <= Len(wal[g])

ImagesType == images \in Seq(Image) /\ Len(images) > 0

RestType ==
  /\ gen \in Gen
  /\ served \in Seq(Record) /\ safe \in Seq(Record)
  /\ astray \in BOOLEAN
  /\ writes \in 0..MaxWrites /\ crashes \in 0..MaxCrash

LEMMA TypeParts ==
  /\ TypeOK <=> ControlType /\ LogType /\ ImagesType /\ RestType
  /\ TypeOK' <=> ControlType' /\ LogType' /\ ImagesType' /\ RestType'
BY DEF TypeOK, ControlType, LogType, ImagesType, RestType

LEMMA FinishTyped ==
  ASSUME TypeOK, NEW failed \in BOOLEAN, Finish(failed), wal' = wal
  PROVE  ControlType' /\ LogType'
<1>1. ControlType'
  BY DEF Finish, ControlType
<1>2. LogType'
  <2>1. CASE caller = "close"
    <3>1. PICK n \in onDisk[gen]..Len(wal[gen]) : onDisk' = [onDisk EXCEPT ![gen] = n]
      BY <2>1 DEF Finish
    <3>2. gen \in Gen
      BY DEF TypeOK
    <3>3. n \in Nat /\ n <= Len(wal[gen])
      BY <3>1, <3>2, WalType
    <3> QED
      BY <3>1, <3>2, <3>3 DEF TypeOK, LogType
  <2>2. CASE caller # "close"
    BY <2>2 DEF Finish, TypeOK, LogType
  <2> QED
    BY <2>1, <2>2
<1> QED
  BY <1>1, <1>2

LEMMA OpenWalTyped ==
  ASSUME TypeOK, NEW g \in Gen, OpenWal(g)
  PROVE  LogType' /\ ImagesType'
<1>1. [Now EXCEPT !.logs = @ \cup {g}] \in Image
  BY HeldType, ImageType DEF Image
<1>2. ImagesType'
  BY <1>1, ChangeHolds DEF OpenWal, ImagesType
<1>3. LogType'
  BY EmptySeq DEF OpenWal, LogType, TypeOK
<1> QED
  BY <1>2, <1>3

LEMMA ChangeTyped ==
  ASSUME TypeOK, NEW i \in Image, Change(i) PROVE ImagesType'
BY ChangeHolds DEF ImagesType

LEMMA SyncTyped == ASSUME TypeOK, Ordered, SyncDir PROVE ImagesType'
BY HeldType, SingleHeld DEF SyncDir, ImagesType

\* Open finds a snapshot, so that what it serves are writes.
LEMMA OpenTyped == ASSUME DiskInv, Open PROVE TypeOK'
<1>1. TypeOK /\ Now \in Image /\ CurrentGen(Now) \in Gen /\ Opens(Now)
  BY HeldType, ImageType DEF DiskInv, Open
<1>2. LogType' /\ ImagesType'
  BY <1>1, OpenWalTyped DEF Open
<1>3. served' \in Seq(Record)
  BY <1>1, BoundsType DEF Open
<1>4. ControlType' /\ RestType'
  BY <1>1, <1>3 DEF Open, aux, counts, TypeOK, ControlType, RestType
<1> QED
  BY <1>2, <1>4, TypeParts

LEMMA AppendTyped == ASSUME DiskInv, AppendRecord PROVE TypeOK'
<1>1. TypeOK /\ gen \in Gen /\ writes + 1 \in Record
      /\ writes + 1 \in 0..MaxWrites
  BY DiskAssumption DEF DiskInv, TypeOK, AppendRecord, Record
<1>2. /\ wal[gen] \in Seq(Record) /\ Len(wal[gen]) \in Nat
      /\ onDisk[gen] <= Len(wal[gen]) /\ onDisk[gen] \in Nat
  BY <1>1, WalType DEF TypeOK
<1> DEFINE w == Append(wal[gen], writes + 1)
<1>3. w \in Seq(Record) /\ Len(w) = Len(wal[gen]) + 1
  BY <1>1, <1>2, AppendProperties
<1>4. served' \in Seq(Record)
  BY <1>1, AppendProperties DEF AppendRecord, TypeOK
<1>5. wal' = [wal EXCEPT ![gen] = w] /\ onDisk' = onDisk
  BY DEF AppendRecord
<1> HIDE DEF w
<1>6. LogType'
  BY <1>1, <1>2, <1>3, <1>5 DEF TypeOK, LogType
<1>7. ControlType' /\ ImagesType' /\ RestType'
  BY <1>1, <1>4 DEF AppendRecord, locals, TypeOK, ControlType, ImagesType, RestType
<1> QED
  BY <1>6, <1>7, TypeParts

LEMMA MachineCrashTyped == ASSUME DiskInv, Ordered, MachineCrash PROVE TypeOK'
<1>1. PICK i \in Held :
        /\ images' = <<i>>
        /\ \E n \in onDisk[CurrentGen(i)]..Len(wal[CurrentGen(i)]) :
             /\ served' = Recovered(i, n)
             /\ wal' = [g \in Gen |-> IF g = CurrentGen(i) /\ g \in i.logs
                                      THEN SubSeq(wal[g], 1, n)
                                      ELSE <<>>]
  BY DEF MachineCrash, CrashImages, Held
<1>2. PICK n \in onDisk[CurrentGen(i)]..Len(wal[CurrentGen(i)]) :
             /\ served' = Recovered(i, n)
             /\ wal' = [g \in Gen |-> IF g = CurrentGen(i) /\ g \in i.logs
                                      THEN SubSeq(wal[g], 1, n)
                                      ELSE <<>>]
  BY <1>1
<1>3. TypeOK /\ i \in Image /\ CurrentGen(i) \in Gen /\ Opens(i)
  BY <1>1, HeldType, ImageType DEF DiskInv, ImagesOK, ImageOK
<1>4. wal[CurrentGen(i)] \in Seq(Record) /\ n \in 0..Len(wal[CurrentGen(i)])
  BY <1>2, <1>3, WalType
<1>5. served' \in Seq(Record)
  BY <1>2, <1>3, <1>4, RecoveredType
<1>6. wal' \in [Gen -> Seq(Record)]
  BY <1>2, <1>4, FirstIs, EmptySeq
<1>7. LogType'
  <2>1. onDisk' = [g \in Gen |-> Len(wal'[g])]
    BY DEF MachineCrash
  <2>2. \A g \in Gen : Len(wal'[g]) \in Nat
    BY <1>6, LenProperties
  <2> QED
    BY <1>6, <2>1, <2>2 DEF LogType
<1>8. ImagesType'
  BY <1>1, <1>3, SingleHeld DEF ImagesType
<1>9. ControlType' /\ RestType'
  <2>1. /\ crashes < MaxCrash /\ crashes' = crashes + 1
        /\ safe' = served' /\ astray' = FALSE
        /\ pc' = "closed" /\ caller' = "none" /\ err' = FALSE
        /\ gen' = gen /\ writes' = writes
    BY DEF MachineCrash
  <2>2. crashes' \in 0..MaxCrash
    BY <1>3, <2>1, DiskAssumption DEF TypeOK
  <2> QED
    BY <1>3, <1>5, <2>1, <2>2 DEF TypeOK, ControlType, RestType
<1> QED
  BY <1>7, <1>8, <1>9, TypeParts

LEMMA TypeNext == ASSUME DiskInv, Ordered, [Next]_vars PROVE TypeOK'
<1>1. /\ TypeOK /\ Now \in Image /\ gen \in Gen
      /\ ControlType /\ LogType /\ ImagesType /\ RestType
  BY HeldType, TypeParts DEF DiskInv, RestType
<1>2. ASSUME NEW i \in Image, Change(i), UNCHANGED <<wal, onDisk, memory, aux, counts>>,
             ControlType'
      PROVE  TypeOK'
  <2>1. ImagesType'
    BY <1>1, <1>2, ChangeTyped
  <2>2. LogType' /\ RestType'
    BY <1>1, <1>2 DEF LogType, RestType, memory, aux, counts
  <2> QED
    BY <1>2, <2>1, <2>2, TypeParts
<1>3. ASSUME NEW failed \in BOOLEAN, Finish(failed),
             UNCHANGED <<images, wal, memory, aux, counts>>
      PROVE  TypeOK'
  <2>1. ControlType' /\ LogType'
    BY <1>1, <1>3, FinishTyped
  <2>2. ImagesType' /\ RestType'
    BY <1>1, <1>3 DEF ImagesType, RestType, memory, aux, counts
  <2> QED
    BY <2>1, <2>2, TypeParts
<1>4. ASSUME UNCHANGED <<files, memory, aux, counts>>, ControlType'
      PROVE  TypeOK'
  <2>1. ImagesType' /\ LogType' /\ RestType'
    BY <1>1, <1>4 DEF ImagesType, LogType, RestType, files, memory, aux, counts
  <2> QED
    BY <1>4, <2>1, TypeParts
<1>5. CASE Open
  BY <1>5, OpenTyped
<1>6. CASE AppendRecord
  BY <1>6, AppendTyped
<1>7. CASE Close
  BY <1>1, <1>4, <1>7 DEF Close, ControlType
<1>8. CASE WriteSnapshot
  <2>1. [Now EXCEPT !.snap[gen + 1] = served] \in Image
    BY <1>1, ImageType DEF Image, RestType, Gen
  <2> QED
    BY <1>1, <1>2, <1>8, <2>1 DEF WriteSnapshot, PublishSnapshot, Collect, ControlType
<1>9. CASE SnapshotFails \/ ManifestFails \/ ManifestSyncFails
  BY <1>3, <1>9 DEF SnapshotFails, ManifestFails, ManifestSyncFails
<1>10. CASE SyncSnapshot
  <2>1. ImagesType'
    BY <1>1, <1>10, SyncTyped DEF SyncSnapshot
  <2>2. ControlType' /\ LogType' /\ RestType'
    BY <1>1, <1>10 DEF SyncSnapshot, ControlType, LogType, RestType, memory, aux, counts
  <2> QED
    BY <2>1, <2>2, TypeParts
<1>11. CASE SyncManifest
  <2>1. ImagesType'
    BY <1>1, <1>11, SyncTyped DEF SyncManifest
  <2>2. ControlType' /\ LogType' /\ RestType'
    BY <1>1, <1>11 DEF SyncManifest, ControlType, LogType, RestType, memory, counts
  <2> QED
    BY <2>1, <2>2, TypeParts
<1>12. CASE WriteManifest
  <2>1. gen < MaxGen
    BY <1>12 DEF DiskInv, ProcessOK, WriteManifest
  <2>2. [Now EXCEPT !.man = gen + 1] \in Image
    <3>1. gen + 1 \in 0..MaxGen
      BY <1>1, <2>1, DiskAssumption DEF Gen
    <3>2. Now \in Image
      BY <1>1
    <3> QED
      BY <3>1, <3>2 DEF Image
  <2> QED
    BY <1>1, <1>2, <1>12, <2>2 DEF WriteManifest, ControlType
<1>13. CASE ResetToSnapshot
  <2>1. gen < MaxGen
    BY <1>13 DEF DiskInv, ProcessOK, ResetToSnapshot
  <2>2. gen + 1 \in Gen
    BY <1>1, <2>1, DiskAssumption DEF Gen
  <2>3. LogType' /\ ImagesType'
    BY <1>1, <1>13, <2>2, OpenWalTyped DEF ResetToSnapshot
  <2>4. ControlType' /\ RestType'
    BY <1>1, <1>13, <2>2 DEF ResetToSnapshot, ControlType, RestType, aux, counts
  <2> QED
    BY <2>3, <2>4, TypeParts
<1>14. CASE RemoveWal
  <2>1. PICK g \in Now.logs \ {gen} : Change([Now EXCEPT !.logs = @ \ {g}])
    BY <1>14 DEF RemoveWal
  <2>2. [Now EXCEPT !.logs = @ \ {g}] \in Image
    BY <1>1, ImageType DEF Image
  <2> QED
    BY <1>1, <1>2, <1>14, <2>1, <2>2 DEF RemoveWal, ControlType, locals
<1>15. CASE RemoveSnapshot
  <2>1. PICK g \in OldSnapshots : Change([Now EXCEPT !.snap[g] = NoFile])
    BY <1>15 DEF RemoveSnapshot
  <2>2. [Now EXCEPT !.snap[g] = NoFile] \in Image
    BY <1>1, <2>1, ImageType DEF Image, OldSnapshots
  <2> QED
    BY <1>1, <1>2, <1>15, <2>1, <2>2 DEF RemoveSnapshot, ControlType, locals
<1>16. CASE WalRemoved
  BY <1>1, <1>4, <1>16 DEF WalRemoved, ControlType
<1>17. CASE SnapshotsRemoved
  BY <1>1, <1>3, <1>17 DEF SnapshotsRemoved, ControlType
<1>18. CASE Crash
  BY <1>1, <1>4, <1>18 DEF Crash, ControlType
<1>19. CASE MachineCrash
  BY <1>19, MachineCrashTyped
<1>20. CASE UNCHANGED vars
  BY <1>1, <1>4, <1>20 DEF vars, ControlType, locals
<1> QED
  BY <1>5, <1>6, <1>7, <1>8, <1>9, <1>10, <1>11, <1>12, <1>13, <1>14, <1>15, <1>16,
     <1>17, <1>18, <1>19, <1>20 DEF Next

-----------------------------------------------------------------------------
(***************************************************************************)
(* The images keep what they promise.  Each lemma is about one kind of     *)
(* step; the logs a step changes are those of one generation.              *)
(***************************************************************************)

\* A step that leaves the logs and what is served alone and changes the
\* directories to j, which is as good as the image before it.
LEMMA ChangeKeeps ==
  ASSUME DiskInv, NEW j \in Image, Change(j),
         UNCHANGED <<wal, onDisk, served, aux>>,
         ImageOK(j), CurrentGen(Now) <= CurrentGen(j),
         ~astray => AtMost(j) = served,
         \A i \in Held : CurrentGen(i) = CurrentGen(j) =>
           /\ CurrentGen(i) \in i.logs => CurrentGen(i) \in j.logs
           /\ ~astray => Base(i) = Base(j)
  PROVE  ImagesOK' /\ ServedOK' /\ Now' = j
<1>1. TypeOK /\ Now \in Held /\ Now' = j /\ Held' \subseteq Held \cup {j}
  BY HeldType, ChangeHolds DEF DiskInv
<1>2. \A i : AtLeast(i)' = AtLeast(i) /\ AtMost(i)' = AtMost(i)
  BY RecoversAlike
<1>3. /\ safe' = safe /\ served' = served /\ astray' = astray
      /\ served \in Seq(Record)
  BY <1>1 DEF aux, TypeOK
<1>4. ServedOK'
  BY <1>1, <1>2, <1>3 DEF ServedOK, DiskInv, Prefix
<1>5. ASSUME NEW i \in Held \cup {j} PROVE ImageOK(i)' /\ BesideNow(i)'
  <2>1. ImageOK(i)
    BY <1>5 DEF DiskInv, ImagesOK
  <2>2. ImageOK(i)'
    BY <1>2, <1>3, <2>1 DEF ImageOK, Opens, CurrentGen, Prefix
  <2>3. ASSUME i = j PROVE BesideNow(i)'
    <3>1. CurrentGen(j) \in Nat
      BY ImageType DEF Gen
    <3> QED
      BY <1>1, <1>2, <1>3, <2>3, <3>1, PrefixRefl DEF BesideNow, CurrentGen, Base, Prefix
  <2>4. ASSUME i \in Held PROVE BesideNow(i)'
    <3>1. BesideNow(i) /\ i \in Image /\ CurrentGen(i) \in Nat
      BY <1>1, <2>4, HeldType, ImageType DEF DiskInv, ImagesOK, Gen
    <3>2. CurrentGen(Now) \in Nat /\ CurrentGen(j) \in Nat
      BY <1>1, HeldType, ImageType DEF Gen
    <3>3. CurrentGen(i) <= CurrentGen(j)
      BY <3>1, <3>2 DEF BesideNow
    <3> QED
      BY <1>1, <1>2, <1>3, <2>4, <3>1, <3>3 DEF BesideNow, CurrentGen, Base, Prefix
  <2> QED
    BY <2>2, <2>3, <2>4
<1> QED
  BY <1>1, <1>4, <1>5 DEF ImagesOK

\* A step that leaves the images alone: what the logs and `served` do to them
\* is what matters.
LEMMA StayKeeps ==
  ASSUME DiskInv, UNCHANGED <<images, wal, served, aux>>, TypeOK',
         \A g \in Gen : onDisk[g] <= onDisk'[g]
  PROVE  ImagesOK' /\ ServedOK' /\ Now' = Now
<1>1. TypeOK /\ Now' = Now /\ Held' = Held /\ \A i \in Held : i \in Image
  BY HeldType DEF DiskInv, Now, Held
<1>2. \A i : AtMost(i)' = AtMost(i)
  BY DEF AtMost, Recovered, CurrentGen, Base
<1>3. /\ safe' = safe /\ served' = served /\ astray' = astray
      /\ safe \in Seq(Record)
  BY <1>1 DEF aux, TypeOK
<1>4. ServedOK'
  BY <1>1, <1>2, <1>3 DEF ServedOK, DiskInv, Prefix
<1>5. ASSUME NEW i \in Held PROVE ImageOK(i)' /\ BesideNow(i)'
  <2>1. ImageOK(i) /\ BesideNow(i) /\ i \in Image
    BY <1>1 DEF DiskInv, ImagesOK
  <2>2. BesideNow(i)'
    BY <1>1, <1>2, <1>3, <2>1 DEF BesideNow, CurrentGen, Base, Prefix
  <2>3. Prefix(AtLeast(i), AtLeast(i)')
    <3> DEFINE g == CurrentGen(i)
    <3>1. g \in Gen /\ Opens(i)
      BY <2>1, ImageType DEF ImageOK
    <3>2. onDisk'[g] \in 0..Len(wal[g]) /\ onDisk[g] \in 0..onDisk'[g]
      BY <1>1, <3>1, LenProperties DEF TypeOK
    <3>3. Prefix(Recovered(i, onDisk[g]), Recovered(i, onDisk'[g]))
      BY <1>1, <2>1, <3>1, <3>2, RecoveredType
    <3>4. AtLeast(i) = Recovered(i, onDisk[g]) /\ AtLeast(i)' = Recovered(i, onDisk'[g])
      BY DEF AtLeast, Recovered, CurrentGen, Base
    <3> QED
      BY <3>3, <3>4
  <2>4. AtLeast(i) \in Seq(Record) /\ AtLeast(i)' \in Seq(Record)
    <3>1. CurrentGen(i) \in Gen /\ Opens(i)
      BY <2>1, ImageType DEF ImageOK
    <3>2. onDisk'[CurrentGen(i)] \in 0..Len(wal[CurrentGen(i)])
      BY <1>1, <3>1, LenProperties DEF TypeOK
    <3>3. Recovered(i, onDisk'[CurrentGen(i)]) \in Seq(Record)
      BY <1>1, <2>1, <3>1, <3>2, RecoveredType
    <3>4. AtLeast(i)' = Recovered(i, onDisk'[CurrentGen(i)])
      BY DEF AtLeast, Recovered, CurrentGen, Base
    <3> QED
      BY <1>1, <2>1, <3>1, <3>3, <3>4, BoundsType
  <2>5. Prefix(safe, AtLeast(i)')
    BY <1>3, <2>1, <2>3, <2>4, PrefixTrans DEF ImageOK
  <2>6. ImageOK(i)'
    BY <1>3, <2>1, <2>5 DEF ImageOK, Opens, CurrentGen, Prefix
  <2> QED
    BY <2>2, <2>6
<1> QED
  BY <1>1, <1>4, <1>5 DEF ImagesOK

\* A sync leaves the last image alone.
LEMMA SyncKeeps ==
  ASSUME DiskInv, Ordered, SyncDir, UNCHANGED <<wal, onDisk, served, astray>>,
         safe' = safe \/ (safe' = served /\ Prefix(served, AtLeast(Now)))
  PROVE  ImagesOK' /\ ServedOK' /\ Now' = Now
<1>1. TypeOK /\ Now \in Held /\ Now \in Image
  BY HeldType DEF DiskInv
<1>2. Now' = Now /\ Held' = {Now}
  BY <1>1, SingleHeld DEF SyncDir
<1>3. \A i : AtLeast(i)' = AtLeast(i) /\ AtMost(i)' = AtMost(i)
  BY RecoversAlike
<1>4. ImageOK(Now) /\ BesideNow(Now) /\ ServedOK /\ served \in Seq(Record)
  BY <1>1 DEF DiskInv, ImagesOK, TypeOK
<1>5. Prefix(safe', AtLeast(Now)) /\ Prefix(safe', served)
  BY <1>4, PrefixRefl DEF ImageOK, ServedOK
<1>6. ImageOK(Now)'
  BY <1>2, <1>3, <1>4, <1>5 DEF ImageOK, Opens, CurrentGen, Prefix
<1>7. BesideNow(Now)'
  BY <1>2, <1>3, <1>4 DEF BesideNow, Opens, CurrentGen, Base, Prefix
<1>8. ServedOK'
  BY <1>2, <1>3, <1>4, <1>5 DEF ServedOK, Prefix
<1> QED
  BY <1>2, <1>6, <1>7, <1>8 DEF ImagesOK

\* The log of the generation MANIFEST names is opened.  If it is created, no
\* image of that generation has it, so that emptying it changes nothing.
LEMMA OpenWalKeeps ==
  ASSUME DiskInv, OpenWal(CurrentGen(Now)), UNCHANGED aux,
         served' \in {served, AtMost(Now)}
  PROVE  /\ ImagesOK' /\ ServedOK'
         /\ Now' = [Now EXCEPT !.logs = @ \cup {CurrentGen(Now)}]
<1>g. PICK g : g = CurrentGen(Now)
  OBVIOUS
<1>j. PICK j : j = [Now EXCEPT !.logs = @ \cup {g}]
  OBVIOUS
<1>1. /\ TypeOK /\ Now \in Held /\ Now \in Image /\ g \in Gen /\ g \in Nat
      /\ \A i \in Held : i \in Image /\ ImageOK(i) /\ BesideNow(i)
      /\ served \in Seq(Record) /\ safe \in Seq(Record) /\ safe' = safe /\ astray' = astray
  <2>1. TypeOK /\ Now \in Held /\ Now \in Image /\ \A i \in Held : i \in Image
    BY HeldType DEF DiskInv
  <2>2. g \in Gen /\ g \in Nat
    BY <1>g, <2>1, ImageType DEF Gen
  <2>3. \A i \in Held : ImageOK(i) /\ BesideNow(i)
    BY DEF DiskInv, ImagesOK
  <2> QED
    BY <2>1, <2>2, <2>3 DEF TypeOK, aux
<1>2. /\ j \in Image /\ j.man = Now.man /\ j.snap = Now.snap
      /\ j.logs = Now.logs \cup {g}
  BY <1>1, <1>j, ImageType DEF Image
<1>3. CurrentGen(j) = g /\ Base(j) = Base(Now) /\ Opens(j)
  BY <1>1, <1>2, <1>g DEF CurrentGen, Base, Opens, ImageOK
<1>4. Now' = j /\ Held' \subseteq Held \cup {j}
  BY <1>1, <1>2, <1>g, <1>j, ChangeHolds DEF OpenWal
<1>5. /\ wal' = IF g \in Now.logs THEN wal ELSE [wal EXCEPT ![g] = <<>>]
      /\ onDisk' = IF g \in Now.logs THEN onDisk ELSE [onDisk EXCEPT ![g] = 0]
      /\ wal \in [Gen -> Seq(Record)] /\ onDisk \in [Gen -> Nat]
  BY <1>1, <1>g DEF OpenWal, TypeOK
<1>6. \A i \in Held : AtLeast(i)' = AtLeast(i) /\ AtMost(i)' = AtMost(i)
  <2> TAKE i \in Held
  <2>1. CurrentGen(i) \in Gen
    BY <1>1, ImageType
  <2>2. CurrentGen(i) \in i.logs /\ CurrentGen(i) = g => g \in Now.logs
    BY <1>1, <1>g DEF BesideNow
  <2>3. CurrentGen(i) \in i.logs =>
          /\ wal'[CurrentGen(i)] = wal[CurrentGen(i)]
          /\ onDisk'[CurrentGen(i)] = onDisk[CurrentGen(i)]
    BY <1>5, <2>1, <2>2
  <2> QED
    BY <2>3, RecoversAlike
<1>7. AtLeast(j)' = AtLeast(Now) /\ AtMost(j)' = AtMost(Now)
  <2>1. CASE g \in Now.logs
    <3>1. j = Now
      BY <1>1, <1>2, <2>1, ImageType
    <3>2. AtLeast(j)' = AtLeast(j) /\ AtMost(j)' = AtMost(j)
      BY <1>1, <1>6, <3>1
    <3> QED
      BY <3>1, <3>2
  <2>2. CASE g \notin Now.logs
    <3>1. wal'[g] = <<>> /\ onDisk'[g] = 0
      BY <1>1, <1>5, <2>2
    <3>2. Base(j) \in Seq(Record)
      BY <1>2, <1>3, ImageType
    <3>3. SubSeq(<<>>, 1, 0) = <<>> /\ Base(j) \o <<>> = Base(j) /\ Len(<<>>) = 0
      BY <3>2, SubSeqEmpty, ConcatEmptySeq, EmptySeq
    <3>4. AtLeast(j)' = Base(j) \o SubSeq(wal'[g], 1, onDisk'[g])
      BY <1>2, <1>3 DEF AtLeast, Recovered, CurrentGen, Base
    <3>5. AtMost(j)' = Base(j) \o SubSeq(wal'[g], 1, Len(wal'[g]))
      BY <1>2, <1>3 DEF AtMost, Recovered, CurrentGen, Base
    <3>6. AtLeast(Now) = Base(Now) /\ AtMost(Now) = Base(Now)
      BY <1>g, <2>2 DEF AtLeast, AtMost, Recovered
    <3> QED
      BY <1>3, <3>1, <3>3, <3>4, <3>5, <3>6
  <2> QED
    BY <2>1, <2>2
<1>8. /\ AtMost(Now) \in Seq(Record) /\ Prefix(safe, AtMost(Now))
      /\ ~astray => AtMost(Now) = served
  <2>1. /\ AtLeast(Now) \in Seq(Record) /\ AtMost(Now) \in Seq(Record)
        /\ Prefix(AtLeast(Now), AtMost(Now))
    BY <1>1, BoundsType DEF ImageOK
  <2> QED
    BY <1>1, <2>1, PrefixTrans DEF ImageOK, DiskInv, ServedOK
<1>9. /\ Prefix(safe, served') /\ (~astray => served' = served)
      /\ (~astray => AtMost(Now) = served')
  BY <1>8 DEF DiskInv, ServedOK
<1>10. ServedOK'
  BY <1>1, <1>4, <1>7, <1>9 DEF ServedOK, Prefix
<1>11. ASSUME NEW i \in Held \cup {j} PROVE ImageOK(i)' /\ BesideNow(i)'
  <2>1. CASE i = j
    <3>1. \A h \in j.logs : h <= CurrentGen(j)
      BY <1>1, <1>2, <1>3, <1>g DEF ImageOK
    <3>2. j.man # 1 /\ Prefix(safe, AtLeast(Now))
      BY <1>1, <1>2 DEF ImageOK
    <3>3. ImageOK(j)'
      BY <1>1, <1>3, <1>7, <3>1, <3>2 DEF ImageOK, Opens, CurrentGen, Prefix
    <3>4. Prefix(AtMost(Now), AtMost(Now))
      BY <1>8, PrefixRefl
    <3>5. BesideNow(j)'
      BY <1>1, <1>3, <1>4, <1>7, <1>9, <3>4 DEF BesideNow, CurrentGen, Base, Prefix
    <3> QED
      BY <2>1, <3>3, <3>5
  <2>2. CASE i \in Held
    <3>1. ImageOK(i) /\ BesideNow(i)
      BY <1>1, <2>2
    <3>2. ImageOK(i)'
      BY <1>1, <1>6, <2>2, <3>1 DEF ImageOK, Opens, CurrentGen, Prefix
    <3>3. CurrentGen(i) \in i.logs /\ CurrentGen(i) = g => g \in j.logs
      BY <1>2
    <3>4. BesideNow(i)'
      BY <1>1, <1>g, <1>3, <1>4, <1>6, <1>9, <2>2, <3>1, <3>3
         DEF BesideNow, CurrentGen, Base, Prefix
    <3> QED
      BY <3>2, <3>4
  <2> QED
    BY <2>1, <2>2
<1> QED
  BY <1>4, <1>10, <1>11, <1>g, <1>j DEF ImagesOK

\* An append reaches every image that shares the generation and its log, or, of
\* a process MANIFEST has left behind, none whose prefix still counts.
LEMMA AppendKeeps ==
  ASSUME DiskInv, AppendRecord
  PROVE  ImagesOK' /\ ServedOK' /\ Now' = Now
<1>e. PICK e : e = writes + 1
  OBVIOUS
<1>1. /\ TypeOK /\ Now' = Now /\ Held' = Held /\ Now \in Held
      /\ \A i \in Held : i \in Image /\ ImageOK(i) /\ BesideNow(i)
      /\ safe' = safe /\ safe \in Seq(Record) /\ served \in Seq(Record)
      /\ gen \in Gen /\ gen \in Now.logs
  BY HeldType DEF DiskInv, ImagesOK, TypeOK, AppendRecord, Now, Held, ProcessOK
<1>2. /\ e \in Record
      /\ served' = Append(served, e) /\ wal' = [wal EXCEPT ![gen] = Append(@, e)]
      /\ onDisk' = onDisk /\ (~astray' => ~astray /\ CurrentGen(Now) = gen)
  <2>1. e \in Record
    BY <1>1, <1>e, DiskAssumption DEF AppendRecord, Record, TypeOK
  <2>2. astray \in BOOLEAN
    BY <1>1 DEF TypeOK
  <2> QED
    BY <1>e, <2>1, <2>2 DEF AppendRecord
<1>3. /\ wal \in [Gen -> Seq(Record)] /\ wal[gen] \in Seq(Record)
      /\ wal'[gen] = Append(wal[gen], e) /\ wal'[gen] \in Seq(Record)
      /\ Prefix(wal[gen], wal'[gen])
      /\ \A h \in Gen \ {gen} : wal'[h] = wal[h]
  BY <1>1, <1>2, PrefixOfAppend DEF TypeOK
<1>4. /\ served' \in Seq(Record) /\ Prefix(served, served')
      /\ Prefix(safe, served')
  <2>1. served' \in Seq(Record) /\ Prefix(served, served')
    BY <1>1, <1>2, PrefixOfAppend
  <2> QED
    BY <1>1, <2>1, PrefixTrans DEF DiskInv, ServedOK
<1>5. \A i \in Held : AtLeast(i)' = AtLeast(i)
  <2> TAKE i \in Held
  <2>1. CurrentGen(i) \in Gen
    BY <1>1, ImageType
  <2>2. CASE CurrentGen(i) # gen
    BY <1>2, <1>3, <2>1, <2>2 DEF AtLeast, Recovered, CurrentGen, Base
  <2>3. CASE CurrentGen(i) = gen
    <3>n. PICK n : n = onDisk[gen]
      OBVIOUS
    <3>1. /\ n \in 0..Len(wal[gen]) /\ Len(wal[gen]) \in Nat
          /\ Len(wal'[gen]) = Len(wal[gen]) + 1
      BY <1>1, <1>2, <1>3, <3>n, WalType, AppendProperties
    <3>2. n \in 0..Len(wal'[gen])
      BY <3>1
    <3>3. \A m \in 1..Len(wal[gen]) : wal'[gen][m] = wal[gen][m]
      BY <1>3, PrefixIs
    <3>4. /\ SubSeq(wal[gen], 1, n) \in Seq(Record) /\ Len(SubSeq(wal[gen], 1, n)) = n
          /\ \A m \in 1..n : SubSeq(wal[gen], 1, n)[m] = wal[gen][m]
      BY <1>3, <3>1, FirstIs
    <3>5. /\ SubSeq(wal'[gen], 1, n) \in Seq(Record) /\ Len(SubSeq(wal'[gen], 1, n)) = n
          /\ \A m \in 1..n : SubSeq(wal'[gen], 1, n)[m] = wal'[gen][m]
      BY <1>3, <3>2, FirstIs
    <3>6. \A m \in 1..n : wal'[gen][m] = wal[gen][m]
      BY <3>1, <3>3
    <3> DEFINE a == SubSeq(wal[gen], 1, n)
               b == SubSeq(wal'[gen], 1, n)
    <3>7. /\ a \in Seq(Record) /\ b \in Seq(Record) /\ Len(a) = Len(b)
          /\ \A m \in 1..Len(a) : a[m] = b[m]
      BY <3>4, <3>5, <3>6
    <3> HIDE DEF a, b
    <3>8. a = b
      BY <3>7, SeqEqual
    <3>9. SubSeq(wal'[gen], 1, n) = SubSeq(wal[gen], 1, n)
      BY <3>8 DEF a, b
    <3>10. AtLeast(i) = IF gen \in i.logs THEN Base(i) \o SubSeq(wal[gen], 1, n)
                                          ELSE Base(i)
      BY <2>3, <3>n DEF AtLeast, Recovered
    <3>11. onDisk' = onDisk
      BY <1>2
    <3>12. AtLeast(i)' = IF gen \in i.logs THEN Base(i) \o SubSeq(wal'[gen], 1, n)
                                           ELSE Base(i)
      BY <2>3, <3>n, <3>11 DEF AtLeast, Recovered, CurrentGen, Base
    <3> QED
      BY <3>9, <3>10, <3>12
  <2> QED
    BY <2>2, <2>3
<1>6. ASSUME NEW i \in Held, CurrentGen(i) # gen \/ gen \notin i.logs
      PROVE  AtMost(i)' = AtMost(i)
  <2>1. CurrentGen(i) \in Gen
    BY <1>1, ImageType
  <2> QED
    BY <1>3, <1>6, <2>1 DEF AtMost, Recovered, CurrentGen, Base
<1>7. ASSUME NEW i \in Held, CurrentGen(i) = gen, gen \in i.logs
      PROVE  AtMost(i)' = Append(AtMost(i), e)
  <2>1. Base(i) \in Seq(Record)
    BY <1>1, <1>7, ImageType DEF ImageOK
  <2>2. AtMost(i) = Base(i) \o wal[gen]
    BY <1>3, <1>7, FirstAll DEF AtMost, Recovered
  <2>3. AtMost(i)' = Base(i) \o wal'[gen]
    BY <1>3, <1>7, FirstAll DEF AtMost, Recovered, CurrentGen, Base
  <2> QED
    BY <1>2, <1>3, <2>1, <2>2, <2>3, ConcatOfAppend
<1>8. ~astray' => AtMost(Now)' = served'
  BY <1>1, <1>2, <1>7 DEF DiskInv, ServedOK
<1>9. ServedOK'
  BY <1>1, <1>4, <1>8 DEF ServedOK, Prefix
<1>10. ASSUME NEW i \in Held PROVE ImageOK(i)' /\ BesideNow(i)'
  <2>1. ImageOK(i) /\ BesideNow(i) /\ i \in Image
    BY <1>1
  <2>2. ImageOK(i)'
    BY <1>1, <1>5, <2>1 DEF ImageOK, Opens, CurrentGen, Prefix
  <2>3. ASSUME ~astray' PROVE Prefix(AtMost(i)', served')
    <3>1. CASE CurrentGen(i) # gen \/ gen \notin i.logs
      <4>1. AtMost(i) \in Seq(Record) /\ Prefix(AtMost(i), served)
        BY <1>1, <1>2, <2>1, <2>3, BoundsType DEF ImageOK, BesideNow
      <4>2. Prefix(AtMost(i), served')
        BY <1>1, <1>4, <4>1, PrefixTrans
      <4> QED
        BY <1>6, <3>1, <4>2
    <3>2. CASE CurrentGen(i) = gen /\ gen \in i.logs
      <4>1. AtMost(i) = AtMost(Now)
        BY <1>1, <1>2, <2>1, <2>3, <3>2 DEF BesideNow, AtMost, Recovered
      <4>2. AtMost(i) = served
        BY <1>2, <2>3, <4>1 DEF DiskInv, ServedOK
      <4> QED
        BY <1>2, <1>4, <1>7, <3>2, <4>2, PrefixRefl
    <3> QED
      BY <3>1, <3>2
  <2>4. BesideNow(i)'
    BY <1>1, <1>2, <2>1, <2>3 DEF BesideNow, CurrentGen, Base, Prefix
  <2> QED
    BY <2>2, <2>4
<1> QED
  BY <1>1, <1>9, <1>10 DEF ImagesOK

\* A crash of the machine leaves one image, what of its log was on the disk, and
\* no process.
LEMMA MachineCrashKeeps ==
  ASSUME DiskInv, Ordered, MachineCrash
  PROVE  ImagesOK' /\ ServedOK'
<1>1. PICK i \in Held :
        /\ images' = <<i>>
        /\ \E n \in onDisk[CurrentGen(i)]..Len(wal[CurrentGen(i)]) :
             /\ served' = Recovered(i, n)
             /\ wal' = [g \in Gen |-> IF g = CurrentGen(i) /\ g \in i.logs
                                      THEN SubSeq(wal[g], 1, n)
                                      ELSE <<>>]
  BY DEF MachineCrash, CrashImages, Held
<1>2. PICK n \in onDisk[CurrentGen(i)]..Len(wal[CurrentGen(i)]) :
             /\ served' = Recovered(i, n)
             /\ wal' = [g \in Gen |-> IF g = CurrentGen(i) /\ g \in i.logs
                                      THEN SubSeq(wal[g], 1, n)
                                      ELSE <<>>]
  BY <1>1
<1>c. PICK c : c = CurrentGen(i)
  OBVIOUS
<1>3. TypeOK /\ i \in Image /\ c \in Gen /\ Opens(i) /\ ImageOK(i)
  BY <1>1, <1>c, HeldType, ImageType DEF DiskInv, ImagesOK, ImageOK
<1>4. wal[c] \in Seq(Record) /\ n \in 0..Len(wal[c])
  BY <1>2, <1>c, <1>3, WalType
<1>5. served' \in Seq(Record)
  BY <1>2, <1>c, <1>3, <1>4, RecoveredType
<1>6. Now' = i /\ Held' = {i}
  BY <1>1, <1>3, SingleHeld
<1>7. safe' = served' /\ astray' = FALSE /\ onDisk' = [g \in Gen |-> Len(wal'[g])]
  BY DEF MachineCrash
<1>8. AtLeast(i)' = served' /\ AtMost(i)' = served'
  <2>1. CASE c \in i.logs
    <3>1. wal'[c] = SubSeq(wal[c], 1, n) /\ onDisk'[c] = Len(wal'[c])
      BY <1>2, <1>3, <1>7, <1>c, <2>1
    <3>2. Len(wal'[c]) = n /\ SubSeq(wal'[c], 1, n) = wal'[c]
      BY <1>4, <3>1, FirstIs, FirstOfFirst
    <3>3. served' = Base(i) \o wal'[c]
      BY <1>2, <1>c, <2>1, <3>1 DEF Recovered
    <3>4. AtLeast(i)' = Base(i) \o SubSeq(wal'[c], 1, onDisk'[c])
      BY <1>c, <2>1 DEF AtLeast, Recovered, CurrentGen, Base
    <3>5. AtMost(i)' = Base(i) \o SubSeq(wal'[c], 1, Len(wal'[c]))
      BY <1>c, <2>1 DEF AtMost, Recovered, CurrentGen, Base
    <3> QED
      BY <3>1, <3>2, <3>3, <3>4, <3>5
  <2>2. CASE c \notin i.logs
    <3>1. served' = Base(i)
      BY <1>2, <1>c, <2>2 DEF Recovered
    <3>2. AtLeast(i)' = Base(i) /\ AtMost(i)' = Base(i)
      BY <1>c, <2>2 DEF AtLeast, AtMost, Recovered, CurrentGen, Base
    <3> QED
      BY <3>1, <3>2
  <2> QED
    BY <2>1, <2>2
<1>9. Prefix(served', served')
  BY <1>5, PrefixRefl
<1>10. ServedOK'
  BY <1>6, <1>7, <1>8, <1>9 DEF ServedOK, Prefix
<1>11. ImageOK(i)'
  BY <1>3, <1>7, <1>8, <1>9 DEF ImageOK, Opens, CurrentGen, Prefix
<1>12. BesideNow(i)'
  <2>1. c <= c
    BY <1>3 DEF Gen
  <2> QED
    BY <1>6, <1>8, <1>9, <1>c, <2>1 DEF BesideNow, CurrentGen, Base, Prefix
<1> QED
  BY <1>6, <1>10, <1>11, <1>12 DEF ImagesOK

-----------------------------------------------------------------------------
(***************************************************************************)
(* The invariant is inductive.                                             *)
(***************************************************************************)

LEMMA DiskInit == Init => DiskInv
<1> SUFFICES ASSUME Init PROVE DiskInv
  OBVIOUS
<1>i. PICK i : i = [man |-> 0, snap |-> [g \in Gen |-> NoFile], logs |-> {}]
  OBVIOUS
<1>1. i \in Image /\ i.man = 0 /\ i.logs = {}
  BY <1>i, DiskAssumption DEF Image
<1>2. images = <<i>> /\ Now = i /\ Held = {i} /\ images \in Seq(Image) /\ Len(images) > 0
  <2>1. images = <<i>>
    BY <1>i DEF Init
  <2> QED
    BY <1>1, <2>1 DEF Now, Held
<1>3. <<>> \in Seq(Record) /\ Len(<<>>) = 0 /\ Prefix(<<>>, <<>>)
  BY EmptySeq, PrefixRefl
<1>4. TypeOK
  <2>1. LogType
    BY <1>3 DEF Init, LogType
  <2>2. RestType
    <3>1. 1 \in 1..MaxGen /\ 0 \in 0..MaxWrites /\ 0 \in 0..MaxCrash
      BY DiskAssumption
    <3>2. /\ gen = 1 /\ served = <<>> /\ safe = <<>> /\ astray = FALSE
          /\ writes = 0 /\ crashes = 0
      BY DEF Init
    <3> QED
      BY <1>3, <3>1, <3>2 DEF RestType, Gen
  <2>3. ControlType /\ ImagesType
    BY <1>2 DEF Init, ControlType, ImagesType
  <2> QED
    BY <2>1, <2>2, <2>3, TypeParts
<1>5. CurrentGen(i) = 1 /\ Base(i) = <<>> /\ AtLeast(i) = <<>> /\ AtMost(i) = <<>>
  BY <1>1 DEF CurrentGen, Base, AtLeast, AtMost, Recovered
<1>6. served = <<>> /\ safe = <<>> /\ pc = "closed"
  BY DEF Init
<1>7. ImageOK(i) /\ BesideNow(i)
  BY <1>1, <1>2, <1>3, <1>5, <1>6 DEF ImageOK, BesideNow, Opens
<1> QED
  BY <1>2, <1>3, <1>4, <1>5, <1>6, <1>7 DEF DiskInv, ImagesOK, ProcessOK, ServedOK

LEMMA NoFileIsNone == NoFile \notin Seq(Record)
<1>1. SUFFICES ASSUME NoFile \in Seq(Record) PROVE FALSE
  OBVIOUS
<1>2. NoFile[1] \in Record
  BY <1>1, LenProperties, ElementOfSeq DEF NoFile
<1> QED
  BY <1>2 DEF NoFile, Record

LEMMA NowFacts ==
  ASSUME DiskInv
  PROVE  /\ TypeOK /\ Now \in Held /\ Now \in Image /\ CurrentGen(Now) \in Gen
         /\ ImageOK(Now) /\ gen \in Gen /\ gen \in Nat
         /\ served \in Seq(Record) /\ safe \in Seq(Record)
<1>1. TypeOK /\ Now \in Held /\ Now \in Image
  BY HeldType DEF DiskInv
<1>2. CurrentGen(Now) \in Gen /\ gen \in Gen /\ gen \in Nat
  BY <1>1, ImageType DEF TypeOK, Gen
<1> QED
  BY <1>1, <1>2 DEF DiskInv, ImagesOK, TypeOK

\* The two renames of a checkpoint.
LEMMA WriteSnapshotKeeps ==
  ASSUME DiskInv, WriteSnapshot PROVE ImagesOK' /\ ServedOK' /\ ProcessOK'
<1>j. PICK j : j = [Now EXCEPT !.snap[gen + 1] = served]
  OBVIOUS
<1>1. /\ TypeOK /\ Now \in Held /\ Now \in Image /\ CurrentGen(Now) \in Gen
      /\ ImageOK(Now) /\ gen \in Gen /\ gen \in Nat
      /\ served \in Seq(Record) /\ safe \in Seq(Record)
  BY NowFacts
<1>2. /\ pc = "ckSnapshot" /\ pc' = "ckSnapSync" /\ gen < MaxGen /\ gen \in Now.logs
      /\ CurrentGen(Now) \in {gen, gen + 1} /\ \A h \in Now.logs : h <= gen
  BY DEF WriteSnapshot, DiskInv, ProcessOK
<1>3. gen + 1 \in Gen
  BY <1>1, <1>2, DiskAssumption DEF Gen
<1>4. /\ j \in Image /\ j.man = Now.man /\ j.logs = Now.logs
      /\ j.snap = [Now.snap EXCEPT ![gen + 1] = served]
      /\ j.snap[gen + 1] = served
      /\ \A h \in Gen : h # gen + 1 => j.snap[h] = Now.snap[h]
  BY <1>1, <1>3, <1>j, ImageType DEF Image
<1>5. Change(j) /\ UNCHANGED <<wal, onDisk, memory, aux>>
  BY <1>j DEF WriteSnapshot, PublishSnapshot, Collect
<1>6. /\ CurrentGen(j) = CurrentGen(Now) /\ NoFile \notin Seq(Record)
      /\ Now.man # 1 /\ Opens(Now) /\ Now.man \in 0..MaxGen
  BY <1>1, <1>4, NoFileIsNone, ImageType DEF CurrentGen, ImageOK
<1>7. CASE CurrentGen(Now) = gen
  <2>1. Now.man # gen + 1
    BY <1>1, <1>7 DEF CurrentGen
  <2>2. Base(j) = Base(Now) /\ Opens(j)
    BY <1>1, <1>4, <1>6, <2>1 DEF Base, Opens, Gen
  <2>3. AtLeast(j) = AtLeast(Now) /\ AtMost(j) = AtMost(Now)
    BY <1>4, <1>6, <2>2 DEF AtLeast, AtMost, Recovered
  <2>4. ImageOK(j)
    BY <1>1, <1>4, <1>6, <2>2, <2>3 DEF ImageOK
  <2>5. ~astray => AtMost(j) = served
    BY <2>3 DEF DiskInv, ServedOK
  <2>6. \A i \in Held : CurrentGen(i) = CurrentGen(j) =>
           /\ CurrentGen(i) \in i.logs => CurrentGen(i) \in j.logs
           /\ ~astray => Base(i) = Base(j)
    BY <1>4, <1>6, <2>2 DEF DiskInv, ImagesOK, BesideNow
  <2>7. CurrentGen(Now) <= CurrentGen(j)
    BY <1>1, <1>6 DEF Gen
  <2>8. ImagesOK' /\ ServedOK' /\ Now' = j
    BY <1>4, <1>5, <2>4, <2>5, <2>6, <2>7, ChangeKeeps DEF memory
  <2> QED
    BY <1>2, <1>4, <1>5, <1>6, <2>8 DEF ProcessOK, CurrentGen, memory
<1>8. CASE CurrentGen(Now) = gen + 1
  <2>1. Now.man = gen + 1 /\ gen + 1 \notin Now.logs
    BY <1>1, <1>2, <1>8 DEF CurrentGen, Gen
  <2>2. Base(j) = served /\ Opens(j) /\ gen + 1 # 0
    BY <1>1, <1>4, <1>6, <2>1 DEF Base, Opens
  <2>3. AtLeast(j) = served /\ AtMost(j) = served
    BY <1>4, <1>6, <1>8, <2>1, <2>2 DEF AtLeast, AtMost, Recovered
  <2>4. ImageOK(j)
    BY <1>1, <1>4, <1>6, <2>2, <2>3 DEF ImageOK, DiskInv, ServedOK
  <2>5. ~astray => Base(Now) = served
    BY <1>8, <2>1 DEF DiskInv, ServedOK, AtMost, Recovered
  <2>6. \A i \in Held : CurrentGen(i) = CurrentGen(j) =>
           /\ CurrentGen(i) \in i.logs => CurrentGen(i) \in j.logs
           /\ ~astray => Base(i) = Base(j)
    BY <1>4, <1>6, <2>2, <2>5 DEF DiskInv, ImagesOK, BesideNow
  <2>7. CurrentGen(Now) <= CurrentGen(j)
    BY <1>1, <1>6 DEF Gen
  <2>8. ImagesOK' /\ ServedOK' /\ Now' = j
    BY <1>4, <1>5, <2>3, <2>4, <2>6, <2>7, ChangeKeeps DEF memory
  <2> QED
    BY <1>2, <1>4, <1>5, <1>6, <2>8 DEF ProcessOK, CurrentGen, memory
<1> QED
  BY <1>2, <1>7, <1>8

LEMMA WriteManifestKeeps ==
  ASSUME DiskInv, WriteManifest PROVE ImagesOK' /\ ServedOK' /\ ProcessOK'
<1>j. PICK j : j = [Now EXCEPT !.man = gen + 1]
  OBVIOUS
<1>1. /\ TypeOK /\ Now \in Held /\ Now \in Image /\ CurrentGen(Now) \in Gen
      /\ ImageOK(Now) /\ gen \in Gen /\ gen \in Nat
      /\ served \in Seq(Record) /\ safe \in Seq(Record)
  BY NowFacts
<1>2. /\ pc = "ckManifest" /\ pc' = "ckManSync" /\ gen < MaxGen /\ gen \in Now.logs
      /\ CurrentGen(Now) \in {gen, gen + 1} /\ \A h \in Now.logs : h <= gen
      /\ Now.snap[gen + 1] = served
  BY DEF WriteManifest, DiskInv, ProcessOK
<1>3. gen + 1 \in Gen /\ gen + 1 # 0 /\ gen + 1 # 1 /\ gen + 1 \notin Now.logs
  BY <1>1, <1>2, DiskAssumption DEF Gen
<1>4. /\ j \in Image /\ j.man = gen + 1 /\ j.logs = Now.logs /\ j.snap = Now.snap
      /\ CurrentGen(j) = gen + 1 /\ Base(j) = served
  BY <1>1, <1>2, <1>3, <1>j, ImageType DEF Image, Gen, CurrentGen, Base
<1>5. Change(j) /\ UNCHANGED <<wal, onDisk, memory, aux>>
  BY <1>j DEF WriteManifest
<1>6. AtLeast(j) = served /\ AtMost(j) = served
  BY <1>3, <1>4 DEF AtLeast, AtMost, Recovered
<1>7. Opens(j)
  BY <1>1, <1>2, <1>4, NoFileIsNone DEF Opens
<1>8. ImageOK(j)
  <2>1. \A h \in j.logs : h <= gen + 1
    BY <1>1, <1>2, <1>4, ImageType DEF Gen
  <2> QED
    BY <1>3, <1>4, <1>6, <1>7, <2>1 DEF ImageOK, DiskInv, ServedOK
<1>9. CurrentGen(Now) <= CurrentGen(j)
  BY <1>1, <1>2, <1>4
<1>10. ASSUME NEW i \in Held, CurrentGen(i) = CurrentGen(j)
       PROVE  /\ CurrentGen(i) \in i.logs => CurrentGen(i) \in j.logs
              /\ ~astray => Base(i) = Base(j)
  <2>1. BesideNow(i)
    BY DEF DiskInv, ImagesOK
  <2>2. CurrentGen(Now) = gen + 1
    BY <1>1, <1>2, <1>4, <1>10, <2>1 DEF BesideNow
  <2>3. ~astray => Base(Now) = served
    BY <1>3, <2>2 DEF DiskInv, ServedOK, AtMost, Recovered
  <2> QED
    BY <1>4, <1>10, <2>1, <2>2, <2>3 DEF BesideNow
<1>11. ImagesOK' /\ ServedOK' /\ Now' = j
  BY <1>4, <1>5, <1>6, <1>8, <1>9, <1>10, ChangeKeeps DEF memory
<1>12. CurrentGen(j)' = gen + 1
  BY <1>4 DEF CurrentGen
<1> QED
  BY <1>2, <1>4, <1>5, <1>11, <1>12 DEF ProcessOK, CurrentGen, memory

LEMMA OpenKeeps ==
  ASSUME DiskInv, Open PROVE ImagesOK' /\ ServedOK' /\ ProcessOK'
<1>1. /\ Now \in Image /\ CurrentGen(Now) \in Gen /\ ImageOK(Now)
      /\ OpenWal(CurrentGen(Now)) /\ gen' = CurrentGen(Now) /\ served' = AtMost(Now)
      /\ pc' \in {"idle", "cleanWal"} /\ UNCHANGED aux
  BY NowFacts DEF Open
<1>j. PICK j : j = [Now EXCEPT !.logs = @ \cup {CurrentGen(Now)}]
  OBVIOUS
<1>2. ImagesOK' /\ ServedOK' /\ Now' = j
  BY <1>1, <1>j, OpenWalKeeps
<1>3. j.man = Now.man /\ j.logs = Now.logs \cup {CurrentGen(Now)}
  BY <1>1, <1>j, ImageType
<1>4. CurrentGen(Now)' = gen'
  BY <1>1, <1>2, <1>3 DEF CurrentGen
<1>5. gen' \in Now'.logs /\ \A g \in Now'.logs : g <= gen'
  BY <1>1, <1>2, <1>3 DEF ImageOK, Gen
<1> QED
  BY <1>1, <1>2, <1>4, <1>5 DEF ProcessOK

LEMMA ResetToSnapshotKeeps ==
  ASSUME DiskInv, ResetToSnapshot PROVE ImagesOK' /\ ServedOK' /\ ProcessOK'
<1>1. /\ Now \in Image /\ CurrentGen(Now) \in Gen /\ ImageOK(Now)
      /\ CurrentGen(Now) = gen + 1 /\ OpenWal(gen + 1) /\ gen' = gen + 1
      /\ served' = served /\ pc' = "cleanWal" /\ UNCHANGED aux
  BY NowFacts DEF ResetToSnapshot, DiskInv, ProcessOK
<1>j. PICK j : j = [Now EXCEPT !.logs = @ \cup {CurrentGen(Now)}]
  OBVIOUS
<1>2. ImagesOK' /\ ServedOK' /\ Now' = j
  BY <1>1, <1>j, OpenWalKeeps
<1>3. j.man = Now.man /\ j.logs = Now.logs \cup {CurrentGen(Now)}
  BY <1>1, <1>j, ImageType
<1>4. CurrentGen(Now)' = gen'
  BY <1>1, <1>2, <1>3 DEF CurrentGen
<1>5. gen' \in Now'.logs /\ \A g \in Now'.logs : g <= gen'
  BY <1>1, <1>2, <1>3 DEF ImageOK, Gen
<1> QED
  BY <1>1, <1>2, <1>4, <1>5 DEF ProcessOK

\* A cleanup removes what the image does not need.
LEMMA RemoveWalKeeps ==
  ASSUME DiskInv, RemoveWal PROVE ImagesOK' /\ ServedOK' /\ ProcessOK'
<1>1. /\ TypeOK /\ Now \in Held /\ Now \in Image /\ CurrentGen(Now) \in Gen
      /\ ImageOK(Now) /\ gen \in Gen /\ gen \in Nat
  BY NowFacts
<1>2. /\ pc = "cleanWal" /\ pc' = pc /\ CurrentGen(Now) = gen /\ gen \in Now.logs
      /\ UNCHANGED <<wal, onDisk, memory, aux>> /\ \A h \in Now.logs : h <= gen
  BY DEF RemoveWal, locals, DiskInv, ProcessOK
<1>3. PICK g \in Now.logs \ {gen} : Change([Now EXCEPT !.logs = @ \ {g}])
  BY DEF RemoveWal
<1>j. PICK j : j = [Now EXCEPT !.logs = @ \ {g}]
  OBVIOUS
<1>4. /\ j \in Image /\ j.man = Now.man /\ j.snap = Now.snap /\ j.logs = Now.logs \ {g}
      /\ CurrentGen(j) = gen /\ Base(j) = Base(Now) /\ Change(j) /\ gen \in j.logs
  BY <1>1, <1>2, <1>3, <1>j, ImageType DEF Image, CurrentGen, Base
<1>5. AtLeast(j) = AtLeast(Now) /\ AtMost(j) = AtMost(Now)
  BY <1>2, <1>4 DEF AtLeast, AtMost, Recovered
<1>6. ImageOK(j) /\ CurrentGen(Now) <= CurrentGen(j)
  BY <1>1, <1>2, <1>4, <1>5 DEF ImageOK, Opens
<1>7. \A i \in Held : CurrentGen(i) = CurrentGen(j) =>
         /\ CurrentGen(i) \in i.logs => CurrentGen(i) \in j.logs
         /\ ~astray => Base(i) = Base(j)
  BY <1>2, <1>4 DEF DiskInv, ImagesOK, BesideNow
<1>8. ~astray => AtMost(j) = served
  BY <1>5 DEF DiskInv, ServedOK
<1>9. ImagesOK' /\ ServedOK' /\ Now' = j
  BY <1>2, <1>4, <1>6, <1>7, <1>8, ChangeKeeps DEF memory
<1>10. CurrentGen(j)' = gen /\ gen' = gen
  BY <1>2, <1>4 DEF CurrentGen, memory
<1> QED
  BY <1>2, <1>4, <1>9, <1>10 DEF ProcessOK

LEMMA RemoveSnapshotKeeps ==
  ASSUME DiskInv, RemoveSnapshot PROVE ImagesOK' /\ ServedOK' /\ ProcessOK'
<1>1. /\ TypeOK /\ Now \in Held /\ Now \in Image /\ CurrentGen(Now) \in Gen
      /\ ImageOK(Now) /\ gen \in Gen /\ gen \in Nat
  BY NowFacts
<1>2. /\ pc = "cleanSnap" /\ pc' = pc /\ CurrentGen(Now) = gen /\ gen \in Now.logs
      /\ UNCHANGED <<wal, onDisk, memory, aux>> /\ \A h \in Now.logs : h <= gen
  BY DEF RemoveSnapshot, locals, DiskInv, ProcessOK
<1>3. PICK g \in OldSnapshots : Change([Now EXCEPT !.snap[g] = NoFile])
  BY DEF RemoveSnapshot
<1>j. PICK j : j = [Now EXCEPT !.snap[g] = NoFile]
  OBVIOUS
<1>4. /\ j \in Image /\ j.man = Now.man /\ j.logs = Now.logs /\ Change(j)
      /\ j.snap = [Now.snap EXCEPT ![g] = NoFile] /\ g \in Gen /\ g # gen
  BY <1>1, <1>3, <1>j, ImageType DEF Image, OldSnapshots
<1>5. /\ CurrentGen(j) = gen /\ Base(j) = Base(Now) /\ Opens(j)
      /\ \A h \in Gen \ {g} : j.snap[h] = Now.snap[h]
  <2>1. Now.man # 0 => Now.man = gen
    BY <1>2 DEF CurrentGen
  <2>2. \A h \in Gen \ {g} : j.snap[h] = Now.snap[h]
    BY <1>1, <1>4, ImageType
  <2> QED
    BY <1>1, <1>2, <1>4, <2>1, <2>2 DEF CurrentGen, Base, Opens, ImageOK
<1>6. AtLeast(j) = AtLeast(Now) /\ AtMost(j) = AtMost(Now)
  BY <1>2, <1>4, <1>5 DEF AtLeast, AtMost, Recovered
<1>7. ImageOK(j) /\ CurrentGen(Now) <= CurrentGen(j)
  BY <1>1, <1>2, <1>4, <1>5, <1>6 DEF ImageOK
<1>8. \A i \in Held : CurrentGen(i) = CurrentGen(j) =>
         /\ CurrentGen(i) \in i.logs => CurrentGen(i) \in j.logs
         /\ ~astray => Base(i) = Base(j)
  BY <1>2, <1>4, <1>5 DEF DiskInv, ImagesOK, BesideNow
<1>9. ~astray => AtMost(j) = served
  BY <1>6 DEF DiskInv, ServedOK
<1>10. ImagesOK' /\ ServedOK' /\ Now' = j
  BY <1>2, <1>4, <1>7, <1>8, <1>9, ChangeKeeps DEF memory
<1>11. CurrentGen(j)' = gen /\ gen' = gen
  BY <1>2, <1>5 DEF CurrentGen, memory
<1> QED
  BY <1>2, <1>4, <1>10, <1>11 DEF ProcessOK

\* The generation MANIFEST was just renamed to has nothing but the snapshot, and
\* that is what is served.
LEMMA SyncManifestKeeps ==
  ASSUME DiskInv, Ordered, SyncManifest PROVE ImagesOK' /\ ServedOK' /\ ProcessOK'
<1>1. /\ Now \in Image /\ gen \in Gen /\ gen \in Nat /\ served \in Seq(Record)
      /\ CurrentGen(Now) = gen + 1 /\ \A h \in Now.logs : h <= gen
      /\ Now.snap[gen + 1] = served /\ gen + 1 # 1
  BY NowFacts DEF SyncManifest, DiskInv, ProcessOK, Gen
<1>2. Now.man = gen + 1 /\ gen + 1 \notin Now.logs /\ gen + 1 # 0
  BY <1>1 DEF CurrentGen
<1>3. AtLeast(Now) = served
  BY <1>1, <1>2 DEF AtLeast, Recovered, Base
<1>4. Prefix(served, AtLeast(Now))
  BY <1>1, <1>3, PrefixRefl
<1>5. ImagesOK' /\ ServedOK' /\ Now' = Now
  BY <1>4, SyncKeeps DEF SyncManifest, memory
<1>6. gen' = gen /\ served' = served /\ pc = "ckManSync" /\ pc' = "ckReset"
  BY DEF SyncManifest, memory
<1>7. ProcessOK'
  BY <1>5, <1>6 DEF DiskInv, ProcessOK, CurrentGen
<1> QED
  BY <1>5, <1>7

\* Only Close stores to the log, and only forward.
LEMMA FinishKeeps ==
  ASSUME DiskInv, TypeOK', NEW failed \in BOOLEAN, Finish(failed),
         UNCHANGED <<images, wal, memory, aux>>, pc # "closed"
  PROVE  ImagesOK' /\ ServedOK' /\ ProcessOK'
<1>1. TypeOK /\ gen \in Gen
  BY DEF DiskInv, TypeOK
<1>2. \A g \in Gen : onDisk[g] <= onDisk'[g]
  <2>1. CASE caller = "close"
    <3>1. PICK n \in onDisk[gen]..Len(wal[gen]) : onDisk' = [onDisk EXCEPT ![gen] = n]
      BY <2>1 DEF Finish
    <3>2. \A g \in Gen : onDisk[g] \in Nat
      BY <1>1, WalType
    <3>3. n >= onDisk[gen]
      BY <1>1, <3>1, <3>2, WalType
    <3>4. onDisk'[gen] = n /\ \A g \in Gen \ {gen} : onDisk'[g] = onDisk[g]
      BY <1>1, <3>1 DEF TypeOK
    <3> QED
      BY <3>2, <3>3, <3>4
  <2>2. CASE caller # "close"
    <3>1. onDisk' = onDisk /\ \A g \in Gen : onDisk[g] \in Nat
      BY <1>1, <2>2, WalType DEF Finish
    <3> QED
      BY <3>1
  <2> QED
    BY <2>1, <2>2
<1>3. ImagesOK' /\ ServedOK' /\ Now' = Now
  BY <1>2, StayKeeps DEF memory
<1>4. pc' \in {"closed", "idle"}
  BY DEF Finish
<1>5. ProcessOK'
  BY <1>3, <1>4 DEF DiskInv, ProcessOK, CurrentGen, memory
<1> QED
  BY <1>3, <1>5

LEMMA DiskNext == ASSUME DiskInv, Ordered, [Next]_vars PROVE DiskInv'
<1>1. TypeOK'
  BY TypeNext
<1>2. TypeOK /\ \A g \in Gen : onDisk[g] \in Nat
  BY WalType DEF DiskInv
<1>3. ASSUME UNCHANGED <<files, memory, aux>>,
             pc' \in {pc, "closed"} \/ (pc = "idle" /\ pc' = "ckSnapshot" /\ gen < MaxGen)
                                   \/ (pc = "cleanWal" /\ pc' = "cleanSnap")
      PROVE  ImagesOK' /\ ServedOK' /\ ProcessOK'
  <2>1. ImagesOK' /\ ServedOK' /\ Now' = Now
    BY <1>1, <1>2, <1>3, StayKeeps DEF files, memory
  <2>2. gen' = gen /\ served' = served
    BY <1>3 DEF memory
  <2>3. CASE pc' \in {pc, "closed"}
    BY <2>1, <2>2, <2>3 DEF DiskInv, ProcessOK, CurrentGen
  <2>4. CASE pc = "idle" /\ pc' = "ckSnapshot" /\ gen < MaxGen
    BY <2>1, <2>2, <2>4 DEF DiskInv, ProcessOK, CurrentGen
  <2>5. CASE pc = "cleanWal" /\ pc' = "cleanSnap"
    BY <2>1, <2>2, <2>5 DEF DiskInv, ProcessOK, CurrentGen
  <2> QED
    BY <1>3, <2>1, <2>3, <2>4, <2>5
<1> SUFFICES ImagesOK' /\ ServedOK' /\ ProcessOK'
  BY <1>1 DEF DiskInv
<1>4. CASE Open
  BY <1>4, OpenKeeps
<1>5. CASE AppendRecord
  <2>1. ImagesOK' /\ ServedOK' /\ Now' = Now
    BY <1>5, AppendKeeps
  <2>2. /\ pc = "idle" /\ gen' = gen
        /\ pc' = "idle" \/ (pc' = "ckSnapshot" /\ gen < MaxGen)
    BY <1>5 DEF AppendRecord, locals
  <2> QED
    BY <2>1, <2>2 DEF DiskInv, ProcessOK, CurrentGen
<1>6. CASE Close
  BY <1>3, <1>6 DEF Close
<1>7. CASE WriteSnapshot
  BY <1>7, WriteSnapshotKeeps
<1>8. CASE SnapshotFails \/ ManifestFails \/ ManifestSyncFails
  BY <1>1, <1>8, FinishKeeps DEF SnapshotFails, ManifestFails, ManifestSyncFails
<1>9. CASE SyncSnapshot
  <2>1. ImagesOK' /\ ServedOK' /\ Now' = Now
    BY <1>9, SyncKeeps DEF SyncSnapshot, memory, aux
  <2>2. gen' = gen /\ served' = served /\ pc = "ckSnapSync" /\ pc' = "ckManifest"
    BY <1>9 DEF SyncSnapshot, memory
  <2> QED
    BY <2>1, <2>2 DEF DiskInv, ProcessOK, CurrentGen
<1>10. CASE WriteManifest
  BY <1>10, WriteManifestKeeps
<1>11. CASE SyncManifest
  BY <1>11, SyncManifestKeeps
<1>12. CASE ResetToSnapshot
  BY <1>12, ResetToSnapshotKeeps
<1>13. CASE RemoveWal
  BY <1>13, RemoveWalKeeps
<1>14. CASE RemoveSnapshot
  BY <1>14, RemoveSnapshotKeeps
<1>15. CASE WalRemoved
  BY <1>3, <1>15 DEF WalRemoved
<1>16. CASE SnapshotsRemoved
  <2>1. err \in BOOLEAN /\ pc # "closed"
    BY <1>2, <1>16 DEF SnapshotsRemoved, TypeOK
  <2> QED
    BY <1>1, <1>16, <2>1, FinishKeeps DEF SnapshotsRemoved
<1>17. CASE Crash
  BY <1>3, <1>17 DEF Crash
<1>18. CASE MachineCrash
  <2>1. pc' = "closed"
    BY <1>18 DEF MachineCrash
  <2> QED
    BY <1>18, <2>1, MachineCrashKeeps DEF ProcessOK
<1>19. CASE UNCHANGED vars
  BY <1>3, <1>19 DEF vars, locals
<1> QED
  BY <1>4, <1>5, <1>6, <1>7, <1>8, <1>9, <1>10, <1>11, <1>12, <1>13, <1>14, <1>15,
     <1>16, <1>17, <1>18, <1>19 DEF Next

-----------------------------------------------------------------------------
(***************************************************************************)
(* The theorems.                                                           *)
(***************************************************************************)

\* The inductive invariant, in every reachable state.
THEOREM DiskInvHolds == ASSUME Ordered PROVE Spec => []DiskInv
<1>1. DiskInv /\ [Next]_vars => DiskInv'
  BY DiskNext
<1> QED
  BY <1>1, DiskInit, PTL DEF Spec

\* What the invariant says of the images that a crash may leave.
LEMMA DiskInvImplies ==
  ASSUME Ordered, DiskInv
  PROVE  AlwaysOpens /\ SyncedSurvives /\ CrashKeepsPrefix /\ NextGenerationIsFresh
<1>1. CrashImages = Held
  BY DEF CrashImages, Held
<1>2. \A i \in Held : ImageOK(i) /\ BesideNow(i) /\ i \in Image
  BY HeldType DEF DiskInv, ImagesOK
<1>3. AlwaysOpens /\ SyncedSurvives /\ CrashKeepsPrefix
  BY <1>1, <1>2 DEF AlwaysOpens, SyncedSurvives, CrashKeepsPrefix, ImageOK, BesideNow
<1>4. ASSUME NEW i \in Held, NEW g \in i.logs, CurrentGen(i) < g PROVE FALSE
  BY <1>2, <1>4, ImageType DEF ImageOK, Gen
<1> QED
  BY <1>1, <1>3, <1>4 DEF NextGenerationIsFresh

\* Every variable has its type, for which Open must find every snapshot.
THEOREM DiskTypes == ASSUME Ordered PROVE Spec => []TypeOK
<1>1. DiskInv => TypeOK
  BY DEF DiskInv
<1> QED
  BY <1>1, DiskInvHolds, PTL

\* Whenever the machine crashes, the next Open finds the snapshot that MANIFEST
\* names, for any number of generations, writes, pending changes and crashes.
THEOREM CrashAlwaysOpens == ASSUME Ordered PROVE Spec => []AlwaysOpens
<1>1. ASSUME Ordered PROVE DiskInv => AlwaysOpens
  BY <1>1, DiskInvImplies
<1> QED
  BY <1>1, DiskInvHolds, PTL

\* What a checkpoint held when it published its MANIFEST survives every crash of
\* the machine, whatever later checkpoints, cleanups and failures were doing.
THEOREM CheckpointSurvives == ASSUME Ordered PROVE Spec => []SyncedSurvives
<1>1. ASSUME Ordered PROVE DiskInv => SyncedSurvives
  BY <1>1, DiskInvImplies
<1> QED
  BY <1>1, DiskInvHolds, PTL

\* A crash of the machine leaves a prefix of the writes, unless the sync of a
\* MANIFEST failed and writes went on in the generation it had left.
THEOREM CrashAlwaysKeepsPrefix == ASSUME Ordered PROVE Spec => []CrashKeepsPrefix
<1>1. ASSUME Ordered PROVE DiskInv => CrashKeepsPrefix
  BY <1>1, DiskInvImplies
<1> QED
  BY <1>1, DiskInvHolds, PTL

\* No crash leaves writes in a generation later than the one its MANIFEST names.
THEOREM NextAlwaysFresh == ASSUME Ordered PROVE Spec => []NextGenerationIsFresh
<1>1. ASSUME Ordered PROVE DiskInv => NextGenerationIsFresh
  BY <1>1, DiskInvImplies
<1> QED
  BY <1>1, DiskInvHolds, PTL
=============================================================================
