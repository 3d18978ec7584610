---------------------------- MODULE CabSetProofs ----------------------------
(***************************************************************************)
(* Proofs about CabSet: nothing dangles after archives have been joined,   *)
(* and a file reported as extracted is whole and in order, for every       *)
(* directory of well-formed archives and every order of names.             *)
(*                                                                         *)
(* The lists of an archive are those of all it is joined with, so what is  *)
(* freed by a joining must be in no list of an archive that is not.  The   *)
(* argument: archives are joined in chains; a set of archives with which   *)
(* each has its neighbours (Linked) has all that their lists name; and the *)
(* chains of the two archives that are joined are two such sets.           *)
(*                                                                         *)
(* What is extracted depends on the order in a chain.  Archives are joined *)
(* to the one behind them in the set (Way, Ordered), so that the parts of  *)
(* a folder are each behind the last (Chained); the files cabd.c compares  *)
(* before it joins are files that go on (EndInv).  Then the pieces of a    *)
(* folder are those of whole blocks, in order, and so is what is read.     *)
(***************************************************************************)
EXTENDS CabSet, FiniteSetTheorems, TLAPS

--------------------------------------------------------------------------
(* Chains of archives                                                      *)

\* Neighbours name each other.
Mutual(c) ==
  /\ None \notin DOMAIN c
  /\ \A n \in DOMAIN c :
       /\ c[n].next # None => c[n].next \in DOMAIN c /\ c[c[n].next].prev = n
       /\ c[n].prev # None => c[n].prev \in DOMAIN c /\ c[c[n].prev].next = n

\* A set of archives that has the neighbours of each.
Linked(c, T) ==
  /\ T \subseteq DOMAIN c
  /\ \A n \in T : /\ c[n].next # None => c[n].next \in T
                  /\ c[n].prev # None => c[n].prev \in T

\* The others are such a set too.
LEMMA OthersLinked ==
  ASSUME NEW c, Mutual(c), NEW T, Linked(c, T)
  PROVE  Linked(c, DOMAIN c \ T)
<1> SUFFICES ASSUME NEW n \in DOMAIN c \ T
             PROVE  /\ c[n].next # None => c[n].next \in DOMAIN c \ T
                    /\ c[n].prev # None => c[n].prev \in DOMAIN c \ T
  BY DEF Linked
<1>1. ASSUME c[n].next # None, c[n].next \in T PROVE FALSE
  <2>1. c[c[n].next].prev = n /\ n # None
    BY <1>1 DEF Mutual, Linked
  <2> QED BY <1>1, <2>1 DEF Linked
<1>2. ASSUME c[n].prev # None, c[n].prev \in T PROVE FALSE
  <2>1. c[c[n].prev].next = n /\ n # None
    BY <1>2 DEF Mutual, Linked
  <2> QED BY <1>2, <2>1 DEF Linked
<1> QED BY <1>1, <1>2 DEF Mutual

\* What After and Before are: the least of such sets.
LEMMA AfterClosed ==
  ASSUME NEW c, Mutual(c), NEW n \in DOMAIN c
  PROVE  /\ After(c, n) \subseteq DOMAIN c
         /\ \A m \in After(c, n) \cup {n} : c[m].next # None => c[m].next \in After(c, n)
<1>1. After(c, n) \subseteq DOMAIN c
  BY DEF After
<1> SUFFICES ASSUME NEW m \in After(c, n) \cup {n}, c[m].next # None
             PROVE  c[m].next \in After(c, n)
  BY <1>1
<1>2. c[m].next \in DOMAIN c
  BY <1>1 DEF Mutual
<1> SUFFICES ASSUME NEW S \in SUBSET DOMAIN c,
                    \A k \in S \cup {n} : c[k].next # None => c[k].next \in S
             PROVE  c[m].next \in S
  BY <1>2 DEF After
<1>3. m \in S \cup {n}
  BY DEF After
<1> QED BY <1>3

LEMMA AfterLeast ==
  ASSUME NEW c, NEW n, NEW S \in SUBSET DOMAIN c,
         \A k \in S \cup {n} : c[k].next # None => c[k].next \in S
  PROVE  After(c, n) \subseteq S
BY DEF After

LEMMA BeforeLeast ==
  ASSUME NEW c, NEW n, NEW S \in SUBSET DOMAIN c,
         \A k \in S \cup {n} : c[k].prev # None => c[k].prev \in S
  PROVE  Before(c, n) \subseteq S
BY DEF Before

LEMMA BeforeClosed ==
  ASSUME NEW c, Mutual(c), NEW n \in DOMAIN c
  PROVE  /\ Before(c, n) \subseteq DOMAIN c
         /\ \A m \in Before(c, n) \cup {n} : c[m].prev # None => c[m].prev \in Before(c, n)
<1>1. Before(c, n) \subseteq DOMAIN c
  BY DEF Before
<1> SUFFICES ASSUME NEW m \in Before(c, n) \cup {n}, c[m].prev # None
             PROVE  c[m].prev \in Before(c, n)
  BY <1>1
<1>2. c[m].prev \in DOMAIN c
  BY <1>1 DEF Mutual
<1> SUFFICES ASSUME NEW S \in SUBSET DOMAIN c,
                    \A k \in S \cup {n} : c[k].prev # None => c[k].prev \in S
             PROVE  c[m].prev \in S
  BY <1>2 DEF Before
<1>3. m \in S \cup {n}
  BY DEF Before
<1> QED BY <1>3

\* Who is behind r has before it r or another that is behind r.
LEMMA AfterBack ==
  ASSUME NEW c, Mutual(c), NEW r \in DOMAIN c, NEW k \in After(c, r)
  PROVE  c[k].prev # None /\ c[k].prev \in After(c, r) \cup {r}
<1> DEFINE A == After(c, r)
<1>1. A \subseteq DOMAIN c /\ \A m \in A \cup {r} : c[m].next # None => c[m].next \in A
  BY AfterClosed
<1> SUFFICES ASSUME c[k].prev = None \/ c[k].prev \notin A \cup {r} PROVE FALSE
  OBVIOUS
<1> DEFINE S == A \ {k}
<1>2. S \in SUBSET DOMAIN c
  BY <1>1
<1>3. ASSUME NEW j \in S \cup {r}, c[j].next # None PROVE c[j].next \in S
  <2>1. j \in A \cup {r} /\ j \in DOMAIN c
    BY <1>1
  <2>2. c[j].next \in A
    BY <1>1, <1>3, <2>1
  <2>3. c[j].next # k
    <3>1. c[c[j].next].prev = j /\ j # None
      BY <1>3, <2>1 DEF Mutual
    <3> QED BY <2>1, <3>1
  <2> QED BY <2>2, <2>3
<1>4. A \subseteq S
  <2> HIDE DEF S
  <2> QED BY <1>2, <1>3, AfterLeast
<1> QED BY <1>4

LEMMA BeforeBack ==
  ASSUME NEW c, Mutual(c), NEW l \in DOMAIN c, NEW k \in Before(c, l)
  PROVE  c[k].next # None /\ c[k].next \in Before(c, l) \cup {l}
<1> DEFINE B == Before(c, l)
<1>1. B \subseteq DOMAIN c /\ \A m \in B \cup {l} : c[m].prev # None => c[m].prev \in B
  BY BeforeClosed
<1> SUFFICES ASSUME c[k].next = None \/ c[k].next \notin B \cup {l} PROVE FALSE
  OBVIOUS
<1> DEFINE S == B \ {k}
<1>2. S \in SUBSET DOMAIN c
  BY <1>1
<1>3. ASSUME NEW j \in S \cup {l}, c[j].prev # None PROVE c[j].prev \in S
  <2>1. j \in B \cup {l} /\ j \in DOMAIN c
    BY <1>1
  <2>2. c[j].prev \in B
    BY <1>1, <1>3, <2>1
  <2>3. c[j].prev # k
    <3>1. c[c[j].prev].next = j /\ j # None
      BY <1>3, <2>1 DEF Mutual
    <3> QED BY <2>1, <3>1
  <2> QED BY <2>2, <2>3
<1>4. B \subseteq S
  <2> HIDE DEF S
  <2> QED BY <1>2, <1>3, BeforeLeast
<1> QED BY <1>4

\* The chain of an archive that is the first of its chain.
LEMMA ChainLinked ==
  ASSUME NEW c, Mutual(c), NEW r \in DOMAIN c, c[r].prev = None
  PROVE  Linked(c, {r} \cup After(c, r))
BY AfterClosed, AfterBack DEF Linked

\* Who has l behind it in its chain is in a set with it.
LEMMA BeforeLinked ==
  ASSUME NEW c, Mutual(c), NEW l \in DOMAIN c, NEW T, Linked(c, T),
         NEW n \in Before(c, l) \cup {l}, n \in T
  PROVE  l \in T
<1> SUFFICES ASSUME l \notin T PROVE FALSE
  OBVIOUS
<1> DEFINE S == DOMAIN c \ T
<1>1. Linked(c, S)
  BY OthersLinked
<1>2. \A k \in S \cup {l} : c[k].prev # None => c[k].prev \in S
  BY <1>1 DEF Linked
<1>3. Before(c, l) \subseteq S
  <2>1. S \in SUBSET DOMAIN c
    OBVIOUS
  <2> HIDE DEF S
  <2> QED BY <1>2, <2>1, BeforeLeast
<1> QED BY <1>3

LEMMA AfterLinked ==
  ASSUME NEW c, Mutual(c), NEW r \in DOMAIN c, NEW T, Linked(c, T),
         NEW n \in After(c, r) \cup {r}, n \in T
  PROVE  r \in T
<1> SUFFICES ASSUME r \notin T PROVE FALSE
  OBVIOUS
<1> DEFINE S == DOMAIN c \ T
<1>1. Linked(c, S)
  BY OthersLinked
<1>2. \A k \in S \cup {r} : c[k].next # None => c[k].next \in S
  BY <1>1 DEF Linked
<1>3. After(c, r) \subseteq S
  <2>1. S \in SUBSET DOMAIN c
    OBVIOUS
  <2> HIDE DEF S
  <2> QED BY <1>2, <2>1, AfterLeast
<1> QED BY <1>3

--------------------------------------------------------------------------
(* The files kept                                                          *)

\* What holds of 0 and goes on up to n holds of n: else the numbers below n
\* of which it holds would be as many without 0.
LEMMA UpTo ==
  ASSUME NEW n \in Nat, NEW P, 0 \in P, \A m \in P : m \in 0 .. n /\ m < n => m + 1 \in P
  PROVE  n \in P
<1> SUFFICES ASSUME n \notin P PROVE FALSE
  OBVIOUS
<1> DEFINE Q == P \cap 0 .. n
<1>1. 0 \in Q /\ Q \subseteq 0 .. n /\ \A x \in Q : x + 1 \in Q
  OBVIOUS
<1> HIDE DEF Q
<1>2. IsFiniteSet(Q)
  <2>1. Q \in SUBSET Nat /\ \A x \in Q : x <= n
    BY <1>1
  <2> QED BY <2>1, FS_BoundedSetOfNaturals
<1>3. IsFiniteSet(Q \ {0}) /\ Cardinality(Q \ {0}) < Cardinality(Q)
  <2>1. IsFiniteSet(Q \ {0}) /\ Cardinality(Q \ {0}) = Cardinality(Q) - 1
    BY <1>1, <1>2, FS_RemoveElement
  <2> QED BY <1>2, <2>1, FS_CardinalityType
<1> DEFINE f == [x \in Q |-> x + 1]
<1>4. f \in [Q -> Q \ {0}] /\ \A x \in Q : f[x] = x + 1
  BY <1>1
<1> HIDE DEF f
<1>5. \E x, y \in Q : x # y /\ f[x] = f[y]
  BY <1>2, <1>3, <1>4, FS_PigeonHole
<1> QED BY <1>1, <1>4, <1>5

LEMMA LeastNat ==
  ASSUME NEW S, S \subseteq Nat, S # {}
  PROVE  \E x \in S : \A y \in S : x <= y
<1> SUFFICES ASSUME \A x \in S : \E y \in S : y < x
             PROVE  FALSE
  OBVIOUS
<1> PICK n \in S : TRUE
  OBVIOUS
<1> DEFINE P == {m \in 0 .. n : \A y \in S : m <= y}
<1>1. n \in Nat /\ 0 \in P /\ \A m \in P : m < n => m + 1 \in P
  OBVIOUS
<1>2. n \in P
  <2> HIDE DEF P
  <2> QED BY <1>1, UpTo
<1> QED BY <1>2

\* One file more: it is added unless it is in the folder.
KeptStep(files, fol, g, i) ==
  IF FolderOf(files[i]) = fol THEN g[i - 1] ELSE Append(g[i - 1], files[i])
KeptUpTo(files, fol, n, g) ==
  g = [i \in 0 .. n |-> IF i = 0 THEN <<>> ELSE KeptStep(files, fol, g, i)]

LEMMA KeptExists ==
  ASSUME NEW files, NEW fol, NEW n \in Nat
  PROVE  \E g : KeptUpTo(files, fol, n, g)
<1> DEFINE P == {m \in 0 .. n : \E g : KeptUpTo(files, fol, m, g)}
<1>1. 0 \in P
  <2>1. KeptUpTo(files, fol, 0, [i \in 0 .. 0 |-> <<>>])
    BY DEF KeptUpTo
  <2> QED BY <2>1
<1>2. ASSUME NEW m \in P, m < n PROVE m + 1 \in P
  <2>1. PICK g : KeptUpTo(files, fol, m, g)
    OBVIOUS
  <2> DEFINE h == [i \in 0 .. m + 1 |-> IF i \in 0 .. m THEN g[i] ELSE KeptStep(files, fol, g, m + 1)]
  <2>2. KeptUpTo(files, fol, m + 1, h)
    <3> DEFINE H(i) == IF i = 0 THEN <<>> ELSE KeptStep(files, fol, h, i)
    <3>1. ASSUME NEW i \in 0 .. m + 1 PROVE h[i] = H(i)
      <4>1. CASE i \in 0 .. m
        <5>1. h[i] = g[i]
          BY <4>1
        <5>2. g[i] = IF i = 0 THEN <<>> ELSE KeptStep(files, fol, g, i)
          BY <2>1, <4>1 DEF KeptUpTo
        <5>3. i # 0 => h[i - 1] = g[i - 1]
          BY <4>1
        <5> QED BY <5>1, <5>2, <5>3 DEF KeptStep
      <4>2. CASE i = m + 1
        <5>1. h[i] = KeptStep(files, fol, g, m + 1)
          BY <4>2
        <5>2. h[m] = g[m] /\ i - 1 = m /\ i # 0
          BY <4>2
        <5> QED BY <4>2, <5>1, <5>2 DEF KeptStep
      <4> QED BY <4>1, <4>2
    <3>2. h = [i \in 0 .. m + 1 |-> h[i]]
      OBVIOUS
    <3>3. h = [i \in 0 .. m + 1 |-> H(i)]
      <4> HIDE DEF h
      <4>1. \A i \in 0 .. m + 1 : h[i] = H(i)
        BY <3>1
      <4> QED BY <3>2, <4>1
    <3> QED BY <3>3 DEF KeptUpTo
  <2> HIDE DEF h
  <2> QED BY <1>2, <2>2
<1>3. n \in P
  <2> HIDE DEF P
  <2> QED BY <1>1, <1>2, UpTo
<1> QED BY <1>3

\* They are the files of the list in another folder.
LEMMA KeptFiles ==
  ASSUME NEW F, NEW files \in Seq(F), NEW fol
  PROVE  /\ Kept(files, fol) \in Seq(F)
         /\ Range(Kept(files, fol)) = {f \in Range(files) : FolderOf(f) # fol}
<1> DEFINE n == Len(files)
           g == CHOOSE g : KeptUpTo(files, fol, n, g)
<1>1. n \in Nat
  OBVIOUS
<1>2. KeptUpTo(files, fol, n, g)
  BY <1>1, KeptExists
<1>3. Kept(files, fol) = g[n]
  BY DEF Kept, KeptUpTo, KeptStep
<1> HIDE DEF g
<1> DEFINE Good(m) == /\ g[m] \in Seq(F)
                      /\ Range(g[m]) = {files[j] : j \in {j \in 1 .. m : FolderOf(files[j]) # fol}}
           P == {m \in 0 .. n : Good(m)}
<1>4. g[0] = <<>> /\ \A i \in 1 .. n : g[i] = KeptStep(files, fol, g, i)
  BY <1>1, <1>2 DEF KeptUpTo
<1>5. Good(0)
  BY <1>4 DEF Range
<1>6. ASSUME NEW m \in 0 .. n, Good(m), m < n PROVE Good(m + 1)
  <2> DEFINE f == files[m + 1]
  <2>1. m + 1 \in 1 .. n /\ f \in F /\ m + 1 - 1 = m
    BY <1>6
  <2>2. g[m + 1] = IF FolderOf(f) = fol THEN g[m] ELSE Append(g[m], f)
    BY <1>4, <2>1 DEF KeptStep
  <2> HIDE DEF f
  <2>3. CASE FolderOf(f) = fol
    BY <1>6, <2>1, <2>2, <2>3 DEF f
  <2>4. CASE FolderOf(f) # fol
    <3>1. g[m + 1] = Append(g[m], f)
      BY <2>2, <2>4
    <3>2. g[m] \in Seq(F)
      BY <1>6
    <3>3. Range(Append(g[m], f)) = Range(g[m]) \cup {f}
      <4> DEFINE s == g[m]
      <4>1. s \in Seq(F)
        BY <3>2
      <4> HIDE DEF s
      <4> DEFINE t == Append(s, f)
      <4>2. DOMAIN t = DOMAIN s \cup {Len(s) + 1} /\ t[Len(s) + 1] = f
        BY <4>1, <2>1
      <4>3. \A j \in DOMAIN s : t[j] = s[j]
        BY <4>1, <2>1
      <4> HIDE DEF t
      <4>4. Range(t) = Range(s) \cup {f}
        BY <4>2, <4>3 DEF Range
      <4> QED BY <4>4 DEF s, t
    <3>4. {files[j] : j \in {j \in 1 .. m + 1 : FolderOf(files[j]) # fol}}
          = {files[j] : j \in {j \in 1 .. m : FolderOf(files[j]) # fol}} \cup {f}
      BY <2>1, <2>4 DEF f
    <3>5. Append(g[m], f) \in Seq(F)
      BY <3>2, <2>1
    <3> QED BY <1>6, <3>1, <3>3, <3>4, <3>5
  <2> QED BY <2>3, <2>4
<1>7. n \in P
  <2>1. 0 \in P
    BY <1>1, <1>5
  <2>2. \A m \in P : m \in 0 .. n /\ m < n => m + 1 \in P
    <3> HIDE DEF Good
    <3> QED BY <1>1, <1>6
  <2> HIDE DEF P
  <2> QED BY <1>1, <2>1, <2>2, UpTo
<1>8. {files[j] : j \in {j \in 1 .. n : FolderOf(files[j]) # fol}} = {f \in Range(files) : FolderOf(f) # fol}
  BY DEF Range
<1> QED BY <1>3, <1>7, <1>8
--------------------------------------------------------------------------
(* Lists                                                                   *)

OneEach(s) == \A i, j \in DOMAIN s : s[i] = s[j] => i = j

LEMMA ConcatRange ==
  ASSUME NEW S, NEW s \in Seq(S), NEW t \in Seq(S)
  PROVE  /\ s \o t \in Seq(S)
         /\ Range(s \o t) = Range(s) \cup Range(t)
<1> DEFINE u == s \o t
<1>1. u \in Seq(S) /\ DOMAIN u = 1 .. Len(s) + Len(t)
  OBVIOUS
<1>2. \A i \in DOMAIN s : i \in DOMAIN u /\ u[i] = s[i]
  OBVIOUS
<1>3. \A i \in DOMAIN t : Len(s) + i \in DOMAIN u /\ u[Len(s) + i] = t[i]
  OBVIOUS
<1>4. \A i \in DOMAIN u : i \in DOMAIN s \/ (i - Len(s) \in DOMAIN t /\ u[i] = t[i - Len(s)])
  OBVIOUS
<1> HIDE DEF u
<1>5. Range(u) \subseteq Range(s) \cup Range(t)
  BY <1>2, <1>4 DEF Range
<1>6. Range(s) \subseteq Range(u)
  BY <1>2 DEF Range
<1>7. Range(t) \subseteq Range(u)
  BY <1>3 DEF Range
<1> QED BY <1>1, <1>5, <1>6, <1>7 DEF u

LEMMA ConcatOneEach ==
  ASSUME NEW S, NEW s \in Seq(S), NEW t \in Seq(S),
         OneEach(s), OneEach(t), Range(s) \cap Range(t) = {}
  PROVE  OneEach(s \o t)
<1> DEFINE u == s \o t
<1>1. \A i \in DOMAIN u : \/ i \in DOMAIN s /\ u[i] = s[i]
                          \/ i - Len(s) \in DOMAIN t /\ u[i] = t[i - Len(s)] /\ i \in Int
  OBVIOUS
<1>2. Len(s) \in Nat /\ DOMAIN u \subseteq Int
  OBVIOUS
<1> HIDE DEF u
<1> SUFFICES ASSUME NEW i \in DOMAIN u, NEW j \in DOMAIN u, u[i] = u[j]
             PROVE  i = j
  BY DEF OneEach, u
<1>3. CASE i \in DOMAIN s /\ u[i] = s[i] /\ j \in DOMAIN s /\ u[j] = s[j]
  BY <1>3 DEF OneEach
<1>4. CASE i - Len(s) \in DOMAIN t /\ u[i] = t[i - Len(s)] /\ j - Len(s) \in DOMAIN t /\ u[j] = t[j - Len(s)]
  <2>1. i - Len(s) = j - Len(s)
    BY <1>4 DEF OneEach
  <2> QED BY <1>2, <2>1
<1>5. \A a \in DOMAIN s, b \in DOMAIN t : s[a] # t[b]
  BY DEF Range
<1> QED BY <1>1, <1>3, <1>4, <1>5

LEMMA TailRange ==
  ASSUME NEW S, NEW s \in Seq(S), s # <<>>
  PROVE  /\ Tail(s) \in Seq(S)
         /\ Head(s) \in Range(s) /\ Last(s) \in Range(s)
         /\ Range(Tail(s)) \subseteq Range(s)
         /\ OneEach(s) => Head(s) \notin Range(Tail(s)) /\ OneEach(Tail(s))
<1> DEFINE t == Tail(s)
<1>1. t \in Seq(S) /\ DOMAIN t = 1 .. Len(s) - 1 /\ \A i \in DOMAIN t : i \in Int /\ i + 1 \in DOMAIN s /\ t[i] = s[i + 1]
  OBVIOUS
<1>2. 1 \in DOMAIN s /\ Head(s) = s[1] /\ Len(s) \in DOMAIN s /\ Last(s) = s[Len(s)]
  BY DEF Last
<1>3. \A i \in DOMAIN t : i + 1 # 1 /\ \A j \in DOMAIN t : i + 1 = j + 1 => i = j
  BY <1>1
<1> HIDE DEF t
<1>4. Head(s) \in Range(s) /\ Last(s) \in Range(s)
  BY <1>2 DEF Range
<1>5. Range(t) \subseteq Range(s)
  BY <1>1 DEF Range
<1>6. ASSUME OneEach(s) PROVE Head(s) \notin Range(t) /\ OneEach(t)
  <2>1. \A i \in DOMAIN t : t[i] # s[1]
    BY <1>1, <1>2, <1>3, <1>6 DEF OneEach
  <2>2. OneEach(t)
    BY <1>1, <1>3, <1>6 DEF OneEach
  <2> QED BY <1>2, <2>1, <2>2 DEF Range
<1> QED BY <1>1, <1>4, <1>5, <1>6 DEF t
--------------------------------------------------------------------------
(* The archives open                                                       *)

FilesOf(c)   == {f \in (DOMAIN c) \X Nat : f[2] \in DOMAIN dir[f[1]].files}
FoldersOf(c) == {x \in (DOMAIN c) \X Nat : x[2] \in DOMAIN dir[x[1]].folders}

Cabinet(c) == [files : Seq(FilesOf(c)), folders : Seq(FoldersOf(c)) \ {<<>>},
               prev : DOMAIN c \cup {None}, next : DOMAIN c \cup {None}]

\* A set of archives with their neighbours has all that their lists name.
Held(c) ==
  \A T \in SUBSET DOMAIN c : Linked(c, T) =>
    \A n \in T : /\ \A f \in Range(c[n].files) : f[1] \in T
                 /\ \A x \in Range(c[n].folders) : x[1] \in T

ChainInv(c) ==
  /\ c \in [DOMAIN c -> Cabinet(c)]
  /\ Mutual(c)
  /\ Held(c)
  /\ \A n \in DOMAIN c : OneEach(c[n].folders)

\* What is listed is there, and what a folder keeps for joining is listed.
Safe(fo, fs, xs) ==
  /\ \A f \in fs : FolderOf(f) \in DOMAIN fo
  /\ \A x \in xs : x \in DOMAIN fo /\ {fo[x].merge_next, fo[x].merge_prev} \subseteq fs \cup {None}

\* A file kept for joining a folder is in that folder.
Own(fo) ==
  \A x \in DOMAIN fo :
    /\ fo[x] = [k \in {"data", "num_blocks", "merge_prev", "merge_next"} |-> fo[x][k]]
    /\ fo[x].merge_next # None => FolderOf(fo[x].merge_next) = x
    /\ fo[x].merge_prev # None => FolderOf(fo[x].merge_prev) = x

HeapInv(c, fo) ==
  /\ ChainInv(c)
  /\ Own(fo)
  /\ \A n \in DOMAIN c : Safe(fo, Range(c[n].files), Range(c[n].folders))

LEMMA SafeIsNoDangling ==
  (\A n \in DOMAIN cab : Safe(fold, Range(cab[n].files), Range(cab[n].folders))) => NoDangling
<1> SUFFICES ASSUME \A n \in DOMAIN cab : Safe(fold, Range(cab[n].files), Range(cab[n].folders)),
                    NEW n \in DOMAIN cab
             PROVE  /\ \A i \in DOMAIN cab[n].files : FolderOf(cab[n].files[i]) \in DOMAIN fold
                    /\ \A k \in DOMAIN cab[n].folders :
                         /\ cab[n].folders[k] \in DOMAIN fold
                         /\ fold[cab[n].folders[k]].merge_next \in Range(cab[n].files) \cup {None}
                         /\ fold[cab[n].folders[k]].merge_prev \in Range(cab[n].files) \cup {None}
  BY DEF NoDangling
<1>1. \A i \in DOMAIN cab[n].files : cab[n].files[i] \in Range(cab[n].files)
  BY DEF Range
<1>2. \A i \in DOMAIN cab[n].folders : cab[n].folders[i] \in Range(cab[n].folders)
  BY DEF Range
<1> QED BY <1>1, <1>2 DEF Safe

--------------------------------------------------------------------------
(* A joining                                                               *)

\* Two archives that cabd_merge does not refuse to join.
Joinable(l, r) ==
  /\ l \in DOMAIN cab /\ r \in DOMAIN cab /\ l # r
  /\ cab[l].next = None /\ cab[r].prev = None
  /\ l \notin After(cab, r)

\* What the archives list that are not in the chain of r has nothing of it.
LEMMA Apart ==
  ASSUME ChainInv(cab), NEW l, NEW r, Joinable(l, r)
  PROVE  \A n \in DOMAIN cab :
           LET R == {r} \cup After(cab, r) IN
           /\ n \in R => /\ \A f \in Range(cab[n].files) : f[1] \in R
                         /\ \A x \in Range(cab[n].folders) : x[1] \in R
           /\ n \notin R => /\ \A f \in Range(cab[n].files) : f[1] \notin R
                            /\ \A x \in Range(cab[n].folders) : x[1] \notin R
<1> DEFINE R == {r} \cup After(cab, r)
<1>1. Mutual(cab) /\ r \in DOMAIN cab /\ cab[r].prev = None
  BY DEF ChainInv, Joinable
<1>2. Linked(cab, R)
  BY <1>1, ChainLinked
<1>3. Linked(cab, DOMAIN cab \ R)
  <2> HIDE DEF R
  <2> QED BY <1>1, <1>2, OthersLinked
<1>4. R \in SUBSET DOMAIN cab
  BY <1>2 DEF Linked
<1>5. ASSUME NEW T \in SUBSET DOMAIN cab, Linked(cab, T), NEW n \in T
      PROVE  /\ \A f \in Range(cab[n].files) : f[1] \in T
             /\ \A x \in Range(cab[n].folders) : x[1] \in T
  BY <1>5 DEF ChainInv, Held
<1> HIDE DEF R
<1>6. \A n \in R : /\ \A f \in Range(cab[n].files) : f[1] \in R
                   /\ \A x \in Range(cab[n].folders) : x[1] \in R
  BY <1>2, <1>4, <1>5
<1>7. \A n \in DOMAIN cab \ R : /\ \A f \in Range(cab[n].files) : f[1] \in DOMAIN cab \ R
                                /\ \A x \in Range(cab[n].folders) : x[1] \in DOMAIN cab \ R
  BY <1>3, <1>5
<1> QED BY <1>6, <1>7 DEF R

\* The archives when l and r name each other, and those that then have the
\* lists of all.
Hooked(l, r)  == [cab EXCEPT ![l].next = r, ![r].prev = l]
Members(l, r) == {l, r} \cup Before(Hooked(l, r), l) \cup After(Hooked(l, r), r)

LEMMA HookedIs ==
  ASSUME ChainInv(cab), NEW l, NEW r, Joinable(l, r)
  PROVE  LET c == Hooked(l, r) IN
         /\ DOMAIN c = DOMAIN cab
         /\ c \in [DOMAIN cab -> Cabinet(cab)]
         /\ \A n \in DOMAIN cab :
              /\ c[n].next = IF n = l THEN r ELSE cab[n].next
              /\ c[n].prev = IF n = r THEN l ELSE cab[n].prev
              /\ c[n].files = cab[n].files /\ c[n].folders = cab[n].folders
         /\ Mutual(c)
<1> DEFINE c == Hooked(l, r)
<1>1. cab \in [DOMAIN cab -> Cabinet(cab)] /\ Mutual(cab)
  BY DEF ChainInv
<1>2. /\ l \in DOMAIN cab /\ r \in DOMAIN cab /\ l # r
      /\ cab[l].next = None /\ cab[r].prev = None
  BY DEF Joinable
<1>3. c \in [DOMAIN cab -> Cabinet(cab)]
  BY <1>1, <1>2, ZenonT(60) DEF Cabinet, Hooked
<1>4. \A n \in DOMAIN cab :
        /\ c[n].next = IF n = l THEN r ELSE cab[n].next
        /\ c[n].prev = IF n = r THEN l ELSE cab[n].prev
        /\ c[n].files = cab[n].files /\ c[n].folders = cab[n].folders
  BY <1>1, <1>2 DEF Cabinet, Hooked
<1> HIDE DEF c
<1>5. DOMAIN c = DOMAIN cab
  BY <1>3
<1>6. Mutual(c)
  <2>1. None \notin DOMAIN cab
    BY <1>1 DEF Mutual
  <2>2. ASSUME NEW n \in DOMAIN cab, c[n].next # None
        PROVE  c[n].next \in DOMAIN cab /\ c[c[n].next].prev = n
    <3>1. CASE n = l
      BY <1>2, <1>4, <3>1
    <3>2. CASE n # l
      <4>1. cab[n].next \in DOMAIN cab /\ cab[cab[n].next].prev = n /\ c[n].next = cab[n].next
        BY <1>1, <1>4, <2>2, <3>2 DEF Mutual
      <4>2. cab[n].next # r
        BY <1>2, <2>1, <4>1
      <4> QED BY <1>4, <4>1, <4>2
    <3> QED BY <3>1, <3>2
  <2>3. ASSUME NEW n \in DOMAIN cab, c[n].prev # None
        PROVE  c[n].prev \in DOMAIN cab /\ c[c[n].prev].next = n
    <3>1. CASE n = r
      BY <1>2, <1>4, <3>1
    <3>2. CASE n # r
      <4>1. cab[n].prev \in DOMAIN cab /\ cab[cab[n].prev].next = n /\ c[n].prev = cab[n].prev
        BY <1>1, <1>4, <2>3, <3>2 DEF Mutual
      <4>2. cab[n].prev # l
        BY <1>2, <2>1, <4>1
      <4> QED BY <1>4, <4>1, <4>2
    <3> QED BY <3>1, <3>2
  <2> QED BY <1>5, <2>1, <2>2, <2>3 DEF Mutual
<1> QED BY <1>3, <1>4, <1>5, <1>6 DEF c

\* The members have their neighbours, and so have the others.
LEMMA MembersLinked ==
  ASSUME ChainInv(cab), NEW l, NEW r, Joinable(l, r)
  PROVE  /\ Linked(Hooked(l, r), Members(l, r)) /\ Linked(cab, Members(l, r))
         /\ {r} \cup After(cab, r) \subseteq Members(l, r)
<1> DEFINE c == Hooked(l, r)
           S == Members(l, r)
           A == After(c, r)
           B == Before(c, l)
<1>1. /\ DOMAIN c = DOMAIN cab /\ Mutual(c)
      /\ \A n \in DOMAIN cab :
           /\ c[n].next = IF n = l THEN r ELSE cab[n].next
           /\ c[n].prev = IF n = r THEN l ELSE cab[n].prev
  BY HookedIs
<1>2. /\ l \in DOMAIN cab /\ r \in DOMAIN cab
      /\ cab[l].next = None /\ cab[r].prev = None
  BY DEF Joinable
<1>3. S = {l, r} \cup B \cup A
  BY DEF Members
<1> HIDE DEF c, S
<1>4. A \subseteq DOMAIN c /\ \A m \in A \cup {r} : c[m].next # None => c[m].next \in A
  BY <1>1, <1>2, AfterClosed
<1>5. \A m \in A : c[m].prev # None => c[m].prev \in A \cup {r}
  BY <1>1, <1>2, AfterBack
<1>6. B \subseteq DOMAIN c /\ \A m \in B \cup {l} : c[m].prev # None => c[m].prev \in B
  BY <1>1, <1>2, BeforeClosed
<1>7. \A m \in B : c[m].next \in B \cup {l}
  BY <1>1, <1>2, BeforeBack
<1>8. Linked(c, S)
  <2> HIDE DEF A, B
  <2> QED BY <1>1, <1>2, <1>3, <1>4, <1>5, <1>6, <1>7 DEF Linked
<1>9. Linked(cab, S)
  BY <1>1, <1>2, <1>8 DEF Linked
<1>10. After(cab, r) \subseteq A
  <2>1. \A k \in A \cup {r} : cab[k].next # None => cab[k].next \in A
    BY <1>1, <1>2, <1>4
  <2>2. A \in SUBSET DOMAIN cab
    BY <1>1, <1>4
  <2> HIDE DEF A
  <2> QED BY <2>1, <2>2, AfterLeast
<1> QED BY <1>3, <1>8, <1>9, <1>10 DEF c, S

\* The archives whose lists become those of all.
Shaped(r) == r = [files |-> r.files, folders |-> r.folders, prev |-> r.prev, next |-> r.next]

LEMMA JoinedShape ==
  ASSUME ChainInv(cab), NEW l, NEW r, Joinable(l, r), NEW fs, NEW xs, NEW J, J = Joined(l, r, fs, xs)
  PROVE  /\ J = [n \in DOMAIN cab |-> J[n]]
         /\ \A n \in DOMAIN cab :
              /\ Shaped(J[n])
              /\ J[n].next = IF n = l THEN r ELSE cab[n].next
              /\ J[n].prev = IF n = r THEN l ELSE cab[n].prev
              /\ n \in Members(l, r) => J[n].files = fs /\ J[n].folders = xs
              /\ n \notin Members(l, r) => J[n].files = cab[n].files /\ J[n].folders = cab[n].folders
<1> DEFINE c == Hooked(l, r)
           S == Members(l, r)
<1>1. /\ DOMAIN c = DOMAIN cab
      /\ c \in [DOMAIN cab -> Cabinet(cab)]
      /\ \A n \in DOMAIN cab :
           /\ c[n].next = IF n = l THEN r ELSE cab[n].next
           /\ c[n].prev = IF n = r THEN l ELSE cab[n].prev
           /\ c[n].files = cab[n].files /\ c[n].folders = cab[n].folders
  BY HookedIs
<1>2. J = [n \in DOMAIN c |-> IF n \in S THEN [c[n] EXCEPT !.files = fs, !.folders = xs] ELSE c[n]]
  BY DEF Joined, Hooked, Members
<1> HIDE DEF c, S
<1>3. J = [n \in DOMAIN cab |-> J[n]]
  BY <1>1, <1>2
<1>4. ASSUME NEW n \in DOMAIN cab
      PROVE  /\ J[n].next = c[n].next /\ J[n].prev = c[n].prev
             /\ Shaped(J[n])
             /\ n \in S => J[n].files = fs /\ J[n].folders = xs
             /\ n \notin S => J[n].files = c[n].files /\ J[n].folders = c[n].folders
  <2>1. c[n] = [files |-> c[n].files, folders |-> c[n].folders, prev |-> c[n].prev, next |-> c[n].next]
    BY <1>1 DEF Cabinet
  <2>2. CASE n \in S
    <3>1. J[n] = [c[n] EXCEPT !.files = fs, !.folders = xs]
      BY <1>1, <1>2, <2>2
    <3>2. J[n] = [files |-> fs, folders |-> xs, prev |-> c[n].prev, next |-> c[n].next]
      BY <2>1, <3>1
    <3> QED BY <2>2, <3>2 DEF Shaped
  <2>3. CASE n \notin S
    <3>1. J[n] = c[n]
      BY <1>1, <1>2, <2>3
    <3> QED BY <2>1, <2>3, <3>1 DEF Shaped
  <2> QED BY <2>2, <2>3
<1> QED BY <1>1, <1>3, <1>4 DEF S

LEMMA JoinedLists ==
  ASSUME ChainInv(cab), NEW l, NEW r, Joinable(l, r), NEW fs, NEW xs, NEW J, J = Joined(l, r, fs, xs)
  PROVE  /\ DOMAIN J = DOMAIN cab
         /\ \A n \in DOMAIN cab :
              /\ J[n].next = IF n = l THEN r ELSE cab[n].next
              /\ J[n].prev = IF n = r THEN l ELSE cab[n].prev
              /\ n \in Members(l, r) => J[n].files = fs /\ J[n].folders = xs
              /\ n \notin Members(l, r) => J[n].files = cab[n].files /\ J[n].folders = cab[n].folders
<1>1. J = [n \in DOMAIN cab |-> J[n]]
  BY JoinedShape
<1>2. DOMAIN J = DOMAIN cab
  BY <1>1
<1>3. ASSUME NEW n \in DOMAIN cab
      PROVE  /\ J[n].next = IF n = l THEN r ELSE cab[n].next
             /\ J[n].prev = IF n = r THEN l ELSE cab[n].prev
             /\ n \in Members(l, r) => J[n].files = fs /\ J[n].folders = xs
             /\ n \notin Members(l, r) => J[n].files = cab[n].files /\ J[n].folders = cab[n].folders
  BY JoinedShape
<1> QED BY <1>2, <1>3

LEMMA JoinedIs ==
  ASSUME ChainInv(cab), NEW l, NEW r, Joinable(l, r),
         NEW fs \in Seq(FilesOf(cab)), NEW xs \in Seq(FoldersOf(cab)), xs # <<>>, OneEach(xs),
         Range(fs) \subseteq Range(cab[l].files) \cup Range(cab[r].files),
         Range(xs) \subseteq Range(cab[l].folders) \cup Range(cab[r].folders)
  PROVE  LET J == Joined(l, r, fs, xs) IN
         /\ DOMAIN J = DOMAIN cab
         /\ ChainInv(J)
         /\ \A n \in DOMAIN cab :
              \/ J[n].files = fs /\ J[n].folders = xs
              \/ /\ J[n].files = cab[n].files /\ J[n].folders = cab[n].folders
                 /\ n \notin {r} \cup After(cab, r)
<1> SUFFICES ASSUME NEW J, J = Joined(l, r, fs, xs)
             PROVE  /\ DOMAIN J = DOMAIN cab
                    /\ ChainInv(J)
                    /\ \A n \in DOMAIN cab :
                         \/ J[n].files = fs /\ J[n].folders = xs
                         \/ /\ J[n].files = cab[n].files /\ J[n].folders = cab[n].folders
                            /\ n \notin {r} \cup After(cab, r)
  OBVIOUS
<1> DEFINE c == Hooked(l, r)
           S == Members(l, r)
<1>1. /\ Held(cab)
      /\ \A n \in DOMAIN cab : OneEach(cab[n].folders)
  BY DEF ChainInv
<1>2. l \in S /\ r \in S
  BY DEF Members
<1>3. DOMAIN c = DOMAIN cab /\ c \in [DOMAIN cab -> Cabinet(cab)] /\ Mutual(c)
  BY HookedIs
<1>4. /\ J = [n \in DOMAIN cab |-> J[n]]
      /\ \A n \in DOMAIN cab :
           /\ Shaped(J[n])
           /\ J[n].next = c[n].next /\ J[n].prev = c[n].prev
           /\ n \in S => J[n].files = fs /\ J[n].folders = xs
           /\ n \notin S => J[n].files = cab[n].files /\ J[n].folders = cab[n].folders
  <2>1. /\ J = [n \in DOMAIN cab |-> J[n]]
        /\ \A n \in DOMAIN cab :
             /\ Shaped(J[n])
             /\ J[n].next = IF n = l THEN r ELSE cab[n].next
             /\ J[n].prev = IF n = r THEN l ELSE cab[n].prev
             /\ n \in S => J[n].files = fs /\ J[n].folders = xs
             /\ n \notin S => J[n].files = cab[n].files /\ J[n].folders = cab[n].folders
    BY JoinedShape
  <2>2. \A n \in DOMAIN cab : /\ c[n].next = IF n = l THEN r ELSE cab[n].next
                              /\ c[n].prev = IF n = r THEN l ELSE cab[n].prev
    BY HookedIs
  <2> HIDE DEF c, S
  <2> QED BY <2>1, <2>2
<1>5. Linked(c, S) /\ Linked(cab, S) /\ {r} \cup After(cab, r) \subseteq S
  BY MembersLinked
<1> HIDE DEF c, S
<1>6. DOMAIN J = DOMAIN cab /\ J \in [DOMAIN J -> Cabinet(J)]
  <2>1. DOMAIN J = DOMAIN cab
    BY <1>4
  <2>2. Cabinet(J) = Cabinet(cab)
    <3>1. FilesOf(J) = FilesOf(cab) /\ FoldersOf(J) = FoldersOf(cab)
      BY <2>1 DEF FilesOf, FoldersOf
    <3> QED BY <2>1, <3>1, Zenon DEF Cabinet
  <2>3. ASSUME NEW n \in DOMAIN cab PROVE J[n] \in Cabinet(cab)
    <3>1. c[n] \in Cabinet(cab) /\ cab[n] \in Cabinet(cab)
      BY <1>3 DEF ChainInv
    <3>2. /\ J[n].files \in Seq(FilesOf(cab)) /\ J[n].folders \in Seq(FoldersOf(cab)) \ {<<>>}
          /\ J[n].prev \in DOMAIN cab \cup {None} /\ J[n].next \in DOMAIN cab \cup {None}
      BY <1>4, <3>1 DEF Cabinet
    <3>3. Shaped(J[n])
      BY <1>4
    <3> QED BY <3>2, <3>3 DEF Cabinet, Shaped
  <2> QED BY <1>4, <2>1, <2>2, <2>3
<1>7. Mutual(J)
  BY <1>3, <1>4, <1>6 DEF Mutual
<1>8. ASSUME NEW T \in SUBSET DOMAIN cab, Linked(J, T)
      PROVE  Linked(c, T) /\ Linked(cab, T)
  <2>1. Linked(c, T)
    BY <1>3, <1>4, <1>8 DEF Linked
  <2>2. \A n \in DOMAIN cab :
          /\ cab[n].next # None => c[n].next = cab[n].next
          /\ cab[n].prev # None => c[n].prev = cab[n].prev
    BY HookedIs DEF Joinable, c
  <2>3. ASSUME NEW n \in T
        PROVE  /\ cab[n].next # None => cab[n].next \in T
               /\ cab[n].prev # None => cab[n].prev \in T
    <3>1. /\ c[n].next # None => c[n].next \in T
          /\ c[n].prev # None => c[n].prev \in T
      BY <2>1 DEF Linked
    <3> QED BY <2>2, <3>1
  <2> QED BY <2>1, <2>3 DEF Linked
<1>9. Held(J)
  <2> SUFFICES ASSUME NEW T \in SUBSET DOMAIN cab, Linked(J, T), NEW n \in T
               PROVE  /\ \A f \in Range(J[n].files) : f[1] \in T
                      /\ \A x \in Range(J[n].folders) : x[1] \in T
    BY <1>6 DEF Held
  <2>1. Linked(c, T) /\ Linked(cab, T) /\ n \in DOMAIN cab
    BY <1>8
  <2>2. \A m \in T : /\ \A f \in Range(cab[m].files) : f[1] \in T
                     /\ \A x \in Range(cab[m].folders) : x[1] \in T
    BY <1>1, <2>1 DEF Held
  <2>3. CASE n \in S
    <3>1. l \in T /\ r \in T
      <4>1. l \in DOMAIN c /\ r \in DOMAIN c
        BY <1>3 DEF Joinable
      <4>2. l \in T \/ r \in T
        <5>1. CASE n \in Before(c, l) \cup {l}
          BY <1>3, <2>1, <4>1, <5>1, BeforeLinked
        <5>2. CASE n \in After(c, r) \cup {r}
          BY <1>3, <2>1, <4>1, <5>2, AfterLinked
        <5> QED BY <2>3, <5>1, <5>2 DEF S, Members, c
      <4>3. c[l].next = r /\ c[r].prev = l /\ l # None /\ r # None
        BY <1>3, HookedIs DEF Mutual, Joinable, c
      <4> QED BY <2>1, <4>2, <4>3 DEF Linked
    <3>2. J[n].files = fs /\ J[n].folders = xs
      BY <1>4, <2>1, <2>3
    <3> QED BY <2>2, <3>1, <3>2
  <2>4. CASE n \notin S
    <3>1. J[n].files = cab[n].files /\ J[n].folders = cab[n].folders
      BY <1>4, <2>1, <2>4
    <3> QED BY <2>2, <3>1
  <2> QED BY <2>3, <2>4
<1>10. \A n \in DOMAIN cab : OneEach(J[n].folders)
  BY <1>1, <1>4
<1>11. ChainInv(J)
  BY <1>6, <1>7, <1>9, <1>10 DEF ChainInv
<1> QED BY <1>4, <1>5, <1>6, <1>11

\* The invariant of a heap that is the next one.
LEMMA HeapPrimed ==
  ASSUME NEW c, NEW fo, HeapInv(c, fo), cab' = c, fold' = fo, dir' = dir
  PROVE  HeapInv(cab, fold)'
<1>1. FilesOf(cab)' = FilesOf(c) /\ FoldersOf(cab)' = FoldersOf(c)
  BY DEF FilesOf, FoldersOf
<1>2. Cabinet(cab)' = Cabinet(c)
  BY <1>1 DEF Cabinet
<1>3. ChainInv(cab)'
  <2>1. ChainInv(c)
    BY DEF HeapInv
  <2> QED BY <1>2, <2>1 DEF ChainInv, Mutual, Held, Linked, OneEach
<1>4. \A f : FolderOf(f)' = FolderOf(f)
  BY DEF FolderOf, File
<1>5. Own(fold)'
  BY <1>4 DEF HeapInv, Own
<1>6. (\A n \in DOMAIN cab : Safe(fold, Range(cab[n].files), Range(cab[n].folders)))'
  BY <1>4 DEF HeapInv, Safe
<1> QED BY <1>3, <1>5, <1>6 DEF HeapInv

\* A joining keeps the invariant: what it frees was listed by the archives
\* joined alone, and their list no longer has it.
LEMMA MergeKeeps ==
  ASSUME HeapInv(cab, fold), NEW l \in DOMAIN cab, NEW r \in DOMAIN cab, Merge(l, r), dir' = dir
  PROVE  HeapInv(cab, fold)' /\ DOMAIN cab' = DOMAIN cab
<1> DEFINE lfol  == Last(cab[l].folders)
           rfol  == Head(cab[r].folders)
           lf    == cab[l].files
           rf    == cab[r].files
           lx    == cab[l].folders
           rx    == cab[r].folders
           R     == {r} \cup After(cab, r)
           files == lf \o rf
<1>1. ASSUME UNCHANGED heap PROVE HeapInv(cab, fold)' /\ DOMAIN cab' = DOMAIN cab
  BY <1>1, HeapPrimed DEF heap
<1> SUFFICES ASSUME Joinable(l, r),
                    \/ /\ fold[lfol].merge_next = None /\ fold[rfol].merge_prev = None
                       /\ cab' = Joined(l, r, files, lx \o rx)
                       /\ fold' = fold
                    \/ /\ fold[lfol].merge_next # None
                       /\ cab' = Joined(l, r, Kept(files, rfol), lx \o Tail(rx))
                       /\ fold' = [x \in DOMAIN fold \ {rfol} |->
                                     IF x = lfol THEN Merged(lfol, rfol) ELSE fold[x]]
             PROVE  HeapInv(cab, fold)' /\ DOMAIN cab' = DOMAIN cab
  BY <1>1 DEF Merge, Joinable, CanMerge
<1>2. ChainInv(cab) /\ Own(fold)
  BY DEF HeapInv
<1>3. /\ lf \in Seq(FilesOf(cab)) /\ rf \in Seq(FilesOf(cab))
      /\ lx \in Seq(FoldersOf(cab)) /\ rx \in Seq(FoldersOf(cab))
      /\ lx # <<>> /\ rx # <<>> /\ OneEach(lx) /\ OneEach(rx)
  BY <1>2 DEF ChainInv, Cabinet
<1>4. \A n \in DOMAIN cab :
        /\ n \in R => /\ \A f \in Range(cab[n].files) : f[1] \in R
                      /\ \A x \in Range(cab[n].folders) : x[1] \in R
        /\ n \notin R => /\ \A f \in Range(cab[n].files) : f[1] \notin R
                         /\ \A x \in Range(cab[n].folders) : x[1] \notin R
  BY <1>2, Apart
<1>5. l \notin R /\ r \in R
  BY DEF Joinable
<1>6. \A n \in DOMAIN cab : Safe(fold, Range(cab[n].files), Range(cab[n].folders))
  BY DEF HeapInv
<1> HIDE DEF lfol, rfol, lf, rf, lx, rx, R, files
<1>7. Range(lx) \cap Range(rx) = {}
  BY <1>4, <1>5 DEF lx, rx
<1>8. files \in Seq(FilesOf(cab)) /\ Range(files) = Range(lf) \cup Range(rf)
  BY <1>3, ConcatRange DEF files
<1>9. /\ Safe(fold, Range(lf), Range(lx)) /\ Safe(fold, Range(rf), Range(rx))
      /\ lfol \in Range(lx) /\ rfol \in Range(rx)
  BY <1>3, <1>6, TailRange DEF lf, rf, lx, rx, lfol, rfol
<1>10. CASE /\ cab' = Joined(l, r, files, lx \o rx)
            /\ fold' = fold
  <2> DEFINE xs == lx \o rx
             J == Joined(l, r, files, xs)
  <2>1. xs \in Seq(FoldersOf(cab)) /\ Range(xs) = Range(lx) \cup Range(rx) /\ OneEach(xs) /\ xs # <<>>
    BY <1>3, <1>7, ConcatRange, ConcatOneEach
  <2>2. /\ DOMAIN J = DOMAIN cab
        /\ ChainInv(J)
        /\ \A n \in DOMAIN cab :
             \/ J[n].files = files /\ J[n].folders = xs
             \/ J[n].files = cab[n].files /\ J[n].folders = cab[n].folders
    <3> HIDE DEF xs
    <3> QED BY <1>2, <1>8, <2>1, JoinedIs DEF lf, rf, lx, rx
  <2>3. Safe(fold, Range(files), Range(xs))
    <3> HIDE DEF xs
    <3> QED BY <1>8, <1>9, <2>1 DEF Safe
  <2> HIDE DEF J, xs
  <2>4. HeapInv(J, fold)
    BY <1>2, <1>6, <2>2, <2>3 DEF HeapInv
  <2>5. cab' = J
    BY <1>10 DEF J, xs
  <2> QED BY <1>10, <2>2, <2>4, <2>5, HeapPrimed
<1>11. CASE /\ cab' = Joined(l, r, Kept(files, rfol), lx \o Tail(rx))
            /\ fold' = [x \in DOMAIN fold \ {rfol} |->
                          IF x = lfol THEN Merged(lfol, rfol) ELSE fold[x]]
            /\ fold[lfol].merge_next # None
  <2> DEFINE fs == Kept(files, rfol)
             xs == lx \o Tail(rx)
             J == Joined(l, r, fs, xs)
             fo == [x \in DOMAIN fold \ {rfol} |->
                      IF x = lfol THEN Merged(lfol, rfol) ELSE fold[x]]
  <2>1. fs \in Seq(FilesOf(cab)) /\ Range(fs) = {f \in Range(files) : FolderOf(f) # rfol}
    BY <1>8, KeptFiles
  <2>2. /\ Tail(rx) \in Seq(FoldersOf(cab)) /\ Range(Tail(rx)) \subseteq Range(rx)
        /\ rfol \notin Range(Tail(rx)) /\ OneEach(Tail(rx))
    BY <1>3, TailRange DEF rfol, rx
  <2>3. xs \in Seq(FoldersOf(cab)) /\ Range(xs) = Range(lx) \cup Range(Tail(rx)) /\ OneEach(xs) /\ xs # <<>>
    <3> DEFINE t == Tail(rx)
    <3>1. t \in Seq(FoldersOf(cab)) /\ OneEach(t) /\ Range(lx) \cap Range(t) = {}
      BY <1>7, <2>2
    <3> HIDE DEF t
    <3>2. lx \o t \in Seq(FoldersOf(cab)) /\ Range(lx \o t) = Range(lx) \cup Range(t) /\ OneEach(lx \o t) /\ lx \o t # <<>>
      BY <1>3, <3>1, ConcatRange, ConcatOneEach
    <3> QED BY <3>2 DEF t
  <2>4. rfol \notin Range(xs) /\ lfol # rfol
    BY <1>7, <1>9, <2>2, <2>3
  <2> HIDE DEF fs, xs
  <2>5. /\ DOMAIN J = DOMAIN cab
        /\ ChainInv(J)
        /\ \A n \in DOMAIN cab :
             \/ J[n].files = fs /\ J[n].folders = xs
             \/ /\ J[n].files = cab[n].files /\ J[n].folders = cab[n].folders
                /\ n \notin R
    <3>1. /\ Range(fs) \subseteq Range(lf) \cup Range(rf)
          /\ Range(xs) \subseteq Range(lx) \cup Range(rx)
      BY <1>8, <2>1, <2>2, <2>3
    <3> QED BY <1>2, <2>1, <2>3, <3>1, JoinedIs DEF lf, rf, lx, rx, R
  <2>6. lfol \in DOMAIN fold /\ rfol \in DOMAIN fold
    BY <1>9 DEF Safe
  <2>7. /\ Merged(lfol, rfol) = [k \in {"data", "num_blocks", "merge_prev", "merge_next"} |-> Merged(lfol, rfol)[k]]
        /\ Merged(lfol, rfol).merge_prev = fold[lfol].merge_prev
        /\ Merged(lfol, rfol).merge_next \in {None, fold[lfol].merge_next}
    <3> DEFINE M == Merged(lfol, rfol)
               next == fold[rfol].merge_next
    <3>1. fold[lfol] = [k \in {"data", "num_blocks", "merge_prev", "merge_next"} |-> fold[lfol][k]]
      BY <1>2, <2>6 DEF Own
    <3>2. next # None => FolderOf(next) = rfol
      BY <1>2, <2>6 DEF Own
    <3>3. M.merge_next = IF next = None \/ FolderOf(next) # rfol THEN next ELSE fold[lfol].merge_next
      BY <3>1 DEF Merged
    <3>4. M.merge_prev = fold[lfol].merge_prev
      BY <3>1 DEF Merged
    <3>5. M = [k \in {"data", "num_blocks", "merge_prev", "merge_next"} |-> M[k]]
      BY <3>1 DEF Merged
    <3> QED BY <3>2, <3>3, <3>4, <3>5
  <2>8. /\ DOMAIN fo = DOMAIN fold \ {rfol}
        /\ \A x \in DOMAIN fo :
             /\ fo[x] = [k \in {"data", "num_blocks", "merge_prev", "merge_next"} |-> fo[x][k]]
             /\ fo[x].merge_prev = fold[x].merge_prev
             /\ fo[x].merge_next \in {None, fold[x].merge_next}
    <3>1. DOMAIN fo = DOMAIN fold \ {rfol} /\ \A x \in DOMAIN fo : fo[x] = IF x = lfol THEN Merged(lfol, rfol) ELSE fold[x]
      OBVIOUS
    <3> HIDE DEF fo
    <3> SUFFICES ASSUME NEW x \in DOMAIN fo
                 PROVE  /\ fo[x] = [k \in {"data", "num_blocks", "merge_prev", "merge_next"} |-> fo[x][k]]
                        /\ fo[x].merge_prev = fold[x].merge_prev
                        /\ fo[x].merge_next \in {None, fold[x].merge_next}
      BY <3>1
    <3>2. CASE x = lfol
      BY <2>7, <3>1, <3>2
    <3>3. CASE x # lfol
      BY <1>2, <3>1, <3>3 DEF Own
    <3> QED BY <3>2, <3>3
  <2> HIDE DEF J, fo
  <2>9. Own(fo)
    BY <1>2, <2>8 DEF Own
  <2>10. Safe(fo, Range(fs), Range(xs))
    <3>1. ASSUME NEW f \in Range(fs) PROVE FolderOf(f) \in DOMAIN fo
      <4>1. f \in Range(lf) \cup Range(rf) /\ FolderOf(f) # rfol
        BY <1>8, <2>1
      <4> QED BY <1>9, <2>8, <4>1 DEF Safe
    <3>2. ASSUME NEW x \in Range(xs)
          PROVE  x \in DOMAIN fo /\ {fo[x].merge_next, fo[x].merge_prev} \subseteq Range(fs) \cup {None}
      <4>1. x \in Range(lx) \cup Range(rx) /\ x # rfol
        BY <2>2, <2>3, <2>4
      <4>2. x \in DOMAIN fold /\ {fold[x].merge_next, fold[x].merge_prev} \subseteq Range(files) \cup {None}
        BY <1>8, <1>9, <4>1 DEF Safe
      <4>3. x \in DOMAIN fo
        BY <2>8, <4>1, <4>2
      <4>4. \A g \in {fold[x].merge_next, fold[x].merge_prev} \ {None} : g \in Range(fs)
        <5>1. \A g \in {fold[x].merge_next, fold[x].merge_prev} \ {None} : FolderOf(g) = x
          BY <1>2, <4>2 DEF Own
        <5> QED BY <2>1, <4>1, <4>2, <5>1
      <4> QED BY <2>8, <4>3, <4>4
    <3> QED BY <3>1, <3>2 DEF Safe
  <2>11. ASSUME NEW n \in DOMAIN cab, n \notin R PROVE Safe(fo, Range(cab[n].files), Range(cab[n].folders))
    <3>1. rfol[1] \in R
      BY <1>4, <1>5, <1>9 DEF rx
    <3>2. ASSUME NEW f \in Range(cab[n].files) PROVE FolderOf(f) \in DOMAIN fo
      <4>1. f[1] \notin R /\ FolderOf(f) \in DOMAIN fold
        BY <1>4, <1>6, <2>11 DEF Safe
      <4>2. FolderOf(f)[1] = f[1]
        BY DEF FolderOf
      <4> QED BY <2>8, <3>1, <4>1, <4>2
    <3>3. ASSUME NEW x \in Range(cab[n].folders)
          PROVE  x \in DOMAIN fo /\ {fo[x].merge_next, fo[x].merge_prev} \subseteq Range(cab[n].files) \cup {None}
      <4>1. x[1] \notin R
        BY <1>4, <2>11
      <4>2. x \in DOMAIN fold /\ {fold[x].merge_next, fold[x].merge_prev} \subseteq Range(cab[n].files) \cup {None}
        BY <1>6 DEF Safe
      <4> QED BY <2>8, <3>1, <4>1, <4>2
    <3> QED BY <3>2, <3>3 DEF Safe
  <2>12. HeapInv(J, fo)
    BY <2>5, <2>9, <2>10, <2>11 DEF HeapInv
  <2>13. cab' = J /\ fold' = fo
    BY <1>11 DEF J, fo, fs, xs
  <2> QED BY <1>11, <2>5, <2>12, <2>13, HeapPrimed
<1> QED BY <1>10, <1>11 DEF lfol, rfol, lf, rf, lx, rx, files
--------------------------------------------------------------------------
(* Every step                                                              *)

Fresh ==
  /\ cab = [n \in DOMAIN cab |-> Opened(n)]
  /\ DOMAIN fold = FoldersOf(cab)
  /\ \A x \in DOMAIN fold : fold[x] = OpenedFolder(x[1], x[2])

Known ==
  /\ \A n \in Here : dir[n] \in Archive[n]
  /\ left \subseteq Here
  /\ src \in Here \cup {None}
  /\ pc \in {"prev", "next"} => search \in Here
  /\ pc \in {"prev", "next", "open"} => src \in Here
  /\ DOMAIN cab \subseteq Here
  /\ pc \in {"prepend", "append"} => at \in DOMAIN cab /\ src \in DOMAIN cab

\* Until the source has been opened the archives are as they were read.
CabInv ==
  /\ Known
  /\ HeapInv(cab, fold)
  /\ pc \notin {"prepend", "append", "files", "close"} => Fresh

LEMMA ArchiveIs ==
  ASSUME Known, NEW n \in Here
  PROVE  /\ dir[n].folders \in Seq(Range(dir[n].folders)) \ {<<>>}
         /\ dir[n].files \in Seq(Range(dir[n].files))
         /\ \A j \in DOMAIN dir[n].files :
              LET f == dir[n].files[j] IN
              /\ f.join \in {"none", "next", "prev", "both"}
              /\ f.join = "none" => f.folder \in DOMAIN dir[n].folders
              /\ f.join = "both" => Len(dir[n].folders) = 1
<1>1. n \in Names /\ dir[n] \in Archive[n]
  BY DEF Known, Here
<1> QED BY <1>1, CabAssumption

\* The first file that joins a folder to another archive is one of that
\* folder.
LEMMA FirstJoinIs ==
  ASSUME Known, NEW n \in Here, NEW kinds,
         FirstJoin(n, kinds) # None
  PROVE  \E i \in DOMAIN dir[n].files :
           FirstJoin(n, kinds) = <<n, i>> /\ dir[n].files[i].join \in kinds
<1> DEFINE is == {i \in DOMAIN dir[n].files : dir[n].files[i].join \in kinds}
<1>1. is # {} /\ FirstJoin(n, kinds) = <<n, CHOOSE i \in is : \A j \in is : i <= j>>
  BY DEF FirstJoin
<1>2. \E i \in is : \A j \in is : i <= j
  <2>1. is \subseteq Nat
    BY ArchiveIs
  <2> HIDE DEF is
  <2> QED BY <1>1, <2>1, LeastNat
<1>3. (CHOOSE i \in is : \A j \in is : i <= j) \in is
  <2> HIDE DEF is
  <2> QED BY <1>2
<1> QED BY <1>1, <1>3

LEMMA FreshHeap ==
  ASSUME Known, Fresh
  PROVE  HeapInv(cab, fold)
<1>1. \A n \in DOMAIN cab : n \in Here /\ cab[n] = Opened(n)
  BY DEF Fresh, Known
<1>2. None \notin DOMAIN cab
  BY <1>1, CabAssumption DEF Here
<1>3. ASSUME NEW n \in DOMAIN cab
      PROVE  /\ cab[n] \in Cabinet(cab)
             /\ OneEach(cab[n].folders)
             /\ cab[n].prev = None /\ cab[n].next = None
             /\ Range(cab[n].files) = {<<n, i>> : i \in DOMAIN dir[n].files}
             /\ Range(cab[n].folders) = {<<n, k>> : k \in DOMAIN dir[n].folders}
  <2> DEFINE fs == [i \in DOMAIN dir[n].files |-> <<n, i>>]
             xs == [k \in DOMAIN dir[n].folders |-> <<n, k>>]
  <2>1. cab[n] = [files |-> fs, folders |-> xs, prev |-> None, next |-> None]
    BY <1>1 DEF Opened
  <2>2. /\ DOMAIN dir[n].files = 1 .. Len(dir[n].files) /\ Len(dir[n].files) \in Nat
        /\ DOMAIN dir[n].folders = 1 .. Len(dir[n].folders) /\ Len(dir[n].folders) \in Nat \ {0}
    BY <1>1, ArchiveIs
  <2>3. fs \in Seq(FilesOf(cab)) /\ Range(fs) = {<<n, i>> : i \in DOMAIN dir[n].files}
    <3>1. \A i \in DOMAIN dir[n].files : <<n, i>> \in FilesOf(cab)
      BY <2>2 DEF FilesOf
    <3>2. fs \in Seq(FilesOf(cab))
      BY <2>2, <3>1
    <3>3. Range(fs) = {<<n, i>> : i \in DOMAIN dir[n].files}
      BY DEF Range
    <3> QED BY <3>2, <3>3
  <2>4. xs \in Seq(FoldersOf(cab)) \ {<<>>} /\ Range(xs) = {<<n, k>> : k \in DOMAIN dir[n].folders}
    <3>1. \A k \in DOMAIN dir[n].folders : <<n, k>> \in FoldersOf(cab)
      BY <2>2 DEF FoldersOf
    <3>2. xs \in Seq(FoldersOf(cab))
      BY <2>2, <3>1
    <3>3. xs # <<>>
      BY <2>2, 1 \in DOMAIN xs
    <3>4. Range(xs) = {<<n, k>> : k \in DOMAIN dir[n].folders}
      BY DEF Range
    <3> QED BY <3>2, <3>3, <3>4
  <2>5. OneEach(xs)
    BY DEF OneEach
  <2> HIDE DEF fs, xs
  <2> QED BY <2>1, <2>3, <2>4, <2>5 DEF Cabinet
<1>4. Mutual(cab)
  BY <1>2, <1>3 DEF Mutual
<1>5. Held(cab)
  BY <1>3 DEF Held, Linked
<1>6. ChainInv(cab)
  <2>1. cab = [n \in DOMAIN cab |-> cab[n]]
    BY DEF Fresh
  <2>2. cab \in [DOMAIN cab -> Cabinet(cab)]
    BY <1>3, <2>1
  <2> QED BY <1>3, <1>4, <1>5, <2>2 DEF ChainInv
<1>7. ASSUME NEW x \in DOMAIN fold
      PROVE  /\ fold[x] = [k \in {"data", "num_blocks", "merge_prev", "merge_next"} |-> fold[x][k]]
             /\ \A g \in {fold[x].merge_next, fold[x].merge_prev} \ {None} :
                  /\ FolderOf(g) = x
                  /\ g \in {<<x[1], i>> : i \in DOMAIN dir[x[1]].files}
  <2> DEFINE n == x[1]
             k == x[2]
  <2>1. n \in DOMAIN cab /\ n \in Here /\ k \in DOMAIN dir[n].folders /\ x = <<n, k>>
    BY <1>1 DEF Fresh, FoldersOf
  <2>2. fold[x] = [data |-> << <<n, k>> >>,
                   num_blocks |-> Len(dir[n].folders[k]),
                   merge_prev |-> IF k = 1 THEN FirstJoin(n, {"prev", "both"}) ELSE None,
                   merge_next |-> IF k = Len(dir[n].folders) THEN FirstJoin(n, {"next", "both"}) ELSE None]
    BY DEF Fresh, OpenedFolder
  <2> HIDE DEF n, k
  <2>3. ASSUME k = 1, FirstJoin(n, {"prev", "both"}) # None
        PROVE  /\ FolderOf(FirstJoin(n, {"prev", "both"})) = x
               /\ FirstJoin(n, {"prev", "both"}) \in {<<n, i>> : i \in DOMAIN dir[n].files}
    <3>1. PICK i \in DOMAIN dir[n].files :
            FirstJoin(n, {"prev", "both"}) = <<n, i>> /\ dir[n].files[i].join \in {"prev", "both"}
      BY <2>1, <2>3, FirstJoinIs
    <3>2. FolderOf(<<n, i>>) = <<n, 1>>
      BY <3>1 DEF FolderOf, File
    <3> QED BY <2>1, <2>3, <3>1, <3>2
  <2>4. ASSUME k = Len(dir[n].folders), FirstJoin(n, {"next", "both"}) # None
        PROVE  /\ FolderOf(FirstJoin(n, {"next", "both"})) = x
               /\ FirstJoin(n, {"next", "both"}) \in {<<n, i>> : i \in DOMAIN dir[n].files}
    <3>1. PICK i \in DOMAIN dir[n].files :
            FirstJoin(n, {"next", "both"}) = <<n, i>> /\ dir[n].files[i].join \in {"next", "both"}
      BY <2>1, <2>4, FirstJoinIs
    <3>2. dir[n].files[i].join = "both" => Len(dir[n].folders) = 1
      BY <2>1, ArchiveIs
    <3>3. FolderOf(<<n, i>>) = <<n, Len(dir[n].folders)>>
      BY <3>1, <3>2 DEF FolderOf, File
    <3> QED BY <2>1, <2>4, <3>1, <3>3
  <2>5. /\ fold[x].merge_next # None => k = Len(dir[n].folders) /\ fold[x].merge_next = FirstJoin(n, {"next", "both"})
        /\ fold[x].merge_prev # None => k = 1 /\ fold[x].merge_prev = FirstJoin(n, {"prev", "both"})
        /\ fold[x] = [j \in {"data", "num_blocks", "merge_prev", "merge_next"} |-> fold[x][j]]
    BY <2>2
  <2> QED BY <2>3, <2>4, <2>5 DEF n
<1>8. Own(fold)
  BY <1>7 DEF Own
<1>9. ASSUME NEW n \in DOMAIN cab PROVE Safe(fold, Range(cab[n].files), Range(cab[n].folders))
  <2>1. n \in Here
    BY <1>1
  <2>2. ASSUME NEW f \in Range(cab[n].files) PROVE FolderOf(f) \in DOMAIN fold
    <3>1. PICK i \in DOMAIN dir[n].files : f = <<n, i>>
      BY <1>3, <2>2
    <3>2. PICK k \in DOMAIN dir[n].folders : FolderOf(f) = <<n, k>>
      <4>1. Len(dir[n].folders) \in DOMAIN dir[n].folders /\ 1 \in DOMAIN dir[n].folders
        BY <2>1, ArchiveIs
      <4>2. dir[n].files[i].join = "none" => dir[n].files[i].folder \in DOMAIN dir[n].folders
        BY <2>1, ArchiveIs
      <4> QED BY <3>1, <4>1, <4>2 DEF FolderOf, File
    <3>3. <<n, k>> \in FoldersOf(cab)
      BY <2>1, ArchiveIs DEF FoldersOf
    <3> QED BY <3>2, <3>3 DEF Fresh
  <2>3. ASSUME NEW x \in Range(cab[n].folders)
        PROVE  x \in DOMAIN fold /\ {fold[x].merge_next, fold[x].merge_prev} \subseteq Range(cab[n].files) \cup {None}
    <3>1. x[1] = n /\ x \in FoldersOf(cab)
      <4>1. PICK k \in DOMAIN dir[n].folders : x = <<n, k>>
        BY <1>3, <2>3
      <4>2. k \in Nat
        BY <2>1, ArchiveIs
      <4> QED BY <4>1, <4>2 DEF FoldersOf
    <3>2. x \in DOMAIN fold
      BY <3>1 DEF Fresh
    <3> QED BY <1>3, <1>7, <3>1, <3>2
  <2> QED BY <2>2, <2>3 DEF Safe
<1> QED BY <1>6, <1>8, <1>9 DEF HeapInv

LEMMA FreshPrimed ==
  ASSUME Fresh, cab' = cab, fold' = fold, dir' = dir
  PROVE  Fresh'
<1>1. \A n : Opened(n)' = Opened(n)
  BY DEF Opened
<1>2. \A n, k : OpenedFolder(n, k)' = OpenedFolder(n, k)
  BY DEF OpenedFolder, FirstJoin
<1>3. FoldersOf(cab)' = FoldersOf(cab)
  BY DEF FoldersOf
<1> QED BY <1>1, <1>2, <1>3 DEF Fresh

\* Opening an archive, even one that is open, leaves all as they were read.
LEMMA OpenKeeps ==
  ASSUME Known, Fresh, NEW n \in Here, Open(n), dir' = dir
  PROVE  /\ Fresh'
         /\ DOMAIN cab' = IF dir[n].readable THEN DOMAIN cab \cup {n} ELSE DOMAIN cab
<1>1. CASE ~dir[n].readable
  <2>1. cab' = cab /\ fold' = fold
    BY <1>1 DEF Open, heap
  <2> QED BY <1>1, <2>1, FreshPrimed
<1>2. CASE dir[n].readable
  <2> DEFINE D == DOMAIN cab \cup {n}
  <2>1. /\ cab' = [m \in D |-> IF m = n THEN Opened(n) ELSE cab[m]]
        /\ fold' = [f \in DOMAIN fold \cup {<<n, k>> : k \in DOMAIN dir[n].folders} |->
                      IF f[1] = n THEN OpenedFolder(n, f[2]) ELSE fold[f]]
    BY <1>2 DEF Open
  <2>2. DOMAIN cab' = D /\ DOMAIN fold' = DOMAIN fold \cup {<<n, k>> : k \in DOMAIN dir[n].folders}
    BY <2>1
  <2>3. \A m : Opened(m)' = Opened(m)
    BY DEF Opened
  <2>4. \A m, k : OpenedFolder(m, k)' = OpenedFolder(m, k)
    BY DEF OpenedFolder, FirstJoin
  <2>5. cab' = [m \in D |-> Opened(m)]
    BY <2>1 DEF Fresh
  <2>6. FoldersOf(cab)' = FoldersOf(cab) \cup {<<n, k>> : k \in DOMAIN dir[n].folders}
    <3>1. DOMAIN dir[n].folders \subseteq Nat
      BY ArchiveIs
    <3> QED BY <2>2, <3>1 DEF FoldersOf
  <2>7. \A x \in DOMAIN fold' : fold'[x] = OpenedFolder(x[1], x[2])
    BY <2>1, <2>2 DEF Fresh, FoldersOf
  <2> QED BY <1>2, <2>2, <2>3, <2>4, <2>5, <2>6, <2>7 DEF Fresh
<1> QED BY <1>1, <1>2

LEMMA CabInit == Init => CabInv
<1> SUFFICES ASSUME Init PROVE CabInv
  OBVIOUS
<1>1. DOMAIN cab = {} /\ DOMAIN fold = {} /\ cab = [n \in {} |-> n]
  BY DEF Init, Empty
<1>2. Fresh
  BY <1>1 DEF Fresh, FoldersOf
<1>3. Known
  BY <1>1 DEF Init, Known, Here
<1> QED BY <1>2, <1>3, FreshHeap DEF CabInv

LEMMA CabNext == CabInv /\ [Next]_vars => CabInv'
<1> SUFFICES ASSUME CabInv, [Next]_vars PROVE CabInv'
  OBVIOUS
<1>1. dir' = dir /\ Here' = Here
  BY DEF Next, vars, Here, SearchNext, SearchEnd, LookupNext, LookupEnd, FindPrev, FindNext,
         OpenSource, Prepend, PrependEnd, Append1, AppendEnd, TryFile, FilesEnd, Close
<1>2. Known /\ HeapInv(cab, fold)
  BY DEF CabInv
<1>3. ASSUME UNCHANGED heap PROVE HeapInv(cab, fold)' /\ (Fresh => Fresh')
  <2>1. cab' = cab /\ fold' = fold
    BY <1>3 DEF heap
  <2>2. HeapInv(cab, fold)'
    BY <1>1, <1>2, <2>1, HeapPrimed
  <2>3. Fresh => Fresh'
    BY <1>1, <2>1, FreshPrimed
  <2> QED BY <2>2, <2>3
<1>4. CASE SearchNext
  BY <1>1, <1>2, <1>3, <1>4 DEF SearchNext, Begin, CabInv, Known, heap
<1>5. CASE SearchEnd
  BY <1>1, <1>2, <1>3, <1>5 DEF SearchEnd, CabInv, Known, heap
<1>6. CASE LookupNext
  BY <1>1, <1>2, <1>3, <1>6 DEF LookupNext, CabInv, Known, heap
<1>7. CASE LookupEnd
  BY <1>1, <1>2, <1>3, <1>7 DEF LookupEnd, Begin, CabInv, Known, heap
<1>8. ASSUME NEW p \in Here, Fresh, Open(p) \/ UNCHANGED heap
      PROVE  Fresh' /\ DOMAIN cab' \subseteq Here
  <2>1. CASE Open(p)
    BY <1>1, <1>2, <1>8, <2>1, OpenKeeps DEF Known
  <2>2. CASE UNCHANGED heap
    BY <1>2, <1>3, <1>8, <2>2 DEF Known, heap
  <2> QED BY <1>8, <2>1, <2>2
<1>9. CASE FindPrev
  <2>1. Fresh /\ search \in Here /\ src \in Here /\ pc = "prev"
    BY <1>9 DEF FindPrev, CabInv, Known
  <2>2. CASE Prev(search) = None
    BY <1>1, <1>2, <1>3, <1>9, <2>1, <2>2 DEF FindPrev, CabInv, Known, heap
  <2>3. CASE Prev(search) # None
    <3>1. Prev(search) \in Here
      BY <2>3 DEF Prev
    <3>2. Fresh' /\ DOMAIN cab' \subseteq Here
      BY <1>8, <1>9, <2>1, <2>3, <3>1 DEF FindPrev, Listed
    <3>3. Known'
      BY <1>1, <1>2, <1>9, <2>1, <2>3, <3>1, <3>2 DEF FindPrev, Known
    <3> QED BY <3>2, <3>3, FreshHeap, PTL DEF CabInv
  <2> QED BY <2>2, <2>3
<1>10. CASE FindNext
  <2>1. Fresh /\ search \in Here /\ src \in Here /\ pc = "next"
    BY <1>10 DEF FindNext, CabInv, Known
  <2>2. CASE Next1(search) = None
    BY <1>1, <1>2, <1>3, <1>10, <2>1, <2>2 DEF FindNext, CabInv, Known, heap
  <2>3. CASE Next1(search) # None
    <3>1. Next1(search) \in Here
      BY <2>3 DEF Next1
    <3>2. Fresh' /\ DOMAIN cab' \subseteq Here
      BY <1>8, <1>10, <2>1, <2>3, <3>1 DEF FindNext, Listed
    <3>3. Known'
      BY <1>1, <1>2, <1>10, <2>1, <2>3, <3>1, <3>2 DEF FindNext, Known
    <3> QED BY <3>2, <3>3, FreshHeap, PTL DEF CabInv
  <2> QED BY <2>2, <2>3
<1>11. CASE OpenSource
  <2>1. Fresh /\ src \in Here /\ Open(src) /\ pc = "open"
    BY <1>11 DEF OpenSource, CabInv, Known
  <2>2. Fresh' /\ DOMAIN cab' = IF dir[src].readable THEN DOMAIN cab \cup {src} ELSE DOMAIN cab
    BY <1>1, <1>2, <2>1, OpenKeeps
  <2>3. Known'
    BY <1>1, <1>2, <1>11, <2>1, <2>2 DEF OpenSource, Known
  <2> QED BY <1>11, <2>2, <2>3, FreshHeap, PTL DEF CabInv
<1>12. CASE Prepend
  <2> DEFINE p == prevlist[item + 1]
  <2>1. /\ pc = "prepend" /\ pc' = pc /\ src' = src /\ left' = left /\ search' = search
        /\ at \in DOMAIN cab /\ src \in DOMAIN cab
    BY <1>2, <1>12 DEF Prepend, Known
  <2>2. CASE p \in DOMAIN cab
    <3>1. Merge(p, at) /\ at' = p
      BY <1>12, <2>2 DEF Prepend
    <3>2. HeapInv(cab, fold)' /\ DOMAIN cab' = DOMAIN cab
      BY <1>1, <1>2, <2>1, <2>2, <3>1, MergeKeeps
    <3> QED BY <1>1, <1>2, <2>1, <2>2, <3>1, <3>2 DEF CabInv, Known
  <2>3. CASE p \notin DOMAIN cab
    <3>1. UNCHANGED heap /\ at' = at
      BY <1>12, <2>3 DEF Prepend
    <3> QED BY <1>1, <1>2, <1>3, <2>1, <3>1 DEF CabInv, Known, heap
  <2> QED BY <2>2, <2>3
<1>13. CASE PrependEnd
  BY <1>1, <1>2, <1>3, <1>13 DEF PrependEnd, CabInv, Known, heap
<1>14. CASE Append1
  <2> DEFINE p == nextlist[item + 1]
  <2>1. /\ pc = "append" /\ pc' = pc /\ src' = src /\ left' = left /\ search' = search
        /\ at \in DOMAIN cab /\ src \in DOMAIN cab
    BY <1>2, <1>14 DEF Append1, Known
  <2>2. CASE p \in DOMAIN cab
    <3>1. Merge(at, p) /\ at' = p
      BY <1>14, <2>2 DEF Append1
    <3>2. HeapInv(cab, fold)' /\ DOMAIN cab' = DOMAIN cab
      BY <1>1, <1>2, <2>1, <2>2, <3>1, MergeKeeps
    <3> QED BY <1>1, <1>2, <2>1, <2>2, <3>1, <3>2 DEF CabInv, Known
  <2>3. CASE p \notin DOMAIN cab
    <3>1. UNCHANGED heap /\ at' = at
      BY <1>14, <2>3 DEF Append1
    <3> QED BY <1>1, <1>2, <1>3, <2>1, <3>1 DEF CabInv, Known, heap
  <2> QED BY <2>2, <2>3
<1>15. CASE AppendEnd
  BY <1>1, <1>2, <1>3, <1>15 DEF AppendEnd, CabInv, Known, heap
<1>16. CASE TryFile
  <2>1. UNCHANGED <<dir, left, src, search, heap, at>> /\ pc = "files" /\ pc' \in {"files", "close"}
    BY <1>16 DEF TryFile, Extract
  <2> QED BY <1>1, <1>2, <1>3, <2>1 DEF CabInv, Known, heap
<1>17. CASE FilesEnd
  BY <1>1, <1>2, <1>3, <1>17 DEF FilesEnd, CabInv, Known, heap
<1>18. CASE Close
  <2>1. /\ cab' = Empty /\ fold' = Empty /\ pc' \in {"search", "done"}
        /\ left' = left /\ src' = src
    BY <1>18 DEF Close
  <2>2. DOMAIN cab' = {} /\ DOMAIN fold' = {} /\ cab' = [n \in {} |-> n]
    BY <2>1 DEF Empty
  <2>3. Fresh'
    BY <2>2 DEF Fresh, FoldersOf
  <2>4. Known'
    BY <1>1, <1>2, <2>1, <2>2 DEF Known
  <2> QED BY <2>3, <2>4, FreshHeap, PTL DEF CabInv
<1>19. CASE UNCHANGED vars
  <2>1. UNCHANGED <<dir, left, src, search, heap, at, pc>>
    BY <1>19 DEF vars
  <2> QED BY <1>1, <1>2, <1>3, <2>1 DEF CabInv, Known, heap
<1> QED BY <1>4, <1>5, <1>6, <1>7, <1>9, <1>10, <1>11, <1>12, <1>13, <1>14, <1>15, <1>16,
           <1>17, <1>18, <1>19 DEF Next

\* However the archives of a directory name each other, in whatever order
\* they are met, opened and joined, and whichever could not be opened or
\* joined (cabd_merge): every file listed by an archive is in a folder there
\* is, every folder listed is there, and the files a folder keeps for the
\* next joining are in the list.
THEOREM NothingDangles == Spec => []NoDangling
<1>1. CabInv => NoDangling
  BY SafeIsNoDangling DEF CabInv, HeapInv
<1> QED BY <1>1, CabInit, CabNext, PTL DEF Spec
--------------------------------------------------------------------------
(* Archives joined in order                                                *)

\* n is the one behind m in its set; is behind it.
NextTo(m, n)  == dir[m].set = dir[n].set /\ dir[m].index + 1 = dir[n].index
Earlier(m, n) == dir[m].set = dir[n].set /\ dir[m].index < dir[n].index

Alike(c, m, n) == c[m].files = c[n].files /\ c[m].folders = c[n].folders

\* Neighbours have the same lists.  The first of a chain has its first folder
\* first, and files of those behind it; the folders of all files are listed.
OrderedAt(c, n) ==
  /\ c[n].next # None => Alike(c, c[n].next, n) /\ NextTo(n, c[n].next)
  /\ c[n].prev = None => /\ Head(c[n].folders) = <<n, 1>>
                         /\ \A f \in Range(c[n].files) : f[1] = n \/ Earlier(n, f[1])
  /\ \A f \in Range(c[n].files) : FolderOf(f) \in Range(c[n].folders)
Ordered(c) == \A n \in DOMAIN c : OrderedAt(c, n)

LEMMA IndexIs == Known => \A n \in DOMAIN cab : n \in Here /\ n # None /\ dir[n].index \in Nat
<1> SUFFICES ASSUME Known, NEW n \in DOMAIN cab PROVE n \in Here /\ n # None /\ dir[n].index \in Nat
  OBVIOUS
<1>1. n \in Here /\ n \in Names /\ dir[n] \in Archive[n]
  BY DEF Known, Here
<1> QED BY <1>1, CabAssumption

\* The archives l is joined with are as it is, in front of it; those r is
\* joined with are as r is, behind it.
LEMMA MembersAre ==
  ASSUME Known, ChainInv(cab), Ordered(cab), NEW l, NEW r, Joinable(l, r), NextTo(l, r),
         NEW n \in Members(l, r)
  PROVE  \/ /\ Alike(cab, n, l) /\ (n = l \/ Earlier(n, l))
            /\ Hooked(l, r)[n].next # None
         \/ /\ Alike(cab, n, r) /\ (n = r \/ Earlier(r, n))
            /\ Hooked(l, r)[n].prev # None
<1> DEFINE c == Hooked(l, r)
           A == {m \in DOMAIN cab : Alike(cab, m, r) /\ (m = r \/ Earlier(r, m))}
           B == {m \in DOMAIN cab : Alike(cab, m, l) /\ (m = l \/ Earlier(m, l))}
<1>1. /\ DOMAIN c = DOMAIN cab /\ Mutual(c) /\ Mutual(cab)
      /\ \A m \in DOMAIN cab :
           /\ c[m].next = IF m = l THEN r ELSE cab[m].next
           /\ c[m].prev = IF m = r THEN l ELSE cab[m].prev
  BY HookedIs DEF ChainInv
<1>2. l \in DOMAIN cab /\ r \in DOMAIN cab /\ l # None /\ r # None
  BY IndexIs DEF Joinable
<1>3. \A m \in DOMAIN cab : m # None /\ dir[m].index \in Nat
  BY IndexIs
<1>4. \A m \in DOMAIN cab : cab[m].next # None =>
        cab[m].next \in DOMAIN cab /\ Alike(cab, cab[m].next, m) /\ NextTo(m, cab[m].next)
  BY <1>1 DEF Mutual, Ordered, OrderedAt
<1> HIDE DEF c
<1>5. After(c, r) \subseteq A
  <2>1. ASSUME NEW k \in A \cup {r}, c[k].next # None PROVE c[k].next \in A
    <3>1. k \in DOMAIN cab /\ Alike(cab, k, r) /\ (k = r \/ Earlier(r, k))
      BY <1>2 DEF Alike
    <3>2. k # l
      BY <1>2, <1>3, <3>1 DEF Earlier, NextTo
    <3>3. c[k].next = cab[k].next
      BY <1>1, <3>1, <3>2
    <3>4. /\ cab[k].next \in DOMAIN cab /\ Alike(cab, cab[k].next, k) /\ NextTo(k, cab[k].next)
      BY <1>4, <2>1, <3>1, <3>3
    <3>5. Alike(cab, cab[k].next, r)
      BY <3>1, <3>4 DEF Alike
    <3>6. Earlier(r, cab[k].next)
      BY <1>2, <1>3, <3>1, <3>4 DEF Earlier, NextTo
    <3> QED BY <3>3, <3>4, <3>5, <3>6
  <2>2. A \in SUBSET DOMAIN c
    BY <1>1
  <2> HIDE DEF A
  <2> QED BY <2>1, <2>2, AfterLeast
<1>6. Before(c, l) \subseteq B
  <2>1. ASSUME NEW k \in B \cup {l}, c[k].prev # None PROVE c[k].prev \in B
    <3>1. k \in DOMAIN cab /\ Alike(cab, k, l) /\ (k = l \/ Earlier(k, l))
      BY <1>2 DEF Alike
    <3>2. k # r
      BY <1>2, <1>3, <3>1 DEF Earlier, NextTo
    <3>3. c[k].prev = cab[k].prev
      BY <1>1, <3>1, <3>2
    <3>4. cab[k].prev \in DOMAIN cab /\ cab[cab[k].prev].next = k /\ k # None
      BY <1>1, <1>3, <2>1, <3>1, <3>3 DEF Mutual
    <3>5. Alike(cab, k, cab[k].prev) /\ NextTo(cab[k].prev, k)
      BY <1>4, <3>4
    <3>6. Alike(cab, cab[k].prev, l)
      BY <3>1, <3>5 DEF Alike
    <3>7. Earlier(cab[k].prev, l)
      BY <1>2, <1>3, <3>1, <3>4, <3>5 DEF Earlier, NextTo
    <3> QED BY <3>3, <3>4, <3>6, <3>7
  <2>2. B \in SUBSET DOMAIN c
    BY <1>1
  <2> HIDE DEF B
  <2> QED BY <2>1, <2>2, BeforeLeast
<1>7. CASE n = l
  <2>1. Alike(cab, n, l) /\ c[n].next = r
    BY <1>1, <1>2, <1>7 DEF Alike
  <2> QED BY <1>2, <1>7, <2>1 DEF c
<1>8. CASE n = r
  <2>1. Alike(cab, n, r) /\ c[n].prev = l
    BY <1>1, <1>2, <1>8 DEF Alike
  <2> QED BY <1>2, <1>8, <2>1 DEF c
<1>9. CASE n \in Before(c, l)
  <2>1. c[n].next # None
    BY <1>1, <1>2, <1>9, BeforeBack
  <2> QED BY <1>6, <1>9, <2>1 DEF c
<1>10. CASE n \in After(c, r)
  <2>1. c[n].prev # None
    BY <1>1, <1>2, <1>10, AfterBack
  <2> QED BY <1>5, <1>10, <2>1 DEF c
<1> QED BY <1>7, <1>8, <1>9, <1>10 DEF Members, c

LEMMA OrderedJoined ==
  ASSUME Known, ChainInv(cab), Ordered(cab), NEW l, NEW r, Joinable(l, r), NextTo(l, r),
         NEW fs, NEW xs, Head(xs) = Head(cab[l].folders),
         Range(fs) \subseteq Range(cab[l].files) \cup Range(cab[r].files),
         \A f \in Range(fs) : FolderOf(f) \in Range(xs)
  PROVE  Ordered(Joined(l, r, fs, xs))
<1> DEFINE J == Joined(l, r, fs, xs)
           c == Hooked(l, r)
           S == Members(l, r)
<1>1. /\ DOMAIN J = DOMAIN cab
      /\ \A n \in DOMAIN cab :
           /\ J[n].next = IF n = l THEN r ELSE cab[n].next
           /\ J[n].prev = IF n = r THEN l ELSE cab[n].prev
           /\ n \in S => J[n].files = fs /\ J[n].folders = xs
           /\ n \notin S => J[n].files = cab[n].files /\ J[n].folders = cab[n].folders
  <2> HIDE DEF J
  <2> QED BY JoinedLists DEF J
<1>2. /\ DOMAIN c = DOMAIN cab /\ Mutual(c) /\ Linked(c, S)
      /\ \A n \in DOMAIN cab : c[n].next = J[n].next /\ c[n].prev = J[n].prev
  BY <1>1, HookedIs, MembersLinked
<1>3. Linked(c, DOMAIN c \ S)
  <2> HIDE DEF c, S
  <2> QED BY <1>2, OthersLinked
<1>4. \A n \in S : \/ Alike(cab, n, l) /\ (n = l \/ Earlier(n, l)) /\ c[n].next # None
                   \/ Alike(cab, n, r) /\ (n = r \/ Earlier(r, n)) /\ c[n].prev # None
  BY MembersAre
<1>5. /\ l \in DOMAIN cab /\ r \in DOMAIN cab /\ l \in S /\ r \in S
      /\ cab[l].next = None /\ cab[r].prev = None /\ l # None
  BY IndexIs DEF Joinable, Members
<1> HIDE DEF J, c, S
<1> SUFFICES ASSUME NEW n \in DOMAIN cab PROVE OrderedAt(J, n)
  BY <1>1 DEF Ordered, J
<1>6. OrderedAt(cab, n) /\ OrderedAt(cab, l) /\ OrderedAt(cab, r)
  BY <1>5 DEF Ordered
<1>7. ASSUME J[n].next # None PROVE Alike(J, J[n].next, n) /\ NextTo(n, J[n].next)
  <2>1. J[n].next \in S <=> n \in S
    BY <1>2, <1>3, <1>7 DEF Linked
  <2>2. J[n].next \in DOMAIN cab
    BY <1>2, <1>7 DEF Mutual
  <2>3. n # l => Alike(cab, J[n].next, n) /\ NextTo(n, J[n].next)
    BY <1>1, <1>6, <1>7 DEF OrderedAt
  <2>4. n = l => NextTo(n, J[n].next)
    BY <1>1
  <2>5. CASE n \in S
    BY <1>1, <2>1, <2>2, <2>3, <2>4, <2>5 DEF Alike
  <2>6. CASE n \notin S
    BY <1>1, <1>5, <2>1, <2>2, <2>3, <2>6 DEF Alike
  <2> QED BY <2>5, <2>6
<1>8. ASSUME J[n].prev = None
      PROVE  /\ Head(J[n].folders) = <<n, 1>>
             /\ \A f \in Range(J[n].files) : f[1] = n \/ Earlier(n, f[1])
  <2>1. n # r /\ cab[n].prev = None
    BY <1>1, <1>5, <1>8
  <2>2. /\ Head(cab[n].folders) = <<n, 1>>
        /\ \A f \in Range(cab[n].files) : f[1] = n \/ Earlier(n, f[1])
    BY <1>6, <2>1 DEF OrderedAt
  <2>3. CASE n \in S
    <3>1. Alike(cab, n, l) /\ (n = l \/ Earlier(n, l))
      BY <1>2, <1>4, <1>8, <2>3
    <3>2. ASSUME NEW f \in Range(cab[r].files) PROVE Earlier(n, f[1])
      <4>1. f[1] = r \/ Earlier(r, f[1])
        BY <1>5, <1>6 DEF OrderedAt
      <4>2. f[1] \in DOMAIN cab
        <5>1. cab[r].files \in Seq(FilesOf(cab))
          BY <1>5 DEF ChainInv, Cabinet
        <5> QED BY <5>1 DEF Range, FilesOf
      <4>3. dir[n].index \in Nat /\ dir[l].index \in Nat /\ dir[r].index \in Nat /\ dir[f[1]].index \in Nat
        BY <1>5, <4>2, IndexIs
      <4> QED BY <3>1, <4>1, <4>3 DEF Earlier, NextTo
    <3> QED BY <1>1, <2>2, <2>3, <3>1, <3>2 DEF Alike
  <2>4. CASE n \notin S
    BY <1>1, <2>2, <2>4
  <2> QED BY <2>3, <2>4
<1>9. \A f \in Range(J[n].files) : FolderOf(f) \in Range(J[n].folders)
  BY <1>1, <1>6 DEF OrderedAt
<1> QED BY <1>7, <1>8, <1>9 DEF OrderedAt

\* The files of a list from f on.
FromIn(fs, f) == {fs[i] : i \in {j \in DOMAIN fs : \E k \in 1 .. j : fs[k] = f}}

LEMMA FromConcat ==
  ASSUME NEW F, NEW s \in Seq(F), NEW t \in Seq(F), NEW f
  PROVE  /\ FromIn(s \o t, f) \subseteq FromIn(s, f) \cup Range(t)
         /\ f \notin Range(s) => FromIn(s \o t, f) \subseteq FromIn(t, f)
<1> DEFINE u == s \o t
           n == Len(s)
<1>1. n \in Nat /\ DOMAIN s = 1 .. n /\ DOMAIN t = 1 .. Len(t) /\ Len(t) \in Nat
  OBVIOUS
<1>2. DOMAIN u = 1 .. n + Len(t)
  OBVIOUS
<1>3. \A i \in 1 .. n : u[i] = s[i]
  OBVIOUS
<1>4. \A i \in n + 1 .. n + Len(t) : u[i] = t[i - n]
  OBVIOUS
<1> HIDE DEF u, n
<1>5. ASSUME NEW i \in DOMAIN u, NEW k \in 1 .. i, u[k] = f
      PROVE  /\ u[i] \in FromIn(s, f) \cup Range(t)
             /\ f \notin Range(s) => u[i] \in FromIn(t, f)
  <2>1. CASE i \in 1 .. n
    <3>1. i \in DOMAIN s /\ k \in DOMAIN s /\ u[i] = s[i] /\ s[k] = f
      BY <1>1, <1>3, <1>5, <2>1
    <3>2. s[i] \in FromIn(s, f) /\ f \in Range(s)
      BY <3>1 DEF FromIn, Range
    <3> QED BY <3>1, <3>2
  <2>2. CASE i \notin 1 .. n
    <3>1. i - n \in DOMAIN t /\ u[i] = t[i - n]
      BY <1>1, <1>2, <1>4, <2>2
    <3>2. u[i] \in Range(t)
      BY <3>1 DEF Range
    <3>3. ASSUME f \notin Range(s) PROVE u[i] \in FromIn(t, f)
      <4>1. k \notin 1 .. n
        BY <1>1, <1>3, <1>5, <3>3 DEF Range
      <4>2. k - n \in 1 .. i - n /\ u[k] = t[k - n]
        BY <1>1, <1>2, <1>4, <4>1
      <4> QED BY <1>5, <3>1, <4>2 DEF FromIn
    <3> QED BY <3>2, <3>3
  <2> QED BY <2>1, <2>2
<1>6. \A g \in FromIn(u, f) : \E i \in DOMAIN u : \E k \in 1 .. i : u[k] = f /\ g = u[i]
  BY DEF FromIn
<1> QED BY <1>5, <1>6 DEF u

\* What is kept behind f was behind it.
LEMMA KeptFrom ==
  ASSUME NEW F, NEW files \in Seq(F), NEW fol, NEW f
  PROVE  FromIn(Kept(files, fol), f) \subseteq FromIn(files, f)
<1> DEFINE n == Len(files)
           g == CHOOSE g : KeptUpTo(files, fol, n, g)
<1>1. n \in Nat
  OBVIOUS
<1>2. KeptUpTo(files, fol, n, g)
  BY <1>1, KeptExists
<1>3. Kept(files, fol) = g[n]
  BY DEF Kept, KeptUpTo, KeptStep
<1> HIDE DEF g
<1> DEFINE Old(i, k, m) == \E j \in 1 .. m : \E h \in 1 .. j : files[j] = g[m][i] /\ files[h] = g[m][k]
           Good(m) == /\ g[m] \in Seq(F)
                      /\ \A i \in 1 .. Len(g[m]) : \A k \in 1 .. i : Old(i, k, m)
           P == {m \in 0 .. n : Good(m)}
<1>4. g[0] = <<>> /\ \A i \in 1 .. n : g[i] = KeptStep(files, fol, g, i)
  BY <1>1, <1>2 DEF KeptUpTo
<1>5. Good(0)
  BY <1>4
<1>6. ASSUME NEW m \in 0 .. n, Good(m), m < n PROVE Good(m + 1)
  <2> DEFINE e == files[m + 1]
             s == g[m]
  <2>1. m + 1 \in 1 .. n /\ e \in F /\ m + 1 - 1 = m
    BY <1>6
  <2>2. g[m + 1] = IF FolderOf(e) = fol THEN s ELSE Append(s, e)
    BY <1>4, <2>1 DEF KeptStep
  <2>3. /\ s \in Seq(F)
        /\ \A i \in 1 .. Len(s) : \A k \in 1 .. i :
             \E j \in 1 .. m : \E h \in 1 .. j : files[j] = s[i] /\ files[h] = s[k]
    BY <1>6
  <2>4. files[m + 1] = e
    OBVIOUS
  <2> HIDE DEF e, s
  <2>5. CASE g[m + 1] = s
    BY <2>1, <2>3, <2>5
  <2>6. CASE g[m + 1] = Append(s, e)
    <3> DEFINE t == Append(s, e)
    <3>1. t \in Seq(F) /\ Len(t) = Len(s) + 1 /\ Len(s) \in Nat /\ t[Len(s) + 1] = e /\ \A i \in 1 .. Len(s) : t[i] = s[i]
      BY <2>1, <2>3
    <3> HIDE DEF t
    <3>2. ASSUME NEW i \in 1 .. Len(t), NEW k \in 1 .. i
          PROVE  \E j \in 1 .. m + 1 : \E h \in 1 .. j : files[j] = t[i] /\ files[h] = t[k]
      <4>1. CASE i \in 1 .. Len(s)
        <5>1. PICK j \in 1 .. m : \E h \in 1 .. j : files[j] = s[i] /\ files[h] = s[k]
          BY <2>3, <4>1
        <5>2. t[i] = s[i] /\ t[k] = s[k]
          BY <3>1, <4>1
        <5>3. j \in 1 .. m + 1
          BY <1>6
        <5> QED BY <5>1, <5>2, <5>3
      <4>2. CASE i = Len(s) + 1 /\ k = i
        BY <2>1, <2>4, <3>1, <4>2
      <4>3. CASE i = Len(s) + 1 /\ k # i
        <5>1. k \in 1 .. Len(s)
          BY <3>1, <4>3
        <5>2. PICK j \in 1 .. m : \E h \in 1 .. j : files[j] = s[k] /\ files[h] = s[k]
          BY <2>3, <5>1
        <5>3. t[k] = s[k] /\ t[i] = e /\ j \in 1 .. m + 1 /\ m + 1 \in 1 .. m + 1
          BY <1>6, <2>1, <3>1, <4>3, <5>1
        <5> QED BY <2>4, <5>2, <5>3
      <4> QED BY <3>1, <4>1, <4>2, <4>3
    <3>3. g[m + 1] = t
      BY <2>6 DEF t
    <3> QED BY <3>1, <3>2, <3>3
  <2> QED BY <2>2, <2>5, <2>6
<1>7. n \in P
  <2>1. 0 \in P
    BY <1>1, <1>5
  <2>2. \A m \in P : m \in 0 .. n /\ m < n => m + 1 \in P
    <3> HIDE DEF Good
    <3> QED BY <1>1, <1>6
  <2> HIDE DEF P
  <2> QED BY <1>1, <2>1, <2>2, UpTo
<1>8. Good(n)
  <2> HIDE DEF Good
  <2> QED BY <1>7
<1> DEFINE s == g[n]
<1>9. /\ s \in Seq(F)
      /\ \A i \in 1 .. Len(s) : \A k \in 1 .. i :
           \E j \in 1 .. n : \E h \in 1 .. j : files[j] = s[i] /\ files[h] = s[k]
  BY <1>8
<1>10. DOMAIN files = 1 .. n
  OBVIOUS
<1> HIDE DEF s, n
<1>11. DOMAIN s = 1 .. Len(s)
  BY <1>9
<1>12. ASSUME NEW x \in FromIn(s, f) PROVE x \in FromIn(files, f)
  <2>1. PICK i \in 1 .. Len(s) : \E k \in 1 .. i : s[k] = f /\ x = s[i]
    BY <1>11 DEF FromIn
  <2>2. PICK j \in 1 .. n : \E h \in 1 .. j : files[j] = x /\ files[h] = f
    BY <1>9, <2>1
  <2> QED BY <1>10, <2>2 DEF FromIn
<1> QED BY <1>3, <1>12 DEF s

--------------------------------------------------------------------------
(* What a joined folder is made of                                         *)

Folders == {x \in Here \X Nat : x[2] \in DOMAIN dir[x[1]].folders}
Part(d) == dir[d[1]].folders[d[2]]

\* The parts of the folder x begin with its own; each of the others is the
\* first folder of its archive and begins with the piece behind the last.
Chained(data, x) ==
  /\ data \in Seq(Folders) \ {<<>>}
  /\ data[1] = x
  /\ \A i \in 2 .. Len(data) : /\ data[i][2] = 1
                               /\ Behind(Last(Part(data[i - 1])), Head(Part(data[i])))
DataAt(fo, x) ==
  /\ Chained(fo[x].data, x)
  /\ fo[x].num_blocks \in Nat \ {0}
  /\ fo[x].merge_prev = OpenedFolder(x[1], x[2]).merge_prev

\* The last folder of a chain that ends with n ends with the last of n; the
\* files it keeps for joining and all behind them go on, and are of n or, while
\* n is all in this folder, of archives before.
EndAt(n, fs, xs, fo) ==
  LET x == Last(xs)
  IN  /\ Last(fo[x].data) = <<n, Len(dir[n].folders)>>
      /\ fo[x].merge_next # None =>
           /\ \E i \in DOMAIN dir[n].files : Goes(dir[n].files[i])
           /\ \A f \in FromIn(fs, fo[x].merge_next) :
                /\ Goes(File(f))
                /\ f[1] = n \/ (Earlier(f[1], n) /\ Len(dir[n].folders) = 1)
EndInv(c, fo) == \A n \in DOMAIN c : c[n].next = None => EndAt(n, c[n].files, c[n].folders, fo)

SetInv(c, fo) ==
  /\ Ordered(c)
  /\ \A x \in DOMAIN fo : DataAt(fo, x)
  /\ EndInv(c, fo)

LEMMA SetPrimed ==
  ASSUME NEW c, NEW fo, SetInv(c, fo), cab' = c, fold' = fo, dir' = dir
  PROVE  SetInv(cab, fold)'
<1>1. \A f : File(f)' = File(f) /\ FolderOf(f)' = FolderOf(f)
  BY DEF FolderOf, File
<1>2. \A m, n : (NextTo(m, n)' <=> NextTo(m, n)) /\ (Earlier(m, n)' <=> Earlier(m, n))
  BY DEF NextTo, Earlier
<1>3. Ordered(cab)'
  BY <1>1, <1>2 DEF SetInv, Ordered, OrderedAt, Alike
<1>4. Folders' = Folders /\ \A d : Part(d)' = Part(d)
  BY DEF Folders, Part, Here
<1>5. \A n, k : OpenedFolder(n, k)' = OpenedFolder(n, k)
  BY DEF OpenedFolder, FirstJoin
<1>6. (\A x \in DOMAIN fold : DataAt(fold, x))'
  BY <1>4, <1>5 DEF SetInv, DataAt, Chained
<1>7. EndInv(cab, fold)'
  BY <1>1, <1>2 DEF SetInv, EndInv, EndAt
<1> QED BY <1>3, <1>6, <1>7 DEF SetInv

LEMMA EndJoined ==
  ASSUME Known, ChainInv(cab), Ordered(cab), EndInv(cab, fold),
         NEW l, NEW r, Joinable(l, r), NextTo(l, r), NEW fs, NEW xs, NEW fo,
         \A n \in DOMAIN cab : \A x \in Range(cab[n].folders) : x[1] \notin Members(l, r) => fo[x] = fold[x],
         \A e \in DOMAIN cab : cab[e].next = None /\ Alike(cab, e, r) /\ (e = r \/ Earlier(r, e)) =>
           EndAt(e, fs, xs, fo)
  PROVE  EndInv(Joined(l, r, fs, xs), fo)
<1> SUFFICES ASSUME NEW J, J = Joined(l, r, fs, xs) PROVE EndInv(J, fo)
  OBVIOUS
<1> DEFINE c == Hooked(l, r)
           S == Members(l, r)
<1>1. /\ DOMAIN J = DOMAIN cab
      /\ \A n \in DOMAIN cab :
           /\ J[n].next = IF n = l THEN r ELSE cab[n].next
           /\ n \in S => J[n].files = fs /\ J[n].folders = xs
           /\ n \notin S => J[n].files = cab[n].files /\ J[n].folders = cab[n].folders
  BY JoinedLists
<1>2. DOMAIN c = DOMAIN cab /\ \A n \in DOMAIN cab : c[n].next = IF n = l THEN r ELSE cab[n].next
  BY HookedIs
<1>3. \A n \in S : \/ Alike(cab, n, l) /\ (n = l \/ Earlier(n, l)) /\ c[n].next # None
                   \/ Alike(cab, n, r) /\ (n = r \/ Earlier(r, n)) /\ c[n].prev # None
  BY MembersAre
<1>4. Linked(cab, DOMAIN cab \ S)
  <2>1. Linked(cab, S) /\ Mutual(cab)
    BY MembersLinked DEF ChainInv
  <2> HIDE DEF S
  <2> QED BY <2>1, OthersLinked
<1>5. r # None /\ l \in DOMAIN cab /\ r \in DOMAIN cab
  BY IndexIs DEF Joinable
<1> HIDE DEF c, S
<1> SUFFICES ASSUME NEW n \in DOMAIN cab, J[n].next = None
             PROVE  EndAt(n, J[n].files, J[n].folders, fo)
  BY <1>1 DEF EndInv
<1>6. n # l /\ cab[n].next = None /\ c[n].next = None
  BY <1>1, <1>2, <1>5
<1>7. CASE n \in S
  BY <1>1, <1>3, <1>6, <1>7
<1>8. CASE n \notin S
  <2>1. EndAt(n, cab[n].files, cab[n].folders, fold)
    BY <1>6 DEF EndInv
  <2>2. Last(cab[n].folders) \in Range(cab[n].folders)
    BY TailRange DEF ChainInv, Cabinet
  <2>3. Last(cab[n].folders)[1] \notin S
    <3>1. DOMAIN cab \ S \in SUBSET DOMAIN cab /\ n \in DOMAIN cab \ S
      BY <1>8
    <3>2. \A x \in Range(cab[n].folders) : x[1] \in DOMAIN cab \ S
      BY <1>4, <3>1 DEF ChainInv, Held
    <3> QED BY <2>2, <3>2
  <2>4. fo[Last(cab[n].folders)] = fold[Last(cab[n].folders)]
    BY <2>2, <2>3 DEF S
  <2>5. EndAt(n, cab[n].files, cab[n].folders, fo)
    BY <2>1, <2>4 DEF EndAt
  <2> QED BY <1>1, <1>8, <2>5
<1> QED BY <1>7, <1>8

LEMMA ConcatEnds ==
  ASSUME NEW S, NEW s \in Seq(S), NEW t \in Seq(S), s # <<>>
  PROVE  /\ s \o t # <<>> /\ Head(s \o t) = Head(s) /\ Head(s) = s[1]
         /\ t # <<>> => Last(s \o t) = Last(t)
         /\ t = <<>> => s \o t = s
         /\ Tail(s) # <<>> => Last(Tail(s)) = Last(s)
         /\ Tail(s) = <<>> => Last(s) = Head(s)
         /\ Range(s) \subseteq {Head(s)} \cup Range(Tail(s))
<1>1. Len(s) \in Nat \ {0} /\ Len(t) \in Nat
  OBVIOUS
<1>2. s \o t # <<>> /\ Head(s \o t) = Head(s) /\ Head(s) = s[1]
  BY <1>1
<1>3. t # <<>> => Last(s \o t) = Last(t)
  BY <1>1 DEF Last
<1>4. t = <<>> => s \o t = s
  <2>1. s \o <<>> = s
    OBVIOUS
  <2> QED BY <2>1
<1>5. Tail(s) # <<>> => Last(Tail(s)) = Last(s)
  BY <1>1 DEF Last
<1>6. ASSUME Tail(s) = <<>> PROVE Last(s) = Head(s)
  <2>1. DOMAIN Tail(s) = 1 .. Len(s) - 1 /\ Tail(s) \in Seq(S)
    OBVIOUS
  <2>2. Len(<<>>) = 0
    OBVIOUS
  <2>3. DOMAIN Tail(s) = 1 .. Len(Tail(s))
    BY <2>1
  <2>4. Len(Tail(s)) = 0
    BY <1>6, <2>2
  <2>5. 1 \in 1 .. Len(s) - 1 <=> 1 \in 1 .. Len(Tail(s))
    BY <2>1, <2>3
  <2>6. Len(s) = 1
    BY <1>1, <2>4, <2>5
  <2> QED BY <2>6 DEF Last
<1>7. \A i \in DOMAIN s : i = 1 \/ (i - 1 \in DOMAIN Tail(s) /\ s[i] = Tail(s)[i - 1])
  BY <1>1
<1>8. Range(s) \subseteq {Head(s)} \cup Range(Tail(s))
  BY <1>2, <1>7 DEF Range
<1> QED BY <1>2, <1>3, <1>4, <1>5, <1>6, <1>8

\* Two archives list a file that goes on in one and comes in the other: the
\* first folder of r begins with the piece behind the last of l.
LEMMA JunctionIs ==
  ASSUME Known, HeapInv(cab, fold), SetInv(cab, fold), NEW l, NEW r, Joinable(l, r), NextTo(l, r),
         CanMerge(l, Last(cab[l].folders), r, Head(cab[r].folders))
  PROVE  Behind(Last(Last(dir[l].folders)), Head(Head(dir[r].folders)))
<1> DEFINE lfol == Last(cab[l].folders)
           rfol == Head(cab[r].folders)
<1>1. /\ l \in DOMAIN cab /\ r \in DOMAIN cab
      /\ cab[l].next = None /\ cab[r].prev = None
  BY DEF Joinable
<1>2. \A n \in DOMAIN cab : n \in Here /\ n \in Names /\ dir[n] \in Archive[n]
  BY DEF Known, Here
<1>3. PICK f, g : /\ f \in FromIn(cab[l].files, fold[lfol].merge_next)
                  /\ g \in FromIn(cab[r].files, fold[rfol].merge_prev)
                  /\ File(f).offset = File(g).offset /\ File(f).length = File(g).length
                  /\ fold[lfol].merge_next # None /\ fold[rfol].merge_prev # None
  BY DEF CanMerge, From, FromIn
<1>4. /\ rfol = <<r, 1>>
      /\ \A h \in Range(cab[r].files) : h[1] = r \/ Earlier(r, h[1])
  BY <1>1 DEF SetInv, Ordered, OrderedAt
<1>5. EndAt(l, cab[l].files, cab[l].folders, fold)
  BY <1>1 DEF SetInv, EndInv
<1>6. DataAt(fold, rfol)
  <2>1. rfol \in Range(cab[r].folders)
    BY <1>1, TailRange DEF HeapInv, ChainInv, Cabinet
  <2> HIDE DEF rfol
  <2>2. rfol \in DOMAIN fold
    BY <1>1, <2>1 DEF HeapInv, Safe
  <2> QED BY <2>2 DEF SetInv
<1> HIDE DEF lfol, rfol
<1>7. /\ f[1] \in DOMAIN cab /\ f[2] \in DOMAIN dir[f[1]].files
      /\ g[1] \in DOMAIN cab /\ g[2] \in DOMAIN dir[g[1]].files
      /\ g \in Range(cab[r].files)
  <2>1. cab[l].files \in Seq(FilesOf(cab)) /\ cab[r].files \in Seq(FilesOf(cab))
    BY <1>1 DEF HeapInv, ChainInv, Cabinet
  <2>2. f \in Range(cab[l].files) /\ g \in Range(cab[r].files)
    BY <1>3 DEF FromIn, Range
  <2>3. f \in FilesOf(cab) /\ g \in FilesOf(cab)
    BY <2>1, <2>2 DEF Range
  <2> QED BY <2>2, <2>3 DEF FilesOf
<1>8. /\ \E i \in DOMAIN dir[l].files : Goes(dir[l].files[i])
      /\ Goes(File(f))
      /\ f[1] = l \/ (Earlier(f[1], l) /\ Len(dir[l].folders) = 1)
  BY <1>3, <1>5 DEF EndAt, lfol
<1>9. g[1] = r \/ Earlier(r, g[1])
  BY <1>4, <1>7
<1>10. \E i \in DOMAIN dir[r].files : Comes(dir[r].files[i])
  <2>1. fold[rfol].merge_prev = FirstJoin(r, {"prev", "both"})
    BY <1>4, <1>6 DEF DataAt, OpenedFolder
  <2>2. PICK i \in DOMAIN dir[r].files : dir[r].files[i].join \in {"prev", "both"}
    BY <1>1, <1>2, <1>3, <2>1, FirstJoinIs
  <2> QED BY <2>2 DEF Comes
<1>11. \E i \in DOMAIN dir[f[1]].files, j \in DOMAIN dir[g[1]].files :
         /\ Goes(dir[f[1]].files[i])
         /\ dir[f[1]].files[i].offset = dir[g[1]].files[j].offset
         /\ dir[f[1]].files[i].length = dir[g[1]].files[j].length
  BY <1>3, <1>7, <1>8 DEF File
<1> DEFINE A == dir[f[1]]
           M == dir[l]
           B == dir[r]
           C == dir[g[1]]
<1>12. A \in Archives /\ M \in Archives /\ B \in Archives /\ C \in Archives
  BY <1>1, <1>2, <1>7 DEF Archives
<1>13. /\ A.set = M.set /\ M.set = B.set /\ B.set = C.set
       /\ A = M \/ (A.index < M.index /\ Len(M.folders) = 1)
       /\ M.index + 1 = B.index
       /\ C = B \/ B.index < C.index
  BY <1>8, <1>9 DEF NextTo, Earlier
<1>14. /\ \E i \in DOMAIN M.files : Goes(M.files[i])
       /\ \E i \in DOMAIN B.files : Comes(B.files[i])
       /\ \E i \in DOMAIN A.files, j \in DOMAIN C.files :
            /\ Goes(A.files[i])
            /\ A.files[i].offset = C.files[j].offset /\ A.files[i].length = C.files[j].length
  BY <1>8, <1>10, <1>11
<1> HIDE DEF A, M, B, C
<1>15. Behind(Last(Last(M.folders)), Head(Head(B.folders)))
  BY <1>12, <1>13, <1>14, SetsAssumption, Zenon
<1> QED BY <1>15 DEF M, B

LEMMA EndOfPart ==
  ASSUME NEW e, NEW gs, NEW ys, NEW fs, NEW xs, NEW fo, EndAt(e, gs, ys, fold),
         Last(xs) = Last(ys), fo[Last(ys)] = fold[Last(ys)],
         fold[Last(ys)].merge_next # None =>
           FromIn(fs, fold[Last(ys)].merge_next) \subseteq FromIn(gs, fold[Last(ys)].merge_next)
  PROVE  EndAt(e, fs, xs, fo)
BY DEF EndAt

\* The parts of two folders, the second behind the first.
LEMMA ChainedConcat ==
  ASSUME NEW s, NEW x, NEW t, NEW y, Chained(s, x), Chained(t, y), y[2] = 1,
         Behind(Last(Part(Last(s))), Head(Part(y)))
  PROVE  Chained(s \o t, x) /\ Last(s \o t) = Last(t)
<1> DEFINE u == s \o t
           n == Len(s)
<1>1. s \in Seq(Folders) /\ t \in Seq(Folders) /\ s # <<>> /\ t # <<>> /\ s[1] = x /\ t[1] = y
  BY DEF Chained
<1>2. u \in Seq(Folders) \ {<<>>} /\ Last(u) = Last(t)
  BY <1>1, ConcatEnds
<1>3. n \in Nat \ {0} /\ Last(s) = s[n] /\ Len(t) \in Nat \ {0}
  BY <1>1 DEF Last
<1>4. /\ Len(u) = n + Len(t)
      /\ \A i \in 1 .. n : u[i] = s[i]
      /\ \A i \in n + 1 .. n + Len(t) : u[i] = t[i - n]
  BY <1>1
<1>5. /\ \A i \in 2 .. n : s[i][2] = 1 /\ Behind(Last(Part(s[i - 1])), Head(Part(s[i])))
      /\ \A i \in 2 .. Len(t) : t[i][2] = 1 /\ Behind(Last(Part(t[i - 1])), Head(Part(t[i])))
  BY DEF Chained
<1> HIDE DEF u, n
<1>6. ASSUME NEW i \in 2 .. Len(u)
      PROVE  u[i][2] = 1 /\ Behind(Last(Part(u[i - 1])), Head(Part(u[i])))
  <2>1. CASE i <= n
    <3>1. i \in 2 .. n /\ i \in 1 .. n /\ i - 1 \in 1 .. n
      BY <1>3, <1>4, <2>1
    <3> QED BY <1>4, <1>5, <3>1
  <2>2. CASE i = n + 1
    <3>1. u[i] = y /\ u[i - 1] = Last(s)
      <4>1. i \in n + 1 .. n + Len(t) /\ i - n = 1 /\ i - 1 = n /\ n \in 1 .. n
        BY <1>3, <2>2
      <4> QED BY <1>1, <1>3, <1>4, <4>1
    <3> QED BY <3>1
  <2>3. CASE i > n + 1
    <3>1. /\ i \in n + 1 .. n + Len(t) /\ i - 1 \in n + 1 .. n + Len(t)
          /\ i - n \in 2 .. Len(t) /\ (i - 1) - n = (i - n) - 1
      BY <1>3, <1>4, <2>3
    <3>2. u[i] = t[i - n] /\ u[i - 1] = t[(i - n) - 1]
      BY <1>4, <3>1
    <3> QED BY <1>5, <3>1, <3>2
  <2> QED BY <1>3, <1>4, <2>1, <2>2, <2>3
<1>7. u[1] = x
  BY <1>1, <1>3, <1>4
<1> QED BY <1>2, <1>6, <1>7 DEF Chained, u

\* A joining of neighbours keeps the invariant.
LEMMA MergeSets ==
  ASSUME Known, HeapInv(cab, fold), SetInv(cab, fold), NEW l \in DOMAIN cab, NEW r \in DOMAIN cab,
         NextTo(l, r), Merge(l, r), dir' = dir
  PROVE  SetInv(cab, fold)'
<1> DEFINE lfol  == Last(cab[l].folders)
           rfol  == Head(cab[r].folders)
           lf    == cab[l].files
           rf    == cab[r].files
           lx    == cab[l].folders
           rx    == cab[r].folders
           R     == {r} \cup After(cab, r)
           files == lf \o rf
<1>1. ASSUME UNCHANGED heap PROVE SetInv(cab, fold)'
  BY <1>1, SetPrimed DEF heap
<1> SUFFICES ASSUME Joinable(l, r),
                    \/ /\ cab' = Joined(l, r, files, lx \o rx)
                       /\ fold' = fold
                    \/ /\ CanMerge(l, lfol, r, rfol)
                       /\ cab' = Joined(l, r, Kept(files, rfol), lx \o Tail(rx))
                       /\ fold' = [x \in DOMAIN fold \ {rfol} |->
                                     IF x = lfol THEN Merged(lfol, rfol) ELSE fold[x]]
             PROVE  SetInv(cab, fold)'
  BY <1>1 DEF Merge, Joinable
<1>2. ChainInv(cab) /\ Own(fold) /\ Ordered(cab) /\ EndInv(cab, fold) /\ \A x \in DOMAIN fold : DataAt(fold, x)
  BY DEF HeapInv, SetInv
<1>3. /\ lf \in Seq(FilesOf(cab)) /\ rf \in Seq(FilesOf(cab))
      /\ lx \in Seq(FoldersOf(cab)) /\ rx \in Seq(FoldersOf(cab))
      /\ lx # <<>> /\ rx # <<>> /\ OneEach(rx)
  BY <1>2 DEF ChainInv, Cabinet
<1>4. /\ \A f \in Range(lf) : f[1] \notin R
      /\ \A f \in Range(rf) : f[1] \in R
      /\ \A x \in Range(lx) : x[1] \notin R
      /\ \A x \in Range(rx) : x[1] \in R
  BY <1>2, Apart DEF Joinable
<1>5. /\ \A f \in Range(lf) : FolderOf(f) \in Range(lx)
      /\ \A f \in Range(rf) : FolderOf(f) \in Range(rx)
      /\ rfol = <<r, 1>>
  BY <1>2 DEF Ordered, OrderedAt, Joinable
<1>6. EndAt(l, lf, lx, fold)
  BY <1>2 DEF EndInv, Joinable
<1>7. \A e \in DOMAIN cab : cab[e].next = None /\ Alike(cab, e, r) => EndAt(e, rf, rx, fold)
  BY <1>2 DEF EndInv, Alike
<1>8. Safe(fold, Range(lf), Range(lx)) /\ Safe(fold, Range(rf), Range(rx))
  BY DEF HeapInv
<1>9. /\ CanMerge(l, lfol, r, rfol) => Behind(Last(Last(dir[l].folders)), Head(Head(dir[r].folders)))
      /\ CanMerge(l, lfol, r, rfol) => fold[lfol].merge_next # None
  BY JunctionIs DEF CanMerge
<1>10. r # None /\ l # r
  BY IndexIs DEF Joinable
<1> HIDE DEF lfol, rfol, lf, rf, lx, rx, R, files
<1>11. /\ lfol \in Range(lx) /\ rfol \in Range(rx) /\ lfol = Last(lx) /\ rfol = Head(rx)
       /\ lfol \in DOMAIN fold /\ rfol \in DOMAIN fold
  <2>1. lfol \in Range(lx) /\ rfol \in Range(rx) /\ lfol = Last(lx) /\ rfol = Head(rx)
    BY <1>3, TailRange DEF lfol, rfol, lx, rx
  <2> QED BY <1>8, <2>1 DEF Safe
<1>12. files \in Seq(FilesOf(cab)) /\ Range(files) = Range(lf) \cup Range(rf)
  BY <1>3, ConcatRange DEF files
<1>13. \A x \in Range(rx) : fold[x].merge_next # None =>
         FromIn(files, fold[x].merge_next) \subseteq FromIn(rf, fold[x].merge_next)
  <2> SUFFICES ASSUME NEW x \in Range(rx), fold[x].merge_next # None
               PROVE  FromIn(files, fold[x].merge_next) \subseteq FromIn(rf, fold[x].merge_next)
    OBVIOUS
  <2>1. fold[x].merge_next \in Range(rf)
    BY <1>8 DEF Safe
  <2>2. fold[x].merge_next \notin Range(lf)
    BY <1>4, <2>1
  <2> QED BY <1>3, <2>2, FromConcat DEF files
<1>14. ASSUME cab' = Joined(l, r, files, lx \o rx), fold' = fold
       PROVE  SetInv(cab, fold)'
  <2> DEFINE xs == lx \o rx
             J == Joined(l, r, files, xs)
  <2>1. /\ Head(xs) = Head(lx) /\ Last(xs) = Last(rx)
        /\ Range(xs) = Range(lx) \cup Range(rx)
    BY <1>3, ConcatRange, ConcatEnds
  <2> HIDE DEF xs
  <2>2. Ordered(J)
    BY <1>2, <1>5, <1>12, <2>1, OrderedJoined DEF lf, rf, lx
  <2>3. Last(rx) \in Range(rx)
    BY <1>3, TailRange
  <2>4. \A e \in DOMAIN cab : cab[e].next = None /\ Alike(cab, e, r) /\ (e = r \/ Earlier(r, e)) =>
          EndAt(e, files, xs, fold)
    <3> SUFFICES ASSUME NEW e \in DOMAIN cab, cab[e].next = None, Alike(cab, e, r)
                 PROVE  EndAt(e, files, xs, fold)
      OBVIOUS
    <3>1. EndAt(e, rf, rx, fold)
      BY <1>7
    <3> QED BY <1>13, <2>1, <2>3, <3>1, EndOfPart
  <2>5. EndInv(J, fold)
    BY <1>2, <2>4, EndJoined
  <2> HIDE DEF J
  <2>6. SetInv(J, fold)
    BY <1>2, <2>2, <2>5 DEF SetInv
  <2>7. cab' = J
    BY <1>14 DEF J, xs
  <2> QED BY <1>14, <2>6, <2>7, SetPrimed
<1>15. ASSUME CanMerge(l, lfol, r, rfol),
              cab' = Joined(l, r, Kept(files, rfol), lx \o Tail(rx)),
              fold' = [x \in DOMAIN fold \ {rfol} |->
                         IF x = lfol THEN Merged(lfol, rfol) ELSE fold[x]]
       PROVE  SetInv(cab, fold)'
  <2> DEFINE fs == Kept(files, rfol)
             xs == lx \o Tail(rx)
             J == Joined(l, r, fs, xs)
             fo == [x \in DOMAIN fold \ {rfol} |->
                      IF x = lfol THEN Merged(lfol, rfol) ELSE fold[x]]
  <2>1. Range(fs) = {f \in Range(files) : FolderOf(f) # rfol}
    BY <1>12, KeptFiles
  <2>2. /\ Tail(rx) \in Seq(FoldersOf(cab)) /\ Range(Tail(rx)) \subseteq Range(rx)
        /\ rfol \notin Range(Tail(rx))
        /\ Range(rx) \subseteq {rfol} \cup Range(Tail(rx))
        /\ Tail(rx) # <<>> => Last(Tail(rx)) = Last(rx)
        /\ Tail(rx) = <<>> => Last(rx) = rfol
    BY <1>3, <1>11, TailRange, ConcatEnds
  <2>3. /\ Head(xs) = Head(lx)
        /\ Tail(rx) # <<>> => Last(xs) = Last(rx)
        /\ Tail(rx) = <<>> => xs = lx
        /\ Range(xs) = Range(lx) \cup Range(Tail(rx))
    <3> DEFINE t == Tail(rx)
    <3>1. t \in Seq(FoldersOf(cab)) /\ (t # <<>> => Last(t) = Last(rx))
      BY <2>2
    <3> HIDE DEF t
    <3>2. /\ Head(lx \o t) = Head(lx)
          /\ t # <<>> => Last(lx \o t) = Last(t)
          /\ t = <<>> => lx \o t = lx
          /\ Range(lx \o t) = Range(lx) \cup Range(t)
      BY <1>3, <3>1, ConcatRange, ConcatEnds
    <3> QED BY <3>1, <3>2 DEF t
  <2>4. /\ DOMAIN fo = DOMAIN fold \ {rfol}
        /\ \A x \in DOMAIN fold \ {rfol, lfol} : fo[x] = fold[x]
    OBVIOUS
  <2>5. lfol # rfol
    BY <1>4, <1>11
  <2>6. fo[lfol] = Merged(lfol, rfol)
    BY <1>11, <2>5
  <2>7. /\ fo[lfol].data = fold[lfol].data \o fold[rfol].data
        /\ fo[lfol].num_blocks = fold[lfol].num_blocks + fold[rfol].num_blocks - 1
        /\ fo[lfol].merge_prev = fold[lfol].merge_prev
        /\ fo[lfol].merge_next # None => fold[rfol].merge_next # None /\ fo[lfol].merge_next = fold[lfol].merge_next
    <3>1. fold[lfol] = [k \in {"data", "num_blocks", "merge_prev", "merge_next"} |-> fold[lfol][k]]
      BY <1>2, <1>11 DEF Own
    <3>2. fold[rfol].merge_next # None => FolderOf(fold[rfol].merge_next) = rfol
      BY <1>2, <1>11 DEF Own
    <3> DEFINE M == Merged(lfol, rfol)
               next == fold[rfol].merge_next
    <3>3. M.merge_next = IF next = None \/ FolderOf(next) # rfol THEN next ELSE fold[lfol].merge_next
      BY <3>1 DEF Merged
    <3>4. M.merge_prev = fold[lfol].merge_prev
      BY <3>1 DEF Merged
    <3>5. M.data = fold[lfol].data \o fold[rfol].data
      BY <3>1 DEF Merged
    <3>6. M.num_blocks = fold[lfol].num_blocks + fold[rfol].num_blocks - 1
      BY <3>1 DEF Merged
    <3> HIDE DEF M
    <3>7. fo[lfol] = M
      BY <2>6 DEF M
    <3> QED BY <3>2, <3>3, <3>4, <3>5, <3>6, <3>7
  <2> HIDE DEF fs, xs, fo
  <2>8. Ordered(J)
    <3>1. \A f \in Range(fs) : FolderOf(f) \in Range(xs)
      BY <1>5, <1>12, <2>1, <2>2, <2>3
    <3>2. Range(fs) \subseteq Range(lf) \cup Range(rf)
      BY <1>12, <2>1
    <3> QED BY <1>2, <2>3, <3>1, <3>2, OrderedJoined DEF lf, rf, lx
  <2>9. Last(fold[lfol].data) = <<l, Len(dir[l].folders)>>
    BY <1>6, <1>11 DEF EndAt
  <2>10. /\ Chained(fo[lfol].data, lfol)
         /\ Last(fo[lfol].data) = Last(fold[rfol].data)
    <3>1. Chained(fold[lfol].data, lfol) /\ Chained(fold[rfol].data, rfol)
      BY <1>2, <1>11 DEF DataAt
    <3>2. l \in Here /\ r \in Here
      BY DEF Known
    <3>3. /\ Part(Last(fold[lfol].data)) = Last(dir[l].folders)
          /\ Part(rfol) = Head(dir[r].folders)
      <4>1. dir[l].folders \in Seq(Range(dir[l].folders)) \ {<<>>} /\ dir[r].folders \in Seq(Range(dir[r].folders)) \ {<<>>}
        BY <3>2, ArchiveIs
      <4>2. Head(dir[r].folders) = dir[r].folders[1]
        BY <4>1
      <4> QED BY <1>5, <2>9, <4>2 DEF Part, Last
    <3>4. Behind(Last(Part(Last(fold[lfol].data))), Head(Part(rfol))) /\ rfol[2] = 1
      BY <1>5, <1>9, <1>15, <3>3
    <3> QED BY <2>7, <3>1, <3>4, ChainedConcat
  <2>11. ASSUME NEW x \in DOMAIN fo PROVE DataAt(fo, x)
    <3>1. x \in DOMAIN fold
      BY <2>4
    <3>2. CASE x = lfol
      <4>1. /\ fold[lfol].num_blocks \in Nat \ {0} /\ fold[rfol].num_blocks \in Nat \ {0}
            /\ fold[lfol].merge_prev = OpenedFolder(lfol[1], lfol[2]).merge_prev
        BY <1>2, <1>11 DEF DataAt
      <4>2. fo[lfol].num_blocks \in Nat \ {0}
        <5>1. \A a, b \in Nat \ {0} : a + b - 1 \in Nat \ {0}
          OBVIOUS
        <5>2. fold[lfol].num_blocks + fold[rfol].num_blocks - 1 \in Nat \ {0}
          BY <4>1, <5>1
        <5> QED BY <2>7, <5>2
      <4> QED BY <2>7, <2>10, <3>2, <4>1, <4>2 DEF DataAt
    <3>3. CASE x # lfol
      <4>1. fo[x] = fold[x]
        BY <2>4, <3>3
      <4> QED BY <1>2, <3>1, <4>1 DEF DataAt
    <3> QED BY <3>2, <3>3
  <2>12. ASSUME NEW e \in DOMAIN cab, cab[e].next = None, Alike(cab, e, r), e = r \/ Earlier(r, e)
         PROVE  EndAt(e, fs, xs, fo)
    <3>1. EndAt(e, rf, rx, fold)
      BY <1>7, <2>12
    <3>2. CASE Tail(rx) # <<>>
      <4>1. Last(rx) \in Range(rx) /\ Last(rx) # rfol /\ Last(rx) # lfol
        <5>1. Last(rx) \in Range(Tail(rx))
          BY <2>2, <3>2, TailRange
        <5> QED BY <1>4, <1>11, <2>2, <5>1
      <4>2. fo[Last(rx)] = fold[Last(rx)]
        <5>1. Last(rx) \in DOMAIN fold
          BY <1>8, <4>1 DEF Safe
        <5> QED BY <2>4, <4>1, <5>1
      <4>3. ASSUME fold[Last(rx)].merge_next # None
            PROVE  FromIn(fs, fold[Last(rx)].merge_next) \subseteq FromIn(rf, fold[Last(rx)].merge_next)
        <5>1. FromIn(fs, fold[Last(rx)].merge_next) \subseteq FromIn(files, fold[Last(rx)].merge_next)
          BY <1>12, KeptFrom DEF fs
        <5> QED BY <1>13, <4>1, <4>3, <5>1
      <4> QED BY <2>3, <3>1, <3>2, <4>2, <4>3, EndOfPart
    <3>3. CASE Tail(rx) = <<>>
      <4>1. Last(rx) = rfol /\ Last(xs) = lfol
        BY <1>11, <2>2, <2>3, <3>3
      <4>2. Last(fo[lfol].data) = <<e, Len(dir[e].folders)>>
        BY <2>10, <3>1, <4>1 DEF EndAt
      <4>3. ASSUME fo[lfol].merge_next # None
            PROVE  /\ \E i \in DOMAIN dir[e].files : Goes(dir[e].files[i])
                   /\ \A f \in FromIn(fs, fo[lfol].merge_next) :
                        /\ Goes(File(f))
                        /\ f[1] = e \/ (Earlier(f[1], e) /\ Len(dir[e].folders) = 1)
        <5>1. fold[rfol].merge_next # None /\ fo[lfol].merge_next = fold[lfol].merge_next
          BY <2>7, <4>3
        <5>2. \E i \in DOMAIN dir[e].files : Goes(dir[e].files[i])
          BY <3>1, <4>1, <5>1 DEF EndAt
        <5>3. Len(dir[e].folders) = 1
          <6> DEFINE d == fold[rfol].data
          <6>1. Chained(d, rfol) /\ Last(d) = <<e, Len(dir[e].folders)>>
            BY <1>2, <1>11, <2>10, <4>2 DEF DataAt
          <6> HIDE DEF d
          <6>2. Len(d) \in Nat \ {0} /\ Last(d) = d[Len(d)] /\ d[1] = <<r, 1>>
            BY <1>5, <6>1 DEF Chained, Last
          <6>3. Last(d)[2] = 1
            <7>1. CASE Len(d) = 1
              BY <6>2, <7>1
            <7>2. CASE Len(d) # 1
              <8>1. Len(d) \in 2 .. Len(d)
                <9>1. \A k \in Nat \ {0} : k # 1 => k \in 2 .. k
                  OBVIOUS
                <9> QED BY <6>2, <7>2, <9>1
              <8> QED BY <6>1, <6>2, <8>1 DEF Chained
            <7> QED BY <7>1, <7>2
          <6> QED BY <6>1, <6>3
        <5>4. ASSUME NEW f \in FromIn(fs, fo[lfol].merge_next)
              PROVE  Goes(File(f)) /\ Earlier(f[1], e)
          <6>1. f \in FromIn(files, fold[lfol].merge_next) /\ f \in Range(fs)
            <7>1. f \in FromIn(fs, fold[lfol].merge_next)
              BY <5>1, <5>4
            <7>2. f \in FromIn(files, fold[lfol].merge_next)
              BY <1>12, <7>1, KeptFrom DEF fs
            <7>3. f \in Range(fs)
              BY <7>1 DEF FromIn, Range
            <7> QED BY <7>2, <7>3
          <6>2. f \in FromIn(lf, fold[lfol].merge_next) \cup Range(rf)
            BY <1>3, <6>1, FromConcat DEF files
          <6>3. f \notin Range(rf)
            <7>1. FolderOf(f) # rfol
              BY <2>1, <6>1
            <7>2. Range(rx) \subseteq {rfol}
              <8>1. Range(Tail(rx)) = {}
                BY <3>3 DEF Range
              <8> QED BY <2>2, <8>1
            <7> QED BY <1>5, <7>1, <7>2
          <6>4. Goes(File(f)) /\ (f[1] = l \/ Earlier(f[1], l))
            BY <1>6, <1>9, <1>11, <1>15, <6>2, <6>3 DEF EndAt
          <6>5. /\ dir[f[1]].index \in Nat /\ dir[l].index \in Nat /\ dir[r].index \in Nat /\ dir[e].index \in Nat
            <7>1. f[1] \in DOMAIN cab
              <8>1. f \in FilesOf(cab)
                BY <1>12, <2>1, <6>1 DEF Range
              <8> QED BY <8>1 DEF FilesOf
            <7> QED BY <2>12, <7>1, IndexIs
          <6> QED BY <2>12, <6>4, <6>5 DEF Earlier, NextTo
        <5> QED BY <5>2, <5>3, <5>4
      <4> QED BY <4>1, <4>2, <4>3 DEF EndAt
    <3> QED BY <3>2, <3>3
  <2>13. \A n \in DOMAIN cab : \A x \in Range(cab[n].folders) : x[1] \notin Members(l, r) => fo[x] = fold[x]
    <3> SUFFICES ASSUME NEW n \in DOMAIN cab, NEW x \in Range(cab[n].folders), x[1] \notin Members(l, r)
                 PROVE  fo[x] = fold[x]
      OBVIOUS
    <3>1. x \in DOMAIN fold
      BY DEF HeapInv, Safe
    <3>2. lfol[1] \in Members(l, r) /\ rfol[1] \in Members(l, r)
      <4> DEFINE S == Members(l, r)
      <4>1. Linked(cab, S) /\ l \in S /\ r \in S
        BY <1>2, MembersLinked DEF Members
      <4> HIDE DEF S
      <4>2. S \in SUBSET DOMAIN cab
        BY <4>1 DEF Linked
      <4>3. \A m \in S : \A y \in Range(cab[m].folders) : y[1] \in S
        BY <1>2, <4>1, <4>2 DEF ChainInv, Held
      <4>4. lfol[1] \in S /\ rfol[1] \in S
        BY <1>11, <4>1, <4>3 DEF lx, rx
      <4> QED BY <4>4 DEF S
    <3> QED BY <2>4, <3>1, <3>2
  <2>14. EndInv(J, fo)
    BY <1>2, <2>12, <2>13, EndJoined
  <2> HIDE DEF J
  <2>15. SetInv(J, fo)
    BY <2>8, <2>11, <2>14 DEF SetInv
  <2>16. cab' = J /\ fold' = fo
    BY <1>15 DEF J, fo, fs, xs
  <2> QED BY <2>15, <2>16, SetPrimed
<1> QED BY <1>14, <1>15 DEF lfol, rfol, lf, rf, lx, rx, files

\* Archives just opened are chains of one.
LEMMA FreshSets ==
  ASSUME Known, Fresh
  PROVE  SetInv(cab, fold)
<1>1. \A n \in DOMAIN cab : n \in Here /\ n \in Names /\ dir[n] \in Archive[n] /\ cab[n] = Opened(n)
  BY DEF Fresh, Known, Here
<1>2. ASSUME NEW n \in DOMAIN cab
      PROVE  /\ cab[n].prev = None /\ cab[n].next = None
             /\ DOMAIN dir[n].files = 1 .. Len(dir[n].files) /\ Len(dir[n].files) \in Nat
             /\ DOMAIN dir[n].folders = 1 .. Len(dir[n].folders) /\ Len(dir[n].folders) \in Nat \ {0}
             /\ cab[n].files = [i \in 1 .. Len(dir[n].files) |-> <<n, i>>]
             /\ cab[n].folders = [k \in 1 .. Len(dir[n].folders) |-> <<n, k>>]
             /\ Head(cab[n].folders) = <<n, 1>>
             /\ Last(cab[n].folders) = <<n, Len(dir[n].folders)>>
             /\ \A k \in DOMAIN dir[n].folders : <<n, k>> \in Range(cab[n].folders) /\ <<n, k>> \in DOMAIN fold
  <2>1. /\ DOMAIN dir[n].files = 1 .. Len(dir[n].files) /\ Len(dir[n].files) \in Nat
        /\ DOMAIN dir[n].folders = 1 .. Len(dir[n].folders) /\ Len(dir[n].folders) \in Nat \ {0}
    BY <1>1, ArchiveIs
  <2> DEFINE fs == [i \in 1 .. Len(dir[n].files) |-> <<n, i>>]
             xs == [k \in 1 .. Len(dir[n].folders) |-> <<n, k>>]
  <2>2. cab[n] = [files |-> fs, folders |-> xs, prev |-> None, next |-> None]
    BY <1>1, <2>1 DEF Opened
  <2>3. /\ Head(xs) = <<n, 1>> /\ Last(xs) = <<n, Len(dir[n].folders)>>
        /\ \A k \in DOMAIN dir[n].folders : <<n, k>> \in Range(xs)
    <3>1. Len(xs) = Len(dir[n].folders) /\ Head(xs) = xs[1]
      BY <2>1
    <3>2. 1 \in 1 .. Len(dir[n].folders) /\ Len(dir[n].folders) \in 1 .. Len(dir[n].folders)
      BY <2>1
    <3> QED BY <2>1, <3>1, <3>2 DEF Last, Range
  <2>4. \A k \in DOMAIN dir[n].folders : <<n, k>> \in DOMAIN fold
    BY <1>1, <2>1 DEF Fresh, FoldersOf
  <2> HIDE DEF fs, xs
  <2>5. cab[n].prev = None /\ cab[n].next = None /\ cab[n].files = fs /\ cab[n].folders = xs
    BY <2>2
  <2> QED BY <2>1, <2>3, <2>4, <2>5 DEF fs, xs
<1>3. Ordered(cab)
  <2> SUFFICES ASSUME NEW n \in DOMAIN cab PROVE OrderedAt(cab, n)
    BY DEF Ordered
  <2>1. \A f \in Range(cab[n].files) : \E i \in DOMAIN dir[n].files : f = <<n, i>>
    <3>1. /\ cab[n].files = [i \in 1 .. Len(dir[n].files) |-> <<n, i>>]
          /\ DOMAIN dir[n].files = 1 .. Len(dir[n].files)
      BY <1>2
    <3> QED BY <3>1 DEF Range
  <2>2. ASSUME NEW f \in Range(cab[n].files) PROVE f[1] = n /\ FolderOf(f) \in Range(cab[n].folders)
    <3>1. PICK i \in DOMAIN dir[n].files : f = <<n, i>>
      BY <2>1
    <3>2. PICK k \in DOMAIN dir[n].folders : FolderOf(f) = <<n, k>>
      <4>1. Len(dir[n].folders) \in DOMAIN dir[n].folders /\ 1 \in DOMAIN dir[n].folders
        BY <1>1, ArchiveIs
      <4>2. dir[n].files[i].join = "none" => dir[n].files[i].folder \in DOMAIN dir[n].folders
        BY <1>1, ArchiveIs
      <4> QED BY <3>1, <4>1, <4>2 DEF FolderOf, File
    <3> QED BY <1>2, <3>1, <3>2
  <2>3. cab[n].next = None /\ Head(cab[n].folders) = <<n, 1>>
    BY <1>2
  <2> QED BY <2>2, <2>3 DEF OrderedAt
<1>4. ASSUME NEW x \in DOMAIN fold PROVE DataAt(fold, x)
  <2>1. x \in FoldersOf(cab)
    BY DEF Fresh
  <2>2. PICK n \in DOMAIN cab, k \in Nat : x = <<n, k>> /\ k \in DOMAIN dir[n].folders
    BY <2>1 DEF FoldersOf
  <2>3. Pieced(dir[n].folders[k])
    BY <1>1, <2>2, PiecesAssumption
  <2>4. fold[x] = OpenedFolder(n, k)
    BY <2>2 DEF Fresh
  <2>5. fold[x].data = <<x>> /\ fold[x].num_blocks = Len(dir[n].folders[k])
    BY <2>2, <2>4 DEF OpenedFolder
  <2>6. Len(dir[n].folders[k]) \in Nat \ {0}
    BY <2>3 DEF Pieced
  <2>7. x \in Folders
    BY <1>1, <2>2 DEF Folders
  <2>8. Chained(<<x>>, x)
    <3>1. <<x>> \in Seq(Folders) /\ <<x>> # <<>> /\ Len(<<x>>) = 1 /\ <<x>>[1] = x
      BY <2>7
    <3>2. 2 .. 1 = {}
      OBVIOUS
    <3> QED BY <3>1, <3>2 DEF Chained
  <2> QED BY <2>2, <2>4, <2>5, <2>6, <2>8 DEF DataAt
<1>5. ASSUME NEW n \in DOMAIN cab PROVE EndAt(n, cab[n].files, cab[n].folders, fold)
  <2> DEFINE L == Len(dir[n].folders)
             x == <<n, L>>
  <2>1. L \in DOMAIN dir[n].folders /\ x \in DOMAIN fold /\ Last(cab[n].folders) = x
    <3>1. L \in DOMAIN dir[n].folders
      <4>1. L \in Nat \ {0} /\ DOMAIN dir[n].folders = 1 .. L
        BY <1>2
      <4> HIDE DEF L
      <4> QED BY <4>1
    <3> QED BY <1>2, <3>1
  <2>2. fold[x] = OpenedFolder(n, L)
    BY <2>1 DEF Fresh
  <2>3. fold[x].data = <<x>> /\ fold[x].merge_next = FirstJoin(n, {"next", "both"})
    BY <2>2 DEF OpenedFolder
  <2>4. Last(<<x>>) = x
    BY DEF Last
  <2>5. ASSUME fold[x].merge_next # None
        PROVE  /\ \E i \in DOMAIN dir[n].files : Goes(dir[n].files[i])
               /\ \A f \in FromIn(cab[n].files, fold[x].merge_next) : Goes(File(f)) /\ f[1] = n
    <3>1. PICK i \in DOMAIN dir[n].files : fold[x].merge_next = <<n, i>> /\ dir[n].files[i].join \in {"next", "both"}
      BY <1>1, <2>3, <2>5, FirstJoinIs
    <3>2. Goes(dir[n].files[i])
      BY <3>1 DEF Goes
    <3>3. ASSUME NEW f \in FromIn(cab[n].files, <<n, i>>) PROVE Goes(File(f)) /\ f[1] = n
      <4>1. PICK j \in DOMAIN cab[n].files : f = cab[n].files[j] /\ \E k \in 1 .. j : cab[n].files[k] = <<n, i>>
        BY DEF FromIn
      <4> DEFINE N == Len(dir[n].files)
      <4>0. cab[n].files = [m \in 1 .. N |-> <<n, m>>] /\ N \in Nat
        BY <1>2
      <4> HIDE DEF N
      <4>2. j \in 1 .. N /\ f = <<n, j>> /\ N \in Nat
        BY <4>0, <4>1
      <4>3. PICK k \in 1 .. j : cab[n].files[k] = <<n, i>>
        BY <4>1
      <4>4. k \in 1 .. N /\ k <= j
        BY <4>2
      <4>5. k = i
        <5>1. <<n, k>> = <<n, i>>
          BY <4>0, <4>3, <4>4
        <5> QED BY <5>1
      <4>6. DOMAIN dir[n].files = 1 .. N
        BY <1>2 DEF N
      <4>7. Goes(dir[n].files[j])
        BY <1>1, <3>2, <4>2, <4>4, <4>5, <4>6, PiecesAssumption
      <4> QED BY <4>2, <4>7 DEF File
    <3> QED BY <3>1, <3>2, <3>3
  <2> QED BY <2>1, <2>3, <2>4, <2>5 DEF EndAt
<1> QED BY <1>3, <1>4, <1>5 DEF SetInv, EndInv

--------------------------------------------------------------------------
(* The archives looked up are joined to their neighbours                   *)

Good == ~short /\ \A m \in Here : dir[m].readable

\* The archive found before the one at i + 1 of a list.
Found(list, i) == IF i = 0 THEN src ELSE list[i]

InOrder ==
  /\ prevlist \in Seq(DOMAIN cab) /\ nextlist \in Seq(DOMAIN cab)
  /\ \A i \in DOMAIN prevlist : NextTo(prevlist[i], Found(prevlist, i - 1))
  /\ \A i \in DOMAIN nextlist : NextTo(Found(nextlist, i - 1), nextlist[i])

Way ==
  /\ pc \in {"prev", "next", "open", "prepend", "append"} => InOrder
  /\ pc = "prev" => search = Found(prevlist, Len(prevlist)) /\ nextlist = <<>>
  /\ pc = "next" => search = Found(nextlist, Len(nextlist))
  /\ pc = "prepend" => item \in 0 .. Len(prevlist) /\ at = Found(prevlist, item)
  /\ pc = "append" => item \in 0 .. Len(nextlist) /\ at = Found(nextlist, item)
  /\ pc = "files" => at \in DOMAIN cab /\ item \in Nat
  /\ pc \notin {"close", "done"} => cnt = 0

LEMMA WayPrimed ==
  ASSUME InOrder, dir' = dir, src' = src, prevlist' = prevlist, nextlist' = nextlist,
         DOMAIN cab \subseteq DOMAIN cab'
  PROVE  InOrder'
<1>1. prevlist' \in Seq(DOMAIN cab') /\ nextlist' \in Seq(DOMAIN cab')
  BY DEF InOrder
<1>2. \A m, n : NextTo(m, n)' <=> NextTo(m, n)
  BY DEF NextTo
<1>3. \A list, i : Found(list, i)' = Found(list, i)
  BY DEF Found
<1> QED BY <1>1, <1>2, <1>3 DEF InOrder

\* A list with one more.
LEMMA OneMore ==
  ASSUME NEW D, NEW list \in Seq(D), NEW p \in D
  PROVE  /\ Append(list, p) \in Seq(D)
         /\ Found(Append(list, p), Len(Append(list, p))) = p
         /\ DOMAIN Append(list, p) = DOMAIN list \cup {Len(list) + 1}
         /\ Append(list, p)[Len(list) + 1] = p
         /\ Found(Append(list, p), Len(list)) = Found(list, Len(list))
         /\ \A i \in DOMAIN list : /\ Append(list, p)[i] = list[i]
                                   /\ Found(Append(list, p), i - 1) = Found(list, i - 1)
<1> DEFINE t == Append(list, p)
           n == Len(list)
<1>1. n \in Nat /\ DOMAIN list = 1 .. n
  OBVIOUS
<1>2. t \in Seq(D) /\ Len(t) = n + 1 /\ t[n + 1] = p
  OBVIOUS
<1>3. \A i \in 1 .. n : t[i] = list[i]
  OBVIOUS
<1>4. DOMAIN t = 1 .. n + 1
  BY <1>2
<1> HIDE DEF t, n
<1>5. \A i \in 1 .. n : i - 1 = 0 \/ i - 1 \in 1 .. n
  BY <1>1
<1>6. n + 1 # 0 /\ 1 .. n + 1 = (1 .. n) \cup {n + 1} /\ (n = 0 \/ n \in 1 .. n)
  BY <1>1
<1>7. Found(t, Len(t)) = p /\ Found(t, n) = Found(list, n)
  BY <1>2, <1>3, <1>6 DEF Found
<1>8. \A i \in 1 .. n : Found(t, i - 1) = Found(list, i - 1)
  BY <1>3, <1>5 DEF Found
<1> QED BY <1>1, <1>2, <1>3, <1>4, <1>6, <1>7, <1>8 DEF t, n

LEMMA WayNext == CabInv /\ Good /\ Way /\ [Next]_vars => Way'
<1> SUFFICES ASSUME CabInv, Good, Way, [Next]_vars PROVE Way'
  OBVIOUS
<1>1. dir' = dir /\ Here' = Here /\ wanted' = wanted /\ short' = short
  BY DEF Next, vars, Here, SearchNext, SearchEnd, LookupNext, LookupEnd, FindPrev, FindNext,
         OpenSource, Prepend, PrependEnd, Append1, AppendEnd, TryFile, FilesEnd, Close
<1>2. Known
  BY DEF CabInv
<1>3. UNCHANGED heap => DOMAIN cab' = DOMAIN cab
  BY DEF heap
<1>4. ASSUME NEW n, Begin(n) PROVE InOrder' /\ search' = Found(prevlist, Len(prevlist))' /\ nextlist' = <<>>
  <2>1. prevlist' = <<>> /\ nextlist' = <<>> /\ src' = search'
    BY <1>4 DEF Begin
  <2>2. prevlist' \in Seq(DOMAIN cab') /\ nextlist' \in Seq(DOMAIN cab') /\ Len(prevlist') = 0
        /\ DOMAIN prevlist' = {} /\ DOMAIN nextlist' = {}
    BY <2>1
  <2> QED BY <2>1, <2>2 DEF InOrder, Found
<1>5. CASE SearchNext
  BY <1>4, <1>5 DEF SearchNext, Begin, Way
<1>6. CASE SearchEnd
  BY <1>6 DEF SearchEnd, Way
<1>7. CASE LookupNext
  BY <1>7 DEF LookupNext, Way
<1>8. CASE LookupEnd
  BY <1>4, <1>8 DEF LookupEnd, Begin, Way
<1>9. ASSUME NEW p \in Here, Fresh, Open(p)
      PROVE  DOMAIN cab \subseteq DOMAIN cab' /\ p \in DOMAIN cab'
  BY <1>1, <1>2, <1>9, OpenKeeps DEF Good
<1>10. CASE FindPrev
  <2>1. pc = "prev" /\ Fresh /\ InOrder /\ search = Found(prevlist, Len(prevlist)) /\ nextlist = <<>> /\ cnt = 0
    BY <1>10 DEF FindPrev, CabInv, Way
  <2>2. CASE Prev(search) = None
    <3>1. search' = src /\ pc' = "next" /\ UNCHANGED <<src, lists, heap, cnt>>
      BY <1>10, <2>2 DEF FindPrev, lists
    <3>2. InOrder'
      BY <1>1, <1>3, <2>1, <3>1, WayPrimed DEF lists
    <3>3. Len(nextlist') = 0
      BY <2>1, <3>1 DEF lists
    <3> QED BY <2>1, <3>1, <3>2, <3>3 DEF Way, Found
  <2>3. CASE Prev(search) # None
    <3> DEFINE p == Prev(search)
    <3>1. p \in Here /\ NextTo(p, search)
      BY <2>3 DEF Prev, NextTo, IsPrev
    <3>2. prevlist' = Append(prevlist, p) /\ Open(p) /\ search' = p /\ UNCHANGED <<pc, src, nextlist, cnt>>
      BY <1>10, <2>3 DEF FindPrev, Listed, Good
    <3> HIDE DEF p
    <3>3. DOMAIN cab \subseteq DOMAIN cab' /\ p \in DOMAIN cab'
      BY <1>9, <2>1, <3>1, <3>2
    <3>4. prevlist \in Seq(DOMAIN cab')
      BY <2>1, <3>3 DEF InOrder
    <3>5. /\ prevlist' \in Seq(DOMAIN cab')
          /\ Found(prevlist', Len(prevlist')) = p
          /\ DOMAIN prevlist' = DOMAIN prevlist \cup {Len(prevlist) + 1}
          /\ prevlist'[Len(prevlist) + 1] = p
          /\ Found(prevlist', Len(prevlist)) = search
          /\ \A i \in DOMAIN prevlist : /\ prevlist'[i] = prevlist[i]
                                        /\ Found(prevlist', i - 1) = Found(prevlist, i - 1)
      BY <2>1, <3>2, <3>3, <3>4, OneMore
    <3>8. ASSUME NEW i \in DOMAIN prevlist' PROVE NextTo(prevlist'[i], Found(prevlist', i - 1))
      <4>1. CASE i \in DOMAIN prevlist
        BY <2>1, <3>5, <4>1 DEF InOrder
      <4>2. CASE i = Len(prevlist) + 1
        <5>1. i - 1 = Len(prevlist)
          BY <2>1, <4>2 DEF InOrder
        <5> QED BY <3>1, <3>5, <4>2, <5>1
      <4> QED BY <3>5, <4>1, <4>2
    <3>9. nextlist' \in Seq(DOMAIN cab') /\ DOMAIN nextlist' = {}
      BY <2>1, <3>2
    <3>10. InOrder'
      BY <1>1, <3>2, <3>5, <3>8, <3>9 DEF InOrder, NextTo, Found
    <3> QED BY <2>1, <3>2, <3>5, <3>10 DEF Way, Found
  <2> QED BY <2>2, <2>3
<1>11. CASE FindNext
  <2>1. pc = "next" /\ Fresh /\ InOrder /\ search = Found(nextlist, Len(nextlist)) /\ cnt = 0
    BY <1>11 DEF FindNext, CabInv, Way
  <2>2. CASE Next1(search) = None
    <3>1. pc' = "open" /\ UNCHANGED <<src, lists, heap, cnt>>
      BY <1>11, <2>2 DEF FindNext, lists
    <3>2. InOrder'
      BY <1>1, <1>3, <2>1, <3>1, WayPrimed DEF lists
    <3> QED BY <2>1, <3>1, <3>2 DEF Way
  <2>3. CASE Next1(search) # None
    <3> DEFINE p == Next1(search)
    <3>1. p \in Here /\ NextTo(search, p)
      BY <2>3 DEF Next1, NextTo, IsNext
    <3>2. nextlist' = Append(nextlist, p) /\ Open(p) /\ search' = p /\ UNCHANGED <<pc, src, prevlist, cnt>>
      BY <1>11, <2>3 DEF FindNext, Listed, Good
    <3> HIDE DEF p
    <3>3. DOMAIN cab \subseteq DOMAIN cab' /\ p \in DOMAIN cab'
      BY <1>9, <2>1, <3>1, <3>2
    <3>4. prevlist \in Seq(DOMAIN cab') /\ nextlist \in Seq(DOMAIN cab')
      BY <2>1, <3>3 DEF InOrder
    <3>5. /\ nextlist' \in Seq(DOMAIN cab')
          /\ Found(nextlist', Len(nextlist')) = p
          /\ DOMAIN nextlist' = DOMAIN nextlist \cup {Len(nextlist) + 1}
          /\ nextlist'[Len(nextlist) + 1] = p
          /\ Found(nextlist', Len(nextlist)) = search
          /\ \A i \in DOMAIN nextlist : /\ nextlist'[i] = nextlist[i]
                                        /\ Found(nextlist', i - 1) = Found(nextlist, i - 1)
      BY <2>1, <3>2, <3>3, <3>4, OneMore
    <3>8. ASSUME NEW i \in DOMAIN nextlist' PROVE NextTo(Found(nextlist', i - 1), nextlist'[i])
      <4>1. CASE i \in DOMAIN nextlist
        BY <2>1, <3>5, <4>1 DEF InOrder
      <4>2. CASE i = Len(nextlist) + 1
        <5>1. i - 1 = Len(nextlist)
          BY <2>1, <4>2 DEF InOrder
        <5> QED BY <3>1, <3>5, <4>2, <5>1
      <4> QED BY <3>5, <4>1, <4>2
    <3>9. \A i \in DOMAIN prevlist : NextTo(prevlist[i], Found(prevlist, i - 1))
      BY <2>1 DEF InOrder
    <3>10. InOrder'
      BY <1>1, <3>2, <3>4, <3>5, <3>8, <3>9 DEF InOrder, NextTo, Found
    <3> QED BY <2>1, <3>2, <3>5, <3>10 DEF Way, Found
  <2> QED BY <2>2, <2>3
<1>12. CASE OpenSource
  <2>1. pc = "open" /\ Fresh /\ InOrder /\ src \in Here /\ Open(src) /\ cnt = 0
    BY <1>12 DEF OpenSource, CabInv, Way, Known
  <2>2. pc' = "prepend" /\ at' = src /\ item' = 0 /\ UNCHANGED <<src, lists, cnt>>
    BY <1>12, <2>1 DEF OpenSource, Good
  <2>3. InOrder'
    BY <1>1, <1>9, <2>1, <2>2, WayPrimed DEF lists
  <2>4. Len(prevlist') \in Nat
    BY <2>3 DEF InOrder
  <2> QED BY <2>1, <2>2, <2>3, <2>4 DEF Way, Found
<1>13. CASE Prepend
  <2> DEFINE p == prevlist[item + 1]
  <2>1. /\ pc = "prepend" /\ InOrder /\ item \in 0 .. Len(prevlist) /\ item < Len(prevlist) /\ cnt = 0
        /\ pc' = pc /\ item' = item + 1 /\ UNCHANGED <<src, lists, cnt>>
        /\ at \in DOMAIN cab
    BY <1>2, <1>13 DEF Prepend, Way, Known
  <2>2. item + 1 \in DOMAIN prevlist /\ item + 1 # 0 /\ item + 1 \in 0 .. Len(prevlist)
    BY <2>1 DEF InOrder
  <2>3. p \in DOMAIN cab
    BY <2>1, <2>2 DEF InOrder
  <2>4. Merge(p, at) /\ at' = p
    BY <1>13, <2>3 DEF Prepend
  <2>5. DOMAIN cab' = DOMAIN cab
    BY <1>1, <1>2, <2>1, <2>3, <2>4, MergeKeeps DEF CabInv
  <2>6. InOrder'
    BY <1>1, <2>1, <2>5, WayPrimed DEF lists
  <2> QED BY <2>1, <2>2, <2>4, <2>6 DEF Way, Found, lists
<1>14. CASE PrependEnd
  <2>1. pc = "prepend" /\ InOrder /\ cnt = 0 /\ pc' = "append" /\ at' = src /\ item' = 0 /\ UNCHANGED <<src, lists, heap, cnt>>
    BY <1>14 DEF PrependEnd, Way
  <2>2. InOrder'
    BY <1>1, <1>3, <2>1, WayPrimed DEF lists
  <2>3. Len(nextlist') \in Nat
    BY <2>2 DEF InOrder
  <2> QED BY <2>1, <2>2, <2>3 DEF Way, Found
<1>15. CASE Append1
  <2> DEFINE p == nextlist[item + 1]
  <2>1. /\ pc = "append" /\ InOrder /\ item \in 0 .. Len(nextlist) /\ item < Len(nextlist) /\ cnt = 0
        /\ pc' = pc /\ item' = item + 1 /\ UNCHANGED <<src, lists, cnt>>
        /\ at \in DOMAIN cab
    BY <1>2, <1>15 DEF Append1, Way, Known
  <2>2. item + 1 \in DOMAIN nextlist /\ item + 1 # 0 /\ item + 1 \in 0 .. Len(nextlist)
    BY <2>1 DEF InOrder
  <2>3. p \in DOMAIN cab
    BY <2>1, <2>2 DEF InOrder
  <2>4. Merge(at, p) /\ at' = p
    BY <1>15, <2>3 DEF Append1
  <2>5. DOMAIN cab' = DOMAIN cab
    BY <1>1, <1>2, <2>1, <2>3, <2>4, MergeKeeps DEF CabInv
  <2>6. InOrder'
    BY <1>1, <2>1, <2>5, WayPrimed DEF lists
  <2> QED BY <2>1, <2>2, <2>4, <2>6 DEF Way, Found, lists
<1>16. CASE AppendEnd
  <2>1. pc = "append" /\ src \in DOMAIN cab /\ cnt = 0
    BY <1>2, <1>16 DEF AppendEnd, Way, Known
  <2>2. item' = 0 /\ pc' = "files" /\ cnt' = cnt /\ cab' = cab /\ at' \in DOMAIN cab
    BY <1>16, <2>1 DEF AppendEnd, heap
  <2> QED BY <2>1, <2>2 DEF Way
<1>17. CASE TryFile
  <2>1. pc = "files" /\ at \in DOMAIN cab /\ item \in Nat /\ cnt = 0
    BY <1>17 DEF TryFile, Way
  <2>2. item' = item + 1 /\ UNCHANGED <<at, heap>> /\ ((pc' = "files" /\ cnt' = cnt) \/ pc' = "close")
    BY <1>17, <2>1 DEF TryFile, Extract
  <2> QED BY <2>1, <2>2 DEF Way, heap
<1>18. CASE FilesEnd
  BY <1>18 DEF FilesEnd, Way
<1>19. CASE Close
  BY <1>19 DEF Close, Way
<1>20. CASE UNCHANGED vars
  <2>1. UNCHANGED <<dir, src, lists, heap, at, item, cnt, pc, search>>
    BY <1>20 DEF vars
  <2>2. InOrder => InOrder'
    BY <1>1, <1>3, <2>1, WayPrimed DEF lists
  <2> QED BY <2>1, <2>2 DEF Way, Found, lists, heap
<1> QED BY <1>5, <1>6, <1>7, <1>8, <1>10, <1>11, <1>12, <1>13, <1>14, <1>15, <1>16,
           <1>17, <1>18, <1>19, <1>20 DEF Next

\* All archives joined are in order and next to each other.
LEMMA SetNext == CabInv /\ Good /\ Way /\ SetInv(cab, fold) /\ [Next]_vars => SetInv(cab, fold)'
<1> SUFFICES ASSUME CabInv, Good, Way, SetInv(cab, fold), [Next]_vars PROVE SetInv(cab, fold)'
  OBVIOUS
<1>1. dir' = dir
  BY DEF Next, vars, SearchNext, SearchEnd, LookupNext, LookupEnd, FindPrev, FindNext,
         OpenSource, Prepend, PrependEnd, Append1, AppendEnd, TryFile, FilesEnd, Close
<1>2. Known /\ HeapInv(cab, fold) /\ CabInv'
  BY CabNext DEF CabInv
<1>3. Fresh' => SetInv(cab, fold)'
  <2>1. Known'
    BY <1>2 DEF CabInv
  <2> QED BY <2>1, FreshSets, PTL
<1>4. UNCHANGED heap => SetInv(cab, fold)'
  BY <1>1, SetPrimed DEF heap
<1>5. CASE pc' \notin {"prepend", "append", "files", "close"}
  BY <1>2, <1>3, <1>5 DEF CabInv
<1>6. CASE OpenSource
  <2>1. Fresh /\ Open(src) /\ src \in Here
    BY <1>2, <1>6 DEF OpenSource, CabInv, Known
  <2> QED BY <1>1, <1>2, <1>3, <2>1, OpenKeeps
<1>7. CASE Prepend
  <2> DEFINE p == prevlist[item + 1]
  <2>1. InOrder /\ item \in 0 .. Len(prevlist) /\ item < Len(prevlist) /\ at = Found(prevlist, item) /\ at \in DOMAIN cab
    BY <1>2, <1>7 DEF Prepend, Way, Known
  <2>2. item + 1 \in DOMAIN prevlist /\ (item + 1) - 1 = item
    BY <2>1 DEF InOrder
  <2>3. p \in DOMAIN cab /\ NextTo(p, at)
    BY <2>1, <2>2 DEF InOrder
  <2>4. Merge(p, at)
    BY <1>7, <2>3 DEF Prepend
  <2> HIDE DEF p
  <2> QED BY <1>1, <1>2, <2>1, <2>3, <2>4, MergeSets
<1>8. CASE Append1
  <2> DEFINE p == nextlist[item + 1]
  <2>1. InOrder /\ item \in 0 .. Len(nextlist) /\ item < Len(nextlist) /\ at = Found(nextlist, item) /\ at \in DOMAIN cab
    BY <1>2, <1>8 DEF Append1, Way, Known
  <2>2. item + 1 \in DOMAIN nextlist /\ (item + 1) - 1 = item
    BY <2>1 DEF InOrder
  <2>3. p \in DOMAIN cab /\ NextTo(at, p)
    BY <2>1, <2>2 DEF InOrder
  <2>4. Merge(at, p)
    BY <1>8, <2>3 DEF Append1
  <2> HIDE DEF p
  <2> QED BY <1>1, <1>2, <2>1, <2>3, <2>4, MergeSets
<1>9. CASE ~(OpenSource \/ Prepend \/ Append1) /\ pc' \in {"prepend", "append", "files", "close"}
  <2>1. CASE LookupEnd \/ SearchNext
    BY <1>5, <2>1 DEF LookupEnd, SearchNext, Begin
  <2>2. CASE FindPrev \/ FindNext
    BY <1>9, <2>2 DEF FindPrev, FindNext
  <2>3. CASE Close
    BY <1>9, <2>3 DEF Close
  <2> QED BY <1>4, <1>9, <2>1, <2>2, <2>3 DEF Next, vars, SearchEnd, LookupNext, PrependEnd, AppendEnd, TryFile, FilesEnd
<1> QED BY <1>5, <1>6, <1>7, <1>8, <1>9

--------------------------------------------------------------------------
(* What is read of a folder                                                *)

\* One part more, if all before it go on.
PiecesStep(data, g, i) ==
  IF \A k \in 1 .. i - 1 : Last(Part(data[k])).size = 0 THEN g[i - 1] \o Part(data[i]) ELSE g[i - 1]
PiecesUpTo(data, n, g) ==
  g = [i \in 0 .. n |-> IF i = 0 THEN <<>> ELSE PiecesStep(data, g, i)]

LEMMA PiecesExist ==
  ASSUME NEW data, NEW n \in Nat
  PROVE  \E g : PiecesUpTo(data, n, g)
<1> DEFINE P == {m \in 0 .. n : \E g : PiecesUpTo(data, m, g)}
<1>1. 0 \in P
  <2>1. PiecesUpTo(data, 0, [i \in 0 .. 0 |-> <<>>])
    BY DEF PiecesUpTo
  <2> QED BY <2>1
<1>2. ASSUME NEW m \in P, m < n PROVE m + 1 \in P
  <2>1. PICK g : PiecesUpTo(data, m, g)
    OBVIOUS
  <2> DEFINE h == [i \in 0 .. m + 1 |-> IF i \in 0 .. m THEN g[i] ELSE PiecesStep(data, g, m + 1)]
  <2>2. PiecesUpTo(data, m + 1, h)
    <3> DEFINE H(i) == IF i = 0 THEN <<>> ELSE PiecesStep(data, h, i)
    <3>1. ASSUME NEW i \in 0 .. m + 1 PROVE h[i] = H(i)
      <4>1. CASE i \in 0 .. m
        <5>1. h[i] = g[i]
          BY <4>1
        <5>2. g[i] = IF i = 0 THEN <<>> ELSE PiecesStep(data, g, i)
          BY <2>1, <4>1 DEF PiecesUpTo
        <5>3. i # 0 => h[i - 1] = g[i - 1]
          BY <4>1
        <5> QED BY <5>1, <5>2, <5>3 DEF PiecesStep
      <4>2. CASE i = m + 1
        <5>1. h[i] = PiecesStep(data, g, m + 1)
          BY <4>2
        <5>2. h[m] = g[m] /\ i - 1 = m /\ i # 0
          BY <4>2
        <5> QED BY <4>2, <5>1, <5>2 DEF PiecesStep
      <4> QED BY <4>1, <4>2
    <3>2. h = [i \in 0 .. m + 1 |-> h[i]]
      OBVIOUS
    <3>3. h = [i \in 0 .. m + 1 |-> H(i)]
      <4> HIDE DEF h
      <4>1. \A i \in 0 .. m + 1 : h[i] = H(i)
        BY <3>1
      <4> QED BY <3>2, <4>1
    <3> QED BY <3>3 DEF PiecesUpTo
  <2> HIDE DEF h
  <2> QED BY <1>2, <2>2
<1>3. n \in P
  <2> HIDE DEF P
  <2> QED BY <1>1, <1>2, UpTo
<1> QED BY <1>3

\* The pieces of two parts, the second behind the first.
LEMMA PiecedConcat ==
  ASSUME NEW s, NEW t, Pieced(s), Pieced(t), Behind(Last(s), t[1])
  PROVE  Pieced(s \o t) /\ (s \o t)[1] = s[1] /\ Last(s \o t) = Last(t)
<1> DEFINE u == s \o t
           n == Len(s)
           F == Range(s) \cup Range(t)
<1>1. s \in Seq(F) /\ t \in Seq(F) /\ s # <<>> /\ t # <<>>
  BY DEF Pieced
<1>2. u \in Seq(F) /\ Range(u) = F /\ u # <<>> /\ Last(u) = Last(t) /\ Head(u) = Head(s)
  BY <1>1, ConcatRange, ConcatEnds
<1> HIDE DEF F
<1>3. n \in Nat \ {0} /\ Last(s) = s[n] /\ Len(t) \in Nat \ {0} /\ DOMAIN s = 1 .. n /\ DOMAIN t = 1 .. Len(t)
  BY <1>1 DEF Last
<1>4. /\ Len(u) = n + Len(t)
      /\ \A i \in 1 .. n : u[i] = s[i]
      /\ \A i \in n + 1 .. n + Len(t) : u[i] = t[i - n]
  BY <1>1
<1> HIDE DEF u, n
<1>5. DOMAIN u = 1 .. n + Len(t) /\ Head(u) = u[1] /\ Head(s) = s[1]
  BY <1>1, <1>2, <1>4
<1>6. ASSUME NEW i \in DOMAIN u
      PROVE  /\ u[i].block = <<u[i].block[1], u[i].block[2]>>
             /\ u[i].block[2] \in Nat /\ u[i].size \in 0 .. BlockMax
  <2>1. CASE i \in 1 .. n
    <3>1. u[i] = s[i] /\ i \in DOMAIN s
      BY <1>3, <1>4, <2>1
    <3> QED BY <3>1 DEF Pieced
  <2>2. CASE i \notin 1 .. n
    <3>1. i \in n + 1 .. n + Len(t) /\ i - n \in DOMAIN t
      BY <1>3, <1>5, <2>2
    <3>2. u[i] = t[i - n]
      BY <1>4, <3>1
    <3> QED BY <3>1, <3>2 DEF Pieced
  <2> QED BY <2>1, <2>2
<1>7. ASSUME NEW i \in 1 .. Len(u) - 1 PROVE Behind(u[i], u[i + 1])
  <2>1. CASE i < n
    <3>1. i \in 1 .. n - 1 /\ i \in 1 .. n /\ i + 1 \in 1 .. n
      BY <1>3, <2>1
    <3>2. Behind(s[i], s[i + 1])
      BY <3>1 DEF Pieced, n
    <3> QED BY <1>4, <3>1, <3>2
  <2>2. CASE i = n
    <3>1. i \in 1 .. n /\ i + 1 \in n + 1 .. n + Len(t) /\ (i + 1) - n = 1
      BY <1>3, <2>2
    <3>2. u[i] = Last(s) /\ u[i + 1] = t[1]
      BY <1>3, <1>4, <2>2, <3>1
    <3> QED BY <3>2
  <2>3. CASE i > n
    <3>1. i \in n + 1 .. n + Len(t) /\ i + 1 \in n + 1 .. n + Len(t)
          /\ i - n \in 1 .. Len(t) - 1 /\ (i + 1) - n = (i - n) + 1
      BY <1>3, <1>4, <2>3
    <3>2. u[i] = t[i - n] /\ u[i + 1] = t[(i - n) + 1]
      BY <1>4, <3>1
    <3>3. Behind(t[i - n], t[(i - n) + 1])
      BY <3>1 DEF Pieced
    <3> QED BY <3>2, <3>3
  <2> QED BY <1>3, <2>1, <2>2, <2>3
<1>8. u \in Seq(Range(u)) \ {<<>>}
  BY <1>2
<1> QED BY <1>2, <1>5, <1>6, <1>7, <1>8 DEF Pieced, u

\* The pieces of a folder are in order from its first on.
LEMMA PiecesAre ==
  ASSUME Known, NEW data, NEW x, Chained(data, x)
  PROVE  Pieced(Pieces(data)) /\ Pieces(data)[1] = Part(x)[1]
<1> DEFINE n == Len(data)
           g == CHOOSE g : PiecesUpTo(data, n, g)
           goeson(i) == \A k \in 1 .. i - 1 : Last(Part(data[k])).size = 0
           Upto(i) == /\ Pieced(g[i]) /\ g[i][1] = Part(x)[1]
                      /\ goeson(i) => Last(g[i]) = Last(Part(data[i]))
           P == {m \in 0 .. n : m = 0 \/ Upto(m)}
<1>1. n \in Nat \ {0} /\ data[1] = x /\ \A i \in 1 .. n : data[i] \in Folders
  BY DEF Chained
<1>2. PiecesUpTo(data, n, g)
  BY <1>1, PiecesExist
<1>3. Pieces(data) = g[n]
  BY DEF Pieces, PiecesUpTo, PiecesStep, Part
<1> HIDE DEF g
<1>4. g[0] = <<>> /\ \A i \in 1 .. n : g[i] = PiecesStep(data, g, i)
  BY <1>1, <1>2 DEF PiecesUpTo
<1>5. \A i \in 1 .. n : Pieced(Part(data[i]))
  <2> SUFFICES ASSUME NEW i \in 1 .. n PROVE Pieced(Part(data[i]))
    OBVIOUS
  <2>1. data[i][1] \in Here /\ data[i][2] \in DOMAIN dir[data[i][1]].folders
    BY <1>1 DEF Folders
  <2>2. data[i][1] \in Names /\ dir[data[i][1]] \in Archive[data[i][1]]
    BY <2>1 DEF Known, Here
  <2> QED BY <2>1, <2>2, PiecesAssumption DEF Part
<1>6. Upto(1)
  <2>1. 1 \in 1 .. n /\ 1 - 1 = 0 /\ 1 .. 1 - 1 = {}
    BY <1>1
  <2> DEFINE p == Part(data[1])
  <2>2. g[1] = <<>> \o p
    BY <1>4, <2>1 DEF PiecesStep
  <2>3. Pieced(p)
    BY <1>5, <2>1
  <2>4. g[1] = p
    <3> HIDE DEF p
    <3> QED BY <2>2, <2>3 DEF Pieced
  <2> QED BY <1>1, <2>3, <2>4
<1>7. ASSUME NEW m \in P, m < n PROVE m + 1 \in P
  <2>1. CASE m = 0
    BY <1>1, <1>6, <2>1
  <2>2. CASE m # 0
    <3>1. m \in 1 .. n /\ m + 1 \in 1 .. n /\ (m + 1) - 1 = m /\ m + 1 \in 2 .. n /\ Upto(m)
      BY <1>7, <2>2
    <3>2. g[m + 1] = IF goeson(m + 1) THEN g[m] \o Part(data[m + 1]) ELSE g[m]
      BY <1>4, <3>1 DEF PiecesStep
    <3>3. CASE goeson(m + 1)
      <4>1. goeson(m)
        BY <3>1, <3>3
      <4>2. Last(g[m]) = Last(Part(data[m])) /\ Pieced(g[m])
        BY <3>1, <4>1
      <4>3. Behind(Last(Part(data[m])), Part(data[m + 1])[1])
        <5>1. Behind(Last(Part(data[m])), Head(Part(data[m + 1])))
          BY <3>1 DEF Chained
        <5>2. Head(Part(data[m + 1])) = Part(data[m + 1])[1]
          BY <1>5, <3>1 DEF Pieced
        <5> QED BY <5>1, <5>2
      <4>4. g[m + 1] = g[m] \o Part(data[m + 1])
        BY <3>2, <3>3
      <4>5. Pieced(g[m + 1]) /\ g[m + 1][1] = g[m][1] /\ Last(g[m + 1]) = Last(Part(data[m + 1]))
        <5>1. Pieced(g[m]) /\ Pieced(Part(data[m + 1])) /\ Behind(Last(g[m]), Part(data[m + 1])[1])
          BY <1>5, <3>1, <4>2, <4>3
        <5>2. SUFFICES ASSUME NEW s, NEW t, s = g[m], t = Part(data[m + 1]), g[m + 1] = s \o t
              PROVE Pieced(g[m + 1]) /\ g[m + 1][1] = s[1] /\ Last(g[m + 1]) = Last(t)
          BY <4>4
        <5>3. Pieced(s \o t) /\ (s \o t)[1] = s[1] /\ Last(s \o t) = Last(t)
          BY ONLY <5>1, <5>2, PiecedConcat
        <5> QED BY ONLY <5>2, <5>3
      <4> QED BY <3>1, <4>5
    <3>4. CASE ~goeson(m + 1)
      BY <3>1, <3>2, <3>4
    <3> QED BY <3>3, <3>4
  <2> QED BY <2>1, <2>2
<1>8. n \in P
  <2>1. 0 \in P
    BY <1>1
  <2> HIDE DEF P
  <2> QED BY <1>1, <1>7, <2>1, UpTo
<1> QED BY <1>1, <1>3, <1>8

\* What Read looks at: the ends of blocks, where the block of i begins, whether
\* i is read, and what the block that i ends becomes.
BlockEnds(ps, i) == {k \in 1 .. i : ps[k].size # 0}
FirstOf(ps, i) == Max(BlockEnds(ps, i - 1) \cup {0}) + 1
Readable(ps, blocks, i) == (\A k \in 1 .. i : ~ps[k].bad) /\ Cardinality(BlockEnds(ps, i)) <= blocks
BlockOf(ps, i) ==
  [u \in 1 .. ps[i].size |->
     IF Whole(SubSeq(ps, FirstOf(ps, i), i)) THEN Append(ps[i].block, u) ELSE Junk]
ReadStep(ps, blocks, g, i) ==
  IF ps[i].size = 0 \/ ~Readable(ps, blocks, i) THEN g[i - 1] ELSE g[i - 1] \o BlockOf(ps, i)
ReadUpTo(ps, blocks, n, g) ==
  g = [i \in 0 .. n |-> IF i = 0 THEN <<>> ELSE ReadStep(ps, blocks, g, i)]

LEMMA ReadExists ==
  ASSUME NEW ps, NEW blocks, NEW n \in Nat
  PROVE  \E g : ReadUpTo(ps, blocks, n, g)
<1> DEFINE P == {m \in 0 .. n : \E g : ReadUpTo(ps, blocks, m, g)}
<1>1. 0 \in P
  <2>1. ReadUpTo(ps, blocks, 0, [i \in 0 .. 0 |-> <<>>])
    BY DEF ReadUpTo
  <2> QED BY <2>1
<1>2. ASSUME NEW m \in P, m < n PROVE m + 1 \in P
  <2>1. PICK g : ReadUpTo(ps, blocks, m, g)
    OBVIOUS
  <2> DEFINE h == [i \in 0 .. m + 1 |-> IF i \in 0 .. m THEN g[i] ELSE ReadStep(ps, blocks, g, m + 1)]
  <2>2. ReadUpTo(ps, blocks, m + 1, h)
    <3> DEFINE H(i) == IF i = 0 THEN <<>> ELSE ReadStep(ps, blocks, h, i)
    <3>1. ASSUME NEW i \in 0 .. m + 1 PROVE h[i] = H(i)
      <4>1. CASE i \in 0 .. m
        <5>1. h[i] = g[i]
          BY <4>1
        <5>2. g[i] = IF i = 0 THEN <<>> ELSE ReadStep(ps, blocks, g, i)
          BY <2>1, <4>1 DEF ReadUpTo
        <5>3. i # 0 => h[i - 1] = g[i - 1]
          BY <4>1
        <5> QED BY <5>1, <5>2, <5>3 DEF ReadStep
      <4>2. CASE i = m + 1
        <5>1. h[i] = ReadStep(ps, blocks, g, m + 1)
          BY <4>2
        <5>2. h[m] = g[m] /\ i - 1 = m /\ i # 0
          BY <4>2
        <5> QED BY <4>2, <5>1, <5>2 DEF ReadStep
      <4> QED BY <4>1, <4>2
    <3>2. h = [i \in 0 .. m + 1 |-> h[i]]
      OBVIOUS
    <3>3. h = [i \in 0 .. m + 1 |-> H(i)]
      <4> HIDE DEF h
      <4>1. \A i \in 0 .. m + 1 : h[i] = H(i)
        BY <3>1
      <4> QED BY <3>2, <4>1
    <3> QED BY <3>3 DEF ReadUpTo
  <2> HIDE DEF h
  <2> QED BY <1>2, <2>2
<1>3. n \in P
  <2> HIDE DEF P
  <2> QED BY <1>1, <1>2, UpTo
<1> QED BY <1>3

\* A block begins behind the last end of one.
LEMMA FirstIs ==
  ASSUME NEW ps, NEW i \in Nat \ {0}
  PROVE  /\ FirstOf(ps, 1) = 1
         /\ ps[i].size # 0 => FirstOf(ps, i + 1) = i + 1
         /\ ps[i].size = 0 => FirstOf(ps, i + 1) = FirstOf(ps, i)
<1>1. BlockEnds(ps, 1 - 1) = {}
  BY DEF BlockEnds
<1>2. Max({0}) = 0
  BY DEF Max
<1>3. FirstOf(ps, 1) = 1
  BY <1>1, <1>2 DEF FirstOf
<1>4. (i + 1) - 1 = i
  OBVIOUS
<1>5. ASSUME ps[i].size # 0 PROVE FirstOf(ps, i + 1) = i + 1
  <2> DEFINE S == BlockEnds(ps, i) \cup {0}
  <2>1. i \in S /\ S \subseteq Nat /\ \A y \in S : i >= y
    BY <1>5 DEF BlockEnds
  <2> HIDE DEF S
  <2>2. Max(S) = i
    <3>1. Max(S) \in S /\ \A y \in S : Max(S) >= y
      BY <2>1 DEF Max
    <3>2. \A m \in Nat : i >= m /\ m >= i => m = i
      OBVIOUS
    <3>3. Max(S) \in Nat /\ i >= Max(S) /\ Max(S) >= i
      BY <2>1, <3>1
    <3> QED BY <3>2, <3>3
  <2> QED BY <1>4, <2>2 DEF FirstOf, S
<1>6. ASSUME ps[i].size = 0 PROVE FirstOf(ps, i + 1) = FirstOf(ps, i)
  <2>1. BlockEnds(ps, i) = BlockEnds(ps, i - 1)
    BY <1>6 DEF BlockEnds
  <2> QED BY <1>4, <2>1 DEF FirstOf
<1> QED BY <1>3, <1>5, <1>6

\* What is read ends somewhere.
LEMMA ReadableBefore ==
  ASSUME NEW ps, NEW blocks \in Nat, NEW i \in Nat, Readable(ps, blocks, i + 1)
  PROVE  Readable(ps, blocks, i)
<1>1. 1 .. i \subseteq 1 .. i + 1
  OBVIOUS
<1>2. BlockEnds(ps, i) \subseteq BlockEnds(ps, i + 1)
  BY <1>1 DEF BlockEnds
<1>3. IsFiniteSet(BlockEnds(ps, i + 1))
  <2>1. IsFiniteSet(1 .. i + 1)
    BY FS_Interval
  <2>2. BlockEnds(ps, i + 1) \subseteq 1 .. i + 1
    BY DEF BlockEnds
  <2> QED BY <2>1, <2>2, FS_Subset
<1>4. /\ Cardinality(BlockEnds(ps, i)) \in Nat /\ Cardinality(BlockEnds(ps, i + 1)) \in Nat
      /\ Cardinality(BlockEnds(ps, i)) <= Cardinality(BlockEnds(ps, i + 1))
  BY <1>2, <1>3, FS_Subset, FS_CardinalityType
<1>5. Cardinality(BlockEnds(ps, i)) <= blocks
  BY <1>4 DEF Readable
<1> QED BY <1>1, <1>5 DEF Readable

\* The pieces of the block of i: parts of one block, from the first on.
LEMMA InBlock ==
  ASSUME NEW ps, Pieced(ps), ps[1].block[2] = 1, ps[1].part = 1, NEW i \in 1 .. Len(ps)
  PROVE  /\ ps[i].block = <<ps[1].block[1], ps[i].block[2]>> /\ ps[i].block[2] \in Nat \ {0}
         /\ FirstOf(ps, i) \in 1 .. i
         /\ \A k \in FirstOf(ps, i) .. i : ps[k].block = ps[i].block /\ ps[k].part = (k - FirstOf(ps, i)) + 1
<1> DEFINE n == Len(ps)
           In(j) == /\ ps[j].block = <<ps[1].block[1], ps[j].block[2]>> /\ ps[j].block[2] \in Nat \ {0}
                    /\ FirstOf(ps, j) \in 1 .. j
                    /\ \A k \in FirstOf(ps, j) .. j : ps[k].block = ps[j].block /\ ps[k].part = (k - FirstOf(ps, j)) + 1
           P == {m \in 0 .. i : m = 0 \/ In(m)}
<1>1. n \in Nat \ {0} /\ DOMAIN ps = 1 .. n
  BY DEF Pieced
<1>2. In(1)
  <2>1. FirstOf(ps, 1) = 1
    BY FirstIs, 1 \in Nat \ {0}
  <2>2. 1 \in DOMAIN ps /\ 1 .. 1 = {1} /\ (1 - 1) + 1 = 1
    BY <1>1
  <2>3. ps[1].block = <<ps[1].block[1], ps[1].block[2]>>
    BY <2>2 DEF Pieced
  <2> QED BY <2>1, <2>2, <2>3
<1>3. ASSUME NEW m \in P, m < i PROVE m + 1 \in P
  <2>1. CASE m = 0
    BY <1>2, <2>1
  <2>2. CASE m # 0
    <3> DEFINE a == FirstOf(ps, m)
               p == ps[m]
               q == ps[m + 1]
    <3>1. m \in Nat \ {0} /\ m \in 1 .. n - 1 /\ m \in DOMAIN ps /\ m + 1 \in DOMAIN ps /\ In(m)
      BY <1>1, <1>3, <2>2
    <3>2. Behind(p, q) /\ q.block = <<q.block[1], q.block[2]>>
      BY <3>1 DEF Pieced
    <3>3. p.block = <<ps[1].block[1], p.block[2]>> /\ p.block[2] \in Nat \ {0} /\ a \in 1 .. m
      BY <3>1
    <3>4. \A k \in a .. m : ps[k].block = p.block /\ ps[k].part = (k - a) + 1
      BY <3>1
    <3>5. /\ p.size # 0 => FirstOf(ps, m + 1) = m + 1
          /\ p.size = 0 => FirstOf(ps, m + 1) = a
      BY <3>1, FirstIs
    <3> HIDE DEF a, p, q, In
    <3>6. CASE p.size = 0
      <4>1. q.block = p.block /\ q.part = p.part + 1 /\ FirstOf(ps, m + 1) = a
        BY <3>2, <3>5, <3>6 DEF Behind
      <4>2. p.part = (m - a) + 1
        BY <3>3, <3>4 DEF p
      <4>3. ASSUME NEW k \in a .. m + 1 PROVE ps[k].block = q.block /\ ps[k].part = (k - a) + 1
        <5>1. CASE k = m + 1
          BY <3>3, <4>1, <4>2, <5>1 DEF q
        <5>2. CASE k # m + 1
          BY <3>3, <3>4, <4>1, <5>2
        <5> QED BY <5>1, <5>2
      <4> QED BY <1>3, <3>3, <4>1, <4>3 DEF In, q
    <3>7. CASE p.size # 0
      <4>1. q.block = <<p.block[1], p.block[2] + 1>> /\ q.part = 1 /\ FirstOf(ps, m + 1) = m + 1
        BY <3>2, <3>5, <3>7 DEF Behind
      <4>2. p.block[1] = ps[1].block[1] /\ q.block[1] = p.block[1] /\ q.block[2] = p.block[2] + 1
        BY <3>3, <4>1
      <4>3. ASSUME NEW k \in m + 1 .. m + 1 PROVE ps[k].block = q.block /\ ps[k].part = (k - (m + 1)) + 1
        <5>1. k = m + 1 /\ (k - (m + 1)) + 1 = 1
          BY <3>1
        <5> QED BY <4>1, <5>1 DEF q
      <4>4. q.block[2] \in Nat \ {0} /\ m + 1 \in 1 .. m + 1
        BY <3>1, <3>3, <4>2
      <4> QED BY <1>3, <4>1, <4>2, <4>3, <4>4 DEF In, q
    <3> QED BY <3>6, <3>7
  <2> QED BY <2>1, <2>2
<1>4. i \in P
  <2>1. 0 \in P /\ i \in Nat
    BY <1>1
  <2> HIDE DEF P
  <2> QED BY <1>3, <2>1, UpTo
<1> QED BY <1>4

\* The first m units of a folder whose full blocks have this name.
Units(name, m) == [u \in 1 .. m |-> <<name, (u - 1) \div BlockMax + 1, ((u - 1) % BlockMax) + 1>>]

LEMMA FunctionIsSeq ==
  ASSUME NEW D, NEW m \in Nat, NEW s, DOMAIN s = 1 .. m, s = [u \in 1 .. m |-> s[u]], \A u \in 1 .. m : s[u] \in D
  PROVE  s \in Seq(D) /\ Len(s) = m
<1>1. s \in [1 .. m -> D]
  OBVIOUS
<1> QED BY ONLY <1>1, m \in Nat

LEMMA UnitsAre ==
  ASSUME NEW name, NEW m \in Nat, NEW F, Range(Units(name, m)) \subseteq F
  PROVE  /\ Units(name, m) \in Seq(F) /\ Len(Units(name, m)) = m
         /\ \A u \in 1 .. m : Units(name, m)[u] = <<name, (u - 1) \div BlockMax + 1, ((u - 1) % BlockMax) + 1>>
<1> SUFFICES ASSUME NEW s, s = Units(name, m), Range(s) \subseteq F
             PROVE  /\ s \in Seq(F) /\ Len(s) = m
                    /\ \A u \in 1 .. m : s[u] = <<name, (u - 1) \div BlockMax + 1, ((u - 1) % BlockMax) + 1>>
  OBVIOUS
<1>1. /\ DOMAIN s = 1 .. m /\ s = [u \in 1 .. m |-> s[u]]
      /\ \A u \in 1 .. m : s[u] = <<name, (u - 1) \div BlockMax + 1, ((u - 1) % BlockMax) + 1>>
  BY DEF Units
<1>2. \A u \in 1 .. m : s[u] \in F
  BY <1>1 DEF Range
<1>3. s \in Seq(F) /\ Len(s) = m
  BY <1>1, <1>2, FunctionIsSeq
<1> QED BY <1>1, <1>3

LEMMA DivMod ==
  ASSUME NEW q \in Nat, NEW b \in Nat \ {0}, NEW r \in 0 .. b - 1
  PROVE  (q * b + r) \div b = q /\ (q * b + r) % b = r
OBVIOUS

\* The units of the block B, and that they are the next after Q.
UnitsOf(name, B, size) == [u \in 1 .. size |-> <<name, B, u>>]
Follows(B, size, Q) ==
  \A u \in 1 .. size : ((Q + u) - 1) \div BlockMax = B - 1 /\ ((Q + u) - 1) % BlockMax = u - 1

LEMMA BlockMore ==
  ASSUME NEW name, NEW B \in Nat \ {0}, NEW size \in Nat, NEW Q \in Nat, Follows(B, size, Q)
  PROVE  Units(name, Q) \o UnitsOf(name, B, size) = Units(name, Q + size)
<1> SUFFICES ASSUME NEW t, t = UnitsOf(name, B, size) PROVE Units(name, Q) \o t = Units(name, Q + size)
  OBVIOUS
<1> SUFFICES ASSUME NEW s, NEW w, s = Units(name, Q), w = Units(name, Q + size) PROVE s \o t = w
  OBVIOUS
<1> DEFINE F == Range(s) \cup Range(t) \cup Range(w)
<1>1. Q + size \in Nat /\ \A u \in 1 .. Q : u \in 1 .. Q + size
  OBVIOUS
<1>2. Range(s) \subseteq F /\ Range(t) \subseteq F /\ Range(w) \subseteq F
  OBVIOUS
<1> HIDE DEF F
<1>3. /\ s \in Seq(F) /\ Len(s) = Q
      /\ \A u \in 1 .. Q : s[u] = <<name, (u - 1) \div BlockMax + 1, ((u - 1) % BlockMax) + 1>>
  BY <1>2, UnitsAre
<1>4. /\ w \in Seq(F) /\ Len(w) = Q + size
      /\ \A u \in 1 .. Q + size : w[u] = <<name, (u - 1) \div BlockMax + 1, ((u - 1) % BlockMax) + 1>>
  BY <1>1, <1>2, UnitsAre
<1>5. \A u \in 1 .. Q : w[u] = s[u]
  BY <1>1, <1>3, <1>4
<1>6. ASSUME NEW u \in 1 .. size PROVE w[Q + u] = <<name, B, u>>
  <2>1. Q + u \in 1 .. Q + size
    OBVIOUS
  <2>2. w[Q + u] = <<name, ((Q + u) - 1) \div BlockMax + 1, (((Q + u) - 1) % BlockMax) + 1>>
    BY <1>4, <2>1
  <2>3. (B - 1) + 1 = B /\ (u - 1) + 1 = u
    OBVIOUS
  <2> QED BY <2>2, <2>3 DEF Follows
<1>7. t \in Seq(F) /\ Len(t) = size /\ \A u \in 1 .. size : t[u] = <<name, B, u>>
  <2>1. DOMAIN t = 1 .. size /\ t = [u \in 1 .. size |-> t[u]] /\ \A u \in 1 .. size : t[u] = <<name, B, u>>
    BY DEF UnitsOf
  <2>2. \A u \in 1 .. size : t[u] \in F
    BY <1>2, <2>1 DEF Range
  <2>3. t \in Seq(F) /\ Len(t) = size
    BY <2>1, <2>2, FunctionIsSeq
  <2> QED BY <2>1, <2>3
<1>8. s \o t \in Seq(F) /\ Len(s \o t) = Q + size
  BY ONLY <1>3, <1>7, Q \in Nat, size \in Nat
<1>9. ASSUME NEW i \in 1 .. Q + size PROVE (s \o t)[i] = w[i]
  <2>1. CASE i \in 1 .. Q
    <3>1. (s \o t)[i] = s[i]
      BY ONLY <1>3, <1>7, <2>1
    <3> QED BY <1>5, <2>1, <3>1
  <2>2. CASE i \notin 1 .. Q
    <3>1. i - Q \in 1 .. size /\ Q + (i - Q) = i
      BY <2>2
    <3>2. (s \o t)[i] = t[i - Q]
      BY ONLY <1>3, <1>7, <1>9, <2>2, Q \in Nat, size \in Nat
    <3> QED BY <1>6, <1>7, <3>1, <3>2
  <2> QED BY <2>1, <2>2
<1> DEFINE v == s \o t
<1>10. v \in Seq(F) /\ Len(v) = Len(w) /\ \A i \in 1 .. Len(w) : v[i] = w[i]
  BY <1>4, <1>8, <1>9
<1> HIDE DEF v
<1>11. v = w
  BY ONLY <1>4, <1>10
<1> QED BY <1>11 DEF v

LEMMA UnitsMore ==
  ASSUME NEW name, NEW B \in Nat \ {0}, NEW size \in 1 .. BlockMax
  PROVE  /\ (B - 1) * BlockMax + size \in Nat /\ (B - 1) * BlockMax + BlockMax = ((B + 1) - 1) * BlockMax
         /\ Units(name, (B - 1) * BlockMax) \o UnitsOf(name, B, size) = Units(name, (B - 1) * BlockMax + size)
<1>1. BlockMax \in Nat \ {0} /\ B - 1 \in Nat /\ size \in Nat
  BY CabAssumption
<1>2. (B - 1) * BlockMax \in Nat /\ (B - 1) * BlockMax + BlockMax = ((B + 1) - 1) * BlockMax
  BY ONLY <1>1, B \in Nat \ {0}
<1>3. SUFFICES ASSUME NEW Q \in Nat, Q = (B - 1) * BlockMax
               PROVE  Q + size \in Nat /\ Units(name, Q) \o UnitsOf(name, B, size) = Units(name, Q + size)
  BY <1>2
<1>4. Follows(B, size, Q)
  <2> SUFFICES ASSUME NEW u \in 1 .. size
               PROVE  ((Q + u) - 1) \div BlockMax = B - 1 /\ ((Q + u) - 1) % BlockMax = u - 1
    BY DEF Follows
  <2>1. u - 1 \in 0 .. BlockMax - 1
    BY ONLY <1>1, u \in 1 .. size, size \in 1 .. BlockMax
  <2>2. (Q + u) - 1 = Q + (u - 1)
    BY ONLY Q \in Nat, u \in 1 .. size, size \in Nat, <1>1
  <2>3. ((B - 1) * BlockMax + (u - 1)) \div BlockMax = B - 1 /\ ((B - 1) * BlockMax + (u - 1)) % BlockMax = u - 1
    BY ONLY <1>1, <2>1, DivMod
  <2> QED BY <1>3, <2>2, <2>3
<1>5. Q + size \in Nat
  BY ONLY <1>1, Q \in Nat
<1>6. Units(name, Q) \o UnitsOf(name, B, size) = Units(name, Q + size)
  BY ONLY <1>1, <1>4, B \in Nat \ {0}, Q \in Nat, BlockMore
<1> QED BY <1>5, <1>6

\* A name with one more in it.
LEMMA Append3 ==
  ASSUME NEW a, NEW b, NEW u
  PROVE  Append(<<a, b>>, u) = <<a, b, u>>
<1> DEFINE S == {a, b, u}
<1>1. <<a, b>> \in Seq(S) /\ Len(<<a, b>>) = 2 /\ <<a, b>>[1] = a /\ <<a, b>>[2] = b /\ u \in S
  OBVIOUS
<1>2. /\ <<a, b, u>> \in Seq(S) /\ Len(<<a, b, u>>) = 3
      /\ <<a, b, u>>[1] = a /\ <<a, b, u>>[2] = b /\ <<a, b, u>>[3] = u
  OBVIOUS
<1> HIDE DEF S
<1>3. SUFFICES ASSUME NEW s \in Seq(S), Len(s) = 2, s[1] = a, s[2] = b, NEW v, v = Append(s, u),
                      NEW w \in Seq(S), Len(w) = 3, w[1] = a, w[2] = b, w[3] = u
               PROVE  v = w
  BY <1>1, <1>2, Zenon
<1>4. v \in Seq(S) /\ Len(v) = 3 /\ v[1] = a /\ v[2] = b /\ v[3] = u
  BY ONLY <1>1, <1>3
<1>5. \A i \in 1 .. 3 : v[i] = w[i]
  BY ONLY <1>3, <1>4
<1> QED BY ONLY <1>3, <1>4, <1>5

\* What is read of pieces in order, from the first of all on, are the units of
\* full blocks, in order.
LEMMA ReadIs ==
  ASSUME NEW ps, Pieced(ps), ps[1].block[2] = 1, ps[1].part = 1, NEW blocks \in Nat
  PROVE  \E m \in Nat : Read(ps, blocks) = Units(ps[1].block[1], m)
<1> DEFINE n == Len(ps)
           g == CHOOSE g : ReadUpTo(ps, blocks, n, g)
           name == ps[1].block[1]
           Upto(i) == /\ \E m \in Nat : g[i] = Units(name, m)
                      /\ Readable(ps, blocks, i) /\ i < n =>
                           g[i] = Units(name, (ps[i + 1].block[2] - 1) * BlockMax)
           P == {m \in 0 .. n : Upto(m)}
<1>1. n \in Nat \ {0} /\ DOMAIN ps = 1 .. n
  BY DEF Pieced
<1>2. ReadUpTo(ps, blocks, n, g)
  BY <1>1, ReadExists
<1>3. Read(ps, blocks) = g[n]
  BY DEF Read, ReadUpTo, ReadStep, BlockOf, Readable, FirstOf, BlockEnds
<1> HIDE DEF g
<1>4. g[0] = <<>> /\ \A i \in 1 .. n : g[i] = ReadStep(ps, blocks, g, i)
  BY <1>1, <1>2 DEF ReadUpTo
<1>5. Upto(0)
  <2>1. Units(name, 0) = <<>>
    BY DEF Units
  <2>2. 0 + 1 = 1 /\ (1 - 1) * BlockMax = 0
    BY CabAssumption
  <2> QED BY <1>4, <2>1, <2>2
<1>6. ASSUME NEW i \in P, i < n PROVE i + 1 \in P
  <2> DEFINE j == i + 1
             p == ps[j]
             B == p.block[2]
  <2>1. i \in Nat /\ j \in 1 .. n /\ j - 1 = i /\ Upto(i) /\ j \in 0 .. n
    BY <1>1, <1>6
  <2>2. /\ p.block = <<name, B>> /\ B \in Nat \ {0}
        /\ FirstOf(ps, j) \in 1 .. j
        /\ \A k \in FirstOf(ps, j) .. j : ps[k].block = ps[j].block /\ ps[k].part = (k - FirstOf(ps, j)) + 1
    BY <2>1, InBlock
  <2>3. p.size \in 0 .. BlockMax
    BY <1>1, <2>1 DEF Pieced
  <2>4. g[j] = IF p.size = 0 \/ ~Readable(ps, blocks, j) THEN g[i] ELSE g[i] \o BlockOf(ps, j)
    BY <1>4, <2>1 DEF ReadStep
  <2>5. Readable(ps, blocks, j) => Readable(ps, blocks, i)
    BY <2>1, ReadableBefore
  <2>6. j < n => Behind(p, ps[j + 1])
    <3>1. j < n => j \in 1 .. n - 1
      BY <1>1, <2>1
    <3> QED BY <3>1 DEF Pieced
  <2>7. Readable(ps, blocks, i) => g[i] = Units(name, (B - 1) * BlockMax)
    BY <1>6, <2>1
  <2>8. \E m \in Nat : g[i] = Units(name, m)
    BY <2>1
  <2> HIDE DEF j, p, B
  <2> SUFFICES Upto(j)
    BY <2>1 DEF j
  <2>9. CASE ~Readable(ps, blocks, j)
    BY <2>4, <2>8, <2>9
  <2>10. CASE p.size = 0 /\ Readable(ps, blocks, j)
    <3>1. j < n => ps[j + 1].block[2] = B
      BY <2>6, <2>10 DEF Behind, B
    <3>2. g[j] = g[i]
      BY <2>4, <2>10
    <3> QED BY <2>5, <2>7, <2>8, <2>10, <3>1, <3>2
  <2>11. CASE p.size # 0 /\ Readable(ps, blocks, j)
    <3> DEFINE t == UnitsOf(name, B, p.size)
    <3>1. Whole(SubSeq(ps, FirstOf(ps, j), j))
      <4> SUFFICES ASSUME NEW a, a = FirstOf(ps, j) PROVE Whole(SubSeq(ps, a, j))
        OBVIOUS
      <4> DEFINE s == SubSeq(ps, a, j)
      <4>1. a \in 1 .. j /\ ps \in Seq(Range(ps)) /\ j \in 1 .. n
        BY <2>1, <2>2 DEF Pieced
      <4>2. /\ DOMAIN s = 1 .. (j - a) + 1
            /\ \A k \in 1 .. (j - a) + 1 : s[k] = ps[(a + k) - 1]
        BY ONLY <4>1, <1>1
      <4> HIDE DEF s
      <4>3. \A k \in 1 .. (j - a) + 1 : (a + k) - 1 \in a .. j /\ (((a + k) - 1) - a) + 1 = k
        BY <1>1, <4>1
      <4>6. \A k \in a .. j : ps[k].block = ps[j].block /\ ps[k].part = (k - a) + 1
        BY <2>2
      <4>4. \A k \in DOMAIN s : s[k].block = ps[j].block /\ s[k].part = k
        BY <4>2, <4>3, <4>6
      <4>5. 1 \in DOMAIN s
        BY <1>1, <4>1, <4>2
      <4> QED BY <4>4, <4>5 DEF Whole, s
    <3>2. BlockOf(ps, j) = t
      <4>1. \A u : Append(p.block, u) = <<name, B, u>>
        BY <2>2, Append3
      <4> QED BY <3>1, <4>1 DEF BlockOf, p, UnitsOf
    <3>3. p.size \in 1 .. BlockMax
      BY <2>3, <2>11, CabAssumption
    <3>4. g[j] = Units(name, (B - 1) * BlockMax) \o t
      BY <2>4, <2>5, <2>7, <2>11, <3>2
    <3> HIDE DEF name
    <3>8. B \in Nat \ {0}
      BY <2>2
    <3>9. /\ (B - 1) * BlockMax + p.size \in Nat /\ (B - 1) * BlockMax + BlockMax = ((B + 1) - 1) * BlockMax
          /\ Units(name, (B - 1) * BlockMax) \o t = Units(name, (B - 1) * BlockMax + p.size)
      BY <3>3, <3>8, UnitsMore, Zenon
    <3>5. /\ (B - 1) * BlockMax + p.size \in Nat /\ (B - 1) * BlockMax + BlockMax = ((B + 1) - 1) * BlockMax
          /\ g[j] = Units(name, (B - 1) * BlockMax + p.size)
      BY <3>4, <3>9, Zenon
    <3>6. j < n => ps[j + 1].block[2] = B + 1 /\ p.size = BlockMax
      BY <2>6, <2>11 DEF Behind, B
    <3> QED BY <3>5, <3>6
  <2> QED BY <2>9, <2>10, <2>11
<1>7. n \in P
  <2>1. 0 \in P
    BY <1>1, <1>5
  <2> HIDE DEF P
  <2> QED BY <1>1, <1>6, <2>1, UpTo
<1> QED BY <1>3, <1>7

\* Some of the units in a row, as many as wanted.
UnitsFrom(name, off, len) ==
  [u \in 1 .. len |-> <<name, (off + u - 1) \div BlockMax + 1, ((off + u - 1) % BlockMax) + 1>>]

Row(w, off, len) == SubSeq(w, off + 1, Min({Len(w), off + len}))

LEMMA SubUnits ==
  ASSUME NEW name, NEW m \in Nat, NEW off \in Nat, NEW len \in Nat, Len(Row(Units(name, m), off, len)) = len
  PROVE  Row(Units(name, m), off, len) = UnitsFrom(name, off, len)
<1> SUFFICES ASSUME NEW w, w = Units(name, m),
                    NEW s, s = SubSeq(w, off + 1, Min({Len(w), off + len})), Len(s) = len
             PROVE  s = UnitsFrom(name, off, len)
  BY DEF Row
<1> DEFINE F == Range(w)
           M == Min({Len(w), off + len})
<1>1. /\ w \in Seq(F) /\ Len(w) = m
      /\ \A u \in 1 .. m : w[u] = <<name, (u - 1) \div BlockMax + 1, ((u - 1) % BlockMax) + 1>>
  BY UnitsAre
<1> HIDE DEF F
<1>2. M \in Nat /\ M <= m /\ M <= off + len
  <2> SUFFICES ASSUME NEW S, S = {m, off + len} PROVE Min(S) \in Nat /\ Min(S) <= m /\ Min(S) <= off + len
    BY <1>1
  <2>1. S \subseteq Nat /\ S # {} /\ m \in S /\ off + len \in S
    OBVIOUS
  <2>2. \E x \in S : \A y \in S : x <= y
    BY <2>1, LeastNat
  <2>3. Min(S) \in S /\ \A y \in S : Min(S) <= y
    BY <2>2 DEF Min
  <2> QED BY <2>1, <2>3
<1> HIDE DEF M
<1>3. s = SubSeq(w, off + 1, M)
  BY DEF M
<1>4. s \in Seq(F) /\ DOMAIN s = 1 .. len
  <2>1. s \in Seq(F)
    <3>1. CASE off + 1 <= M
      BY ONLY <1>1, <1>2, <1>3, <3>1, off \in Nat, m \in Nat
    <3>2. CASE ~(off + 1 <= M)
      BY ONLY <1>1, <1>2, <1>3, <3>2, off \in Nat, m \in Nat
    <3> QED BY <3>1, <3>2
  <2>2. Len(s) = len
    OBVIOUS
  <2> QED BY ONLY <2>1, <2>2
<1>5. ASSUME NEW u \in 1 .. len PROVE off + u \in 1 .. m /\ s[u] = w[off + u]
  <2>1. off + 1 <= M
    <3> SUFFICES ASSUME ~(off + 1 <= M) PROVE FALSE
      OBVIOUS
    <3>1. Len(s) = 0
      BY ONLY <1>1, <1>2, <1>3, off \in Nat, m \in Nat, ~(off + 1 <= M)
    <3> QED BY <1>5, <3>1
  <2>2. Len(s) = M - off
    BY ONLY <1>1, <1>2, <1>3, <2>1, off \in Nat, m \in Nat
  <2>3. M = off + len
    BY <1>2, <2>2
  <2>4. off + u \in 1 .. m /\ (off + 1) + u - 1 = off + u
    BY <1>2, <2>3
  <2>5. s[u] = w[off + u]
    BY ONLY <1>1, <1>2, <1>3, <1>5, <2>1, <2>3, <2>4, off \in Nat, m \in Nat, len \in Nat
  <2> QED BY <2>4, <2>5
<1>6. ASSUME NEW u \in 1 .. len
      PROVE  s[u] = <<name, (off + u - 1) \div BlockMax + 1, ((off + u - 1) % BlockMax) + 1>>
  <2>1. off + u \in 1 .. m /\ s[u] = w[off + u]
    BY <1>5
  <2> QED BY ONLY <1>1, <2>1
<1>7. s = [u \in 1 .. len |-> s[u]]
  BY ONLY <1>4
<1> QED BY <1>6, <1>7 DEF UnitsFrom

\* A folder that needs none before it begins with the first piece of a block.
LEMMA BeginsWhole ==
  ASSUME Known, NEW n \in Here, NEW k \in DOMAIN dir[n].folders,
         OpenedFolder(n, k).merge_prev = None
  PROVE  Part(<<n, k>>)[1].block[2] = 1 /\ Part(<<n, k>>)[1].part = 1
<1>1. n \in Names /\ dir[n] \in Archive[n]
  BY DEF Known, Here
<1>2. k # 1 \/ \A j \in DOMAIN dir[n].files : ~Comes(dir[n].files[j])
  <2> SUFFICES ASSUME k = 1, NEW j \in DOMAIN dir[n].files, Comes(dir[n].files[j]) PROVE FALSE
    OBVIOUS
  <2> DEFINE is == {i \in DOMAIN dir[n].files : dir[n].files[i].join \in {"prev", "both"}}
  <2>1. FirstJoin(n, {"prev", "both"}) = None
    BY DEF OpenedFolder
  <2>2. j \in is
    BY DEF Comes
  <2>3. FirstJoin(n, {"prev", "both"}) = <<n, CHOOSE i \in is : \A h \in is : i <= h>>
    BY <2>2 DEF FirstJoin
  <2>4. (CHOOSE i \in is : \A h \in is : i <= h) \in Nat
    <3>1. is \subseteq Nat
      BY ArchiveIs
    <3> HIDE DEF is
    <3>2. \E i \in is : \A h \in is : i <= h
      BY <2>2, <3>1, LeastNat
    <3>3. (CHOOSE i \in is : \A h \in is : i <= h) \in is
      BY <3>2
    <3> QED BY <3>1, <3>3
  <2> HIDE DEF is
  <2>6. \A h \in Nat : <<n, h>> \in Names \X Nat
    BY <1>1
  <2>5. FirstJoin(n, {"prev", "both"}) \in Names \X Nat
    BY <2>3, <2>4, <2>6, Zenon
  <2> QED BY <2>1, <2>5, PiecesAssumption
<1>3. dir[n].folders[k][1].block[2] = 1 /\ dir[n].folders[k][1].part = 1
  BY <1>1, <1>2, PiecesAssumption
<1> QED BY <1>3 DEF Part

\* A file extracted to its end is what the archives hold under its name.
LEMMA ExtractedIsContent ==
  ASSUME Known, HeapInv(cab, fold), SetInv(cab, fold), NEW c \in DOMAIN cab, NEW f \in Range(cab[c].files),
         ~Refused(f), Len(Extracted(f)) = File(f).length
  PROVE  f[1] \in Here /\ f[2] \in DOMAIN dir[f[1]].files /\ Extracted(f) = Content(f[1], f[2])
<1> DEFINE x == FolderOf(f)
           n == f[1]
           i == f[2]
<1>1. n \in DOMAIN cab /\ n \in Here /\ i \in DOMAIN dir[n].files
  <2>1. cab[c].files \in Seq(FilesOf(cab))
    BY DEF HeapInv, ChainInv, Cabinet
  <2>2. f \in FilesOf(cab)
    BY <2>1 DEF Range
  <2> QED BY <2>2 DEF FilesOf, Known
<1>2. x \in DOMAIN fold /\ DataAt(fold, x)
  <2>1. x \in DOMAIN fold
    BY DEF HeapInv, Safe
  <2> QED BY <2>1 DEF SetInv
<1> DEFINE k == x[2]
           ps == Pieces(fold[x].data)
<1>3. x = <<n, k>>
  BY DEF FolderOf
<1>4. fold[x].merge_prev = None
  BY DEF Refused
<1> HIDE DEF x, n, i
<1>5. k \in DOMAIN dir[n].folders
  <2>1. x \in Folders
    BY <1>2 DEF DataAt, Chained
  <2> QED BY <1>3, <2>1 DEF Folders
<1>6. OpenedFolder(n, k).merge_prev = None
  <2>1. fold[x].merge_prev = OpenedFolder(x[1], x[2]).merge_prev
    BY <1>2 DEF DataAt
  <2>2. x[1] = n
    BY <1>3
  <2> QED BY <1>4, <2>1, <2>2
<1>7. Pieced(ps) /\ ps[1] = Part(x)[1]
  BY <1>2, PiecesAre DEF DataAt
<1>8. ps[1].block[2] = 1 /\ ps[1].part = 1
  <2>1. Part(<<n, k>>)[1].block[2] = 1 /\ Part(<<n, k>>)[1].part = 1
    BY <1>1, <1>5, <1>6, BeginsWhole
  <2> QED BY <1>3, <1>7, <2>1
<1> DEFINE name == ps[1].block[1]
<1>9. name = dir[n].folders[k][1].block[1]
  BY <1>3, <1>7 DEF Part
<1>10. PICK m \in Nat : Read(ps, fold[x].num_blocks) = Units(name, m)
  <2>1. fold[x].num_blocks \in Nat
    BY <1>2 DEF DataAt
  <2> HIDE DEF ps
  <2> QED BY <1>7, <1>8, <2>1, ReadIs
<1> DEFINE w == Read(ps, fold[x].num_blocks)
           off == File(f).offset
           len == File(f).length
<1>11. off \in Nat /\ len \in Nat /\ File(f) = dir[n].files[i]
  <2>1. File(f) = dir[n].files[i]
    BY DEF File, n, i
  <2>2. n \in Names /\ dir[n] \in Archive[n]
    BY <1>1 DEF Known, Here
  <2> QED BY <1>1, <2>1, <2>2, PiecesAssumption
<1>12. Extracted(f) = SubSeq(w, off + 1, Min({Len(w), off + len}))
  BY DEF Extracted, x
<1> HIDE DEF w, off, len, name, ps
<1>13. Extracted(f) = UnitsFrom(name, off, len)
  <2>1. w = Units(name, m)
    BY <1>10 DEF w
  <2>2. Len(Extracted(f)) = len
    BY DEF len
  <2>3. Row(Units(name, m), off, len) = Extracted(f)
    BY <1>12, <2>1 DEF Row
  <2> QED BY <1>11, <2>2, <2>3, SubUnits
<1>14. k = CASE dir[n].files[i].join = "none" -> dir[n].files[i].folder
             [] dir[n].files[i].join = "next" -> Len(dir[n].folders)
             [] OTHER -> 1
  BY <1>11 DEF k, x, n, FolderOf
<1>15. Content(n, i) = UnitsFrom(name, off, len)
  BY <1>9, <1>11, <1>14 DEF Content, UnitsFrom, off, len
<1> QED BY <1>1, <1>13, <1>15 DEF n, i

--------------------------------------------------------------------------
(* What is extracted                                                       *)

ExactInv == CabInv /\ (Good => Way /\ SetInv(cab, fold)) /\ ExtractedExact

LEMMA ExactInit == Init => ExactInv
<1> SUFFICES ASSUME Init PROVE ExactInv
  OBVIOUS
<1>1. CabInv
  BY CabInit
<1>2. Fresh /\ Known
  BY <1>1 DEF Init, CabInv
<1>3. cnt = 0 /\ pc \in {"search", "lookup"}
  BY DEF Init
<1>4. Way
  BY <1>3 DEF Way
<1>5. SetInv(cab, fold)
  BY <1>2, FreshSets
<1>6. ExtractedExact
  BY <1>3 DEF ExtractedExact
<1> QED BY <1>1, <1>4, <1>5, <1>6 DEF ExactInv

LEMMA ExactNext == ExactInv /\ [Next]_vars => ExactInv'
<1> SUFFICES ASSUME ExactInv, [Next]_vars PROVE ExactInv'
  OBVIOUS
<1>1. CabInv'
  BY CabNext DEF ExactInv
<1>2. dir' = dir /\ Here' = Here /\ wanted' = wanted /\ short' = short
  BY DEF Next, vars, Here, SearchNext, SearchEnd, LookupNext, LookupEnd, FindPrev, FindNext,
         OpenSource, Prepend, PrependEnd, Append1, AppendEnd, TryFile, FilesEnd, Close
<1>3. Good' <=> Good
  BY <1>2 DEF Good
<1>4. Good => Way' /\ SetInv(cab, fold)'
  BY WayNext, SetNext DEF ExactInv
<1>5. \A n, i : Content(n, i)' = Content(n, i)
  BY <1>2 DEF Content
<1>6. ASSUME UNCHANGED <<out, cnt>> PROVE ExtractedExact'
  BY <1>2, <1>5, <1>6 DEF ExactInv, ExtractedExact
<1>7. ASSUME TryFile PROVE ExtractedExact'
  <2> SUFFICES ASSUME cnt' = 1, Good PROVE ExtractedExact'
    BY <1>3 DEF ExtractedExact, Good
  <2> DEFINE f == cab[at].files[item + 1]
  <2>1. /\ pc = "files" /\ at \in DOMAIN cab /\ item \in Nat /\ cnt = 0 /\ item < Len(cab[at].files)
        /\ CabInv /\ SetInv(cab, fold)
    BY <1>7 DEF TryFile, ExactInv, Way
  <2>2. /\ File(f).name = wanted /\ ~Refused(f) /\ out' = Extracted(f)
        /\ Len(Extracted(f)) = File(f).length
    BY <1>7, <2>1 DEF TryFile, Extract
  <2>3. f \in Range(cab[at].files)
    <3>1. cab[at].files \in Seq(FilesOf(cab))
      BY <2>1 DEF CabInv, HeapInv, ChainInv, Cabinet
    <3>2. item + 1 \in DOMAIN cab[at].files
      BY <2>1, <3>1
    <3> QED BY <3>2 DEF Range
  <2> HIDE DEF f
  <2>4. f[1] \in Here /\ f[2] \in DOMAIN dir[f[1]].files /\ Extracted(f) = Content(f[1], f[2])
    BY <2>1, <2>2, <2>3, ExtractedIsContent DEF CabInv
  <2>5. dir[f[1]].files[f[2]].name = wanted
    BY <2>2 DEF File
  <2> QED BY <1>2, <1>5, <2>2, <2>4, <2>5 DEF ExtractedExact
<1>8. ASSUME ~TryFile PROVE ExtractedExact'
  <2>1. UNCHANGED <<out, cnt>>
    BY <1>8 DEF Next, vars, SearchNext, SearchEnd, LookupNext, LookupEnd, FindPrev, FindNext,
         OpenSource, Prepend, PrependEnd, Append1, AppendEnd, FilesEnd, Close
  <2> QED BY <1>6, <2>1
<1>9. ExtractedExact'
  BY <1>7, <1>8
<1> QED BY <1>1, <1>3, <1>4, <1>9 DEF ExactInv

\* A file reported as extracted is what the archives hold under the name asked
\* for, whole and in order, however many archives its data is spread over and
\* in whatever order they were met (cabd_merge, cabd_sys_read_block), if all
\* could be read and there was memory.
THEOREM ExtractedIsExact == Spec => []ExtractedExact
<1>1. ExactInv => ExtractedExact
  BY DEF ExactInv
<1> QED BY <1>1, ExactInit, ExactNext, PTL DEF Spec
==============================================================================
