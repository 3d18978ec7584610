----------------------------- MODULE KwajProofs -----------------------------
(***************************************************************************)
(* Proofs about Kwaj: a file packed by storing is given back, whatever the *)
(* data and however few bytes the input buffer holds, and the two readers  *)
(* of the headers see the same name wherever each string has its end.      *)
(***************************************************************************)
EXTENDS Kwaj, FiniteSetTheorems, SequenceTheorems, TLAPS

--------------------------------------------------------------------------
(* The least and the greatest of a set of numbers                          *)

\* A set of numbers up to n that holds 0 and with every number the next
\* would fit into itself less 0.
LEMMA NatClosed ==
  ASSUME NEW P, NEW n \in Nat, P \subseteq 0 .. n, 0 \in P, \A x \in P : x + 1 \in P
  PROVE  FALSE
<1>1. IsFiniteSet(P)
  <2>1. P \in SUBSET Nat /\ \A x \in P : x <= n
    OBVIOUS
  <2> QED BY <2>1, FS_BoundedSetOfNaturals
<1>2. IsFiniteSet(P \ {0}) /\ Cardinality(P \ {0}) = Cardinality(P) - 1
  BY <1>1, FS_RemoveElement
<1>3. Cardinality(P \ {0}) < Cardinality(P)
  BY <1>1, <1>2, FS_CardinalityType
<1> DEFINE f == [x \in P |-> x + 1]
<1>4. f \in [P -> P \ {0}]
  OBVIOUS
<1>5. \A x \in P : f[x] = x + 1
  OBVIOUS
<1> HIDE DEF f
<1>6. \E x, y \in P : x # y /\ f[x] = f[y]
  BY <1>1, <1>2, <1>3, <1>4, FS_PigeonHole
<1> QED BY <1>5, <1>6

LEMMA LeastNat ==
  ASSUME NEW S, S \subseteq Nat, S # {}
  PROVE  \E x \in S : \A y \in S : x <= y
<1> SUFFICES ASSUME \A x \in S : \E y \in S : y < x
             PROVE  FALSE
  OBVIOUS
<1> PICK n \in S : TRUE
  OBVIOUS
<1> DEFINE P == {x \in 0 .. n : \A y \in S : x < y}
<1>1. P \subseteq 0 .. n /\ n \in Nat
  OBVIOUS
<1>2. 0 \in P
  OBVIOUS
<1>3. \A x \in P : x + 1 \in P
  OBVIOUS
<1> HIDE DEF P
<1> QED BY <1>1, <1>2, <1>3, NatClosed

LEMMA MinIs ==
  ASSUME NEW S, S \subseteq Nat, S # {}
  PROVE  Min(S) \in S /\ \A y \in S : Min(S) <= y
BY LeastNat DEF Min

LEMMA LeastIs ==
  ASSUME NEW S, NEW x \in S, S \subseteq Nat, \A y \in S : x <= y
  PROVE  Min(S) = x
<1> DEFINE m == Min(S)
<1>1. m \in S /\ \A y \in S : m <= y
  BY MinIs
<1> HIDE DEF m
<1>2. m \in Nat /\ x \in Nat /\ m <= x /\ x <= m
  BY <1>1
<1>3. m = x
  BY ONLY <1>2
<1> QED BY <1>3 DEF m

LEMMA MinOfTwo ==
  ASSUME NEW a \in Int, NEW b \in Int
  PROVE  Min({a, b}) = IF a <= b THEN a ELSE b
<1>1. \E x \in {a, b} : \A y \in {a, b} : x <= y
  OBVIOUS
<1> QED BY <1>1 DEF Min

LEMMA MaxIs ==
  ASSUME NEW n \in Nat, NEW S, S \subseteq 0 .. n, S # {}
  PROVE  Max(S) \in S /\ \A y \in S : y <= Max(S)
<1> DEFINE T == {n - x : x \in S}
<1>1. T \subseteq Nat /\ T # {}
  <2>1. \A x \in S : n - x \in Nat
    OBVIOUS
  <2>2. PICK x \in S : TRUE
    OBVIOUS
  <2>3. n - x \in T
    OBVIOUS
  <2> QED BY <2>1, <2>3
<1>2. PICK t \in T : \A y \in T : t <= y
  <2> HIDE DEF T
  <2> QED BY <1>1, LeastNat
<1>3. PICK x \in S : t = n - x
  OBVIOUS
<1>4. \A y \in S : x >= y
  <2> TAKE y \in S
  <2>1. t <= n - y
    BY <1>2
  <2> QED BY <1>3, <2>1
<1> QED BY <1>4 DEF Max

--------------------------------------------------------------------------
(* One string of the headers                                               *)

\* A piece of a sequence.
LEMMA Piece ==
  ASSUME NEW S, NEW s \in Seq(S), NEW i \in Nat \ {0}, NEW j \in Nat, j <= Len(s)
  PROVE  /\ SubSeq(s, i, j) \in Seq(S)
         /\ Len(SubSeq(s, i, j)) = IF i <= j THEN j - i + 1 ELSE 0
         /\ \A k \in 1 .. j - i + 1 : SubSeq(s, i, j)[k] = s[i + k - 1]
<1>1. Len(s) \in Nat
  BY LenProperties
<1>2. \A k \in i .. j : s[k] \in S
  <2> TAKE k \in i .. j
  <2>1. k \in 1 .. Len(s)
    BY <1>1
  <2> QED BY <2>1, ElementOfSeq
<1>3. i \in Int /\ j \in Int
  OBVIOUS
<1> QED BY <1>2, <1>3, SubSeqProperties

\* The place of the first Nul seen through a part of the file, and in all of it.
LEMMA FirstNul ==
  ASSUME NEW b \in Seq(Nat), NEW p \in Nat, NEW n \in Nat, p + n <= Len(b),
         NEW k \in 1 .. n, b[p + k] = Nul, \A j \in 1 .. n : b[p + j] = Nul => k <= j
  PROVE  /\ Chars(b, p) = SubSeq(b, p + 1, p + k - 1)
         /\ Len(Chars(b, p)) = k - 1
<1> DEFINE B == {i \in p + 1 .. Len(b) : b[i] = Nul}
<1>0. Len(b) \in Nat
  BY LenProperties
<1>2. B \subseteq Nat /\ p + k \in B
  BY <1>0
<1>3. \A y \in B : p + k <= y
  <2> SUFFICES ASSUME NEW y \in B, y < p + k PROVE FALSE
    BY <1>0
  <2>1. y - p \in 1 .. n /\ p + (y - p) = y /\ y - p < k
    BY <1>0
  <2>2. PICK j \in 1 .. n : p + j = y /\ j < k
    BY <2>1
  <2>3. k <= j
    BY <2>2
  <2> QED BY <2>2, <2>3
<1>5. Min(B) = p + k /\ B # {}
  <2> HIDE DEF B
  <2> QED BY <1>2, <1>3, LeastIs
<1>6. Chars(b, p) = SubSeq(b, p + 1, Min(B) - 1)
  BY <1>5 DEF Chars
<1> HIDE DEF B
<1>7. Chars(b, p) = SubSeq(b, p + 1, p + k - 1)
  BY <1>5, <1>6
<1>8. Len(SubSeq(b, p + 1, p + k - 1)) = k - 1
  <2>1. p + 1 \in Nat \ {0} /\ p + k - 1 \in Nat /\ p + k - 1 <= Len(b)
    BY <1>0
  <2>2. Len(SubSeq(b, p + 1, p + k - 1))
          = IF p + 1 <= p + k - 1 THEN (p + k - 1) - (p + 1) + 1 ELSE 0
    BY <2>1, Piece
  <2> QED BY <2>2
<1> QED BY <1>7, <1>8

\* How much of the file libmspack looks through.
LEMMA Looked ==
  ASSUME NEW b \in Seq(Nat), NEW p \in Nat, NEW max \in Nat
  PROVE  LET n == Min({max, Len(b) - p})
         IN  n \in Int /\ n <= max /\ n <= Len(b) - p /\ (n = max \/ n = Len(b) - p)
<1>1. Len(b) \in Nat
  BY LenProperties
<1> DEFINE m == Len(b) - p
<1>2. m \in Int
  BY <1>1
<1> HIDE DEF m
<1>3. Min({max, m}) = IF max <= m THEN max ELSE m
  BY <1>2, MinOfTwo
<1>4. Min({max, m}) \in Int /\ Min({max, m}) <= max /\ Min({max, m}) <= m
        /\ (Min({max, m}) = max \/ Min({max, m}) = m)
  BY <1>2, <1>3
<1> QED BY <1>4 DEF m

\* What kwaj_get_name sees of a string libmspack takes, unless there is no
\* end of a string behind.
LEMMA StringAgrees ==
  ASSUME NEW b \in Seq(Nat), NEW p \in Nat, NEW max \in Nat,
         ReadString(b, p, max).error = "ok"
  PROVE  LET s == ReadString(b, p, max)
         IN  /\ s.chars \in Seq(Nat) /\ s.next \in Nat
             /\ \/ /\ s.chars = Chars(b, p)
                   /\ s.next = p + Len(Chars(b, p)) + 1
                   /\ s.next \in p + 1 .. Len(b) /\ b[s.next] = Nul
                   /\ \A q \in p + 1 .. Len(b) : b[q] = Nul => s.next <= q
                \/ \A q \in p + 1 .. Len(b) : b[q] # Nul
<1> DEFINE n   == Min({max, Len(b) - p})
           end == {i \in 1 .. n : b[p + i] = Nul}
           s   == ReadString(b, p, max)
           i   == IF end = {} THEN n ELSE Min(end) - 1
<1>0. Len(b) \in Nat
  BY LenProperties
<1>1. n \in Int /\ n <= max /\ n <= Len(b) - p /\ (n = max \/ n = Len(b) - p)
  BY Looked
<1>2. /\ ~(n < 2) /\ i # max
      /\ s = [error |-> "ok", next |-> p + i + 1,
              chars |-> SubSeq(b, p + 1, p + i - IF end = {} THEN 1 ELSE 0)]
  BY DEF ReadString
<1>3. \A q \in end : q \in 1 .. n /\ b[p + q] = Nul
  OBVIOUS
<1>4. \A q \in 1 .. n : b[p + q] = Nul => q \in end
  OBVIOUS
<1>5. CASE end = {}
  <2> HIDE DEF end, n
  <2>0. ~(n < 2)
    BY <1>2
  <2>1. i = n /\ n = Len(b) - p /\ n \in Nat
    BY <1>0, <1>1, <1>2, <1>5
  <2>2. s.next = p + n + 1 /\ s.chars = SubSeq(b, p + 1, p + n - 1)
    BY <1>2, <1>5, <2>1
  <2>3. s.next \in Nat
    BY <2>1, <2>2
  <2>4. s.chars \in Seq(Nat)
    <3>1. p + 1 \in Nat \ {0} /\ p + n - 1 \in Nat /\ p + n - 1 <= Len(b)
      BY <1>0, <2>0, <2>1
    <3>2. SubSeq(b, p + 1, p + n - 1) \in Seq(Nat)
      BY ONLY <3>1, b \in Seq(Nat), Piece
    <3> HIDE DEF s
    <3> QED BY ONLY <2>2, <3>2
  <2>5. \A q \in p + 1 .. Len(b) : b[q] # Nul
    <3> SUFFICES ASSUME NEW q \in p + 1 .. Len(b), b[q] = Nul PROVE FALSE
      OBVIOUS
    <3> DEFINE k == q - p
    <3>1. k \in 1 .. n /\ p + k = q
      BY <1>0, <2>1
    <3> HIDE DEF k
    <3> QED BY <1>4, <1>5, <3>1
  <2> HIDE DEF s
  <2> QED BY <2>3, <2>4, <2>5 DEF s
<1>6. CASE end # {}
  <2> DEFINE k == Min(end)
  <2>1. k \in end /\ \A y \in end : k <= y
    <3>1. end \subseteq Nat
      BY <1>1
    <3> HIDE DEF end
    <3> QED BY <1>6, <3>1, MinIs
  <2>2. /\ k \in 1 .. n /\ b[p + k] = Nul
        /\ \A j \in 1 .. n : b[p + j] = Nul => k <= j
    BY <1>3, <1>4, <2>1
  <2>3. n \in Nat /\ p + n <= Len(b)
    BY <1>0, <1>1, <2>2, SMTT(60)
  <2> HIDE DEF n
  <2>4. Chars(b, p) = SubSeq(b, p + 1, p + k - 1) /\ Len(Chars(b, p)) = k - 1
    <3> HIDE DEF k
    <3> QED BY <2>2, <2>3, FirstNul
  <2> HIDE DEF end, s
  <2>5. s.next = p + k /\ s.chars = SubSeq(b, p + 1, p + k - 1)
    <3>1. i = k - 1
      BY <1>6
    <3> HIDE DEF i, k
    <3>2. p + i + 1 = p + k /\ p + i - 0 = p + k - 1
      BY <2>2, <2>3, <3>1
    <3> QED BY <1>2, <1>6, <3>2
  <2> HIDE DEF k, s
  <2>6. s.chars = Chars(b, p) /\ s.next = p + Len(Chars(b, p)) + 1
    BY <2>2, <2>3, <2>4, <2>5
  <2>7. s.next \in p + 1 .. Len(b) /\ b[s.next] = Nul
    BY <1>0, <2>2, <2>3, <2>5
  <2>8. \A q \in p + 1 .. Len(b) : b[q] = Nul => s.next <= q
    <3> SUFFICES ASSUME NEW q \in p + 1 .. Len(b), b[q] = Nul, q < p + k PROVE FALSE
      BY <1>0, <2>2, <2>3, <2>5
    <3> DEFINE j == q - p
    <3>1. j \in 1 .. n /\ p + j = q /\ j < k
      BY <1>0, <2>2, <2>3
    <3> HIDE DEF j
    <3> QED BY <2>2, <3>1, SMTT(60)
  <2>9. s.chars \in Seq(Nat)
    <3>1. p + 1 \in Nat \ {0} /\ p + k - 1 \in Nat /\ p + k - 1 <= Len(b)
      BY <1>0, <2>2, <2>3
    <3>2. SubSeq(b, p + 1, p + k - 1) \in Seq(Nat)
      BY <3>1, Piece
    <3> QED BY <2>5, <3>2
  <2>10. s.next \in Nat
    BY <1>0, <2>7
  <2> QED BY <2>6, <2>7, <2>8, <2>9, <2>10 DEF s
<1> QED BY <1>5, <1>6

\* A string that has its end where it may still be is taken.
LEMMA StringOk ==
  ASSUME NEW b \in Seq(Nat), NEW p \in Nat, NEW max \in Nat, NEW k \in Nat,
         k + 1 <= max, 2 <= max, p + 2 <= Len(b), p + k + 1 <= Len(b),
         b[p + k + 1] = Nul, \A j \in 1 .. k : b[p + j] # Nul
  PROVE  ReadString(b, p, max).error = "ok" /\ ReadString(b, p, max).next = p + k + 1
<1> DEFINE n   == Min({max, Len(b) - p})
           end == {i \in 1 .. n : b[p + i] = Nul}
           i   == IF end = {} THEN n ELSE Min(end) - 1
           q   == k + 1
<1>0. Len(b) \in Nat
  BY LenProperties
<1>1. n \in Int /\ n <= max /\ n <= Len(b) - p /\ (n = max \/ n = Len(b) - p)
  BY Looked
<1>2. n \in Nat /\ ~(n < 2) /\ q \in 1 .. n /\ p + n <= Len(b) /\ p + q = p + k + 1
  <2> HIDE DEF n
  <2> QED BY <1>0, <1>1
<1>3. b[p + q] = Nul /\ \A j \in 1 .. n : b[p + j] = Nul => q <= j
  <2> HIDE DEF n
  <2>1. b[p + q] = Nul
    BY <1>2
  <2>2. ASSUME NEW j \in 1 .. n, b[p + j] = Nul, ~(q <= j) PROVE FALSE
    <3>1. j \in 1 .. k
      BY <1>2, <2>2
    <3> QED BY <2>2, <3>1
  <2> QED BY <2>1, <2>2
<1>4. q \in end
  BY <1>2, <1>3
<1>5. Min(end) = q
  <2>1. \A y \in end : q <= y
    BY <1>3
  <2>2. end \subseteq Nat
    OBVIOUS
  <2> HIDE DEF end, q
  <2> QED BY <1>4, <2>1, <2>2, LeastIs
<1> HIDE DEF end, n
<1>6. i = k /\ i # max
  BY <1>4, <1>5
<1>7. ReadString(b, p, max) = [error |-> "ok", next |-> p + i + 1,
         chars |-> SubSeq(b, p + 1, p + i - IF end = {} THEN 1 ELSE 0)]
  BY <1>2, <1>6 DEF ReadString, end, n
<1> HIDE DEF i
<1> QED BY <1>6, <1>7

--------------------------------------------------------------------------
(* The headers                                                             *)

Reading == [error : {"ok", "read", "dataformat"}, next : Nat, name : Seq(Nat)]

\* A part skipped leaves the name as it is.
LEMMA SkipIs ==
  ASSUME NEW a, NEW flag, NEW n, NEW r \in Reading
  PROVE  /\ Skip(a, flag, n, r).name = r.name
         /\ Skip(a, flag, n, r).error = "ok" => r.error = "ok"
         /\ Skip(a, flag, n, r).error = "ok" =>
              Skip(a, flag, n, r).next = IF flag \in a.flags THEN r.next + n ELSE r.next
         /\ n \in Nat => Skip(a, flag, n, r) \in Reading
<1>1. CASE flag \notin a.flags \/ r.error # "ok"
  <2>1. Skip(a, flag, n, r) = r
    BY <1>1, Zenon DEF Skip
  <2> QED BY <1>1, <2>1
<1>2. CASE flag \in a.flags /\ r.error = "ok" /\ r.next + n > Len(a.bytes)
  <2>1. Skip(a, flag, n, r) = [r EXCEPT !.error = "read"]
    BY <1>2, Zenon DEF Skip
  <2> QED BY <1>2, <2>1 DEF Reading
<1>3. CASE flag \in a.flags /\ r.error = "ok" /\ ~(r.next + n > Len(a.bytes))
  <2>1. Skip(a, flag, n, r) = [r EXCEPT !.next = @ + n]
    BY <1>3, Zenon DEF Skip
  <2> QED BY <1>3, <2>1 DEF Reading
<1> QED BY ONLY <1>1, <1>2, <1>3

LEMMA StringError ==
  ASSUME NEW b, NEW p, NEW max
  PROVE  ReadString(b, p, max).error \in {"ok", "read", "dataformat"}
BY DEF ReadString

LEMMA ReadPartIs ==
  ASSUME NEW a, NEW flag, NEW max \in Nat, NEW dot \in Seq(Nat), NEW r \in Reading,
         a.bytes \in Seq(Nat)
  PROVE  LET t == ReadPart(a, flag, max, dot, r)
             s == ReadString(a.bytes, r.next, max)
         IN  /\ t \in Reading
             /\ t.error = "ok" => r.error = "ok"
             /\ flag \notin a.flags => t = r
             /\ (flag \in a.flags /\ t.error = "ok") =>
                   s.error = "ok" /\ t.next = s.next /\ t.name = r.name \o dot \o s.chars
<1> DEFINE t == ReadPart(a, flag, max, dot, r)
           s == ReadString(a.bytes, r.next, max)
<1>0. r.error \in {"ok", "read", "dataformat"} /\ r.next \in Nat /\ r.name \in Seq(Nat)
  BY DEF Reading
<1>1. s.error \in {"ok", "read", "dataformat"}
  BY StringError
<1>2. s.error = "ok" => s.chars \in Seq(Nat) /\ s.next \in Nat
  BY <1>0, StringAgrees
<1>3. t = IF flag \notin a.flags \/ r.error # "ok" THEN r
          ELSE IF s.error # "ok" THEN [r EXCEPT !.error = s.error]
          ELSE [error |-> "ok", next |-> s.next, name |-> r.name \o dot \o s.chars]
  BY DEF ReadPart
<1> HIDE DEF t, s
<1>4. CASE flag \notin a.flags \/ r.error # "ok"
  <2>1. t = r
    BY <1>3, <1>4
  <2> QED BY <1>4, <2>1 DEF t, s
<1>5. CASE flag \in a.flags /\ r.error = "ok" /\ s.error # "ok"
  <2>1. t = [r EXCEPT !.error = s.error]
    BY <1>3, <1>5
  <2>2. t \in Reading /\ t.error = s.error
    BY <1>1, <2>1 DEF Reading
  <2> QED BY <1>5, <2>2 DEF t, s
<1>6. CASE flag \in a.flags /\ r.error = "ok" /\ s.error = "ok"
  <2>1. t = [error |-> "ok", next |-> s.next, name |-> r.name \o dot \o s.chars]
    BY <1>3, <1>6
  <2>2. r.name \o dot \o s.chars \in Seq(Nat)
    <3>1. r.name \o dot \in Seq(Nat)
      BY <1>0, ConcatProperties
    <3> QED BY <1>2, <1>6, <3>1, ConcatProperties
  <2>3. t \in Reading
    BY <1>2, <1>6, <2>1, <2>2 DEF Reading
  <2>4. t.next = s.next /\ t.name = r.name \o dot \o s.chars
    BY <2>1
  <2> QED BY <1>6, <2>3, <2>4 DEF t, s
<1> QED BY <1>4, <1>5, <1>6

\* The two strings as libmspack reads them, behind what is skipped.
AtNames(a) == [error |-> "ok", next |-> NameOffset(a), name |-> <<>>]
Named(a)   == ReadPart(a, "name", NameLen + 1, <<>>, AtNames(a))
Extended(a) == ReadPart(a, "ext", ExtLen + 1, <<Dot>>, Named(a))

LEMMA Lengths == NameLen \in Nat \ {0} /\ ExtLen \in Nat \ {0} /\ InputSize \in Nat \ {0} /\ ExtLen <= NameLen
BY KwajAssumption

LEMMA ReadingNames ==
  ASSUME NEW a, a.bytes \in Seq(Nat)
  PROVE  AtNames(a) \in Reading /\ Named(a) \in Reading /\ Extended(a) \in Reading
<1>1. NameLen + 1 \in Nat /\ ExtLen + 1 \in Nat
  BY Lengths
<1>2. <<>> \in Seq(Nat) /\ <<Dot>> \in Seq(Nat) /\ NameOffset(a) \in Nat
  BY DEF Dot, NameOffset
<1>3. AtNames(a) \in Reading
  BY <1>2 DEF AtNames, Reading
<1>4. Named(a) \in Reading
  BY <1>1, <1>2, <1>3, ReadPartIs DEF Named
<1> QED BY <1>1, <1>2, <1>3, <1>4, ReadPartIs DEF Extended

LEMMA BothRead ==
  ASSUME NEW a, NEW r \in Reading, a.bytes \in Seq(Nat)
  PROVE  LET n == ReadPart(a, "name", NameLen + 1, <<>>, r)
             f == ReadPart(a, "ext", ExtLen + 1, <<Dot>>, n)
         IN  f \in Reading /\ (f.error = "ok" => r.error = "ok")
<1> DEFINE n == ReadPart(a, "name", NameLen + 1, <<>>, r)
           f == ReadPart(a, "ext", ExtLen + 1, <<Dot>>, n)
<1>1. NameLen + 1 \in Nat /\ ExtLen + 1 \in Nat
  BY Lengths
<1>2. <<>> \in Seq(Nat) /\ <<Dot>> \in Seq(Nat)
  BY DEF Dot
<1>3. n \in Reading
  BY <1>1, <1>2, ReadPartIs
<1>4. n.error = "ok" => r.error = "ok"
  BY DEF ReadPart
<1> HIDE DEF n
<1>5. f \in Reading
  BY <1>1, <1>2, <1>3, ReadPartIs
<1>6. f.error = "ok" => n.error = "ok"
  BY DEF ReadPart
<1> QED BY <1>3, <1>4, <1>5, <1>6 DEF n

LEMMA HeadersAre ==
  ASSUME NEW a, a.bytes \in Seq(Nat), "unknown2" \notin a.flags, Headers(a).error = "ok"
  PROVE  Extended(a).error = "ok" /\ Headers(a).name = Extended(a).name
<1> DEFINE r0 == [error |-> "ok", next |-> 0, name |-> <<>>]
           r1 == Skip(a, "length", 4, r0)
           r2 == Skip(a, "unknown1", 2, r1)
           r3 == Skip(a, "unknown2", 2, r2)
           e(r) == ReadPart(a, "ext", ExtLen + 1, <<Dot>>,
                      ReadPart(a, "name", NameLen + 1, <<>>, r))
           x(r) == Skip(a, "extra", 2, r)
           l(r) == a.bytes[r.next - 1] + 256 * a.bytes[r.next]
           z(r) == IF r.error = "ok" /\ "extra" \in a.flags THEN Skip(a, "extra", l(r), r) ELSE r
<1>1. Headers(a) = z(x(e(r3)))
  <2>1. Unknown2(a) = r3
    BY DEF Unknown2, Unknown1
  <2> QED BY <2>1 DEF Headers, Len16
<1>2. r3 = r2
  BY SMTT(60) DEF Skip
<1>3. r0 \in Reading
  BY DEF Reading
<1> HIDE DEF r0
<1>4. r1 \in Reading
  BY <1>3, SkipIs
<1> HIDE DEF r1
<1>5. r2 \in Reading
  BY <1>4, SkipIs
<1> HIDE DEF r2, r3
<1>6. e(r2) \in Reading /\ (e(r2).error = "ok" => r2.error = "ok")
  BY <1>5, BothRead
<1> DEFINE y == e(r2)
<1>7. y \in Reading /\ (y.error = "ok" => r2.error = "ok")
  BY <1>6
<1>8. Headers(a) = z(x(y))
  BY <1>1, <1>2
<1>9. y = e(r2)
  OBVIOUS
<1> HIDE DEF y, e
<1> DEFINE w == x(y)
<1>10. w \in Reading /\ w.name = y.name /\ (w.error = "ok" => y.error = "ok")
  BY <1>7, SkipIs
<1>11. Headers(a) = z(w)
  BY <1>8
<1> HIDE DEF w, x, l
<1>12. z(w).name = w.name /\ (z(w).error = "ok" => w.error = "ok")
  BY <1>10, SkipIs
<1> HIDE DEF z
<1>13. y.error = "ok" /\ r2.error = "ok" /\ Headers(a).name = y.name
  BY <1>7, <1>10, <1>11, <1>12
<1>14. r1.error = "ok"
  BY <1>4, <1>13, SkipIs DEF r2
<1>15. r2.name = <<>> /\ r2.next = NameOffset(a)
  <2>1. r1.next = (IF "length" \in a.flags THEN 4 ELSE 0) /\ r1.name = <<>>
    <3>1. r0.next = 0 /\ r0.name = <<>>
      BY DEF r0
    <3> QED BY <1>3, <1>14, <3>1, SkipIs DEF r1
  <2>2. r2.next = (IF "unknown1" \in a.flags THEN r1.next + 2 ELSE r1.next) /\ r2.name = r1.name
    BY <1>4, <1>13, SkipIs DEF r2
  <2> QED BY <2>1, <2>2 DEF NameOffset
<1>16. r2 = AtNames(a)
  BY <1>5, <1>13, <1>15 DEF AtNames, Reading
<1>17. y = Extended(a)
  BY <1>9, <1>16 DEF Extended, Named, e
<1> QED BY <1>13, <1>17

--------------------------------------------------------------------------
(* Both readers see one name                                               *)

Fine(r) == r.error = "ok"

\* A part that is there, read.
LEMMA ReadThere ==
  ASSUME NEW a, NEW flag, NEW max \in Nat, NEW dot \in Seq(Nat), NEW r \in Reading,
         a.bytes \in Seq(Nat), flag \in a.flags, Fine(ReadPart(a, flag, max, dot, r))
  PROVE  /\ Fine(ReadString(a.bytes, r.next, max))
         /\ ReadPart(a, flag, max, dot, r).next = ReadString(a.bytes, r.next, max).next
         /\ ReadPart(a, flag, max, dot, r).name
              = r.name \o dot \o ReadString(a.bytes, r.next, max).chars
<1>1. r.error = "ok"
  BY DEF ReadPart, Fine
<1> DEFINE s == ReadString(a.bytes, r.next, max)
           t == ReadPart(a, flag, max, dot, r)
<1>2. t = IF s.error # "ok" THEN [r EXCEPT !.error = s.error]
          ELSE [error |-> "ok", next |-> s.next, name |-> r.name \o dot \o s.chars]
  BY <1>1 DEF ReadPart
<1>3. t.error = "ok"
  BY DEF Fine
<1> HIDE DEF s, t
<1>4. s.error = "ok"
  <2> SUFFICES ASSUME s.error # "ok" PROVE FALSE
    OBVIOUS
  <2>1. t = [r EXCEPT !.error = s.error]
    BY <1>2
  <2>2. t.error = s.error
    BY <2>1 DEF Reading
  <2> QED BY <1>3, <2>2
<1>5. t = [error |-> "ok", next |-> s.next, name |-> r.name \o dot \o s.chars]
  BY <1>2, <1>4
<1>6. t.next = s.next /\ t.name = r.name \o dot \o s.chars
  BY <1>5
<1> QED BY <1>4, <1>6 DEF s, t, Fine

LEMMA StringsThere ==
  ASSUME NEW F, "name" \in F
  PROVE  Cardinality(F \cap {"name", "ext"}) = IF "ext" \in F THEN 2 ELSE 1
<1>1. IsFiniteSet({"name"}) /\ Cardinality({"name"}) = 1
  BY FS_Singleton
<1>2. "ext" \notin {"name"}
  OBVIOUS
<1>3. Cardinality({"name"} \cup {"ext"}) = 2
  <2>1. Cardinality({"name"} \cup {"ext"})
          = IF "ext" \in {"name"} THEN Cardinality({"name"}) ELSE Cardinality({"name"}) + 1
    BY <1>1, FS_AddElement, Zenon
  <2> QED BY <1>1, <1>2, <2>1
<1>4. F \cap {"name", "ext"} = IF "ext" \in F THEN {"name"} \cup {"ext"} ELSE {"name"}
  OBVIOUS
<1> QED BY <1>1, <1>3, <1>4

LEMMA NamesSame ==
  ASSUME NEW a, a.bytes \in Seq(Nat), "unknown2" \notin a.flags, Headers(a).error = "ok",
         GetName(a) # None
  PROVE  \/ Headers(a).name = GetName(a)
         \/ Cardinality(Nuls(a)) < Cardinality(a.flags \cap {"name", "ext"})
<1> DEFINE b    == a.bytes
           p    == NameOffset(a)
           name == Chars(b, p)
           ext  == Chars(b, p + Len(name) + 1)
           s    == ReadString(b, p, NameLen + 1)
<1>0. /\ p \in Nat /\ NameLen + 1 \in Nat /\ ExtLen + 1 \in Nat /\ Len(b) \in Nat
      /\ <<>> \in Seq(Nat) /\ <<Dot>> \in Seq(Nat)
  <2>1. p \in Nat
    BY DEF NameOffset
  <2>2. Len(b) \in Nat
    BY LenProperties
  <2> QED BY <2>1, <2>2, Lengths DEF Dot
<1>1. "name" \in a.flags
  BY DEF GetName
<1>2. GetName(a) = IF "ext" \in a.flags THEN name \o <<Dot>> \o ext ELSE name
  BY DEF GetName
<1>3. Nuls(a) = {q \in p + 1 .. Len(b) : b[q] = Nul}
  BY DEF Nuls
<1>4. Extended(a).error = "ok" /\ Headers(a).name = Extended(a).name
  BY HeadersAre
<1>5. AtNames(a) \in Reading /\ Named(a) \in Reading /\ Extended(a) \in Reading
  BY ReadingNames
<1>6. Named(a).error = "ok"
  BY <1>4 DEF Extended, ReadPart
<1>7. s.error = "ok" /\ Named(a).next = s.next /\ Named(a).name = s.chars /\ s.chars \in Seq(Nat)
        /\ s.next \in Nat
  <2>1. AtNames(a).next = p /\ AtNames(a).name = <<>>
    BY DEF AtNames
  <2>2. Fine(ReadPart(a, "name", NameLen + 1, <<>>, AtNames(a)))
    BY <1>6 DEF Named, Fine
  <2>3. /\ Fine(ReadString(b, p, NameLen + 1))
        /\ Named(a).next = ReadString(b, p, NameLen + 1).next
        /\ Named(a).name = <<>> \o <<>> \o ReadString(b, p, NameLen + 1).chars
    <3> HIDE DEF p
    <3>1. /\ Fine(ReadString(b, AtNames(a).next, NameLen + 1))
          /\ ReadPart(a, "name", NameLen + 1, <<>>, AtNames(a)).next
               = ReadString(b, AtNames(a).next, NameLen + 1).next
          /\ ReadPart(a, "name", NameLen + 1, <<>>, AtNames(a)).name
               = AtNames(a).name \o <<>> \o ReadString(b, AtNames(a).next, NameLen + 1).chars
      <4> DEFINE f == "name"
                 m == NameLen + 1
                 d == <<>>
                 r == AtNames(a)
      <4>1. a.bytes \in Seq(Nat) /\ f \in a.flags /\ m \in Nat /\ d \in Seq(Nat) /\ r \in Reading
        BY <1>0, <1>1, <1>5
      <4>2. Fine(ReadPart(a, f, m, d, r))
        BY <2>2
      <4> HIDE DEF f, m, d, r
      <4>3. /\ Fine(ReadString(a.bytes, r.next, m))
            /\ ReadPart(a, f, m, d, r).next = ReadString(a.bytes, r.next, m).next
            /\ ReadPart(a, f, m, d, r).name = r.name \o d \o ReadString(a.bytes, r.next, m).chars
        BY ONLY <4>1, <4>2, ReadThere, ZenonT(60)
      <4> QED BY <4>3 DEF f, m, d, r
    <3> QED BY <2>1, <3>1 DEF Named
  <2>4. s.chars \in Seq(Nat) /\ s.next \in Nat
    BY <1>0, <2>3, StringAgrees DEF Fine
  <2>5. <<>> \o <<>> \o s.chars = s.chars
    BY <1>0, <2>4, ConcatEmptySeq
  <2> QED BY <2>3, <2>4, <2>5 DEF Fine
<1>8. \/ /\ s.chars = name /\ s.next = p + Len(name) + 1
         /\ s.next \in p + 1 .. Len(b) /\ b[s.next] = Nul
         /\ \A q \in p + 1 .. Len(b) : b[q] = Nul => s.next <= q
      \/ \A q \in p + 1 .. Len(b) : b[q] # Nul
  BY <1>0, <1>7, StringAgrees
<1> HIDE DEF b, p, name, ext, s
<1>9. CASE \A q \in p + 1 .. Len(b) : b[q] # Nul
  <2>1. Nuls(a) = {}
    BY <1>3, <1>9
  <2>2. Cardinality(Nuls(a)) = 0
    BY <2>1, FS_EmptySet
  <2>3. Cardinality(a.flags \cap {"name", "ext"}) \in {1, 2}
    BY <1>1, StringsThere
  <2> QED BY <2>2, <2>3
<1>10. CASE /\ s.chars = name /\ s.next = p + Len(name) + 1
            /\ s.next \in p + 1 .. Len(b) /\ b[s.next] = Nul
            /\ \A q \in p + 1 .. Len(b) : b[q] = Nul => s.next <= q
  <2>1. CASE "ext" \notin a.flags
    <3>1. Extended(a) = Named(a)
      BY <2>1 DEF Extended, ReadPart
    <3> QED BY <1>2, <1>4, <1>7, <1>10, <2>1, <3>1
  <2>2. CASE "ext" \in a.flags
    <3> DEFINE t == ReadString(b, s.next, ExtLen + 1)
    <3>1. t.error = "ok" /\ Extended(a).name = name \o <<Dot>> \o t.chars
      <4>1. Fine(ReadPart(a, "ext", ExtLen + 1, <<Dot>>, Named(a)))
        BY <1>4 DEF Extended, Fine
      <4>2. /\ Fine(ReadString(a.bytes, Named(a).next, ExtLen + 1))
            /\ ReadPart(a, "ext", ExtLen + 1, <<Dot>>, Named(a)).name
                 = Named(a).name \o <<Dot>> \o ReadString(a.bytes, Named(a).next, ExtLen + 1).chars
        <5> DEFINE f == "ext"
                   m == ExtLen + 1
                   d == <<Dot>>
                   r == Named(a)
        <5>1. a.bytes \in Seq(Nat) /\ f \in a.flags /\ m \in Nat /\ d \in Seq(Nat) /\ r \in Reading
          BY <1>0, <1>5, <2>2
        <5>2. Fine(ReadPart(a, f, m, d, r))
          BY <4>1
        <5> HIDE DEF f, m, d, r
        <5>3. /\ Fine(ReadString(a.bytes, r.next, m))
              /\ ReadPart(a, f, m, d, r).name = r.name \o d \o ReadString(a.bytes, r.next, m).chars
          BY ONLY <5>1, <5>2, ReadThere, ZenonT(60)
        <5> QED BY <5>3 DEF f, m, d, r
      <4> QED BY <1>7, <1>10, <4>2 DEF Extended, b, Fine
    <3>2. \/ t.chars = Chars(b, s.next)
          \/ \A q \in s.next + 1 .. Len(b) : b[q] # Nul
      <4>1. b \in Seq(Nat)
        BY DEF b
      <4> QED BY <1>0, <1>7, <3>1, <4>1, StringAgrees
    <3> HIDE DEF t
    <3>3. CASE t.chars = Chars(b, s.next)
      BY <1>2, <1>4, <1>10, <2>2, <3>1, <3>3 DEF ext
    <3>4. CASE \A q \in s.next + 1 .. Len(b) : b[q] # Nul
      <4>1. Nuls(a) = {s.next}
        <5>1. \A q \in Nuls(a) : q = s.next
          <6> TAKE q \in Nuls(a)
          <6>1. q \in p + 1 .. Len(b) /\ b[q] = Nul /\ s.next <= q
            BY <1>3, <1>10
          <6>2. ~(q \in s.next + 1 .. Len(b))
            BY <3>4, <6>1
          <6> QED BY <1>0, <1>7, <6>1, <6>2
        <5>2. s.next \in Nuls(a)
          BY <1>3, <1>10
        <5> QED BY <5>1, <5>2
      <4>2. Cardinality(Nuls(a)) = 1
        BY <4>1, FS_Singleton
      <4>3. Cardinality(a.flags \cap {"name", "ext"}) = 2
        BY <1>1, <2>2, StringsThere
      <4> QED BY <4>2, <4>3
    <3> QED BY <3>2, <3>3, <3>4
  <2> QED BY <2>1, <2>2
<1> QED BY <1>8, <1>9, <1>10

--------------------------------------------------------------------------
(* What is packed                                                          *)

Stored(s) == IF s = <<>> THEN <<>> ELSE Append(s, Nul)
LengthOf(d) == <<Len(d) % 256, (Len(d) \div 256) % 256>>
PackHead(p, d) == LengthOf(d) \o Stored(StoredName(p)) \o Stored(StoredExt(p))
NoNul == Nat \ {Nul}

LEMMA NamesStored ==
  ASSUME NEW p \in Seq(NoNul)
  PROVE  /\ StoredName(p) \in Seq(NoNul) /\ StoredExt(p) \in Seq(NoNul)
         /\ Len(StoredName(p)) <= NameLen /\ Len(StoredExt(p)) <= ExtLen
<1>0. Len(p) \in Nat /\ NameLen \in Nat /\ ExtLen \in Nat /\ ExtLen <= NameLen /\ DOMAIN p = 1 .. Len(p)
  BY Lengths, LenProperties
<1>1. CASE Dots(p) = {}
  <2>1. StoredName(p) = <<>> /\ StoredExt(p) = <<>>
    BY <1>1 DEF StoredName, StoredExt
  <2>2. <<>> \in Seq(NoNul) /\ Len(<<>>) = 0
    BY EmptySeq
  <2> QED BY <1>0, <2>1, <2>2
<1>2. CASE Dots(p) # {}
  <2> DEFINE m == Max(Dots(p))
             k == IF m - 1 > NameLen THEN ExtLen ELSE m - 1
             e == Min({Len(p), m + ExtLen})
  <2>1. m \in Dots(p)
    <3>1. Dots(p) \subseteq 0 .. Len(p)
      BY <1>0 DEF Dots
    <3> QED BY <1>0, <1>2, <3>1, MaxIs
  <2>2. m \in 1 .. Len(p)
    BY <1>0, <2>1 DEF Dots
  <2> HIDE DEF m
  <2>3. k \in Nat /\ k <= NameLen /\ k <= Len(p)
    BY <1>0, <2>2
  <2>4. e \in Nat /\ e <= m + ExtLen /\ e <= Len(p)
    <3>1. m + ExtLen \in Int /\ Len(p) \in Int
      BY <1>0, <2>2
    <3>2. e = IF Len(p) <= m + ExtLen THEN Len(p) ELSE m + ExtLen
      BY <3>1, MinOfTwo
    <3> QED BY <1>0, <2>2, <3>2
  <2>5. StoredName(p) = SubSeq(p, 1, k) /\ StoredExt(p) = SubSeq(p, m + 1, e)
    BY <1>2 DEF StoredName, StoredExt, m
  <2> HIDE DEF k, e
  <2>6. SubSeq(p, 1, k) \in Seq(NoNul) /\ Len(SubSeq(p, 1, k)) <= NameLen
    <3>1. SubSeq(p, 1, k) \in Seq(NoNul) /\ Len(SubSeq(p, 1, k)) = IF 1 <= k THEN k - 1 + 1 ELSE 0
      BY <2>3, Piece
    <3> QED BY <1>0, <2>3, <3>1
  <2>7. SubSeq(p, m + 1, e) \in Seq(NoNul) /\ Len(SubSeq(p, m + 1, e)) <= ExtLen
    <3>1. m + 1 \in Nat \ {0}
      BY <2>2
    <3>2. SubSeq(p, m + 1, e) \in Seq(NoNul)
            /\ Len(SubSeq(p, m + 1, e)) = IF m + 1 <= e THEN e - (m + 1) + 1 ELSE 0
      BY <2>4, <3>1, Piece
    <3> QED BY <1>0, <2>2, <2>4, <3>2
  <2> QED BY <2>5, <2>6, <2>7
<1> QED BY <1>1, <1>2

\* A string with the Nul behind it.
LEMMA StoredIs ==
  ASSUME NEW s \in Seq(NoNul)
  PROVE  /\ Stored(s) \in Seq(Nat) /\ Len(s) \in Nat
         /\ s = <<>> => Len(s) = 0 /\ Len(Stored(s)) = 0
         /\ s # <<>> =>
              /\ Len(s) >= 1 /\ Len(Stored(s)) = Len(s) + 1
              /\ Stored(s)[Len(s) + 1] = Nul
              /\ \A j \in 1 .. Len(s) : Stored(s)[j] # Nul
<1>0. NoNul \subseteq Nat /\ Nul \in Nat
  BY DEF NoNul, Nul
<1>1. s \in Seq(Nat) /\ Len(s) \in Nat
  BY <1>0, SeqMonotonic, LenProperties
<1>2. CASE s = <<>>
  BY <1>1, <1>2, EmptySeq DEF Stored
<1>3. CASE s # <<>>
  <2>1. Stored(s) = Append(s, Nul)
    BY <1>3 DEF Stored
  <2>2. /\ Append(s, Nul) \in Seq(Nat) /\ Len(Append(s, Nul)) = Len(s) + 1
        /\ \A j \in 1 .. Len(s) : Append(s, Nul)[j] = s[j]
        /\ Append(s, Nul)[Len(s) + 1] = Nul
    BY <1>0, <1>1, AppendProperties
  <2>3. \A j \in 1 .. Len(s) : s[j] \in NoNul
    BY ElementOfSeq
  <2>4. \A j \in 1 .. Len(s) : Stored(s)[j] # Nul
    BY <2>1, <2>2, <2>3 DEF NoNul
  <2>5. Len(s) >= 1
    BY <1>1, <1>3, EmptySeq
  <2> QED BY <1>1, <1>3, <2>1, <2>2, <2>4, <2>5
<1> QED BY <1>2, <1>3

LEMMA HeadTyped ==
  ASSUME NEW p \in Seq(NoNul), NEW d \in Seq(Nat)
  PROVE  PackHead(p, d) \in Seq(Nat) /\ LengthOf(d) \in Seq(Nat) /\ Len(LengthOf(d)) = 2
<1>1. Len(d) \in Nat
  BY LenProperties
<1>2. Len(d) % 256 \in Nat /\ (Len(d) \div 256) % 256 \in Nat
  BY <1>1
<1>3. LengthOf(d) \in Seq(Nat) /\ Len(LengthOf(d)) = 2
  BY <1>2 DEF LengthOf
<1>4. Stored(StoredName(p)) \in Seq(Nat) /\ Stored(StoredExt(p)) \in Seq(Nat)
  BY NamesStored, StoredIs
<1>5. LengthOf(d) \o Stored(StoredName(p)) \in Seq(Nat)
  BY <1>3, <1>4, ConcatProperties
<1>6. PackHead(p, d) \in Seq(Nat)
  BY <1>4, <1>5, ConcatProperties DEF PackHead
<1> QED BY <1>3, <1>6

LEMMA PackedIs ==
  ASSUME NEW p, NEW d
  PROVE  /\ Packed(p, d).bytes = PackHead(p, d) \o d /\ Packed(p, d).offset = Len(PackHead(p, d))
         /\ Packed(p, d).method = "none"
         /\ Packed(p, d).flags = {"length"} \cup (IF StoredName(p) # <<>> THEN {"name"} ELSE {})
                                            \cup (IF StoredExt(p) # <<>> THEN {"ext"} ELSE {})
BY DEF Packed, PackHead, Stored, LengthOf

\* Behind the headers there is the data.
LEMMA DataBehind ==
  ASSUME NEW h \in Seq(Nat), NEW d \in Seq(Nat)
  PROVE  Drop(h \o d, Len(h)) = d
<1>0. Len(h) \in Nat /\ Len(d) \in Nat
  BY LenProperties
<1>1. /\ h \o d \in Seq(Nat) /\ Len(h \o d) = Len(h) + Len(d)
      /\ \A i \in 1 .. Len(h) + Len(d) : (h \o d)[i] = IF i <= Len(h) THEN h[i] ELSE d[i - Len(h)]
  BY ConcatProperties
<1> DEFINE b == h \o d
           m == Len(h)
           n == Len(d)
           x == SubSeq(b, m + 1, m + n)
<1>2. x = Drop(b, m)
  BY <1>1 DEF Drop
<1>3. b \in Seq(Nat) /\ Len(b) = m + n /\ m \in Nat /\ n \in Nat
        /\ \A i \in 1 .. m + n : b[i] = IF i <= m THEN h[i] ELSE d[i - m]
  BY <1>0, <1>1
<1> HIDE DEF b, m, n
<1>4. /\ x \in Seq(Nat) /\ Len(x) = IF m + 1 <= m + n THEN (m + n) - (m + 1) + 1 ELSE 0
      /\ \A k \in 1 .. (m + n) - (m + 1) + 1 : x[k] = b[(m + 1) + k - 1]
  <2>1. m + 1 \in Nat \ {0} /\ m + n \in Nat /\ m + n <= Len(b)
    BY <1>3
  <2> QED BY <1>3, <2>1, Piece, SMTT(60)
<1> HIDE DEF x
<1>5. Len(x) = n
  BY <1>3, <1>4
<1>6. \A k \in 1 .. n : x[k] = d[k]
  <2> TAKE k \in 1 .. n
  <2>1. x[k] = b[(m + 1) + k - 1] /\ (m + 1) + k - 1 = m + k
    BY <1>3, <1>4
  <2>2. b[m + k] = d[(m + k) - m] /\ (m + k) - m = k
    BY <1>3
  <2> QED BY <2>1, <2>2
<1>7. x = d
  <2>1. Len(x) = Len(d) /\ \A k \in 1 .. Len(x) : x[k] = d[k]
    BY <1>5, <1>6 DEF n
  <2> QED BY ONLY <1>4, <2>1, d \in Seq(Nat), SeqEqual
<1> QED BY <1>2, <1>7 DEF b, m

\* What is packed is found again behind the headers.
LEMMA PackedData ==
  ASSUME NEW p \in Seq(NoNul), NEW d \in Seq(Nat)
  PROVE  Packed(p, d).bytes \in Seq(Nat) /\ Drop(Packed(p, d).bytes, Packed(p, d).offset) = d
<1>1. PackHead(p, d) \in Seq(Nat)
  BY HeadTyped
<1>2. PackHead(p, d) \o d \in Seq(Nat) /\ Drop(PackHead(p, d) \o d, Len(PackHead(p, d))) = d
  BY <1>1, DataBehind, ConcatProperties
<1> QED BY <1>2, PackedIs

--------------------------------------------------------------------------
(* The headers of what is packed                                           *)

\* Headers of which only the length and the strings are there.
LEMMA HeadersPlain ==
  ASSUME NEW a, "length" \in a.flags, "unknown1" \notin a.flags,
         "unknown2" \notin a.flags, "extra" \notin a.flags, 4 <= Len(a.bytes)
  PROVE  Headers(a) = Extended(a) /\ NameOffset(a) = 4
<1> DEFINE r0 == [error |-> "ok", next |-> 0, name |-> <<>>]
           r1 == Skip(a, "length", 4, r0)
<1>1. NameOffset(a) = 4
  BY DEF NameOffset
<1>2. r1 = AtNames(a)
  <2>1. ~(0 + 4 > Len(a.bytes))
    OBVIOUS
  <2>2. r1 = [r0 EXCEPT !.next = 0 + 4]
    BY <2>1, ZenonT(60) DEF Skip
  <2> QED BY <1>1, <2>2 DEF AtNames
<1> HIDE DEF r1
<1>3. Skip(a, "unknown2", 2, Skip(a, "unknown1", 2, r1)) = r1
  BY SMTT(60) DEF Skip
<1>4. Skip(a, "extra", 2, Extended(a)) = Extended(a)
  BY SMTT(60) DEF Skip
<1>5. Headers(a) = Extended(a)
  <2>1. Unknown1(a) = Skip(a, "unknown1", 2, r1)
    BY DEF Unknown1, r1
  <2>2. Unknown2(a) = r1
    BY <1>3, <2>1 DEF Unknown2
  <2> QED BY <1>2, <1>4, <2>2 DEF Headers, Extended, Named
<1> QED BY <1>1, <1>5

\* A part whose string is taken is taken.
LEMMA PartOk ==
  ASSUME NEW a, NEW flag, NEW max, NEW dot, NEW r, Fine(r),
         flag \in a.flags => Fine(ReadString(a.bytes, r.next, max))
  PROVE  /\ Fine(ReadPart(a, flag, max, dot, r))
         /\ flag \in a.flags =>
              ReadPart(a, flag, max, dot, r).next = ReadString(a.bytes, r.next, max).next
         /\ flag \notin a.flags => ReadPart(a, flag, max, dot, r) = r
<1> DEFINE s == ReadString(a.bytes, r.next, max)
<1>1. r.error = "ok" /\ (flag \in a.flags => s.error = "ok")
  BY DEF Fine
<1>2. ReadPart(a, flag, max, dot, r)
        = IF flag \notin a.flags THEN r
          ELSE [error |-> "ok", next |-> s.next, name |-> r.name \o dot \o s.chars]
  BY <1>1 DEF ReadPart
<1> HIDE DEF s
<1>3. CASE flag \notin a.flags
  <2>1. ReadPart(a, flag, max, dot, r) = r
    BY <1>2, <1>3
  <2> QED BY <1>3, <2>1
<1>4. CASE flag \in a.flags
  <2>1. ReadPart(a, flag, max, dot, r)
          = [error |-> "ok", next |-> s.next, name |-> r.name \o dot \o s.chars]
    BY <1>2, <1>4
  <2>2. ReadPart(a, flag, max, dot, r).error = "ok" /\ ReadPart(a, flag, max, dot, r).next = s.next
    BY <2>1
  <2> QED BY <1>4, <2>2 DEF s, Fine
<1> QED BY <1>3, <1>4

\* A part of a concatenation.
LEMMA InConcat ==
  ASSUME NEW s \in Seq(Nat), NEW t \in Seq(Nat)
  PROVE  /\ s \o t \in Seq(Nat) /\ Len(s) \in Nat /\ Len(t) \in Nat
         /\ Len(s \o t) = Len(s) + Len(t)
         /\ \A i \in 1 .. Len(s) : (s \o t)[i] = s[i]
         /\ \A i \in 1 .. Len(t) : (s \o t)[Len(s) + i] = t[i]
<1>1. Len(s) \in Nat /\ Len(t) \in Nat
  BY LenProperties
<1>2. /\ s \o t \in Seq(Nat) /\ Len(s \o t) = Len(s) + Len(t)
      /\ \A i \in 1 .. Len(s) + Len(t) : (s \o t)[i] = IF i <= Len(s) THEN s[i] ELSE t[i - Len(s)]
  BY ConcatProperties
<1>3. \A i \in 1 .. Len(s) : (s \o t)[i] = s[i]
  BY <1>1, <1>2
<1>4. \A i \in 1 .. Len(t) : (s \o t)[Len(s) + i] = t[i]
  <2> TAKE i \in 1 .. Len(t)
  <2>1. Len(s) + i \in 1 .. Len(s) + Len(t) /\ ~(Len(s) + i <= Len(s)) /\ (Len(s) + i) - Len(s) = i
    BY <1>1
  <2> QED BY <1>2, <2>1
<1> QED BY <1>1, <1>2, <1>3, <1>4

\* Where the strings stand in what is packed.
LEMMA PackedStrings ==
  ASSUME NEW p \in Seq(NoNul), NEW d \in Seq(Nat), StoredName(p) # <<>>
  PROVE  LET b == Packed(p, d).bytes
             n == Len(StoredName(p))
             e == Len(StoredExt(p))
         IN  /\ b \in Seq(Nat) /\ n \in Nat /\ e \in Nat /\ n + 3 <= Len(b) /\ b[n + 3] = Nul
             /\ \A j \in 1 .. n : b[2 + j] # Nul
             /\ StoredExt(p) # <<>> =>
                  /\ e >= 1 /\ n + 3 + e + 1 <= Len(b) /\ b[n + 3 + e + 1] = Nul
                  /\ \A j \in 1 .. e : b[n + 3 + j] # Nul
<1> DEFINE n  == Len(StoredName(p))
           e  == Len(StoredExt(p))
           l  == LengthOf(d)
           s1 == Stored(StoredName(p))
           s2 == Stored(StoredExt(p))
           c1 == l \o s1
           c2 == c1 \o s2
           b  == c2 \o d
<1>1. Packed(p, d).bytes = b
  BY PackedIs DEF PackHead
<1>2. l \in Seq(Nat) /\ Len(l) = 2
  BY HeadTyped
<1>3. /\ s1 \in Seq(Nat) /\ n \in Nat /\ n >= 1 /\ Len(s1) = n + 1 /\ s1[n + 1] = Nul
      /\ \A j \in 1 .. n : s1[j] # Nul
  BY NamesStored, StoredIs
<1>4. /\ s2 \in Seq(Nat) /\ e \in Nat
      /\ StoredExt(p) # <<>> =>
           /\ e >= 1 /\ Len(s2) = e + 1 /\ s2[e + 1] = Nul
           /\ \A j \in 1 .. e : s2[j] # Nul
  BY NamesStored, StoredIs
<1> HIDE DEF l, s1, s2, n, e
<1>5. /\ c1 \in Seq(Nat) /\ Len(c1) = n + 3
      /\ \A i \in 1 .. n + 1 : c1[2 + i] = s1[i]
  <2>1. /\ c1 \in Seq(Nat) /\ Len(c1) = Len(l) + Len(s1)
        /\ \A i \in 1 .. Len(s1) : c1[Len(l) + i] = s1[i]
    BY <1>2, <1>3, InConcat
  <2> HIDE DEF c1
  <2> QED BY <1>2, <1>3, <2>1
<1> HIDE DEF c1
<1>6. /\ c2 \in Seq(Nat) /\ Len(c2) = n + 3 + Len(s2) /\ Len(s2) \in Nat
      /\ \A i \in 1 .. n + 3 : c2[i] = c1[i]
      /\ \A i \in 1 .. Len(s2) : c2[n + 3 + i] = s2[i]
  <2>1. /\ c2 \in Seq(Nat) /\ Len(c2) = Len(c1) + Len(s2) /\ Len(s2) \in Nat
        /\ \A i \in 1 .. Len(c1) : c2[i] = c1[i]
        /\ \A i \in 1 .. Len(s2) : c2[Len(c1) + i] = s2[i]
    BY <1>4, <1>5, InConcat
  <2> HIDE DEF c2
  <2> QED BY <1>3, <1>5, <2>1
<1> HIDE DEF c2
<1>7. /\ b \in Seq(Nat) /\ Len(b) \in Nat /\ Len(b) >= n + 3 + Len(s2)
      /\ \A i \in 1 .. n + 3 + Len(s2) : b[i] = c2[i]
  <2>1. /\ b \in Seq(Nat) /\ Len(b) = Len(c2) + Len(d) /\ Len(d) \in Nat
        /\ \A i \in 1 .. Len(c2) : b[i] = c2[i]
    BY <1>6, InConcat
  <2> HIDE DEF b
  <2> QED BY <1>3, <1>6, <2>1
<1> HIDE DEF b
<1>8. n + 3 <= Len(b)
  BY <1>3, <1>6, <1>7
<1>9. \A j \in 1 .. n + 1 : b[2 + j] = s1[j]
  <2> TAKE j \in 1 .. n + 1
  <2>0. n \in Nat /\ Len(s2) \in Nat
    BY <1>3, <1>6
  <2>1. 2 + j \in 1 .. n + 3 /\ 2 + j \in 1 .. n + 3 + Len(s2)
    BY ONLY <2>0, j \in 1 .. n + 1
  <2> QED BY <1>5, <1>6, <1>7, <2>1
<1>10. b[n + 3] = Nul
  <2>1. n + 1 \in 1 .. n + 1 /\ 2 + (n + 1) = n + 3
    BY <1>3
  <2> QED BY <1>3, <1>9, <2>1
<1>11. \A j \in 1 .. n : b[2 + j] # Nul
  <2> TAKE j \in 1 .. n
  <2>1. j \in 1 .. n + 1
    BY <1>3
  <2> QED BY <1>3, <1>9, <2>1
<1>12. ASSUME StoredExt(p) # <<>>
       PROVE  /\ e >= 1 /\ n + 3 + e + 1 <= Len(b) /\ b[n + 3 + e + 1] = Nul
              /\ \A j \in 1 .. e : b[n + 3 + j] # Nul
  <2>1. e >= 1 /\ Len(s2) = e + 1 /\ s2[e + 1] = Nul /\ \A j \in 1 .. e : s2[j] # Nul
    BY <1>4, <1>12
  <2>2. \A j \in 1 .. e + 1 : b[n + 3 + j] = s2[j]
    <3> TAKE j \in 1 .. e + 1
    <3>1. j \in 1 .. Len(s2) /\ n + 3 + j \in 1 .. n + 3 + Len(s2)
      BY <1>3, <1>4, <2>1
    <3> QED BY <1>6, <1>7, <3>1
  <2>3. n + 3 + e + 1 <= Len(b)
    BY <1>3, <1>4, <1>7, <2>1
  <2>4. b[n + 3 + e + 1] = Nul
    <3>1. e + 1 \in 1 .. e + 1 /\ n + 3 + (e + 1) = n + 3 + e + 1
      BY <1>3, <1>4
    <3> QED BY <2>1, <2>2, <3>1
  <2>5. \A j \in 1 .. e : b[n + 3 + j] # Nul
    <3> TAKE j \in 1 .. e
    <3>1. j \in 1 .. e + 1
      BY <1>4
    <3> QED BY <2>1, <2>2, <3>1
  <2> QED BY <2>1, <2>3, <2>4, <2>5
<1>13. b \in Seq(Nat) /\ n \in Nat /\ e \in Nat
  BY <1>3, <1>4, <1>7
<1> QED BY <1>1, <1>8, <1>10, <1>11, <1>12, <1>13 DEF n, e

\* With three characters of the name there, the two readers lose of it, the
\* headers of what is packed are good.
LEMMA PackedGood ==
  ASSUME NEW p \in Seq(NoNul), NEW d \in Seq(Nat), Len(StoredName(p)) >= 3
  PROVE  Headers(Packed(p, d)).error = "ok"
<1> DEFINE a == Packed(p, d)
           b == a.bytes
           n == Len(StoredName(p))
           e == Len(StoredExt(p))
<1>0. StoredName(p) # <<>> /\ n <= NameLen /\ e <= ExtLen /\ NameLen \in Nat /\ ExtLen \in Nat
  <2>1. Len(<<>>) = 0
    BY EmptySeq
  <2> QED BY <2>1, NamesStored, Lengths
<1>1. /\ b \in Seq(Nat) /\ n \in Nat /\ e \in Nat /\ n + 3 <= Len(b) /\ b[n + 3] = Nul
      /\ \A j \in 1 .. n : b[2 + j] # Nul
      /\ StoredExt(p) # <<>> =>
           /\ e >= 1 /\ n + 3 + e + 1 <= Len(b) /\ b[n + 3 + e + 1] = Nul
           /\ \A j \in 1 .. e : b[n + 3 + j] # Nul
  BY <1>0, PackedStrings
<1>2. /\ "length" \in a.flags /\ "name" \in a.flags /\ "unknown1" \notin a.flags
      /\ "unknown2" \notin a.flags /\ "extra" \notin a.flags
      /\ "ext" \in a.flags <=> StoredExt(p) # <<>>
  BY <1>0, PackedIs, SMTT(60)
<1>3. n >= 3
  OBVIOUS
<1>4. Len(b) \in Nat
  BY <1>1, LenProperties
<1> HIDE DEF a, n, e
<1>5. Headers(a) = Extended(a) /\ NameOffset(a) = 4
  <2>1. 4 <= Len(a.bytes)
    BY <1>1, <1>3, <1>4
  <2> QED BY <1>2, <2>1, HeadersPlain
<1>6. Fine(AtNames(a)) /\ AtNames(a).next = 4
  BY <1>5 DEF AtNames, Fine
<1>7. Fine(ReadString(b, 4, NameLen + 1)) /\ ReadString(b, 4, NameLen + 1).next = n + 3
  <2> HIDE DEF b
  <2> DEFINE k == n - 2
             max == NameLen + 1
  <2>0. b \in Seq(Nat)
    BY <1>1
  <2>1. /\ k \in Nat /\ max \in Nat /\ 4 \in Nat /\ k + 1 <= max /\ 2 <= max
        /\ 4 + 2 <= Len(b) /\ 4 + k + 1 <= Len(b) /\ 4 + k + 1 = n + 3
    BY <1>0, <1>1, <1>3, <1>4
  <2>2. b[4 + k + 1] = Nul
    BY <1>1, <2>1
  <2>3. \A j \in 1 .. k : b[4 + j] # Nul
    <3> TAKE j \in 1 .. k
    <3>1. j + 2 \in 1 .. n /\ 2 + (j + 2) = 4 + j
      BY <1>1, <1>3
    <3> QED BY <1>1, <3>1
  <2> HIDE DEF k, max
  <2>4. ReadString(b, 4, max).error = "ok" /\ ReadString(b, 4, max).next = 4 + k + 1
    BY ONLY <2>0, <2>1, <2>2, <2>3, StringOk, ZenonT(60)
  <2> QED BY <2>1, <2>4 DEF max, Fine
<1>8. Fine(Named(a)) /\ Named(a).next = n + 3
  <2>1. Fine(ReadString(a.bytes, AtNames(a).next, NameLen + 1))
    BY <1>6, <1>7
  <2>2. /\ Fine(ReadPart(a, "name", NameLen + 1, <<>>, AtNames(a)))
        /\ ReadPart(a, "name", NameLen + 1, <<>>, AtNames(a)).next
             = ReadString(a.bytes, AtNames(a).next, NameLen + 1).next
    BY <1>2, <1>6, <2>1, PartOk
  <2> QED BY <1>6, <1>7, <2>2 DEF Named
<1>9. "ext" \in a.flags => Fine(ReadString(b, n + 3, ExtLen + 1))
  <2> SUFFICES ASSUME "ext" \in a.flags PROVE Fine(ReadString(b, n + 3, ExtLen + 1))
    OBVIOUS
  <2> HIDE DEF b
  <2> DEFINE q == n + 3
             max == ExtLen + 1
  <2>0. b \in Seq(Nat) /\ e \in Nat
    BY <1>1
  <2>1. /\ e >= 1 /\ q + e + 1 <= Len(b) /\ b[q + e + 1] = Nul
        /\ \A j \in 1 .. e : b[q + j] # Nul
    BY <1>1, <1>2
  <2>2. q \in Nat /\ max \in Nat /\ e + 1 <= max /\ 2 <= max /\ q + 2 <= Len(b)
    <3>1. n \in Nat /\ e \in Nat /\ e >= 1 /\ q + e + 1 <= Len(b)
      BY <1>1, <2>1
    <3> QED BY <1>0, <1>4, <3>1
  <2> HIDE DEF q, max
  <2>3. ReadString(b, q, max).error = "ok"
    BY ONLY <2>0, <2>1, <2>2, StringOk, ZenonT(60)
  <2> QED BY <2>3 DEF q, max, Fine
<1>10. Fine(Extended(a))
  <2>1. "ext" \in a.flags => Fine(ReadString(a.bytes, Named(a).next, ExtLen + 1))
    BY <1>8, <1>9
  <2> HIDE DEF b
  <2> QED BY <1>8, <2>1, PartOk DEF Extended
<1> QED BY <1>5, <1>10 DEF Fine, a

--------------------------------------------------------------------------
(* Invariance                                                              *)

\* What the decompressors leave alone.
Decompress ==
  /\ pc \in {"szdd", "lzh", "offset", "run", "literal"} /\ pc' \notin {"pack", "open"}
  /\ UNCHANGED <<src, archive, filename>>

LEMMA Steps == ASSUME Next PROVE Pack \/ Open \/ Copy \/ Decompress
<1>1. CASE Pack \/ Open \/ Copy
  BY <1>1
<1>2. CASE SzddEnd
  BY <1>2 DEF SzddEnd, Stop, Decompress
<1>3. CASE SzddFlags
  BY <1>3 DEF SzddFlags, Decompress
<1>4. CASE SzddLiteral
  BY <1>4 DEF SzddLiteral, Decompress
<1>5. CASE SzddMatch
  BY <1>5 DEF SzddMatch, Decompress
<1>6. CASE Types
  BY <1>6 DEF Types, Stop, Decompress
<1>7. CASE Tree
  BY <1>7 DEF Tree, Stop, Decompress
<1>8. CASE InputEnd
  BY <1>8 DEF InputEnd, Codes, Stop, Decompress
<1>9. CASE MatchLen
  BY <1>9 DEF MatchLen, Codes, Read, Stop, Decompress
<1>10. CASE Offset
  BY <1>10 DEF Offset, Read, Stop, Decompress
<1>11. CASE RunLen
  BY <1>11 DEF RunLen, Read, Stop, Decompress
<1>12. CASE Literal
  BY <1>12 DEF Literal, Read, Stop, Decompress
<1> QED BY <1>1, <1>2, <1>3, <1>4, <1>5, <1>6, <1>7, <1>8, <1>9, <1>10, <1>11, <1>12 DEF Next

LEMMA Given ==
  /\ \A s \in Sources : s.name \in Seq(NoNul) /\ s.data \in Seq(Nat)
  /\ \A a \in Archives :
       a.bytes \in Seq(Nat) /\ a.method \in {"none", "xor", "szdd", "lzh", "unknown"}
BY KwajAssumption DEF NoNul

\* The name is the one of the headers of an archive whose method there is.
NamedArchive ==
  /\ NameInv
  /\ pc = "open" => archive.method \in {"none", "xor", "szdd", "lzh", "unknown"}

LEMMA InitNamed == Init => NamedArchive
BY Given DEF Init, NamedArchive, NameInv

LEMMA PackNamed == ASSUME NamedArchive, Pack PROVE NamedArchive'
<1>1. pc = "pack" /\ pc' = "open" /\ archive' = Packed(src.name, src.data) /\ filename' = filename
  BY DEF Pack
<1>2. src.name \in Seq(NoNul) /\ src.data \in Seq(Nat)
  BY <1>1, Given DEF NamedArchive, NameInv
<1>3. archive'.bytes \in Seq(Nat) /\ archive'.method = "none"
  BY <1>1, <1>2, PackedData, PackedIs
<1>4. filename' = None
  BY <1>1 DEF NamedArchive, NameInv
<1> QED BY <1>1, <1>3, <1>4 DEF NamedArchive, NameInv

LEMMA OpenNamed == ASSUME NamedArchive, Open PROVE NamedArchive'
<1> DEFINE h == Headers(archive)
<1>1. pc = "open" /\ archive' = archive
  BY DEF Open
<1>2. archive.bytes \in Seq(Nat) /\ archive.method \in {"none", "xor", "szdd", "lzh", "unknown"}
  BY <1>1 DEF NamedArchive, NameInv
<1>3. pc' \notin {"pack", "open"}
  BY <1>2 DEF Open, Stop
<1>4. \/ filename' = filename
      \/ h.error = "ok" /\ filename' = h.name
  BY DEF Open
<1> HIDE DEF h
<1>5. filename' # None => Headers(archive').error = "ok" /\ filename' = Headers(archive').name
  <2>1. CASE filename' = filename
    <3>1. filename # None => Headers(archive).error = "ok" /\ filename = Headers(archive).name
      BY DEF NamedArchive, NameInv
    <3> QED BY <1>1, <2>1, <3>1
  <2>2. CASE h.error = "ok" /\ filename' = h.name
    BY <1>1, <2>2 DEF h
  <2> QED BY <1>4, <2>1, <2>2
<1> QED BY <1>1, <1>2, <1>3, <1>5 DEF NamedArchive, NameInv

LEMMA QuietNamed ==
  ASSUME NamedArchive, archive' = archive, filename' = filename, src' = src,
         pc \notin {"pack", "open"}, pc' \notin {"pack", "open"}
  PROVE  NamedArchive'
BY DEF NamedArchive, NameInv

LEMMA NextNamed == ASSUME NamedArchive, [Next]_vars PROVE NamedArchive'
<1>1. CASE Pack
  BY <1>1, PackNamed
<1>2. CASE Open
  BY <1>2, OpenNamed
<1>3. CASE Copy
  BY <1>3, QuietNamed DEF Copy, Stop
<1>4. CASE Decompress
  BY <1>4, QuietNamed DEF Decompress
<1>5. CASE UNCHANGED vars
  BY <1>5 DEF vars, NamedArchive, NameInv
<1> QED BY <1>1, <1>2, <1>3, <1>4, <1>5, Steps

LEMMA InvariantNamed == Spec => []NamedArchive
<1>1. Init => NamedArchive
  BY InitNamed
<1>2. NamedArchive /\ [Next]_vars => NamedArchive'
  BY NextNamed
<1> QED BY <1>1, <1>2, PTL DEF Spec

\* kwaj_get_name and libmspack see the same name in an archive, where both
\* see one, each string that is there has its end and the part only one of
\* them skips is missing, whatever the bytes of it (unpacker.c:
\* kwaj_get_name; kwajd.c: kwajd_read_headers).
THEOREM NamesAreOne == Spec => []NamesAgree
<1>1. NamedArchive => NamesAgree
  <2> SUFFICES ASSUME NamedArchive, pc = "done", filename # None,
                      "unknown2" \notin archive.flags, GetName(archive) # None
               PROVE  \/ filename = GetName(archive)
                      \/ Cardinality(Nuls(archive)) < Cardinality(archive.flags \cap {"name", "ext"})
    BY DEF NamesAgree
  <2>1. archive.bytes \in Seq(Nat) /\ Headers(archive).error = "ok" /\ filename = Headers(archive).name
    BY DEF NamedArchive, NameInv
  <2> QED BY <2>1, NamesSame
<1> QED BY <1>1, InvariantNamed, PTL

--------------------------------------------------------------------------
(* A file packed by storing is given back                                  *)

LEMMA InitSrc == Init => SrcInv
BY DEF Init, SrcInv

LEMMA PackSrc == ASSUME SrcInv, Pack PROVE SrcInv'
BY DEF SrcInv, Pack

LEMMA OpenSrc == ASSUME SrcInv, Open PROVE SrcInv'
<1> SUFFICES ASSUME src # None PROVE SrcInv'
  BY DEF Open, SrcInv
<1> DEFINE h == Headers(archive)
           d == src.data
<1>1. /\ src \in Sources /\ pc = "open" /\ rc = "none" /\ archive = Packed(src.name, src.data)
      /\ src' = src /\ archive' = archive
  BY DEF SrcInv, Open
<1>2. d \in Seq(Nat) /\ Drop(archive.bytes, archive.offset) = d /\ archive.method = "none"
  <2>1. src.name \in Seq(NoNul) /\ src.data \in Seq(Nat)
    BY <1>1, Given
  <2> QED BY <1>1, <2>1, PackedData, PackedIs
<1> HIDE DEF h
<1>3. CASE h.error # "ok"
  <2>1. pc' = "done" /\ rc' = Headers(archive').error /\ rc' # "ok"
    BY <1>1, <1>3 DEF Open, Stop, h
  <2> QED BY <1>1, <2>1 DEF SrcInv
<1>4. CASE h.error = "ok"
  <2>1. in' = d /\ pc' = "none" /\ rc' = "none" /\ o' = Fresh(0)
    BY <1>1, <1>2, <1>4 DEF Open, h
  <2>2. o'.out = <<>> /\ o' = [Fresh(0) EXCEPT !.out = o'.out]
    BY <2>1 DEF Fresh
  <2>3. <<>> \o d = d /\ <<>> \in Seq(Nat)
    BY <1>2, ConcatEmptySeq, EmptySeq
  <2> HIDE DEF d
  <2>4. in' \in Seq(Nat) /\ o'.out \in Seq(Nat) /\ o'.out \o in' = src'.data
    BY <1>1, <1>2, <2>1, <2>2, <2>3 DEF d
  <2> QED BY <1>1, <2>1, <2>2, <2>4 DEF SrcInv
<1> QED BY <1>3, <1>4

\* A sequence is its first n and what is behind them.
LEMMA SplitAt ==
  ASSUME NEW s \in Seq(Nat), NEW n \in Nat, n >= 1, n <= Len(s)
  PROVE  /\ SubSeq(s, 1, n) \in Seq(Nat) /\ Drop(s, n) \in Seq(Nat)
         /\ SubSeq(s, 1, n) \o Drop(s, n) = s
<1>1. Len(s) \in Nat
  BY LenProperties
<1>2. SubSeq(s, 1, n) \in Seq(Nat)
  <2>1. 1 \in Nat \ {0}
    OBVIOUS
  <2> QED BY <2>1, Piece
<1>3. SubSeq(s, n + 1, Len(s)) \in Seq(Nat)
  <2>1. n + 1 \in Nat \ {0} /\ Len(s) <= Len(s)
    BY <1>1
  <2> QED BY <1>1, <2>1, Piece
<1>4. SubSeq(s, 1, n) \o SubSeq(s, n + 1, Len(s)) = SubSeq(s, 1, Len(s))
  <2>1. 1 \in 1 .. Len(s) + 1 /\ n \in 1 - 1 .. Len(s) /\ Len(s) \in n .. Len(s)
    BY <1>1
  <2> QED BY <2>1, ConcatAdjacentSubSeq
<1>5. SubSeq(s, 1, Len(s)) = s
  BY SubSeqFull
<1> QED BY <1>2, <1>3, <1>4, <1>5 DEF Drop

LEMMA Associative ==
  ASSUME NEW s \in Seq(Nat), NEW t \in Seq(Nat), NEW u \in Seq(Nat)
  PROVE  (s \o t) \o u = s \o (t \o u)
BY ConcatAssociative, SMTT(60)

LEMMA CopySrc == ASSUME SrcInv, Copy PROVE SrcInv'
<1> SUFFICES ASSUME src # None PROVE SrcInv'
  BY DEF Copy, SrcInv
<1> DEFINE n   == Min({InputSize, Len(in)})
           buf == SubSeq(in, 1, n)
           out == o.out
<1>1. /\ src \in Sources /\ pc = "none" /\ rc = "none" /\ archive = Packed(src.name, src.data)
      /\ in \in Seq(Nat) /\ out \in Seq(Nat) /\ out \o in = src.data
      /\ o = [Fresh(0) EXCEPT !.out = out]
  BY DEF SrcInv, Copy
<1>2. src' = src /\ archive' = archive
  BY DEF Copy
<1>3. Len(in) \in Nat /\ n \in Nat /\ n <= Len(in) /\ (n = 0 => Len(in) = 0)
  <2>1. Len(in) \in Nat /\ InputSize \in Nat \ {0}
    BY <1>1, LenProperties, Lengths
  <2>2. n = IF InputSize <= Len(in) THEN InputSize ELSE Len(in)
    BY <2>1, MinOfTwo
  <2> QED BY <2>1, <2>2
<1>4. CASE n = 0
  <2>1. pc' = "done" /\ rc' = "ok" /\ o' = o
    BY <1>4 DEF Copy, Stop
  <2>2. in = <<>>
    BY <1>1, <1>3, <1>4, EmptySeq
  <2>3. out \o <<>> = out
    BY <1>1, ConcatEmptySeq
  <2>4. o'.out = src'.data
    BY <1>1, <1>2, <2>1, <2>2, <2>3
  <2> HIDE DEF out
  <2> QED BY <1>1, <1>2, <2>1, <2>4 DEF SrcInv
<1>5. CASE n # 0
  <2>1. in' = Drop(in, n) /\ o' = [o EXCEPT !.out = out \o buf] /\ pc' = pc /\ rc' = rc
    BY <1>1, <1>5 DEF Copy
  <2>2. buf \in Seq(Nat) /\ Drop(in, n) \in Seq(Nat) /\ buf \o Drop(in, n) = in
    <3>1. n >= 1
      BY <1>3, <1>5
    <3> HIDE DEF n
    <3> QED BY <1>1, <1>3, <3>1, SplitAt
  <2> HIDE DEF n, buf, out
  <2>3. out \o buf \in Seq(Nat) /\ (out \o buf) \o Drop(in, n) = out \o in
    <3> DEFINE rest == Drop(in, n)
    <3>1. out \in Seq(Nat) /\ buf \in Seq(Nat) /\ rest \in Seq(Nat) /\ buf \o rest = in
      BY <1>1, <2>2
    <3> HIDE DEF rest
    <3>2. out \o buf \in Seq(Nat)
      BY <3>1, ConcatProperties
    <3>3. (out \o buf) \o rest = out \o (buf \o rest)
      BY <3>1, Associative
    <3> QED BY <3>1, <3>2, <3>3 DEF rest
  <2>4. o' = [Fresh(0) EXCEPT !.out = out \o buf]
    BY <1>1, <2>1 DEF Fresh
  <2>5. o'.out = out \o buf
    BY <2>4 DEF Fresh
  <2>6. in' \in Seq(Nat) /\ o'.out \in Seq(Nat) /\ o'.out \o in' = src'.data
    BY <1>1, <1>2, <2>1, <2>2, <2>3, <2>5
  <2>7. o' = [Fresh(0) EXCEPT !.out = o'.out]
    BY <2>4, <2>5
  <2> QED BY <1>1, <1>2, <2>1, <2>6, <2>7 DEF SrcInv
<1> QED BY <1>4, <1>5

LEMMA NextSrc == ASSUME SrcInv, [Next]_vars PROVE SrcInv'
<1>1. CASE Pack
  BY <1>1, PackSrc
<1>2. CASE Open
  BY <1>2, OpenSrc
<1>3. CASE Copy
  BY <1>3, CopySrc
<1>4. CASE Decompress
  BY <1>4 DEF Decompress, SrcInv
<1>5. CASE UNCHANGED vars
  BY <1>5 DEF vars, SrcInv
<1> QED BY <1>1, <1>2, <1>3, <1>4, <1>5, Steps

LEMMA InvariantSrc == Spec => []SrcInv
<1>1. Init => SrcInv
  BY InitSrc
<1>2. SrcInv /\ [Next]_vars => SrcInv'
  BY NextSrc
<1> QED BY <1>1, <1>2, PTL DEF Spec

\* What --kwaj --compress packs, libmspack gives back byte by byte, however
\* small its buffer, and the headers are good whenever the name stored has
\* the two characters the readers lose and one more (unpacker.c: kwaj_pack;
\* kwajd.c: kwajd_read_headers, kwajd_extract).
THEOREM PackedIsSame == Spec => []PackedSame
<1>1. SrcInv => PackedSame
  <2> SUFFICES ASSUME SrcInv, pc = "done", src # None
               PROVE  /\ rc = "ok" => o.out = src.data
                      /\ Len(StoredName(src.name)) >= 3 => rc = "ok"
    BY DEF PackedSame
  <2>1. /\ src \in Sources /\ archive = Packed(src.name, src.data)
        /\ rc = "ok" => o.out = src.data
        /\ rc = "ok" \/ rc = Headers(archive).error
    BY DEF SrcInv
  <2>2. ASSUME Len(StoredName(src.name)) >= 3 PROVE rc = "ok"
    <3>1. src.name \in Seq(NoNul) /\ src.data \in Seq(Nat)
      BY <2>1, Given
    <3>2. Headers(Packed(src.name, src.data)).error = "ok"
      BY <2>2, <3>1, PackedGood
    <3> QED BY <2>1, <3>2
  <2> QED BY <2>1, <2>2
<1> QED BY <1>1, InvariantSrc, PTL
=============================================================================
