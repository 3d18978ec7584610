---------------------------- MODULE SieveProofs ----------------------------
(***************************************************************************)
(* Proofs about Sieve: reading a file a part at a time, whatever the size  *)
(* of a part, finds and patches the places a search through the whole file *)
(* would, and a patch made by makepatch finds its routine and can be taken *)
(* out again.                                                              *)
(***************************************************************************)
EXTENDS Sieve, FiniteSetTheorems, SequenceTheorems, TLAPS

--------------------------------------------------------------------------
(* The least of a set of numbers                                           *)

\* A set of numbers up to n that holds 0 and with every number the next
\* would fit into itself less 0.
LEMMA NatClosed ==
  ASSUME NEW P, NEW n \in Nat, P \subseteq 0 .. n, 0 \in P, \A x \in P : x + 1 \in P
  PROVE  FALSE
<1>1. IsFiniteSet(P)
  <2>1. P \in SUBSET Nat /\ \A x \in P : x <= n
    OBVIOUS
  <2> QED BY <2>1, FS_BoundedSetOfNaturals
<1>2. IsFiniteSet(P \ {0}) /\ Cardinality(P \ {0}) = Cardinality(P) - 1
  BY <1>1, FS_RemoveElement
<1>3. Cardinality(P \ {0}) < Cardinality(P)
  BY <1>1, <1>2, FS_CardinalityType
<1> DEFINE f == [x \in P |-> x + 1]
<1>4. f \in [P -> P \ {0}]
  OBVIOUS
<1>5. \A x \in P : f[x] = x + 1
  OBVIOUS
<1> HIDE DEF f
<1>6. \E x, y \in P : x # y /\ f[x] = f[y]
  BY <1>1, <1>2, <1>3, <1>4, FS_PigeonHole
<1> QED BY <1>5, <1>6

LEMMA LeastNat ==
  ASSUME NEW S, S \subseteq Nat, S # {}
  PROVE  \E x \in S : \A y \in S : x <= y
<1> SUFFICES ASSUME \A x \in S : \E y \in S : y < x
             PROVE  FALSE
  OBVIOUS
<1> PICK n \in S : TRUE
  OBVIOUS
<1> DEFINE P == {x \in 0 .. n : \A y \in S : x < y}
<1>1. P \subseteq 0 .. n /\ n \in Nat
  OBVIOUS
<1>2. 0 \in P
  OBVIOUS
<1>3. \A x \in P : x + 1 \in P
  OBVIOUS
<1> HIDE DEF P
<1> QED BY <1>1, <1>2, <1>3, NatClosed

LEMMA MinIs ==
  ASSUME NEW S, S \subseteq Nat, S # {}
  PROVE  Min(S) \in S /\ \A y \in S : Min(S) <= y
BY LeastNat DEF Min

LEMMA MinOfTwo ==
  ASSUME NEW a \in Int, NEW b \in Int
  PROVE  /\ Min({a, b}) = IF a <= b THEN a ELSE b
         /\ Max({a, b}) = IF a >= b THEN a ELSE b
<1>1. \E x \in {a, b} : \A y \in {a, b} : x <= y
  OBVIOUS
<1>2. \E x \in {a, b} : \A y \in {a, b} : x >= y
  OBVIOUS
<1> QED BY <1>1, <1>2 DEF Min, Max

--------------------------------------------------------------------------
(* The places taken                                                        *)

LEMMA Sizes ==
  /\ patch_size \in Nat /\ patch_size > 0
  /\ patch_ofset \in Nat
  /\ BPATCHER_FILE_BUF \in Nat /\ patch_size - 1 <= BPATCHER_FILE_BUF
  /\ buf_size \in Nat /\ buf_size = BPATCHER_FILE_BUF + (patch_size - 1)
  /\ MaxRuns \in Nat
  /\ Files \subseteq Seq(Byte)
BY SieveAssumption DEF buf_size

\* The places of T are those taken up to n.
TakenUpTo(T, hits, n) ==
  /\ \A q \in T : q < n
  /\ \A p \in hits : p < n => (p \in T <=> \A q \in T : q < p => q + patch_size <= p)

LEMMA TakenExists ==
  ASSUME NEW hits, hits \subseteq Nat, NEW n \in Nat
  PROVE  \E T \in SUBSET hits : TakenUpTo(T, hits, n)
<1> DEFINE Fails == {m \in Nat : ~\E T \in SUBSET hits : TakenUpTo(T, hits, m)}
<1> SUFFICES ASSUME Fails # {} PROVE FALSE
  OBVIOUS
<1>1. PICK m \in Fails : \A k \in Fails : m <= k
  <2>1. Fails \subseteq Nat
    OBVIOUS
  <2> HIDE DEF Fails
  <2> QED BY <2>1, LeastNat
<1>2. m \in Nat /\ ~\E T \in SUBSET hits : TakenUpTo(T, hits, m)
  OBVIOUS
<1>3. CASE m = 0
  <2>1. TakenUpTo({}, hits, 0)
    BY DEF TakenUpTo
  <2> QED BY <1>2, <1>3, <2>1
<1>4. CASE m # 0
  <2>1. m - 1 \in Nat /\ m - 1 \notin Fails
    BY <1>1, <1>2, <1>4
  <2>2. PICK S \in SUBSET hits : TakenUpTo(S, hits, m - 1)
    BY <2>1
  <2>3. CASE m - 1 \in hits /\ \A q \in S : q + patch_size <= m - 1
    <3>1. TakenUpTo(S \cup {m - 1}, hits, m)
      BY <1>2, <2>1, <2>2, <2>3, Sizes DEF TakenUpTo
    <3> QED BY <1>2, <2>3, <3>1
  <2>4. CASE ~(m - 1 \in hits /\ \A q \in S : q + patch_size <= m - 1)
    <3>1. TakenUpTo(S, hits, m)
      BY <1>2, <2>1, <2>2, <2>4, Sizes DEF TakenUpTo
    <3> QED BY <1>2, <3>1
  <2> QED BY <2>3, <2>4
<1> QED BY <1>3, <1>4

\* A place is taken unless one before it that is taken reaches into it.
LEMMA TakenIs ==
  ASSUME NEW f \in Seq(Byte), NEW needle
  PROVE  /\ Places(f, needle) \subseteq 0 .. Len(f) - patch_size
         /\ Taken(f, needle) \subseteq Places(f, needle)
         /\ \A p \in Places(f, needle) :
              p \in Taken(f, needle) <=>
                \A q \in Taken(f, needle) : q < p => q + patch_size <= p
<1> DEFINE hits == Places(f, needle)
<1>1. hits \subseteq 0 .. Len(f) - patch_size
  BY DEF Places, search_sieve
<1>2. Len(f) \in Nat /\ hits \subseteq Nat /\ \A p \in hits : p < Len(f)
  BY <1>1, Sizes
<1> HIDE DEF hits
<1>3. PICK T \in SUBSET hits : TakenUpTo(T, hits, Len(f))
  BY <1>2, TakenExists
<1>4. \A p \in hits : p \in T <=> \A q \in T : q < p => q + patch_size <= p
  BY <1>2, <1>3 DEF TakenUpTo
<1> QED BY <1>1, <1>4 DEF hits, Taken

--------------------------------------------------------------------------
(* The search through a file                                               *)

Needle == Data(sought)
Orig   == Data("orig")

Typed ==
  /\ made \in Images
  /\ file \in Seq(Byte)
  /\ copy \in Seq(Byte)
  /\ reverse \in BOOLEAN
  /\ dry \in BOOLEAN
  /\ pc \in {"make", "unbuilt", "idle", "search", "hit", "done"}
  /\ sought \in {"orig", "patch"}
  /\ at \in Nat
  /\ offset \in Nat
  /\ eof \in BOOLEAN
  /\ hit \in Int
  /\ applied \in BOOLEAN
  /\ exists \in BOOLEAN
  /\ runs \in Nat
  /\ pc # "make" => cp = MadeFrom(made)

\* No place at or behind the start of the search.
NoneLeft == \A p \in Places(file, Needle) : p < at

\* The bytes read so far: none of them begins a place, the buffer holds the
\* last of them.
Reading ==
  /\ buf \in [1 .. buf_size -> Byte]
  /\ at + offset <= Len(file)
  /\ \A p \in Places(file, Needle) : at <= p => at + offset < p + patch_size
  /\ offset # 0 =>
       /\ buf_size <= offset
       /\ \A j \in 1 .. buf_size : buf[j] = file[at + offset - buf_size + j]

\* A hit is the next place, or past the end of a file without one.
Hit ==
  /\ at <= hit
  /\ \A p \in Places(file, Needle) : at <= p => hit <= p
  /\ IF Stale THEN NoneLeft ELSE hit \in Places(file, Needle)

\* The file with the places before n patched.
PatchedUpTo(n) == PatchedAt({p \in Taken(file, Orig) : p < n})

\* What patch_selected has done so far.
SoFar ==
  /\ at <= Len(file)
  /\ \A p \in Taken(file, Orig) : p < at => p + patch_size <= at
  /\ copy = IF dry THEN file ELSE PatchedUpTo(at)
  /\ dry => at = 0 /\ ~applied
  /\ applied <=> (\E p \in Taken(file, Orig) : p < at) \/ (Stale /\ pc = "search")
  /\ ~exists
  /\ status = "read" => Stale /\ pc = "search"
  /\ sought = "patch" => at = 0 /\ Places(file, Orig) = {} /\ (Stale => pc = "hit")

SieveInv ==
  /\ Typed
  /\ pc = "search" => IF eof THEN NoneLeft ELSE Reading /\ ~Stale
  /\ pc = "hit" => Hit
  /\ pc \in {"search", "hit"} => SoFar
  /\ PatchedAsWhole

\* makepatch writes data of one length and sieves over it.
LEMMA MadeIs ==
  ASSUME Typed, pc # "make"
  PROVE  /\ cp.check \subseteq Window /\ cp.modif \subseteq Window
         /\ cp.orig \in [Window -> Byte] /\ cp.patch \in [Window -> Byte]
         /\ \A k \in {"orig", "patch"} : Data(k) \in [Window -> Byte]
<1>1. cp = MadeFrom(made) /\ made \in Images
  BY DEF Typed
<1>2. ASSUME NEW k \in {"original", "patched"}
      PROVE  Part(made[k]) \in [Window -> Byte]
  <2>1. made[k] \in Seq(Byte) /\ Len(made[k]) >= patch_ofset + patch_size
    BY <1>1, SieveAssumption
  <2>2. \A j \in Window : patch_ofset + j + 1 \in 1 .. Len(made[k])
    BY <2>1, Sizes DEF Window
  <2> QED BY <2>1, <2>2 DEF Part
<1>3. cp.check \subseteq Window /\ cp.modif \subseteq Window
  BY <1>1 DEF MadeFrom, CheckBits, Cut
<1>4. cp.orig \in [Window -> Byte] /\ cp.patch \in [Window -> Byte]
  BY <1>1, <1>2 DEF MadeFrom
<1> QED BY <1>3, <1>4 DEF Data

\* A place, said of a file.
LEMMA PlacesIs ==
  ASSUME NEW f \in Seq(Byte), NEW needle, NEW p
  PROVE  p \in Places(f, needle) <=>
           /\ p \in Nat /\ p + patch_size <= Len(f)
           /\ \A k \in cp.check : f[p + k + 1] = needle[k]
<1>1. Len(f) \in Nat
  OBVIOUS
<1>2. p \in 0 .. Len(f) - patch_size <=> p \in Nat /\ p + patch_size <= Len(f)
  BY <1>1, Sizes
<1> QED BY <1>2 DEF Places, search_sieve, MatchAt

Want == buf_size - Len(Kept)
Got  == Min({Want, Max({0, Len(file) - at - offset})})
Now  == Filled(Got)

\* A read leaves the bytes of the file from BufferAt on in the buffer.
LEMMA ReadsFile ==
  ASSUME Typed, Reading
  PROVE  /\ Len(Kept) \in Nat /\ Want \in Nat /\ Got \in Nat /\ Got <= Want
         /\ Len(Kept) = IF offset = 0 THEN 0 ELSE patch_size - 1
         /\ Want = buf_size - Len(Kept)
         /\ BufferAt = at + offset - Len(Kept) /\ BufferAt \in Nat /\ at <= BufferAt
         /\ at + offset + Got <= Len(file)
         /\ Got < Want => at + offset + Got = Len(file)
         /\ Now \in [1 .. buf_size -> Byte] /\ Now \in Seq(Byte) /\ Len(Now) = buf_size
         /\ \A j \in 1 .. Len(Kept) + Got : Now[j] = file[BufferAt + j]
<1>1. /\ file \in Seq(Byte) /\ at \in Nat /\ offset \in Nat /\ Len(file) \in Nat
      /\ buf \in [1 .. buf_size -> Byte] /\ at + offset <= Len(file)
  BY DEF Typed, Reading
<1>2. buf \in Seq(Byte) /\ Len(buf) = buf_size
  BY <1>1, Sizes
<1>3. /\ Len(Kept) = IF offset = 0 THEN 0 ELSE patch_size - 1
      /\ offset # 0 => \A j \in 1 .. patch_size - 1 : Kept[j] = buf[BPATCHER_FILE_BUF + j]
  <2>1. CASE offset = 0
    BY <2>1 DEF Kept
  <2>2. CASE offset # 0
    <3>1. Kept = SubSeq(buf, BPATCHER_FILE_BUF + 1, buf_size)
      BY <2>2 DEF Kept
    <3>2. buf_size - (BPATCHER_FILE_BUF + 1) + 1 = patch_size - 1
      BY Sizes
    <3>3. /\ BPATCHER_FILE_BUF + 1 \in 1 .. Len(buf) + 1
          /\ buf_size \in (BPATCHER_FILE_BUF + 1) - 1 .. Len(buf)
      BY <1>2, Sizes
    <3>4. /\ Len(Kept) = buf_size - (BPATCHER_FILE_BUF + 1) + 1
          /\ \A j \in 1 .. buf_size - (BPATCHER_FILE_BUF + 1) + 1 :
               Kept[j] = buf[(BPATCHER_FILE_BUF + 1) + j - 1]
      BY <1>2, <3>1, <3>3, SubSeqProperties
    <3>5. \A j \in 1 .. patch_size - 1 : (BPATCHER_FILE_BUF + 1) + j - 1 = BPATCHER_FILE_BUF + j
      BY Sizes
    <3> QED BY <2>2, <3>2, <3>4, <3>5
  <2> QED BY <2>1, <2>2
<1>4. Len(Kept) \in Nat /\ Want \in Nat /\ Want = buf_size - Len(Kept)
      /\ (offset # 0 => Want = BPATCHER_FILE_BUF)
  BY <1>3, Sizes DEF Want
<1> DEFINE rest == Len(file) - at - offset
<1>5. rest \in Nat
  BY <1>1
<1>6. Got = IF Want <= rest THEN Want ELSE rest
  <2> HIDE DEF rest
  <2>1. Got = Min({Want, Max({0, rest})})
    BY DEF Got, rest
  <2>2. Max({0, rest}) = rest
    <3>1. 0 \in Int /\ rest \in Int
      BY <1>5
    <3>2. Max({0, rest}) = IF 0 >= rest THEN 0 ELSE rest
      BY <3>1, MinOfTwo
    <3> QED BY <1>5, <3>2
  <2>3. Want \in Int /\ rest \in Int
    BY <1>4, <1>5
  <2> QED BY <2>1, <2>2, <2>3, MinOfTwo
<1>7. /\ Got \in Nat /\ Got <= Want /\ at + offset + Got <= Len(file)
      /\ Got < Want => at + offset + Got = Len(file)
  BY <1>1, <1>4, <1>5, <1>6
<1>8. BufferAt = at + offset - Len(Kept) /\ BufferAt \in Nat /\ at <= BufferAt
  <2>1. offset = 0 \/ patch_size - 1 <= offset
    BY <1>1, Sizes DEF Reading
  <2> QED BY <1>1, <1>3, <2>1, Sizes DEF BufferAt
<1>9. \A j \in 1 .. Len(Kept) : Kept[j] = file[BufferAt + j] /\ Kept[j] \in Byte
  <2> SUFFICES ASSUME NEW j \in 1 .. Len(Kept)
               PROVE  Kept[j] = file[BufferAt + j] /\ Kept[j] \in Byte
    OBVIOUS
  <2>1. offset # 0 /\ j \in 1 .. patch_size - 1
    BY <1>3
  <2>2. BPATCHER_FILE_BUF + j \in 1 .. buf_size
    BY <2>1, Sizes
  <2>3. at + offset - buf_size + (BPATCHER_FILE_BUF + j) = BufferAt + j
    BY <1>1, <1>3, <1>8, <2>1, Sizes
  <2>4. buf[BPATCHER_FILE_BUF + j] = file[BufferAt + j]
    BY <2>1, <2>2, <2>3 DEF Reading
  <2> QED BY <1>1, <1>3, <2>1, <2>2, <2>4
<1>10. ASSUME NEW j \in 1 .. buf_size
       PROVE  /\ Now[j] \in Byte
              /\ j <= Len(Kept) + Got => Now[j] = file[BufferAt + j]
  <2>1. Now[j] = IF j <= Len(Kept) THEN Kept[j]
                 ELSE IF j <= Len(Kept) + Got THEN file[at + offset + j - Len(Kept)]
                 ELSE buf[j]
    BY <1>10 DEF Now, Filled
  <2>2. j > Len(Kept) /\ j <= Len(Kept) + Got =>
          /\ at + offset + j - Len(Kept) = BufferAt + j
          /\ BufferAt + j \in 1 .. Len(file)
    BY <1>1, <1>4, <1>7, <1>8, <1>10, Sizes, SMTT(60)
  <2>3. j <= Len(Kept) => j \in 1 .. Len(Kept)
    BY <1>4, <1>10, Sizes
  <2> QED BY <1>1, <1>4, <1>7, <1>9, <1>10, <2>1, <2>2, <2>3, Sizes
<1>11. Now = [j \in 1 .. buf_size |-> Now[j]]
  BY DEF Now, Filled
<1>12. Now \in [1 .. buf_size -> Byte]
  BY <1>10, <1>11
<1>13. Now \in Seq(Byte) /\ Len(Now) = buf_size
  BY <1>12, Sizes
<1>14. \A j \in 1 .. Len(Kept) + Got : j \in 1 .. buf_size
  BY <1>4, <1>7, Sizes
<1> QED BY <1>3, <1>4, <1>7, <1>8, <1>10, <1>12, <1>13, <1>14

\* What is found in the buffer are the places of the file there, and what an
\* earlier part left in the end of it.
LEMMA ReadFinds ==
  ASSUME Typed, Reading, pc # "make"
  PROVE  /\ search_sieve(Now, Needle) \subseteq Nat
         /\ \A p \in Places(file, Needle) : at <= p =>
              /\ p - BufferAt \in Nat
              /\ p + patch_size <= at + offset + Got => p - BufferAt \in search_sieve(Now, Needle)
         /\ \A j \in search_sieve(Now, Needle) :
              /\ j + patch_size <= buf_size
              /\ j + patch_size <= Len(Kept) + Got => BufferAt + j \in Places(file, Needle)
<1> DEFINE hits == search_sieve(Now, Needle)
<1>0. /\ Len(Kept) \in Nat /\ Got \in Nat /\ BufferAt \in Nat /\ Len(Kept) + Got <= buf_size
      /\ BufferAt + Len(Kept) = at + offset
      /\ \A j \in 1 .. Len(Kept) + Got : Now[j] = file[BufferAt + j]
  <2>1. at \in Nat /\ offset \in Nat
    BY DEF Typed
  <2> QED BY <2>1, ReadsFile, Sizes
<1>1. /\ file \in Seq(Byte) /\ at \in Nat /\ offset \in Nat /\ Len(file) \in Nat
      /\ cp.check \subseteq Window
  BY MadeIs DEF Typed
<1>2. \A j : j \in hits <=> /\ j \in Nat /\ j + patch_size <= buf_size
                            /\ \A k \in cp.check : Now[j + k + 1] = Needle[k]
  <2>1. Now \in Seq(Byte) /\ Len(Now) = buf_size
    BY ReadsFile
  <2>2. \A j : j \in hits <=> j \in Places(Now, Needle)
    BY DEF Places
  <2> HIDE DEF hits
  <2> QED BY <2>1, <2>2, PlacesIs
<1> HIDE DEF hits
<1>3. hits \subseteq Nat
  BY <1>2
<1>4. ASSUME NEW p \in Places(file, Needle), at <= p
      PROVE  /\ p - BufferAt \in Nat
             /\ p + patch_size <= at + offset + Got => p - BufferAt \in hits
  <2>1. /\ p \in Nat /\ p + patch_size <= Len(file)
        /\ \A k \in cp.check : file[p + k + 1] = Needle[k]
    BY <1>1, <1>4, PlacesIs
  <2>2. p - BufferAt \in Nat
    <3>1. at + offset < p + patch_size
      BY <1>4 DEF Reading
    <3>2. CASE offset = 0
      BY <1>1, <1>4, <2>1, <3>2, ReadsFile
    <3>3. CASE offset # 0
      <4>1. BufferAt = at + offset - (patch_size - 1)
        BY <3>3, ReadsFile
      <4> QED BY <1>1, <2>1, <3>1, <4>1, Sizes
    <3> QED BY <3>2, <3>3
  <2>3. ASSUME p + patch_size <= at + offset + Got
        PROVE  p - BufferAt \in hits
    <3>1. p - BufferAt + patch_size <= Len(Kept) + Got
      BY <1>0, <1>1, <2>1, <2>3, Sizes
    <3>2. ASSUME NEW k \in cp.check
          PROVE  Now[p - BufferAt + k + 1] = Needle[k]
      <4>1. k \in Nat /\ k < patch_size
        BY <1>1, <3>2, Sizes DEF Window
      <4>2. p - BufferAt + k + 1 \in 1 .. Len(Kept) + Got
        BY <1>0, <2>1, <2>2, <3>1, <4>1, Sizes
      <4>3. BufferAt + (p - BufferAt + k + 1) = p + k + 1
        BY <1>0, <2>1, <4>1
      <4>4. Now[p - BufferAt + k + 1] = file[p + k + 1]
        BY <1>0, <4>2, <4>3
      <4> QED BY <2>1, <4>4
    <3>3. p - BufferAt + patch_size <= buf_size
      BY <1>0, <2>2, <3>1, Sizes
    <3> QED BY <1>2, <2>2, <3>2, <3>3
  <2> QED BY <2>2, <2>3
<1>5. ASSUME NEW j \in hits
      PROVE  /\ j + patch_size <= buf_size
             /\ j + patch_size <= Len(Kept) + Got => BufferAt + j \in Places(file, Needle)
  <2>1. /\ j \in Nat /\ j + patch_size <= buf_size
        /\ \A k \in cp.check : Now[j + k + 1] = Needle[k]
    BY <1>2, <1>5
  <2>2. ASSUME j + patch_size <= Len(Kept) + Got
        PROVE  BufferAt + j \in Places(file, Needle)
    <3>1. BufferAt + j \in Nat /\ BufferAt + j + patch_size <= Len(file)
      BY <1>1, <2>1, <2>2, ReadsFile, Sizes, SMTT(60)
    <3>2. ASSUME NEW k \in cp.check
          PROVE  file[BufferAt + j + k + 1] = Needle[k]
      <4>1. k \in Nat /\ k < patch_size
        BY <1>1, <3>2, Sizes DEF Window
      <4>2. j + k + 1 \in 1 .. Len(Kept) + Got
        BY <1>0, <2>1, <2>2, <4>1, Sizes
      <4>3. BufferAt + (j + k + 1) = BufferAt + j + k + 1
        BY <1>0, <2>1, <4>1
      <4>4. Now[j + k + 1] = file[BufferAt + j + k + 1]
        BY <1>0, <4>2, <4>3
      <4> QED BY <2>1, <4>4
    <3> QED BY <1>1, <3>1, <3>2, PlacesIs
  <2> QED BY <2>1, <2>2
<1> QED BY <1>3, <1>4, <1>5 DEF hits

\* A read goes on where the one before it ended, or stops at the next place.
LEMMA ReadNext ==
  ASSUME SieveInv, ReadPart
  PROVE  SieveInv'
<1> DEFINE hits == search_sieve(Now, Needle)
<1>1. /\ Typed /\ Reading /\ SoFar /\ ~Stale /\ pc = "search" /\ ~eof
      /\ UNCHANGED <<cp, made, copy, file, reverse, dry, runs, first, at, sought, applied, exists, status>>
  BY DEF SieveInv, ReadPart, call
<1>2. /\ buf' = Now /\ eof' = (Got < Want)
      /\ \/ /\ Got > 0 /\ hits # {} /\ hit' = BufferAt + Min(hits) /\ pc' = "hit" /\ offset' = offset
         \/ /\ Got = 0 \/ hits = {}
            /\ offset' = offset + Got /\ hit' = hit /\ pc' = "search"
  BY <1>1 DEF ReadPart, Now, Got, Want, Needle
<1>3. /\ at \in Nat /\ offset \in Nat /\ file \in Seq(Byte) /\ Len(file) \in Nat /\ BufferAt \in Nat
      /\ \A p \in Places(file, Needle) : p \in Nat /\ p + patch_size <= Len(file)
  <2>1. at \in Nat /\ offset \in Nat /\ file \in Seq(Byte) /\ Len(file) \in Nat
    BY <1>1 DEF Typed
  <2> QED BY <1>1, <2>1, PlacesIs, ReadsFile
<1>4. /\ Len(Kept) \in Nat /\ Got \in Nat /\ Want \in Nat /\ Len(Kept) + Want = buf_size
      /\ Got <= Want /\ BufferAt + Len(Kept) = at + offset /\ at + offset + Got <= Len(file)
      /\ Got < Want => at + offset + Got = Len(file)
  BY <1>1, <1>3, ReadsFile, Sizes
<1>5. Needle' = Needle /\ Orig' = Orig
  BY <1>1 DEF Needle, Orig, Data
<1>6. \A f, n : Places(f, n)' = Places(f, n)
  BY <1>1 DEF Places, search_sieve, MatchAt
<1>7. /\ Places(file, Needle)' = Places(file, Needle)
      /\ Places(file, Orig)' = Places(file, Orig)
      /\ Taken(file, Orig)' = Taken(file, Orig)
      /\ PatchedUpTo(at)' = PatchedUpTo(at)
  <2>1. Places(file, Needle)' = Places(file, Needle) /\ Places(file, Orig)' = Places(file, Orig)
    BY <1>1, <1>5 DEF Places, search_sieve, MatchAt
  <2>2. Taken(file, Orig)' = Taken(file, Orig)
    BY <1>1, <1>5, <2>1 DEF Taken
  <2> QED BY <1>1, <2>1, <2>2 DEF PatchedUpTo, PatchedAt, Data
<1>8. CASE Got > 0 /\ hits # {}
  <2> DEFINE j == Min(hits)
  <2>1. hits \subseteq Nat
    BY <1>1, ReadFinds
  <2>2. j \in hits /\ j \in Nat /\ \A i \in hits : j <= i
    <3> HIDE DEF hits
    <3> QED BY <1>8, <2>1, MinIs
  <2> HIDE DEF j
  <2>3. hit' = BufferAt + j /\ pc' = "hit" /\ offset' = offset
    BY <1>2, <1>8 DEF j
  <2>4. j + patch_size <= buf_size
    BY <1>1, <2>2, ReadFinds
  <2>5. hit' \in Nat /\ at <= hit'
    BY <1>1, <1>3, <2>2, <2>3, ReadsFile
  <2>6. ASSUME j + patch_size <= Len(Kept) + Got
        PROVE  Hit'
    <3>1. hit' \in Places(file, Needle)
      BY <1>1, <2>2, <2>3, <2>6, ReadFinds
    <3>2. ASSUME NEW p \in Places(file, Needle), at <= p
          PROVE  hit' <= p
      <4>1. p - BufferAt \in Nat
        BY <1>1, <3>2, ReadFinds
      <4>2. CASE p + patch_size <= at + offset + Got
        <5>1. j <= p - BufferAt
          BY <1>1, <2>2, <3>2, <4>2, ReadFinds
        <5> QED BY <1>3, <2>2, <2>3, <5>1
      <4>3. CASE ~(p + patch_size <= at + offset + Got)
        BY <1>3, <1>4, <2>2, <2>3, <2>6, <4>3, Sizes
      <4> QED BY <4>2, <4>3
    <3>3. ~Stale'
      <4>1. hit' + patch_size <= Len(file)
        BY <1>3, <3>1
      <4> QED BY <1>1, <1>3, <2>5, <4>1, Sizes DEF Stale
    <3>4. at' <= hit' /\ \A p \in Places(file, Needle)' : at' <= p => hit' <= p
      BY <1>1, <1>7, <2>5, <3>2
    <3>5. hit' \in Places(file, Needle)'
      BY <1>7, <3>1
    <3> QED BY <3>3, <3>4, <3>5 DEF Hit
  <2>7. ASSUME ~(j + patch_size <= Len(Kept) + Got)
        PROVE  Hit'
    <3>1. Got < Want
      BY <1>4, <2>2, <2>4, <2>7, Sizes
    <3>2. ASSUME NEW p \in Places(file, Needle)
          PROVE  p < at
      <4>1. p + patch_size <= at + offset + Got
        BY <1>3, <1>4, <3>1, <3>2
      <4>2. at <= p => p - BufferAt \in hits /\ p - BufferAt \in Nat
        BY <1>1, <3>2, <4>1, ReadFinds
      <4>3. at <= p => j <= p - BufferAt
        BY <2>2, <4>2
      <4> QED BY <1>3, <1>4, <2>2, <2>7, <3>2, <4>1, <4>3, Sizes, SMTT(60)
    <3>3. Stale'
      BY <1>1, <1>3, <1>4, <2>2, <2>3, <2>5, <2>7, <3>1, Sizes DEF Stale
    <3>4. at' <= hit' /\ (\A p \in Places(file, Needle)' : at' <= p => hit' <= p) /\ NoneLeft'
      BY <1>1, <1>3, <1>7, <2>5, <3>2 DEF NoneLeft
    <3> QED BY <3>3, <3>4 DEF Hit
  <2>8. Hit'
    BY <2>6, <2>7
  <2>9. SoFar'
    BY <1>1, <1>7, <2>3 DEF SoFar
  <2>10. Typed' /\ PatchedAsWhole'
    BY <1>1, <1>2, <1>3, <2>3, <2>5 DEF Typed, PatchedAsWhole
  <2> QED BY <2>3, <2>8, <2>9, <2>10 DEF SieveInv
<1>9. CASE Got = 0 \/ hits = {}
  <2>1. offset' = offset + Got /\ hit' = hit /\ pc' = "search"
    BY <1>2, <1>4, <1>9
  <2>2. \A p \in Places(file, Needle) : at <= p => at + offset + Got < p + patch_size
    <3>1. CASE Got = 0
      BY <1>1, <1>3, <3>1 DEF Reading
    <3>2. CASE hits = {}
      BY <1>1, <1>3, <1>4, <3>2, ReadFinds, Sizes
    <3> QED BY <1>9, <3>1, <3>2
  <2>3. Stale' = Stale
    BY <1>1, <2>1 DEF Stale
  <2>4. ASSUME Got < Want
        PROVE  eof' /\ NoneLeft'
    <3>1. NoneLeft'
      BY <1>1, <1>3, <1>4, <1>7, <2>2, <2>4, Sizes DEF NoneLeft
    <3> QED BY <1>2, <2>4, <3>1
  <2>5. ASSUME ~(Got < Want)
        PROVE  ~eof' /\ Reading' /\ ~Stale'
    <3>1. Got = Want /\ Len(Kept) + Got = buf_size /\ ~eof'
      <4>1. Got = Want
        BY <1>4, <2>5
      <4>2. ~eof'
        BY <1>2, <2>5
      <4> QED BY <1>4, <4>1, <4>2
    <3>2. buf' \in [1 .. buf_size -> Byte] /\ at' + offset' <= Len(file')
      BY <1>1, <1>2, <1>3, <1>4, <2>1, ReadsFile
    <3>3. ASSUME offset' # 0
          PROVE  /\ buf_size <= offset'
                 /\ \A j \in 1 .. buf_size : buf'[j] = file'[at' + offset' - buf_size + j]
      <4>1. buf_size <= offset'
        <5>1. offset = 0 => Len(Kept) = 0
          BY <1>1, ReadsFile
        <5>2. offset # 0 => buf_size <= offset
          BY <1>1 DEF Reading
        <5> QED BY <1>3, <1>4, <2>1, <3>1, <5>1, <5>2, Sizes
      <4>2. at' + offset' - buf_size = BufferAt
        BY <1>1, <1>3, <1>4, <2>1, <3>1, Sizes
      <4>3. \A j \in 1 .. buf_size : buf'[j] = file[BufferAt + j]
        BY <1>1, <1>2, <3>1, ReadsFile
      <4> QED BY <1>1, <4>1, <4>2, <4>3
    <3>4. \A p \in Places(file, Needle)' : at' <= p => at' + offset' < p + patch_size
      BY <1>1, <1>3, <1>4, <1>7, <2>1, <2>2
    <3>5. Reading'
      BY <3>2, <3>3, <3>4 DEF Reading
    <3> QED BY <1>1, <2>3, <3>1, <3>5
  <2>6. IF eof' THEN NoneLeft' ELSE Reading' /\ ~Stale'
    BY <1>1, <1>2, <2>3, <2>4, <2>5
  <2>7. SoFar'
    BY <1>1, <1>7, <2>1, <2>3 DEF SoFar
  <2>8. Typed' /\ PatchedAsWhole'
    BY <1>1, <1>2, <1>3, <1>4, <2>1 DEF Typed, PatchedAsWhole
  <2> QED BY <2>1, <2>6, <2>7, <2>8 DEF SieveInv
<1> QED BY <1>4, <1>8, <1>9

--------------------------------------------------------------------------
(* The call                                                                *)

LEMMA TakenNow ==
  Typed =>
    /\ Taken(file, Orig) \subseteq Places(file, Orig)
    /\ \A p \in Places(file, Orig) \cup Places(file, Needle) : p \in Nat /\ p + patch_size <= Len(file)
    /\ \A p \in Places(file, Orig) :
         p \in Taken(file, Orig) <=> \A q \in Taken(file, Orig) : q < p => q + patch_size <= p
<1> SUFFICES ASSUME Typed
             PROVE  /\ Taken(file, Orig) \subseteq Places(file, Orig)
                    /\ \A p \in Places(file, Orig) \cup Places(file, Needle) :
                         p \in Nat /\ p + patch_size <= Len(file)
                    /\ \A p \in Places(file, Orig) :
                         p \in Taken(file, Orig) <=>
                           \A q \in Taken(file, Orig) : q < p => q + patch_size <= p
  OBVIOUS
<1>1. file \in Seq(Byte)
  BY DEF Typed
<1> QED BY <1>1, TakenIs, PlacesIs

LEMMA TakenNext ==
  ASSUME Typed'
  PROVE  /\ (Taken(file, Orig) \subseteq Places(file, Orig))'
         /\ (\A p \in Places(file, Orig) \cup Places(file, Needle) :
               p \in Nat /\ p + patch_size <= Len(file))'
<1>1. (Typed => /\ Taken(file, Orig) \subseteq Places(file, Orig)
                /\ \A p \in Places(file, Orig) \cup Places(file, Needle) :
                     p \in Nat /\ p + patch_size <= Len(file))'
  BY TakenNow, PTL
<1> QED BY <1>1

\* Nothing is taken before the first byte of the file, so nothing is patched.
LEMMA NothingYet == Typed => PatchedUpTo(0) = file
<1> SUFFICES ASSUME Typed PROVE PatchedUpTo(0) = file
  OBVIOUS
<1>1. \A p \in Taken(file, Orig) : ~(p < 0)
  BY TakenNow
<1>2. PatchedUpTo(0) = [q \in DOMAIN file |-> file[q]]
  BY <1>1 DEF PatchedUpTo, PatchedAt
<1>3. file = [q \in DOMAIN file |-> file[q]]
  BY DEF Typed
<1> QED BY <1>2, <1>3

\* With none left every place taken is patched.
LEMMA WholeIs ==
  ASSUME NEW n, \A p \in Taken(file, Orig) : p < n
  PROVE  PatchedUpTo(n) = Whole
<1>1. {p \in Taken(file, Orig) : p < n} = Taken(file, Orig)
  OBVIOUS
<1>2. PatchedUpTo(n) = PatchedAt(Taken(file, Orig))
  BY <1>1 DEF PatchedUpTo
<1> QED BY <1>2 DEF Whole, Orig

LEMMA WholeUpTo == Typed => Whole = PatchedUpTo(Len(file))
<1> SUFFICES ASSUME Typed PROVE Whole = PatchedUpTo(Len(file))
  OBVIOUS
<1>1. \A p \in Taken(file, Orig) : p < Len(file)
  <2>1. Len(file) \in Nat
    BY DEF Typed
  <2> QED BY <2>1, TakenNow, Sizes
<1> QED BY <1>1, WholeIs

\* The steps of a call keep what it is about.
LEMMA SameCall ==
  ASSUME UNCHANGED <<cp, file, reverse>>, Typed, Typed'
  PROVE  /\ Orig' = Orig /\ Data("patch")' = Data("patch") /\ Data("orig")' = Data("orig")
         /\ Places(file, Orig)' = Places(file, Orig)
         /\ Places(file, Data("patch"))' = Places(file, Data("patch"))
         /\ Taken(file, Orig)' = Taken(file, Orig)
         /\ \A n : PatchedUpTo(n)' = PatchedUpTo(n)
         /\ Whole' = Whole
<1>1. Orig' = Orig /\ Data("patch")' = Data("patch") /\ Data("orig")' = Data("orig")
  BY DEF Orig, Data
<1>2. /\ Places(file, Orig)' = Places(file, Orig)
      /\ Places(file, Data("patch"))' = Places(file, Data("patch"))
  BY <1>1 DEF Places, search_sieve, MatchAt
<1>3. Taken(file, Orig)' = Taken(file, Orig)
  BY <1>1, <1>2 DEF Taken
<1>4. \A n : PatchedUpTo(n)' = PatchedUpTo(n)
  BY <1>1, <1>3 DEF PatchedUpTo, PatchedAt
<1>5. Whole' = Whole
  <2>1. (Typed => Whole = PatchedUpTo(Len(file)))'
    BY WholeUpTo, PTL
  <2>2. PICK n : n = Len(file)
    OBVIOUS
  <2>3. PatchedUpTo(Len(file))' = PatchedUpTo(n)' /\ PatchedUpTo(n)' = PatchedUpTo(n)
    BY <1>4, <2>2
  <2> QED BY <2>1, <2>2, <2>3, WholeUpTo
<1> QED BY <1>1, <1>2, <1>3, <1>4, <1>5

\* A search begins.
LEMMA SearchBegins ==
  ASSUME Typed', NEW n \in Nat, SearchFrom(n, FALSE), n <= Len(file')
  PROVE  Reading' /\ ~eof' /\ at' = n
<1>1. at' = n /\ offset' = 0 /\ buf' = [j \in 1 .. buf_size |-> 0] /\ ~eof'
  BY DEF SearchFrom
<1>2. buf' \in [1 .. buf_size -> Byte]
  BY <1>1 DEF Byte
<1>3. \A p \in Places(file, Needle)' : p \in Nat
  BY TakenNext
<1>4. \A p \in Places(file, Needle)' : at' <= p => at' + offset' < p + patch_size
  BY <1>1, <1>3, Sizes
<1> QED BY <1>1, <1>2, <1>4 DEF Reading, Typed

\* The next place is taken, and its bytes are written in the copy.
LEMMA NextTaken ==
  ASSUME Typed, SoFar, Hit, ~Stale, sought = "orig", pc # "make"
  PROVE  /\ hit \in Taken(file, Orig) /\ hit \in Nat /\ at <= hit /\ hit + patch_size <= Len(file)
         /\ \A p \in Taken(file, Orig) : p < hit + patch_size => p < at \/ p = hit
         /\ \A p \in Taken(file, Orig) : p < at => p + patch_size <= at
<1>1. hit \in Places(file, Orig) /\ at \in Nat /\ Orig = Needle
  BY DEF Hit, Typed, Needle, Orig
<1>2. hit \in Nat /\ at <= hit /\ hit + patch_size <= Len(file)
  BY <1>1, TakenNow DEF Hit
<1>3. ASSUME NEW p \in Taken(file, Orig), p < hit
      PROVE  p < at /\ p + patch_size <= hit
  <2>1. p \in Places(file, Orig) /\ p \in Nat
    BY <1>3, TakenNow
  <2>2. p < at
    BY <1>1, <1>2, <1>3, <2>1 DEF Hit
  <2> QED BY <1>1, <1>2, <2>1, <2>2, Sizes DEF SoFar
<1>4. hit \in Taken(file, Orig)
  BY <1>1, <1>3, TakenNow
<1>5. ASSUME NEW p \in Taken(file, Orig), p < hit + patch_size
      PROVE  p < at \/ p = hit
  <2>1. p \in Places(file, Orig) /\ p \in Nat
    BY <1>5, TakenNow
  <2>2. hit < p => hit + patch_size <= p
    BY <1>4, <2>1, TakenNow
  <2> QED BY <1>2, <1>3, <1>5, <2>1, <2>2, Sizes
<1> QED BY <1>2, <1>4, <1>5 DEF SoFar

LEMMA PlacePatched ==
  ASSUME Typed, SoFar, Hit, ~Stale, sought = "orig", ~dry, pc # "make"
  PROVE  PatchedUpTo(hit + patch_size) =
           [p \in DOMAIN copy |-> IF p - 1 - hit \in Window THEN Patched(p - 1 - hit) ELSE copy[p]]
<1> DEFINE old == {p \in Taken(file, Orig) : p < at}
           new == {p \in Taken(file, Orig) : p < hit + patch_size}
           T == [p \in DOMAIN copy |-> IF p - 1 - hit \in Window THEN Patched(p - 1 - hit) ELSE copy[p]]
<1>1. /\ hit \in Taken(file, Orig) /\ hit \in Nat /\ at <= hit /\ at \in Nat
      /\ hit + patch_size <= Len(file) /\ file \in Seq(Byte) /\ Len(file) \in Nat
  BY NextTaken DEF Typed
<1>2. new = old \cup {hit}
  <2>1. \A p \in Taken(file, Orig) : p \in Nat
    BY TakenNow
  <2>2. \A p \in Taken(file, Orig) : p < hit + patch_size => p < at \/ p = hit
    BY NextTaken
  <2>3. ASSUME NEW p \in Taken(file, Orig)
        PROVE  p < hit + patch_size <=> p < at \/ p = hit
    BY <1>1, <2>1, <2>2, Sizes
  <2> QED BY <1>1, <2>3
<1>3. /\ hit \notin old
      /\ \A p \in old : p \in Nat /\ p + patch_size <= hit
  BY <1>1, NextTaken, TakenNow, Sizes
<1>4. copy = PatchedAt(old) /\ cp.modif \subseteq Window
  BY MadeIs DEF SoFar, PatchedUpTo
<1>5. DOMAIN copy = DOMAIN file /\ DOMAIN file = 1 .. Len(file)
  BY <1>1, <1>4 DEF PatchedAt
<1> HIDE DEF old, new
<1>6. ASSUME NEW q \in DOMAIN file
      PROVE  PatchedAt(new)[q] = T[q]
  <2>0. q \in Nat
    BY <1>5
  <2>1. /\ PatchedAt(new)[q] = IF \E p \in new : q - 1 - p \in cp.modif
                               THEN Data("patch")[q - 1 - CHOOSE p \in new : q - 1 - p \in Window]
                               ELSE file[q]
        /\ PatchedAt(old)[q] = IF \E p \in old : q - 1 - p \in cp.modif
                               THEN Data("patch")[q - 1 - CHOOSE p \in old : q - 1 - p \in Window]
                               ELSE file[q]
    BY DEF PatchedAt
  <2>2. CASE q - 1 - hit \in Window
    <3>1. \A p \in old : q - 1 - p \notin Window
      BY <1>1, <1>3, <2>0, <2>2, Sizes DEF Window
    <3>2. \A p \in new : q - 1 - p \in Window <=> p = hit
      BY <1>2, <2>2, <3>1
    <3>3. (CHOOSE p \in new : q - 1 - p \in Window) = hit
      BY <1>2, <3>2
    <3>4. (\E p \in new : q - 1 - p \in cp.modif) <=> q - 1 - hit \in cp.modif
      BY <1>2, <1>4, <3>2
    <3>5. T[q] = IF q - 1 - hit \in cp.modif THEN Data("patch")[q - 1 - hit]
                 ELSE file[hit + (q - 1 - hit) + 1]
      BY <1>5, <2>2 DEF Patched
    <3>6. hit + (q - 1 - hit) + 1 = q
      BY <1>1, <2>0
    <3> QED BY <2>1, <3>3, <3>4, <3>5, <3>6
  <2>3. CASE q - 1 - hit \notin Window
    <3>1. T[q] = PatchedAt(old)[q]
      BY <1>4, <1>5, <2>3
    <3>2. \A p \in new : q - 1 - p \in Window => p \in old
      BY <1>2, <2>3
    <3>3. (\E p \in new : q - 1 - p \in cp.modif) <=> \E p \in old : q - 1 - p \in cp.modif
      BY <1>2, <1>4, <3>2
    <3>4. \A p : (p \in new /\ q - 1 - p \in Window) <=> (p \in old /\ q - 1 - p \in Window)
      BY <1>2, <3>2
    <3>5. (CHOOSE p \in new : q - 1 - p \in Window) = CHOOSE p \in old : q - 1 - p \in Window
      BY <3>4
    <3> QED BY <2>1, <3>1, <3>3, <3>5
  <2> QED BY <2>2, <2>3
<1>7. DOMAIN PatchedAt(new) = DOMAIN file /\ DOMAIN T = DOMAIN file
      /\ PatchedAt(new) = [q \in DOMAIN file |-> PatchedAt(new)[q]]
      /\ T = [q \in DOMAIN file |-> T[q]]
  BY <1>5 DEF PatchedAt
<1> HIDE DEF T
<1>8. PatchedAt(new) = T
  BY <1>6, <1>7
<1> QED BY <1>8 DEF T, new, PatchedUpTo

LEMMA StartNext ==
  ASSUME SieveInv, Start
  PROVE  SieveInv'
<1>1. /\ pc = "idle" /\ pc' = "search" /\ sought' = "orig" /\ file' = copy /\ copy' = copy
      /\ SearchFrom(0, FALSE) /\ hit' = -1 /\ ~applied' /\ ~exists' /\ status' = "ok"
      /\ dry' \in BOOLEAN /\ at' = 0
  BY DEF Start, SearchFrom
<1>2. Typed'
  <2>1. Typed /\ UNCHANGED <<cp, made>> /\ reverse' \in BOOLEAN /\ dry' \in BOOLEAN /\ runs' = runs + 1
    BY DEF SieveInv, Start
  <2>2. at' \in Nat /\ offset' \in Nat
    BY <1>1 DEF SearchFrom
  <2>3. eof' \in BOOLEAN
    BY <1>1, Zenon DEF SearchFrom
  <2>4. applied' \in BOOLEAN /\ exists' \in BOOLEAN
    BY Zenon DEF Start
  <2>5. hit' \in Int /\ runs' \in Nat
    BY <1>1, <2>1 DEF Typed
  <2> QED BY <1>1, <2>1, <2>2, <2>3, <2>4, <2>5 DEF Typed
<1>3. Reading' /\ ~eof' /\ at' = 0
  <2>1. 0 \in Nat /\ 0 <= Len(file')
    BY <1>2 DEF Typed
  <2> QED BY <1>1, <1>2, <2>1, SearchBegins
<1>4. ~Stale'
  BY <1>1 DEF Stale
<1>5. copy' = PatchedUpTo(at)' /\ copy' = file'
  <2>1. (Typed => PatchedUpTo(0) = file)'
    BY NothingYet, PTL
  <2>2. PatchedUpTo(0)' = file'
    BY <1>2, <2>1
  <2>3. PatchedUpTo(at)' = PatchedUpTo(0)'
    BY <1>1 DEF PatchedUpTo
  <2> QED BY <1>1, <2>2, <2>3
<1>6. \A p \in Taken(file, Orig)' : ~(p < at')
  BY <1>2, <1>3, TakenNext
<1>7. SoFar'
  <2>1. at' <= Len(file')
    BY <1>2, <1>3 DEF Typed
  <2> QED BY <1>1, <1>3, <1>4, <1>5, <1>6, <2>1 DEF SoFar
<1> QED BY <1>1, <1>2, <1>3, <1>4, <1>7 DEF SieveInv, PatchedAsWhole

LEMMA PlaceNext ==
  ASSUME SieveInv, PatchPlace
  PROVE  SieveInv'
<1>1. /\ Typed /\ SoFar /\ Hit /\ pc = "hit" /\ sought = "orig" /\ ~dry
      /\ UNCHANGED <<cp, made, call, sought, hit, exists, status>>
      /\ applied' /\ pc' = "search" /\ SearchFrom(hit + patch_size, FALSE)
      /\ copy' = [p \in DOMAIN copy |-> IF p - 1 - hit \in Window THEN Patched(p - 1 - hit) ELSE copy[p]]
      /\ hit + patch_size <= Len(file)
  BY DEF SieveInv, PatchPlace
<1>2. ~Stale
  BY <1>1, Sizes DEF Stale, Typed
<1>3. /\ hit \in Taken(file, Orig) /\ hit \in Nat /\ at <= hit /\ at \in Nat
      /\ \A p \in Taken(file, Orig) : p < hit + patch_size => p < at \/ p = hit
      /\ \A p \in Taken(file, Orig) : p < at => p + patch_size <= at
  BY <1>1, <1>2, NextTaken DEF Typed
<1>4. copy' = PatchedUpTo(hit + patch_size)
  BY <1>1, <1>2, PlacePatched
<1>5. copy' \in Seq(Byte)
  <2>1. /\ copy \in Seq(Byte) /\ file \in Seq(Byte) /\ Data("patch") \in [Window -> Byte]
        /\ cp.modif \subseteq Window
    BY <1>1, MadeIs DEF Typed
  <2>2. ASSUME NEW p \in DOMAIN copy
        PROVE  (IF p - 1 - hit \in Window THEN Patched(p - 1 - hit) ELSE copy[p]) \in Byte
    <3>1. p \in 1 .. Len(copy)
      BY <2>1, <2>2
    <3>2. CASE p - 1 - hit \in Window
      <4>1. hit + (p - 1 - hit) + 1 = p /\ p \in 1 .. Len(file)
        BY <1>1, <1>3, <2>1, <3>1, <3>2, Sizes DEF Window
      <4> QED BY <2>1, <3>2, <4>1 DEF Patched
    <3> QED BY <2>1, <3>1, <3>2
  <2>3. DOMAIN copy = 1 .. Len(copy) /\ Len(copy) \in Nat
    BY <2>1
  <2> QED BY <1>1, <2>2, <2>3
<1>6. Typed'
  <2>1. hit + patch_size \in Nat
    BY <1>3, Sizes
  <2>2. at' \in Nat /\ offset' \in Nat /\ eof' \in BOOLEAN
    BY <1>1, <2>1 DEF SearchFrom
  <2>3. applied' \in BOOLEAN
    BY DEF PatchPlace
  <2> QED BY <1>1, <1>5, <2>2, <2>3 DEF Typed, call
<1>7. /\ Taken(file, Orig)' = Taken(file, Orig) /\ Places(file, Orig)' = Places(file, Orig)
      /\ \A n : PatchedUpTo(n)' = PatchedUpTo(n)
  BY <1>1, <1>6, SameCall DEF call
<1>8. Reading' /\ ~eof' /\ at' = hit + patch_size
  <2>1. hit + patch_size \in Nat /\ hit + patch_size <= Len(file')
    BY <1>1, <1>3, Sizes DEF call
  <2> QED BY <1>1, <1>6, <2>1, SearchBegins
<1>9. ~Stale'
  BY <1>1, <1>2 DEF Stale, call
<1>10. SoFar'
  <2>1. at' <= Len(file')
    BY <1>1, <1>8 DEF call
  <2>2. \A p \in Taken(file, Orig)' : p < at' => p + patch_size <= at'
    BY <1>3, <1>7, <1>8, Sizes, TakenNow, <1>1
  <2>3. \E p \in Taken(file, Orig)' : p < at'
    BY <1>3, <1>7, <1>8, Sizes
  <2>4. copy' = PatchedUpTo(at)'
    <3>1. PICK n : n = hit + patch_size
      OBVIOUS
    <3>2. PatchedUpTo(at)' = PatchedUpTo(n)'
      BY <1>8, <3>1 DEF PatchedUpTo
    <3> QED BY <1>4, <1>7, <3>1, <3>2
  <2>5. ~exists' /\ ~dry' /\ sought' = "orig" /\ status' # "read"
    BY <1>1, <1>2 DEF SoFar, call
  <2> QED BY <1>1, <2>1, <2>2, <2>3, <2>4, <2>5 DEF SoFar
<1> QED BY <1>1, <1>6, <1>8, <1>9, <1>10 DEF SieveInv, PatchedAsWhole

LEMMA PlaceFailsNext ==
  ASSUME SieveInv, ReadPlaceFails
  PROVE  SieveInv'
<1>1. /\ Typed /\ SoFar /\ Hit /\ pc = "hit" /\ sought = "orig" /\ ~dry
      /\ UNCHANGED <<cp, made, copy, call, sought, hit, exists>>
      /\ applied' /\ pc' = "search" /\ at' = Len(file) /\ offset' = 0 /\ eof' /\ eof' \in BOOLEAN
      /\ hit + patch_size > Len(file)
  BY DEF SieveInv, ReadPlaceFails, SearchFrom
<1>2. /\ at \in Nat /\ hit \in Int /\ at <= hit /\ Len(file) \in Nat /\ Orig = Needle
  BY <1>1 DEF Hit, Typed, Orig, Needle
<1>3. Stale /\ NoneLeft
  BY <1>1, <1>2 DEF Stale, Hit
<1>4. Typed'
  BY <1>1, <1>2 DEF Typed, call
<1>5. /\ Taken(file, Orig)' = Taken(file, Orig) /\ Places(file, Orig)' = Places(file, Orig)
      /\ \A n : PatchedUpTo(n)' = PatchedUpTo(n)
  BY <1>1, <1>4, SameCall DEF call
<1>6. \A p \in Places(file, Orig) : p \in Nat /\ p + patch_size <= Len(file)
  BY <1>1, TakenNow
<1>7. \A p \in Taken(file, Orig) : p < at /\ p < Len(file) /\ p + patch_size <= Len(file)
  <2>1. Taken(file, Orig) \subseteq Places(file, Orig)
    BY <1>1, TakenNow
  <2> QED BY <1>2, <1>3, <1>6, <2>1, Sizes DEF NoneLeft
<1>8. PatchedUpTo(at) = PatchedUpTo(Len(file))
  BY <1>7, WholeIs
<1>9. Stale' /\ NoneLeft'
  <2>1. Stale'
    BY <1>1, <1>3 DEF Stale, call
  <2>2. Needle' = Orig'
    BY <1>1 DEF Needle, Orig
  <2>3. \A p \in Places(file, Orig)' : p < at'
    BY <1>1, <1>2, <1>5, <1>6, Sizes
  <2>4. Places(file, Needle)' = Places(file, Orig)'
    BY <2>2 DEF Places, search_sieve, MatchAt
  <2> QED BY <2>1, <2>3, <2>4 DEF NoneLeft
<1>10. SoFar'
  <2>1. copy' = PatchedUpTo(at)'
    <3>1. PICK n : n = Len(file)
      OBVIOUS
    <3>2. PatchedUpTo(at)' = PatchedUpTo(n)'
      BY <1>1, <3>1 DEF PatchedUpTo
    <3> QED BY <1>1, <1>5, <1>8, <3>1, <3>2 DEF SoFar
  <2>2. ~exists' /\ ~dry' /\ sought' = "orig" /\ at' <= Len(file')
    BY <1>1, <1>2 DEF SoFar, call
  <2>3. \A p \in Taken(file, Orig)' : p < at' => p + patch_size <= at'
    BY <1>1, <1>5, <1>7
  <2> QED BY <1>1, <1>9, <2>1, <2>2, <2>3 DEF SoFar
<1> QED BY <1>1, <1>4, <1>9, <1>10 DEF SieveInv, PatchedAsWhole

LEMMA DryNext ==
  ASSUME SieveInv, FoundDry
  PROVE  SieveInv'
<1>1. /\ Typed /\ SoFar /\ Hit /\ pc = "hit" /\ sought = "orig" /\ dry
      /\ UNCHANGED <<cp, made, copy, call, search, sought, hit, exists, status>>
      /\ applied' /\ pc' = "done"
  BY DEF SieveInv, FoundDry
<1>2. Typed'
  <2>1. applied' \in BOOLEAN
    BY DEF FoundDry
  <2> QED BY <1>1, <2>1 DEF Typed, call, search
<1>3. /\ Places(file, Orig)' = Places(file, Orig) /\ Orig = Needle
      /\ Places(file, Data("patch"))' = Places(file, Data("patch"))
  BY <1>1, <1>2, SameCall DEF call, Orig, Needle
<1>4. Places(file, Orig) # {} \/ Stale
  BY <1>1, <1>3 DEF Hit
<1>5. copy' = file' /\ dry' /\ (Stale' <=> Stale) /\ sought' = "orig"
  BY <1>1 DEF SoFar, Stale, call
<1>6. ~exists' /\ status' # "read"
  BY <1>1 DEF SoFar
<1>7. PatchedAsWhole'
  BY <1>1, <1>3, <1>4, <1>5, <1>6 DEF PatchedAsWhole, Orig
<1> QED BY <1>1, <1>2, <1>7 DEF SieveInv

\* Nothing applied and none left: no place is taken, so there is none.
LEMMA NothingApplied ==
  ASSUME Typed, SoFar, ~applied, NoneLeft, sought = "orig"
  PROVE  Taken(file, Orig) = {} /\ Places(file, Orig) = {}
<1>1. \A p \in Taken(file, Orig) : ~(p < at)
  BY DEF SoFar
<1>2. \A p \in Places(file, Orig) : p < at
  BY DEF NoneLeft, Orig, Needle
<1>3. Taken(file, Orig) = {}
  BY <1>1, <1>2, TakenNow
<1> QED BY <1>3, TakenNow

LEMMA SeekNext ==
  ASSUME SieveInv, SeekPatched
  PROVE  SieveInv'
<1>1. /\ Typed /\ SoFar /\ NoneLeft /\ pc = "search" /\ sought = "orig" /\ ~applied
      /\ UNCHANGED <<cp, made, copy, call, pc, hit, applied, exists, status>>
      /\ sought' = "patch" /\ SearchFrom(0, FALSE) /\ at' = 0
  BY DEF SieveInv, SeekPatched, SearchFrom
<1>2. Typed'
  <2>1. at' \in Nat /\ offset' \in Nat
    BY <1>1 DEF SearchFrom
  <2>2. eof' \in BOOLEAN
    BY <1>1, Zenon DEF SearchFrom
  <2> QED BY <1>1, <2>1, <2>2 DEF Typed, call
<1>3. Taken(file, Orig) = {} /\ Places(file, Orig) = {}
  BY <1>1, NothingApplied
<1>4. /\ Taken(file, Orig)' = Taken(file, Orig) /\ Places(file, Orig)' = Places(file, Orig)
      /\ \A n : PatchedUpTo(n)' = PatchedUpTo(n)
  BY <1>1, <1>2, SameCall DEF call
<1>5. Reading' /\ ~eof' /\ at' = 0
  <2>1. 0 \in Nat /\ 0 <= Len(file')
    BY <1>2 DEF Typed
  <2> QED BY <1>1, <1>2, <2>1, SearchBegins
<1>6. ~Stale' /\ pc' = "search"
  <2>1. ~Stale
    BY <1>1 DEF SoFar
  <2> QED BY <1>1, <2>1 DEF Stale, call
<1>7. SoFar'
  <2>1. copy' = file'
    <3>1. \A p \in Taken(file, Orig) : p < at /\ p < 0
      BY <1>3
    <3>2. PatchedUpTo(at) = Whole /\ PatchedUpTo(0) = Whole
      BY <3>1, WholeIs
    <3> QED BY <1>1, <3>2, NothingYet DEF SoFar, call
  <2>2. PatchedUpTo(at)' = file'
    <3>1. (Typed => PatchedUpTo(0) = file)'
      BY NothingYet, PTL
    <3>2. PatchedUpTo(at)' = PatchedUpTo(0)'
      BY <1>1 DEF PatchedUpTo
    <3> QED BY <1>2, <3>1, <3>2
  <2>3. at' <= Len(file')
    BY <1>1, <1>2 DEF Typed
  <2>4. ~exists' /\ ~applied' /\ status' # "read"
    BY <1>1, <1>6 DEF SoFar, Stale, call
  <2> QED BY <1>1, <1>3, <1>4, <1>6, <2>1, <2>2, <2>3, <2>4 DEF SoFar
<1> QED BY <1>1, <1>2, <1>5, <1>6, <1>7 DEF SieveInv, PatchedAsWhole

LEMMA FoundNext ==
  ASSUME SieveInv, FoundPatched
  PROVE  SieveInv'
<1>1. /\ Typed /\ SoFar /\ Hit /\ pc = "hit" /\ sought = "patch"
      /\ UNCHANGED <<cp, made, copy, call, search, sought, hit, applied, status>>
      /\ exists' /\ pc' = "done"
  BY DEF SieveInv, FoundPatched
<1>2. Typed'
  <2>1. exists' \in BOOLEAN
    BY DEF FoundPatched
  <2> QED BY <1>1, <2>1 DEF Typed, call, search
<1>3. /\ Places(file, Orig)' = Places(file, Orig) /\ Data("patch") = Needle
      /\ Places(file, Data("patch"))' = Places(file, Data("patch"))
      /\ Taken(file, Orig)' = Taken(file, Orig) /\ Whole' = Whole
  BY <1>1, <1>2, SameCall DEF call, Needle
<1>4. Places(file, Orig) = {} /\ Taken(file, Orig) = {}
  BY <1>1, TakenNow DEF SoFar
<1>5. Whole = file /\ PatchedUpTo(at) = file
  <2>1. \A p \in Taken(file, Orig) : p < at /\ p < 0
    BY <1>4
  <2>2. PatchedUpTo(at) = Whole /\ PatchedUpTo(0) = Whole
    BY <2>1, WholeIs
  <2> QED BY <1>1, <2>2, NothingYet
<1>6. Places(file, Data("patch")) # {} \/ Stale
  BY <1>1, <1>3 DEF Hit
<1>7. copy' = file' /\ (Stale' <=> Stale) /\ sought' = "patch" /\ ~applied' /\ status' # "read"
  BY <1>1, <1>4, <1>5 DEF SoFar, Stale, call
<1>8. PatchedAsWhole'
  BY <1>1, <1>3, <1>4, <1>5, <1>6, <1>7 DEF PatchedAsWhole, Orig, call
<1> QED BY <1>1, <1>2, <1>8 DEF SieveInv

LEMMA EndNext ==
  ASSUME SieveInv, SearchEnds
  PROVE  SieveInv'
<1>1. /\ Typed /\ SoFar /\ NoneLeft /\ pc = "search" /\ (applied \/ sought = "patch")
      /\ UNCHANGED <<cp, made, copy, call, search, sought, hit, applied, exists, status>>
      /\ pc' = "done"
  BY DEF SieveInv, SearchEnds
<1>2. Typed'
  BY <1>1 DEF Typed, call, search
<1>3. /\ Places(file, Orig)' = Places(file, Orig)
      /\ Places(file, Data("patch"))' = Places(file, Data("patch"))
      /\ Taken(file, Orig)' = Taken(file, Orig) /\ Whole' = Whole
  BY <1>1, <1>2, SameCall DEF call
<1>4. \A p \in Taken(file, Orig) : p < at
  <2>1. CASE sought = "orig"
    <3>1. Taken(file, Orig) \subseteq Places(file, Needle)
      BY <1>1, <2>1, TakenNow DEF Orig, Needle
    <3> QED BY <1>1, <3>1 DEF NoneLeft
  <2>2. CASE sought # "orig"
    <3>1. Taken(file, Orig) = {}
      BY <1>1, <2>2, TakenNow DEF SoFar, Typed
    <3> QED BY <3>1
  <2> QED BY <2>1, <2>2
<1>5. copy = IF dry THEN file ELSE Whole
  BY <1>1, <1>4, WholeIs DEF SoFar
<1>6. applied <=> Places(file, Orig) # {} \/ (Stale /\ sought = "orig")
  <2>1. Taken(file, Orig) # {} <=> Places(file, Orig) # {}
    BY <1>1, TakenNow
  <2>2. applied <=> Taken(file, Orig) # {} \/ Stale
    BY <1>1, <1>4 DEF SoFar
  <2>3. Stale => sought = "orig"
    BY <1>1 DEF SoFar, Typed
  <2> QED BY <2>1, <2>2, <2>3
<1>7. ~exists /\ (status = "read" => Stale)
  BY <1>1 DEF SoFar
<1>8. ~applied => sought = "patch" /\ Places(file, Data("patch")) = {} /\ ~Stale
  <2> SUFFICES ASSUME ~applied
               PROVE  sought = "patch" /\ Places(file, Data("patch")) = {} /\ ~Stale
    OBVIOUS
  <2>1. sought = "patch" /\ at = 0
    BY <1>1 DEF SoFar
  <2>2. \A p \in Places(file, Needle) : p < 0 /\ p \in Nat
    BY <1>1, <2>1, TakenNow DEF NoneLeft
  <2>3. Needle = Data("patch")
    BY <2>1 DEF Needle
  <2> QED BY <1>1, <2>1, <2>2, <2>3 DEF SoFar
<1>9. PatchedAsWhole'
  <2>1. /\ copy' = copy /\ dry' = dry /\ file' = file /\ (Stale' <=> Stale) /\ sought' = sought
        /\ (applied' <=> applied) /\ (exists' <=> exists) /\ status' = status
    BY <1>1 DEF Stale, call
  <2> QED BY <1>3, <1>5, <1>6, <1>7, <1>8, <2>1 DEF PatchedAsWhole, Orig
<1> QED BY <1>1, <1>2, <1>9 DEF SieveInv

LEMMA MakeNext ==
  ASSUME SieveInv, MakePatch
  PROVE  SieveInv'
<1>1. /\ Typed /\ cp' = MadeFrom(made) /\ pc' \in {"unbuilt", "idle"}
      /\ UNCHANGED <<made, copy, call, search, sought, hit, applied, exists, status>>
  BY DEF SieveInv, MakePatch
<1>2. Typed'
  BY <1>1 DEF Typed, call, search
<1> QED BY <1>1, <1>2 DEF SieveInv, PatchedAsWhole

LEMMA AgainNext ==
  ASSUME SieveInv, Again
  PROVE  SieveInv'
<1>1. /\ Typed /\ pc = "done" /\ pc' = "idle"
      /\ UNCHANGED <<cp, made, copy, call, search, sought, hit, applied, exists, status>>
  BY DEF SieveInv, Again
<1>2. Typed'
  BY <1>1 DEF Typed, call, search
<1> QED BY <1>1, <1>2 DEF SieveInv, PatchedAsWhole

LEMMA IdleNext ==
  ASSUME SieveInv, UNCHANGED vars
  PROVE  SieveInv'
<1>1. /\ UNCHANGED <<cp, made, file, copy, reverse, dry, pc, sought, at, offset, buf, eof, hit>>
      /\ UNCHANGED <<applied, exists, status, runs>> /\ Typed
  BY DEF vars, call, search, SieveInv
<1>2. Typed'
  BY <1>1 DEF Typed
<1>3. /\ Orig' = Orig /\ Needle' = Needle /\ (Stale' <=> Stale) /\ Whole' = Whole
      /\ Places(file, Orig)' = Places(file, Orig) /\ Taken(file, Orig)' = Taken(file, Orig)
      /\ Places(file, Data("patch"))' = Places(file, Data("patch"))
      /\ \A n : PatchedUpTo(n)' = PatchedUpTo(n)
  <2>1. Needle' = Needle /\ (Stale' <=> Stale)
    BY <1>1 DEF Needle, Stale, Data
  <2> QED BY <1>1, <1>2, <2>1, SameCall
<1>4. Places(file, Needle)' = Places(file, Needle)
  BY <1>1, <1>3 DEF Places, search_sieve, MatchAt
<1>5. PatchedUpTo(at)' = PatchedUpTo(at)
  <2>1. PICK n : n = at
    OBVIOUS
  <2>2. PatchedUpTo(at)' = PatchedUpTo(n)'
    BY <1>1, <2>1 DEF PatchedUpTo
  <2> QED BY <1>3, <2>1, <2>2
<1>6. (NoneLeft' <=> NoneLeft) /\ (Reading' <=> Reading)
  BY <1>1, <1>4 DEF NoneLeft, Reading
<1>7. Hit' <=> Hit
  BY <1>1, <1>3, <1>4, <1>6 DEF Hit
<1>8. SoFar' <=> SoFar
  BY <1>1, <1>3, <1>5 DEF SoFar
<1>9. PatchedAsWhole' <=> PatchedAsWhole
  BY <1>1, <1>3 DEF PatchedAsWhole, Orig
<1> QED BY <1>1, <1>2, <1>3, <1>6, <1>7, <1>8, <1>9 DEF SieveInv

LEMMA SieveInit == Init => SieveInv
<1> SUFFICES ASSUME Init PROVE SieveInv
  OBVIOUS
<1>1. /\ made \in Images /\ file \in Seq(Byte) /\ copy = file /\ pc = "make" /\ sought = "orig"
      /\ at = 0 /\ offset = 0 /\ hit = -1 /\ runs = 0
  BY Sizes DEF Init
<1>2. /\ reverse \in BOOLEAN /\ dry \in BOOLEAN /\ eof \in BOOLEAN /\ applied \in BOOLEAN
      /\ exists \in BOOLEAN
  BY Zenon DEF Init
<1>3. Typed
  BY <1>1, <1>2 DEF Typed
<1> QED BY <1>1, <1>3 DEF SieveInv, PatchedAsWhole

LEMMA SieveNext == SieveInv /\ [Next]_vars => SieveInv'
BY MakeNext, StartNext, ReadNext, PlaceNext, PlaceFailsNext, DryNext, SeekNext, FoundNext, EndNext,
   AgainNext, IdleNext DEF Next

\* Whatever the size of the part read at a time, of the file and of the data,
\* search_sieve_file read by patch_selected finds the places a search through
\* the whole file finds, and the copy it leaves is the file with all of them
\* patched; the report is right but for a match past the end of the file.
THEOREM PatchesAsWhole == Spec => []PatchedAsWhole
<1>1. SieveInv => PatchedAsWhole
  BY DEF SieveInv
<1> QED BY <1>1, SieveInit, SieveNext, PTL DEF Spec

--------------------------------------------------------------------------
(* A patch made by makepatch                                               *)

\* What a place is where the patch has been made of the images.
LEMMA ImagesIs ==
  ASSUME Typed, pc # "make", NEW k \in Window
  PROVE  /\ cp.orig[k] = made.original[patch_ofset + k + 1]
         /\ cp.patch[k] = made.patched[patch_ofset + k + 1]
         /\ Part(made.original)[k] = cp.orig[k] /\ Part(made.patched)[k] = cp.patch[k]
         /\ Part(made.dumped)[k] = made.dumped[patch_ofset + k + 1]
         /\ k \in cp.check <=> /\ patch_ofset + k \notin diff_sieve(made.original, made.dumped)
                               /\ patch_ofset + k \notin diff_sieve(made.original, made.relocated)
         /\ k \in cp.modif <=> patch_ofset + k \in diff_sieve(made.original, made.patched)
         /\ \A i \in DOMAIN made : patch_ofset + k \in diff_sieve(made.original, made[i]) <=>
              made.original[patch_ofset + k + 1] # made[i][patch_ofset + k + 1]
<1>1. cp = MadeFrom(made) /\ made \in Images
  BY DEF Typed
<1>2. /\ cp.orig = Part(made.original) /\ cp.patch = Part(made.patched) /\ cp.check = CheckBits(made)
      /\ cp.modif = Cut(diff_sieve(made.original, made.patched))
  BY <1>1 DEF MadeFrom
<1>3. patch_ofset + k \in 0 .. Len(made.original) - 1
  <2>1. made.original \in Seq(Byte) /\ Len(made.original) >= patch_ofset + patch_size
    BY <1>1, SieveAssumption
  <2> QED BY <2>1, Sizes DEF Window
<1>4. \A b : patch_ofset + k \in diff_sieve(made.original, b) <=>
        made.original[patch_ofset + k + 1] # b[patch_ofset + k + 1]
  BY <1>3 DEF diff_sieve
<1> QED BY <1>2, <1>4 DEF Part, CheckBits, Cut

\* The bytes of a file with some places patched, one place over no other.
LEMMA PatchedByte ==
  ASSUME NEW T, NEW q \in DOMAIN file, NEW p \in T, q - 1 - p \in Window,
         \A r \in T : q - 1 - r \in Window => r = p, cp.modif \subseteq Window
  PROVE  PatchedAt(T)[q] = IF q - 1 - p \in cp.modif THEN Data("patch")[q - 1 - p] ELSE file[q]
<1>1. (CHOOSE r \in T : q - 1 - r \in Window) = p
  OBVIOUS
<1>2. (\E r \in T : q - 1 - r \in cp.modif) <=> q - 1 - p \in cp.modif
  OBVIOUS
<1> QED BY <1>1, <1>2 DEF PatchedAt

LEMMA MovedFound == SieveInv => FindsMoved
<1> SUFFICES ASSUME SieveInv, pc = "done", ~dry, ~reverse,
                    NEW p \in 0 .. Len(file) - patch_size,
                    \A k \in Window : \/ patch_ofset + k \in diff_sieve(made.original, made.relocated)
                                      \/ file[p + k + 1] = Part(made.dumped)[k],
                    \A q \in Places(file, Data("orig")) :
                      q = p \/ q + patch_size <= p \/ p + patch_size <= q
             PROVE  /\ applied
                    /\ \A k \in Window : copy[p + k + 1] =
                         IF Part(made.patched)[k] # Part(made.original)[k] THEN Part(made.patched)[k]
                         ELSE file[p + k + 1]
  BY DEF FindsMoved
<1>1. /\ Typed /\ PatchedAsWhole /\ file \in Seq(Byte) /\ Len(file) \in Nat
      /\ p \in Nat /\ p + patch_size <= Len(file)
      /\ cp.check \subseteq Window /\ cp.modif \subseteq Window
  BY Sizes, MadeIs DEF SieveInv, Typed
<1>2. Data("orig") = cp.orig /\ Data("patch") = cp.patch /\ Orig = cp.orig
  BY DEF Data, Orig
<1>3. \A k \in cp.check : file[p + k + 1] = cp.orig[k]
  <2> SUFFICES ASSUME NEW k \in cp.check PROVE file[p + k + 1] = cp.orig[k]
    OBVIOUS
  <2>1. k \in Window /\ "dumped" \in DOMAIN made /\ made["dumped"] = made.dumped
    BY <1>1, SieveAssumption DEF Typed
  <2>2. /\ patch_ofset + k \notin diff_sieve(made.original, made.relocated)
        /\ made.original[patch_ofset + k + 1] = made.dumped[patch_ofset + k + 1]
    BY <1>1, <2>1, ImagesIs
  <2> QED BY <1>1, <2>1, <2>2, ImagesIs
<1>4. p \in Places(file, Orig)
  BY <1>1, <1>2, <1>3, PlacesIs
<1>5. p \in Taken(file, Orig)
  <2>1. ASSUME NEW q \in Taken(file, Orig), q < p
        PROVE  q + patch_size <= p
    BY <1>1, <1>2, <2>1, TakenNow, Sizes
  <2> QED BY <1>1, <1>4, <2>1, TakenNow
<1>6. applied
  BY <1>1, <1>2, <1>4 DEF PatchedAsWhole
<1>7. copy = PatchedAt(Taken(file, Orig))
  BY <1>1 DEF PatchedAsWhole, Whole, Orig
<1>8. ASSUME NEW k \in Window
      PROVE  copy[p + k + 1] =
               IF Part(made.patched)[k] # Part(made.original)[k] THEN Part(made.patched)[k]
               ELSE file[p + k + 1]
  <2>1. k \in Nat /\ k < patch_size
    BY Sizes DEF Window
  <2>2. p + k + 1 \in DOMAIN file /\ (p + k + 1) - 1 - p = k
    BY <1>1, <2>1, Sizes
  <2>3. ASSUME NEW r \in Taken(file, Orig), (p + k + 1) - 1 - r \in Window
        PROVE  r = p
    <3>1. r \in Places(file, Orig) /\ r \in Nat
      BY <1>1, TakenNow
    <3>2. r = p \/ r + patch_size <= p \/ p + patch_size <= r
      BY <1>2, <3>1
    <3> QED BY <1>1, <2>1, <2>3, <3>1, <3>2, Sizes DEF Window
  <2>4. copy[p + k + 1] = IF k \in cp.modif THEN cp.patch[k] ELSE file[p + k + 1]
    <3> DEFINE q == p + k + 1
    <3>1. q - 1 - p = k
      BY <1>1, <2>1
    <3>2. q \in DOMAIN file /\ q - 1 - p = k /\ k \in Window
      BY <2>2, <3>1
    <3>3. \A r \in Taken(file, Orig) : q - 1 - r \in Window => r = p
      BY <2>3
    <3> HIDE DEF q
    <3>4. PatchedAt(Taken(file, Orig))[q] =
            IF q - 1 - p \in cp.modif THEN Data("patch")[q - 1 - p] ELSE file[q]
      BY <1>1, <1>5, <3>2, <3>3, PatchedByte
    <3>5. copy[q] = IF k \in cp.modif THEN cp.patch[k] ELSE file[q]
      BY <1>2, <1>7, <3>2, <3>4
    <3> QED BY <3>5 DEF q
  <2>5. "patched" \in DOMAIN made /\ made["patched"] = made.patched
    BY <1>1, SieveAssumption DEF Typed
  <2>6. k \in cp.modif <=> Part(made.patched)[k] # Part(made.original)[k]
    BY <1>1, <2>5, ImagesIs
  <2> QED BY <1>1, <2>4, <2>6, ImagesIs
<1> QED BY <1>6, <1>8

Call    == [reverse |-> reverse, dry |-> dry]
Onwards == [reverse |-> FALSE, dry |-> FALSE]

\* The first file with every place patched.
Forward ==
  LET T == Taken(first.file, cp.orig)
  IN  [q \in DOMAIN first.file |->
         IF \E p \in T : q - 1 - p \in cp.modif
         THEN cp.patch[q - 1 - CHOOSE p \in T : q - 1 - p \in Window]
         ELSE first.file[q]]

\* What the calls made of the first file, as far as two of them.
History ==
  /\ first = [file |-> first.file, calls |-> first.calls]
  /\ first.file \in Seq(Byte)
  /\ first.calls \in Seq([reverse : BOOLEAN, dry : BOOLEAN])
  /\ pc \notin {"make", "unbuilt"} => ~Clash(made)
  /\ pc \in {"make", "unbuilt"} => first.calls = << >>
  /\ first.calls = << >> => pc \in {"make", "unbuilt", "idle"} /\ copy = first.file
  /\ \A c : first.calls = <<c>> => c = Call /\ file = first.file
  /\ first.calls = <<Onwards>> /\ pc = "idle" => copy = Forward
  /\ \A c : first.calls = <<Onwards, c>> => c = Call /\ file = Forward

\* The steps of a call.
LEMMA CallGoes ==
  ASSUME History, UNCHANGED <<cp, made, call>>,
         pc \notin {"make", "unbuilt", "idle"}, pc' \notin {"make", "unbuilt", "idle"}
  PROVE  History'
<1>1. /\ UNCHANGED <<cp, made, file, reverse, dry, first>> /\ first.calls # << >>
  BY DEF call, History
<1>2. Places(first.file, cp.orig)' = Places(first.file, cp.orig)
  BY <1>1 DEF Places, search_sieve, MatchAt
<1>3. Taken(first.file, cp.orig)' = Taken(first.file, cp.orig)
  BY <1>1, <1>2 DEF Taken
<1>4. Forward' = Forward /\ Call' = Call
  BY <1>1, <1>3 DEF Forward, Call
<1> QED BY <1>1, <1>4 DEF History

LEMMA MakeKeeps ==
  ASSUME History, MakePatch
  PROVE  History'
<1>1. /\ UNCHANGED <<made, copy, file, reverse, dry, first>> /\ first.calls = << >>
      /\ copy = first.file /\ pc' \in {"unbuilt", "idle"} /\ (pc' # "unbuilt" => ~Clash(made))
  BY DEF call, History, MakePatch
<1>2. Clash(made)' <=> Clash(made)
  BY <1>1 DEF Clash, diff_sieve
<1> QED BY <1>1, <1>2 DEF History

LEMMA AgainKeeps ==
  ASSUME SieveInv, History, Again
  PROVE  History'
<1>1. /\ UNCHANGED <<cp, made, copy, file, reverse, dry, first>> /\ first.calls # << >>
      /\ pc = "done" /\ pc' = "idle" /\ Typed /\ PatchedAsWhole
  BY DEF call, History, Again, SieveInv
<1>2. Places(first.file, cp.orig)' = Places(first.file, cp.orig)
  BY <1>1 DEF Places, search_sieve, MatchAt
<1>3. Taken(first.file, cp.orig)' = Taken(first.file, cp.orig)
  BY <1>1, <1>2 DEF Taken
<1>4. Forward' = Forward /\ Call' = Call
  BY <1>1, <1>3 DEF Forward, Call
<1>5. ASSUME first.calls = <<Onwards>>
      PROVE  copy = Forward
  <2>1. Onwards = Call /\ file = first.file
    BY <1>5 DEF History
  <2>2. ~reverse /\ ~dry
    BY <2>1 DEF Call, Onwards
  <2>3. Data("orig") = cp.orig /\ Data("patch") = cp.patch
    BY <2>2 DEF Data
  <2>4. copy = PatchedAt(Taken(first.file, cp.orig))
    BY <1>1, <2>1, <2>2, <2>3 DEF PatchedAsWhole, Whole
  <2> QED BY <2>1, <2>3, <2>4 DEF PatchedAt, Forward
<1>6. (first.calls = <<Onwards>> /\ pc = "idle" => copy = Forward)'
  BY <1>1, <1>4, <1>5 DEF Onwards
<1> QED BY <1>1, <1>4, <1>6 DEF History, Onwards

LEMMA AppendIs ==
  ASSUME NEW S, NEW s \in Seq(S), NEW e \in S
  PROVE  /\ \A c : Append(s, e) = <<c>> => c = e /\ s = << >>
         /\ \A c, d : Append(s, e) = <<d, c>> => c = e /\ s = <<d>>
<1>1. Len(Append(s, e)) = Len(s) + 1 /\ Append(s, e)[Len(s) + 1] = e /\ Len(s) \in Nat
  BY AppendProperties
<1>2. \A i \in 1 .. Len(s) : Append(s, e)[i] = s[i]
  BY AppendProperties
<1>3. ASSUME NEW c, Append(s, e) = <<c>>
      PROVE  c = e /\ s = << >>
  <2>1. Len(<<c>>) = 1 /\ <<c>>[1] = c
    OBVIOUS
  <2>2. Len(s) = 0
    BY <1>1, <1>3, <2>1
  <2> QED BY <1>1, <1>3, <2>1, <2>2, EmptySeq
<1>4. ASSUME NEW c, NEW d, Append(s, e) = <<d, c>>
      PROVE  c = e /\ s = <<d>>
  <2>1. Len(<<d, c>>) = 2 /\ <<d, c>>[1] = d /\ <<d, c>>[2] = c
    OBVIOUS
  <2>2. Len(Append(s, e)) = 2
    BY <1>4, <2>1
  <2>4. Len(s) + 1 = 2
    BY <1>1, <2>2, Zenon
  <2>5. Len(s) = 1
    <3>1. PICK n \in Nat : n = Len(s)
      OBVIOUS
    <3> QED BY <2>4, <3>1
  <2>3. s[1] = d /\ c = e
    BY <1>1, <1>2, <1>4, <2>1, <2>5
  <2> QED BY <2>3, <2>5
<1> QED BY <1>3, <1>4

LEMMA StartKeeps ==
  ASSUME SieveInv, History, Start
  PROVE  History'
<1>1. /\ UNCHANGED <<cp, made, copy>> /\ file' = copy /\ pc = "idle" /\ pc' = "search"
      /\ reverse' \in BOOLEAN /\ dry' \in BOOLEAN
      /\ first' = [first EXCEPT !.calls = Append(@, Call')]
  BY DEF Start, Call
<1>2. /\ first' = [file |-> first.file, calls |-> Append(first.calls, Call')]
      /\ first'.file = first.file /\ first'.calls = Append(first.calls, Call')
  <2>1. first = [file |-> first.file, calls |-> first.calls]
    BY DEF History
  <2> QED BY <1>1, <2>1
<1>3. Call' \in [reverse : BOOLEAN, dry : BOOLEAN]
  BY <1>1 DEF Call
<1>4. Places(first.file, cp.orig)' = Places(first.file, cp.orig)
  BY <1>1, <1>2 DEF Places, search_sieve, MatchAt
<1>5. Taken(first.file, cp.orig)' = Taken(first.file, cp.orig)
  BY <1>4 DEF Taken
<1>6. Forward' = Forward
  <2>1. first'.file = first.file /\ cp' = cp
    BY <1>1, <1>2
  <2> QED BY <1>5, <2>1 DEF Forward
<1>7. first.calls \in Seq([reverse : BOOLEAN, dry : BOOLEAN])
  BY DEF History
<1>8. ASSUME NEW c, first'.calls = <<c>>
      PROVE  c = Call' /\ first.calls = << >>
  <2>1. \A x : Append(first.calls, Call') = <<x>> => x = Call' /\ first.calls = << >>
    <3>1. PICK s : s = first.calls
      OBVIOUS
    <3>2. PICK e : e = Call'
      OBVIOUS
    <3>3. s \in Seq([reverse : BOOLEAN, dry : BOOLEAN]) /\ e \in [reverse : BOOLEAN, dry : BOOLEAN]
      BY <1>3, <1>7, <3>1, <3>2
    <3>4. \A x : Append(s, e) = <<x>> => x = e /\ s = << >>
      <4>1. PICK S : S = [reverse : BOOLEAN, dry : BOOLEAN]
        OBVIOUS
      <4>2. s \in Seq(S) /\ e \in S
        BY <3>3, <4>1
      <4> QED BY ONLY <4>2, AppendIs
    <3> QED BY <3>1, <3>2, <3>4
  <2> QED BY <1>2, <1>8, <2>1
<1>9. ASSUME NEW c, NEW d, first'.calls = <<d, c>>
      PROVE  c = Call' /\ first.calls = <<d>>
  <2>1. Append(first.calls, Call') = <<d, c>>
    BY <1>2, <1>9
  <2> QED BY <1>3, <1>7, <2>1, AppendIs
<1>10. first'.calls # << >> /\ first'.calls \in Seq([reverse : BOOLEAN, dry : BOOLEAN])
  BY <1>2, <1>3, <1>7
<1>11. \A c : first'.calls = <<c>> => c = Call' /\ file' = first'.file
  BY <1>1, <1>2, <1>8 DEF History
<1>12. \A c : first'.calls = <<Onwards, c>> => c = Call' /\ file' = Forward'
  BY <1>1, <1>6, <1>9 DEF History
<1>13. ~Clash(made)'
  BY <1>1 DEF History, Clash, diff_sieve
<1>14. first' = [file |-> first'.file, calls |-> first'.calls] /\ first'.file \in Seq(Byte)
  BY <1>2 DEF History
<1> QED BY <1>1, <1>10, <1>11, <1>12, <1>13, <1>14 DEF History, Onwards

LEMMA HistoryIdle ==
  ASSUME History, UNCHANGED vars
  PROVE  History'
<1>1. UNCHANGED <<cp, made, file, copy, reverse, dry, first, pc>>
  BY DEF vars, call
<1>2. Places(first.file, cp.orig)' = Places(first.file, cp.orig)
  BY <1>1 DEF Places, search_sieve, MatchAt
<1>3. Taken(first.file, cp.orig)' = Taken(first.file, cp.orig)
  BY <1>2 DEF Taken
<1>4. Forward' = Forward /\ Call' = Call /\ (Clash(made)' <=> Clash(made))
  BY <1>1, <1>3 DEF Forward, Call, Clash, diff_sieve
<1> QED BY <1>1, <1>4 DEF History, Onwards

LEMMA HistoryInit == Init => History
<1> SUFFICES ASSUME Init PROVE History
  OBVIOUS
<1>1. /\ file \in Seq(Byte) /\ copy = file /\ pc = "make" /\ first = [file |-> file, calls |-> << >>]
  BY Sizes DEF Init
<1>2. first.file = file /\ first.calls = << >>
  BY <1>1
<1>3. \A c : first.calls # <<c>> /\ first.calls # <<Onwards, c>>
  BY <1>2
<1>4. first.calls \in Seq([reverse : BOOLEAN, dry : BOOLEAN])
  BY <1>2
<1> QED BY <1>1, <1>2, <1>3, <1>4 DEF History

LEMMA HistoryNext == SieveInv /\ History /\ [Next]_vars => History'
<1> SUFFICES ASSUME SieveInv, History, [Next]_vars PROVE History'
  OBVIOUS
<1>1. CASE ReadPart
  <2>1. UNCHANGED <<cp, made, call>> /\ pc = "search" /\ pc' \in {"search", "hit"}
    BY <1>1 DEF ReadPart
  <2> QED BY <2>1, CallGoes
<1>2. CASE PatchPlace \/ ReadPlaceFails
  <2>1. UNCHANGED <<cp, made, call>> /\ pc = "hit" /\ pc' = "search"
    BY <1>2 DEF PatchPlace, ReadPlaceFails
  <2> QED BY <2>1, CallGoes
<1>3. CASE FoundDry \/ FoundPatched
  <2>1. UNCHANGED <<cp, made, call>> /\ pc = "hit" /\ pc' = "done"
    BY <1>3 DEF FoundDry, FoundPatched
  <2> QED BY <2>1, CallGoes
<1>4. CASE SeekPatched \/ SearchEnds
  <2>1. UNCHANGED <<cp, made, call>> /\ pc = "search" /\ pc' \in {"search", "done"}
    BY <1>4 DEF SeekPatched, SearchEnds
  <2> QED BY <2>1, CallGoes
<1> QED BY <1>1, <1>2, <1>3, <1>4, MakeKeeps, StartKeeps, AgainKeeps, HistoryIdle DEF Next

LEMMA RevertedThere == SieveInv /\ History => MadeReverts
<1> DEFINE taken == Taken(first.file, cp.orig)
           lost  == cp.modif \cap Cut(diff_sieve(made.original, made.dumped))
<1> SUFFICES ASSUME SieveInv, History, pc = "done",
                    first.calls = <<Onwards, [reverse |-> TRUE, dry |-> FALSE]>>,
                    Places(file, cp.patch) = taken,
                    NEW q \in DOMAIN copy
             PROVE  copy[q] = first.file[q] \/ \E p \in taken : q - 1 - p \in lost
  BY DEF MadeReverts, Onwards
<1>1. /\ Typed /\ PatchedAsWhole /\ file \in Seq(Byte) /\ first.file \in Seq(Byte) /\ ~Clash(made)
      /\ cp.check \subseteq Window /\ cp.modif \subseteq Window
  BY MadeIs DEF SieveInv, Typed, History
<1>2. file = Forward /\ [reverse |-> TRUE, dry |-> FALSE] = Call
  BY DEF History
<1>3. reverse /\ ~dry
  BY <1>2 DEF Call
<1>4. Data("orig") = cp.patch /\ Data("patch") = cp.orig /\ Orig = cp.patch
  BY <1>3 DEF Data, Orig
<1>5. /\ \A p \in taken : p \in Nat /\ p + patch_size <= Len(first.file)
                          /\ \A k \in cp.check : first.file[p + k + 1] = cp.orig[k]
      /\ \A p, r \in taken : r < p => r + patch_size <= p
  <2>1. taken \subseteq Places(first.file, cp.orig)
    BY <1>1, TakenIs
  <2>2. \A p, r \in taken : r < p => r + patch_size <= p
    BY <1>1, <2>1, TakenIs
  <2>3. \A p \in Places(first.file, cp.orig) :
          /\ p \in Nat /\ p + patch_size <= Len(first.file)
          /\ \A k \in cp.check : first.file[p + k + 1] = cp.orig[k]
    BY <1>1, PlacesIs
  <2> QED BY <2>1, <2>2, <2>3
<1> HIDE DEF taken
<1>6. Taken(file, Orig) = taken
  <2>1. Places(file, Orig) = taken
    BY <1>4
  <2>2. /\ Taken(file, Orig) \subseteq taken
        /\ \A p \in taken : p \in Taken(file, Orig) <=>
                              \A r \in Taken(file, Orig) : r < p => r + patch_size <= p
    BY <1>1, <2>1, TakenNow
  <2> QED BY <1>5, <2>2
<1>7. copy = PatchedAt(taken)
  BY <1>1, <1>3, <1>6 DEF PatchedAsWhole, Whole, Orig
<1>8. DOMAIN copy = DOMAIN file /\ DOMAIN file = DOMAIN first.file /\ q \in Nat
  <2>1. DOMAIN copy = DOMAIN file /\ DOMAIN file = DOMAIN first.file
    BY <1>2, <1>7 DEF PatchedAt, Forward
  <2> QED BY <1>1, <2>1
<1>9. CASE \E p \in taken : q - 1 - p \in cp.modif
  <2>1. PICK p \in taken : q - 1 - p \in cp.modif
    BY <1>9
  <2> DEFINE k == q - 1 - p
  <2>2. p \in Nat /\ k \in Window /\ p + k + 1 = q
    BY <1>1, <1>5, <1>8, <2>1
  <2>3. \A r \in taken : q - 1 - r \in Window => r = p
    BY <1>5, <1>8, <2>2, Sizes, SMTT(60) DEF Window
  <2>4. copy[q] = cp.orig[k]
    BY <1>1, <1>4, <1>7, <1>8, <2>1, <2>2, <2>3, PatchedByte
  <2> HIDE DEF k
  <2>5. k \in cp.modif
    BY <2>1 DEF k
  <2>6. /\ "dumped" \in DOMAIN made /\ made["dumped"] = made.dumped
        /\ "patched" \in DOMAIN made /\ "relocated" \in DOMAIN made
    BY <1>1, SieveAssumption DEF Typed
  <2>7. patch_ofset + k \in diff_sieve(made.original, made.patched)
    BY <1>1, <2>2, <2>5, ImagesIs
  <2>8. patch_ofset + k \notin diff_sieve(made.original, made.relocated)
    BY <1>1, <2>7 DEF Clash
  <2>9. CASE patch_ofset + k \in diff_sieve(made.original, made.dumped)
    <3>1. k \in lost
      BY <2>2, <2>5, <2>9 DEF Cut
    <3> QED BY <3>1 DEF k
  <2>10. CASE patch_ofset + k \notin diff_sieve(made.original, made.dumped)
    <3>1. k \in cp.check
      BY <1>1, <2>2, <2>8, <2>10, ImagesIs
    <3>2. first.file[q] = cp.orig[k]
      BY <1>5, <2>2, <3>1
    <3> QED BY <2>4, <3>2
  <2> QED BY <2>9, <2>10
<1>10. CASE ~\E p \in taken : q - 1 - p \in cp.modif
  <2>1. copy[q] = file[q]
    BY <1>7, <1>8, <1>10 DEF PatchedAt
  <2>2. file[q] = first.file[q]
    BY <1>2, <1>8, <1>10 DEF Forward, taken
  <2> QED BY <2>1, <2>2
<1> QED BY <1>9, <1>10

\* A patch makepatch did not refuse finds its routine wherever the linker put
\* it, writes the new code and leaves the addresses, and -reverse puts back the
\* file that was there, but for the bytes at which the dump is not as assembled.
THEOREM MadePatchesRight == Spec => []MadeRight
<1>1. Init => SieveInv /\ History
  BY SieveInit, HistoryInit
<1>2. SieveInv /\ History /\ [Next]_vars => SieveInv' /\ History'
  BY SieveNext, HistoryNext
<1>3. SieveInv /\ History => MadeRight
  BY MovedFound, RevertedThere DEF MadeRight
<1> QED BY <1>1, <1>2, <1>3, PTL DEF Spec
==============================================================================
