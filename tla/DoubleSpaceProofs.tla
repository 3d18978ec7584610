-------------------------- MODULE DoubleSpaceProofs --------------------------
(***************************************************************************)
(* Proofs about DoubleSpace: for every block, every size of the segments   *)
(* and whatever ds_lookup finds, ds_decompress gives back what ds_compress *)
(* was given, and it stays inside its block whatever the stream holds.     *)
(* From the invariant of the codec follows that of W4File, where every     *)
(* chunk of a file is given to it: how long its code can be is what tells  *)
(* the chunks apart.  At the end the code itself: what the bits of a token *)
(* are read as, whatever stands behind them.                               *)
(***************************************************************************)
EXTENDS W4File, FiniteSetTheorems, SequenceTheorems, TLAPS

LEMMA Sizes ==
  /\ 0 \in Byte
  /\ Capacity \in Nat
  /\ Segment \in Nat /\ Segment > 0
  /\ MaxDepth \in Nat
  /\ \A n \in Tries : n \in Nat /\ n > 0
  /\ MinRun \in Nat /\ MinRun > 1
<1>1. \A n \in Tries : n \in Nat /\ n > 0
  BY SizesAssumption
<1> QED BY <1>1, SizesAssumption

\* Sequences that grow at the end.
LEMMA OneMore ==
  ASSUME NEW S, NEW s \in Seq(S), NEW a \in S
  PROVE  /\ s \o <<a>> \in Seq(S)
         /\ Len(s \o <<a>>) = Len(s) + 1
         /\ \A n \in 1 .. Len(s) : (s \o <<a>>)[n] = s[n]
         /\ (s \o <<a>>)[Len(s) + 1] = a
         /\ Append(s, a) = s \o <<a>>
OBVIOUS

LEMMA LastOne == ASSUME NEW a PROVE <<a>>[Len(<<a>>)] = a
OBVIOUS

LEMMA LastTwo == ASSUME NEW a, NEW b PROVE <<a, b>>[Len(<<a, b>>)] = b
OBVIOUS

LEMMA TwoAtOnce ==
  ASSUME NEW S, NEW s \in Seq(S), NEW a \in S, NEW b \in S
  PROVE  (s \o <<a>>) \o <<b>> = s \o <<a, b>>
<1>1. <<a>> \in Seq(S) /\ <<b>> \in Seq(S) /\ <<a, b>> \in Seq(S)
  OBVIOUS
<1>2. <<a>> \o <<b>> = <<a, b>>
  <2> DEFINE u == <<a>> \o <<b>>
             v == <<a, b>>
  <2>1. u \in Seq(S) /\ Len(u) = 2 /\ u[1] = a /\ u[2] = b
    BY <1>1, ConcatProperties
  <2>2. v \in Seq(S) /\ Len(v) = 2 /\ v[1] = a /\ v[2] = b
    OBVIOUS
  <2> HIDE DEF u, v
  <2>3. \A i \in 1 .. 2 : u[i] = v[i]
    BY <2>1, <2>2
  <2>4. u = v
    BY <2>1, <2>2, <2>3, SeqEqual
  <2> QED BY <2>4 DEF u, v
<1>3. (s \o <<a>>) \o <<b>> = s \o (<<a>> \o <<b>>)
  BY <1>1, ConcatAssociative
<1> QED BY <1>2, <1>3

\* What a token says depends on the block alone.
LEMMA SaysStays ==
  ASSUME block' = block, NEW t, NEW p, NEW q
  PROVE  Says(t, p, q)' <=> Says(t, p, q)
BY DEF Says, Repeats

LEMMA InitInv == Init => DsInv
<1> SUFFICES ASSUME NEW b \in Blocks, Given(b) PROVE DsInv
  BY DEF Init
<1>1. b \in Seq(Byte) /\ Len(b) <= Capacity
  BY SizesAssumption
<1>2. DsTypeOK
  BY <1>1, SizesAssumption DEF Given, DsTypeOK, Phases
<1>3. Lesser(seg * Segment, Len(block)) <= pos
  BY <1>1, SizesAssumption DEF Given, Lesser
<1>4. StreamInv
  BY <1>3 DEF Given, StreamInv
<1>5. ReadInv /\ OutInv /\ InBounds /\ RoundTrip
  <2>1. /\ phase = "pack" /\ out = << >> /\ next = 1 /\ intact = 0 /\ todo = 0
    BY DEF Given
  <2>2. OutInv
    BY <2>1 DEF OutInv
  <2> QED BY <2>1, <2>2, Sizes DEF ReadInv, InBounds, RoundTrip
<1> QED BY <1>2, <1>4, <1>5 DEF DsInv

LEMMA FirstOfAll == ASSUME NEW a, NEW b \in Nat, a = 1 PROVE ~(a > b + 1)
OBVIOUS

\* While ds_compress runs the decompressor has not begun.
LEMMA Unread ==
  ASSUME DsInv, phase \in {"pack", "packed"}, UNCHANGED unpacking,
         phase' \in {"pack", "packed"}, intact' \in Nat
  PROVE  ReadInv' /\ OutInv' /\ InBounds' /\ RoundTrip'
<1>1. out = << >> /\ next = 1 /\ todo = 0
  BY DEF DsInv, ReadInv
<1>2. out' = << >> /\ next' = 1 /\ todo' = 0
  BY <1>1 DEF unpacking
<1>3. /\ phase' # "copy" /\ phase' # "unpack" /\ phase' # "unpacked"
      /\ ~(next' > intact' + 1) /\ Len(out') = 0
  <2>1. phase' \in {"pack", "packed"}
    OBVIOUS
  <2>2. phase' # "copy" /\ phase' # "unpack" /\ phase' # "unpacked"
    BY ONLY <2>1
  <2>3. Len(out') = 0
    BY <1>2
  <2>4. next' = 1 /\ intact' \in Nat
    BY <1>2
  <2>5. ~(next' > intact' + 1)
    BY ONLY <2>4, FirstOfAll
  <2> QED BY <2>2, <2>3, <2>5
<1>4. ReadInv'
  BY <1>2, <1>3 DEF ReadInv
<1>5. InBounds'
  BY <1>2, <1>3, Sizes DEF InBounds
<1>6. RoundTrip'
  BY <1>3 DEF RoundTrip
<1>7. OutInv'
  BY <1>3 DEF OutInv
<1> QED BY <1>4, <1>5, <1>6, <1>7

\* Tokens s written from byte 0 to byte p, which tell what the block holds.
Good(s, ps, p) ==
  /\ s \in Seq(Token)
  /\ \A n \in 1 .. Len(s) : s[n].kind = "copy" => s[n].dist > 0
  /\ ps \in Seq(Nat)
  /\ Len(ps) = Len(s) + 1
  /\ ps[1] = 0
  /\ ps[Len(s) + 1] = p
  /\ \A n \in 1 .. Len(s) : Says(s[n], ps[n], ps[n + 1])

LEMMA OneToken ==
  ASSUME NEW s, NEW ps, NEW p, Good(s, ps, p),
         NEW t \in Token, NEW q \in Nat,
         Says(t, p, q), t.kind = "copy" => t.dist > 0
  PROVE  Good(s \o <<t>>, ps \o <<q>>, q)
<1> DEFINE s2 == s \o <<t>>
           p2 == ps \o <<q>>
<1>1. PICK m \in Nat : m = Len(s)
  BY DEF Good
<1>2. /\ s2 \in Seq(Token) /\ Len(s2) = m + 1
      /\ \A n \in 1 .. m : s2[n] = s[n]
      /\ s2[m + 1] = t
  BY <1>1, OneMore DEF Good
<1>3. /\ p2 \in Seq(Nat) /\ Len(p2) = (m + 1) + 1
      /\ \A n \in 1 .. m + 1 : p2[n] = ps[n]
      /\ p2[(m + 1) + 1] = q
  BY <1>1, OneMore DEF Good
<1> HIDE DEF s2, p2
<1>4. ASSUME NEW n \in 1 .. m + 1 PROVE Says(s2[n], p2[n], p2[n + 1])
  <2>1. CASE n \in 1 .. m
    <3>1. Says(s[n], ps[n], ps[n + 1])
      BY <1>1, <2>1 DEF Good
    <3>2. s2[n] = s[n] /\ p2[n] = ps[n] /\ p2[n + 1] = ps[n + 1]
      BY <1>2, <1>3, <2>1
    <3> QED BY <3>1, <3>2
  <2>2. CASE n = m + 1
    BY <1>1, <1>2, <1>3, <2>2 DEF Good
  <2> QED BY <2>1, <2>2
<1>5. \A n \in 1 .. m + 1 : s2[n].kind = "copy" => s2[n].dist > 0
  BY <1>1, <1>2, SMTT(60) DEF Good
<1>6. p2[1] = 0
  BY <1>1, <1>3 DEF Good
<1>7. Good(s2, p2, q)
  BY ONLY <1>1, <1>2, <1>3, <1>4, <1>5, <1>6 DEF Good
<1> QED BY <1>7 DEF s2, p2

\* What the invariant says of the tokens while ds_compress runs.
LEMMA PackGood == ASSUME DsInv, phase = "pack" PROVE Good(stream, starts, pos)
BY DEF DsInv, DsTypeOK, StreamInv, Good

\* Once more tokens are written that tell the truth the invariant holds.
LEMMA GoodPack ==
  ASSUME DsInv, phase = "pack", phase' = "pack", block' = block, UNCHANGED unpacking,
         Good(stream', starts', pos'), intact' = Len(stream'),
         seg' \in Nat, pos' \in 0 .. Len(block),
         Lesser(seg' * Segment, Len(block)) <= pos'
  PROVE  DsInv'
<1>1. DsTypeOK'
  BY SMTT(60) DEF DsInv, DsTypeOK, unpacking, Good, Phases
<1>2. (\A n \in 1 .. intact : Says(stream[n], starts[n], starts[n + 1]))'
  BY SaysStays DEF Good, Says, Repeats
<1>3. StreamInv'
  BY <1>2 DEF StreamInv, Good, Lesser
<1>4. intact' \in Nat
  BY <1>1 DEF DsTypeOK
<1> QED BY <1>1, <1>3, <1>4, Unread DEF DsInv

\* Where ds_compress is inside a segment.
LEMMA SegTyped ==
  ASSUME DsInv
  PROVE  /\ block \in Seq(Byte) /\ Len(block) \in Nat /\ pos \in Nat /\ seg \in Nat
         /\ seg * Segment \in Nat /\ (seg + 1) * Segment \in Nat
         /\ SegEnd \in Nat /\ SegEnd <= Len(block) /\ pos <= Len(block)
         /\ seg * Segment <= SegEnd \/ SegEnd = Len(block)
<1>1. /\ block \in Seq(Byte) /\ Len(block) \in Nat /\ pos \in Nat /\ seg \in Nat
      /\ pos <= Len(block)
  BY DEF DsInv, DsTypeOK
<1>2. seg * Segment \in Nat /\ (seg + 1) * Segment = seg * Segment + Segment
  BY <1>1, SizesAssumption
<1> QED BY <1>1, <1>2, SizesAssumption DEF SegEnd, Lesser

LEMMA WrittenInv ==
  ASSUME DsInv, InSegment, NEW ts, NEW ps, Written(ts, ps), NEW p \in pos .. SegEnd,
         ps[Len(ps)] = p, Good(stream \o ts, starts \o ps, p)
  PROVE  DsInv'
<1>1. /\ phase = "pack" /\ phase' = "pack" /\ block' = block /\ seg' = seg
      /\ UNCHANGED unpacking
      /\ Good(stream', starts', pos') /\ intact' = Len(stream') /\ pos' = p
  BY DEF InSegment, Written
<1>2. pos' \in 0 .. Len(block) /\ Lesser(seg * Segment, Len(block)) <= pos
  BY <1>1, SegTyped DEF DsInv, StreamInv
<1>3. Lesser(seg' * Segment, Len(block)) <= pos'
  BY <1>1, <1>2, SegTyped DEF Lesser
<1> QED BY <1>1, <1>2, <1>3, SegTyped, GoodPack

LEMMA PackInv == ASSUME DsInv, PackStep PROVE DsInv'
<1>0. /\ block \in Seq(Byte) /\ Len(block) \in Nat /\ pos \in Nat /\ seg \in Nat
      /\ SegEnd \in Nat /\ SegEnd <= Len(block) /\ pos <= Len(block)
  BY SegTyped
<1>1. CASE PutCopy
  <2>1. PICK m \in Matches : Written(<<Copy(m.dist, m.len)>>, <<pos + m.len>>)
    BY <1>1 DEF PutCopy
  <2>2. /\ m.dist \in Nat /\ m.len \in Nat /\ m.len > 0 /\ m.dist >= m.len
        /\ m.dist <= pos /\ pos + m.len <= SegEnd /\ Repeats(pos, m.dist, m.len)
    <3>1. /\ m.dist \in 1 .. MaxDepth /\ m.len \in Tries /\ m.dist >= m.len
          /\ m.dist <= pos /\ pos + m.len <= SegEnd /\ Repeats(pos, m.dist, m.len)
      BY DEF Matches
    <3> QED BY ONLY <3>1, <1>0, Sizes
  <2>3. InSegment /\ Good(stream, starts, pos)
    BY <1>1, PackGood DEF PutCopy, InSegment
  <2>4. Copy(m.dist, m.len) \in Token
    BY <2>2, SizesAssumption DEF Copy, Token
  <2>5. Says(Copy(m.dist, m.len), pos, pos + m.len)
    BY <1>0, <2>2 DEF Says, Copy
  <2>6. pos + m.len \in Nat /\ pos + m.len \in pos .. SegEnd /\ Copy(m.dist, m.len).dist > 0
    BY <1>0, <2>2 DEF Copy
  <2>7. Good(stream \o <<Copy(m.dist, m.len)>>, starts \o <<pos + m.len>>, pos + m.len)
    BY ONLY <2>3, <2>4, <2>5, <2>6, OneToken
  <2> QED BY ONLY DsInv, <2>1, <2>3, <2>6, <2>7, LastOne, WrittenInv
<1>2. CASE PutRun
  <2>1. PICK n \in MinRun .. Len(block) :
          /\ IsRun(n)
          /\ Written(<<Chr(block[pos + 1]), Copy(1, n - 1)>>, <<pos + 1, pos + n>>)
    BY <1>2 DEF PutRun
  <2> DEFINE c == Chr(block[pos + 1])
             r == Copy(1, n - 1)
  <2>2. n \in Nat /\ n > 1 /\ pos + n <= SegEnd /\ Repeats(pos + 1, 1, n - 1)
    <3>1. n \in Nat /\ n > 1
      BY <2>1, Sizes, <1>0
    <3>2. n \in 1 .. SegEnd - pos /\ Repeats(pos + 1, 1, n - 1)
      BY <2>1 DEF IsRun
    <3> QED BY <3>1, <3>2, <1>0
  <2>3. InSegment /\ Good(stream, starts, pos)
    BY <1>2, PackGood DEF PutRun, InSegment
  <2>4. c \in Token /\ r \in Token
    <3>1. block[pos + 1] \in Byte
      BY <1>0, <2>2
    <3> QED BY <2>2, <3>1, Sizes DEF Chr, Copy, Token
  <2>5. Says(c, pos, pos + 1) /\ Says(r, pos + 1, pos + n)
    BY <1>0, <2>2 DEF Says, Chr, Copy
  <2>6. c.kind # "copy" /\ r.dist > 0 /\ pos + 1 \in Nat /\ pos + n \in Nat
        /\ pos + n \in pos .. SegEnd
    BY <1>0, <2>2 DEF Chr, Copy
  <2> HIDE DEF c, r
  <2>7. Good(stream \o <<c>>, starts \o <<pos + 1>>, pos + 1)
    BY ONLY <2>3, <2>4, <2>5, <2>6, OneToken
  <2>8. Good((stream \o <<c>>) \o <<r>>, (starts \o <<pos + 1>>) \o <<pos + n>>, pos + n)
    BY ONLY <2>4, <2>5, <2>6, <2>7, OneToken
  <2>9. /\ (stream \o <<c>>) \o <<r>> = stream \o <<c, r>>
        /\ (starts \o <<pos + 1>>) \o <<pos + n>> = starts \o <<pos + 1, pos + n>>
    <3>1. stream \in Seq(Token) /\ starts \in Seq(Nat)
      BY <2>3 DEF Good
    <3> QED BY ONLY <3>1, <2>4, <2>6, TwoAtOnce, ZenonT(60)
  <2>10. Good(stream \o <<c, r>>, starts \o <<pos + 1, pos + n>>, pos + n)
    BY <2>8, <2>9
  <2>11. Written(<<c, r>>, <<pos + 1, pos + n>>)
    BY <2>1 DEF c, r
  <2>12. <<pos + 1, pos + n>>[Len(<<pos + 1, pos + n>>)] = pos + n
    BY ONLY LastTwo
  <2>13. InSegment /\ pos + n \in pos .. SegEnd
    BY <2>3, <2>6
  <2> QED BY ONLY DsInv, <2>13, <2>10, <2>11, <2>12, WrittenInv, ZenonT(60)
<1>3. CASE PutByte
  <2>1. InSegment /\ Good(stream, starts, pos)
    BY <1>3, PackGood DEF PutByte, InSegment
  <2>2. pos + 1 \in Nat /\ pos + 1 \in pos .. SegEnd /\ pos + 1 <= Len(block)
    BY <1>0, <2>1 DEF InSegment
  <2>3. /\ Chr(block[pos + 1]) \in Token /\ Says(Chr(block[pos + 1]), pos, pos + 1)
        /\ Chr(block[pos + 1]).kind # "copy"
    BY <1>0, <2>2, SizesAssumption DEF Chr, Token, Says
  <2>4. Good(stream \o <<Chr(block[pos + 1])>>, starts \o <<pos + 1>>, pos + 1)
    BY ONLY <2>1, <2>2, <2>3, OneToken
  <2>5. Written(<<Chr(block[pos + 1])>>, <<pos + 1>>)
    BY <1>3 DEF PutByte
  <2> QED BY ONLY DsInv, <2>1, <2>2, <2>4, <2>5, LastOne, WrittenInv
<1>4. CASE EndSegment
  <2>1. Good(stream, starts, pos)
    BY <1>4, PackGood DEF EndSegment
  <2>2. Break \in Token /\ Says(Break, pos, pos) /\ Break.kind # "copy"
    BY <1>0, SizesAssumption DEF Break, Mark, Token, Says
  <2>3. Good(stream \o <<Break>>, starts \o <<pos>>, pos)
    BY ONLY <1>0, <2>1, <2>2, OneToken
  <2>4. stream' = stream \o <<Break>> /\ starts' = starts \o <<pos>> /\ pos' = pos
    BY <1>4, <2>1, <2>2, OneMore, SMTT(40) DEF EndSegment, Good
  <2>5. Lesser(seg' * Segment, Len(block)) <= pos'
    <3>1. pos = SegEnd /\ seg' = seg + 1 /\ block' = block /\ pos' = pos
      BY <1>4 DEF EndSegment
    <3> QED BY ONLY <3>1, <1>0, SegTyped, DsInv DEF SegEnd
  <2>6. Good(stream', starts', pos')
    BY <2>3, <2>4
  <2> QED BY <1>0, <1>4, <2>4, <2>5, <2>6, GoodPack DEF EndSegment
<1>5. CASE EndBlock
  <2>1. Good(stream, starts, pos)
    BY <1>5, PackGood DEF EndBlock
  <2>2. pos = Len(block)
    BY <1>0, <1>5, SegTyped DEF EndBlock, HasSegment, DsInv, StreamInv, Lesser
  <2>3. End \in Token /\ Says(End, pos, pos) /\ End.kind # "copy"
    BY <1>0, <2>2, SizesAssumption DEF End, Mark, Token, Says
  <2>4. Good(stream \o <<End>>, starts \o <<pos>>, pos)
    BY ONLY <1>0, <2>1, <2>3, OneToken
  <2>5. /\ stream' = stream \o <<End>> /\ starts' = starts \o <<pos>> /\ pos' = pos
        /\ stream'[Len(stream')] = End /\ stream' # << >>
    BY <1>5, <2>1, <2>3, OneMore, SMTT(60) DEF EndBlock, Good
  <2>6. Good(stream', starts', pos')
    BY <2>4, <2>5
  <2>7. DsTypeOK'
    <3>1. /\ block' = block /\ seg' = seg /\ pos' = pos /\ out' = out /\ next' = next
          /\ dist' = dist /\ todo' = todo /\ size' = size
          /\ intact' = Len(stream') /\ phase' = "packed"
      BY <1>5 DEF EndBlock, unpacking
    <3>2. /\ stream' \in Seq(Token) /\ starts' \in Seq(Nat) /\ Len(starts') = Len(stream') + 1
          /\ \A n \in 1 .. Len(stream') : stream'[n].kind = "copy" => stream'[n].dist > 0
      BY <2>6 DEF Good
    <3>3. intact' \in 0 .. Len(stream') /\ intact' < Len(starts')
      BY ONLY <3>1, <3>2
    <3> QED BY ONLY <3>1, <3>2, <3>3, DsInv DEF DsInv, DsTypeOK, Phases
  <2>8. (\A n \in 1 .. intact : Says(stream[n], starts[n], starts[n + 1]))'
    BY <1>5, <2>6, SMTT(40) DEF EndBlock, Good, Says, Repeats
  <2>9. StreamInv'
    BY <1>5, <2>5, <2>6, <2>8 DEF EndBlock, StreamInv, Good
  <2>10. intact' \in Nat
    BY <2>7 DEF DsTypeOK
  <2> QED BY <1>5, <2>7, <2>9, <2>10, Unread DEF EndBlock, DsInv
<1> QED BY <1>1, <1>2, <1>3, <1>4, <1>5 DEF PackStep

\* A stream that is cut, with two tokens after it.
LEMMA CutSeq ==
  ASSUME NEW S, NEW s \in Seq(S), NEW n \in 0 .. Len(s), NEW a \in S, NEW b \in S
  PROVE  LET u == SubSeq(s, 1, n) \o <<a, b>>
         IN  /\ u \in Seq(S) /\ Len(u) = n + 2
             /\ \A i \in 1 .. n : u[i] = s[i]
             /\ u[n + 1] = a /\ u[n + 2] = b
<1> DEFINE r == SubSeq(s, 1, n)
<1>1. r \in Seq(S) /\ Len(r) = n /\ \A i \in 1 .. n : r[i] = s[i]
  OBVIOUS
<1>2. <<a, b>> \in Seq(S) /\ Len(<<a, b>>) = 2 /\ <<a, b>>[1] = a /\ <<a, b>>[2] = b
  OBVIOUS
<1> HIDE DEF r
<1>3. r \o <<a, b>> \in Seq(S) /\ Len(r \o <<a, b>>) = n + 2
  BY ONLY <1>1, <1>2, ConcatProperties
<1>4. \A i \in 1 .. n : (r \o <<a, b>>)[i] = s[i]
  BY ONLY <1>1, <1>2, ConcatProperties
<1>5. (r \o <<a, b>>)[n + 1] = a /\ (r \o <<a, b>>)[n + 2] = b
  BY ONLY <1>1, <1>2, ConcatProperties
<1> QED BY ONLY <1>3, <1>4, <1>5 DEF r

LEMMA DeliveryInv == ASSUME DsInv, Deliver \/ Cut PROVE DsInv'
<1>0. /\ phase = "packed" /\ out = << >> /\ next = 1 /\ todo = 0
      /\ starts[1] = 0 /\ intact = Len(stream) /\ Len(stream) \in Nat /\ stream # << >>
      /\ stream \in Seq(Token) /\ stream[Len(stream)] = End
  BY DEF Deliver, Cut, DsInv, DsTypeOK, ReadInv, StreamInv
<1>1. CASE Deliver
  <2>1. /\ phase' = "unpack"
        /\ UNCHANGED <<block, seg, pos, stream, starts, intact, out, next, dist, todo, size>>
    BY <1>1 DEF Deliver, packing, unpacking
  <2>2. DsTypeOK'
    BY <2>1 DEF DsInv, DsTypeOK, Phases
  <2>3. StreamInv'
    BY <1>0, <2>1 DEF DsInv, StreamInv, Says, Repeats
  <2>4. ReadInv' /\ OutInv' /\ InBounds' /\ RoundTrip'
    BY <1>0, <2>1, Sizes DEF ReadInv, OutInv, InBounds, RoundTrip, DsInv
  <2> QED BY <2>2, <2>3, <2>4 DEF DsInv
<1>2. CASE Cut
  <2>1. PICK n \in 0 .. Len(stream) - 1, t \in Strays :
          stream' = SubSeq(stream, 1, n) \o <<t, End>> /\ intact' = n
    BY <1>2 DEF Cut
  <2>2. /\ phase' = "unpack"
        /\ UNCHANGED <<block, seg, pos, starts, out, next, dist, todo, size>>
    BY <1>2 DEF Cut, unpacking
  <2>3. t \in Token /\ (t.kind = "copy" => t.dist > 0)
    BY SizesAssumption
  <2>4. End \in Token /\ End.kind = "end"
    BY Sizes DEF End, Mark, Token
  <2>5. /\ stream' \in Seq(Token) /\ Len(stream') = n + 2
        /\ \A i \in 1 .. n : stream'[i] = stream[i]
        /\ stream'[n + 1] = t /\ stream'[n + 2] = End
    BY <1>0, <2>1, <2>3, <2>4, CutSeq
  <2>6. \A i \in 1 .. Len(stream') : stream'[i].kind = "copy" => stream'[i].dist > 0
    BY <1>0, <2>3, <2>4, <2>5, SMTT(40) DEF DsInv, DsTypeOK
  <2>7. DsTypeOK'
    BY <1>0, <2>1, <2>2, <2>5, <2>6, SMTT(40) DEF DsInv, DsTypeOK, Phases
  <2>8. ASSUME NEW i \in 1 .. n
        PROVE  Says(stream[i], starts[i], starts[i + 1])'
    BY <1>0, <2>2, <2>5 DEF DsInv, StreamInv, Says, Repeats
  <2>9. StreamInv'
    <3>1. stream' # << >> /\ stream'[Len(stream')] = End
      BY <2>5
    <3> QED BY <1>0, <2>1, <2>2, <2>8, <3>1 DEF StreamInv
  <2>10. ReadInv' /\ OutInv' /\ InBounds' /\ RoundTrip'
    BY <1>0, <2>1, <2>2, <2>5, Sizes DEF ReadInv, OutInv, InBounds, RoundTrip, DsInv
  <2> QED BY <2>7, <2>9, <2>10 DEF DsInv
<1> QED BY <1>1, <1>2

\* While ds_decompress runs the stream stays as it is.
Quiet == UNCHANGED <<block, seg, pos, stream, starts, intact>>

LEMMA QuietStream ==
  ASSUME DsInv, Quiet, phase \in {"unpack", "copy"},
         phase' \in {"unpack", "copy", "unpacked"}
  PROVE  StreamInv'
BY DEF Quiet, DsInv, StreamInv, Says, Repeats

\* The token ds_decompress reads, and where it stands.
LEMMA AtToken ==
  ASSUME DsInv, phase = "unpack"
  PROVE  /\ next \in 1 .. Len(stream) /\ next \in Nat /\ intact \in Nat /\ intact <= Len(stream)
         /\ T \in Token /\ (T.kind = "copy" => T.dist > 0)
         /\ out \in Seq(Byte) /\ Len(out) \in Nat /\ Len(out) <= Capacity /\ todo = 0
         /\ T.kind # "end" => next + 1 <= Len(stream)
         /\ next <= intact + 1 => Len(out) = starts[next]
         /\ next <= intact => Says(T, starts[next], starts[next + 1])
         /\ starts \in Seq(Nat) /\ intact < Len(starts)
         /\ block \in Seq(Byte) /\ Len(block) \in Nat /\ Len(block) <= Capacity
<1>1. /\ next \in Nat \ {0} /\ next <= Len(stream) /\ stream \in Seq(Token)
      /\ Len(stream) \in Nat /\ intact \in 0 .. Len(stream)
      /\ out \in Seq(Byte) /\ Len(out) \in Nat /\ todo = 0
      /\ next <= intact + 1 => Len(out) + todo = starts[next]
      /\ starts \in Seq(Nat) /\ intact < Len(starts)
      /\ block \in Seq(Byte) /\ Len(block) \in Nat /\ Len(block) <= Capacity
  BY DEF DsInv, DsTypeOK, ReadInv
<1>2. next \in 1 .. Len(stream) /\ T \in Token
  BY <1>1 DEF T
<1>3. T.kind = "copy" => T.dist > 0
  BY <1>2 DEF DsInv, DsTypeOK, T
<1>4. stream[Len(stream)] = End
  BY DEF DsInv, StreamInv
<1>5. T.kind # "end" => next + 1 <= Len(stream)
  BY <1>1, <1>4 DEF T, End, Mark
<1>6. next <= intact => Says(T, starts[next], starts[next + 1])
  BY <1>1 DEF DsInv, StreamInv, T
<1>7. Len(out) <= Capacity
  BY <1>1, Sizes DEF DsInv, InBounds
<1>8. next <= intact + 1 => Len(out) = starts[next]
  BY <1>1
<1> QED BY <1>1, <1>2, <1>3, <1>5, <1>6, <1>7, <1>8

\* One byte more.
LEMMA OneByte ==
  ASSUME NEW s \in Seq(Byte), NEW b \in Byte
  PROVE  /\ Append(s, b) \in Seq(Byte)
         /\ Len(Append(s, b)) = Len(s) + 1
         /\ \A j \in 1 .. Len(s) : Append(s, b)[j] = s[j]
         /\ Append(s, b)[Len(s) + 1] = b
OBVIOUS

LEMMA ReadByteInv == ASSUME DsInv, ReadByte PROVE DsInv'
<1>1. /\ phase = "unpack" /\ phase' = "unpack" /\ Len(out) < Capacity /\ T.kind = "chr"
      /\ out' = Append(out, T.byte) /\ next' = next + 1
      /\ UNCHANGED <<block, seg, pos, stream, starts, intact, dist, todo, size>>
  BY DEF ReadByte, Reading, packing
<1>2. StreamInv'
  BY <1>1, QuietStream DEF Quiet
<1>3. /\ out' \in Seq(Byte) /\ Len(out') = Len(out) + 1
      /\ \A j \in 1 .. Len(out) : out'[j] = out[j]
      /\ out'[Len(out) + 1] = T.byte
  BY <1>1, AtToken, OneByte DEF Token
<1>4. DsTypeOK'
  BY <1>1, <1>3 DEF DsInv, DsTypeOK
<1>5. next <= intact =>
        /\ Len(out) + 1 = starts[next + 1]
        /\ T.byte = block[Len(out) + 1]
  <2> SUFFICES ASSUME next <= intact
               PROVE  Len(out) + 1 = starts[next + 1] /\ T.byte = block[Len(out) + 1]
    OBVIOUS
  <2>1. Says(T, starts[next], starts[next + 1]) /\ Len(out) = starts[next]
    BY <1>1, AtToken
  <2>2. starts[next + 1] = Len(out) + 1 /\ block[starts[next + 1]] = T.byte
    BY <1>1, <2>1 DEF Says
  <2> QED BY <2>2
<1>6. ReadInv'
  BY <1>1, <1>3, <1>5, AtToken DEF ReadInv
<1>7. OutInv'
  <2>1. CASE next <= intact
    <3>1. \A j \in 1 .. Len(out) : out[j] = block[j]
      BY <2>1, AtToken, <1>1, SMTT(60) DEF DsInv, OutInv
    <3>2. \A j \in 1 .. Len(out') : out'[j] = block[j]
      <4> SUFFICES ASSUME NEW j \in 1 .. Len(out') PROVE out'[j] = block[j]
        OBVIOUS
      <4>1. j \in 1 .. Len(out) \/ j = Len(out) + 1
        BY <1>3, <1>1, AtToken, SMTT(40)
      <4> QED BY <1>3, <1>5, <2>1, <3>1, <4>1
    <3>3. intact' = intact /\ block' = block /\ ~(next' > intact + 1)
      BY <1>1, <2>1, AtToken
    <3> QED BY <3>2, <3>3 DEF OutInv
  <2>2. CASE next > intact
    <3>1. starts[intact + 1] <= Len(out) /\ \A j \in 1 .. starts[intact + 1] : out[j] = block[j]
      <4>1. CASE next = intact + 1
        BY <4>1, AtToken, <1>1, SMTT(60) DEF DsInv, OutInv
      <4>2. CASE next > intact + 1
        BY <4>2 DEF DsInv, OutInv
      <4> QED BY <2>2, <4>1, <4>2, AtToken, <1>1
    <3>2. starts[intact + 1] \in Nat
      BY AtToken, <1>1
    <3>3. \A j \in 1 .. starts[intact + 1] : out'[j] = block[j]
      BY <1>1, <1>3, <3>1, <3>2, AtToken
    <3> QED BY <1>1, <1>3, <2>2, <3>1, <3>2, <3>3, AtToken, SMTT(40) DEF OutInv
  <2> QED BY <2>1, <2>2, AtToken, <1>1
<1>8. InBounds' /\ RoundTrip'
  BY <1>1, <1>3, AtToken, Sizes DEF InBounds, RoundTrip
<1> QED BY <1>2, <1>4, <1>6, <1>7, <1>8 DEF DsInv

\* A return: what is left to say is that the block is there if the stream
\* is undamaged.
LEMMA StopInv ==
  ASSUME DsInv, phase = "unpack", Quiet, UNCHANGED <<out, next, dist, todo>>,
         phase' = "unpacked", size' \in 0 .. Capacity,
         intact = Len(stream) => size' = Len(block) /\ Len(out) = Len(block)
  PROVE  DsInv'
<1>1. StreamInv'
  BY QuietStream
<1>2. DsTypeOK'
  BY DEF DsInv, DsTypeOK, Quiet, Phases
<1>3. ReadInv' /\ InBounds'
  BY AtToken, Sizes DEF Quiet, ReadInv, InBounds
<1>4. OutInv'
  BY DEF DsInv, OutInv, Quiet
<1>5. RoundTrip'
  <2> SUFFICES ASSUME intact = Len(stream) PROVE size' = Len(block) /\ out = block
    BY DEF RoundTrip, Quiet
  <2>1. out \in Seq(Byte) /\ block \in Seq(Byte) /\ Len(out) = Len(block)
    BY AtToken
  <2>2. \A j \in 1 .. Len(out) : out[j] = block[j]
    BY AtToken, SMTT(60) DEF DsInv, OutInv
  <2>3. out = block
    BY <2>1, <2>2, SeqEqual
  <2> QED BY <2>3
<1> QED BY <1>1, <1>2, <1>3, <1>4, <1>5 DEF DsInv

LEMMA FullInv == ASSUME DsInv, Full PROVE DsInv'
<1>1. /\ phase = "unpack" /\ phase' = "unpacked" /\ Len(out) = Capacity
      /\ size' = Len(out) /\ Quiet /\ UNCHANGED <<out, next, dist, todo>>
  BY DEF Full, Return, Quiet, packing
<1>2. ASSUME intact = Len(stream) PROVE Len(out) = Len(block)
  <2>1. Says(T, starts[next], starts[next + 1]) /\ Len(out) = starts[next] /\ T.len \in Nat
    BY <1>1, <1>2, AtToken DEF Token
  <2>2. Len(out) <= Len(block)
    <3>1. starts[next + 1] = Len(out) + T.len /\ starts[next + 1] <= Len(block)
      BY <2>1 DEF Says
    <3> QED BY <1>1, <2>1, <3>1, AtToken, SMTT(40)
  <2> QED BY <1>1, <2>2, AtToken, Sizes
<1>3. size' \in 0 .. Capacity
  BY <1>1, Sizes
<1> QED BY <1>1, <1>2, <1>3, StopInv

LEMMA ReadEndInv == ASSUME DsInv, ReadEnd PROVE DsInv'
<1>1. /\ phase = "unpack" /\ phase' = "unpacked"
      /\ size' = Len(out) /\ Quiet /\ UNCHANGED <<out, next, dist, todo>>
      /\ T.kind = "end" \/ (T.kind = "copy" /\ Len(out) + T.len > Capacity)
  BY DEF ReadEnd, Reading, Return, Quiet, packing
<1>2. ASSUME intact = Len(stream) PROVE Len(out) = Len(block)
  <2>1. Says(T, starts[next], starts[next + 1]) /\ Len(out) = starts[next] /\ T.len \in Nat
    BY <1>1, <1>2, AtToken DEF Token
  <2>2. starts[next + 1] = Len(out) + T.len /\ starts[next + 1] <= Len(block)
    BY <2>1 DEF Says
  <2>3. T.kind = "end"
    BY <1>1, <2>1, <2>2, AtToken, Sizes, SMTT(40)
  <2> QED BY <2>1, <2>3 DEF Says
<1>3. size' \in 0 .. Capacity
  BY <1>1, AtToken, Sizes
<1> QED BY <1>1, <1>2, <1>3, StopInv

LEMMA ReadBadInv == ASSUME DsInv, ReadBad PROVE DsInv'
<1>1. /\ phase = "unpack" /\ phase' = "unpacked"
      /\ size' = 0 /\ Quiet /\ UNCHANGED <<out, next, dist, todo>>
      /\ T.kind = "bad" \/ (T.kind = "copy" /\ T.dist > Len(out))
  BY DEF ReadBad, Reading, Return, Quiet, packing
<1>2. intact # Len(stream)
  <2> SUFFICES ASSUME intact = Len(stream) PROVE FALSE
    OBVIOUS
  <2>1. Says(T, starts[next], starts[next + 1]) /\ Len(out) = starts[next] /\ T.dist \in Nat
    BY <1>1, AtToken DEF Token
  <2>2. T.kind = "copy" /\ T.dist <= Len(out)
    BY <1>1, <2>1 DEF Says
  <2> QED BY <1>1, <2>1, <2>2, AtToken
<1> QED BY <1>1, <1>2, Sizes, StopInv

LEMMA ReadBreakInv == ASSUME DsInv, ReadBreak PROVE DsInv'
<1>1. /\ phase = "unpack" /\ phase' = "unpack" /\ T.kind = "break"
      /\ next' = next + 1 /\ Quiet /\ UNCHANGED <<out, dist, todo, size>>
  BY DEF ReadBreak, Reading, Quiet, packing
<1>2. StreamInv'
  BY <1>1, QuietStream
<1>3. DsTypeOK'
  BY <1>1 DEF DsInv, DsTypeOK, Quiet
<1>4. next <= intact => Len(out) = starts[next + 1]
  <2> SUFFICES ASSUME next <= intact PROVE Len(out) = starts[next + 1]
    OBVIOUS
  <2>1. Says(T, starts[next], starts[next + 1]) /\ Len(out) = starts[next]
    BY <1>1, AtToken
  <2>2. starts[next + 1] = Len(out) + T.len /\ T.len = 0
    BY <1>1, <2>1 DEF Says
  <2> QED BY <1>1, <2>2, AtToken
<1>5. ReadInv'
  BY <1>1, <1>4, AtToken DEF ReadInv, Quiet
<1>6. OutInv'
  <2>1. CASE next <= intact
    BY <1>1, <2>1, AtToken, SMTT(40) DEF DsInv, OutInv, Quiet
  <2>2. CASE next = intact + 1
    <3>1. starts[intact + 1] = Len(out) /\ \A j \in 1 .. Len(out) : out[j] = block[j]
      BY <1>1, <2>2, AtToken DEF DsInv, OutInv
    <3> QED BY <1>1, <2>2, <3>1, AtToken DEF OutInv, Quiet
  <2>3. CASE next > intact + 1
    BY <1>1, <2>3, AtToken DEF DsInv, OutInv, Quiet
  <2> QED BY <1>1, <2>1, <2>2, <2>3, AtToken
<1>7. InBounds' /\ RoundTrip'
  BY <1>1, AtToken, Sizes DEF InBounds, RoundTrip, Quiet
<1> QED BY <1>2, <1>3, <1>5, <1>6, <1>7 DEF DsInv

LEMMA ReadCopyInv == ASSUME DsInv, ReadCopy PROVE DsInv'
<1>1. /\ phase = "unpack" /\ phase' = "copy" /\ T.kind = "copy"
      /\ T.dist <= Len(out) /\ Len(out) + T.len <= Capacity
      /\ dist' = T.dist /\ todo' = T.len
      /\ next' = next + 1 /\ Quiet /\ UNCHANGED <<out, size>>
  BY DEF ReadCopy, Reading, Quiet, packing
<1>2. StreamInv'
  BY <1>1, QuietStream
<1>3. T.dist \in Nat /\ T.len \in Nat /\ T.dist > 0
  BY <1>1, AtToken DEF Token
<1>4. DsTypeOK'
  BY <1>1, <1>3, SMTT(60) DEF DsInv, DsTypeOK, Quiet, Phases
<1>5. next <= intact => Len(out) + T.len = starts[next + 1]
  BY <1>1, AtToken, SMTT(40) DEF Says
<1>6. ReadInv'
  <2>1. stream'[next' - 1] = T
    BY <1>1, AtToken DEF T, Quiet
  <2>2. next' <= Len(stream')
    BY <1>1, AtToken DEF Quiet
  <2>3. next' <= intact' + 1 => Len(out') + todo' = starts'[next']
    BY <1>1, <1>5, AtToken DEF Quiet
  <2> QED BY <1>1, <1>3, <2>1, <2>2, <2>3, AtToken, SMTT(40) DEF ReadInv
<1>7. OutInv'
  <2>1. CASE next <= intact
    BY <1>1, <2>1, AtToken, SMTT(40) DEF DsInv, OutInv, Quiet
  <2>2. CASE next = intact + 1
    <3>1. starts[intact + 1] = Len(out) /\ \A j \in 1 .. Len(out) : out[j] = block[j]
      BY <1>1, <2>2, AtToken DEF DsInv, OutInv
    <3> QED BY <1>1, <2>2, <3>1, AtToken DEF OutInv, Quiet
  <2>3. CASE next > intact + 1
    BY <1>1, <2>3, AtToken DEF DsInv, OutInv, Quiet
  <2> QED BY <1>1, <2>1, <2>2, <2>3, AtToken
<1>8. InBounds' /\ RoundTrip'
  BY <1>1, <1>3, AtToken DEF InBounds, RoundTrip
<1> QED BY <1>2, <1>4, <1>6, <1>7, <1>8 DEF DsInv

\* Where a copy stands.
LEMMA InCopy ==
  ASSUME DsInv, phase = "copy"
  PROVE  /\ out \in Seq(Byte) /\ Len(out) \in Nat /\ todo \in Nat /\ dist \in Nat
         /\ next \in Nat /\ next > 1 /\ next <= Len(stream)
         /\ intact \in Nat /\ intact <= Len(stream) /\ intact < Len(starts)
         /\ starts \in Seq(Nat) /\ dist \in 1 .. Len(out)
         /\ next <= intact + 1 => Len(out) + todo = starts[next]
         /\ \A n \in Nat : n = next - 1 =>
              stream[n].len \in Nat /\ todo <= stream[n].len
<1>1. /\ stream \in Seq(Token) /\ next \in Nat /\ next > 1 /\ next <= Len(stream)
      /\ out \in Seq(Byte) /\ Len(out) \in Nat /\ todo \in Nat /\ dist \in Nat
      /\ intact \in 0 .. Len(stream) /\ intact < Len(starts)
      /\ starts \in Seq(Nat) /\ todo <= stream[next - 1].len
      /\ next <= intact + 1 => Len(out) + todo = starts[next]
  BY DEF DsInv, DsTypeOK, ReadInv
<1>2. stream[next - 1] \in Token
  BY <1>1
<1>3. stream[next - 1].len \in Nat
  BY <1>2 DEF Token
<1>4. dist \in 1 .. Len(out)
  BY DEF DsInv, InBounds
<1> QED BY <1>1, <1>3, <1>4

LEMMA RepeatsAt ==
  ASSUME NEW p \in Nat, NEW d \in Nat, NEW n \in Nat, Repeats(p, d, n),
         NEW q \in Nat, q - p \in 1 .. n
  PROVE  block[q] = block[q - d]
<1>1. block[p + (q - p)] = block[p + (q - p) - d]
  BY DEF Repeats
<1>2. p + (q - p) = q
  OBVIOUS
<1>3. p + (q - p) - d = q - d
  OBVIOUS
<1> QED BY <1>1, <1>2, <1>3, Zenon

LEMMA LastOrBefore == ASSUME NEW n \in Nat, NEW j \in 1 .. n + 1 PROVE j \in 1 .. n \/ j = n + 1
OBVIOUS

LEMMA ByteOfCopy ==
  ASSUME NEW a \in Nat, NEW l \in Nat, NEW p \in Nat, NEW n \in Nat,
         l > 0, l <= n, a + l = p + n
  PROVE  a + 1 - p \in 1 .. n /\ p + (a + 1 - p) = a + 1
OBVIOUS

LEMMA CopyByteInv == ASSUME DsInv, CopyByte PROVE DsInv'
<1>1. /\ phase = "copy" /\ phase' = "copy" /\ todo > 0
      /\ out' = Append(out, out[Len(out) + 1 - dist]) /\ todo' = todo - 1
      /\ Quiet /\ UNCHANGED <<next, dist, size>>
  BY DEF CopyByte, Quiet, packing
<1>2. StreamInv'
  BY <1>1, QuietStream
<1>0. /\ out \in Seq(Byte) /\ Len(out) \in Nat /\ todo \in Nat /\ dist \in Nat
      /\ next \in Nat /\ next > 1 /\ next <= Len(stream)
      /\ intact \in Nat /\ intact <= Len(stream) /\ intact < Len(starts)
      /\ starts \in Seq(Nat) /\ dist \in 1 .. Len(out)
      /\ next <= intact + 1 => Len(out) + todo = starts[next]
  BY <1>1, InCopy
<1> DEFINE c == out[Len(out) + 1 - dist]
           p == starts[next - 1]
           t == stream[next - 1]
<1>3. c \in Byte /\ Len(out) + 1 - dist \in 1 .. Len(out)
  BY ONLY <1>0
<1>4. /\ out' \in Seq(Byte) /\ Len(out') = Len(out) + 1
      /\ \A j \in 1 .. Len(out) : out'[j] = out[j]
      /\ out'[Len(out) + 1] = c
  BY <1>1, <1>3, InCopy, OneByte
<1>5. todo' \in Nat /\ Len(out') + todo' = Len(out) + todo
  BY ONLY <1>0, <1>1, <1>4, SMTT(40)
<1>6. DsTypeOK'
  BY <1>1, <1>4, <1>5 DEF DsInv, DsTypeOK, Quiet
<1>7. ReadInv'
  <2>1. next' <= intact' + 1 => Len(out') + todo' = starts'[next']
    BY <1>0, <1>1, <1>5 DEF Quiet
  <2>2. stream'[next' - 1].kind = "copy" /\ dist' = stream'[next' - 1].dist
    BY <1>1 DEF Quiet, DsInv, ReadInv
  <2>3. todo' <= stream'[next' - 1].len
    BY <1>0, <1>1, InCopy, SMTT(60) DEF Quiet
  <2>4. next' > 1 /\ next' <= Len(stream')
    BY <1>0, <1>1 DEF Quiet
  <2> QED BY ONLY <1>1, <2>1, <2>2, <2>3, <2>4 DEF ReadInv
<1>8. InBounds' /\ RoundTrip'
  BY <1>0, <1>1, <1>4, <1>5 DEF InBounds, RoundTrip, DsInv
<1>9. OutInv'
  <2>1. CASE next <= intact + 1
    <3>1. \A j \in 1 .. Len(out) : out[j] = block[j]
      BY <2>1 DEF DsInv, OutInv
    <3>2. next - 1 \in 1 .. intact /\ (next - 1) + 1 = next
      BY ONLY <1>0, <2>1
    <3>3. Says(t, p, starts[next])
      BY <3>2 DEF DsInv, StreamInv
    <3>4. starts[next] = p + t.len /\ Repeats(p, dist, t.len)
      BY <1>1, <3>3 DEF Says, DsInv, ReadInv
    <3>5. p \in Nat
      BY ONLY <1>0, <3>2, SMTT(60)
    <3> DEFINE k == Len(out) + 1 - p
    <3>6. k \in 1 .. t.len /\ p + k = Len(out) + 1
      <4>1. t.len \in Nat /\ todo <= t.len
        BY <1>0, <1>1, <3>2, InCopy
      <4>2. Len(out) + todo = p + t.len
        BY <1>0, <2>1, <3>4
      <4>3. Len(out) \in Nat /\ todo \in Nat /\ todo > 0
        BY <1>0, <1>1
      <4> HIDE DEF p, t
      <4> QED BY ONLY <3>5, <4>1, <4>2, <4>3, ByteOfCopy DEF k
    <3>7. block[Len(out) + 1] = block[Len(out) + 1 - dist]
      <4>1. t.len \in Nat /\ dist \in Nat /\ Len(out) + 1 \in Nat
        BY <1>0, <1>1, <3>2, InCopy, SMTT(40)
      <4> HIDE DEF p, t
      <4> QED BY ONLY <3>4, <3>5, <3>6, <4>1, RepeatsAt DEF k
    <3>8. block[Len(out) + 1] = c
      <4>1. Len(out) + 1 - dist \in 1 .. Len(out)
        BY <1>3
      <4>2. c = block[Len(out) + 1 - dist]
        BY <3>1, <4>1
      <4> QED BY <3>7, <4>2, Zenon
    <3>9. \A j \in 1 .. Len(out') : out'[j] = block[j]
      <4> SUFFICES ASSUME NEW j \in 1 .. Len(out') PROVE out'[j] = block[j]
        OBVIOUS
      <4>1. j \in 1 .. Len(out) \/ j = Len(out) + 1
        <5>1. Len(out) \in Nat /\ j \in 1 .. Len(out) + 1
          BY <1>0, <1>4
        <5> QED BY ONLY <5>1, LastOrBefore
      <4> QED BY <1>4, <3>1, <3>8, <4>1
    <3>10. ~(next > intact + 1)
      BY ONLY <1>0, <2>1
    <3> QED BY <1>1, <3>9, <3>10 DEF OutInv, Quiet
  <2>2. CASE next > intact + 1
    <3>1. starts[intact + 1] <= Len(out) /\ \A j \in 1 .. starts[intact + 1] : out[j] = block[j]
      BY <2>2 DEF DsInv, OutInv
    <3>2. starts[intact + 1] \in Nat
      BY ONLY <1>0
    <3>3. starts[intact + 1] <= Len(out') /\ \A j \in 1 .. starts[intact + 1] : out'[j] = block[j]
      BY ONLY <1>0, <1>4, <3>1, <3>2, SMTT(40)
    <3>4. ~(next <= intact + 1)
      BY ONLY <1>0, <2>2
    <3> QED BY <1>1, <3>3, <3>4 DEF OutInv, Quiet
  <2> QED BY <1>0, <2>1, <2>2
<1> QED BY <1>2, <1>6, <1>7, <1>8, <1>9 DEF DsInv

LEMMA CopyDoneInv == ASSUME DsInv, CopyDone PROVE DsInv'
<1>1. /\ phase = "copy" /\ phase' = "unpack" /\ todo = 0
      /\ Quiet /\ UNCHANGED <<out, next, dist, todo, size>>
  BY DEF CopyDone, Quiet, packing, unpacking
<1>2. StreamInv'
  BY <1>1, QuietStream
<1>3. DsTypeOK'
  BY <1>1 DEF DsInv, DsTypeOK, Quiet, Phases
<1>4. ReadInv' /\ OutInv'
  BY <1>1 DEF DsInv, ReadInv, OutInv, Quiet
<1>5. InBounds' /\ RoundTrip'
  BY <1>1 DEF DsInv, InBounds, RoundTrip, Quiet
<1> QED BY <1>2, <1>3, <1>4, <1>5 DEF DsInv

LEMMA StutterInv == ASSUME DsInv, UNCHANGED dsvars PROVE DsInv'
<1>1. /\ UNCHANGED <<block, seg, pos, stream, starts, intact, phase>>
      /\ UNCHANGED <<out, next, dist, todo, size>>
  BY DEF dsvars, packing, unpacking
<1> QED BY <1>1 DEF DsInv, DsTypeOK, StreamInv, ReadInv, OutInv, InBounds, RoundTrip, Says, Repeats

LEMMA NextInv == ASSUME DsInv, [Next]_dsvars PROVE DsInv'
BY PackInv, DeliveryInv, FullInv, ReadByteInv, ReadBreakInv, ReadEndInv, ReadBadInv,
   ReadCopyInv, CopyByteInv, CopyDoneInv, StutterInv DEF Next, UnpackStep

LEMMA Invariance == Spec => []DsInv
BY InitInv, NextInv, PTL DEF Spec

\* The decompressor stays inside its block whatever the stream holds.
THEOREM StaysInBounds == Spec => []InBounds
<1>1. DsInv => InBounds
  BY DEF DsInv
<1> QED BY <1>1, Invariance, PTL

\* What an undamaged part of a stream stands for is given back.
THEOREM PrefixIsExact == Spec => []PrefixExact
<1>1. ASSUME DsInv PROVE PrefixExact
  <2> SUFFICES ASSUME NEW j \in 1 .. Len(out), j <= starts[intact + 1]
               PROVE  out[j] = block[j]
    BY DEF PrefixExact
  <2>1. next \in Nat /\ intact \in Nat /\ starts[intact + 1] \in Nat /\ j \in Nat
    BY <1>1 DEF DsInv, DsTypeOK
  <2>2. CASE next <= intact + 1
    BY <1>1, <2>2 DEF DsInv, OutInv
  <2>3. CASE next > intact + 1
    <3>1. j \in 1 .. starts[intact + 1]
      BY <2>1
    <3> QED BY <1>1, <2>3, <3>1 DEF DsInv, OutInv
  <2> QED BY <2>1, <2>2, <2>3
<1> QED BY <1>1, Invariance, PTL

\* Compression loses nothing.
THEOREM RoundTrips == Spec => []RoundTrip
<1>1. DsInv => RoundTrip
  BY DEF DsInv
<1> QED BY <1>1, Invariance, PTL

--------------------------------------------------------------------------
(* How long the code is                                                    *)

LEMMA Code ==
  /\ \A c \in Byte : c \in 0 .. 255
  /\ Segment \in Nat /\ Segment >= 8 /\ Segment <= MaxCount /\ Segment <= Capacity
  /\ Capacity \in Nat
  /\ \A n \in Tries : n \in 2 .. MaxCount
  /\ MinRun \in Nat /\ MinRun >= 3
BY CodeAssumption, SizesAssumption DEF MaxCount

LEMMA Powers ==
  /\ 2^0 = 1 /\ 2^1 = 2 /\ 2^2 = 4 /\ 2^3 = 8 /\ 2^4 = 16 /\ 2^5 = 32
  /\ 2^6 = 64 /\ 2^7 = 128 /\ 2^8 = 256 /\ 2^9 = 512
OBVIOUS

\* A length lies between two powers.
LEMMA LogBetween ==
  ASSUME NEW n \in 1 .. 511
  PROVE  \E r \in 0 .. 9 : 2^r <= n /\ n < 2^(r + 1)
<1>1. \E r \in 0 .. 8 : 2^r <= n /\ n < 2^(r + 1)
  <2>1. CASE n < 2
    <3>1. 0 \in 0 .. 8 /\ 2^0 <= n /\ n < 2^(0 + 1)
      BY <2>1, Powers
    <3> QED BY <3>1
  <2>2. CASE n \in 2 .. 3
    <3>1. 1 \in 0 .. 8 /\ 2^1 <= n /\ n < 2^(1 + 1)
      BY <2>2, Powers
    <3> QED BY <3>1
  <2>3. CASE n \in 4 .. 7
    <3>1. 2 \in 0 .. 8 /\ 2^2 <= n /\ n < 2^(2 + 1)
      BY <2>3, Powers
    <3> QED BY <3>1
  <2>4. CASE n \in 8 .. 15
    <3>1. 3 \in 0 .. 8 /\ 2^3 <= n /\ n < 2^(3 + 1)
      BY <2>4, Powers
    <3> QED BY <3>1
  <2>5. CASE n \in 16 .. 31
    <3>1. 4 \in 0 .. 8 /\ 2^4 <= n /\ n < 2^(4 + 1)
      BY <2>5, Powers
    <3> QED BY <3>1
  <2>6. CASE n \in 32 .. 63
    <3>1. 5 \in 0 .. 8 /\ 2^5 <= n /\ n < 2^(5 + 1)
      BY <2>6, Powers
    <3> QED BY <3>1
  <2>7. CASE n \in 64 .. 127
    <3>1. 6 \in 0 .. 8 /\ 2^6 <= n /\ n < 2^(6 + 1)
      BY <2>7, Powers
    <3> QED BY <3>1
  <2>8. CASE n \in 128 .. 255
    <3>1. 7 \in 0 .. 8 /\ 2^7 <= n /\ n < 2^(7 + 1)
      BY <2>8, Powers
    <3> QED BY <3>1
  <2>9. CASE n >= 256
    <3>1. 8 \in 0 .. 8 /\ 2^8 <= n /\ n < 2^(8 + 1)
      BY <2>9, Powers
    <3> QED BY <3>1
  <2> QED BY <2>1, <2>2, <2>3, <2>4, <2>5, <2>6, <2>7, <2>8, <2>9
<1> QED BY <1>1

LEMMA LogIs ==
  ASSUME NEW n \in 1 .. 511
  PROVE  Ln2(n) \in 0 .. 8 /\ 2^Ln2(n) <= n
<1>2. \E r \in 0 .. MaxZeroes + 1 : 2^r <= n /\ n < 2^(r + 1)
  BY LogBetween, SMTT(60) DEF MaxZeroes
<1>3. Ln2(n) \in 0 .. 9 /\ 2^Ln2(n) <= n
  <2>1. Ln2(n) \in 0 .. MaxZeroes + 1 /\ 2^Ln2(n) <= n
    BY <1>2, Zenon DEF Ln2
  <2> QED BY <2>1 DEF MaxZeroes
<1>4. Ln2(n) # 9
  <2>1. Ln2(n) = 9 => 2^Ln2(n) = 2^9
    OBVIOUS
  <2> QED BY <1>3, <2>1, Powers
<1> QED BY <1>3, <1>4

\* The power of two of a length is far below the length.
LEMMA EnoughBytes ==
  ASSUME NEW z \in 0 .. 8, NEW n \in Nat, 2^z <= n - 1
  PROVE  16 + (2 * z) <= 9 * n
<1> DEFINE p == 2^z
<1>a. z = 0 => p = 1
  BY Powers, Zenon
<1>b. z = 1 => p = 2
  BY Powers, Zenon
<1>c. z = 2 => p = 4
  BY Powers, Zenon
<1>d. z = 3 => p = 8
  BY Powers, Zenon
<1>e. z = 4 => p = 16
  BY Powers, Zenon
<1>f. z = 5 => p = 32
  BY Powers, Zenon
<1>g. z = 6 => p = 64
  BY Powers, Zenon
<1>h. z = 7 => p = 128
  BY Powers, ZenonT(60)
<1>i. z = 8 => p = 256
  <2>1. z = 8 => 2^z = 2^8
    OBVIOUS
  <2> QED BY <2>1, Powers
<1>2. p <= n - 1
  OBVIOUS
<1> HIDE DEF p
<1>3. z \in {0, 1, 2, 3, 4, 5, 6, 7, 8}
  OBVIOUS
<1> QED BY <1>a, <1>b, <1>c, <1>d, <1>e, <1>f, <1>g, <1>h, <1>i, <1>2, <1>3

\* Bits are sequences, and so their lengths add up.
IsSeq(s) == \E S : s \in Seq(S)

LEMMA FieldIsSeq ==
  ASSUME NEW f, NEW w \in Nat, f = [i \in 1 .. w |-> f[i]]
  PROVE  IsSeq(f) /\ Len(f) = w
<1> DEFINE S == {f[i] : i \in 1 .. w}
<1>1. f \in Seq(S)
  OBVIOUS
<1>2. Len(f) = w
  OBVIOUS
<1> QED BY <1>1, <1>2 DEF IsSeq

LEMMA JoinIsSeq ==
  ASSUME NEW s, NEW t, IsSeq(s), IsSeq(t)
  PROVE  IsSeq(s \o t) /\ Len(s \o t) = Len(s) + Len(t)
<1>1. PICK S : s \in Seq(S)
  BY DEF IsSeq
<1>2. PICK R : t \in Seq(R)
  BY DEF IsSeq
<1>3. s \in Seq(S \cup R) /\ t \in Seq(S \cup R)
  BY <1>1, <1>2
<1>4. s \o t \in Seq(S \cup R) /\ Len(s \o t) = Len(s) + Len(t)
  BY <1>3
<1> QED BY <1>4 DEF IsSeq

LEMMA OneIsSeq == ASSUME NEW a PROVE IsSeq(<<a>>) /\ Len(<<a>>) = 1
<1>1. <<a>> \in Seq({a})
  OBVIOUS
<1> QED BY <1>1 DEF IsSeq

LEMMA PartsAreSeq ==
  ASSUME NEW v, NEW w \in Nat
  PROVE  /\ IsSeq(Field(v, w)) /\ Len(Field(v, w)) = w
         /\ IsSeq(Zeroes(w)) /\ Len(Zeroes(w)) = w
<1>1. Field(v, w) = [i \in 1 .. w |-> Field(v, w)[i]]
  BY DEF Field
<1>2. Zeroes(w) = [i \in 1 .. w |-> Zeroes(w)[i]]
  BY DEF Zeroes
<1> QED BY <1>1, <1>2, FieldIsSeq

\* The longest code of a length is that of the shortest copy it can say.
LEMMA CountLength ==
  ASSUME NEW n \in 2 .. MaxCount
  PROVE  IsSeq(CountBits(n)) /\ Len(CountBits(n)) \in Nat /\ 15 + Len(CountBits(n)) <= 9 * n
<1> DEFINE z == Ln2(n - 1)
<1>1. n - 1 \in 1 .. 511 /\ n \in Nat
  BY DEF MaxCount
<1>2. z \in 0 .. 8 /\ 2^z <= n - 1
  BY <1>1, LogIs
<1>3. CountBits(n) = (Zeroes(z) \o <<1>>) \o Field(n - 2^z - 1, z)
  BY DEF CountBits
<1> HIDE DEF z
<1>4. z \in Nat
  BY <1>2
<1>5. IsSeq(Zeroes(z) \o <<1>>) /\ Len(Zeroes(z) \o <<1>>) = z + 1
  BY <1>4, PartsAreSeq, OneIsSeq, JoinIsSeq
<1>6. IsSeq(CountBits(n)) /\ Len(CountBits(n)) = (z + 1) + z
  <2> DEFINE a == Zeroes(z) \o <<1>>
             b == Field(n - 2^z - 1, z)
  <2>1. IsSeq(a) /\ Len(a) = z + 1 /\ IsSeq(b) /\ Len(b) = z
    BY <1>4, <1>5, PartsAreSeq
  <2>2. CountBits(n) = a \o b
    BY <1>3
  <2> HIDE DEF a, b
  <2>3. IsSeq(a \o b) /\ Len(a \o b) = Len(a) + Len(b)
    BY <2>1, JoinIsSeq
  <2> QED BY <2>1, <2>2, <2>3
<1>7. 16 + (2 * z) <= 9 * n
  BY <1>1, <1>2, EnoughBytes
<1> QED BY <1>4, <1>6, <1>7

LEMMA PosLength == ASSUME NEW d \in Nat PROVE IsSeq(PosBits(d)) /\ Len(PosBits(d)) \in 8 .. 15
<1>1. IsSeq(<<0, 0>>) /\ IsSeq(<<1, 1, 0>>) /\ IsSeq(<<1, 1, 1>>)
  <2>1. <<0, 0>> \in Seq({0, 1}) /\ <<1, 1, 0>> \in Seq({0, 1}) /\ <<1, 1, 1>> \in Seq({0, 1})
    OBVIOUS
  <2> QED BY <2>1 DEF IsSeq
<1>2. IsSeq(PosBits(d))
  <2>1. CASE d < 64
    BY <1>1, <2>1, PartsAreSeq, JoinIsSeq DEF PosBits
  <2>2. CASE d >= 64 /\ d < 320
    BY <1>1, <2>2, PartsAreSeq, JoinIsSeq DEF PosBits
  <2>3. CASE d >= 320
    BY <1>1, <2>3, PartsAreSeq, JoinIsSeq DEF PosBits
  <2> QED BY <2>1, <2>2, <2>3
<1>3. Len(PosBits(d)) \in 8 .. 15
  BY DEF PosBits, Field
<1> QED BY <1>2, <1>3

LEMMA ChrLength == ASSUME NEW c \in Byte PROVE Len(Bits(Chr(c))) = 9
BY DEF Bits, Chr, ChrBits, Field

LEMMA CopyLength ==
  ASSUME NEW d \in Nat, NEW n \in 2 .. MaxCount
  PROVE  Len(Bits(Copy(d, n))) \in Nat /\ Len(Bits(Copy(d, n))) <= 9 * n
<1>1. Bits(Copy(d, n)) = PosBits(d) \o CountBits(n)
  BY DEF Bits, Copy
<1>2. Len(PosBits(d) \o CountBits(n)) = Len(PosBits(d)) + Len(CountBits(n))
  BY PosLength, CountLength, JoinIsSeq
<1>3. Len(PosBits(d)) \in 8 .. 15
  BY PosLength
<1>4. Len(CountBits(n)) \in Nat /\ 15 + Len(CountBits(n)) <= 9 * n
  BY CountLength
<1>5. Len(Bits(Copy(d, n))) = Len(PosBits(d)) + Len(CountBits(n))
  BY <1>1, <1>2
<1>6. n \in Nat
  BY DEF MaxCount
<1> DEFINE a == Len(PosBits(d))
           b == Len(CountBits(n))
           c == Len(Bits(Copy(d, n)))
<1>7. a \in 8 .. 15 /\ b \in Nat /\ 15 + b <= 9 * n /\ c = a + b
  BY <1>3, <1>4, <1>5
<1> HIDE DEF a, b, c
<1>8. c \in Nat /\ c <= 9 * n
  BY <1>6, <1>7
<1> QED BY <1>8 DEF c

LEMMA MarkLength == Len(Bits(Break)) = 15 /\ Len(Bits(End)) = 8
BY DEF Bits, Break, End, Mark, PosBits, Field, SectorBreak, Zeroes

--------------------------------------------------------------------------
(* What is read of a code                                                 *)

\* What holds of 0, and of m + 1 where it does of m, holds of n.
LEMMA UpTo ==
  ASSUME NEW n \in Nat, NEW P, 0 \in P, \A m \in P : m \in 0 .. n /\ m < n => m + 1 \in P
  PROVE  n \in P
<1> SUFFICES ASSUME n \notin P PROVE FALSE
  OBVIOUS
<1> DEFINE Q == P \cap 0 .. n
<1>1. 0 \in Q /\ Q \subseteq 0 .. n /\ \A x \in Q : x + 1 \in Q
  OBVIOUS
<1> HIDE DEF Q
<1>2. IsFiniteSet(Q)
  <2>1. Q \in SUBSET Nat /\ \A x \in Q : x <= n
    BY <1>1
  <2> QED BY <2>1, FS_BoundedSetOfNaturals
<1>3. IsFiniteSet(Q \ {0}) /\ Cardinality(Q \ {0}) < Cardinality(Q)
  <2>1. IsFiniteSet(Q \ {0}) /\ Cardinality(Q \ {0}) = Cardinality(Q) - 1
    BY <1>1, <1>2, FS_RemoveElement
  <2> QED BY <1>2, <2>1, FS_CardinalityType
<1> DEFINE f == [x \in Q |-> x + 1]
<1>4. f \in [Q -> Q \ {0}] /\ \A x \in Q : f[x] = x + 1
  BY <1>1
<1> HIDE DEF f
<1>5. \E x, y \in Q : x # y /\ f[x] = f[y]
  BY <1>2, <1>3, <1>4, FS_PigeonHole
<1> QED BY <1>1, <1>4, <1>5

\* One bit more.
LEMMA NextBit ==
  ASSUME NEW v \in Nat, NEW j \in 0 .. 11
  PROVE  /\ 2^j \in Nat /\ v % 2^(j + 1) \in Nat
         /\ (v % 2^j) + ((v \div 2^j) % 2) * 2^j = v % 2^(j + 1)
<1>0. CASE j = 0
  BY <1>0
<1>1. CASE j = 1
  BY <1>1
<1>2. CASE j = 2
  BY <1>2
<1>3. CASE j = 3
  BY <1>3
<1>4. CASE j = 4
  BY <1>4
<1>5. CASE j = 5
  BY <1>5
<1>6. CASE j = 6
  BY <1>6
<1>7. CASE j = 7
  BY <1>7
<1>8. CASE j = 8
  BY <1>8
<1>9. CASE j = 9
  BY <1>9
<1>10. CASE j = 10
  BY <1>10
<1>11. CASE j = 11
  BY <1>11
<1> QED BY <1>0, <1>1, <1>2, <1>3, <1>4, <1>5, <1>6, <1>7, <1>8, <1>9, <1>10, <1>11

LEMMA Whole ==
  ASSUME NEW w \in 0 .. 12, NEW v \in 0 .. 2^w - 1
  PROVE  v % 2^w = v
<1>1. 2^0 = 1 /\ 2^1 = 2 /\ 2^2 = 4 /\ 2^3 = 8 /\ 2^4 = 16 /\ 2^5 = 32
  /\ 2^6 = 64 /\ 2^7 = 128 /\ 2^8 = 256 /\ 2^9 = 512 /\ 2^10 = 1024 /\ 2^11 = 2048 /\ 2^12 = 4096
  OBVIOUS
<1> DEFINE p == 2^w
<1>2. p \in Nat \ {0}
  BY <1>1
<1>3. v \in 0 .. p - 1
  OBVIOUS
<1> HIDE DEF p
<1>4. v % p = v
  BY <1>2, <1>3
<1> QED BY <1>4 DEF p

ValueIs(buf, i, w, g) ==
  g = [j \in 0 .. w |-> IF j = 0 THEN 0 ELSE g[j - 1] + buf[i + j - 1] * 2^(j - 1)]

\* What Value reads where a field was written.
LEMMA ValueOfField ==
  ASSUME NEW w \in 0 .. 12, NEW v \in 0 .. 2^w - 1, NEW buf, NEW i \in Nat,
         \A k \in 1 .. w : buf[i + k - 1] = (v \div 2^(k - 1)) % 2
  PROVE  Value(buf, i, w) = v
<1> DEFINE g == CHOOSE g : ValueIs(buf, i, w, g)
<1>1. v \in Nat /\ w \in Nat
  <2>1. v \in Nat
    OBVIOUS
  <2> QED BY <2>1
<1>2. ASSUME NEW j \in 1 .. w
      PROVE  (v % 2^(j - 1)) + buf[i + j - 1] * 2^(j - 1) = v % 2^j
  <2>1. buf[i + j - 1] = (v \div 2^(j - 1)) % 2
    OBVIOUS
  <2>2. j - 1 \in 0 .. 11 /\ (j - 1) + 1 = j
    OBVIOUS
  <2> QED BY <1>1, <2>1, <2>2, NextBit
<1>3. v % 2^0 = 0
  BY <1>1
<1>4. ValueIs(buf, i, w, g)
  <2> DEFINE h == [j \in 0 .. w |-> v % 2^j]
             H(j) == IF j = 0 THEN 0 ELSE h[j - 1] + buf[i + j - 1] * 2^(j - 1)
  <2>1. ASSUME NEW j \in 0 .. w PROVE h[j] = H(j)
    <3>1. CASE j = 0
      BY <1>3, <3>1
    <3>2. CASE j # 0
      <4>1. j \in 1 .. w /\ j - 1 \in 0 .. w
        BY <3>2
      <4>2. h[j - 1] = v % 2^(j - 1) /\ h[j] = v % 2^j
        BY <4>1
      <4> HIDE DEF h
      <4> QED BY <1>2, <3>2, <4>1, <4>2
    <3> QED BY <3>1, <3>2
  <2>2. h = [j \in 0 .. w |-> h[j]]
    OBVIOUS
  <2>3. h = [j \in 0 .. w |-> H(j)]
    <3> HIDE DEF h
    <3> QED BY <2>1, <2>2
  <2>4. ValueIs(buf, i, w, h)
    <3> HIDE DEF h
    <3> QED BY <2>3 DEF ValueIs
  <2> HIDE DEF h
  <2> QED BY <2>4
<1>5. Value(buf, i, w) = g[w]
  BY DEF Value, ValueIs
<1> HIDE DEF g
<1>6. g[0] = 0 /\ \A j \in 1 .. w : g[j] = g[j - 1] + buf[i + j - 1] * 2^(j - 1)
  BY <1>1, <1>4 DEF ValueIs
<1> DEFINE P == {j \in 0 .. w : g[j] = v % 2^j}
<1>7. 0 \in P
  BY <1>1, <1>3, <1>6
<1>8. ASSUME NEW j \in P, j < w PROVE j + 1 \in P
  <2>1. j + 1 \in 1 .. w /\ j + 1 - 1 = j
    BY <1>8
  <2>2. g[j + 1] = g[j] + buf[i + (j + 1) - 1] * 2^j
    BY <1>6, <2>1
  <2>3. (v % 2^j) + buf[i + (j + 1) - 1] * 2^j = v % 2^(j + 1)
    BY <1>2, <2>1
  <2> QED BY <2>1, <2>2, <2>3
<1>9. w \in P
  <2> HIDE DEF P
  <2> QED BY <1>1, <1>7, <1>8, UpTo
<1> QED BY <1>5, <1>9, Whole

LEMMA AtOfJoin ==
  ASSUME NEW s, NEW t, IsSeq(s), IsSeq(t)
  PROVE  /\ \A k \in 1 .. Len(s) : (s \o t)[k] = s[k]
         /\ \A k \in 1 .. Len(t) : (s \o t)[Len(s) + k] = t[k]
<1>1. PICK S : s \in Seq(S)
  BY DEF IsSeq
<1>2. PICK R : t \in Seq(R)
  BY DEF IsSeq
<1>3. s \in Seq(S \cup R) /\ t \in Seq(S \cup R)
  BY <1>1, <1>2
<1> QED BY <1>3

LEMMA Doubled == ASSUME NEW j \in 0 .. 8 PROVE 2^(j + 1) = 2 * 2^j /\ 2^j \in Nat
<1>0. CASE j = 0
  BY <1>0
<1>1. CASE j = 1
  BY <1>1
<1>2. CASE j = 2
  BY <1>2
<1>3. CASE j = 3
  BY <1>3
<1>4. CASE j = 4
  BY <1>4
<1>5. CASE j = 5
  BY <1>5
<1>6. CASE j = 6
  BY <1>6
<1>7. CASE j = 7
  BY <1>7
<1>8. CASE j = 8
  BY <1>8
<1> QED BY <1>0, <1>1, <1>2, <1>3, <1>4, <1>5, <1>6, <1>7, <1>8

\* What is left of a length without its power of two has as many bits.
LEMMA RestOfLog ==
  ASSUME NEW m \in 1 .. 511
  PROVE  /\ Ln2(m) \in 0 .. 8 /\ 2^Ln2(m) \in Nat
         /\ m - 2^Ln2(m) \in 0 .. 2^Ln2(m) - 1
<1> DEFINE z == Ln2(m)
<1>1. z \in 0 .. 8 /\ 2^z <= m
  BY LogIs
<1>2. m < 2^(z + 1)
  <2>1. \E r \in 0 .. MaxZeroes + 1 : 2^r <= m /\ m < 2^(r + 1)
    BY LogBetween, SMTT(60) DEF MaxZeroes
  <2> QED BY <2>1, Zenon DEF Ln2
<1> HIDE DEF z
<1>3. 2^(z + 1) = 2 * 2^z /\ 2^z \in Nat
  BY <1>1, Doubled
<1> DEFINE p == 2^z
           q == 2^(z + 1)
<1>4. p \in Nat /\ q = 2 * p /\ p <= m /\ m < q
  BY <1>1, <1>2, <1>3
<1> HIDE DEF p, q
<1>5. m - p \in 0 .. p - 1
  BY <1>4
<1> QED BY <1>1, <1>4, <1>5 DEF p, z

\* Its code, bit by bit.
LEMMA CountIs ==
  ASSUME NEW n \in 2 .. MaxCount
  PROVE  LET z == Ln2(n - 1) IN
         /\ z \in 0 .. 8 /\ 2^z \in Nat /\ n - 2^z - 1 \in 0 .. 2^z - 1
         /\ IsSeq(CountBits(n)) /\ Len(CountBits(n)) = (2 * z) + 1
         /\ \A k \in 1 .. z : CountBits(n)[k] = 0
         /\ CountBits(n)[z + 1] = 1
         /\ \A k \in 1 .. z : CountBits(n)[z + 1 + k] = ((n - 2^z - 1) \div 2^(k - 1)) % 2
<1> DEFINE z == Ln2(n - 1)
           v == n - 2^z - 1
<1>1. n - 1 \in 1 .. 511 /\ n \in Nat
  BY DEF MaxCount
<1>2. z \in 0 .. 8 /\ 2^z \in Nat /\ (n - 1) - 2^z \in 0 .. 2^z - 1
  BY <1>1, RestOfLog
<1>3. v \in 0 .. 2^z - 1
  <2> DEFINE p == 2^z
  <2>1. p \in Nat /\ (n - 1) - p \in 0 .. p - 1
    BY <1>2
  <2> HIDE DEF p
  <2>2. n - p - 1 \in 0 .. p - 1
    BY <1>1, <2>1
  <2> QED BY <2>2 DEF p
<1>4. CountBits(n) = (Zeroes(z) \o << 1 >>) \o Field(v, z)
  BY DEF CountBits
<1> HIDE DEF z, v
<1> DEFINE a == Zeroes(z) \o << 1 >>
           b == Field(v, z)
<1>5. IsSeq(a) /\ Len(a) = z + 1 /\ IsSeq(b) /\ Len(b) = z /\ IsSeq(Zeroes(z)) /\ Len(Zeroes(z)) = z
  BY <1>2, PartsAreSeq, OneIsSeq, JoinIsSeq, SMTT(60)
<1>6. (\A k \in 1 .. z : a[k] = 0) /\ a[z + 1] = 1
  <2>1. /\ \A k \in 1 .. Len(Zeroes(z)) : a[k] = Zeroes(z)[k]
        /\ \A k \in 1 .. Len(<< 1 >>) : a[Len(Zeroes(z)) + k] = << 1 >>[k]
    BY <1>5, OneIsSeq, AtOfJoin
  <2>2. \A k \in 1 .. z : Zeroes(z)[k] = 0
    BY DEF Zeroes
  <2>3. Len(<< 1 >>) = 1 /\ << 1 >>[1] = 1
    OBVIOUS
  <2> HIDE DEF a
  <2> QED BY <1>5, <2>1, <2>2, <2>3
<1>7. \A k \in 1 .. z : b[k] = (v \div 2^(k - 1)) % 2
  BY DEF Field
<1> HIDE DEF a, b
<1>8. /\ IsSeq(CountBits(n)) /\ Len(CountBits(n)) = (z + 1) + z
      /\ \A k \in 1 .. z + 1 : CountBits(n)[k] = a[k]
      /\ \A k \in 1 .. z : CountBits(n)[(z + 1) + k] = b[k]
  <2>1. CountBits(n) = a \o b
    BY <1>4 DEF a, b
  <2> QED BY <1>2, <1>5, <2>1, JoinIsSeq, AtOfJoin
<1>9. \A k \in 1 .. z : k \in 1 .. z + 1
  BY <1>2
<1>10. z + 1 \in 1 .. z + 1 /\ (z + 1) + z = (2 * z) + 1
  BY <1>2
<1>11. /\ z \in 0 .. 8 /\ 2^z \in Nat /\ v \in 0 .. 2^z - 1
       /\ IsSeq(CountBits(n)) /\ Len(CountBits(n)) = (2 * z) + 1
       /\ \A k \in 1 .. z : CountBits(n)[k] = 0
       /\ CountBits(n)[z + 1] = 1
       /\ \A k \in 1 .. z : CountBits(n)[z + 1 + k] = (v \div 2^(k - 1)) % 2
  BY <1>2, <1>3, <1>6, <1>7, <1>8, <1>9, <1>10
<1> QED BY <1>11 DEF z, v

\* The prefixes of Decoded exclude one another.
LEMMA DecodedCases ==
  ASSUME NEW buf
  PROVE  /\ buf[1] # buf[2] => Decoded(buf) = [token |-> Chr(128 * buf[1] + Value(buf, 3, 7)), used |-> 9]
         /\ buf[1] = 0 /\ buf[2] = 0 =>
              Decoded(buf) = IF Value(buf, 3, 6) = 0 THEN [token |-> Mark("end"), used |-> 8]
                             ELSE Counted(buf, 9, Value(buf, 3, 6))
         /\ buf[1] = 1 /\ buf[2] = 1 /\ buf[3] = 0 => Decoded(buf) = Counted(buf, 12, 64 + Value(buf, 4, 8))
         /\ buf[1] = 1 /\ buf[2] = 1 /\ buf[3] = 1 =>
              Decoded(buf) = IF 320 + Value(buf, 4, 12) = SectorBreak
                             THEN [token |-> Mark("break"), used |-> 15]
                             ELSE Counted(buf, 16, 320 + Value(buf, 4, 12))
<1>1. ASSUME buf[1] # buf[2]
      PROVE  Decoded(buf) = [token |-> Chr(128 * buf[1] + Value(buf, 3, 7)), used |-> 9]
  <2>1. ~(buf[1] = 0 /\ buf[2] = 0) /\ ~(buf[1] = 1 /\ buf[2] = 1 /\ buf[3] = 0)
    BY <1>1
  <2> QED BY <1>1, <2>1 DEF Decoded
<1>2. ASSUME buf[1] = 0, buf[2] = 0
      PROVE  Decoded(buf) = IF Value(buf, 3, 6) = 0 THEN [token |-> Mark("end"), used |-> 8]
                            ELSE Counted(buf, 9, Value(buf, 3, 6))
  <2>1. ~(buf[1] # buf[2]) /\ ~(buf[1] = 1 /\ buf[2] = 1 /\ buf[3] = 0)
    BY <1>2
  <2> QED BY <1>2, <2>1 DEF Decoded
<1>3. ASSUME buf[1] = 1, buf[2] = 1, buf[3] = 0
      PROVE  Decoded(buf) = Counted(buf, 12, 64 + Value(buf, 4, 8))
  <2>1. ~(buf[1] # buf[2]) /\ ~(buf[1] = 0 /\ buf[2] = 0)
    BY <1>3
  <2> QED BY <1>3, <2>1 DEF Decoded
<1>4. ASSUME buf[1] = 1, buf[2] = 1, buf[3] = 1
      PROVE  Decoded(buf) = IF 320 + Value(buf, 4, 12) = SectorBreak
                            THEN [token |-> Mark("break"), used |-> 15]
                            ELSE Counted(buf, 16, 320 + Value(buf, 4, 12))
  <2>1. ~(buf[1] # buf[2]) /\ ~(buf[1] = 0 /\ buf[2] = 0) /\ ~(buf[1] = 1 /\ buf[2] = 1 /\ buf[3] = 0)
    BY <1>4
  <2> QED BY <1>4, <2>1 DEF Decoded
<1> QED BY <1>1, <1>2, <1>3, <1>4

\* ds_count reads the length that was written.
LEMMA CountReads ==
  ASSUME NEW n \in 2 .. MaxCount, NEW d, NEW i \in 1 .. 16, NEW buf,
         \A k \in 1 .. Len(CountBits(n)) : buf[i - 1 + k] = CountBits(n)[k]
  PROVE  Counted(buf, i, d) = [token |-> Copy(d, n), used |-> i - 1 + Len(CountBits(n))]
<1> DEFINE z == Ln2(n - 1)
           v == n - 2^z - 1
           y == CHOOSE m \in 0 .. MaxZeroes + 1 :
                  /\ m = MaxZeroes + 1 \/ buf[i + m] = 1
                  /\ \A j \in 0 .. m - 1 : buf[i + j] = 0
<1>1. /\ z \in 0 .. 8 /\ 2^z \in Nat /\ v \in 0 .. 2^z - 1
      /\ Len(CountBits(n)) = (2 * z) + 1
      /\ \A k \in 1 .. z : CountBits(n)[k] = 0
      /\ CountBits(n)[z + 1] = 1
      /\ \A k \in 1 .. z : CountBits(n)[z + 1 + k] = (v \div 2^(k - 1)) % 2
  BY CountIs
<1>2. Counted(buf, i, d) =
        IF y > MaxZeroes THEN [token |-> Mark("bad"), used |-> i - 1]
        ELSE [token |-> Copy(d, 2^y + Value(buf, i + y + 1, y) + 1), used |-> i + 2 * y]
  BY DEF Counted
<1>3. z \in Nat /\ n \in Nat
  <2>1. n \in Nat
    BY DEF MaxCount
  <2>2. z \in 0 .. 8
    BY <1>1
  <2> HIDE DEF z
  <2> QED BY <2>1, <2>2
<1> HIDE DEF z, v
<1>4. \A j \in 0 .. z - 1 : buf[i + j] = 0
  <2> TAKE j \in 0 .. z - 1
  <2>1. j + 1 \in 1 .. z /\ j + 1 \in 1 .. Len(CountBits(n)) /\ i - 1 + (j + 1) = i + j
    BY <1>1, <1>3
  <2> QED BY <1>1, <2>1
<1>5. buf[i + z] = 1
  <2>1. z + 1 \in 1 .. Len(CountBits(n)) /\ i - 1 + (z + 1) = i + z
    BY <1>1, <1>3
  <2> QED BY <1>1, <2>1
<1>6. \A k \in 1 .. z : buf[(i + z + 1) + k - 1] = (v \div 2^(k - 1)) % 2
  <2> TAKE k \in 1 .. z
  <2>1. z + 1 + k \in 1 .. Len(CountBits(n)) /\ i - 1 + (z + 1 + k) = (i + z + 1) + k - 1
    BY <1>1, <1>3
  <2> QED BY <1>1, <2>1
<1>7. y = z
  <2> DEFINE Q(m) == /\ m = MaxZeroes + 1 \/ buf[i + m] = 1
                     /\ \A j \in 0 .. m - 1 : buf[i + j] = 0
  <2>1. z \in 0 .. MaxZeroes + 1 /\ Q(z)
    BY <1>1, <1>4, <1>5 DEF MaxZeroes
  <2>2. ASSUME NEW m \in 0 .. MaxZeroes + 1, Q(m) PROVE m = z
    <3>1. CASE m < z
      <4>1. m \in 0 .. z - 1 /\ m # MaxZeroes + 1
        BY <1>1, <3>1 DEF MaxZeroes
      <4> QED BY <1>4, <2>2, <4>1
    <3>2. CASE z < m
      <4>1. z \in 0 .. m - 1
        BY <1>1, <3>2 DEF MaxZeroes
      <4> QED BY <1>5, <2>2, <4>1
    <3> QED BY <1>1, <3>1, <3>2 DEF MaxZeroes
  <2>3. y \in 0 .. MaxZeroes + 1 /\ Q(y)
    <3> HIDE DEF Q
    <3>1. y = CHOOSE m \in 0 .. MaxZeroes + 1 : Q(m)
      BY DEF Q
    <3> HIDE DEF y
    <3> QED BY <2>1, <3>1
  <2> HIDE DEF Q, y
  <2> QED BY <2>2, <2>3
<1> HIDE DEF y
<1>8. Value(buf, i + z + 1, z) = v
  <2>1. z \in 0 .. 12 /\ i + z + 1 \in Nat
    BY <1>1
  <2> QED BY <1>1, <1>6, <2>1, ValueOfField
<1>9. 2^z + v + 1 = n
  <2> DEFINE p == 2^z
  <2>1. p \in Nat /\ v = n - p - 1
    BY <1>1 DEF v
  <2> HIDE DEF p
  <2>2. p + v + 1 = n
    BY <1>3, <2>1
  <2> QED BY <2>2 DEF p
<1>10. ~(z > MaxZeroes) /\ i + 2 * z = i - 1 + Len(CountBits(n))
  BY <1>1 DEF MaxZeroes
<1> QED BY <1>2, <1>7, <1>8, <1>9, <1>10

--------------------------------------------------------------------------

\* What ds_decompress has in front of it.
Begins(buf, x) == \A k \in 1 .. Len(x) : buf[k] = x[k]

LEMMA ReadsChr ==
  ASSUME NEW c \in Byte, NEW buf, Begins(buf, Bits(Chr(c)))
  PROVE  Decoded(buf) = [token |-> Chr(c), used |-> 9]
<1> DEFINE b == IF c >= 128 THEN <<1, 0>> ELSE <<0, 1>>
           f == Field(c % 128, 7)
<1>1. c \in 0 .. 255
  BY Code
<1>2. Bits(Chr(c)) = b \o f
  BY DEF Bits, Chr, ChrBits
<1>3. IsSeq(b) /\ Len(b) = 2
  <2>1. <<1, 0>> \in Seq({0, 1}) /\ <<0, 1>> \in Seq({0, 1})
    OBVIOUS
  <2> QED BY <2>1 DEF IsSeq
<1>4. IsSeq(f) /\ Len(f) = 7 /\ \A k \in 1 .. 7 : f[k] = ((c % 128) \div 2^(k - 1)) % 2
  <2>1. \A k \in 1 .. 7 : f[k] = ((c % 128) \div 2^(k - 1)) % 2
    BY DEF Field
  <2> QED BY <2>1, PartsAreSeq, ZenonT(60)
<1>5. b[1] = (IF c >= 128 THEN 1 ELSE 0) /\ b[2] = (IF c >= 128 THEN 0 ELSE 1)
  OBVIOUS
<1> HIDE DEF b, f
<1>6. /\ Len(b \o f) = 9
      /\ (b \o f)[1] = b[1] /\ (b \o f)[2] = b[2]
      /\ \A k \in 1 .. 7 : (b \o f)[2 + k] = f[k]
  <2>1. /\ Len(b \o f) = Len(b) + Len(f)
        /\ \A k \in 1 .. Len(b) : (b \o f)[k] = b[k]
        /\ \A k \in 1 .. Len(f) : (b \o f)[Len(b) + k] = f[k]
    <3>1. IsSeq(b) /\ IsSeq(f)
      BY <1>3, <1>4
    <3>2. Len(b \o f) = Len(b) + Len(f)
      BY <3>1, JoinIsSeq
    <3> QED BY <3>1, <3>2, AtOfJoin
  <2>2. Len(b) = 2 /\ Len(f) = 7
    BY <1>3, <1>4
  <2>3. Len(b \o f) = 9
    BY <2>1, <2>2
  <2>4. 1 \in 1 .. Len(b) /\ 2 \in 1 .. Len(b)
    BY <2>2
  <2>5. \A k \in 1 .. 7 : (b \o f)[2 + k] = f[k]
    BY <2>1, <2>2
  <2> QED BY <2>1, <2>3, <2>4, <2>5
<1>7. /\ buf[1] = b[1] /\ buf[2] = b[2]
      /\ \A k \in 1 .. 7 : buf[3 + k - 1] = ((c % 128) \div 2^(k - 1)) % 2
  <2>1. \A k \in 1 .. 9 : buf[k] = (b \o f)[k]
    BY <1>2, <1>6 DEF Begins
  <2>2. ASSUME NEW k \in 1 .. 7 PROVE buf[3 + k - 1] = ((c % 128) \div 2^(k - 1)) % 2
    <3>1. 2 + k \in 1 .. 9 /\ 3 + k - 1 = 2 + k
      OBVIOUS
    <3>2. buf[2 + k] = f[k]
      BY <1>6, <2>1, <3>1
    <3> QED BY <1>4, <3>1, <3>2
  <2>3. 1 \in 1 .. 9 /\ 2 \in 1 .. 9
    OBVIOUS
  <2> QED BY <1>6, <2>1, <2>2, <2>3
<1>8. Value(buf, 3, 7) = c % 128
  <2>1. 7 \in 0 .. 12 /\ 3 \in Nat /\ c % 128 \in 0 .. 2^7 - 1
    BY <1>1
  <2> QED BY <1>7, <2>1, ValueOfField, SMTT(60)
<1>9. buf[1] # buf[2]
  BY <1>5, <1>7
<1>10. Decoded(buf) = [token |-> Chr(128 * buf[1] + Value(buf, 3, 7)), used |-> 9]
  BY <1>9, DecodedCases
<1>11. 128 * buf[1] + (c % 128) = c
  BY <1>1, <1>5, <1>7
<1> QED BY <1>8, <1>10, <1>11

\* The prefixes of the three widths.
LEMMA PrefixSeqs == IsSeq(<<0, 0>>) /\ IsSeq(<<1, 1, 0>>) /\ IsSeq(<<1, 1, 1>>)
<1>1. <<0, 0>> \in Seq({0, 1}) /\ <<1, 1, 0>> \in Seq({0, 1}) /\ <<1, 1, 1>> \in Seq({0, 1})
  OBVIOUS
<1> QED BY <1>1 DEF IsSeq

\* What is read of a field behind something else.
LEMMA FieldReads ==
  ASSUME NEW b, NEW w \in 0 .. 12, NEW v \in 0 .. 2^w - 1, NEW buf,
         IsSeq(b), Begins(buf, b \o Field(v, w))
  PROVE  /\ Len(b \o Field(v, w)) = Len(b) + w
         /\ Begins(buf, b)
         /\ Value(buf, Len(b) + 1, w) = v
<1> DEFINE f == Field(v, w)
           x == b \o f
<1>1. w \in Nat /\ Len(b) \in Nat
  <2>1. w \in Nat
    OBVIOUS
  <2>2. PICK S : b \in Seq(S)
    BY Zenon DEF IsSeq
  <2>3. Len(b) \in Nat
    BY <2>2
  <2> QED BY <2>1, <2>3
<1>2. IsSeq(f) /\ Len(f) = w
  BY <1>1, PartsAreSeq
<1>3. \A k \in 1 .. w : f[k] = (v \div 2^(k - 1)) % 2
  BY DEF Field
<1>4. Begins(buf, x)
  OBVIOUS
<1> HIDE DEF f
<1>5. /\ Len(x) = Len(b) + w
      /\ \A k \in 1 .. Len(b) : x[k] = b[k]
      /\ \A k \in 1 .. w : x[Len(b) + k] = f[k]
  <2>1. Len(x) = Len(b) + Len(f)
    BY <1>2, JoinIsSeq
  <2>2. /\ \A k \in 1 .. Len(b) : x[k] = b[k]
        /\ \A k \in 1 .. Len(f) : x[Len(b) + k] = f[k]
    BY <1>2, AtOfJoin
  <2> QED BY <1>2, <2>1, <2>2
<1> HIDE DEF x
<1>6. \A k \in 1 .. Len(b) + w : buf[k] = x[k]
  BY <1>4, <1>5 DEF Begins
<1>7. Begins(buf, b)
  <2>1. ASSUME NEW k \in 1 .. Len(b) PROVE buf[k] = b[k]
    <3>1. k \in 1 .. Len(b) + w
      BY <1>1
    <3> QED BY <1>5, <1>6, <3>1
  <2> QED BY <2>1 DEF Begins
<1>8. ASSUME NEW k \in 1 .. w
      PROVE  buf[(Len(b) + 1) + k - 1] = (v \div 2^(k - 1)) % 2
  <2>1. Len(b) + k \in 1 .. Len(b) + w /\ (Len(b) + 1) + k - 1 = Len(b) + k
    BY <1>1
  <2>2. buf[Len(b) + k] = f[k]
    BY <1>5, <1>6, <2>1
  <2> QED BY <1>3, <2>1, <2>2
<1>9. Len(b) + 1 \in Nat
  BY <1>1
<1>10. Value(buf, Len(b) + 1, w) = v
  BY <1>8, <1>9, ValueOfField
<1> QED BY <1>5, <1>7, <1>10 DEF x, f

\* A distance of one of three widths, and where its field is read.
LEMMA PosReads ==
  ASSUME NEW d \in 1 .. SectorBreak, NEW buf, Begins(buf, PosBits(d))
  PROVE  \/ /\ d < 64 /\ Len(PosBits(d)) = 8
            /\ buf[1] = 0 /\ buf[2] = 0 /\ Value(buf, 3, 6) = d
         \/ /\ Len(PosBits(d)) = 11
            /\ buf[1] = 1 /\ buf[2] = 1 /\ buf[3] = 0 /\ 64 + Value(buf, 4, 8) = d
         \/ /\ Len(PosBits(d)) = 15
            /\ buf[1] = 1 /\ buf[2] = 1 /\ buf[3] = 1 /\ 320 + Value(buf, 4, 12) = d
<1>1. d \in Nat /\ d > 0 /\ d <= 4415
  BY DEF SectorBreak
<1>2. CASE d < 64
  <2> DEFINE b == <<0, 0>>
             v == d
             w == 6
  <2>1. Len(b) = 2 /\ b[1] = 0 /\ b[2] = 0
    OBVIOUS
  <2>2. IsSeq(b) /\ PosBits(d) = b \o Field(v, w)
    BY <1>1, <1>2, PrefixSeqs DEF PosBits
  <2>3. w \in 0 .. 12 /\ v \in 0 .. 2^w - 1
    BY <1>1, <1>2
  <2>4. w = 6 /\ v = d
    OBVIOUS
  <2> HIDE DEF b, v, w
  <2>5. Begins(buf, b \o Field(v, w))
    BY <2>2
  <2>6. /\ Len(b \o Field(v, w)) = Len(b) + w
        /\ Begins(buf, b)
        /\ Value(buf, Len(b) + 1, w) = v
    BY <2>2, <2>3, <2>5, FieldReads, ZenonT(60)
  <2>7. Len(PosBits(d)) = 8 /\ Len(b) + 1 = 3
    BY <2>1, <2>2, <2>4, <2>6
  <2>8. buf[1] = 0 /\ buf[2] = 0
    <3>1. 1 \in 1 .. 2 /\ 2 \in 1 .. 2
      OBVIOUS
    <3> QED BY <2>1, <2>6, <3>1 DEF Begins
  <2>9. Value(buf, 3, 6) = d
    BY <2>4, <2>6, <2>7
  <2> QED BY <1>1, <1>2, <2>7, <2>8, <2>9
<1>3. CASE d >= 64 /\ d < 320
  <2> DEFINE b == <<1, 1, 0>>
             v == d - 64
             w == 8
  <2>1. Len(b) = 3 /\ b[1] = 1 /\ b[2] = 1 /\ b[3] = 0
    OBVIOUS
  <2>2. IsSeq(b) /\ PosBits(d) = b \o Field(v, w)
    BY <1>1, <1>3, PrefixSeqs DEF PosBits
  <2>3. w \in 0 .. 12 /\ v \in 0 .. 2^w - 1
    BY <1>1, <1>3
  <2>4. w = 8 /\ v = d - 64
    OBVIOUS
  <2> HIDE DEF b, v, w
  <2>5. Begins(buf, b \o Field(v, w))
    BY <2>2
  <2>6. /\ Len(b \o Field(v, w)) = Len(b) + w
        /\ Begins(buf, b)
        /\ Value(buf, Len(b) + 1, w) = v
    BY <2>2, <2>3, <2>5, FieldReads, ZenonT(60)
  <2>7. Len(PosBits(d)) = 11 /\ Len(b) + 1 = 4
    BY <2>1, <2>2, <2>4, <2>6
  <2>8. buf[1] = 1 /\ buf[2] = 1 /\ buf[3] = 0
    <3>1. 1 \in 1 .. 3 /\ 2 \in 1 .. 3 /\ 3 \in 1 .. 3
      OBVIOUS
    <3> QED BY <2>1, <2>6, <3>1 DEF Begins
  <2>9. Value(buf, 4, 8) = d - 64
    BY <2>4, <2>6, <2>7
  <2> QED BY <1>1, <1>3, <2>7, <2>8, <2>9
<1>4. CASE d >= 320
  <2> DEFINE b == <<1, 1, 1>>
             v == d - 320
             w == 12
  <2>1. Len(b) = 3 /\ b[1] = 1 /\ b[2] = 1 /\ b[3] = 1
    OBVIOUS
  <2>2. IsSeq(b) /\ PosBits(d) = b \o Field(v, w)
    BY <1>1, <1>4, PrefixSeqs DEF PosBits
  <2>3. w \in 0 .. 12 /\ v \in 0 .. 2^w - 1
    BY <1>1, <1>4
  <2>4. w = 12 /\ v = d - 320
    OBVIOUS
  <2> HIDE DEF b, v, w
  <2>5. Begins(buf, b \o Field(v, w))
    BY <2>2
  <2>6. /\ Len(b \o Field(v, w)) = Len(b) + w
        /\ Begins(buf, b)
        /\ Value(buf, Len(b) + 1, w) = v
    BY <2>2, <2>3, <2>5, FieldReads, ZenonT(60)
  <2>7. Len(PosBits(d)) = 15 /\ Len(b) + 1 = 4
    BY <2>1, <2>2, <2>4, <2>6
  <2>8. buf[1] = 1 /\ buf[2] = 1 /\ buf[3] = 1
    <3>1. 1 \in 1 .. 3 /\ 2 \in 1 .. 3 /\ 3 \in 1 .. 3
      OBVIOUS
    <3> QED BY <2>1, <2>6, <3>1 DEF Begins
  <2>9. Value(buf, 4, 12) = d - 320
    BY <2>4, <2>6, <2>7
  <2> QED BY <1>1, <1>4, <2>7, <2>8, <2>9
<1> QED BY <1>1, <1>2, <1>3, <1>4

LEMMA LenOfSeq == ASSUME NEW s, IsSeq(s) PROVE Len(s) \in Nat
<1>1. PICK S : s \in Seq(S)
  BY Zenon DEF IsSeq
<1> QED BY <1>1

LEMMA ChrIsSeq == ASSUME NEW c PROVE IsSeq(Bits(Chr(c)))
<1>1. Bits(Chr(c)) = (IF c >= 128 THEN <<1, 0>> ELSE <<0, 1>>) \o Field(c % 128, 7)
  BY DEF Bits, Chr, ChrBits
<1>2. IsSeq(<<1, 0>>) /\ IsSeq(<<0, 1>>)
  <2>1. <<1, 0>> \in Seq({0, 1}) /\ <<0, 1>> \in Seq({0, 1})
    OBVIOUS
  <2> QED BY <2>1 DEF IsSeq
<1>3. IsSeq(Field(c % 128, 7))
  BY PartsAreSeq
<1> QED BY <1>1, <1>2, <1>3, JoinIsSeq

LEMMA BeginsJoin ==
  ASSUME NEW a, NEW b, NEW buf, IsSeq(a), IsSeq(b), Begins(buf, a \o b)
  PROVE  Begins(buf, a) /\ \A k \in 1 .. Len(b) : buf[Len(a) + k] = b[k]
<1>1. Len(a) \in Nat /\ Len(b) \in Nat
  BY LenOfSeq
<1>2. /\ Len(a \o b) = Len(a) + Len(b)
      /\ \A k \in 1 .. Len(a) : (a \o b)[k] = a[k]
      /\ \A k \in 1 .. Len(b) : (a \o b)[Len(a) + k] = b[k]
  BY JoinIsSeq, AtOfJoin
<1>3. \A k \in 1 .. Len(a) + Len(b) : buf[k] = (a \o b)[k]
  BY <1>2 DEF Begins
<1>4. \A k \in 1 .. Len(a) : buf[k] = a[k]
  <2> TAKE k \in 1 .. Len(a)
  <2>1. k \in 1 .. Len(a) + Len(b)
    BY <1>1
  <2> QED BY <1>2, <1>3, <2>1
<1>5. \A k \in 1 .. Len(b) : buf[Len(a) + k] = b[k]
  <2> TAKE k \in 1 .. Len(b)
  <2>1. Len(a) + k \in 1 .. Len(a) + Len(b)
    BY <1>1
  <2> QED BY <1>2, <1>3, <2>1
<1> QED BY <1>4, <1>5 DEF Begins

\* A copy is read with its distance and its length, from 32 bits at most.
LEMMA ReadsCopy ==
  ASSUME NEW d \in 1 .. MaxCodeDepth, NEW n \in 2 .. MaxCount,
         NEW buf, Begins(buf, Bits(Copy(d, n)))
  PROVE  /\ IsSeq(Bits(Copy(d, n))) /\ Len(Bits(Copy(d, n))) \in 1 .. 32
         /\ Decoded(buf) = [token |-> Copy(d, n), used |-> Len(Bits(Copy(d, n)))]
<1> DEFINE p == PosBits(d)
           c == CountBits(n)
           t == Copy(d, n)
<1>1. Bits(t) = p \o c
  BY DEF Bits, Copy
<1>2. d \in Nat /\ d \in 1 .. SectorBreak /\ d # SectorBreak
  BY DEF MaxCodeDepth, SectorBreak
<1>3. IsSeq(p) /\ IsSeq(c) /\ Len(p) \in 8 .. 15 /\ Len(c) \in 1 .. 17
  <2>1. IsSeq(p) /\ IsSeq(c) /\ Len(p) \in 8 .. 15
    BY <1>2, PosLength, CountLength
  <2>2. Ln2(n - 1) \in 0 .. 8 /\ Len(c) = (2 * Ln2(n - 1)) + 1
    BY CountIs
  <2> QED BY <2>1, <2>2, SMTT(60)
<1>4. Begins(buf, p \o c)
  BY <1>1
<1>5. \/ /\ d < 64 /\ Len(p) = 8
         /\ buf[1] = 0 /\ buf[2] = 0 /\ Value(buf, 3, 6) = d
      \/ /\ Len(p) = 11
         /\ buf[1] = 1 /\ buf[2] = 1 /\ buf[3] = 0 /\ 64 + Value(buf, 4, 8) = d
      \/ /\ Len(p) = 15
         /\ buf[1] = 1 /\ buf[2] = 1 /\ buf[3] = 1 /\ 320 + Value(buf, 4, 12) = d
  <2> HIDE DEF c
  <2>1. Begins(buf, p)
    <3> HIDE DEF p
    <3> QED BY <1>3, <1>4, BeginsJoin
  <2> QED BY <1>2, <2>1, PosReads
<1>6. \A k \in 1 .. Len(c) : buf[Len(p) + k] = c[k]
  <2> HIDE DEF p, c
  <2> QED BY <1>3, <1>4, BeginsJoin
<1>7. Counted(buf, Len(p) + 1, d) = [token |-> t, used |-> Len(p) + Len(c)]
  <2> DEFINE i == Len(p) + 1
  <2>1. i \in 1 .. 16 /\ i - 1 + Len(c) = Len(p) + Len(c)
    <3> DEFINE x == Len(p)
               y == Len(c)
    <3>1. x \in 8 .. 15 /\ y \in 1 .. 17
      BY <1>3
    <3> HIDE DEF x, y
    <3>2. x + 1 \in 1 .. 16 /\ x + 1 - 1 + y = x + y
      BY <3>1
    <3> QED BY <3>2 DEF x, y
  <2>2. \A k \in 1 .. Len(c) : buf[i - 1 + k] = c[k]
    <3> TAKE k \in 1 .. Len(c)
    <3> HIDE DEF p, c
    <3>1. i - 1 + k = Len(p) + k
      BY <1>3
    <3> QED BY <1>6, <3>1
  <2> HIDE DEF i
  <2>3. Counted(buf, i, d) = [token |-> Copy(d, n), used |-> i - 1 + Len(CountBits(n))]
    BY <2>1, <2>2, CountReads
  <2> QED BY <2>1, <2>3 DEF i
<1>8. Decoded(buf) = Counted(buf, Len(p) + 1, d)
  <2> HIDE DEF p
  <2>1. CASE /\ d < 64 /\ Len(p) = 8
             /\ buf[1] = 0 /\ buf[2] = 0 /\ Value(buf, 3, 6) = d
    <3>1. Value(buf, 3, 6) # 0
      BY <1>2, <2>1
    <3> QED BY <2>1, <3>1, DecodedCases
  <2>2. CASE /\ Len(p) = 11
             /\ buf[1] = 1 /\ buf[2] = 1 /\ buf[3] = 0 /\ 64 + Value(buf, 4, 8) = d
    BY <2>2, DecodedCases
  <2>3. CASE /\ Len(p) = 15
             /\ buf[1] = 1 /\ buf[2] = 1 /\ buf[3] = 1 /\ 320 + Value(buf, 4, 12) = d
    BY <1>2, <2>3, DecodedCases
  <2> QED BY <1>5, <2>1, <2>2, <2>3
<1>9. IsSeq(p \o c) /\ Len(p \o c) = Len(p) + Len(c)
  <2> HIDE DEF p, c
  <2> QED BY <1>3, JoinIsSeq
<1> HIDE DEF p, c
<1>10. Len(Bits(t)) \in 1 .. 32
  <2> DEFINE x == Len(p)
             y == Len(c)
  <2>1. x \in 8 .. 15 /\ y \in 1 .. 17 /\ Len(p \o c) = x + y
    BY <1>3, <1>9
  <2> HIDE DEF x, y
  <2>2. x + y \in 1 .. 32
    BY <2>1
  <2> QED BY <1>1, <2>1, <2>2
<1> QED BY <1>1, <1>7, <1>8, <1>9, <1>10

LEMMA ReadsBreak ==
  ASSUME NEW buf, Begins(buf, Bits(Break))
  PROVE  /\ IsSeq(Bits(Break)) /\ Len(Bits(Break)) = 15
         /\ Decoded(buf) = [token |-> Break, used |-> 15]
<1>1. Bits(Break) = PosBits(SectorBreak)
  BY DEF Bits, Break, Mark
<1>2. SectorBreak \in 1 .. SectorBreak /\ SectorBreak \in Nat /\ ~(SectorBreak < 64)
  BY DEF SectorBreak
<1>3. Len(PosBits(SectorBreak)) = 15 /\ IsSeq(PosBits(SectorBreak))
  BY <1>1, <1>2, MarkLength, PosLength
<1>4. /\ buf[1] = 1 /\ buf[2] = 1 /\ buf[3] = 1
      /\ 320 + Value(buf, 4, 12) = SectorBreak
  <2>1. Begins(buf, PosBits(SectorBreak))
    BY <1>1
  <2> QED BY <1>2, <1>3, <2>1, PosReads
<1> QED BY <1>1, <1>3, <1>4, DecodedCases DEF Break

LEMMA FewPowers == \A k \in {1, 2, 3, 4, 5, 6} : 2^(k - 1) \in Nat \ {0}
<1> SUFFICES ASSUME NEW k \in {1, 2, 3, 4, 5, 6} PROVE 2^(k - 1) \in Nat \ {0}
  OBVIOUS
<1>1. CASE k = 1
  BY <1>1
<1>2. CASE k = 2
  BY <1>2
<1>3. CASE k = 3
  BY <1>3
<1>4. CASE k = 4
  BY <1>4
<1>5. CASE k = 5
  BY <1>5
<1>6. CASE k = 6
  BY <1>6
<1> QED BY <1>1, <1>2, <1>3, <1>4, <1>5, <1>6

LEMMA ReadsEnd ==
  ASSUME NEW buf, Begins(buf, Bits(End))
  PROVE  /\ IsSeq(Bits(End)) /\ Len(Bits(End)) = 8
         /\ Decoded(buf) = [token |-> End, used |-> 8]
<1>1. Bits(End) = Zeroes(8)
  BY DEF Bits, End, Mark
<1>2. IsSeq(Zeroes(8)) /\ Len(Zeroes(8)) = 8
  BY PartsAreSeq
<1>3. \A k \in 1 .. 8 : buf[k] = 0
  <2> TAKE k \in 1 .. 8
  <2>1. buf[k] = Zeroes(8)[k]
    BY <1>1, <1>2 DEF Begins
  <2> QED BY <2>1 DEF Zeroes
<1>4. buf[1] = 0 /\ buf[2] = 0
  BY <1>3
<1>5. Value(buf, 3, 6) = 0
  <2> DEFINE w == 6
             v == 0
  <2>1. w \in 0 .. 12 /\ v \in 0 .. 2^w - 1 /\ 3 \in Nat
    OBVIOUS
  <2>2. \A k \in 1 .. w : buf[3 + k - 1] = (v \div 2^(k - 1)) % 2
    <3> TAKE k \in 1 .. w
    <3>1. 3 + k - 1 \in 1 .. 8
      OBVIOUS
    <3>2. k \in {1, 2, 3, 4, 5, 6}
      OBVIOUS
    <3>3. 2^(k - 1) \in Nat \ {0}
      BY <3>2, FewPowers
    <3>4. (v \div 2^(k - 1)) % 2 = 0
      <4> DEFINE q == 2^(k - 1)
      <4>1. q \in Nat \ {0}
        BY <3>3
      <4> HIDE DEF q
      <4>2. (0 \div q) % 2 = 0
        BY <4>1
      <4> QED BY <4>2 DEF q
    <3> QED BY <1>3, <3>1, <3>4
  <2> HIDE DEF v, w
  <2>3. Value(buf, 3, w) = v
    BY <2>1, <2>2, ValueOfField
  <2> QED BY <2>3 DEF v, w
<1> QED BY <1>1, <1>2, <1>4, <1>5, DecodedCases DEF End

\* ds_decompress reads the code of a token as ds_compress writes it.
LEMMA ReadsToken ==
  ASSUME NEW t, Sayable(t), NEW buf, Begins(buf, Bits(t))
  PROVE  /\ IsSeq(Bits(t)) /\ Len(Bits(t)) \in 1 .. 32
         /\ Decoded(buf) = [token |-> t, used |-> Len(Bits(t))]
<1>1. ASSUME NEW c \in Byte, t = Chr(c)
      PROVE  /\ IsSeq(Bits(t)) /\ Len(Bits(t)) = 9
             /\ Decoded(buf) = [token |-> t, used |-> Len(Bits(t))]
  <2>1. Decoded(buf) = [token |-> t, used |-> 9] /\ Len(Bits(t)) = 9
    BY <1>1, ReadsChr, ChrLength
  <2>2. IsSeq(Bits(t))
    BY <1>1, ChrIsSeq
  <2> QED BY <2>1, <2>2
<1>2. CASE t.byte \in Byte /\ t = Chr(t.byte)
  <2>1. PICK c \in Byte : t = Chr(c)
    BY <1>2
  <2>2. /\ IsSeq(Bits(t)) /\ Len(Bits(t)) = 9
        /\ Decoded(buf) = [token |-> t, used |-> Len(Bits(t))]
    BY <1>1, <2>1
  <2> QED BY <2>2
<1>3. CASE t.dist \in 1 .. MaxCodeDepth /\ t.len \in 2 .. MaxCount /\ t = Copy(t.dist, t.len)
  <2>1. PICK d \in 1 .. MaxCodeDepth, n \in 2 .. MaxCount : t = Copy(d, n)
    BY <1>3
  <2> QED BY <2>1, ReadsCopy
<1>4. CASE t = Break
  <2>1. Begins(buf, Bits(Break))
    BY <1>4
  <2>2. /\ IsSeq(Bits(Break)) /\ Len(Bits(Break)) = 15
        /\ Decoded(buf) = [token |-> Break, used |-> 15]
    BY <2>1, ReadsBreak
  <2>3. Len(Bits(Break)) \in 1 .. 32
    BY <2>2
  <2> QED BY <1>4, <2>2, <2>3
<1>5. CASE t = End
  <2>1. Begins(buf, Bits(End))
    BY <1>5
  <2>2. /\ IsSeq(Bits(End)) /\ Len(Bits(End)) = 8
        /\ Decoded(buf) = [token |-> End, used |-> 8]
    BY <2>1, ReadsEnd
  <2>3. Len(Bits(End)) \in 1 .. 32
    BY <2>2
  <2> QED BY <1>5, <2>2, <2>3
<1> QED BY <1>2, <1>3, <1>4, <1>5 DEF Sayable

--------------------------------------------------------------------------
(* The bits of a stream                                                    *)

\* What FlattenSeq of the community modules computes.
JoinIs(r, n, g) == g = [i \in 1 .. n |-> IF i = 1 THEN r[i] ELSE g[i - 1] \o r[i]]

LEMMA JoinAt ==
  ASSUME NEW r, NEW n \in Nat, NEW g
  PROVE  JoinIs(r, n, g) <=>
           /\ g = [i \in 1 .. n |-> g[i]]
           /\ \A i \in 1 .. n : g[i] = IF i = 1 THEN r[i] ELSE g[i - 1] \o r[i]
<1> DEFINE H(i) == IF i = 1 THEN r[i] ELSE g[i - 1] \o r[i]
<1>1. ASSUME g = [i \in 1 .. n |-> H(i)]
      PROVE  g = [i \in 1 .. n |-> g[i]] /\ \A i \in 1 .. n : g[i] = H(i)
  <2> HIDE DEF H
  <2> QED BY <1>1
<1>2. ASSUME g = [i \in 1 .. n |-> g[i]], \A i \in 1 .. n : g[i] = H(i)
      PROVE  g = [i \in 1 .. n |-> H(i)]
  <2> HIDE DEF H
  <2> QED BY <1>2
<1>3. JoinIs(r, n, g) <=> g = [i \in 1 .. n |-> H(i)]
  BY DEF JoinIs
<1> QED BY <1>1, <1>2, <1>3

LEMMA JoinExists == ASSUME NEW r, NEW n \in Nat PROVE \E g : JoinIs(r, n, g)
<1> DEFINE P == {m \in 0 .. n : \E g : JoinIs(r, m, g)}
<1>1. 0 \in P
  <2> DEFINE e == [i \in 1 .. 0 |-> r[i]]
  <2>1. e = [i \in 1 .. 0 |-> e[i]] /\ 0 \in Nat /\ 1 .. 0 = {}
    OBVIOUS
  <2> HIDE DEF e
  <2>2. JoinIs(r, 0, e)
    BY <2>1, JoinAt
  <2> QED BY <2>2
<1>2. ASSUME NEW m \in P, m < n PROVE m + 1 \in P
  <2>1. PICK g : JoinIs(r, m, g)
    OBVIOUS
  <2>2. m \in Nat /\ m + 1 \in 0 .. n
    BY <1>2
  <2> DEFINE h == [i \in 1 .. m + 1 |->
                     IF i = 1 THEN r[i] ELSE IF i <= m THEN g[i] ELSE g[i - 1] \o r[i]]
  <2>3. \A i \in 1 .. m : g[i] = IF i = 1 THEN r[i] ELSE g[i - 1] \o r[i]
    BY <2>1, <2>2, JoinAt
  <2>4. \A i \in 1 .. m : h[i] = g[i]
    BY <2>2, <2>3
  <2>5. ASSUME NEW i \in 1 .. m + 1
        PROVE  h[i] = IF i = 1 THEN r[i] ELSE h[i - 1] \o r[i]
    <3>1. CASE i = 1
      BY <3>1
    <3>2. CASE i # 1
      <4>1. i - 1 \in 1 .. m
        BY <2>2, <3>2
      <4>2. h[i - 1] = g[i - 1]
        BY <2>4, <4>1
      <4>3. h[i] = g[i - 1] \o r[i]
        <5>1. CASE i <= m
          <6>1. i \in 1 .. m
            BY <2>2, <5>1
          <6>2. h[i] = g[i] /\ g[i] = g[i - 1] \o r[i]
            BY <2>3, <2>4, <3>2, <6>1
          <6> QED BY <6>2
        <5>2. CASE ~(i <= m)
          BY <3>2, <5>2
        <5> QED BY <5>1, <5>2
      <4> HIDE DEF h
      <4> QED BY <3>2, <4>2, <4>3
    <3> QED BY <3>1, <3>2
  <2>6. h = [i \in 1 .. m + 1 |-> h[i]]
    OBVIOUS
  <2> HIDE DEF h
  <2>7. m + 1 \in Nat
    BY <2>2
  <2>8. JoinIs(r, m + 1, h)
    BY <2>5, <2>6, <2>7, JoinAt
  <2> QED BY <2>2, <2>8
<1>3. n \in P
  <2> HIDE DEF P
  <2> QED BY <1>1, <1>2, UpTo
<1> QED BY <1>3

LEMMA JoinUnique ==
  ASSUME NEW r, NEW q, NEW n \in Nat, NEW m \in Nat, NEW g, NEW h, n <= m,
         JoinIs(r, n, g), JoinIs(q, m, h), \A i \in 1 .. n : r[i] = q[i]
  PROVE  \A i \in 1 .. n : g[i] = h[i]
<1>1. \A i \in 1 .. n : g[i] = IF i = 1 THEN r[i] ELSE g[i - 1] \o r[i]
  BY JoinAt
<1>2. \A i \in 1 .. m : h[i] = IF i = 1 THEN q[i] ELSE h[i - 1] \o q[i]
  BY JoinAt
<1>3. \A i \in 1 .. n : i \in 1 .. m
  OBVIOUS
<1> DEFINE P == {k \in 0 .. n : \A i \in 1 .. k : g[i] = h[i]}
<1>4. 0 \in P
  OBVIOUS
<1>5. ASSUME NEW k \in P, k < n PROVE k + 1 \in P
  <2>1. k \in Nat /\ k + 1 \in 1 .. n
    BY <1>5
  <2>2. \A i \in 1 .. k : g[i] = h[i]
    OBVIOUS
  <2>3. r[k + 1] = q[k + 1] /\ k + 1 \in 1 .. m
    BY <1>3, <2>1
  <2>4. g[k + 1] = h[k + 1]
    <3>1. CASE k = 0
      <4>1. k + 1 = 1
        BY <3>1
      <4>2. g[k + 1] = r[k + 1] /\ h[k + 1] = q[k + 1]
        BY <1>1, <1>2, <2>1, <2>3, <4>1
      <4> QED BY <2>3, <4>2
    <3>2. CASE k # 0
      <4>1. k \in 1 .. k /\ k + 1 # 1 /\ k + 1 - 1 = k
        BY <2>1, <3>2
      <4>2. g[k] = h[k]
        BY <2>2, <4>1
      <4> DEFINE j == k + 1
      <4>3. j \in 1 .. n /\ j \in 1 .. m /\ j # 1 /\ j - 1 = k /\ r[j] = q[j]
        BY <2>1, <2>3, <4>1
      <4> HIDE DEF j
      <4>4. g[j] = g[j - 1] \o r[j]
        BY <1>1, <4>3
      <4>5. h[j] = h[j - 1] \o q[j]
        BY <1>2, <4>3
      <4>6. g[j] = h[j]
        BY <4>2, <4>3, <4>4, <4>5
      <4> QED BY <4>6 DEF j
    <3> QED BY <3>1, <3>2
  <2>5. \A i \in 1 .. k + 1 : i \in 1 .. k \/ i = k + 1
    BY <2>1
  <2>6. k + 1 \in 0 .. n
    BY <2>1
  <2> QED BY <2>2, <2>4, <2>5, <2>6
<1>6. n \in P
  <2> HIDE DEF P
  <2> QED BY <1>4, <1>5, UpTo
<1> QED BY <1>6

\* Every part is whole in it, and the first one in front.
LEMMA JoinBegins ==
  ASSUME NEW r, NEW n \in Nat, NEW g, JoinIs(r, n, g), \A i \in 1 .. n : IsSeq(r[i])
  PROVE  \A i \in 1 .. n :
           /\ IsSeq(g[i]) /\ Len(r[1]) <= Len(g[i])
           /\ \A k \in 1 .. Len(r[1]) : g[i][k] = r[1][k]
<1>1. \A i \in 1 .. n : g[i] = IF i = 1 THEN r[i] ELSE g[i - 1] \o r[i]
  BY JoinAt
<1> DEFINE Ok(i) == /\ IsSeq(g[i]) /\ Len(r[1]) <= Len(g[i])
                    /\ \A k \in 1 .. Len(r[1]) : g[i][k] = r[1][k]
           P == {k \in 0 .. n : \A i \in 1 .. k : Ok(i)}
<1>2. 0 \in P
  OBVIOUS
<1>3. ASSUME NEW k \in P, k < n PROVE k + 1 \in P
  <2>1. k \in Nat /\ k + 1 \in 1 .. n
    BY <1>3
  <2>2. \A i \in 1 .. k : Ok(i)
    OBVIOUS
  <2>3. Ok(k + 1)
    <3>1. CASE k = 0
      <4>1. 1 \in 1 .. n /\ k + 1 = 1
        BY <2>1, <3>1
      <4>2. g[1] = r[1] /\ IsSeq(r[1]) /\ Len(r[1]) \in Nat
        BY <1>1, <4>1, LenOfSeq
      <4>3. Ok(1)
        BY <4>2
      <4> HIDE DEF Ok
      <4> QED BY <4>1, <4>3
    <3>2. CASE k # 0
      <4>1. k \in 1 .. k /\ k + 1 # 1 /\ k + 1 - 1 = k
        BY <2>1, <3>2
      <4>2. g[k + 1] = g[k] \o r[k + 1] /\ IsSeq(r[k + 1])
        <5> DEFINE j == k + 1
        <5>1. j \in 1 .. n /\ j # 1 /\ j - 1 = k
          BY <2>1, <4>1
        <5> HIDE DEF j
        <5>2. g[j] = g[j - 1] \o r[j] /\ IsSeq(r[j])
          BY <1>1, <5>1
        <5> QED BY <5>1, <5>2 DEF j
      <4>3. Ok(k)
        <5> HIDE DEF Ok
        <5> QED BY <2>2, <4>1
      <4>4. IsSeq(g[k]) /\ IsSeq(r[1]) /\ Len(r[1]) <= Len(g[k])
        <5>1. 1 \in 1 .. n
          BY <2>1
        <5> QED BY <4>3, <5>1
      <4>5. Len(g[k]) \in Nat /\ Len(r[1]) \in Nat /\ Len(r[k + 1]) \in Nat
        BY <4>2, <4>4, LenOfSeq
      <4>6. /\ IsSeq(g[k + 1]) /\ Len(g[k + 1]) = Len(g[k]) + Len(r[k + 1])
            /\ \A j \in 1 .. Len(g[k]) : g[k + 1][j] = g[k][j]
        <5> DEFINE a == g[k]
                   b == r[k + 1]
        <5>1. IsSeq(a) /\ IsSeq(b) /\ g[k + 1] = a \o b
          BY <4>2, <4>4
        <5> HIDE DEF a, b
        <5>2. IsSeq(a \o b) /\ Len(a \o b) = Len(a) + Len(b)
          BY <5>1, JoinIsSeq
        <5>3. \A j \in 1 .. Len(a) : (a \o b)[j] = a[j]
          BY <5>1, AtOfJoin
        <5> QED BY <5>1, <5>2, <5>3 DEF a, b
      <4>7. Len(r[1]) <= Len(g[k + 1])
        <5> DEFINE x == Len(r[1])
                   y == Len(g[k])
                   z == Len(r[k + 1])
        <5>1. x \in Nat /\ y \in Nat /\ z \in Nat /\ x <= y /\ Len(g[k + 1]) = y + z
          BY <4>4, <4>5, <4>6
        <5> HIDE DEF x, y, z
        <5>2. x <= Len(g[k + 1])
          BY <5>1
        <5> QED BY <5>2 DEF x
      <4>8. ASSUME NEW j \in 1 .. Len(r[1]) PROVE g[k + 1][j] = r[1][j]
        <5>1. j \in 1 .. Len(g[k])
          BY <4>4, <4>5
        <5>2. g[k][j] = r[1][j]
          BY <4>3
        <5> QED BY <4>6, <5>1, <5>2
      <4> QED BY <4>6, <4>7, <4>8
    <3> QED BY <3>1, <3>2
  <2>4. \A i \in 1 .. k + 1 : i \in 1 .. k \/ i = k + 1
    BY <2>1
  <2>5. k + 1 \in 0 .. n
    BY <2>1
  <2> HIDE DEF Ok
  <2> QED BY <2>2, <2>3, <2>4, <2>5
<1>4. n \in P
  <2> HIDE DEF P
  <2> QED BY <1>2, <1>3, UpTo
<1> QED BY <1>4

LEMMA Flattened ==
  ASSUME NEW r, NEW n \in Nat, n > 0, Len(r) = n, NEW g, JoinIs(r, n, g)
  PROVE  FlattenSeq(r) = g[n]
<1> DEFINE f == CHOOSE h : JoinIs(r, n, h)
<1>1. FlattenSeq(r) = f[n]
  BY DEF FlattenSeq, JoinIs
<1>2. JoinIs(r, n, f)
  BY JoinExists
<1> HIDE DEF f
<1>3. \A i \in 1 .. n : f[i] = g[i]
  BY <1>2, JoinUnique
<1>4. n \in 1 .. n
  OBVIOUS
<1> QED BY <1>1, <1>3, <1>4

Codes(s) == [n \in 1 .. Len(s) |-> Bits(s[n])]

Coded(s) == IsSeq(s) /\ \A n \in 1 .. Len(s) : IsSeq(Bits(s[n]))

LEMMA CodesOf ==
  ASSUME NEW s, Coded(s)
  PROVE  /\ Len(s) \in Nat /\ Len(Codes(s)) = Len(s)
         /\ \A n \in 1 .. Len(s) : Codes(s)[n] = Bits(s[n]) /\ IsSeq(Codes(s)[n])
<1>1. Len(s) \in Nat
  BY LenOfSeq DEF Coded
<1>2. Codes(s) = [n \in 1 .. Len(s) |-> Codes(s)[n]]
  BY DEF Codes
<1>3. Len(Codes(s)) = Len(s)
  BY <1>1, <1>2, FieldIsSeq
<1> QED BY <1>1, <1>3 DEF Codes, Coded

LEMMA StreamIs == ASSUME NEW s PROVE StreamBits(s) = FlattenSeq(Codes(s))
BY DEF StreamBits, Codes

LEMMA StreamOfNone == Len(StreamBits(<< >>)) = 0
<1>1. Len(Codes(<< >>)) = 0
  BY DEF Codes
<1>2. FlattenSeq(Codes(<< >>)) = Codes(<< >>)
  BY <1>1 DEF FlattenSeq
<1> QED BY <1>1, <1>2, StreamIs

\* A token more adds its bits.
LEMMA StreamGrows ==
  ASSUME NEW s, Coded(s), NEW t, IsSeq(Bits(t)), NEW u, Coded(u),
         Len(u) = Len(s) + 1, \A n \in 1 .. Len(s) : u[n] = s[n], u[Len(s) + 1] = t
  PROVE  Len(StreamBits(u)) = Len(StreamBits(s)) + Len(Bits(t))
<1> DEFINE n == Len(s)
           r == Codes(s)
           q == Codes(u)
<1>1. /\ n \in Nat /\ Len(r) = n /\ Len(q) = n + 1
      /\ \A i \in 1 .. n : r[i] = Bits(s[i]) /\ IsSeq(r[i])
      /\ \A i \in 1 .. n + 1 : q[i] = Bits(u[i]) /\ IsSeq(q[i])
  BY CodesOf
<1>2. n + 1 \in Nat /\ n + 1 > 0 /\ n + 1 \in 1 .. n + 1 /\ n <= n + 1
  BY <1>1
<1>3. (\A i \in 1 .. n : r[i] = q[i]) /\ q[n + 1] = Bits(t)
  <2>1. ASSUME NEW i \in 1 .. n PROVE r[i] = q[i]
    <3>1. i \in 1 .. n + 1
      BY <1>1
    <3> QED BY <1>1, <3>1
  <2>2. q[n + 1] = Bits(u[n + 1])
    BY <1>1, <1>2
  <2> QED BY <2>1, <2>2
<1>4. StreamBits(s) = FlattenSeq(r) /\ StreamBits(u) = FlattenSeq(q)
  BY StreamIs
<1>5. u[n + 1] = t
  OBVIOUS
<1> HIDE DEF n, r, q
<1>6. PICK h : JoinIs(q, n + 1, h)
  BY <1>2, JoinExists
<1>7. StreamBits(u) = h[n + 1]
  BY <1>1, <1>2, <1>4, <1>6, Flattened
<1>8. \A i \in 1 .. n + 1 : h[i] = IF i = 1 THEN q[i] ELSE h[i - 1] \o q[i]
  BY <1>2, <1>6, JoinAt
<1>9. CASE n = 0
  <2>1. Len(StreamBits(s)) = 0
    <3>1. Len(r) = 0
      BY <1>1, <1>9
    <3>2. FlattenSeq(r) = r
      BY <3>1 DEF FlattenSeq
    <3> QED BY <1>4, <3>1, <3>2
  <2>2. h[n + 1] = q[n + 1]
    BY <1>2, <1>8, <1>9
  <2>3. Len(Bits(t)) \in Nat
    BY LenOfSeq
  <2>4. Len(StreamBits(u)) = Len(Bits(t))
    BY <1>3, <1>7, <2>2
  <2> QED BY <2>1, <2>3, <2>4
<1>10. CASE n # 0
  <2>1. PICK g : JoinIs(r, n, g)
    BY <1>1, JoinExists
  <2>2. n > 0 /\ n \in 1 .. n
    BY <1>1, <1>10
  <2>3. StreamBits(s) = g[n]
    BY <1>1, <1>4, <2>1, <2>2, Flattened, SMTT(60)
  <2>4. g[n] = h[n]
    <3> DEFINE m == n + 1
    <3>1. m \in Nat /\ n <= m /\ JoinIs(q, m, h)
      BY <1>2, <1>6
    <3> HIDE DEF m
    <3>2. \A i \in 1 .. n : g[i] = h[i]
      <4>1. n \in Nat /\ \A i \in 1 .. n : r[i] = q[i]
        BY <1>1, <1>3
      <4> QED BY ONLY <2>1, <3>1, <4>1, JoinUnique
    <3> QED BY <2>2, <3>2
  <2>5. h[n + 1] = h[n] \o q[n + 1]
    <3> DEFINE j == n + 1
    <3>1. j \in 1 .. n + 1 /\ j # 1 /\ j - 1 = n
      BY <1>1, <1>2, <1>10
    <3> HIDE DEF j
    <3>2. h[j] = h[j - 1] \o q[j]
      BY <1>8, <3>1
    <3> QED BY <3>1, <3>2 DEF j
  <2>6. IsSeq(g[n])
    <3>1. \A i \in 1 .. n : IsSeq(r[i])
      BY <1>1
    <3> QED BY <1>1, <2>1, <2>2, <3>1, JoinBegins
  <2>7. StreamBits(u) = StreamBits(s) \o Bits(t) /\ IsSeq(StreamBits(s))
    BY <1>3, <1>7, <2>3, <2>4, <2>5, <2>6
  <2> QED BY <2>7, JoinIsSeq
<1> QED BY <1>9, <1>10

\* The code of the first token stands in front.
LEMMA StreamBegins ==
  ASSUME NEW s, Coded(s), Len(s) > 0
  PROVE  /\ IsSeq(StreamBits(s)) /\ Len(Bits(s[1])) <= Len(StreamBits(s))
         /\ Begins(StreamBits(s), Bits(s[1]))
<1> DEFINE n == Len(s)
           r == Codes(s)
<1>1. /\ n \in Nat /\ n > 0 /\ Len(r) = n
      /\ \A i \in 1 .. n : r[i] = Bits(s[i]) /\ IsSeq(r[i])
  BY CodesOf
<1>2. StreamBits(s) = FlattenSeq(r)
  BY StreamIs
<1> HIDE DEF n, r
<1>3. PICK g : JoinIs(r, n, g)
  BY <1>1, JoinExists
<1>4. StreamBits(s) = g[n]
  BY <1>1, <1>2, <1>3, Flattened
<1>5. n \in 1 .. n /\ r[1] = Bits(s[1])
  BY <1>1
<1>6. /\ IsSeq(g[n]) /\ Len(r[1]) <= Len(g[n])
      /\ \A k \in 1 .. Len(r[1]) : g[n][k] = r[1][k]
  <2>1. \A i \in 1 .. n : IsSeq(r[i])
    BY <1>1
  <2> QED BY <1>1, <1>3, <1>5, <2>1, JoinBegins
<1> QED BY <1>4, <1>5, <1>6 DEF Begins

LEMMA SaidIsSeq == ASSUME NEW t, Sayable(t) PROVE IsSeq(Bits(t)) /\ Len(Bits(t)) \in 1 .. 32
<1>1. Begins(Bits(t), Bits(t))
  BY DEF Begins
<1> QED BY <1>1, ReadsToken

\* All of a stream is read as it was written, whatever follows a token.
LEMMA AllRead ==
  ASSUME NEW s, IsSeq(s), \A n \in 1 .. Len(s) : Sayable(s[n])
  PROVE  CodesRead(s)
<1> SUFFICES ASSUME NEW n \in 1 .. Len(s)
             PROVE  LET r == Decoded(Window(StreamBits(SubSeq(s, n, Len(s))), 1))
                    IN  r.token = s[n] /\ r.used = Len(Bits(s[n])) /\ r.used <= 32
  BY DEF CodesRead
<1> DEFINE u == SubSeq(s, n, Len(s))
           b == StreamBits(u)
           w == Window(b, 1)
           t == s[n]
<1>1. PICK S : s \in Seq(S)
  BY Zenon DEF IsSeq
<1>2. /\ Len(s) \in Nat /\ n \in Nat
      /\ u \in Seq(S) /\ Len(u) = Len(s) - n + 1 /\ Len(u) > 0
      /\ \A k \in 1 .. Len(u) : u[k] = s[n + k - 1]
  BY <1>1
<1>3. u[1] = t
  BY <1>2
<1> HIDE DEF u
<1>4. ASSUME NEW k \in 1 .. Len(u) PROVE IsSeq(Bits(u[k]))
  <2>1. n + k - 1 \in 1 .. Len(s)
    BY <1>2
  <2>2. Sayable(u[k])
    BY <1>2, <2>1
  <2> QED BY <2>2, SaidIsSeq
<1>5. Coded(u)
  BY <1>2, <1>4 DEF Coded, IsSeq
<1>6. IsSeq(b) /\ Len(Bits(t)) <= Len(b) /\ Begins(b, Bits(t))
  BY <1>2, <1>3, <1>5, StreamBegins
<1>7. Sayable(t) /\ Len(Bits(t)) \in 1 .. 32 /\ Len(b) \in Nat
  <2>1. Sayable(t)
    OBVIOUS
  <2> HIDE DEF t
  <2> QED BY <1>6, <2>1, SaidIsSeq, LenOfSeq
<1> HIDE DEF t
<1>8. Begins(w, Bits(t))
  <2> SUFFICES ASSUME NEW k \in 1 .. Len(Bits(t)) PROVE w[k] = Bits(t)[k]
    BY DEF Begins
  <2>1. k \in 1 .. 32 /\ 1 + k - 1 = k /\ k <= Len(b)
    <3> DEFINE x == Len(Bits(t))
               y == Len(b)
    <3>1. x \in 1 .. 32 /\ y \in Nat /\ x <= y /\ k \in 1 .. x
      BY <1>6, <1>7
    <3> HIDE DEF x, y
    <3>2. k \in 1 .. 32 /\ 1 + k - 1 = k /\ k <= y
      BY <3>1
    <3> QED BY <3>2 DEF y
  <2>2. b[k] = Bits(t)[k]
    BY <1>6 DEF Begins
  <2> HIDE DEF b
  <2>3. w[k] = b[k]
    BY <2>1 DEF Window
  <2> QED BY <2>2, <2>3
<1> HIDE DEF w
<1>9. Decoded(w) = [token |-> t, used |-> Len(Bits(t))]
  BY <1>7, <1>8, ReadsToken
<1>10. Decoded(w).token = t /\ Decoded(w).used = Len(Bits(t)) /\ Decoded(w).used <= 32
  <2> DEFINE x == Len(Bits(t))
  <2>1. Decoded(w) = [token |-> t, used |-> x] /\ x \in 1 .. 32
    BY <1>7, <1>9
  <2> HIDE DEF x
  <2>2. Decoded(w).token = t /\ Decoded(w).used = x /\ x <= 32
    BY <2>1
  <2> QED BY <2>2 DEF x
<1> QED BY <1>10 DEF w, b, u, t

--------------------------------------------------------------------------
(* The bits of a chunk                                                     *)

LEMMA TwoMore ==
  ASSUME NEW S, NEW s \in Seq(S), NEW a \in S, NEW b \in S
  PROVE  /\ Len(s \o <<a, b>>) = Len(s) + 2
         /\ (s \o <<a, b>>)[Len(s) + 1] = a
         /\ (s \o <<a, b>>)[Len(s) + 2] = b
<1>1. <<a, b>> \in Seq(S) /\ Len(<<a, b>>) = 2 /\ <<a, b>>[1] = a /\ <<a, b>>[2] = b
  OBVIOUS
<1> QED BY <1>1, ConcatProperties

\* A run stays within its segment.
LEMMA RunFits ==
  ASSUME DsInv, InSegment, NEW n, IsRun(n)
  PROVE  n \in 1 .. Segment /\ pos + n <= Len(block)
<1>1. n \in 1 .. SegEnd - pos
  BY DEF IsRun
<1>2. phase = "pack" /\ seg * Segment < Len(block)
  BY DEF InSegment, HasSegment
<1>3. Lesser(seg * Segment, Len(block)) <= pos
  BY <1>2 DEF DsInv, StreamInv
<1>4. seg * Segment \in Nat /\ (seg + 1) * Segment = (seg * Segment) + Segment
  BY SegTyped, Code
<1>5. seg * Segment <= pos
  BY <1>2, <1>3, <1>4, SegTyped DEF Lesser
<1>6. SegEnd <= (seg * Segment) + Segment
  BY <1>4, SegTyped, Code DEF SegEnd, Lesser
<1> QED BY <1>1, <1>4, <1>5, <1>6, SegTyped, Code

LEMMA ChrSayable == ASSUME NEW c \in Byte PROVE Sayable(Chr(c))
<1> DEFINE t == Chr(c)
<1>1. t.byte = c
  BY DEF Chr
<1> HIDE DEF t
<1>2. t = Chr(t.byte) /\ t.byte \in Byte
  BY <1>1 DEF t
<1> QED BY <1>2 DEF Sayable, t

LEMMA CopySayable ==
  ASSUME NEW d \in 1 .. MaxCodeDepth, NEW n \in 2 .. MaxCount
  PROVE  Sayable(Copy(d, n))
<1> DEFINE t == Copy(d, n)
<1>1. t.dist = d /\ t.len = n
  BY DEF Copy
<1>2. t = Copy(d, n)
  OBVIOUS
<1> HIDE DEF t
<1>3. t = Copy(t.dist, t.len) /\ t.dist \in 1 .. MaxCodeDepth /\ t.len \in 2 .. MaxCount
  BY <1>1, <1>2
<1> QED BY <1>3 DEF Sayable, t

\* What PackStep may write, and what it has compressed by it.
PackedMore(ts, n) ==
  /\ stream' = stream \o ts /\ Len(starts') = Len(starts) + Len(ts)
  /\ pos' = pos + n /\ seg' = seg /\ phase' = phase /\ block' = block

LEMMA BitsOfStep ==
  ASSUME DsInv, phase = "pack", PackStep
  PROVE  \/ \E t \in Token, n \in Nat :
              /\ PackedMore(<<t>>, n) /\ Sayable(t)
              /\ Len(Bits(t)) \in Nat /\ Len(Bits(t)) <= 9 * n
         \/ \E t, u \in Token, n \in Nat :
              /\ PackedMore(<<t, u>>, n) /\ Sayable(t) /\ Sayable(u)
              /\ Len(Bits(t)) \in Nat /\ Len(Bits(u)) \in Nat
              /\ Len(Bits(t)) + Len(Bits(u)) <= 9 * n
         \/ EndSegment
         \/ EndBlock
<1>1. /\ block \in Seq(Byte) /\ Len(block) \in Nat /\ pos \in Nat /\ seg \in Nat
      /\ SegEnd \in Nat /\ SegEnd <= Len(block)
  BY SegTyped
<1>2. stream \in Seq(Token) /\ starts \in Seq(Nat)
  BY DEF DsInv, DsTypeOK
<1>3. CASE PutCopy
  <2>1. PICK m \in Matches : Written(<<Copy(m.dist, m.len)>>, <<pos + m.len>>)
    BY <1>3 DEF PutCopy
  <2>2. m.dist \in 1 .. MaxDepth /\ m.len \in Tries
    BY DEF Matches
  <2>3. m.dist \in Nat /\ m.dist > 0 /\ m.len \in 2 .. MaxCount /\ m.len \in Nat
    BY <2>2, Sizes, Code DEF MaxCount
  <2>4. Copy(m.dist, m.len) \in Token /\ Sayable(Copy(m.dist, m.len))
    <3>1. m.dist \in 1 .. MaxCodeDepth
      <4>1. MaxDepth \in Nat /\ MaxDepth <= 4414
        BY SizesAssumption, CodeAssumption DEF MaxCodeDepth, SectorBreak
      <4>2. \A k \in 1 .. MaxDepth : k \in 1 .. MaxCodeDepth
        BY <4>1 DEF MaxCodeDepth, SectorBreak
      <4> QED BY <2>2, <4>2, Zenon
    <3>2. Sayable(Copy(m.dist, m.len))
      BY <2>3, <3>1, CopySayable
    <3> QED BY <2>3, <3>2, SizesAssumption DEF Copy, Token
  <2>5. /\ Len(Bits(Copy(m.dist, m.len))) \in Nat
        /\ Len(Bits(Copy(m.dist, m.len))) <= 9 * m.len
    BY <2>3, CopyLength
  <2>6. PackedMore(<<Copy(m.dist, m.len)>>, m.len)
    BY <1>1, <1>2, <2>1, <2>3, <2>4 DEF PackedMore, Written
  <2> QED BY <2>3, <2>4, <2>5, <2>6
<1>4. CASE PutRun
  <2>1. PICK n \in MinRun .. Len(block) :
          /\ IsRun(n)
          /\ Written(<<Chr(block[pos + 1]), Copy(1, n - 1)>>, <<pos + 1, pos + n>>)
    BY <1>4 DEF PutRun
  <2>2. InSegment
    BY <1>4 DEF PutRun
  <2>3. n \in 1 .. Segment /\ pos + n <= Len(block) /\ n >= 3
    BY <1>1, <2>1, <2>2, RunFits, Code
  <2>4. n \in Nat /\ n - 1 \in 2 .. MaxCount /\ block[pos + 1] \in Byte
    BY <1>1, <2>3, Code DEF MaxCount
  <2>5. Chr(block[pos + 1]) \in Token /\ Copy(1, n - 1) \in Token
    BY <2>3, <2>4, Sizes DEF Chr, Copy, Token
  <2>11. Sayable(Chr(block[pos + 1])) /\ Sayable(Copy(1, n - 1))
    <3>1. 1 \in 1 .. MaxCodeDepth
      BY DEF MaxCodeDepth, SectorBreak
    <3> QED BY <2>4, <3>1, ChrSayable, CopySayable
  <2>6. Len(Bits(Chr(block[pos + 1]))) = 9
    BY <2>4, ChrLength
  <2>7. Len(Bits(Copy(1, n - 1))) \in Nat /\ Len(Bits(Copy(1, n - 1))) <= 9 * (n - 1)
    BY <2>4, CopyLength
  <2>8. PackedMore(<<Chr(block[pos + 1]), Copy(1, n - 1)>>, n)
    <3>1. /\ stream' = stream \o <<Chr(block[pos + 1]), Copy(1, n - 1)>>
          /\ starts' = starts \o <<pos + 1, pos + n>>
          /\ seg' = seg /\ phase' = phase /\ block' = block
          /\ pos' = pos + n
      BY <2>1 DEF Written
    <3>2. pos + 1 \in Nat /\ pos + n \in Nat
      BY <1>1, <2>4
    <3>3. Len(starts') = Len(starts) + 2
      BY <1>2, <3>1, <3>2, TwoMore
    <3>4. Len(<<Chr(block[pos + 1]), Copy(1, n - 1)>>) = 2
      OBVIOUS
    <3> QED BY <3>1, <3>3, <3>4 DEF PackedMore
  <2>9. Len(Bits(Chr(block[pos + 1]))) + Len(Bits(Copy(1, n - 1))) <= 9 * n
    BY <2>4, <2>6, <2>7
  <2> DEFINE t == Chr(block[pos + 1])
             u == Copy(1, n - 1)
  <2>10. /\ PackedMore(<<t, u>>, n) /\ t \in Token /\ u \in Token
         /\ Sayable(t) /\ Sayable(u)
         /\ Len(Bits(t)) \in Nat /\ Len(Bits(u)) \in Nat
         /\ Len(Bits(t)) + Len(Bits(u)) <= 9 * n
    BY <2>5, <2>6, <2>7, <2>8, <2>9, <2>11
  <2> HIDE DEF t, u
  <2> QED BY <2>4, <2>10
<1>5. CASE PutByte
  <2>1. InSegment /\ Written(<<Chr(block[pos + 1])>>, <<pos + 1>>)
    BY <1>5 DEF PutByte
  <2>2. block[pos + 1] \in Byte
    BY <1>1, <2>1 DEF InSegment
  <2>3. Chr(block[pos + 1]) \in Token /\ Sayable(Chr(block[pos + 1]))
    <3>1. Chr(block[pos + 1]) \in Token
      BY <2>2 DEF Chr, Token
    <3> QED BY <2>2, <3>1, ChrSayable
  <2>4. Len(Bits(Chr(block[pos + 1]))) = 9
    BY <2>2, ChrLength
  <2>5. PackedMore(<<Chr(block[pos + 1])>>, 1)
    BY <1>1, <1>2, <2>1, <2>3 DEF PackedMore, Written
  <2> DEFINE t == Chr(block[pos + 1])
  <2>6. /\ PackedMore(<<t>>, 1) /\ t \in Token /\ Sayable(t)
        /\ Len(Bits(t)) \in Nat /\ Len(Bits(t)) <= 9 * 1
    BY <2>3, <2>4, <2>5
  <2> HIDE DEF t
  <2>7. 1 \in Nat
    OBVIOUS
  <2> QED BY <2>6, <2>7
<1> QED BY <1>3, <1>4, <1>5 DEF PackStep

\* The stream stays no longer than its bytes one by one.
LEMMA PackBits ==
  ASSUME DsInv, W4TypeOK, WriteInv, PackChunk
  PROVE  bits' \in Nat /\ WriteInv'
<1>1. /\ stage = "write" /\ stage' = stage /\ chunks' = chunks /\ file' = file /\ got' = got
      /\ PackStep
      /\ bits' = bits + Len(Bits(stream'[Len(stream) + 1]))
                  + IF Len(stream') = Len(stream) + 1 THEN 0
                    ELSE Len(Bits(stream'[Len(stream) + 2]))
  BY DEF PackChunk
<1>2. /\ bits \in Nat /\ pos \in Nat /\ seg \in Nat /\ pos <= Len(block) /\ Len(block) \in Nat
      /\ stream \in Seq(Token) /\ starts \in Seq(Nat)
  BY SegTyped DEF W4TypeOK, DsInv, DsTypeOK
<1>3. /\ Len(starts) = Len(stream) + 1 /\ Len(chunks) < Len(file)
      /\ block = file[Len(chunks) + 1] /\ got = << >>
      /\ bits <= 9 * pos + 15 * seg + (IF phase = "packed" THEN 8 ELSE 0)
      /\ 8 * seg <= pos + 7
  BY <1>1 DEF WriteInv, BitsInv
<1>4. phase = "pack"
  BY <1>1 DEF PackStep, PutCopy, PutRun, PutByte, InSegment, EndSegment, EndBlock
<1>5. ASSUME NEW t \in Token, NEW n \in Nat, PackedMore(<<t>>, n),
             Len(Bits(t)) \in Nat, Len(Bits(t)) <= 9 * n
      PROVE  bits' \in Nat /\ WriteInv'
  <2>1. Len(stream') = Len(stream) + 1 /\ stream'[Len(stream) + 1] = t
    BY <1>2, <1>5, OneMore DEF PackedMore
  <2>2. bits' = bits + Len(Bits(t))
    BY <1>1, <1>2, <1>5, <2>1
  <2>3. pos' = pos + n /\ seg' = seg /\ phase' = "pack" /\ block' = block /\ Len(starts') = Len(stream') + 1
    BY <1>2, <1>3, <1>4, <1>5, <2>1 DEF PackedMore
  <2>4. BitsInv' /\ bits' \in Nat
    BY <1>2, <1>3, <1>4, <1>5, <2>2, <2>3, SMTT(60) DEF BitsInv
  <2> QED BY <1>1, <1>3, <2>3, <2>4 DEF WriteInv
<1>6. ASSUME NEW t \in Token, NEW u \in Token, NEW n \in Nat, PackedMore(<<t, u>>, n),
             Len(Bits(t)) \in Nat, Len(Bits(u)) \in Nat, Len(Bits(t)) + Len(Bits(u)) <= 9 * n
      PROVE  bits' \in Nat /\ WriteInv'
  <2>1. /\ Len(stream') = Len(stream) + 2
        /\ stream'[Len(stream) + 1] = t /\ stream'[Len(stream) + 2] = u
    BY <1>2, <1>6, TwoMore DEF PackedMore
  <2>2. bits' = (bits + Len(Bits(t))) + Len(Bits(u))
    <3>1. Len(stream') # Len(stream) + 1
      BY <1>2, <2>1
    <3>2. bits' = bits + Len(Bits(t)) + Len(Bits(u))
      BY ONLY <1>1, <2>1, <3>1
    <3> QED BY <1>2, <1>6, <3>2
  <2>3. pos' = pos + n /\ seg' = seg /\ phase' = "pack" /\ block' = block /\ Len(starts') = Len(stream') + 1
    <3>1. Len(<<t, u>>) = 2
      OBVIOUS
    <3> QED BY <1>2, <1>3, <1>4, <1>6, <2>1, <3>1 DEF PackedMore
  <2>4. BitsInv' /\ bits' \in Nat
    <3> DEFINE x == Len(Bits(t))
               y == Len(Bits(u))
    <3>1. bits' = (bits + x) + y /\ x \in Nat /\ y \in Nat /\ x + y <= 9 * n
      BY <1>6, <2>2
    <3>2. bits <= (9 * pos) + (15 * seg)
      BY <1>2, <1>3, <1>4
    <3> HIDE DEF x, y
    <3>3. bits' \in Nat /\ bits' <= (9 * pos') + (15 * seg')
      BY <1>2, <2>3, <3>1, <3>2
    <3>4. 8 * seg' <= pos' + 7
      BY <1>2, <1>3, <2>3
    <3> QED BY <1>2, <2>3, <3>3, <3>4 DEF BitsInv
  <2> QED BY <1>1, <1>3, <2>3, <2>4 DEF WriteInv
<1>7. CASE EndSegment
  <2>1. /\ stream' = Append(stream, Break) /\ starts' = Append(starts, pos)
        /\ seg' = seg + 1 /\ block' = block /\ pos' = pos /\ phase' = phase
        /\ HasSegment /\ pos = SegEnd
    BY <1>7 DEF EndSegment
  <2>2. Break \in Token
    BY SizesAssumption DEF Break, Mark, Token
  <2>3. Len(stream') = Len(stream) + 1 /\ stream'[Len(stream) + 1] = Break
        /\ Len(starts') = Len(stream') + 1
    BY <1>2, <1>3, <2>1, <2>2
  <2>4. bits' = bits + 15
    BY <1>1, <1>2, <2>3, MarkLength
  <2>5. 8 * seg' <= pos' + 7
    <3> DEFINE a == seg * Segment
    <3>1. a \in Nat /\ (seg + 1) * Segment = a + Segment /\ 8 * seg <= a
      <4>1. seg * (Segment - 8) \in Nat
        BY <1>2, Code
      <4>2. seg * Segment = (seg * (Segment - 8)) + (8 * seg)
        BY <1>2, Code
      <4> QED BY <1>2, <4>1, <4>2, Code
    <3>2. a < Len(block)
      BY <2>1 DEF HasSegment
    <3>3. pos = Lesser(a + Segment, Len(block))
      BY <2>1, <3>1 DEF SegEnd
    <3> HIDE DEF a
    <3> QED BY <1>2, <2>1, <3>1, <3>2, <3>3, Code DEF Lesser
  <2>6. BitsInv' /\ bits' \in Nat
    BY <1>2, <1>3, <1>4, <2>1, <2>4, <2>5 DEF BitsInv
  <2> QED BY <1>1, <1>3, <2>1, <2>3, <2>6 DEF WriteInv
<1>8. CASE EndBlock
  <2>1. /\ stream' = Append(stream, End) /\ starts' = Append(starts, pos)
        /\ seg' = seg /\ block' = block /\ pos' = pos /\ phase' = "packed"
    BY <1>8 DEF EndBlock
  <2>2. End \in Token
    BY SizesAssumption DEF End, Mark, Token
  <2>3. Len(stream') = Len(stream) + 1 /\ stream'[Len(stream) + 1] = End
        /\ Len(starts') = Len(stream') + 1
    BY <1>2, <1>3, <2>1, <2>2
  <2>4. bits' = bits + 8
    BY <1>1, <1>2, <2>3, MarkLength
  <2>5. BitsInv' /\ bits' \in Nat
    BY <1>2, <1>3, <1>4, <2>1, <2>4 DEF BitsInv
  <2> QED BY <1>1, <1>3, <2>1, <2>3, <2>5 DEF WriteInv
<1> QED BY <1>1, <1>4, <1>5, <1>6, <1>7, <1>8, BitsOfStep

--------------------------------------------------------------------------
(* The archive                                                             *)

\* The chunks there are to write.
LEMMA FileOf ==
  ASSUME NEW f \in Files
  PROVE  /\ f \in Seq(Blocks) /\ Len(f) \in Nat /\ Len(f) > 0
         /\ \A k \in 1 .. Len(f) : f[k] \in Seq(Byte) /\ Len(f[k]) \in Nat /\ Len(f[k]) <= Capacity
<1>1. f \in Seq(Blocks) /\ f # << >>
  BY FilesAssumption
<1>2. \A k \in 1 .. Len(f) : f[k] \in Blocks
  BY <1>1
<1>3. \A b \in Blocks : b \in Seq(Byte) /\ Len(b) <= Capacity
  BY SizesAssumption
<1> QED BY <1>1, <1>2, <1>3

LEMMA SaysSame ==
  ASSUME NEW t, NEW p \in Nat, NEW q
  PROVE  Says(t, p, q) /\ (t.kind = "copy" => t.dist \in Nat /\ t.dist > 0)
           <=> SaysOf(block, t, p, q) /\ (t.kind = "copy" => t.dist \in Nat)
BY DEF Says, SaysOf, Repeats

\* What ds_compress has made when it is done.
LEMMA PackedStream ==
  ASSUME DsInv, phase = "packed", Len(starts) = Len(stream) + 1
  PROVE  StreamOf(block, stream, starts)
<1>1. /\ stream \in Seq(Token) /\ starts \in Seq(Nat)
      /\ \A n \in 1 .. Len(stream) : stream[n].kind = "copy" => stream[n].dist > 0
  BY DEF DsInv, DsTypeOK
<1>2. /\ starts[1] = 0 /\ intact = Len(stream) /\ stream # << >> /\ stream[Len(stream)] = End
      /\ \A n \in 1 .. intact : Says(stream[n], starts[n], starts[n + 1])
  BY DEF DsInv, StreamInv
<1>3. ASSUME NEW n \in 1 .. Len(stream)
      PROVE  SaysOf(block, stream[n], starts[n], starts[n + 1])
  <2>1. starts[n] \in Nat /\ stream[n] \in Token
    BY <1>1
  <2>2. stream[n].dist \in Nat
    BY <2>1 DEF Token
  <2> QED BY <1>1, <1>2, <2>1, <2>2, SaysSame
<1> QED BY <1>1, <1>2, <1>3 DEF StreamOf

\* ds_decompress is called with such a stream.
LEMMA OpenInv ==
  ASSUME NEW b, NEW s, NEW ps, StreamOf(b, s, ps), b \in Seq(Byte), Len(b) <= Capacity,
         Codec(b, s, ps, "packed")
  PROVE  DsInv' /\ intact' = Len(stream')
<1>1. /\ block' = b /\ seg' = 0 /\ pos' = 0 /\ stream' = s /\ starts' = ps
      /\ intact' = Len(s) /\ phase' = "packed"
      /\ out' = << >> /\ next' = 1 /\ dist' = 0 /\ todo' = 0 /\ size' = 0
  BY DEF Codec
<1>2. /\ s \in Seq(Token) /\ s # << >> /\ s[Len(s)] = End
      /\ ps \in Seq(Nat) /\ Len(ps) = Len(s) + 1 /\ ps[1] = 0
      /\ \A n \in 1 .. Len(s) : SaysOf(b, s[n], ps[n], ps[n + 1])
  BY DEF StreamOf
<1>3. \A n \in 1 .. Len(s) : s[n].kind = "copy" => s[n].dist > 0
  <2> TAKE n \in 1 .. Len(s)
  <2>1. ps[n] \in Nat /\ SaysOf(b, s[n], ps[n], ps[n + 1])
    BY <1>2
  <2> QED BY <2>1 DEF SaysOf
<1>4. DsTypeOK'
  BY <1>1, <1>2, <1>3, Sizes DEF DsTypeOK, Phases
<1>5. (\A n \in 1 .. intact : Says(stream[n], starts[n], starts[n + 1]))'
  <2> SUFFICES ASSUME NEW n \in 1 .. Len(s)
               PROVE  Says(s[n], ps[n], ps[n + 1])'
    BY <1>1
  <2>1. SaysOf(b, s[n], ps[n], ps[n + 1])
    BY <1>2
  <2> QED BY <1>1, <2>1 DEF Says, SaysOf, Repeats
<1>6. StreamInv'
  BY <1>1, <1>2, <1>5 DEF StreamInv
<1>7. ReadInv' /\ OutInv' /\ InBounds' /\ RoundTrip'
  <2>1. OutInv'
    BY <1>1, <1>2 DEF OutInv
  <2> QED BY <1>1, <2>1, Sizes DEF ReadInv, InBounds, RoundTrip
<1> QED BY <1>1, <1>4, <1>6, <1>7 DEF DsInv

\* ds_compress is called with a block.
LEMMA BeginInv ==
  ASSUME NEW b, b \in Seq(Byte), Len(b) <= Capacity, Codec(b, << >>, << 0 >>, "pack")
  PROVE  DsInv'
<1>1. /\ block' = b /\ seg' = 0 /\ pos' = 0 /\ stream' = << >> /\ starts' = << 0 >>
      /\ intact' = 0 /\ phase' = "pack"
      /\ out' = << >> /\ next' = 1 /\ dist' = 0 /\ todo' = 0 /\ size' = 0
  BY DEF Codec
<1>2. DsTypeOK'
  BY <1>1, SizesAssumption DEF DsTypeOK, Phases
<1>3. (Lesser(seg * Segment, Len(block)) <= pos)'
  BY <1>1, SizesAssumption DEF Lesser
<1>4. StreamInv'
  BY <1>1, <1>3 DEF StreamInv
<1>5. OutInv'
  BY <1>1 DEF OutInv
<1>6. ReadInv' /\ InBounds' /\ RoundTrip'
  BY <1>1, Sizes DEF ReadInv, InBounds, RoundTrip
<1> QED BY <1>2, <1>4, <1>5, <1>6 DEF DsInv

LEMMA W4InitInv == W4Init => W4Inv
<1> SUFFICES ASSUME NEW f \in Files, file = f, Given(f[1]), chunks = << >>, here = 0,
                    eof = 0, bits = 0, stage = "write", got = << >>
             PROVE  W4Inv
  BY DEF W4Init
<1>1. f[1] \in Blocks /\ Len(f) \in Nat /\ Len(f) > 0
  BY FileOf
<1>2. DsInv
  BY <1>1, InitInv DEF Init
<1>3. W4TypeOK
  BY <1>1 DEF W4TypeOK
<1>4. EofInv
  BY Code DEF EofInv
<1>5. WriteInv
  BY <1>1 DEF WriteInv, BitsInv, Given
<1>6. ChunksInv /\ ChunkInv /\ ChunksSurvive
  BY DEF ChunksInv, ChunkInv, ChunksSurvive
<1> QED BY <1>2, <1>3, <1>4, <1>5, <1>6 DEF W4Inv

LEMMA ArchiveStays ==
  ASSUME W4Inv, UNCHANGED <<file, chunks, here, eof>>
  PROVE  ChunksInv' /\ EofInv'
BY SMTT(60) DEF W4Inv, ChunksInv, EofInv, StreamOf, SaysOf, Span, IsRaw

\* Only what was made of the last chunk depends on what the codec does now.
LEMMA GotStays ==
  ASSUME W4Inv, UNCHANGED <<file, chunks, got>>, Len(got) < Len(file)
  PROVE  ChunksSurvive'
<1>1. Len(got) \in Nat /\ Len(file) \in Nat
  BY FileOf DEF W4Inv, W4TypeOK
<1>2. \A k \in 1 .. Len(got) : k # Len(file)
  BY <1>1
<1>3. \A k \in 1 .. Len(got) :
        got[k] = IF chunks[k].raw THEN Padded(file[k]) ELSE file[k]
  BY <1>2 DEF W4Inv, ChunksSurvive, Damaged
<1> QED BY <1>3 DEF ChunksSurvive, Padded

LEMMA PackChunkInv == ASSUME W4Inv, PackChunk PROVE W4Inv'
<1>1. /\ stage = "write" /\ UNCHANGED <<file, chunks, here, eof, stage, got>> /\ PackStep
  BY DEF PackChunk
<1>2. DsInv' /\ bits' \in Nat /\ WriteInv'
  BY <1>1, PackInv, PackBits DEF W4Inv
<1>3. W4TypeOK' /\ ChunkInv'
  BY <1>1, <1>2 DEF W4Inv, W4TypeOK, ChunkInv
<1>4. ChunksSurvive'
  BY <1>1 DEF W4Inv, WriteInv, ChunksSurvive
<1> QED BY <1>1, <1>2, <1>3, <1>4, ArchiveStays DEF W4Inv

\* A stream is shorter than two chunks.
LEMMA CompShort ==
  ASSUME W4Inv, stage = "write", phase = "packed"
  PROVE  BytesOf(bits) \in Nat /\ BytesOf(bits) < 2 * Capacity
<1>1. bits \in Nat /\ pos \in Nat /\ seg \in Nat /\ pos <= Capacity /\ Capacity >= 8 /\ Capacity \in Nat
  BY SegTyped, Code DEF W4Inv, W4TypeOK, DsInv, DsTypeOK
<1>2. bits <= ((9 * pos) + (15 * seg)) + 8 /\ 8 * seg <= pos + 7
  BY <1>1 DEF W4Inv, WriteInv, BitsInv
<1>3. bits + 7 < 16 * Capacity
  BY <1>1, <1>2
<1> QED BY <1>1, <1>3 DEF BytesOf

LEMMA StoreChunkInv == ASSUME W4Inv, StoreChunk PROVE W4Inv'
<1> DEFINE comp == BytesOf(bits)
           raw  == IsRaw(comp)
           c    == [off |-> here, comp |-> comp, raw |-> raw, stream |-> stream, starts |-> starts]
           n    == Len(chunks)
<1>1. /\ stage = "write" /\ phase = "packed"
      /\ chunks' = Append(chunks, c)
      /\ here' = here + (IF raw THEN Capacity ELSE comp)
      /\ eof' = Larger(eof, Larger(here + comp, here'))
      /\ bits' = 0 /\ file' = file /\ got' = got
      /\ IF Len(chunks') < Len(file)
         THEN Codec(file[n + 2], << >>, << 0 >>, "pack") /\ stage' = stage
         ELSE UNCHANGED dsvars /\ stage' = "read"
  BY DEF StoreChunk
<1>2. /\ chunks \in Seq(Chunk) /\ n \in Nat /\ file \in Files /\ here \in Nat /\ eof \in Nat
      /\ Capacity \in Nat /\ Capacity > 0
  BY Code DEF W4Inv, W4TypeOK
<1>3. n < Len(file) /\ block = file[n + 1] /\ got = << >> /\ Len(starts) = Len(stream) + 1
  BY <1>1 DEF W4Inv, WriteInv
<1>4. comp \in Nat /\ comp < 2 * Capacity /\ raw \in BOOLEAN /\ (raw <=> comp >= Capacity)
  BY <1>1, CompShort DEF IsRaw
<1>5. StreamOf(block, stream, starts)
  BY <1>1, <1>3, PackedStream DEF W4Inv
<1>6. c \in Chunk
  BY <1>2, <1>4, <1>5 DEF StreamOf, Chunk
<1>7. /\ Len(chunks') = n + 1 /\ chunks' \in Seq(Chunk) /\ chunks'[n + 1] = c
      /\ \A k \in 1 .. n : chunks'[k] = chunks[k]
  BY <1>1, <1>2, <1>6
<1>8. /\ c.off = here /\ c.comp = comp /\ c.raw = raw /\ c.stream = stream /\ c.starts = starts
  OBVIOUS
<1>9. here' = here + Span(c) /\ here' \in Nat /\ eof' \in Nat
  BY <1>1, <1>2, <1>4 DEF Span, Larger
<1> HIDE DEF c
<1>10. ChunksInv'
  <2> SUFFICES ASSUME NEW k \in 1 .. n + 1
               PROVE  LET d == chunks'[k]
                      IN  /\ StreamOf(file[k], d.stream, d.starts)
                          /\ d.raw <=> IsRaw(d.comp)
                          /\ d.comp < 2 * Capacity
                          /\ IF k < n + 1 THEN chunks'[k + 1].off = d.off + Span(d)
                             ELSE here' = d.off + Span(d)
    BY <1>1, <1>7 DEF ChunksInv
  <2>1. CASE k = n + 1
    BY <1>2, <1>3, <1>4, <1>5, <1>7, <1>8, <1>9, <2>1
  <2>2. CASE k \in 1 .. n
    <3>1. chunks'[k] = chunks[k] /\ k < n + 1 /\ k \in Nat
      BY <1>2, <1>7, <2>2
    <3>2. LET d == chunks[k]
          IN  /\ StreamOf(file[k], d.stream, d.starts)
              /\ d.raw <=> IsRaw(d.comp)
              /\ d.comp < 2 * Capacity
              /\ IF k < n THEN chunks[k + 1].off = d.off + Span(d)
                 ELSE here = d.off + Span(d)
      BY <2>2 DEF W4Inv, ChunksInv
    <3>3. CASE k < n
      <4>1. chunks'[k + 1] = chunks[k + 1]
        BY <1>2, <1>7, <2>2, <3>3
      <4> QED BY <3>1, <3>2, <3>3, <4>1
    <3>4. CASE k = n
      <4>1. chunks'[k + 1] = c
        BY <1>7, <3>4
      <4> QED BY <1>8, <3>1, <3>2, <3>4, <4>1
    <3> QED BY <1>2, <2>2, <3>3, <3>4
  <2> QED BY <1>2, <2>1, <2>2
<1>11. EofInv'
  <2>1. here <= eof /\ eof < here + Capacity
    BY DEF W4Inv, EofInv
  <2>2. here' = here + (IF comp >= Capacity THEN Capacity ELSE comp)
    BY <1>1, <1>4
  <2>3. eof' = Larger(eof, Larger(here + comp, here'))
    BY <1>1
  <2> HIDE DEF comp, raw
  <2>4. here' <= eof' /\ eof' < here' + Capacity
    BY <1>2, <1>4, <2>1, <2>2, <2>3 DEF Larger
  <2>5. ~raw => eof' < here + Capacity
    BY <1>2, <1>4, <2>1, <2>2, <2>3 DEF Larger
  <2>6. comp = Capacity => eof' = here'
    BY <1>2, <1>4, <2>1, <2>2, <2>3 DEF Larger
  <2>7. chunks'[Len(chunks')] = c
    BY <1>7
  <2> QED BY <1>8, <2>4, <2>5, <2>6, <2>7 DEF EofInv
<1>12. W4TypeOK'
  <2>1. Len(file) \in Nat
    BY <1>2, FileOf
  <2>2. Len(chunks') <= Len(file')
    BY <1>1, <1>2, <1>3, <1>7, <2>1
  <2> QED BY <1>1, <1>7, <1>9, <2>2 DEF W4Inv, W4TypeOK
<1>13. ChunksSurvive'
  BY <1>1, <1>3 DEF ChunksSurvive
<1>14. CASE n + 1 < Len(file)
  <2>1. Codec(file[n + 2], << >>, << 0 >>, "pack") /\ stage' = "write"
    BY <1>1, <1>7, <1>14
  <2>2. n + 2 \in 1 .. Len(file)
    BY <1>2, <1>14, FileOf
  <2>3. DsInv'
    BY <1>2, <2>1, <2>2, FileOf, BeginInv
  <2>4. WriteInv'
    <3>1. /\ block' = file[n + 2] /\ pos' = 0 /\ seg' = 0 /\ phase' = "pack"
          /\ stream' = << >> /\ starts' = << 0 >>
      BY <2>1 DEF Codec
    <3>2. BitsInv'
      BY <1>1, <3>1 DEF BitsInv
    <3>3. block' = file'[Len(chunks') + 1]
      BY <1>1, <1>2, <1>7, <3>1
    <3> QED BY <1>1, <1>3, <1>7, <1>14, <3>1, <3>2, <3>3 DEF WriteInv
  <2>5. ChunkInv'
    BY <2>1 DEF ChunkInv
  <2> QED BY <1>10, <1>11, <1>12, <1>13, <2>3, <2>4, <2>5 DEF W4Inv
<1>15. CASE ~(n + 1 < Len(file))
  <2>1. UNCHANGED dsvars /\ stage' = "read"
    BY <1>1, <1>7, <1>15
  <2>2. DsInv'
    BY <2>1, StutterInv DEF W4Inv
  <2>3. WriteInv'
    BY <2>1 DEF WriteInv
  <2>4. ChunkInv'
    <3>1. Len(file) \in Nat /\ Len(file) > 0
      BY <1>2, FileOf
    <3>2. Len(chunks') = Len(file') /\ Len(got') = 0
      BY <1>1, <1>2, <1>3, <1>7, <1>15, <3>1
    <3> QED BY <1>1, <2>1, <3>1, <3>2 DEF ChunkInv
  <2> QED BY <1>10, <1>11, <1>12, <1>13, <2>2, <2>3, <2>4 DEF W4Inv
<1> QED BY <1>14, <1>15

\* What the size of a chunk says of it.
LEMMA SizeTells ==
  ASSUME W4Inv, stage = "read"
  PROVE  /\ K \in 1 .. Len(file) /\ Len(chunks) = Len(file) /\ Len(file) \in Nat
         /\ Len(got) \in Nat
         /\ SizeOf(K) = Capacity => chunks[K].raw
         /\ SizeOf(K) # Capacity /\ chunks[K].raw => K = Len(file) /\ chunks[K].comp > Capacity
<1>1. /\ Len(got) \in Nat /\ Len(got) < Len(file) /\ Len(chunks) = Len(file) /\ Len(file) \in Nat
      /\ chunks \in Seq(Chunk) /\ here \in Nat /\ eof \in Nat /\ Capacity \in Nat
  BY FileOf, Code DEF W4Inv, W4TypeOK, ChunkInv
<1>2. K \in 1 .. Len(chunks) /\ K = Len(got) + 1
  BY <1>1 DEF K
<1> DEFINE c == chunks[K]
<1>3. c \in Chunk /\ c.off \in Nat /\ c.comp \in Nat /\ c.raw \in BOOLEAN
  <2>1. c \in Chunk
    BY <1>1, <1>2
  <2> HIDE DEF c
  <2>2. c.off \in Nat /\ c.comp \in Nat
    BY <2>1 DEF Chunk
  <2>3. c.raw \in BOOLEAN
    BY <2>1 DEF Chunk
  <2> QED BY <2>1, <2>2, <2>3
<1>4. /\ c.raw <=> c.comp >= Capacity
      /\ IF K < Len(chunks) THEN chunks[K + 1].off = c.off + Span(c)
         ELSE here = c.off + Span(c)
  BY <1>2 DEF W4Inv, ChunksInv, IsRaw
<1>5. CASE K < Len(chunks)
  <2>1. SizeOf(K) = (c.off + Span(c)) - c.off
    BY <1>4, <1>5 DEF SizeOf
  <2>2. Span(c) = IF c.raw THEN Capacity ELSE c.comp
    BY DEF Span
  <2> HIDE DEF c
  <2>3. SizeOf(K) = IF c.raw THEN Capacity ELSE c.comp
    BY <1>1, <1>3, <2>1, <2>2
  <2>4. SizeOf(K) = Capacity <=> c.raw
    BY <1>1, <1>3, <1>4, <2>3
  <2> QED BY <1>1, <1>2, <2>4 DEF c
<1>6. CASE K = Len(chunks)
  <2>1. SizeOf(K) = eof - c.off
    BY <1>1, <1>6 DEF SizeOf
  <2>2. chunks # << >> /\ c = chunks[Len(chunks)]
    BY <1>1, <1>6, <1>2
  <2>3. /\ ~c.raw => eof < c.off + Capacity
        /\ c.comp = Capacity => eof = here
    BY <2>2 DEF W4Inv, EofInv
  <2>4. here = c.off + (IF c.raw THEN Capacity ELSE c.comp)
    BY <1>2, <1>4, <1>6 DEF Span
  <2> HIDE DEF c
  <2>5. SizeOf(K) = Capacity => c.raw
    BY <1>1, <1>3, <2>1, <2>3
  <2>6. SizeOf(K) # Capacity /\ c.raw => c.comp > Capacity
    BY <1>1, <1>3, <1>4, <2>1, <2>3, <2>4
  <2> QED BY <1>1, <1>2, <1>6, <2>5, <2>6 DEF c
<1> QED BY <1>1, <1>2, <1>5, <1>6

\* A chunk is read back, and is what it was or may be lost.
LEMMA KeepInv ==
  ASSUME W4Inv, stage \in {"read", "chunk"}, NEW b \in Seq(Byte) \cup {Garbage}, Keep(b),
         UNCHANGED dsvars,
         \/ Damaged(K)
         \/ K = Len(file) /\ chunks[K].comp > Capacity
         \/ b = IF chunks[K].raw THEN Padded(file[K]) ELSE file[K]
  PROVE  W4Inv'
<1>1. /\ got' = Append(got, b) /\ stage' = (IF K = Len(file) THEN "done" ELSE "read")
      /\ UNCHANGED <<file, chunks, here, eof, bits>>
  BY DEF Keep
<1>2. /\ got \in Seq(Seq(Byte) \cup {Garbage}) /\ Len(got) \in Nat /\ Len(file) \in Nat
      /\ Len(got) < Len(file) /\ Len(chunks) = Len(file) /\ K = Len(got) + 1
  BY FileOf DEF W4Inv, W4TypeOK, ChunkInv, K
<1>3. /\ got' \in Seq(Seq(Byte) \cup {Garbage}) /\ Len(got') = K
      /\ got'[K] = b /\ \A k \in 1 .. Len(got) : got'[k] = got[k]
  BY <1>1, <1>2
<1>4. DsInv'
  BY StutterInv DEF W4Inv
<1>5. W4TypeOK'
  BY <1>1, <1>2, <1>3 DEF W4Inv, W4TypeOK
<1>6. WriteInv' /\ ChunkInv'
  <2>1. stage' # "write" /\ stage' # "chunk" /\ (stage' = "read" => K # Len(file))
    BY <1>1
  <2> QED BY <1>1, <1>2, <1>3, <2>1 DEF WriteInv, ChunkInv
<1>7. ChunksSurvive'
  <2> SUFFICES ASSUME NEW k \in 1 .. K
               PROVE  \/ Damaged(k)
                      \/ k = Len(file) /\ chunks[k].comp > Capacity
                      \/ got'[k] = IF chunks[k].raw THEN Padded(file[k]) ELSE file[k]
    BY <1>1, <1>3 DEF ChunksSurvive, Damaged, Padded, dsvars, packing
  <2>1. CASE k = K
    BY <1>3, <2>1
  <2>2. CASE k \in 1 .. Len(got)
    BY <1>3, <2>2 DEF W4Inv, ChunksSurvive
  <2> QED BY <1>2, <2>1, <2>2
<1> QED BY <1>1, <1>4, <1>5, <1>6, <1>7, ArchiveStays DEF W4Inv

LEMMA PaddedSeq == ASSUME NEW b \in Seq(Byte), Len(b) <= Capacity PROVE Padded(b) \in Seq(Byte)
<1>1. Capacity - Len(b) \in Nat /\ Padding \in Byte
  BY Code, FilesAssumption
<1>2. [j \in 1 .. Capacity - Len(b) |-> Padding] \in Seq(Byte)
  BY <1>1
<1> QED BY <1>2 DEF Padded

LEMMA ReadRawInv == ASSUME W4Inv, ReadRaw PROVE W4Inv'
<1>1. /\ stage = "read" /\ SizeOf(K) = Capacity /\ UNCHANGED dsvars
      /\ Keep(IF chunks[K].raw THEN Padded(file[K]) ELSE Garbage)
  BY DEF ReadRaw, ReadingChunk
<1>2. chunks[K].raw /\ K \in 1 .. Len(file) /\ file \in Files
  BY <1>1, SizeTells DEF W4Inv, W4TypeOK
<1>3. Padded(file[K]) \in Seq(Byte)
  BY <1>2, FileOf, PaddedSeq
<1>4. Keep(Padded(file[K]))
  BY <1>1, <1>2
<1> QED BY <1>1, <1>2, <1>3, <1>4, KeepInv

LEMMA MisreadInv == ASSUME W4Inv, Misread PROVE W4Inv'
<1>1. /\ stage = "read" /\ SizeOf(K) # Capacity /\ UNCHANGED dsvars /\ chunks[K].raw
      /\ Keep(Garbage)
  BY DEF Misread, ReadingChunk
<1>2. K = Len(file) /\ chunks[K].comp > Capacity
  BY <1>1, SizeTells
<1> QED BY <1>1, <1>2, KeepInv

LEMMA OpenChunkInv == ASSUME W4Inv, OpenChunk PROVE W4Inv'
<1>1. /\ stage = "read" /\ stage' = "chunk" /\ ~chunks[K].raw
      /\ UNCHANGED <<file, chunks, here, eof, bits, got>>
      /\ Codec(file[K], chunks[K].stream, chunks[K].starts, "packed")
  BY DEF OpenChunk, ReadingChunk
<1>2. K \in 1 .. Len(file) /\ Len(chunks) = Len(file) /\ file \in Files /\ Len(got) < Len(file)
  BY <1>1, SizeTells DEF W4Inv, W4TypeOK, ChunkInv
<1>3. StreamOf(file[K], chunks[K].stream, chunks[K].starts)
  BY <1>2 DEF W4Inv, ChunksInv
<1>4. DsInv' /\ intact' = Len(stream')
  BY <1>1, <1>2, <1>3, FileOf, OpenInv
<1>5. block' = file[K] /\ phase' = "packed" /\ K' = K /\ size' <= Len(out')
  BY <1>1 DEF Codec, K
<1>6. W4TypeOK' /\ WriteInv'
  BY <1>1 DEF W4Inv, W4TypeOK, WriteInv
<1>7. ChunkInv'
  BY <1>1, <1>2, <1>4, <1>5 DEF ChunkInv
<1> QED BY <1>1, <1>2, <1>4, <1>6, <1>7, ArchiveStays, GotStays DEF W4Inv

LEMMA UnpackChunkInv == ASSUME W4Inv, UnpackChunk PROVE W4Inv'
<1>1. /\ stage = "chunk" /\ UNCHANGED w4vars
      /\ Deliver \/ (K = Len(file) /\ Cut) \/ UnpackStep
  BY DEF UnpackChunk
<1>2. UNCHANGED <<file, chunks, here, eof, bits, stage, got>> /\ K' = K
  BY <1>1 DEF w4vars, K
<1>3. DsInv'
  BY <1>1, NextInv DEF W4Inv, Next
<1>4. /\ block = file[K] /\ ~chunks[K].raw /\ Len(chunks) = Len(file) /\ Len(got) < Len(file)
      /\ K = Len(file) \/ intact = Len(stream)
  BY <1>1 DEF W4Inv, ChunkInv
<1>5. /\ block' = block /\ phase' \in {"packed", "unpack", "copy", "unpacked"}
      /\ K = Len(file) \/ intact' = Len(stream')
  <2>1. CASE Deliver
    BY <1>4, <2>1 DEF Deliver, packing
  <2>2. CASE K = Len(file) /\ Cut
    BY <2>2 DEF Cut
  <2>3. CASE UnpackStep
    <3>1. /\ UNCHANGED <<packing, intact>>
          /\ phase \in {"unpack", "copy"}
          /\ phase' \in {phase, "unpack", "copy", "unpacked"}
      BY <2>3 DEF UnpackStep, Full, ReadByte, ReadBreak, ReadEnd, ReadBad, ReadCopy,
                  CopyByte, CopyDone, Reading, Return
    <3> QED BY <1>4, <3>1 DEF packing
  <2> QED BY <1>1, <2>1, <2>2, <2>3
<1>6. W4TypeOK' /\ WriteInv'
  BY <1>1, <1>2 DEF W4Inv, W4TypeOK, WriteInv
<1>8. size' <= Len(out')
  <2>1. size \in Nat /\ out \in Seq(Byte) /\ size <= Len(out)
    BY <1>1, Sizes DEF W4Inv, DsInv, DsTypeOK, ChunkInv
  <2>2. CASE Deliver \/ Cut
    BY <2>1, <2>2 DEF Deliver, Cut, unpacking
  <2>3. CASE ReadByte \/ CopyByte
    <3>1. /\ size' = size
          /\ out' = Append(out, T.byte) \/ out' = Append(out, out[Len(out) + 1 - dist])
      BY <2>3 DEF ReadByte, CopyByte
    <3>2. Len(out') = Len(out) + 1
      BY <2>1, <3>1
    <3> QED BY <2>1, <3>1, <3>2
  <2>4. CASE Full \/ ReadEnd \/ ReadBad
    <3>1. out' = out /\ (size' = Len(out) \/ size' = 0)
      BY <2>4 DEF Full, ReadEnd, ReadBad, Return
    <3> QED BY <2>1, <3>1
  <2>5. CASE ReadBreak \/ ReadCopy \/ CopyDone
    BY <2>1, <2>5 DEF ReadBreak, ReadCopy, CopyDone, unpacking
  <2> QED BY <1>1, <2>2, <2>3, <2>4, <2>5 DEF UnpackStep
<1>7. ChunkInv'
  BY <1>1, <1>2, <1>4, <1>5, <1>8 DEF ChunkInv
<1> QED BY <1>2, <1>3, <1>4, <1>6, <1>7, ArchiveStays, GotStays DEF W4Inv

LEMMA KeepChunkInv == ASSUME W4Inv, KeepChunk PROVE W4Inv'
<1>1. /\ stage = "chunk" /\ phase = "unpacked" /\ Keep(SubSeq(out, 1, size)) /\ UNCHANGED dsvars
  BY DEF KeepChunk
<1>2. block = file[K] /\ ~chunks[K].raw
  BY <1>1 DEF W4Inv, ChunkInv
<1>3. /\ out \in Seq(Byte) /\ size \in Nat /\ intact \in Nat /\ intact <= Len(stream)
      /\ Len(stream) \in Nat
  BY SizesAssumption DEF W4Inv, DsInv, DsTypeOK
<1>4. SubSeq(out, 1, size) \in Seq(Byte)
  <2>1. size <= Len(out)
    BY <1>1 DEF W4Inv, ChunkInv
  <2>2. \A i \in 1 .. size : out[i] \in Byte
    BY <1>3, <2>1
  <2> QED BY <1>3, <2>1, <2>2, SubSeqProperties
<1>5. CASE intact = Len(stream)
  <2>1. size = Len(block) /\ out = block
    BY <1>1, <1>5 DEF W4Inv, DsInv, RoundTrip
  <2>2. SubSeq(out, 1, size) = file[K]
    <3>1. SubSeq(out, 1, Len(out)) = out
      BY <1>3, SubSeqFull
    <3>2. block = file[K]
      BY <1>1 DEF W4Inv, ChunkInv
    <3> QED BY <2>1, <3>1, <3>2
  <2>3. ~chunks[K].raw
    BY <1>1 DEF W4Inv, ChunkInv
  <2> QED BY <1>1, <1>4, <2>2, <2>3, KeepInv
<1>6. CASE intact < Len(stream)
  <2>1. K = Len(file) /\ ~chunks[K].raw
    BY <1>1, <1>3, <1>6 DEF W4Inv, ChunkInv
  <2>2. Damaged(K)
    BY <1>6, <2>1 DEF Damaged
  <2> QED BY <1>1, <1>4, <2>2, KeepInv
<1> QED BY <1>3, <1>5, <1>6

LEMMA W4NextInv == ASSUME W4Inv, [W4Next]_vars PROVE W4Inv'
<1>1. CASE UNCHANGED vars
  <2>1. UNCHANGED dsvars /\ UNCHANGED <<file, chunks, here, eof, bits, stage, got>>
    BY <1>1 DEF vars, w4vars
  <2>2. DsInv'
    BY <2>1, StutterInv DEF W4Inv
  <2>3. W4TypeOK' /\ WriteInv' /\ ChunkInv' /\ ChunksSurvive'
    <3>1. W4TypeOK'
      BY <2>1 DEF W4Inv, W4TypeOK
    <3>2. UNCHANGED <<block, pos, seg, stream, starts, intact, phase, out, size>>
      BY <2>1 DEF dsvars, packing, unpacking
    <3>3. WriteInv'
      BY <2>1, <3>2 DEF W4Inv, WriteInv, BitsInv
    <3>4. ChunkInv'
      BY <2>1, <3>2 DEF W4Inv, ChunkInv, K
    <3>5. ChunksSurvive'
      BY <2>1, <3>2 DEF W4Inv, ChunksSurvive, Damaged, Padded
    <3> QED BY <3>1, <3>3, <3>4, <3>5
  <2> QED BY <2>1, <2>2, <2>3, ArchiveStays DEF W4Inv
<1> QED BY <1>1, PackChunkInv, StoreChunkInv, ReadRawInv, MisreadInv, OpenChunkInv,
           UnpackChunkInv, KeepChunkInv DEF W4Next

LEMMA W4Invariance == W4Spec => []W4Inv
BY W4InitInv, W4NextInv, PTL DEF W4Spec

\* Whatever files are converted to W4 and back (pe_w3_to_w4, pe_w4_to_w3),
\* every chunk comes back, compressed or not and whatever ds_lookup found,
\* but for the last one if it was cut or its stream was longer than a chunk.
THEOREM ChunksComeBack == W4Spec => []ChunksSurvive
<1>1. W4Inv => ChunksSurvive
  BY DEF W4Inv
<1> QED BY <1>1, W4Invariance, PTL

\* In every chunk of an archive ds_compress and ds_decompress do what they do
\* for one block.
THEOREM CodecInArchive == W4Spec => [](InBounds /\ RoundTrip)
<1>1. W4Inv => InBounds /\ RoundTrip
  BY DEF W4Inv, DsInv
<1> QED BY <1>1, W4Invariance, PTL

--------------------------------------------------------------------------
(* The code of what is written                                             *)

LEMMA PairIs == ASSUME NEW S, NEW a \in S, NEW b \in S PROVE <<a, b>> = <<a>> \o <<b>>
<1> DEFINE x == <<a>>
           y == <<b>>
           z == <<a, b>>
<1>1. /\ x \in Seq(S) /\ y \in Seq(S) /\ z \in Seq(S)
      /\ Len(x) = 1 /\ Len(y) = 1 /\ Len(z) = 2
      /\ x[1] = a /\ y[1] = b /\ z[1] = a /\ z[2] = b
  OBVIOUS
<1> HIDE DEF x, y, z
<1>2. x \o y \in Seq(S) /\ Len(x \o y) = 2 /\ (x \o y)[1] = a /\ (x \o y)[2] = b
  BY <1>1, ConcatProperties
<1>3. \A i \in 1 .. Len(z) : z[i] = (x \o y)[i]
  BY <1>1, <1>2
<1>4. z = x \o y
  BY <1>1, <1>2, <1>3, SeqEqual
<1> QED BY <1>4 DEF x, y, z

\* A token more has a code, and the stream of them its bits.
LEMMA OneMoreCode ==
  ASSUME NEW s \in Seq(Token), NEW t \in Token, Sayable(t),
         \A n \in 1 .. Len(s) : Sayable(s[n])
  PROVE  /\ \A n \in 1 .. Len(s \o <<t>>) : Sayable((s \o <<t>>)[n])
         /\ Len(StreamBits(s \o <<t>>)) = Len(StreamBits(s)) + Len(Bits(t))
<1> DEFINE u == s \o <<t>>
<1>1. /\ u \in Seq(Token) /\ Len(u) = Len(s) + 1 /\ u[Len(s) + 1] = t
      /\ \A n \in 1 .. Len(s) : u[n] = s[n]
  OBVIOUS
<1>2. Len(s) \in Nat
  OBVIOUS
<1> HIDE DEF u
<1>3. \A n \in 1 .. Len(u) : Sayable(u[n])
  <2> TAKE n \in 1 .. Len(u)
  <2>1. n \in 1 .. Len(s) \/ n = Len(s) + 1
    BY <1>1, <1>2
  <2> QED BY <1>1, <2>1
<1>4. Coded(s) /\ Coded(u) /\ IsSeq(Bits(t))
  BY <1>1, <1>3, SaidIsSeq DEF Coded, IsSeq
<1>5. Len(StreamBits(u)) = Len(StreamBits(s)) + Len(Bits(t))
  BY <1>1, <1>4, StreamGrows
<1> QED BY <1>3, <1>5 DEF u

LEMMA PackChunkCode == ASSUME W4Inv, CodeInv, PackChunk PROVE CodeInv'
<1>1. /\ stage = "write" /\ stage' = stage /\ PackStep
      /\ bits' = bits + Len(Bits(stream'[Len(stream) + 1]))
                  + IF Len(stream') = Len(stream) + 1 THEN 0
                    ELSE Len(Bits(stream'[Len(stream) + 2]))
  BY DEF PackChunk
<1>2. /\ bits \in Nat /\ stream \in Seq(Token) /\ Len(stream) \in Nat
      /\ \A n \in 1 .. Len(stream) : Sayable(stream[n])
      /\ bits = Len(StreamBits(stream))
  BY <1>1 DEF W4Inv, W4TypeOK, DsInv, DsTypeOK, CodeInv
<1>3. phase = "pack"
  BY <1>1 DEF PackStep, PutCopy, PutRun, PutByte, InSegment, EndSegment, EndBlock
<1>4. ASSUME NEW t \in Token, Sayable(t), stream' = stream \o <<t>>
      PROVE  CodeInv'
  <2>1. Len(stream') = Len(stream) + 1 /\ stream'[Len(stream) + 1] = t
    BY <1>2, <1>4
  <2>2. Len(Bits(t)) \in Nat
    BY <1>4, SaidIsSeq
  <2>3. bits' = bits + Len(Bits(t))
    BY <1>1, <1>2, <2>1, <2>2
  <2>4. /\ \A n \in 1 .. Len(stream') : Sayable(stream'[n])
        /\ Len(StreamBits(stream')) = Len(StreamBits(stream)) + Len(Bits(t))
    BY <1>2, <1>4, OneMoreCode
  <2>5. bits' = Len(StreamBits(stream'))
    BY <1>2, <2>3, <2>4
  <2> QED BY <2>4, <2>5 DEF CodeInv
<1>5. ASSUME NEW t \in Token, NEW u \in Token, Sayable(t), Sayable(u),
             stream' = stream \o <<t, u>>
      PROVE  CodeInv'
  <2>1. /\ Len(stream') = Len(stream) + 2
        /\ stream'[Len(stream) + 1] = t /\ stream'[Len(stream) + 2] = u
    BY <1>2, <1>5, TwoMore
  <2>2. Len(Bits(t)) \in Nat /\ Len(Bits(u)) \in Nat
    BY <1>5, SaidIsSeq
  <2>3. bits' = bits + Len(Bits(t)) + Len(Bits(u))
    <3>1. Len(stream') # Len(stream) + 1
      BY <1>2, <2>1
    <3> QED BY ONLY <1>1, <2>1, <3>1
  <2> DEFINE s == stream \o <<t>>
  <2>4. s \in Seq(Token) /\ stream' = s \o <<u>>
    <3>1. /\ <<t>> \in Seq(Token) /\ <<u>> \in Seq(Token) /\ s \in Seq(Token)
          /\ <<t, u>> = <<t>> \o <<u>>
      <4>1. <<t>> \in Seq(Token) /\ <<u>> \in Seq(Token) /\ s \in Seq(Token)
        BY <1>2
      <4>2. <<t, u>> = <<t>> \o <<u>>
        BY PairIs
      <4> QED BY <4>1, <4>2
    <3>2. stream \o (<<t>> \o <<u>>) = (stream \o <<t>>) \o <<u>>
      BY <1>2, <3>1, ConcatAssociative
    <3> QED BY <1>5, <3>1, <3>2
  <2>5. /\ \A n \in 1 .. Len(s) : Sayable(s[n])
        /\ Len(StreamBits(s)) = Len(StreamBits(stream)) + Len(Bits(t))
    BY <1>2, <1>5, OneMoreCode
  <2> HIDE DEF s
  <2>6. /\ \A n \in 1 .. Len(s \o <<u>>) : Sayable((s \o <<u>>)[n])
        /\ Len(StreamBits(s \o <<u>>)) = Len(StreamBits(s)) + Len(Bits(u))
    BY <1>5, <2>4, <2>5, OneMoreCode
  <2>7. bits' = Len(StreamBits(stream'))
    BY <1>2, <2>2, <2>3, <2>4, <2>5, <2>6
  <2> QED BY <2>4, <2>6, <2>7 DEF CodeInv
<1>6. ASSUME NEW t \in {Break, End}, stream' = Append(stream, t) PROVE CodeInv'
  <2>1. t \in Token /\ Sayable(t)
    BY SizesAssumption DEF Break, End, Mark, Token, Sayable
  <2>2. stream' = stream \o <<t>>
    BY <1>2, <1>6, <2>1
  <2> QED BY <1>4, <2>1, <2>2
<1>7. CASE EndSegment
  BY <1>6, <1>7 DEF EndSegment
<1>8. CASE EndBlock
  BY <1>6, <1>8 DEF EndBlock
<1> QED BY <1>1, <1>3, <1>4, <1>5, <1>7, <1>8, BitsOfStep DEF PackedMore, W4Inv

LEMMA NoTokenCode ==
  ASSUME stream' = << >>, bits' = 0
  PROVE  CodeInv'
BY StreamOfNone DEF CodeInv

LEMMA CodeInvNext == ASSUME W4Inv, CodeInv, [W4Next]_vars PROVE CodeInv'
<1>1. CASE PackChunk
  BY <1>1, PackChunkCode
<1>2. CASE StoreChunk
  <2>1. bits' = 0 /\ \/ stream' = << >>
                     \/ stage' = "read"
    BY <1>2 DEF StoreChunk, Codec
  <2> QED BY <2>1, NoTokenCode DEF CodeInv
<1>3. CASE ReadRaw \/ Misread \/ OpenChunk \/ UnpackChunk \/ KeepChunk
  <2>1. stage' # "write"
    BY <1>3 DEF ReadRaw, Misread, OpenChunk, UnpackChunk, KeepChunk, Keep, w4vars
  <2> QED BY <2>1 DEF CodeInv
<1>4. CASE UNCHANGED vars
  BY <1>4 DEF vars, w4vars, dsvars, packing, CodeInv
<1> QED BY <1>1, <1>2, <1>3, <1>4 DEF W4Next

LEMMA CodeInvariance == W4Spec => []CodeInv
<1>1. W4Init => CodeInv
  BY StreamOfNone DEF W4Init, Given, CodeInv
<1>2. W4Inv /\ CodeInv /\ [W4Next]_vars => CodeInv'
  BY CodeInvNext
<1> QED BY <1>1, <1>2, W4Invariance, PTL DEF W4Spec

\* The probes are streams of tokens with a code.
LEMMA ProbesRead == \A s \in Probes : CodesRead(s)
<1> SUFFICES ASSUME NEW p \in Probes PROVE CodesRead(p)
  OBVIOUS
<1>0. PICK d \in {1, 63, 64, 319, 320, MaxCodeDepth},
           n \in {2, 3, 4, 5, 9, 10, 257, 258, 511, 512} : p = <<Copy(d, n), Chr(0)>>
  BY DEF Probes
<1>1. d \in 1 .. MaxCodeDepth /\ n \in 2 .. MaxCount
  BY DEF MaxCodeDepth, SectorBreak, MaxCount
<1> DEFINE t == Copy(d, n)
           u == Chr(0)
<1>2. Sayable(t) /\ Sayable(u)
  BY <1>1, SizesAssumption, CopySayable, ChrSayable
<1> HIDE DEF t, u
<1>3. <<t, u>> \in Seq({t, u}) /\ \A k \in 1 .. Len(<<t, u>>) : <<t, u>>[k] \in {t, u}
  OBVIOUS
<1>4. CodesRead(<<t, u>>)
  <2> DEFINE s == <<t, u>>
  <2>1. s \in Seq({t, u}) /\ \A k \in 1 .. Len(s) : s[k] = t \/ s[k] = u
    BY <1>3
  <2> HIDE DEF s
  <2>2. IsSeq(s) /\ \A k \in 1 .. Len(s) : Sayable(s[k])
    BY <1>2, <2>1 DEF IsSeq
  <2>3. CodesRead(s)
    BY <2>2, AllRead
  <2> QED BY <2>3 DEF s
<1> QED BY <1>0, <1>4 DEF t, u

\* Whatever ds_compress writes, ds_decompress reads the same tokens back from
\* the bits, one by one and each within the 32 bits of its buffer; the length
\* ds_compress returns is that of those bits.
THEOREM CodesAreExact == W4Spec => []CodesExact
<1>1. W4Inv /\ CodeInv => CodesExact
  <2> SUFFICES ASSUME W4Inv, CodeInv, stage = "write", phase = "packed"
               PROVE  CodesRead(stream) /\ bits = Len(StreamBits(stream))
    BY ProbesRead DEF CodesExact
  <2>1. IsSeq(stream)
    BY DEF W4Inv, DsInv, DsTypeOK, IsSeq
  <2> QED BY <2>1, AllRead DEF CodeInv
<1> QED BY <1>1, CodeInvariance, W4Invariance, PTL
==============================================================================
