----------------------------- MODULE DoubleSpace -----------------------------
(***************************************************************************)
(* ds_compress of pe/ds_compress.c and ds_decompress of                    *)
(* pe/ds_decompress.c: a block of bytes becomes a stream of tokens and     *)
(* then bytes again.  DsCode.tla has the bits of a token.  Between the two *)
(* the stream may be damaged, as an archive is that was cut short.         *)
(***************************************************************************)
EXTENDS Integers, Sequences, DsTokens

CONSTANTS
  Byte,      \* the values of a byte
  Blocks,    \* the blocks to compress
  Capacity,  \* block_size of ds_decompress, chunk_size of a W4 archive
  Segment,   \* FS_SEGMENT_SIZE
  MaxDepth,  \* MAX_DEPTH, the most ds_lookup goes back
  Tries,     \* bs_tries, the lengths ds_lookup looks for
  MinRun,    \* the shortest run ds_rle takes
  Strays     \* the tokens a damaged stream may show

Token == [kind : {"chr", "copy", "break", "end", "bad"},
          byte : Byte, dist : Nat, len : Nat]

ASSUME SizesAssumption ==
  /\ 0 \in Byte
  /\ Capacity \in Nat
  /\ Blocks \subseteq {b \in Seq(Byte) : Len(b) <= Capacity}
  /\ Segment \in Nat \ {0}
  /\ MaxDepth \in Nat
  /\ Tries \subseteq Nat \ {0}
  /\ MinRun \in Nat \ {0, 1}
  /\ Strays \subseteq Token
  /\ \A t \in Strays : t.kind = "copy" => t.dist > 0

Break == Mark("break")
End   == Mark("end")

VARIABLES
  block,    \* the bytes ds_compress is given
  seg,      \* i, the segments compressed
  pos,      \* act_pos, the bytes compressed
  stream,   \* the tokens written
  starts,   \* history: the bytes compressed before each token, and now
  intact,   \* history: how many tokens are as ds_compress wrote them
  phase,    \* "pack", "packed", "unpack", "copy" or "unpacked"
  out,      \* the bytes ds_decompress has written, out to ptr_pos
  next,     \* the token it reads next
  dist,     \* copy_pos
  todo,     \* what is left of copy_size
  size      \* what ds_decompress returns

packing   == <<block, seg, pos, stream, starts>>
unpacking == <<out, next, dist, todo, size>>
dsvars    == <<packing, intact, phase, unpacking>>

Phases == {"pack", "packed", "unpack", "copy", "unpacked"}

\* ds_compress is called for block b.
Given(b) ==
  /\ block = b
  /\ seg = 0
  /\ pos = 0
  /\ stream = << >>
  /\ starts = <<0>>
  /\ intact = 0
  /\ phase = "pack"
  /\ out = << >>
  /\ next = 1
  /\ dist = 0
  /\ todo = 0
  /\ size = 0

Init == \E b \in Blocks : Given(b)

--------------------------------------------------------------------------
(* ds_compress                                                             *)

Lesser(a, b) == IF a <= b THEN a ELSE b

\* act_end: the end of the segment, the last of which is shorter.
SegEnd == Lesser((seg + 1) * Segment, Len(block))

\* Whether there is a segment to compress.
HasSegment == seg * Segment < Len(block)

\* Bytes p + 1 .. p + n of the block stand d bytes before as well.
Repeats(p, d, n) == \A j \in 1 .. n : block[p + j] = block[p + j - d]

\* What ds_lookup may find: a string of one of the lengths of bs_tries that
\* ends before pos.  Which of them the hash lists still have is left open:
\* a list holds 31 strings and strings that share a hash push each other
\* out.
Matches ==
  {m \in [dist : 1 .. MaxDepth, len : Tries] :
     /\ m.dist >= m.len /\ m.dist <= pos
     /\ pos + m.len <= SegEnd
     /\ Repeats(pos, m.dist, m.len)}

\* ds_rle: the length of the run of equal bytes at pos.
IsRun(n) ==
  /\ n \in 1 .. SegEnd - pos
  /\ Repeats(pos + 1, 1, n - 1)
  /\ pos + n < SegEnd => block[pos + n + 1] # block[pos + 1]

InSegment == phase = "pack" /\ HasSegment /\ pos < SegEnd

Written(ts, ps) ==
  /\ stream' = stream \o ts
  /\ starts' = starts \o ps
  /\ intact' = Len(stream')
  /\ pos' = ps[Len(ps)]
  /\ UNCHANGED <<block, seg, phase, unpacking>>

PutCopy ==
  /\ InSegment
  /\ \E m \in Matches, n \in 1 .. Len(block) :
       /\ IsRun(n)
       /\ n < MinRun \/ n <= m.len
       /\ Written(<<Copy(m.dist, m.len)>>, <<pos + m.len>>)

\* Mutant: the run is repeated once too often.
PutRun_Longer ==
  /\ InSegment
  /\ \E n \in MinRun .. Len(block) :
       /\ IsRun(n)
       /\ Written(<<Chr(block[pos + 1]), Copy(1, n)>>, <<pos + 1, pos + n>>)

\* A run, if nothing as long was found: its byte and a copy of the rest.
PutRun ==
  /\ InSegment
  /\ \E n \in MinRun .. Len(block) :
       /\ IsRun(n)
       /\ Written(<<Chr(block[pos + 1]), Copy(1, n - 1)>>, <<pos + 1, pos + n>>)

PutByte ==
  /\ InSegment
  /\ \E n \in 1 .. MinRun - 1 : IsRun(n)
  /\ Written(<<Chr(block[pos + 1])>>, <<pos + 1>>)

\* Every segment ends with a sector break.
EndSegment ==
  /\ phase = "pack"
  /\ HasSegment
  /\ pos = SegEnd
  /\ stream' = Append(stream, Break)
  /\ starts' = Append(starts, pos)
  /\ intact' = Len(stream')
  /\ seg' = seg + 1
  /\ UNCHANGED <<block, pos, phase, unpacking>>

EndBlock ==
  /\ phase = "pack"
  /\ ~HasSegment
  /\ stream' = Append(stream, End)
  /\ starts' = Append(starts, pos)
  /\ intact' = Len(stream')
  /\ phase' = "packed"
  /\ UNCHANGED <<block, seg, pos, unpacking>>

--------------------------------------------------------------------------
(* The stream on its way                                                   *)

Deliver ==
  /\ phase = "packed"
  /\ phase' = "unpack"
  /\ UNCHANGED <<packing, intact, unpacking>>

\* The archive was cut short: the decompressor reads zeroes, first as the
\* rest of the token that was cut and then as end marks.
Cut ==
  /\ phase = "packed"
  /\ \E n \in 0 .. Len(stream) - 1, t \in Strays :
       /\ stream' = SubSeq(stream, 1, n) \o <<t, End>>
       /\ intact' = n
  /\ phase' = "unpack"
  /\ UNCHANGED <<block, seg, pos, starts, unpacking>>

--------------------------------------------------------------------------
(* ds_decompress                                                           *)

T == stream[next]

\* Whether the loop goes on to another token.
Reading == phase = "unpack" /\ Len(out) < Capacity

Return(n) == phase' = "unpacked" /\ size' = n

Full ==
  /\ phase = "unpack"
  /\ Len(out) = Capacity
  /\ Return(Len(out))
  /\ UNCHANGED <<packing, intact, out, next, dist, todo>>

ReadByte ==
  /\ Reading
  /\ T.kind = "chr"
  /\ out' = Append(out, T.byte)
  /\ next' = next + 1
  /\ UNCHANGED <<packing, intact, phase, dist, todo, size>>

\* Mutant: the sector break is left in the buffer.
ReadBreak_Stays ==
  /\ Reading
  /\ T.kind = "break"
  /\ UNCHANGED <<packing, intact, phase, unpacking>>

ReadBreak ==
  /\ Reading
  /\ T.kind = "break"
  /\ next' = next + 1
  /\ UNCHANGED <<packing, intact, phase, out, dist, todo, size>>

\* The end mark, or a copy that does not fit into the block.
ReadEnd ==
  /\ Reading
  /\ \/ T.kind = "end"
     \/ T.kind = "copy" /\ T.dist <= Len(out) /\ Len(out) + T.len > Capacity
  /\ Return(Len(out))
  /\ UNCHANGED <<packing, intact, out, next, dist, todo>>

\* A length that cannot be, or a distance to before the block.
ReadBad ==
  /\ Reading
  /\ T.kind = "bad" \/ (T.kind = "copy" /\ T.dist > Len(out))
  /\ Return(0)
  /\ UNCHANGED <<packing, intact, out, next, dist, todo>>

\* Mutant: a copy is taken that goes past the end of the block.
ReadCopy_Over ==
  /\ Reading
  /\ T.kind = "copy" /\ T.dist <= Len(out)
  /\ dist' = T.dist
  /\ todo' = T.len
  /\ next' = next + 1
  /\ phase' = "copy"
  /\ UNCHANGED <<packing, intact, out, size>>

\* Mutant: the length is read as one less.
ReadCopy_Short ==
  /\ Reading
  /\ T.kind = "copy" /\ T.dist <= Len(out) /\ Len(out) + T.len <= Capacity
  /\ dist' = T.dist
  /\ todo' = T.len - 1
  /\ next' = next + 1
  /\ phase' = "copy"
  /\ UNCHANGED <<packing, intact, out, size>>

ReadCopy ==
  /\ Reading
  /\ T.kind = "copy" /\ T.dist <= Len(out) /\ Len(out) + T.len <= Capacity
  /\ dist' = T.dist
  /\ todo' = T.len
  /\ next' = next + 1
  /\ phase' = "copy"
  /\ UNCHANGED <<packing, intact, out, size>>

\* One byte of a copy; it may read what the copy itself wrote.
CopyByte ==
  /\ phase = "copy"
  /\ todo > 0
  /\ out' = Append(out, out[Len(out) + 1 - dist])
  /\ todo' = todo - 1
  /\ UNCHANGED <<packing, intact, phase, next, dist, size>>

CopyDone ==
  /\ phase = "copy"
  /\ todo = 0
  /\ phase' = "unpack"
  /\ UNCHANGED <<packing, intact, unpacking>>

--------------------------------------------------------------------------
PackStep   == PutCopy \/ PutRun \/ PutByte \/ EndSegment \/ EndBlock
UnpackStep == \/ Full \/ ReadByte \/ ReadBreak \/ ReadEnd \/ ReadBad
              \/ ReadCopy \/ CopyByte \/ CopyDone
Next == PackStep \/ Deliver \/ Cut \/ UnpackStep

Spec == Init /\ [][Next]_dsvars /\ WF_dsvars(Next)

--------------------------------------------------------------------------
(* Properties                                                              *)

\* ds_decompress stays inside its block whatever the stream holds: it
\* writes no byte past block_size and copies from none before the block.
InBounds ==
  /\ Len(out) + todo <= Capacity
  /\ phase = "copy" => dist \in 1 .. Len(out)

\* The bytes that come from tokens as they were written are the bytes of
\* the block, also where the stream is damaged further on.
PrefixExact ==
  \A j \in 1 .. Len(out) : j <= starts[intact + 1] => out[j] = block[j]

\* An undamaged stream gives the block back, with its size.
RoundTrip ==
  phase = "unpacked" /\ intact = Len(stream) => size = Len(block) /\ out = block

--------------------------------------------------------------------------
(* The inductive invariant behind them                                     *)

DsTypeOK ==
  /\ block \in Seq(Byte) /\ Len(block) <= Capacity
  /\ seg \in Nat
  /\ pos \in 0 .. Len(block)
  /\ stream \in Seq(Token)
  /\ \A n \in 1 .. Len(stream) : stream[n].kind = "copy" => stream[n].dist > 0
  /\ starts \in Seq(Nat)
  /\ intact \in 0 .. Len(stream) /\ intact < Len(starts)
  /\ phase \in Phases
  /\ out \in Seq(Byte)
  /\ next \in Nat \ {0}
  /\ dist \in Nat
  /\ todo \in Nat
  /\ size \in 0 .. Capacity

\* Token t is true of the block where it stands for bytes p + 1 .. q.
Says(t, p, q) ==
  /\ q = p + t.len /\ q <= Len(block)
  /\ t.kind = "chr" => t.len = 1 /\ block[q] = t.byte
  /\ t.kind = "copy" => t.dist <= p /\ Repeats(p, t.dist, t.len)
  /\ t.kind = "end" => p = Len(block)
  /\ t.kind = "break" => t.len = 0
  /\ t.kind # "bad"

StreamInv ==
  /\ starts[1] = 0
  /\ \A n \in 1 .. intact : Says(stream[n], starts[n], starts[n + 1])
  /\ phase = "pack" =>
       /\ intact = Len(stream)
       /\ Len(starts) = intact + 1
       /\ starts[intact + 1] = pos
       /\ Lesser(seg * Segment, Len(block)) <= pos
  /\ phase = "packed" => intact = Len(stream)
  /\ phase # "pack" => stream # << >> /\ stream[Len(stream)] = End

\* The decompressor stands where token next begins, or within a copy that
\* ends there.
ReadInv ==
  /\ phase \in {"pack", "packed"} => out = << >> /\ next = 1
  /\ phase # "copy" => todo = 0
  /\ phase \in {"unpack", "copy"} =>
       /\ next <= Len(stream)
       /\ next <= intact + 1 => Len(out) + todo = starts[next]
  /\ phase = "copy" =>
       /\ next > 1
       /\ stream[next - 1].kind = "copy"
       /\ dist = stream[next - 1].dist
       /\ todo <= stream[next - 1].len

\* PrefixExact, by what has been read.
OutInv ==
  /\ next <= intact + 1 => \A j \in 1 .. Len(out) : out[j] = block[j]
  /\ next > intact + 1 =>
       /\ starts[intact + 1] <= Len(out)
       /\ \A j \in 1 .. starts[intact + 1] : out[j] = block[j]

DsInv == DsTypeOK /\ StreamInv /\ ReadInv /\ OutInv /\ InBounds /\ RoundTrip
==============================================================================
