-------------------------------- MODULE W4File --------------------------------
(***************************************************************************)
(* A W4 archive of pe/pew.c: pe_w3_to_w4 cuts a W3 file into chunks,       *)
(* compresses each with ds_compress and writes the table of their offsets; *)
(* pe_w4_to_w3 reads them back.  A chunk that compression does not shorten *)
(* is written as it is, and nothing but the size of a chunk, which is the  *)
(* distance to the next one or to the end of the file, tells which.        *)
(* DoubleSpace.tla is the codec of the chunk in hand; DsCode.tla says how  *)
(* many bytes its tokens take.  Offsets are counted from the first chunk.  *)
(***************************************************************************)
EXTENDS DoubleSpace, DsCode, SequencesExt

CONSTANTS
  Files,    \* the files to compress, each the sequence of its chunks
  Padding,  \* 0xE5
  Garbage   \* what the bytes of a raw chunk or of a stream misread give

ASSUME FilesAssumption ==
  /\ Blocks = UNION {Range(f) : f \in Files}
  /\ Files \subseteq Seq(Blocks) \ {<< >>}
  /\ \A f \in Files : \A k \in 1 .. Len(f) - 1 : Len(f[k]) = Capacity
  /\ Padding \in Byte

\* What the constants of ds_compress are in the code: what it writes has a
\* code, which is not longer than that of the bytes one by one.
ASSUME CodeAssumption ==
  /\ Byte \subseteq 0 .. 255
  /\ Segment \in 8 .. MaxCount
  /\ Segment <= Capacity
  /\ MaxDepth <= MaxCodeDepth
  /\ Tries \subseteq 2 .. MaxCount
  /\ MinRun >= 3

VARIABLES
  file,    \* the W3 file
  chunks,  \* the chunks written
  here,    \* ftell(fw): where the next chunk starts
  eof,     \* the size of the W4 file
  bits,    \* the bits of the stream written, which bs_write_flush_le fills up
  stage,   \* "write", "read", "chunk" or "done"
  got      \* the chunks pe_w4_to_w3 has written

w4vars == <<file, chunks, here, eof, bits, stage, got>>
vars   == <<dsvars, w4vars>>

Larger(a, b) == IF a >= b THEN a ELSE b

W4Init ==
  \E f \in Files :
    /\ file = f
    /\ Given(f[1])
    /\ chunks = << >>
    /\ here = 0
    /\ eof = 0
    /\ bits = 0
    /\ stage = "write"
    /\ got = << >>

--------------------------------------------------------------------------
(* pe_w3_to_w4                                                             *)

\* The codec is called for block b, of which s is written already.
Codec(b, s, ps, ph) ==
  /\ block' = b /\ seg' = 0 /\ pos' = 0
  /\ stream' = s /\ starts' = ps /\ intact' = Len(s)
  /\ phase' = ph
  /\ out' = << >> /\ next' = 1 /\ dist' = 0 /\ todo' = 0 /\ size' = 0

\* ds_compress goes on, and writes a token or two.
PackChunk ==
  /\ stage = "write"
  /\ PackStep
  /\ bits' = bits + Len(Bits(stream'[Len(stream) + 1]))
                  + IF Len(stream') = Len(stream) + 1 THEN 0
                    ELSE Len(Bits(stream'[Len(stream) + 2]))
  /\ UNCHANGED <<file, chunks, here, eof, stage, got>>

\* Mutant: a chunk is compressed although that does not shorten it.
IsRaw_Over(comp) == comp > Capacity

\* Whether the chunk is written as it is, over the comp bytes of its stream.
IsRaw(comp) == comp >= Capacity

\* The file does not shrink where a raw chunk ends before its stream did.
StoreChunk ==
  /\ stage = "write"
  /\ phase = "packed"
  /\ LET comp == BytesOf(bits)
         raw  == IsRaw(comp)
     IN  /\ chunks' = Append(chunks, [off |-> here, comp |-> comp, raw |-> raw,
                                      stream |-> stream, starts |-> starts])
         /\ here' = here + IF raw THEN Capacity ELSE comp
         /\ eof' = Larger(eof, Larger(here + comp, here'))
  /\ bits' = 0
  /\ UNCHANGED <<file, got>>
  /\ IF Len(chunks') < Len(file)
     THEN Codec(file[Len(chunks) + 2], << >>, <<0>>, "pack") /\ stage' = stage
     ELSE UNCHANGED dsvars /\ stage' = "read"

--------------------------------------------------------------------------
(* pe_w4_to_w3                                                             *)

\* The chunk to read.
K == Len(got) + 1

\* pe_w4_read: the last chunk ends where the file does.
SizeOf(k) ==
  (IF k < Len(chunks) THEN chunks[k + 1].off ELSE eof) - chunks[k].off

\* A raw chunk that is shorter is filled up.
Padded(b) == b \o [j \in 1 .. Capacity - Len(b) |-> Padding]

ReadingChunk(raw) ==
  /\ stage = "read"
  /\ raw <=> SizeOf(K) = Capacity

Keep(b) ==
  /\ got' = Append(got, b)
  /\ stage' = IF K = Len(file) THEN "done" ELSE "read"
  /\ UNCHANGED <<file, chunks, here, eof, bits>>

\* fread: the bytes of the file as they are.
ReadRaw ==
  /\ ReadingChunk(TRUE)
  /\ Keep(IF chunks[K].raw THEN Padded(file[K]) ELSE Garbage)
  /\ UNCHANGED dsvars

\* ds_decompress on a chunk that is raw.
Misread ==
  /\ ReadingChunk(FALSE)
  /\ chunks[K].raw
  /\ Keep(Garbage)
  /\ UNCHANGED dsvars

OpenChunk ==
  /\ ReadingChunk(FALSE)
  /\ ~chunks[K].raw
  /\ stage' = "chunk"
  /\ Codec(file[K], chunks[K].stream, chunks[K].starts, "packed")
  /\ UNCHANGED <<file, chunks, here, eof, bits, got>>

\* The last chunk may have been cut.
UnpackChunk ==
  /\ stage = "chunk"
  /\ Deliver \/ (K = Len(file) /\ Cut) \/ UnpackStep
  /\ UNCHANGED w4vars

\* Nothing is written for a chunk ds_decompress gives up.
KeepChunk ==
  /\ stage = "chunk"
  /\ phase = "unpacked"
  /\ Keep(SubSeq(out, 1, size))
  /\ UNCHANGED dsvars

W4Next == \/ PackChunk \/ StoreChunk
          \/ ReadRaw \/ Misread \/ OpenChunk \/ UnpackChunk \/ KeepChunk

W4Spec == W4Init /\ [][W4Next]_vars /\ WF_vars(W4Next)

--------------------------------------------------------------------------
(* Properties                                                              *)

StreamBits(s) == FlattenSeq([n \in 1 .. Len(s) |-> Bits(s[n])])

\* ds_decompress reads what ds_compress wrote, token by token, and needs no
\* more than the 32 bits of its buffer for one.
CodesRead(s) ==
  \A n \in 1 .. Len(s) :
    LET r == Decoded(Window(StreamBits(SubSeq(s, n, Len(s))), 1))
    IN  r.token = s[n] /\ r.used = Len(Bits(s[n])) /\ r.used <= 32

\* Distances and lengths around the places where the code changes.
Probes ==
  {<<Copy(d, n), Chr(0)>> :
     d \in {1, 63, 64, 319, 320, MaxCodeDepth},
     n \in {2, 3, 4, 5, 9, 10, 257, 258, 511, 512}}

\* Every token ds_compress writes is one the code can say, and is read
\* back; and so are, asked once for each file, the copies a chunk of the
\* real size may need.
CodesExact ==
  stage = "write" =>
    /\ phase = "packed" => CodesRead(stream) /\ bits = Len(StreamBits(stream))
    /\ chunks = << >> /\ stream = << >> => \A s \in Probes : CodesRead(s)

\* Whether the chunk was cut.
Damaged(k) == k = Len(file) /\ ~chunks[k].raw /\ intact < Len(stream)

\* Every chunk comes back as it was, whether it was compressed or not; but
\* for a last one whose stream was longer than a chunk: it is written over the
\* start of that stream, and the end of the file makes it too large to be raw.
ChunksSurvive ==
  \A k \in 1 .. Len(got) :
    Damaged(k) \/ (k = Len(file) /\ chunks[k].comp > Capacity) \/
    got[k] = IF chunks[k].raw THEN Padded(file[k]) ELSE file[k]

\* The conversion ends, also where the stream is damaged.
Ends == <>(stage = "done")

--------------------------------------------------------------------------
(* The inductive invariant behind ChunksSurvive                            *)

Chunk == [off : Nat, comp : Nat, raw : BOOLEAN, stream : Seq(Token), starts : Seq(Nat)]

W4TypeOK ==
  /\ file \in Files
  /\ chunks \in Seq(Chunk) /\ Len(chunks) <= Len(file)
  /\ here \in Nat /\ eof \in Nat /\ bits \in Nat
  /\ stage \in {"write", "read", "chunk", "done"}
  /\ got \in Seq(Seq(Byte) \cup {Garbage}) /\ Len(got) <= Len(file)

\* Token t is true of block b where it stands for bytes p + 1 .. q.
SaysOf(b, t, p, q) ==
  /\ q = p + t.len /\ q <= Len(b)
  /\ t.kind = "chr" => t.len = 1 /\ b[q] = t.byte
  /\ t.kind = "copy" =>
       t.dist \in 1 .. p /\ \A j \in 1 .. t.len : b[p + j] = b[p + j - t.dist]
  /\ t.kind = "end" => p = Len(b)
  /\ t.kind = "break" => t.len = 0
  /\ t.kind # "bad"

\* s, with its starts ps, is what ds_compress may make of block b.
StreamOf(b, s, ps) ==
  /\ s \in Seq(Token) /\ s # << >> /\ s[Len(s)] = End
  /\ ps \in Seq(Nat) /\ Len(ps) = Len(s) + 1 /\ ps[1] = 0
  /\ \A n \in 1 .. Len(s) : SaysOf(b, s[n], ps[n], ps[n + 1])

\* The bytes chunk c takes of the file.
Span(c) == IF c.raw THEN Capacity ELSE c.comp

ChunksInv ==
  \A k \in 1 .. Len(chunks) :
    LET c == chunks[k]
    IN  /\ StreamOf(file[k], c.stream, c.starts)
        /\ c.raw <=> IsRaw(c.comp)
        /\ c.comp < 2 * Capacity
        /\ IF k < Len(chunks) THEN chunks[k + 1].off = c.off + Span(c)
           ELSE here = c.off + Span(c)

\* A stream that was written over ends less than a chunk behind what came
\* over it, so that one which is followed by a chunk of full size is gone.
EofInv ==
  /\ here <= eof /\ eof < here + Capacity
  /\ chunks # << >> =>
       LET c == chunks[Len(chunks)]
       IN  /\ ~c.raw => eof < c.off + Capacity
           /\ c.comp = Capacity => eof = here

\* The stream is no longer than its bytes one by one with their breaks.
BitsInv ==
  /\ phase \in {"pack", "packed"}
  /\ bits <= 9 * pos + 15 * seg + IF phase = "packed" THEN 8 ELSE 0
  /\ 8 * seg <= pos + 7

WriteInv ==
  stage = "write" =>
    /\ Len(chunks) < Len(file)
    /\ block = file[Len(chunks) + 1]
    /\ Len(starts) = Len(stream) + 1
    /\ got = << >>
    /\ BitsInv

ChunkInv ==
  /\ stage # "write" => Len(chunks) = Len(file)
  /\ stage \in {"read", "chunk"} => Len(got) < Len(file)
  /\ stage = "chunk" =>
       /\ block = file[K]
       /\ ~chunks[K].raw
       /\ phase \in {"packed", "unpack", "copy", "unpacked"}
       /\ K = Len(file) \/ intact = Len(stream)
       /\ size <= Len(out)

\* A token that has a code: its fields are wide enough.
Sayable(t) ==
  \/ t.byte \in Byte /\ t = Chr(t.byte)
  \/ t.dist \in 1 .. MaxCodeDepth /\ t.len \in 2 .. MaxCount /\ t = Copy(t.dist, t.len)
  \/ t \in {Break, End}

\* Behind CodesExact: every token written has a code, and bits is their sum.
CodeInv ==
  stage = "write" =>
    /\ \A n \in 1 .. Len(stream) : Sayable(stream[n])
    /\ bits = Len(StreamBits(stream))

W4Inv ==
  /\ DsInv
  /\ W4TypeOK /\ ChunksInv /\ EofInv /\ WriteInv /\ ChunkInv
  /\ ChunksSurvive
==============================================================================
