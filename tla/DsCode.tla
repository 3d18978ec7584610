-------------------------------- MODULE DsCode --------------------------------
(***************************************************************************)
(* The DoubleSpace code of one token: what ds_out_pos and ds_out_chr of    *)
(* ds_compress.c write and ds_decompress.c reads.  Bits are sequences of 0 *)
(* and 1 in the order bs_write_bit_le writes and bs_read_bit_le reads      *)
(* them, the lowest bit first.                                             *)
(***************************************************************************)
EXTENDS Integers, Sequences, DsTokens

\* copy_pos of a sector break, and the most a copy can go back.
SectorBreak == 4415
MaxCodeDepth == SectorBreak - 1

\* The zeroes ds_count accepts before it says the block is bad, and with
\* them the longest copy.
MaxZeroes == 8
MaxCount  == 512

--------------------------------------------------------------------------
(* Writing                                                                 *)

\* The w lowest bits of v.
Field(v, w) == [i \in 1 .. w |-> (v \div 2^(i - 1)) % 2]

Zeroes(n) == [i \in 1 .. n |-> 0]

\* n rounded down to a power of two is 2^Ln2(n).
Ln2(n) == CHOOSE r \in 0 .. MaxZeroes + 1 : 2^r <= n /\ n < 2^(r + 1)

\* Mutant: distance 63 is given the eleven bits of the farther ones.
PosBits_Early(d) ==
  CASE d < 63 -> <<0, 0>> \o Field(d, 6)
    [] d >= 63 /\ d < 320 -> <<1, 1, 0>> \o Field(d - 64, 8)
    [] OTHER -> <<1, 1, 1>> \o Field(d - 320, 12)

\* The distance in 8, 11 or 15 bits.
PosBits(d) ==
  CASE d < 64 -> <<0, 0>> \o Field(d, 6)
    [] d >= 64 /\ d < 320 -> <<1, 1, 0>> \o Field(d - 64, 8)
    [] OTHER -> <<1, 1, 1>> \o Field(d - 320, 12)

\* The length: as many zeroes as its power of two, a one, and the rest.
CountBits(n) ==
  LET z == Ln2(n - 1) IN Zeroes(z) \o <<1>> \o Field(n - 2^z - 1, z)

ChrBits(c) == (IF c >= 128 THEN <<1, 0>> ELSE <<0, 1>>) \o Field(c % 128, 7)

Bits(t) ==
  CASE t.kind = "chr" -> ChrBits(t.byte)
    [] t.kind = "copy" -> PosBits(t.dist) \o CountBits(t.len)
    [] t.kind = "break" -> PosBits(SectorBreak)
    [] t.kind = "end" -> Zeroes(8)

\* The bytes of so many bits: bs_write_flush_le fills the last one up.
BytesOf(bits) == (bits + 7) \div 8

--------------------------------------------------------------------------
(* Reading                                                                 *)

\* buf: the next 32 bits; past the end of the file bs_read_bit_le reads 0.
Window(bits, i) ==
  [j \in 1 .. 32 |-> IF i + j - 1 <= Len(bits) THEN bits[i + j - 1] ELSE 0]

\* The number in the bits i .. i + w - 1 of buf.
Value(buf, i, w) ==
  LET value[j \in 0 .. w] ==
        IF j = 0 THEN 0 ELSE value[j - 1] + buf[i + j - 1] * 2^(j - 1)
  IN  value[w]

\* ds_count, with the length of a copy at bit i.
Counted(buf, i, dist) ==
  LET z == CHOOSE n \in 0 .. MaxZeroes + 1 :
             /\ n = MaxZeroes + 1 \/ buf[i + n] = 1
             /\ \A m \in 0 .. n - 1 : buf[i + m] = 0
  IN  IF z > MaxZeroes
      THEN [token |-> Mark("bad"), used |-> i - 1]
      ELSE [token |-> Copy(dist, 2^z + Value(buf, i + z + 1, z) + 1),
            used  |-> i + 2 * z]

\* The token in buf, and the bits it takes from there.
Decoded(buf) ==
  CASE buf[1] # buf[2] ->
         [token |-> Chr(128 * buf[1] + Value(buf, 3, 7)), used |-> 9]
    [] buf[1] = 0 /\ buf[2] = 0 ->
         IF Value(buf, 3, 6) = 0
         THEN [token |-> Mark("end"), used |-> 8]
         ELSE Counted(buf, 9, Value(buf, 3, 6))
    [] buf[1] = 1 /\ buf[2] = 1 /\ buf[3] = 0 ->
         Counted(buf, 12, 64 + Value(buf, 4, 8))
    [] OTHER ->
         IF 320 + Value(buf, 4, 12) = SectorBreak
         THEN [token |-> Mark("break"), used |-> 15]
         ELSE Counted(buf, 16, 320 + Value(buf, 4, 12))
==============================================================================
