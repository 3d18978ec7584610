----------------------------- MODULE KwajExpand -----------------------------
(***************************************************************************)
(* What the packed data of a KWAJ file stands for, without tables and      *)
(* windows: the definition the decompressors of Kwaj are checked against.  *)
(* Archives has, for LZH, the lengths of the codes (lens) and how many     *)
(* bits there are before the data (head).                                  *)
(***************************************************************************)
EXTENDS Kwaj

\* The n bytes that begin d behind the end, blanks before the beginning.
RECURSIVE Repeated(_, _, _)
Repeated(out, d, n) ==
  IF n = 0 THEN out
  ELSE Repeated(Append(out, IF d > Len(out) THEN Blank ELSE out[Len(out) + 1 - d]), d, n - 1)

\* How far back the place mpos of the window was written last.
Behind(out, mpos) ==
  CHOOSE d \in 1 .. Window : (Len(out) + (Window - Margin) + (Window - d)) % Window = mpos

RECURSIVE ExpandSzdd(_, _, _)
ExpandSzdd(bytes, flags, out) ==
  IF bytes = <<>> THEN out
  ELSE IF flags = <<>>
  THEN ExpandSzdd(Tail(bytes), [i \in 1 .. Flags |-> (Head(bytes) \div 2 ^ (i - 1)) % 2], out)
  ELSE IF Head(flags) = 1 THEN ExpandSzdd(Tail(bytes), Tail(flags), Append(out, Head(bytes)))
  ELSE IF Len(bytes) < 2 THEN out
  ELSE ExpandSzdd(Drop(bytes, 2), Tail(flags),
         Repeated(out, Behind(out, bytes[1] + (bytes[2] \div LowLen) * LowMpos), (bytes[2] % LowLen) + 3))

\* The literals of a run, as many as there are codes for.
RECURSIVE ExpandRun(_, _, _, _)
ExpandRun(lens, bits, n, out) ==
  LET s == Coded(lens, bits)
  IN  IF n = 0 \/ s = {} THEN [bits |-> bits, out |-> out, whole |-> n = 0]
      ELSE LET c == CHOOSE c \in s : TRUE
           IN  ExpandRun(lens, Drop(bits, lens[c + 1]), n - 1, Append(out, c))

\* The output of the tokens that begin with at least k bits to go.
RECURSIVE ExpandLzh(_, _, _, _, _)
ExpandLzh(lens, bits, k, run, out) ==
  LET first == lens[IF run THEN 2 ELSE 1]
      m     == Coded(first, bits)
      sym   == CHOOSE c \in m : TRUE
      rest  == Drop(bits, first[sym + 1])
      s     == Coded(lens[IF sym > 0 THEN 4 ELSE 3], rest)
      second == CHOOSE c \in s : TRUE
      data  == Drop(rest, lens[IF sym > 0 THEN 4 ELSE 3][second + 1])
  IN  IF Len(bits) < k \/ m = {} \/ s = {} THEN out
      ELSE IF sym > 0
      THEN IF Len(data) < OffBits THEN out
           ELSE LET d == second * 2 ^ OffBits + Value(SubSeq(data, 1, OffBits))
                IN  ExpandLzh(lens, Drop(data, OffBits), k, FALSE,
                              Repeated(out, IF d = 0 THEN Window ELSE d, sym + 2))
      ELSE LET r == ExpandRun(lens[5], data, second + 1, out)
           IN  IF ~r.whole THEN r.out
               ELSE ExpandLzh(lens, r.bits, k, second + 1 # Syms["LITLEN"], r.out)

\* The codes use all bit strings and no more; those that the table holds
\* whole may do so without the others, which then never occur.
Whole(l, max) ==
  MapThenSumSet(LAMBDA i : 2 ^ (HUFF_MAXBITS - l[i]), {i \in DOMAIN l : l[i] \in 1 .. max})
    = 2 ^ HUFF_MAXBITS
CompleteCode(l) == Whole(l, HUFF_MAXBITS) \/ Whole(l, TableBits)

\* Whatever the method, an archive unpacked gives the bytes it stands for,
\* however its tables are built and wherever the window wraps; an LZH one, of
\* which only the input tells where it ends, may lose tokens that begin in
\* the last bits of it, fewer than the longest code has, and is never
\* continued with bits that are not there (kwajd.c: READ_HUFFSYM_SAFE).
UnpackedExact ==
  (pc = "done" /\ src = None /\ filename # None) =>
    LET data == Drop(archive.bytes, archive.offset)
    IN  CASE archive.method = "none" -> rc = "ok" /\ o.out = data
          [] archive.method = "xor"  -> rc = "ok" /\ o.out = [i \in DOMAIN data |-> 255 - data[i]]
          [] archive.method = "szdd" -> rc = "ok" /\ o.out = ExpandSzdd(data, <<>>, <<>>)
          [] archive.method = "lzh" /\ archive.lens # None ->
               IF Len(data) < archive.head THEN o.out = <<>>
               ELSE IF \E t \in 1 .. 5 : ~CompleteCode(archive.lens[t]) THEN rc = "dataformat"
               ELSE LET bits == Drop(data, archive.head)
                    IN  /\ rc = "ok"
                        /\ IsPrefix(ExpandLzh(archive.lens, bits, HUFF_MAXBITS, FALSE, <<>>), o.out)
                        /\ IsPrefix(o.out, ExpandLzh(archive.lens, bits, 0, FALSE, <<>>))
          [] OTHER -> TRUE
=============================================================================
