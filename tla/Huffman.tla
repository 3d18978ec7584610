------------------------------ MODULE Huffman ------------------------------
(***************************************************************************)
(* Canonical Huffman codes as libmspack decodes them (mspack/readhuff.h):  *)
(* the table built from the lengths of the codes, looked up by the first   *)
(* nbits bits and walked bit by bit behind that.  Symbol s has the length  *)
(* length[s + 1].  Where the file stores bits from the low end, the code   *)
(* reverses the index of the table; on sequences of bits both are one.     *)
(***************************************************************************)
EXTENDS Naturals, Sequences, SequencesExt, FiniteSetsExt

CONSTANT HUFF_MAXBITS
ASSUME HuffmanAssumption == HUFF_MAXBITS \in Nat \ {0}

Unused == 65535 \* 0xFFFF

\* Bits, the first the most significant, as a number.
Value(bits) == FoldLeft(LAMBDA v, b : 2 * v + b, 0, bits)
FirstBits(bits, n) == [i \in 1 .. n |-> IF i <= Len(bits) THEN bits[i] ELSE 0]

\* The symbols with codes of lo to hi bits, in the order they get them.
InOrder(length, lo, hi) ==
  FlattenSeq([k \in 1 .. (hi + 1) - lo |->
                SelectSeq([i \in 1 .. Len(length) |-> i - 1],
                          LAMBDA s : length[s + 1] = lo + k - 1)])

\* A short code fills every entry that begins with it.
Direct(nbits, length, t, s) ==
  LET n == 2 ^ (nbits - length[s + 1])
  IN  IF t.bad \/ t.pos + n > 2 ^ nbits
      THEN [t EXCEPT !.bad = TRUE]
      ELSE [t EXCEPT !.entry = [e \in DOMAIN @ |-> IF e \in t.pos .. t.pos + n - 1 THEN s ELSE @[e]],
                     !.pos   = @ + n]

\* One bit further: two entries for an entry not yet used, then one of them.
Descend(t, bit) ==
  LET u == IF t.entry[t.leaf] # Unused THEN t
           ELSE [t EXCEPT !.entry = [e \in DOMAIN @ \cup {2 * t.next, 2 * t.next + 1} |->
                                       CASE e = t.leaf                           -> t.next
                                         [] e \in {2 * t.next, 2 * t.next + 1}   -> Unused
                                         [] OTHER                                -> @[e]],
                          !.next = @ + 1]
  IN  [u EXCEPT !.leaf = 2 * u.entry[u.leaf] + bit]

\* A long code: pos now counts codes of 16 bits more than the table has.
Indirect(nbits, length, t, s) ==
  LET n    == length[s + 1] - nbits
      path == [k \in 1 .. n |-> (t.pos \div 2 ^ (16 - k)) % 2]
      u    == FoldLeft(Descend, [t EXCEPT !.leaf = t.pos \div 2 ^ 16], path)
  IN  IF t.bad \/ t.pos >= 2 ^ (nbits + 16)
      THEN [t EXCEPT !.bad = TRUE]
      ELSE [u EXCEPT !.entry[u.leaf] = s, !.pos = @ + 2 ^ (16 - n)]

\* Mutant: the children of long codes begin where the table begins.
DecodeTable_Low(length, nbits) ==
  LET t0    == [entry |-> [e \in 0 .. 2 ^ nbits - 1 |-> Unused],
                pos |-> 0, next |-> 2 ^ (nbits - 1), leaf |-> 0, bad |-> FALSE]
      short == FoldLeft(LAMBDA t, s : Direct(nbits, length, t, s), t0, InOrder(length, 1, nbits))
      long  == FoldLeft(LAMBDA t, s : Indirect(nbits, length, t, s), [short EXCEPT !.pos = @ * 2 ^ 16],
                        InOrder(length, nbits + 1, HUFF_MAXBITS))
  IN  IF ~short.bad /\ short.pos = 2 ^ nbits THEN short
      ELSE [long EXCEPT !.bad = short.bad \/ @ \/ long.pos # 2 ^ (nbits + 16)]
\* make_decode_table; bad is its answer.  A table that the short codes fill
\* is good whatever the lengths say of longer ones.
DecodeTable(length, nbits) ==
  LET t0    == [entry |-> [e \in 0 .. 2 ^ nbits - 1 |-> Unused],
                pos |-> 0, next |-> Max({2 ^ (nbits - 1), Len(length)}), leaf |-> 0, bad |-> FALSE]
      short == FoldLeft(LAMBDA t, s : Direct(nbits, length, t, s), t0, InOrder(length, 1, nbits))
      long  == FoldLeft(LAMBDA t, s : Indirect(nbits, length, t, s), [short EXCEPT !.pos = @ * 2 ^ 16],
                        InOrder(length, nbits + 1, HUFF_MAXBITS))
  IN  IF ~short.bad /\ short.pos = 2 ^ nbits THEN short
      ELSE [long EXCEPT !.bad = short.bad \/ @ \/ long.pos # 2 ^ (nbits + 16)]

\* READ_HUFFSYM, HUFF_TRAVERSE: the symbol at the front of bits.
Traverse(entry, nsyms, sym, bits) ==
  FoldLeft(LAMBDA s, b : IF s < nsyms THEN s ELSE entry[2 * s + b], sym, bits)

Symbol(length, nbits, table, bits) ==
  LET b == FirstBits(bits, HUFF_MAXBITS)
  IN  Traverse(table.entry, Len(length), table.entry[Value(SubSeq(b, 1, nbits))],
               SubSeq(b, nbits + 1, HUFF_MAXBITS))

--------------------------------------------------------------------------
\* What the table stands for: the codes of each length follow one another,
\* and those of a shorter length stand before them.
CodeOf(length, s) ==
  LET before == {r \in 0 .. Len(length) - 1 :
                   /\ length[r + 1] \in 1 .. length[s + 1]
                   /\ length[r + 1] = length[s + 1] => r < s}
  IN  MapThenSumSet(LAMBDA r : 2 ^ (length[s + 1] - length[r + 1]), before)

\* The symbols whose code the bits begin with.
Coded(length, bits) ==
  {s \in 0 .. Len(length) - 1 :
     /\ length[s + 1] \in 1 .. Min({HUFF_MAXBITS, Len(bits)})
     /\ Value(SubSeq(bits, 1, length[s + 1])) = CodeOf(length, s)}
=============================================================================
