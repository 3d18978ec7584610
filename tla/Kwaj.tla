-------------------------------- MODULE Kwaj --------------------------------
(***************************************************************************)
(* KWAJ files (unpacker.c: kwaj_pack, kwaj_unpack, kwaj_get_name; libmspack:*)
(* mspack/kwajd.c, mspack/lzssd.c): packing by storing, the headers as the *)
(* two readers take them, and unpacking by every method but MSZIP.         *)
(*                                                                         *)
(* A file is what stands behind its fixed header, number by number: bytes, *)
(* or bits where the method is LZH.  The sizes of libmspack are constants. *)
(***************************************************************************)
EXTENDS Huffman, FiniteSets, Functions

CONSTANTS
  Sources,    \* the files there may be to pack, [name, data]
  Archives,   \* the archives there may be to unpack
  NameLen, ExtLen, \* KWAJ_NAME_LEN, KWAJ_EXT_LEN
  InputSize,  \* KWAJ_INPUT_SIZE
  TableBits,  \* KWAJ_TABLEBITS
  Syms,       \* number of symbols of each tree, KWAJ_..._SYMS
  TypeBits, LenBits, OffBits, \* widths of the fields of LZH: 4, 4, 6
  Window,     \* LZSS_WINDOW_SIZE
  Margin,     \* how far before its end SZDD begins to write: 16
  LowMpos, LowLen, Flags, \* of SZDD: 256, 16, 8
  None

Nul == 0

ASSUME KwajAssumption ==
  /\ {NameLen, ExtLen, InputSize, TableBits, TypeBits, LenBits, OffBits, Flags} \subseteq Nat \ {0}
  /\ Margin \in 1 .. Window
  /\ ExtLen <= NameLen
  /\ None \notin Sources
  /\ \A s \in Sources : s.name \in Seq(Nat \ {Nul}) /\ s.data \in Seq(Nat)
  /\ \A a \in Archives :
       a.bytes \in Seq(Nat) /\ a.method \in {"none", "xor", "szdd", "lzh", "unknown"}

Dot   == 46
Blank == 32 \* LZSS_WINDOW_FILL
Trees == <<"MATCHLEN1", "MATCHLEN2", "LITLEN", "OFFSET", "LITERAL">>
Drop(s, n) == SubSeq(s, n + 1, Len(s))

VARIABLES
  src,      \* the file to pack, or None if the archive came from elsewhere
  archive,  \* [method, flags, offset (from behind the fixed header), bytes]
  pc, rc,
  filename, \* hdr->filename
  in,       \* what is left of the input: bytes, or bits
  input_end,
  todo,     \* the flags of SZDD not yet done
  types, trees, \* of LZH
  lit_run, len,
  o         \* the window, the place in it and the output

vars == <<src, archive, pc, rc, filename, in, input_end, todo, types, trees, lit_run, len, o>>
lzh  == <<types, trees, lit_run, len>>

--------------------------------------------------------------------------
(* kwaj_pack                                                               *)

Dots(p) == {i \in DOMAIN p : p[i] = Dot}
\* The name and the extension stored.  One too long is cut, the name at the
\* place where an extension would be.
StoredName(p) ==
  IF Dots(p) = {} THEN <<>>
  ELSE SubSeq(p, 1, IF Max(Dots(p)) - 1 > NameLen THEN ExtLen ELSE Max(Dots(p)) - 1)
StoredExt(p) ==
  IF Dots(p) = {} THEN <<>>
  ELSE SubSeq(p, Max(Dots(p)) + 1, Min({Len(p), Max(Dots(p)) + ExtLen}))

\* Mutant: the Nul behind a string is not counted.
Packed_Offset(p, data) ==
  LET string(s) == IF s = <<>> THEN <<>> ELSE Append(s, Nul)
      head      == <<Len(data) % 256, (Len(data) \div 256) % 256>>
                     \o string(StoredName(p)) \o string(StoredExt(p))
  IN  [method |-> "none",
       flags  |-> {"length"} \cup (IF StoredName(p) # <<>> THEN {"name"} ELSE {})
                             \cup (IF StoredExt(p) # <<>> THEN {"ext"} ELSE {}),
       offset |-> 2 + Len(StoredName(p)) + Len(StoredExt(p)),
       bytes  |-> head \o data]
\* Two bytes are written of the length, where the readers skip four.
Packed(p, data) ==
  LET string(s) == IF s = <<>> THEN <<>> ELSE Append(s, Nul)
      head      == <<Len(data) % 256, (Len(data) \div 256) % 256>>
                     \o string(StoredName(p)) \o string(StoredExt(p))
  IN  [method |-> "none",
       flags  |-> {"length"} \cup (IF StoredName(p) # <<>> THEN {"name"} ELSE {})
                             \cup (IF StoredExt(p) # <<>> THEN {"ext"} ELSE {}),
       offset |-> Len(head),
       bytes  |-> head \o data]

--------------------------------------------------------------------------
(* The headers                                                             *)

\* Mutant: the length as kwaj_pack writes it.
NameOffset_Packed(a) == (IF "length" \in a.flags THEN 2 ELSE 0)
                          + (IF "unknown1" \in a.flags THEN 2 ELSE 0)
                          + (IF "unknown2" \in a.flags THEN 2 ELSE 0)
\* Where the strings begin for kwaj_get_name, which does not look what is in
\* the second unknown part.
NameOffset(a) == (IF "length" \in a.flags THEN 4 ELSE 0)
                   + (IF "unknown1" \in a.flags THEN 2 ELSE 0)
                   + (IF "unknown2" \in a.flags THEN 2 ELSE 0)

\* The characters before the next Nul, or before the end.
Chars(bytes, p) ==
  LET end == {i \in p + 1 .. Len(bytes) : bytes[i] = Nul}
  IN  SubSeq(bytes, p + 1, IF end = {} THEN Len(bytes) ELSE Min(end) - 1)

GetName(a) ==
  LET name == Chars(a.bytes, NameOffset(a))
      ext  == Chars(a.bytes, NameOffset(a) + Len(name) + 1)
  IN  IF "name" \notin a.flags \/ name = <<>> THEN None
      ELSE IF "ext" \in a.flags THEN name \o <<Dot>> \o ext ELSE name

\* One string of kwajd_read_headers: at most max bytes with the Nul.  Without
\* one, in a file that ends early, the last character is lost.
ReadString(bytes, p, max) ==
  LET n   == Min({max, Len(bytes) - p})
      end == {i \in 1 .. n : bytes[p + i] = Nul}
      i   == IF end = {} THEN n ELSE Min(end) - 1
  IN  IF n < 2 THEN [error |-> "read"]
      ELSE IF i = max THEN [error |-> "dataformat"]
      ELSE [error |-> "ok", next |-> p + i + 1,
            chars |-> SubSeq(bytes, p + 1, p + i - IF end = {} THEN 1 ELSE 0)]

\* A part of n bytes that must be there, if the flag says it is.
Skip(a, flag, n, r) ==
  IF flag \notin a.flags \/ r.error # "ok" THEN r
  ELSE IF r.next + n > Len(a.bytes) THEN [r EXCEPT !.error = "read"]
  ELSE [r EXCEPT !.next = @ + n]

ReadPart(a, flag, max, dot, r) ==
  IF flag \notin a.flags \/ r.error # "ok" THEN r
  ELSE LET s == ReadString(a.bytes, r.next, max)
       IN  IF s.error # "ok" THEN [r EXCEPT !.error = s.error]
           ELSE [error |-> "ok", next |-> s.next, name |-> r.name \o dot \o s.chars]

Len16(a, r) == a.bytes[r.next - 1] + 256 * a.bytes[r.next]

\* kwajd_read_headers: the parts in front of the name, of which the second
\* unknown one may be longer than the file, then the rest.
Unknown1(a) ==
  Skip(a, "unknown1", 2, Skip(a, "length", 4, [error |-> "ok", next |-> 0, name |-> <<>>]))
Unknown2(a) ==
  LET r == Skip(a, "unknown2", 2, Unknown1(a))
  IN  IF r.error = "ok" /\ "unknown2" \in a.flags THEN [r EXCEPT !.next = @ + Len16(a, r)] ELSE r

Headers(a) ==
  LET extralen == Skip(a, "extra", 2,
                    ReadPart(a, "ext", ExtLen + 1, <<Dot>>,
                      ReadPart(a, "name", NameLen + 1, <<>>, Unknown2(a))))
  IN  IF extralen.error = "ok" /\ "extra" \in a.flags
      THEN Skip(a, "extra", Len16(a, extralen), extralen) ELSE extralen

--------------------------------------------------------------------------
(* The window                                                              *)

Put(w, b) ==
  [ring |-> [w.ring EXCEPT ![w.pos] = b], pos |-> (w.pos + 1) % Window, out |-> Append(w.out, b)]
Match(w, mpos, n) ==
  FoldLeft(LAMBDA v, k : Put(v, v.ring[(mpos + k) % Window]), w, [k \in 1 .. n |-> k - 1])

\* Reading bits (READ_BITS_SAFE, READ_HUFFSYM_SAFE): behind the end there are
\* zeros; end says that some were asked for, cut that some were used.
TakeBits(r, n) ==
  [val |-> Value(FirstBits(r.in, n)), in |-> Drop(r.in, n),
   end |-> r.end \/ Len(r.in) < n, cut |-> r.cut \/ Len(r.in) < n]
TakeSymbol(r, tree) ==
  LET s == Symbol(tree.length, TableBits, tree.table, r.in)
      n == tree.length[s + 1]
  IN  [val |-> s, in |-> Drop(r.in, n),
       end |-> r.end \/ Len(r.in) < HUFF_MAXBITS, cut |-> r.cut \/ Len(r.in) < n]
Reader == [val |-> 0, in |-> in, end |-> input_end, cut |-> FALSE]

\* One more length of lzh_read_lens: l has the reader and the lengths so far.
NextLen(type, l) ==
  LET c     == IF l.lens = <<>> THEN 0 ELSE Last(l.lens)
      field == TakeBits(l.r, LenBits)
      one   == TakeBits(l.r, 1)
      two   == TakeBits(one, 1)
      sel   == TakeBits(l.r, 2)
      with(r, v) == [r |-> r, lens |-> Append(l.lens, v)]
      full(r)    == with(TakeBits(r, LenBits), TakeBits(r, LenBits).val)
  IN  IF type = 3 \/ l.lens = <<>> THEN full(l.r)
      ELSE IF type = 1
      THEN IF one.val = 0 THEN with(one, c) ELSE IF two.val = 0 THEN with(two, c + 1) ELSE full(two)
      ELSE IF sel.val = 3 THEN full(sel) ELSE with(sel, (c + sel.val + 255) % 256)

\* All lengths of a tree of n symbols; type 0 has codes of one length.
Log2(n) == CHOOSE k \in 0 .. n : 2 ^ k = n
ReadLens(type, n) ==
  IF type = 0 THEN [r |-> Reader, lens |-> [i \in 1 .. n |-> Log2(n)]]
  ELSE FoldLeft(LAMBDA l, i : IF l.r.cut THEN l ELSE NextLen(type, l),
                [r |-> Reader, lens |-> <<>>], [i \in 1 .. n |-> i])

--------------------------------------------------------------------------
Fresh(pos) == [ring |-> [i \in 0 .. Window - 1 |-> Blank], pos |-> pos, out |-> <<>>]

Init ==
  /\ \/ src \in Sources /\ archive = None /\ pc = "pack"
     \/ src = None /\ archive \in Archives /\ pc = "open"
  /\ rc = "none" /\ filename = None
  /\ in = <<>> /\ input_end = FALSE /\ todo = <<>>
  /\ types = <<>> /\ trees = <<>> /\ lit_run = FALSE /\ len = 0
  /\ o = Fresh(0)

Stop(error) == pc' = "done" /\ rc' = error

Pack ==
  /\ pc = "pack"
  /\ archive' = Packed(src.name, src.data)
  /\ pc' = "open"
  /\ UNCHANGED <<src, rc, filename, in, input_end, todo, lzh, o>>

\* kwajd_open; then kwajd_extract goes to the data and chooses the method.
Open ==
  /\ pc = "open"
  /\ LET h == Headers(archive)
     IN  IF h.error # "ok"
         THEN Stop(h.error) /\ UNCHANGED <<filename, in, o>>
         ELSE /\ filename' = h.name
              /\ in' = Drop(archive.bytes, archive.offset)
              /\ IF archive.method = "unknown" THEN Stop("dataformat")
                 ELSE pc' = archive.method /\ UNCHANGED rc
              /\ o' = Fresh(IF archive.method = "szdd" THEN Window - Margin ELSE 0)
  /\ UNCHANGED <<src, archive, input_end, todo, lzh>>

\* NONE and XOR, by one buffer.
Copy ==
  /\ pc \in {"none", "xor"}
  /\ LET n    == Min({InputSize, Len(in)})
         buf  == SubSeq(in, 1, n)
     IN  IF n = 0 THEN Stop("ok") /\ UNCHANGED <<in, o>>
         ELSE /\ in' = Drop(in, n)
              /\ o' = [o EXCEPT !.out = @ \o IF pc = "none" THEN buf ELSE [i \in 1 .. n |-> 255 - buf[i]]]
              /\ UNCHANGED <<pc, rc>>
  /\ UNCHANGED <<src, archive, filename, input_end, todo, lzh>>

\* lzss_decompress: a byte of flags, the lowest first, then what they say.
\* It ends with the input, wherever that is, and always well.
SzddEnd ==
  /\ pc = "szdd"
  /\ Len(in) < IF todo # <<>> /\ Head(todo) = 0 THEN 2 ELSE 1
  /\ Stop("ok")
  /\ UNCHANGED <<src, archive, filename, in, input_end, todo, lzh, o>>

SzddFlags ==
  /\ pc = "szdd" /\ todo = <<>> /\ in # <<>>
  /\ todo' = [i \in 1 .. Flags |-> (Head(in) \div 2 ^ (i - 1)) % 2]
  /\ in' = Tail(in)
  /\ UNCHANGED <<src, archive, pc, rc, filename, input_end, lzh, o>>

SzddLiteral ==
  /\ pc = "szdd" /\ todo # <<>> /\ Head(todo) = 1 /\ in # <<>>
  /\ o' = Put(o, Head(in))
  /\ in' = Tail(in) /\ todo' = Tail(todo)
  /\ UNCHANGED <<src, archive, pc, rc, filename, input_end, lzh>>

\* Mutant: the place in the window is counted back from the one written to.
SzddMatch_Relative ==
  /\ pc = "szdd" /\ todo # <<>> /\ Head(todo) = 0 /\ Len(in) >= 2
  /\ o' = Match(o, (o.pos + Window - 1) - (in[1] + ((in[2] \div LowLen) * LowMpos)), (in[2] % LowLen) + 3)
  /\ in' = Drop(in, 2) /\ todo' = Tail(todo)
  /\ UNCHANGED <<src, archive, pc, rc, filename, input_end, lzh>>
SzddMatch ==
  /\ pc = "szdd" /\ todo # <<>> /\ Head(todo) = 0 /\ Len(in) >= 2
  /\ o' = Match(o, in[1] + (in[2] \div LowLen) * LowMpos, (in[2] % LowLen) + 3)
  /\ in' = Drop(in, 2) /\ todo' = Tail(todo)
  /\ UNCHANGED <<src, archive, pc, rc, filename, input_end, lzh>>

\* lzh_decompress: six types of codes, of which five are used.
Types ==
  /\ pc = "lzh" /\ types = <<>>
  /\ LET read == FoldLeft(LAMBDA t, i : [r |-> TakeBits(t.r, TypeBits),
                                         types |-> Append(t.types, TakeBits(t.r, TypeBits).val)],
                          [r |-> Reader, types |-> <<>>], [i \in 1 .. 6 |-> i])
     IN  /\ in' = read.r.in /\ input_end' = read.r.end
         /\ IF read.r.cut THEN Stop("ok") /\ UNCHANGED types
            ELSE types' = read.types /\ UNCHANGED <<pc, rc>>
  /\ UNCHANGED <<src, archive, filename, todo, trees, lit_run, len, o>>

\* BUILD_TREE.  Lengths that end with the input leave the others as they were
\* in memory, and so does a type there is not.  Then either the table is
\* found bad, or nothing more is read and all is well.
Tree ==
  /\ pc = "lzh" /\ types # <<>> /\ Len(trees) < 5
  /\ LET type == types[Len(trees) + 1]
         n    == Syms[Trees[Len(trees) + 1]]
         l    == ReadLens(type, n)
     IN  IF type > 3
         THEN /\ \E lens \in [1 .. n -> 0 .. HUFF_MAXBITS] :
                   IF DecodeTable(lens, TableBits).bad
                   THEN Stop("dataformat") /\ UNCHANGED trees
                   ELSE /\ trees' = Append(trees, [length |-> lens, table |-> DecodeTable(lens, TableBits)])
                        /\ UNCHANGED <<pc, rc>>
              /\ UNCHANGED <<in, input_end>>
         ELSE /\ in' = l.r.in /\ input_end' = l.r.end
              /\ IF l.r.cut THEN Stop("ok") \/ Stop("dataformat")
                 ELSE IF DecodeTable(l.lens, TableBits).bad THEN Stop("dataformat")
                 ELSE UNCHANGED <<pc, rc>>
              /\ trees' = IF l.r.cut THEN trees
                          ELSE Append(trees, [length |-> l.lens, table |-> DecodeTable(l.lens, TableBits)])
  /\ UNCHANGED <<src, archive, filename, todo, types, lit_run, len, o>>

\* A code that needs bits which are not there ends it, and all is well.
Read(r, next) ==
  /\ in' = r.in /\ input_end' = r.end
  /\ IF r.cut THEN Stop("ok") ELSE pc' = next /\ UNCHANGED rc

Codes == pc = "lzh" /\ Len(trees) = 5

InputEnd ==
  /\ Codes /\ input_end
  /\ Stop("ok")
  /\ UNCHANGED <<src, archive, filename, in, input_end, todo, lzh, o>>

MatchLen ==
  /\ Codes /\ ~input_end
  /\ LET r == TakeSymbol(Reader, trees[IF lit_run THEN 2 ELSE 1])
     IN  /\ Read(r, IF r.val > 0 THEN "offset" ELSE "run")
         /\ len' = r.val + 2
         /\ lit_run' = (lit_run /\ r.val = 0)
  /\ UNCHANGED <<src, archive, filename, todo, types, trees, o>>

Offset ==
  /\ pc = "offset"
  /\ LET r   == TakeSymbol(Reader, trees[4])
         low == TakeBits(r, OffBits)
     IN  /\ Read(low, "lzh")
         /\ o' = IF low.cut THEN o
                 ELSE Match(o, (o.pos + Window) - (r.val * 2 ^ OffBits + low.val), len)
  /\ UNCHANGED <<src, archive, filename, todo, lzh>>

RunLen ==
  /\ pc = "run"
  /\ LET r == TakeSymbol(Reader, trees[3])
     IN  /\ Read(r, "literal")
         /\ len' = r.val + 1
         /\ lit_run' = (r.val + 1 # Syms["LITLEN"])
  /\ UNCHANGED <<src, archive, filename, todo, types, trees, o>>

Literal ==
  /\ pc = "literal"
  /\ LET r == TakeSymbol(Reader, trees[5])
     IN  /\ Read(r, IF len = 1 THEN "lzh" ELSE "literal")
         /\ o' = IF r.cut THEN o ELSE Put(o, r.val)
         /\ len' = len - 1
  /\ UNCHANGED <<src, archive, filename, todo, types, trees, lit_run>>

Next ==
  \/ Pack \/ Open \/ Copy
  \/ SzddEnd \/ SzddFlags \/ SzddLiteral \/ SzddMatch
  \/ Types \/ Tree \/ InputEnd \/ MatchLen \/ Offset \/ RunLen \/ Literal

Spec == Init /\ [][Next]_vars /\ WF_vars(Next)

--------------------------------------------------------------------------
(* Properties                                                              *)

\* A file packed by --kwaj --compress is given back byte by byte, if the
\* name stored of it has three characters at least: the length is written
\* with two bytes and read with four, so that the readers begin two
\* characters late, and with a shorter name may end in the data.
PackedSame ==
  (pc = "done" /\ src # None) =>
    /\ rc = "ok" => o.out = src.data
    /\ Len(StoredName(src.name)) >= 3 => rc = "ok"

\* Where a string may end.
Nuls(a) == {i \in NameOffset(a) + 1 .. Len(a.bytes) : a.bytes[i] = Nul}

\* Both readers of the headers see the same name, where both see one, its
\* strings end and no part is in the way that only one of them skips; --kwaj
\* makes the file named by kwaj_get_name.
NamesAgree ==
  (pc = "done" /\ filename # None /\ "unknown2" \notin archive.flags /\ GetName(archive) # None)
    => \/ filename = GetName(archive)
       \/ Cardinality(Nuls(archive)) < Cardinality(archive.flags \cap {"name", "ext"})

--------------------------------------------------------------------------
(* The inductive invariants behind PackedSame and NamesAgree               *)

\* What is packed is on its way from src to archive, from there to in, and
\* from there to the output.
SrcInv ==
  src # None =>
    /\ src \in Sources
    /\ pc \in {"pack", "open", "none", "done"}
    /\ pc \in {"pack", "open"} => rc = "none"
    /\ pc # "pack" => archive = Packed(src.name, src.data)
    /\ pc = "none" =>
         /\ in \in Seq(Nat) /\ o.out \in Seq(Nat) /\ o.out \o in = src.data
         /\ o = [Fresh(0) EXCEPT !.out = o.out]
         /\ rc = "none"
    /\ rc = "ok" => o.out = src.data
    /\ pc = "done" => rc = "ok" \/ rc = Headers(archive).error

\* The name libmspack sees is the one of its headers.
NameInv ==
  /\ pc # "pack" => archive.bytes \in Seq(Nat)
  /\ pc = "pack" => src \in Sources
  /\ filename # None =>
       pc # "pack" /\ Headers(archive).error = "ok" /\ filename = Headers(archive).name
=============================================================================
