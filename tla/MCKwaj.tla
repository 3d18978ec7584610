------------------------------- MODULE MCKwaj -------------------------------
(* Short files to pack and short archives of every method to unpack.       *)
EXTENDS KwajExpand

\* Names of one to nine characters with and without extension, one without
\* a dot and one with two.
MCSources ==
  LET chars(n) == [i \in 1 .. n |-> 64 + i]
      names    == {chars(n) \o <<Dot>> \o chars(k) : n \in {0, 1, 2, 3, 8, 9}, k \in {0, 1, 4}}
                    \cup {chars(3), <<65, Dot, 66, 67, Dot, 68>>}
  IN  [name : names, data : BoundedSeq({0, 7}, 4)]

CutPlain(method, flags, head, data, n) ==
  [method |-> method, flags |-> flags, offset |-> Len(head),
   bytes |-> SubSeq(head \o data, 1, Min({n, Len(head \o data)})), lens |-> None, head |-> 0]
Plain(method, flags, head, data) == CutPlain(method, flags, head, data, Len(head \o data))

\* Every combination of parts, in a file that may end in any of them.
Heads ==
  LET part(f) == CASE f = "length" -> <<3, 0, 0, 0>> [] f = "unknown1" -> <<9, 9>>
                   [] f = "unknown2" -> <<2, 0, 9, 9>> [] f = "name" -> <<65, 66, 0>>
                   [] f = "ext" -> <<67, 0>> [] f = "extra" -> <<1, 0, 70>>
      all     == <<"length", "unknown1", "unknown2", "name", "ext", "extra">>
      head(s) == FlattenSeq([i \in 1 .. 6 |-> IF all[i] \in s THEN part(all[i]) ELSE <<>>])
  IN  {CutPlain(m, s, head(s), <<1, 0, 200>>, n) :
         m \in {"none", "xor", "unknown"}, s \in SUBSET Range(all), n \in {2, 5, 6, 9, 99}}

MCSyms == [t \in Range(Trees) |-> IF t = "LITLEN" THEN 2 ELSE 4]

BitsOf(v, n) == [i \in 1 .. n |-> (v \div 2 ^ (n - i)) % 2]
\* The lengths of a tree as they are packed with one of the types.
PackLens(type, l) ==
  LET full(i) == BitsOf(l[i], LenBits)
      next(i) ==
        CASE type = 3 -> full(i)
          [] type = 1 -> IF l[i] = l[i - 1] THEN <<0>>
                         ELSE IF l[i] = l[i - 1] + 1 THEN <<1, 0>> ELSE <<1, 1>> \o full(i)
          [] type = 2 -> IF l[i] + 1 \in l[i - 1] .. l[i - 1] + 2 THEN BitsOf((l[i] + 1) - l[i - 1], 2)
                         ELSE <<1, 1>> \o full(i)
  IN  IF type \notin 1 .. 3 THEN <<>>
      ELSE FlattenSeq([i \in 1 .. Len(l) |-> IF i = 1 THEN full(1) ELSE next(i)])

Lzh(kinds, lens, data) ==
  LET head == FlattenSeq([i \in 1 .. 6 |-> BitsOf(IF i = 6 THEN 0 ELSE kinds[i], TypeBits)])
                \o FlattenSeq([t \in 1 .. 5 |-> PackLens(kinds[t], lens[t])])
  IN  [Plain("lzh", {}, <<>>, head \o data) EXCEPT
         !.lens = IF \E t \in 1 .. 5 : kinds[t] > 3 THEN None ELSE lens, !.head = Len(head)]

Even == <<2, 2, 2, 2>>
Lens1 == <<Even, Even, <<1, 1>>, Even, Even>>
Lens2 == << <<1, 2, 3, 3>>, <<3, 3, 1, 2>>, <<1, 1>>, <<2, 3, 3, 1>>, <<3, 1, 3, 2>> >>
MCArchives ==
  LET bits == BoundedSeq({0, 1}, 9)
      few  == {<<>>, <<0, 1, 1, 0, 1, 0, 0, 1>>}
  IN  Heads
      \cup {Plain("szdd", {}, <<>>, d) : d \in BoundedSeq(0 .. 3, 5)}
      \cup {Plain("szdd", {}, <<>>, <<0, a, b>> \o d) : a, b \in 0 .. 3, d \in BoundedSeq({0, 2, 3}, 5)}
      \cup {Lzh(<<0, 0, 0, 0, 0>>, Lens1, d) : d \in bits}
      \cup {Lzh(<<0, 0, 0, 0, 0>>, Lens1, <<0, 0, 0, 0, 1, 1, 1, 0, 0, 1>> \o d) : d \in bits}
      \cup {Lzh(<<3, 2, 3, 1, 2>>, Lens2, d) : d \in bits}
      \cup {Lzh(<<3, 3, 0, 0, 0>>, <<l, Even, <<1, 1>>, Even, Even>>, d) : l \in [1 .. 4 -> 0 .. 3], d \in few}
      \cup {Lzh(<<0, 0, 0, 0, 5>>, Lens1, d) : d \in few}
      \cup {LET a == Lzh(<<3, 2, 3, 1, 2>>, Lens2, <<>>)
            IN  [a EXCEPT !.bytes = SubSeq(a.bytes, 1, n)] : n \in 0 .. 52}
=============================================================================
