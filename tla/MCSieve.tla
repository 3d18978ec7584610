------------------------------ MODULE MCSieve ------------------------------
(***************************************************************************)
(* Images of three bytes of which the last two are patched, differing from *)
(* the assembled one in any places, and all files of up to five bytes.    *)
(***************************************************************************)
EXTENDS Sieve

Original == <<1, 1, 2>>

\* The original but for other values at some places.
Changed(places, values) == [k \in 1 .. 3 |-> IF k - 1 \in places THEN values[k] ELSE Original[k]]

MCImages ==
  {[original  |-> Original,
    relocated |-> Changed(reloc, <<0, 0, 0>>),
    patched   |-> Changed(patched, <<0, 0, 1>>),
    dumped    |-> Changed(dumped, <<2, 2, 1>>)] :
      reloc \in {{}, {0}, {1}, {2}, {0, 2}}, patched \in {{1}, {2}, {1, 2}, {0, 1}}, dumped \in {{}, {1}, {2}}}

MCFiles == UNION {[1 .. n -> 0 .. 2] : n \in 0 .. 5}
=============================================================================
