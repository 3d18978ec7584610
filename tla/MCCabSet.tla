------------------------------ MODULE MCCabSet ------------------------------
(* A set of three archives, one alien archive and one that names itself.   *)
EXTENDS CabSet

Piece(fid, no, part, size) == [block |-> <<fid, no>>, part |-> part, size |-> size, bad |-> FALSE]
AFile(name, folder, join, offset, length) ==
  [name |-> name, folder |-> folder, join |-> join, offset |-> offset, length |-> length]
Cab(set, index, prev, next, folders, files) ==
  [set |-> set, index |-> index, prev |-> prev, next |-> next,
   folders |-> folders, files |-> files, readable |-> TRUE]
Unreadable(c) == [c EXCEPT !.readable = FALSE]

\* Folder f has five blocks, the second and the fourth split; g begins in the
\* second archive in one form of the set, in the other f is its only folder.
MCArchive ==
  LET c1 == Cab("S", 1, None, "c2",
                << <<Piece("f", 1, 1, 2), Piece("f", 2, 1, 0)>> >>,
                <<AFile("a", 1, "none", 0, 2), AFile("b", 1, "next", 2, 4)>>)
      c2 == Cab("S", 2, "c1", "c3",
                << <<Piece("f", 2, 2, 2), Piece("f", 3, 1, 0)>> >>,
                <<AFile("b", 1, "both", 2, 4)>>)
      c3 == Cab("S", 3, "c2", None,
                << <<Piece("f", 3, 2, 2)>>, <<Piece("h", 1, 1, 1)>> >>,
                <<AFile("b", 1, "prev", 2, 4), AFile("d", 2, "none", 0, 1)>>)
      l3 == [c3 EXCEPT !.folders[1] = @ \o <<Piece("f", 4, 1, 2), Piece("f", 5, 1, 2)>>]
      e2 == Cab("S", 2, "c1", "c3",
                << <<Piece("f", 2, 2, 2), Piece("f", 3, 1, 2)>>, <<Piece("g", 1, 1, 0)>> >>,
                <<AFile("b", 1, "prev", 2, 4), AFile("d", 2, "next", 1, 2)>>)
      e3 == Cab("S", 3, "c2", None,
                << <<Piece("g", 1, 2, 2), Piece("g", 2, 1, 1)>> >>,
                <<AFile("d", 1, "prev", 1, 2)>>)
      x  == Cab("X", 1, None, "c2", << <<Piece("x", 1, 1, 2)>> >>, <<AFile("b", 1, "none", 0, 2)>>)
      y  == Cab("S", 2, "c1", "c1", << <<Piece("y", 1, 1, 2)>> >>, <<AFile("a", 1, "none", 1, 1)>>)
  IN  [n \in {"c1", "c2", "c3", "x"} |->
         CASE n = "c1" -> {c1, [c1 EXCEPT !.folders[1][2].bad = TRUE]}
           [] n = "c2" -> {c2, e2, y, Unreadable(c2)}
           [] n = "c3" -> {c3, l3, e3}
           [] n = "x"  -> {x}]
MCWanted == {"a", "b", "d"}
=============================================================================
