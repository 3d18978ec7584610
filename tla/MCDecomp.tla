------------------------------ MODULE MCDecomp ------------------------------
(***************************************************************************)
(* Folders for the check of Decomp, their plain content written out by     *)
(* hand: of every method ones that are right, and ones that are damaged or *)
(* break the format at one place.                                          *)
(***************************************************************************)
EXTENDS Decomp

I(k, a, b, c) == [k |-> k, a |-> a, b |-> b, c |-> c]
Lit(a)      == I("lit", a, 0, 0)
Raw(a)      == I("raw", a, 0, 0)
Match(a, n) == I("match", a, n, 0)
C == Item("C")
K == Item("K")

Block(items, size) == [items |-> items, size |-> size, bad |-> ""]
Bad(b) == [items |-> b.items, size |-> b.size, bad |-> "checksum"]
Folder_(m, w, blocks, plain, files, sound) ==
  [method |-> m, window |-> w, merge_prev |-> FALSE, blocks |-> blocks, plain |-> plain,
   files |-> files, sound |-> sound]
Right(m, w, blocks, plain, files)  == Folder_(m, w, blocks, plain, files, TRUE)
Broken(m, w, items, plain, files)  == Folder_(m, w, <<Block(items, 6)>>, plain, files, FALSE)

N1 == Block([i \in 1 .. 6 |-> Raw(i)], 6)
N2 == Block([i \in 1 .. 6 |-> Raw(6 + i)], 6)
N3 == Block([i \in 1 .. 3 |-> Raw(12 + i)], 3)
Ten == [i \in 1 .. 15 |-> i]
None1 == Right("none", 0, <<N1, N2, N3>>, Ten, {<<0, 4>>, <<4, 5>>, <<12, 3>>, <<5, 0>>, <<13, 4>>, <<13, 6>>})
None2 == Right("none", 0, <<Bad(N1), N2, N3>>, Ten, {<<0, 3>>, <<6, 3>>, <<12, 2>>})
None3 == Right("none", 0, <<N1, Bad(N2), N3>>, Ten, {<<0, 3>>, <<4, 4>>})

\* 1 2 1 2 1 7 | 1 2 3
M1 == Block(<<C, C, K, I("codes", 0, 0, 0), Lit(1), Lit(2), Match(2, 3), Item("eob"),
              I("stored", 0, 1, 1), Raw(7)>>, 6)
M2 == Block(<<C, K, I("codes", 0, 0, 1), Match(6, 2), Lit(3), Item("eob")>>, 3)
MPlain == <<1, 2, 1, 2, 1, 7, 1, 2, 3>>
MFiles == {<<0, 4>>, <<3, 4>>, <<4, 5>>, <<8, 1>>, <<8, 3>>}
Mszip1 == Right("mszip", 6, <<M1, M2>>, MPlain, MFiles)
Mszip2 == Right("mszip", 6, <<M1, Bad(M2)>>, MPlain, MFiles)
Mszip3 == Broken("mszip", 6, <<C, K, I("codes", 0, 0, 1), Lit(1), Match(1, 6), I("eob", 0, 0, 1)>>, <<>>, {<<0, 3>>})
Mszip4 == Broken("mszip", 6, <<C, Item("nul"), K, I("codes", 0, 0, 1), Lit(1)>>, <<>>, {<<0, 3>>})
Mszip5 == Broken("mszip", 6, <<C, K, Item("nul"), Lit(1)>>, <<>>, {<<0, 3>>, <<2, 1>>})
Mszip6 == Broken("mszip", 6, <<C, K, I("codes", 0, 0, 1), Lit(1), Match(1, 6), Match(1, 6), Item("eob")>>, <<>>, {<<0, 3>>})

\* 5 E8 20 4 E8 6 | 20 4 E8 21 8 7 | E8 21 8 before the translation
L1 == Block(<<I("intel", 30, 0, 0), I("block", 1, 9, 1), Lit(5), Lit(99), Lit(20), Lit(4), Lit(99), Lit(6)>>, 6)
L2 == Block(<<Match(6, 3), I("block", 3, 3, 0), I("rs", 4, 1, 1), Raw(21), Raw(8), Raw(7)>>, 6)
L3 == Block(<<Item("pad"), I("block", 1, 3, 1), Match(0, 3)>>, 3)
LPlain == <<5, 99, 19, 4, 99, 6, 20, 4, 99, 13, 8, 7, 99, 9, 8>>
LFiles == {<<0, 4>>, <<2, 4>>, <<5, 6>>, <<7, 8>>, <<13, 2>>, <<14, 3>>}
Lzx1 == Right("lzx", 12, <<L1, L2, L3>>, LPlain, LFiles)
Lzx2 == Right("lzx", 12, <<L1, Bad(L2), L3>>, LPlain, LFiles)
\* 1 .. 6 | E8 20 1 2 2 2 | 5 6
J1 == Block(<<I("intel", 30, 0, 0), I("block", 1, 6, 0), Lit(1), Lit(2), Lit(3), Lit(4), Lit(5), I("lit", 6, 0, 1)>>, 6)
J2 == Block(<<I("block", 2, 6, 1), Lit(99), Lit(20), Match(10, 2), Match(2, 2)>>, 6)
J3 == Block(<<I("block", 1, 2, 1), Match(2, 2)>>, 2)
JPlain == <<1, 2, 3, 4, 5, 6, 99, 14, 1, 2, 2, 2, 5, 6>>
Lzx3 == Right("lzx", 12, <<J1, J2, J3>>, JPlain, {<<0, 6>>, <<3, 5>>, <<8, 4>>, <<12, 2>>})
\* addresses before the file, a repeated second distance
Lzx4 == Right("lzx", 12,
  <<Block(<<I("intel", 30, 0, 0), I("block", 1, 6, 1), Lit(1), Lit(99), Lit(-1), Match(4, 2), Lit(2)>>, 6),
    Block(<<I("block", 1, 4, 1), Match(1, 2), Lit(99), Lit(40)>>, 4)>>,
  <<1, 99, 29, 99, 29, 2, 2, 2, 99, 40>>, {<<0, 3>>, <<1, 7>>, <<6, 4>>})

Broken2(items) == Broken("lzx", 12, items, <<>>, {<<0, 3>>, <<1, 2>>})
LzxBroken == {<<Broken2(<<I("intel", 0, 0, 0), I("block", 1, n, 0), Lit(1), m>>)>> :
                 n \in {6, 12}, m \in {Match(3, 9), Match(3, 12), Match(5, 2), Match(30, 2)}}
               \cup {<<Broken2(<<I("intel", 0, 0, 0), I("block", 0, 6, 0)>>)>>}

\* 1 2 3 1 2 3 | 1 2 3 1 4 5 | 4 5
Q1 == Block(<<Item("header"), Lit(1), Lit(2), Lit(3), Match(3, 3), Item("nul")>>, 6)
Q2 == Block(<<Item("header"), Match(6, 4), Lit(4), Lit(5)>>, 6)
Q3 == Block(<<Item("header"), Match(2, 2)>>, 2)
QPlain == <<1, 2, 3, 1, 2, 3, 1, 2, 3, 1, 4, 5, 4, 5>>
QFiles == {<<0, 4>>, <<3, 2>>, <<5, 7>>, <<11, 3>>, <<0, 14>>}
Qtm1 == Right("quantum", 12, <<Q1, Q2, Q3>>, QPlain, QFiles)
Qtm2 == Right("quantum", 12, <<Q1, Bad(Q2), Q3>>, QPlain, QFiles)
\* 1 2 1 2 1 4 | 1 4 5, the first match over the end of the window
Qtm3 == Right("quantum", 4,
  <<Block(<<Item("header"), Lit(1), Lit(2), Match(2, 3), Lit(4), Item("nul"), Item("nul")>>, 6),
    Block(<<Item("header"), Match(2, 2), Lit(5)>>, 3)>>,
  <<1, 2, 1, 2, 1, 4, 1, 4, 5>>, {<<0, 3>>, <<0, 4>>, <<2, 3>>, <<5, 2>>, <<5, 4>>, <<8, 1>>})
QtmBroken == {<<Broken("quantum", 4, <<Item("header"), Lit(1), m, Lit(2)>>, <<1>>, {<<0, 1>>, <<0, 3>>, <<2, 1>>})>> :
                 m \in {Match(9, 2), Match(1, 6), Item("nul")}}
               \cup {<<Broken("quantum", 12, <<Item("header"), Lit(1), Match(1, 6)>>, <<1>>, {<<0, 1>>, <<0, 3>>})>>}

Merge  == [method |-> "none", window |-> 0, merge_prev |-> TRUE, blocks |-> <<N1>>, plain |-> Ten,
           files |-> {<<0, 3>>}, sound |-> TRUE]
Other  == Broken("other", 0, <<Item("nul")>>, <<>>, {<<0, 1>>})

MCArchives ==
  {<<f>> : f \in {None1, None2, None3, Mszip1, Mszip2, Mszip3, Mszip4, Mszip5, Mszip6,
                  Lzx1, Lzx2, Lzx3, Lzx4, Qtm1, Qtm2, Qtm3}}
    \cup LzxBroken \cup QtmBroken
    \cup {<<Mszip3, Lzx4, Merge, Other>>}
=============================================================================
