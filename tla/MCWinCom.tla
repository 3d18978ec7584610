------------------------------ MODULE MCWinCom ------------------------------
(***************************************************************************)
(* WinCom with the addresses of patch.c, over programs with any of the     *)
(* places free, that start at the addresses of Starts: that of a real      *)
(* win.com, one behind every place, and the lowest and the highest.        *)
(***************************************************************************)
EXTENDS WinCom

MCAddrs == <<17408, 17664, 17920, 8192, 2048>>
Starts  == {4211, 18200, 262, 65535}
InCode  == [what |-> "code", rev |-> 0, jmp |-> 0]
MCOriginals == [jmp : {s - 259 : s \in Starts}, block : [1 .. 5 -> {Zero, InCode}]]
=============================================================================
