------------------------------- MODULE DsTokens -------------------------------
(***************************************************************************)
(* The tokens of a DoubleSpace stream:                                     *)
(*   chr   one byte,                                                       *)
(*   copy  len bytes again, which stand dist bytes before,                 *)
(*   break the end of a sector, end the end of the block,                  *)
(*   bad   a copy whose length ds_count refuses.                           *)
(* len is the number of bytes a token stands for.                          *)
(***************************************************************************)
Chr(c)     == [kind |-> "chr", byte |-> c, dist |-> 0, len |-> 1]
Copy(d, n) == [kind |-> "copy", byte |-> 0, dist |-> d, len |-> n]
Mark(kind) == [kind |-> kind, byte |-> 0, dist |-> 0, len |-> 0]
==============================================================================
