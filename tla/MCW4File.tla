------------------------------- MODULE MCW4File -------------------------------
(***************************************************************************)
(* W4File with chunks of 16 bytes in segments of 8, the smallest where     *)
(* compression pays for a run and for a string that comes again and does   *)
(* not for bytes alone.                                                    *)
(***************************************************************************)
EXTENDS W4File

Same(n)  == [j \in 1 .. n |-> 0]
Mixed(n) == [j \in 1 .. n |-> IF j % 2 = 0 THEN 0 ELSE 229]

\* All blocks of a few bytes, and files of up to three chunks.  The stream
\* of Mixed(10) may be as large as a chunk, that of Mixed(12) larger.
MCFiles ==
  {<<b>> : b \in UNION {[1 .. n -> Byte] : n \in 1 .. 5}}
  \cup {<<b>> : b \in {Mixed(9), Mixed(10), Mixed(12), Same(16)}}
  \cup {<<Mixed(16), b>> : b \in {Mixed(10), Mixed(12), Same(3), Same(16)}}
  \cup {<<Same(16), Mixed(16)>>, <<Mixed(16), Mixed(16), Same(5)>>}

MCBlocks == UNION {Range(f) : f \in MCFiles}

MCStrays ==
  {Chr(0), Mark("break"), Mark("end"), Mark("bad")}
  \cup {Copy(d, n) : d \in {1, 3}, n \in {2, 16}}
===============================================================================
