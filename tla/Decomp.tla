------------------------------- MODULE Decomp -------------------------------
(***************************************************************************)
(* cabd_extract over all methods of compression: files of the folders of   *)
(* an archive are asked for in any order, and the decompressor of the      *)
(* request before goes on where it can (mspack/cabd.c).                    *)
(*                                                                         *)
(* A folder is [method, window, merge_prev, blocks, files, plain, sound]:  *)
(* plain is what was packed, as far as the blocks are right when they      *)
(* are undamaged, and sound says that they are right to the end.           *)
(***************************************************************************)
EXTENDS Mszip, Lzx, Quantum

ASSUME DecompAssumption ==
  /\ FRAME \in Nat \ {0} /\ BufSizes \subseteq Nat \ {0} /\ MaxCalls \in Nat /\ E8Margin \in Nat \ {0}
  /\ \A a \in Archives : \A i \in DOMAIN a :
        LET f == a[i]
        IN  /\ f.sound => \A j \in DOMAIN f.blocks : j < Len(f.blocks) => f.blocks[j].size = FRAME
            /\ f.method = "lzx" => f.window % FRAME = 0

NoFile == [folder |-> 0, offset |-> 0, length |-> 0]

DecompInit ==
  /\ folders \in Archives
  /\ buf_size \in BufSizes
  /\ d = [folder |-> 0, offset |-> 0]
  /\ in = NoInput
  /\ z = None
  /\ pc = "ready" /\ phase = "file"
  /\ req = NoFile
  /\ todo = 0 /\ calls = 0
  /\ out = <<>>
  /\ result = None

\* cabd_init_decomp.
InitOf(f) ==
  CASE f.method = "mszip"   -> MszipInit(f.window)
    [] f.method = "lzx"     -> LzxInit(f.window)
    [] f.method = "quantum" -> QtmInit(f.window)
    [] f.method = "none"    -> [error |-> "ok", pend |-> <<>>, offset |-> 0]

\* Why a file cannot be extracted at all.
Refused(f, o, n) ==
  CASE f.merge_prev                     -> "noprev"
    [] ~f.merge_prev /\ o + n > Len(f.blocks) * FRAME -> "decrunch"
    [] OTHER                            -> "ok"

\* Mutant: the decompressor goes on although it is behind the file.
Fresh_Behind(k, o) == d.folder # k
\* The folder is decoded from its start, unless the place of the file is
\* still ahead.
Fresh(k, o) == d.folder # k \/ d.offset > o

Refuse(e) == result' = e /\ UNCHANGED <<in, z, pc, phase, todo>>

Extract(k, o, n) ==
  /\ pc = "ready" /\ calls < MaxCalls
  /\ req' = [folder |-> k, offset |-> o, length |-> n]
  /\ calls' = calls + 1
  /\ out' = <<>>
  /\ IF Refused(folders[k], o, n) # "ok" THEN Refuse(Refused(folders[k], o, n)) /\ UNCHANGED d
     ELSE IF Fresh(k, o) /\ folders[k].method = "other"
          THEN Refuse("dataformat") /\ d' = [d EXCEPT !.folder = 0]
     ELSE /\ IF Fresh(k, o) THEN d' = [folder |-> k, offset |-> 0] /\ in' = NoInput /\ z' = InitOf(folders[k])
             ELSE UNCHANGED <<d, in, z>>
          /\ IF n = 0 THEN result' = "ok" /\ UNCHANGED <<pc, phase, todo>>
             ELSE /\ pc' = "call"
                  /\ phase' = IF o > d'.offset THEN "skip" ELSE "file"
                  /\ todo' = IF o > d'.offset THEN o - d'.offset ELSE n
                  /\ result' = None
  /\ UNCHANGED <<folders, buf_size>>

DecompNext ==
  \/ \E k \in DOMAIN folders : \E f \in folders[k].files : Extract(k, f[1], f[2])
  \/ Call \/ Noned \/ MszipNext \/ LzxNext \/ QtmNext

Spec == DecompInit /\ [][DecompNext]_vars /\ WF_vars(DecompNext)

--------------------------------------------------------------------------
(* Properties                                                              *)

Asked    == folders[req.folder]
\* The file that was asked for, as far as it is there.
Wanted   == LET rest == Behind(Asked.plain, req.offset) IN First(rest, Less(req.length, Len(rest)))
Answered == pc = "ready" /\ calls > 0

\* noned_decompress goes on behind a block it could not read as if the cells
\* of that block had not been there.
PassedBad ==
  /\ Asked.method = "none"
  /\ \E j \in DOMAIN Asked.blocks : j <= in.block /\ Asked.blocks[j].bad # ""

\* What an extraction writes is the file, from its first cell on, and it is
\* all of it when the answer is OK: whatever was asked for before, however
\* the blocks and the input buffer cut the codes, and whether blocks are bad
\* (mspack/cabd.c: cabd_extract with mspack/mszipd.c, lzxd.c, qtmd.c).
FileExact ==
  calls > 0 /\ ~PassedBad =>
    /\ IsPrefix(out, Wanted)
    /\ pc = "ready" /\ result = "ok" => Len(out) = req.length

\* The last frame of LZX was begun before its size was known (lzxd.c: the
\* length comes with the last block, which nothing had to look at).
LateLength == Asked.method = "lzx" /\ in.length > 0 /\ z.frame_size > in.length - z.frame * FRAME
\* Quantum gives up a match over the end of a window smaller than a frame
\* when less is wanted than must be written (qtmd.c: "this should not happen").
WrapTooSoon == Asked.method = "quantum" /\ Asked.window < FRAME /\ result = "decrunch"

\* Every file of a folder that is right can be extracted, in every order and
\* with every size of the input buffer, but for the two cases above.
ValidExtracts ==
  /\ Answered /\ Asked.sound /\ ~Asked.merge_prev
  /\ \A j \in DOMAIN Asked.blocks : Asked.blocks[j].bad = ""
  /\ req.offset + req.length <= Len(Asked.plain)
  => result = "ok" \/ LateLength \/ WrapTooSoon

\* Every request is answered: no search for a mark or a trailer goes on
\* behind the end of the input (readbits.h: input_end).
RequestsEnd == pc # "ready" ~> pc = "ready"
=============================================================================
