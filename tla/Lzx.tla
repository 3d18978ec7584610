--------------------------------- MODULE Lzx --------------------------------
(***************************************************************************)
(* LZX (mspack/lzxd.c) as cabinets use it, without reset intervals and     *)
(* reference data: frames of a fixed size but the last, blocks that end    *)
(* anywhere, the three last distances kept, and the calls of x86 code      *)
(* turned back from absolute to relative addresses, frame by frame.        *)
(*                                                                         *)
(* Items: "intel" (a is the filesize, 0 for no translation); "block" (a is *)
(* 1, 2 or 3 for verbatim, aligned and uncompressed, b the length, c = 1   *)
(* if its codes have E8); "lit" (a), "match" (a < 3 is one of the last     *)
(* distances, else the distance is a - 2; b the length), c = 1: it ends    *)
(* with a word; "rs" (the last distances), "raw" (a) and "pad" are bytes.  *)
(***************************************************************************)
EXTENDS Folder

CONSTANTS
  E8,       \* the cell with the code of a call; its operand is the next cell
  E8Margin  \* how much of the end of a frame is left alone, 10

Uncompressed == 3

LzxInit(size) ==
  [error |-> "ok", pend |-> <<>>, window |-> Window(size), posn |-> 0, offset |-> 0,
   frame_posn |-> 0, frame |-> 0, end_frame |-> 0, frame_size |-> 0, bytes_todo |-> 0,
   this_run |-> 0, block_type |-> 0, block_length |-> 0, block_remaining |-> 0,
   R |-> <<1, 1, 1>>, header_read |-> FALSE, bits |-> FALSE,
   intel_filesize |-> 0, intel_curpos |-> 0, intel_started |-> FALSE]

\* One frame more than is wanted when what is wanted ends with one.
LzxStart ==
  /\ pc = "start" /\ method = "lzx"
  /\ z' = [z EXCEPT !.end_frame = ((z.offset + todo) \div FRAME) + 1]
  /\ GoOn("frame")
  /\ UNCHANGED in
  /\ Same

\* The size of a frame, which may be the last.
FrameSize(i) == IF i.length # 0 /\ i.length - z.offset < FRAME THEN i.length - z.offset ELSE FRAME

\* The header of the stream is read before the first frame.
LzxFrame ==
  LET new(i) == [z EXCEPT !.frame_size = FrameSize(i),
                          !.bytes_todo = z.frame_posn + FrameSize(i) - z.posn,
                          !.header_read = TRUE]
  IN  /\ pc = "frame"
      /\ IF z.frame >= z.end_frame
         THEN /\ UNCHANGED <<in, z, d, out>>
              /\ Return(IF todo > 0 THEN "decrunch" ELSE "ok")
              /\ Same
         ELSE IF z.header_read THEN z' = new(in) /\ GoOn("block") /\ UNCHANGED in /\ Same
         ELSE Reading(LAMBDA it : /\ z' = [new(in') EXCEPT !.intel_filesize = it.a]
                                  /\ GoOn("block"))

\* What is decoded next: the rest of the block, or of the frame.
Run(s) ==
  LET n == Less(s.block_remaining, s.bytes_todo)
  IN  [s EXCEPT !.this_run = n, !.bytes_todo = @ - n, !.block_remaining = @ - n]

\* A byte makes up for a block of odd length before the next one.
LzxPad ==
  /\ pc = "block" /\ z.bytes_todo > 0 /\ z.block_remaining = 0
  /\ z.block_type = Uncompressed /\ z.block_length % 2 = 1
  /\ Reading(LAMBDA it : z' = [z EXCEPT !.block_length = 0] /\ GoOn(pc))

LzxBlock ==
  /\ pc = "block" /\ z.bytes_todo > 0
  /\ ~(z.block_type = Uncompressed /\ z.block_length % 2 = 1 /\ z.block_remaining = 0)
  /\ IF z.block_remaining > 0 THEN z' = Run(z) /\ GoOn("code") /\ UNCHANGED in /\ Same
     ELSE Reading(LAMBDA it :
            IF it.k = "block" /\ it.a \in 1 .. 3
            THEN LET s == [z EXCEPT !.block_type = it.a, !.block_length = it.b, !.block_remaining = it.b,
                                    !.intel_started = z.intel_started \/ it.a = Uncompressed \/ it.c = 1,
                                    !.bits = TRUE]
                 IN  IF it.a = Uncompressed THEN z' = s /\ GoOn("rs")
                     ELSE z' = Run(s) /\ GoOn("code")
            ELSE GiveUp("decrunch"))

LzxDistances ==
  /\ pc = "rs"
  /\ Reading(LAMBDA it : /\ z' = Run([z EXCEPT !.R = <<it.a, it.b, it.c>>, !.bits = FALSE])
                         /\ GoOn("code"))

\* Mutant: the third distance is not moved when it is used again.
Used_Third(R, a) ==
  CASE a = 0 -> R
    [] a = 1 -> <<R[2], R[1], R[3]>>
    [] a = 2 -> <<R[3], R[2], R[2]>>
    [] OTHER -> <<a - 2, R[1], R[2]>>
\* The distances of which the first is the one of a match.
Used(R, a) ==
  CASE a = 0 -> R
    [] a = 1 -> <<R[2], R[1], R[3]>>
    [] a = 2 -> <<R[3], R[2], R[1]>>
    [] OTHER -> <<a - 2, R[1], R[2]>>

\* A match must not run over the end of the window, nor begin before the
\* output or farther away than the window is long.
BadMatch(s, dist, n) ==
  LET size == Cardinality(DOMAIN s.window)
  IN  \/ s.posn + n > size
      \/ dist > s.posn /\ (dist > s.offset \/ dist - s.posn > size)

LzxCode ==
  /\ pc = "code" /\ method = "lzx" /\ z.this_run > 0
  /\ Reading(LAMBDA it :
       LET R    == Used(z.R, it.a)
           cell == [z EXCEPT !.window[z.posn] = it.a, !.posn = @ + 1, !.this_run = @ - 1]
       IN  CASE it.k = "raw" /\ z.block_type = Uncompressed -> z' = cell /\ GoOn(pc)
             [] it.k = "lit" /\ z.block_type # Uncompressed ->
                  z' = [cell EXCEPT !.bits = it.c = 0] /\ GoOn(pc)
             [] it.k = "match" /\ z.block_type # Uncompressed ->
                  IF BadMatch(z, R[1], it.b) THEN GiveUp("decrunch")
                  ELSE /\ z' = [z EXCEPT !.window = Matched(@, z.posn, R[1], it.b), !.posn = @ + it.b,
                                         !.this_run = @ - it.b, !.R = R, !.bits = it.c = 0]
                       /\ GoOn(pc)
             [] OTHER -> GiveUp("decrunch"))

\* The last match may run on in the block, not beyond it.
LzxRunEnd ==
  /\ pc = "code" /\ method = "lzx" /\ z.this_run <= 0
  /\ UNCHANGED in
  /\ IF -z.this_run > z.block_remaining THEN GiveUp("decrunch")
     ELSE z' = [z EXCEPT !.block_remaining = @ + z.this_run] /\ GoOn("block")
  /\ Same

\* Frames end with a word: what is left of one is thrown away, and when not
\* a whole one is there, one more is read.
LzxFrameEnd ==
  /\ pc = "block" /\ z.bytes_todo <= 0
  /\ in' = IF z.bits /\ z.posn - z.frame_posn = z.frame_size THEN Look(in) ELSE in
  /\ IF z.posn - z.frame_posn # z.frame_size THEN GiveUp("decrunch")
     ELSE IF in'.failed THEN GiveUp("read")
     ELSE IF z.pend # <<>> THEN GiveUp("decrunch")
     ELSE UNCHANGED z /\ GoOn("frameend")
  /\ Same

\* The operands of the calls in a frame that begins at curpos, from cell p.
RECURSIVE Translated(_, _, _)
Translated(cells, p, curpos) ==
  IF p > Len(cells) - E8Margin THEN cells
  ELSE IF cells[p] # E8 THEN Translated(cells, p + 1, curpos + 1)
  ELSE LET abs == cells[p + 1]
           rel == IF abs >= 0 THEN abs - curpos ELSE abs + z.intel_filesize
       IN  Translated(IF -curpos <= abs /\ abs < z.intel_filesize THEN [cells EXCEPT ![p + 1] = rel] ELSE cells,
                      p + 2, curpos + 2)

\* Mutant: the position moves on only with frames that are translated.
Intel_Started(s) ==
  IF s.intel_started /\ s.intel_filesize # 0 /\ s.frame_size > E8Margin
  THEN [s EXCEPT !.pend = Translated(Cells(s.window, s.frame_posn, s.frame_size), 1, s.intel_curpos),
                 !.intel_curpos = @ + s.frame_size]
  ELSE [s EXCEPT !.pend = Cells(s.window, s.frame_posn, s.frame_size)]
\* The frame to be written, translated outside the window.
Intel(s) ==
  LET frame == Cells(s.window, s.frame_posn, s.frame_size)
  IN  [s EXCEPT !.pend = IF s.intel_started /\ s.intel_filesize # 0 /\ s.frame_size > E8Margin
                         THEN Translated(frame, 1, s.intel_curpos) ELSE frame,
                !.intel_curpos = IF s.intel_filesize # 0 THEN @ + s.frame_size ELSE @]

LzxFrameOut ==
  LET size == Cardinality(DOMAIN z.window)
      s    == Intel(z)
      some == First(s.pend, Less(todo, z.frame_size))
      next == z.frame_posn + z.frame_size
  IN  /\ pc = "frameend" /\ method = "lzx"
      /\ Write(some)
      /\ z' = [s EXCEPT !.pend = Behind(@, Len(some)), !.offset = @ + Len(some), !.frame = @ + 1,
                        !.posn = IF @ = size THEN 0 ELSE @,
                        !.frame_posn = IF next = size THEN 0 ELSE next]
      /\ todo' = todo - Len(some)
      /\ pc' = "frame"
      /\ UNCHANGED <<in, phase, result>>
      /\ Same

LzxNext ==
  \/ LzxStart \/ LzxFrame \/ LzxPad \/ LzxBlock \/ LzxDistances
  \/ LzxCode \/ LzxRunEnd \/ LzxFrameEnd \/ LzxFrameOut
=============================================================================
