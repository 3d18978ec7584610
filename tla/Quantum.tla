------------------------------- MODULE Quantum ------------------------------
(***************************************************************************)
(* Quantum (mspack/qtmd.c): frames behind a header and before a trailer,   *)
(* in a window that may be smaller than a frame.  What is decoded stays in *)
(* the window until a request is complete or the window is full.           *)
(*                                                                         *)
(* Items: "header" (C), "lit" (a), "match" (a is the distance, b the       *)
(* length), "nul" and "trailer" at the end of a frame.                     *)
(***************************************************************************)
EXTENDS Folder

QtmInit(size) ==
  [error |-> "ok", pend |-> <<>>, offset |-> 0, window |-> Window(size), posn |-> 0,
   frame_todo |-> FRAME, frame_end |-> 0, header_read |-> FALSE]

QtmSize == Cardinality(DOMAIN z.window)

\* What is decoded now: what is wanted, to the end of the frame or of the
\* window.
FrameEnd == Less(Less(z.posn + todo - Len(z.pend), z.posn + z.frame_todo), QtmSize)

QtmStart ==
  /\ pc = "start" /\ method = "quantum"
  /\ IF Len(z.pend) >= todo THEN GoOn("out") /\ UNCHANGED <<in, z>> /\ Same
     ELSE IF z.header_read THEN z' = [z EXCEPT !.frame_end = FrameEnd] /\ GoOn("code") /\ UNCHANGED in /\ Same
     ELSE Reading(LAMBDA it : /\ z' = [z EXCEPT !.header_read = TRUE, !.frame_end = FrameEnd]
                              /\ GoOn("code"))

\* n cells of a match without the end of the window in their way.
QtmMatched(s, dist, n) ==
  LET w == Matched(s.window, s.posn, dist, n)
  IN  [s EXCEPT !.window = w, !.posn = @ + n, !.pend = @ \o Cells(w, s.posn, n)]

QtmCode ==
  /\ pc = "code" /\ method = "quantum" /\ z.posn < z.frame_end
  /\ Reading(LAMBDA it :
       LET left == QtmSize - z.posn
           s    == [z EXCEPT !.frame_todo = @ - IF it.k = "lit" THEN 1 ELSE it.b]
       IN  CASE it.k = "lit" ->
                  /\ z' = [s EXCEPT !.window[s.posn] = it.a, !.posn = @ + 1, !.pend = Append(@, it.a)]
                  /\ GoOn(pc)
             [] it.k = "match" /\ it.b <= left ->
                  IF it.a - z.posn > QtmSize THEN GiveUp("decrunch")
                  ELSE z' = QtmMatched(s, it.a, it.b) /\ GoOn(pc)
             [] it.k = "match" /\ it.b > left ->
                  \* a match over the end of the window: all before it is written
                  LET f == QtmMatched(s, it.a, left)
                      e == [f EXCEPT !.posn = 0, !.pend = <<>>]
                  IN  IF Len(f.pend) > todo THEN GiveUp("decrunch")
                      ELSE /\ Write(f.pend)
                           /\ todo' = todo - Len(f.pend)
                           /\ z' = QtmMatched(e, it.a, it.b - left)
                           /\ pc' = "frameend"
                           /\ UNCHANGED <<phase, result>>
             [] OTHER -> GiveUp("decrunch"))

QtmCodeEnd ==
  /\ pc = "code" /\ method = "quantum" /\ z.posn >= z.frame_end
  /\ UNCHANGED <<in, z>>
  /\ GoOn("frameend")
  /\ Same

\* A frame that is complete is left behind its trailer.
QtmFrameEnd ==
  /\ pc = "frameend" /\ method = "quantum"
  /\ IF z.frame_todo < 0 THEN GiveUp("decrunch") /\ UNCHANGED in /\ Same
     ELSE IF z.frame_todo > 0 THEN UNCHANGED <<in, z>> /\ GoOn("wrap") /\ Same
     ELSE Reading(LAMBDA it :
            IF it.k = "trailer"
            THEN z' = [z EXCEPT !.header_read = FALSE, !.frame_todo = FRAME] /\ GoOn("wrap")
            ELSE UNCHANGED z /\ GoOn(pc))

\* A full window is written and begun again, or left if that is enough.
QtmWrap ==
  /\ pc = "wrap"
  /\ UNCHANGED in
  /\ IF z.posn < QtmSize THEN UNCHANGED z /\ GoOn("start")
     ELSE IF Len(z.pend) >= todo THEN UNCHANGED z /\ GoOn("out")
     ELSE /\ Write(z.pend)
          /\ todo' = todo - Len(z.pend)
          /\ z' = [z EXCEPT !.pend = <<>>, !.posn = 0]
          /\ pc' = "start"
          /\ UNCHANGED <<phase, result>>
  /\ Same

QtmOut ==
  /\ pc = "out"
  /\ UNCHANGED in
  /\ Write(First(z.pend, todo))
  /\ z' = [z EXCEPT !.pend = Behind(@, todo)]
  /\ Return("ok")
  /\ Same

QtmNext == QtmStart \/ QtmCode \/ QtmCodeEnd \/ QtmFrameEnd \/ QtmWrap \/ QtmOut
=============================================================================
