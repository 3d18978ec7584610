-------------------------------- MODULE Mszip -------------------------------
(***************************************************************************)
(* MSZIP (mspack/mszipd.c): a frame is found by its mark and inflated into *)
(* a window that is as long as a frame and keeps what the frames before    *)
(* left there.  The tables of codes are taken for right, repair_mode is    *)
(* off as in this program.                                                 *)
(*                                                                         *)
(* Items: C and K; "codes" and "stored" begin a block, b is the length of  *)
(* a stored one and c says if it is the last; "lit" (a), "match" (a is the *)
(* distance, b the length), "eob" (c = 1: it ends with a byte), "raw" (a). *)
(***************************************************************************)
EXTENDS Folder

MszipInit(size) ==
  [error |-> "ok", pend |-> <<>>, offset |-> 0, window |-> Window(FRAME), posn |-> 0,
   bytes_output |-> 0, state |-> 0, last |-> FALSE, length |-> 0]

\* mszipd_decompress: as long as something is wanted, the next mark.
MszipStart ==
  /\ pc = "start" /\ method = "mszip"
  /\ z' = [z EXCEPT !.state = 0]
  /\ GoOn("mark")
  /\ UNCHANGED in
  /\ Same

MszipMark ==
  /\ pc = "mark"
  /\ Reading(LAMBDA it :
       LET s == CASE it.k = "C" -> 1
                  [] it.k = "K" /\ z.state = 1 -> 2
                  [] OTHER -> 0
       IN  /\ z' = [z EXCEPT !.state = s, !.posn = 0, !.bytes_output = 0]
           /\ GoOn(IF s = 2 THEN "inflate" ELSE "mark"))

MszipBlock ==
  /\ pc = "inflate"
  /\ Reading(LAMBDA it :
       IF it.k \in {"codes", "stored"}
       THEN z' = [z EXCEPT !.last = it.c = 1, !.length = it.b] /\ GoOn(it.k)
       ELSE GiveUp("decrunch"))

\* The window behind n cells more: FLUSH_IF_NEEDED and mszipd_flush_window,
\* by which a frame is never more than a window.
Moved(s, n) ==
  LET end   == s.posn + n
      total == s.bytes_output + (end \div FRAME) * FRAME
  IN  [s EXCEPT !.posn = end % FRAME, !.bytes_output = total,
                !.error = IF total > FRAME THEN "decrunch" ELSE "ok"]
Put(s, cell)         == Moved([s EXCEPT !.window[s.posn] = cell], 1)
Inflated(s, dist, n) == Moved([s EXCEPT !.window = Matched(@, s.posn, dist, n)], n)

\* Where one step of inflate leaves the window, the call goes on or is over.
Inflate(s, p) ==
  IF s.error = "ok" THEN z' = s /\ GoOn(p) ELSE GiveUp(s.error)

MszipCode ==
  /\ pc = "codes"
  /\ Reading(LAMBDA it :
       CASE it.k = "lit"   -> Inflate(Put(z, it.a), pc)
         [] it.k = "match" -> Inflate(Inflated(z, it.a, it.b), pc)
         [] it.k = "eob"   -> z' = [z EXCEPT !.length = it.c] /\ GoOn("eob")
         [] OTHER          -> GiveUp("decrunch"))

\* The code for the end of the block was looked for in 16 bits, of which it
\* may have needed few.
MszipEob ==
  /\ pc = "eob"
  /\ in' = IF z.length = 1 THEN in ELSE Look(in)
  /\ IF in'.failed THEN GiveUp("read") ELSE UNCHANGED z /\ GoOn("blockend")
  /\ Same

MszipStored ==
  /\ pc = "stored"
  /\ IF z.length = 0 THEN UNCHANGED <<in, z>> /\ GoOn("blockend") /\ Same
     ELSE Reading(LAMBDA it : Inflate([Put(z, it.a) EXCEPT !.length = z.length - 1], pc))

\* Behind the last block of a frame the frame is written, as far as it is
\* wanted.
MszipBlockEnd ==
  LET total == z.bytes_output + z.posn
      some  == Cells(z.window, 0, Less(todo, total))
      rest  == Behind(Cells(z.window, 0, total), Len(some))
  IN  /\ pc = "blockend"
      /\ UNCHANGED in
      /\ IF ~z.last THEN UNCHANGED z /\ GoOn("inflate")
         ELSE IF total > FRAME THEN GiveUp("decrunch")
         ELSE /\ z' = [z EXCEPT !.bytes_output = total, !.pend = rest]
              /\ Write(some)
              /\ IF Len(some) = todo THEN Return("ok")
                 ELSE pc' = "start" /\ todo' = todo - Len(some) /\ UNCHANGED <<phase, result>>
      /\ Same

MszipNext == MszipStart \/ MszipMark \/ MszipBlock \/ MszipCode \/ MszipEob \/ MszipStored \/ MszipBlockEnd
=============================================================================
