------------------------------- MODULE Folder -------------------------------
(***************************************************************************)
(* Extraction of the files of a cabinet's folders (libmspack:              *)
(* mspack/cabd.c): the decompressor kept from one request to the next, the *)
(* data blocks behind its input buffer, and what the methods of            *)
(* compression have in common.                                             *)
(*                                                                         *)
(* What a method reads at once (a code, a byte, a header) is one item      *)
(* [k, a, b, c]; buffers are counted in items, files in cells.             *)
(***************************************************************************)
EXTENDS Integers, Sequences, FiniteSets, SequencesExt

CONSTANTS
  Archives,  \* sequences of folders
  BufSizes,  \* sizes of the input buffer, buf_size
  FRAME,     \* CAB_BLOCKMAX and the frame of every method, all 32768
  MaxCalls,  \* bound: requests
  Junk,      \* memory never written
  None

VARIABLES
  folders,   \* what is in the archive
  buf_size,
  d,         \* the request kept: [folder, offset]; 0 is no folder
  in,        \* the way of the input: blocks, buffers, read_error
  z,         \* d->state, of the method of the folder
  pc, phase, \* phase: NULL outfh ("skip") or the file ("file")
  req,       \* the file asked for, [folder, offset, length]
  todo,      \* out_bytes
  out,       \* what is in the output file
  result,    \* of the last request
  calls      \* ghost: how many requests there were

vars == <<folders, buf_size, d, in, z, pc, phase, req, todo, out, result, calls>>

fol    == folders[d.folder]
method == fol.method

\* The shorter of two lengths, the start of a sequence and the rest of it.
Less(m, n)    == IF m < n THEN m ELSE n
First(s, n)   == SubSeq(s, 1, n)
Behind(s, n)  == SubSeq(s, n + 1, Len(s))

--------------------------------------------------------------------------
(* Input                                                                   *)

NoInput == [block |-> 0, rest |-> <<>>, buf |-> <<>>, length |-> 0, outlen |-> 0,
            error |-> "ok", failed |-> FALSE]

Item(k) == [k |-> k, a |-> 0, b |-> 0, c |-> 0]

\* Mutant: the last block is taken for it one block too late.
NextBlock_Late(i) ==
  LET b    == fol.blocks[i.block + 1]
      size == i.outlen + b.size
  IN  IF b.bad # "" THEN [i EXCEPT !.block = @ + 1, !.error = b.bad, !.failed = TRUE]
      ELSE [i EXCEPT !.block = @ + 1, !.error = "ok", !.outlen = size,
                     !.rest = b.items \o (IF method = "quantum" THEN <<Item("trailer")>> ELSE <<>>),
                     !.length = IF method = "lzx" /\ i.block >= Len(fol.blocks) THEN size ELSE @]
\* A new block of the folder, whole, or in no part.  The last one tells LZX
\* how long the output is, and Quantum finds its place by a trailer.
NextBlock(i) ==
  LET b    == fol.blocks[i.block + 1]
      size == i.outlen + b.size
  IN  IF b.bad # "" THEN [i EXCEPT !.block = @ + 1, !.error = b.bad, !.failed = TRUE]
      ELSE [i EXCEPT !.block = @ + 1, !.error = "ok", !.outlen = size,
                     !.rest = b.items \o (IF method = "quantum" THEN <<Item("trailer")>> ELSE <<>>),
                     !.length = IF method = "lzx" /\ i.block + 1 >= Len(fol.blocks) THEN size ELSE @]

\* cabd_sys_read: n items, fewer when the blocks run out, and a failure when
\* one of the blocks is bad, whatever was read before it.
RECURSIVE SysRead(_, _)
SysRead(i, n) ==
  LET some == Less(n, Len(i.rest)) IN
  IF n = 0 \/ i.failed THEN i
  ELSE IF some > 0
       THEN SysRead([i EXCEPT !.buf = @ \o First(i.rest, some), !.rest = Behind(@, some)], n - some)
  ELSE IF i.block >= Len(fol.blocks) THEN [i EXCEPT !.block = Len(fol.blocks) + 1, !.error = "dataformat"]
  ELSE SysRead(NextBlock(i), n)

\* READ_IF_NEEDED, by which a method looks one item ahead.  At the end of the
\* input that is no error, for two bytes are made up.
Look(i) == IF i.buf # <<>> THEN i ELSE SysRead(i, buf_size)

\* Mutant: bytes are made up as often as they are asked for.
Take_Fake(i) ==
  LET l == Look(i)
  IN  IF l.failed THEN [in |-> l, it |-> Item("none")]
      ELSE IF l.buf = <<>> THEN [in |-> l, it |-> Item("nul")]
      ELSE [in |-> [l EXCEPT !.buf = Tail(@)], it |-> Head(l.buf)]
\* The next item with the input behind it; what is made up is none.
Take(i) ==
  LET l == Look(i)
  IN  IF l.failed \/ l.buf = <<>> THEN [in |-> [l EXCEPT !.failed = TRUE], it |-> Item("none")]
      ELSE [in |-> [l EXCEPT !.buf = Tail(@)], it |-> Head(l.buf)]

--------------------------------------------------------------------------
(* Output, and what the methods share                                      *)

Window(size) == [i \in 0 .. size - 1 |-> Junk]
Cells(w, from, n) == [i \in 1 .. n |-> w[from + i - 1]]

\* n cells of the window, at most all of it, from dist before the place they
\* go to, one by one and round its end: a match may repeat what it writes.
Matched(w, to, dist, n) ==
  LET size == Cardinality(DOMAIN w)
      i(p) == (p - to) % size
  IN  [p \in DOMAIN w |-> IF i(p) < n THEN w[(to - dist + (i(p) % dist)) % size] ELSE w[p]]

\* cabd_sys_write.
Write(cells) ==
  /\ d' = [d EXCEPT !.offset = @ + Len(cells)]
  /\ out' = IF phase = "file" THEN out \o cells ELSE out

\* The method is done: after the files before it the file, and then the
\* request is answered.
Return(e) ==
  LET error == IF e = "read" THEN in'.error ELSE e
  IN  IF phase = "skip" /\ error = "ok"
      THEN pc' = "call" /\ phase' = "file" /\ todo' = req.length /\ UNCHANGED result
      ELSE pc' = "ready" /\ phase' = phase /\ todo' = 0 /\ result' = error

\* The method gives up, for this request and for all others before the next
\* reset.
GiveUp(e) ==
  /\ z' = [z EXCEPT !.error = e]
  /\ Return(e)
  /\ UNCHANGED <<d, out>>

\* The method goes on at another place with nothing written.
GoOn(p) == pc' = p /\ UNCHANGED <<d, out, phase, todo, result>>

Same == UNCHANGED <<folders, buf_size, req, calls>>

\* One item is read and handled, or the input ends.
Reading(Handle(_)) ==
  LET t == Take(in)
  IN  /\ in' = t.in
      /\ IF t.in.failed THEN GiveUp("read") ELSE Handle(t.it)
      /\ Same

\* Every decompress function: an error stays, and what was decoded before and
\* not yet written goes first.
Call ==
  /\ pc = "call"
  /\ UNCHANGED in
  /\ LET some == First(z.pend, Less(Len(z.pend), todo))
     IN  IF z.error # "ok" THEN Return(z.error) /\ UNCHANGED <<z, d, out>>
         ELSE /\ Write(some)
              /\ z' = [z EXCEPT !.pend = Behind(@, Len(some)), !.offset = @ + Len(some)]
              /\ IF Len(some) = todo THEN Return("ok")
                 ELSE pc' = "start" /\ todo' = todo - Len(some) /\ UNCHANGED <<phase, result>>
  /\ Same

\* noned_decompress, which keeps no error.
Noned ==
  /\ pc = "start" /\ method = "none"
  /\ LET n == Less(todo, buf_size)
         r == SysRead(in, n)
     IN  /\ in' = [r EXCEPT !.buf = <<>>, !.failed = FALSE]
         /\ IF r.failed \/ Len(r.buf) < n THEN Return("read") /\ UNCHANGED <<d, out>>
            ELSE /\ Write([j \in 1 .. n |-> r.buf[j].a])
                 /\ IF n = todo THEN Return("ok")
                    ELSE todo' = todo - n /\ UNCHANGED <<pc, phase, result>>
  /\ UNCHANGED z
  /\ Same
=============================================================================
