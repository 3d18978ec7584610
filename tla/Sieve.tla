------------------------------- MODULE Sieve -------------------------------
(***************************************************************************)
(* How a cpatch is made, found and written.  makepatch (vmm/makepatch.c)   *)
(* compares four images of one routine: as assembled from the original     *)
(* source, the same at another address, as assembled from the new source,  *)
(* and as dumped from the driver (the assembler of Microsoft chose other   *)
(* encodings).  From them come the bytes that must be there and the bytes  *)
(* that are written.  patch_selected (patch.c) seeks them through          *)
(* search_sieve_file (system/bpatcher.c), which reads the file a part at a *)
(* time and keeps the end of each part for a match that lies across, and   *)
(* searches the whole buffer however little was read.                      *)
(*                                                                         *)
(* Offsets are zero-based, as in C; a file is a sequence.                  *)
(***************************************************************************)
EXTENDS Integers, Sequences, FiniteSetsExt

CONSTANTS
  Images,            \* what makepatch is given: records of four images
  patch_ofset,       \* the part of the image that is patched
  patch_size,
  Files,             \* the files the program is given
  BPATCHER_FILE_BUF, \* bytes of one part
  MaxRuns            \* bound: how many times the file is given to it

Byte == 0 .. 255

ASSUME SieveAssumption ==
  /\ patch_ofset \in Nat
  /\ patch_size \in Nat \ {0}
  /\ BPATCHER_FILE_BUF \in Nat
  /\ patch_size - 1 <= BPATCHER_FILE_BUF
  /\ MaxRuns \in Nat
  /\ Files \subseteq Seq(Byte)
  /\ \A m \in Images : /\ DOMAIN m = {"original", "relocated", "patched", "dumped"}
                       /\ \A k \in DOMAIN m : /\ m[k] \in Seq(Byte)
                                              /\ Len(m[k]) = Len(m.original)
                                              /\ Len(m[k]) >= patch_ofset + patch_size

VARIABLES
  cp,        \* the cpatch makepatch wrote
  made,      \* history: the images it is made from
  file,      \* fp
  copy,      \* dstfile, the file itself until there is one
  reverse,   \* PATCH_REVERSE is selected
  dry,       \* dry_run
  pc,        \* "make", "unbuilt", "idle", "search", "hit" or "done"
  sought,    \* the data searched for: "orig" or "patch"
  at,        \* start_pos: where the search began
  offset,    \* bytes read since
  buf,       \* buf
  eof,       \* feof(fp)
  hit,       \* pos
  applied, exists, status,
  runs,      \* calls so far
  first      \* history: the file before the first call, and what the calls were

search == <<at, offset, buf, eof>>
call   == <<file, reverse, dry, runs, first>>
vars   == <<cp, made, copy, call, search, pc, sought, hit, applied, exists, status>>

Window == 0 .. patch_size - 1

-----------------------------------------------------------------------------
(* vmm/makepatch.c *)

diff_sieve(a, b) == {k \in 0 .. Len(a) - 1 : a[k + 1] # b[k + 1]}

\* A set of places cut to the part that is patched, counted from its start.
Cut(places) == {k \in Window : patch_ofset + k \in places}
Part(image) == [k \in Window |-> image[patch_ofset + k + 1]]

Clash_Never(m) == FALSE
\* The code must not change where an address stands.
Clash(m) == diff_sieve(m.original, m.patched) \cap diff_sieve(m.original, m.relocated) # {}

CheckBits_Addresses(m) == Window \ Cut(diff_sieve(m.original, m.dumped))
CheckBits(m) == Window \ Cut(diff_sieve(m.original, m.dumped) \cup diff_sieve(m.original, m.relocated))

MadeFrom(m) ==
  [orig  |-> Part(m.original),
   patch |-> Part(m.patched),
   check |-> CheckBits(m),
   modif |-> Cut(diff_sieve(m.original, m.patched))]

Init ==
  /\ cp = << >>
  /\ made \in Images
  /\ file \in Files
  /\ copy = file
  /\ reverse = FALSE
  /\ dry = FALSE
  /\ pc = "make"
  /\ sought = "orig"
  /\ at = 0 /\ offset = 0 /\ buf = << >> /\ eof = FALSE
  /\ hit = -1
  /\ applied = FALSE
  /\ exists = FALSE
  /\ status = "ok"
  /\ runs = 0
  /\ first = [file |-> file, calls |-> << >>]

\* The header is written in any case, but the build stops on the error.
MakePatch ==
  /\ pc = "make"
  /\ cp' = MadeFrom(made)
  /\ pc' = IF Clash(made) THEN "unbuilt" ELSE "idle"
  /\ UNCHANGED <<made, copy, call, search, sought, hit, applied, exists, status>>

-----------------------------------------------------------------------------
(* The search: system/bpatcher.c *)

\* -reverse swaps the data and keeps the sieves.
Data(k) == IF reverse THEN IF k = "orig" THEN cp.patch ELSE cp.orig ELSE cp[k]

buf_size == BPATCHER_FILE_BUF + patch_size - 1

MatchAt(hay, j, needle) == \A k \in cp.check : hay[j + k + 1] = needle[k]

search_sieve(hay, needle) == {j \in 0 .. Len(hay) - patch_size : MatchAt(hay, j, needle)}

\* search_sieve_file is entered with a new buffer of zeros.  feof stays set
\* after a read that met the end, until a seek or a new file.
SearchFrom(p, ended) ==
  /\ at' = p
  /\ offset' = 0
  /\ buf' = [k \in 1 .. buf_size |-> 0]
  /\ eof' = ended

Kept_Not == IF offset = 0 THEN << >> ELSE [k \in 1 .. patch_size - 1 |-> 0]
\* What is kept of the part before.
Kept == IF offset = 0 THEN << >> ELSE SubSeq(buf, BPATCHER_FILE_BUF + 1, buf_size)

\* The part the next read leaves in the buffer: short of a full read the rest
\* is as it was.
Filled(got) ==
  [k \in 1 .. buf_size |->
     IF k <= Len(Kept) THEN Kept[k]
     ELSE IF k <= Len(Kept) + got THEN file[at + offset + k - Len(Kept)]
     ELSE buf[k]]

\* The file position of the first byte of the buffer.
BufferAt == at + offset - Len(Kept)

ReadPart ==
  LET want == buf_size - Len(Kept)
      got  == Min({want, Max({0, Len(file) - at - offset})})
      hits == search_sieve(Filled(got), Data(sought))
  IN  /\ pc = "search"
      /\ ~eof
      /\ buf' = Filled(got)
      /\ eof' = (got < want)
      /\ \/ /\ got > 0
            /\ hits # {}
            /\ hit' = BufferAt + Min(hits)
            /\ pc' = "hit"
            /\ UNCHANGED offset
         \/ /\ got = 0 \/ hits = {}
            /\ offset' = offset + got
            /\ UNCHANGED <<hit, pc>>
      /\ UNCHANGED <<cp, made, copy, call, at, sought, applied, exists, status>>

-----------------------------------------------------------------------------
(* The patch: patch_selected *)

Start ==
  /\ pc = "idle"
  /\ runs < MaxRuns
  /\ reverse' \in BOOLEAN
  /\ dry' \in BOOLEAN
  /\ runs' = runs + 1
  /\ file' = copy
  /\ first' = [first EXCEPT !.calls = Append(@, [reverse |-> reverse', dry |-> dry'])]
  /\ pc' = "search"
  /\ sought' = "orig"
  /\ SearchFrom(0, FALSE)
  /\ hit' = -1
  /\ applied' = FALSE
  /\ exists' = FALSE
  /\ status' = "ok"
  /\ UNCHANGED <<cp, made, copy>>

\* patch_sieve on the bytes read at the place
Patched(k) == IF k \in cp.modif THEN Data("patch")[k] ELSE file[hit + k + 1]

PatchPlace ==
  /\ pc = "hit"
  /\ sought = "orig"
  /\ ~dry
  /\ hit + patch_size <= Len(file)
  /\ applied' = TRUE
  /\ copy' = [p \in DOMAIN copy |->
                IF p - 1 - hit \in Window THEN Patched(p - 1 - hit) ELSE copy[p]]
  /\ SearchFrom(hit + patch_size, FALSE)
  /\ pc' = "search"
  /\ UNCHANGED <<cp, made, call, sought, hit, exists, status>>

\* The place is not all in the file: nothing is written, and the search that
\* follows ends at once, feof being set.
ReadPlaceFails ==
  /\ pc = "hit"
  /\ sought = "orig"
  /\ ~dry
  /\ hit + patch_size > Len(file)
  /\ applied' = TRUE
  /\ status' = "read"
  /\ SearchFrom(Len(file), TRUE)
  /\ pc' = "search"
  /\ UNCHANGED <<cp, made, copy, call, sought, hit, exists>>

FoundDry ==
  /\ pc = "hit"
  /\ sought = "orig"
  /\ dry
  /\ applied' = TRUE
  /\ pc' = "done"
  /\ UNCHANGED <<cp, made, copy, call, search, sought, hit, exists, status>>

\* Not found once: is it there already?
SeekPatched ==
  /\ pc = "search"
  /\ eof
  /\ sought = "orig"
  /\ ~applied
  /\ sought' = "patch"
  /\ SearchFrom(0, FALSE)
  /\ UNCHANGED <<cp, made, copy, call, pc, hit, applied, exists, status>>

FoundPatched ==
  /\ pc = "hit"
  /\ sought = "patch"
  /\ exists' = TRUE
  /\ pc' = "done"
  /\ UNCHANGED <<cp, made, copy, call, search, sought, hit, applied, status>>

SearchEnds ==
  /\ pc = "search"
  /\ eof
  /\ applied \/ sought = "patch"
  /\ pc' = "done"
  /\ UNCHANGED <<cp, made, copy, call, search, sought, hit, applied, exists, status>>

\* The copy takes the place of the file: the program is started again.
Again ==
  /\ pc = "done"
  /\ pc' = "idle"
  /\ UNCHANGED <<cp, made, copy, call, search, sought, hit, applied, exists, status>>

Next ==
  \/ MakePatch
  \/ Start
  \/ ReadPart
  \/ PatchPlace
  \/ ReadPlaceFails
  \/ FoundDry
  \/ SeekPatched
  \/ FoundPatched
  \/ SearchEnds
  \/ Again

Spec == Init /\ [][Next]_vars

-----------------------------------------------------------------------------
(* What the search amounts to on a whole file *)

Places(f, needle) == search_sieve(f, needle)

\* The places taken one after the other, none over the one before.
Taken(f, needle) ==
  LET hits == Places(f, needle)
  IN  CHOOSE T \in SUBSET hits :
        \A p \in hits : p \in T <=> \A q \in T : q < p => q + patch_size <= p

\* The last search took what an earlier part left in the buffer for the end of
\* the file.
Stale == hit >= 0 /\ hit + patch_size > Len(file)

\* The file with the patch at some places.
PatchedAt(places) ==
  [q \in DOMAIN file |->
     IF \E p \in places : q - 1 - p \in cp.modif
     THEN Data("patch")[q - 1 - CHOOSE p \in places : q - 1 - p \in Window]
     ELSE file[q]]

Whole == PatchedAt(Taken(file, Data("orig")))

\* Reading the file a part at a time changes nothing: the places patched, and
\* the file after it, are those of a search through the whole of it, wherever
\* the parts meet; the report is right too, but for a match past the end.
PatchedAsWhole ==
  pc = "done" =>
    /\ copy = IF dry THEN file ELSE Whole
    /\ applied <=> Places(file, Data("orig")) # {} \/ (Stale /\ sought = "orig")
    /\ exists <=> ~applied /\ (Places(file, Data("patch")) # {} \/ Stale)
    /\ status = "read" => Stale

\* A routine with the bytes of the dump and whatever addresses has been found
\* and has its new code, and the addresses it had.
FindsMoved ==
  LET moved == diff_sieve(made.original, made.relocated)
      body(p) == \A k \in Window : patch_ofset + k \in moved \/ file[p + k + 1] = Part(made.dumped)[k]
  IN  pc = "done" /\ ~dry /\ ~reverse =>
        \A p \in 0 .. Len(file) - patch_size :
          body(p) /\ (\A q \in Places(file, Data("orig")) : q = p \/ q + patch_size <= p \/ p + patch_size <= q) =>
            /\ applied
            /\ \A k \in Window : copy[p + k + 1] =
                 IF Part(made.patched)[k] # Part(made.original)[k] THEN Part(made.patched)[k] ELSE file[p + k + 1]

\* Patched and then reversed, a file is what it was, provided no other place
\* came to read as patched, and but for bytes changed where the driver never was
\* as assembled: there the assembled byte is put.
MadeReverts ==
  LET taken == Taken(first.file, cp.orig)
      lost  == cp.modif \cap Cut(diff_sieve(made.original, made.dumped))
  IN  pc = "done" /\ first.calls = <<[reverse |-> FALSE, dry |-> FALSE], [reverse |-> TRUE, dry |-> FALSE]>>
        /\ Places(file, cp.patch) = taken =>
          \A q \in DOMAIN copy : copy[q] = first.file[q] \/ \E p \in taken : q - 1 - p \in lost

\* Any patch makepatch does not refuse finds its routine wherever it was put and
\* can be taken out again; only bytes that also differ between the dump and the
\* assembled original are lost, which makepatch does not look for.
MadeRight == FindsMoved /\ MadeReverts
=============================================================================
