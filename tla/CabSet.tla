------------------------------- MODULE CabSet -------------------------------
(***************************************************************************)
(* Unpacking one file from the CAB archives of a directory (unpacker.c:    *)
(* cab_search_unpack, cab_lookup_build, cab_unpack, cab_analyze) with the  *)
(* part of libmspack it rests on (mspack/cabd.c: open, prepend, append,    *)
(* extract and the reading of blocks).  An archive may be one of a set; a  *)
(* folder of compressed data, and a block of it, may go on in the next.    *)
(*                                                                         *)
(* What an archive holds is Archive[c].  A piece is what one archive has   *)
(* of a block; the last piece of a block tells its size.  Compressed data  *)
(* is not modelled: a block put together of the wrong pieces is Junk.      *)
(***************************************************************************)
EXTENDS Naturals, Sequences, SequencesExt, FiniteSetsExt

CONSTANTS
  Archive,  \* what there may be in the directory: name -> what is in it
  Wanted,   \* the names of files asked for
  BlockMax, \* CAB_BLOCKMAX
  Failures, \* whether memory may be short, or the output not be made
  None

Names    == DOMAIN Archive
Archives == UNION {Archive[n] : n \in Names}
Junk     == <<"junk">>

\* Archive[n] are the archives there may be under the name n: number (index)
\* in its set, names of its neighbours, folders (sequences of pieces), files,
\* and whether libmspack can open it.  A file is in a folder, and may go on
\* in the next archive, come from the one before, or both (join): then the
\* folder is the last one, the first one, or both, and the only one.
ASSUME CabAssumption ==
  /\ BlockMax \in Nat \ {0}
  /\ Failures \subseteq BOOLEAN
  /\ None \notin Names
  /\ \A n \in Names : \A a \in Archive[n] :
       /\ a.index \in Nat /\ a.readable \in BOOLEAN
       /\ a.folders \in Seq(Range(a.folders)) \ {<<>>}
       /\ a.files \in Seq(Range(a.files)) \ {<<>>}
       /\ \A j \in DOMAIN a.files :
            /\ a.files[j].join \in {"none", "next", "prev", "both"}
            /\ a.files[j].join = "none" => a.files[j].folder \in DOMAIN a.folders
            /\ a.files[j].join = "both" => Len(a.folders) = 1
       /\ \A j, k \in DOMAIN a.files : a.files[j].name = a.files[k].name => j = k

\* A file that goes on in the next archive, or comes from the one before.
Goes(f)  == f.join \in {"next", "both"}
Comes(f) == f.join \in {"prev", "both"}

\* q is the piece behind p: the next of its block, or the first of the next
\* block, and then that of p is full.
Behind(p, q) ==
  IF p.size = 0 THEN q.block = p.block /\ q.part = p.part + 1
  ELSE p.size = BlockMax /\ q.block = <<p.block[1], p.block[2] + 1>> /\ q.part = 1

Pieced(ps) ==
  /\ ps \in Seq(Range(ps)) \ {<<>>}
  /\ \A i \in DOMAIN ps : /\ ps[i].block = <<ps[i].block[1], ps[i].block[2]>>
                          /\ ps[i].block[2] \in Nat /\ ps[i].size \in 0 .. BlockMax
  /\ \A i \in 1 .. Len(ps) - 1 : Behind(ps[i], ps[i + 1])

\* How archives are made.  The pieces of a folder are in order, from the first
\* on unless a file of it comes from the archive before, and the files that go
\* on in the next archive are the last of the list.
ASSUME PiecesAssumption ==
  /\ None \notin Names \X Nat
  /\ \A n \in Names : \A a \in Archive[n] :
       /\ \A k \in DOMAIN a.folders :
            /\ Pieced(a.folders[k])
            /\ k # 1 \/ (\A j \in DOMAIN a.files : ~Comes(a.files[j]))
                 => a.folders[k][1].block[2] = 1 /\ a.folders[k][1].part = 1
       /\ \A j \in DOMAIN a.files : a.files[j].offset \in Nat /\ a.files[j].length \in Nat
       /\ \A i, j \in DOMAIN a.files : i <= j /\ Goes(a.files[i]) => Goes(a.files[j])

\* cabd_can_merge_folders knows the same folder by a file both archives list.
\* It is right about that: in archives of one set, b the one behind m, if a
\* file that goes on in m, or in a before it while m is of one folder only, is
\* listed in b, or in c behind it, then b has the piece behind those of m.
ASSUME SetsAssumption ==
  \A a, m, b, c \in Archives :
    /\ a.set = m.set /\ m.set = b.set /\ b.set = c.set
    /\ a = m \/ (a.index < m.index /\ Len(m.folders) = 1)
    /\ m.index + 1 = b.index
    /\ c = b \/ b.index < c.index
    /\ \E i \in DOMAIN m.files : Goes(m.files[i])
    /\ \E i \in DOMAIN b.files : Comes(b.files[i])
    /\ \E i \in DOMAIN a.files, j \in DOMAIN c.files :
         /\ Goes(a.files[i])
         /\ a.files[i].offset = c.files[j].offset /\ a.files[i].length = c.files[j].length
    => Behind(Last(Last(m.folders)), Head(Head(b.folders)))

--------------------------------------------------------------------------
VARIABLES
  dir,      \* name -> the archive of this name, or None
  wanted,   \* infilename
  short,    \* one of Failures
  mode,     \* "search": cab_search_unpack, "lookup": cab_lookup_build, then cab_unpack
  pc,
  left,     \* names fs_dir_read has yet to give
  scanned,  \* sclist: names, with or without the directory in front
  src,      \* srccab
  search,   \* the archive cab_analyze looks at
  prevlist, nextlist, \* the archives before and behind it, opened or not
  cab,      \* struct mscabd_cabinet of the archives open
  fold,     \* struct mscabd_folder_p of the folders there are
  at,       \* cabptr, the archive joined last
  item,     \* how many of the list have been joined
  out,      \* the file made: None, or what it holds
  cnt       \* 1 if the file was extracted

heap  == <<cab, fold>>
lists == <<prevlist, nextlist>>
vars  == <<dir, wanted, short, mode, pc, left, scanned, src, search, lists, heap, at, item, out, cnt>>

Here == {n \in Names : dir[n] # None}

--------------------------------------------------------------------------
(* cabd_open                                                               *)

\* A folder is named by its archive and its place there, and so is a file.
File(f) == dir[f[1]].files[f[2]]
FolderOf(f) ==
  <<f[1], CASE File(f).join = "none" -> File(f).folder
            [] File(f).join = "next" -> Len(dir[f[1]].folders)
            [] OTHER                 -> 1>>

\* The first file of n that joins its first folder to the archive before, or
\* its last one to the next.
FirstJoin(n, kinds) ==
  LET is == {i \in DOMAIN dir[n].files : dir[n].files[i].join \in kinds}
  IN  IF is = {} THEN None ELSE <<n, CHOOSE i \in is : \A j \in is : i <= j>>

Opened(n) ==
  [files   |-> [i \in DOMAIN dir[n].files |-> <<n, i>>],
   folders |-> [k \in DOMAIN dir[n].folders |-> <<n, k>>],
   prev    |-> None,
   next    |-> None]

OpenedFolder(n, k) ==
  [data |-> << <<n, k>> >>,
   num_blocks |-> Len(dir[n].folders[k]),
   merge_prev |-> IF k = 1 THEN FirstJoin(n, {"prev", "both"}) ELSE None,
   merge_next |-> IF k = Len(dir[n].folders) THEN FirstJoin(n, {"next", "both"}) ELSE None]

\* cabd->open, which gives nothing for an archive it cannot read.
Open(n) ==
  IF dir[n].readable
  THEN /\ cab' = [m \in DOMAIN cab \cup {n} |-> IF m = n THEN Opened(n) ELSE cab[m]]
       /\ fold' = [f \in DOMAIN fold \cup {<<n, k>> : k \in DOMAIN dir[n].folders} |->
                     IF f[1] = n THEN OpenedFolder(n, f[2]) ELSE fold[f]]
  ELSE UNCHANGED heap

--------------------------------------------------------------------------
(* cabd_merge                                                              *)

\* The archives met from n on along prevcab, and those along nextcab: what
\* every set has that has the neighbour of n and of its members.
Before(c, n) ==
  {m \in DOMAIN c :
     \A S \in SUBSET DOMAIN c :
       (\A k \in S \cup {n} : c[k].prev # None => c[k].prev \in S) => m \in S}
After(c, n) ==
  {m \in DOMAIN c :
     \A S \in SUBSET DOMAIN c :
       (\A k \in S \cup {n} : c[k].next # None => c[k].next \in S) => m \in S}

\* The files from f on, in the list of n.
From(n, f) == LET fs == cab[n].files IN {fs[i] : i \in {j \in DOMAIN fs : \E k \in 1 .. j : fs[k] = f}}

\* cabd_can_merge_folders: one file at least is listed in both.
CanMerge(l, lfol, r, rfol) ==
  /\ fold[lfol].merge_next # None /\ fold[rfol].merge_prev # None
  /\ \E f \in From(l, fold[lfol].merge_next), g \in From(r, fold[rfol].merge_prev) :
       File(f).offset = File(g).offset /\ File(f).length = File(g).length

\* Mutant: without the special case.
Merged_Next(lfol, rfol) ==
  [fold[lfol] EXCEPT !.data       = @ \o fold[rfol].data,
                     !.num_blocks = @ + fold[rfol].num_blocks - 1,
                     !.merge_next = fold[rfol].merge_next]
\* lfol with what rfol has.  The first file of rfol that goes on is about to
\* be freed if it is in rfol; then that of lfol is kept.
Merged(lfol, rfol) ==
  LET next == fold[rfol].merge_next
  IN  [fold[lfol] EXCEPT
         !.data       = @ \o fold[rfol].data,
         !.num_blocks = @ + fold[rfol].num_blocks - 1,
         !.merge_next = IF next = None \/ FolderOf(next) # rfol THEN next ELSE @]

\* The files of the list that are not in the folder fol: those are freed.
Kept(files, fol) ==
  LET kept[i \in 0 .. Len(files)] ==
        IF i = 0 THEN <<>>
        ELSE IF FolderOf(files[i]) = fol THEN kept[i - 1] ELSE Append(kept[i - 1], files[i])
  IN  kept[Len(files)]

\* The lists of files and folders become those of all archives joined.
Joined(l, r, files, folders) ==
  LET c == [cab EXCEPT ![l].next = r, ![r].prev = l]
  IN  [n \in DOMAIN c |->
         IF n \in {l, r} \cup Before(c, l) \cup After(c, r)
         THEN [c[n] EXCEPT !.files = files, !.folders = folders] ELSE c[n]]

Merge(l, r) ==
  LET lfol  == Last(cab[l].folders)
      rfol  == Head(cab[r].folders)
      files == cab[l].files \o cab[r].files
  IN  IF l = r \/ cab[l].next # None \/ cab[r].prev # None
         \/ r \in Before(cab, l) \/ l \in After(cab, r)
      THEN UNCHANGED heap
      ELSE IF fold[lfol].merge_next = None /\ fold[rfol].merge_prev = None
      THEN /\ cab' = Joined(l, r, files, cab[l].folders \o cab[r].folders)
           /\ UNCHANGED fold
      ELSE IF ~CanMerge(l, lfol, r, rfol)
      THEN UNCHANGED heap
      ELSE /\ cab' = Joined(l, r, Kept(files, rfol),
                            cab[l].folders \o Tail(cab[r].folders))
           /\ fold' = [f \in DOMAIN fold \ {rfol} |->
                         IF f = lfol THEN Merged(lfol, rfol) ELSE fold[f]]

--------------------------------------------------------------------------
(* cabd_extract                                                            *)

\* The pieces of a folder in the order cabd_sys_read_block reads them: the
\* next part of the data after a piece that is not the last of its block.
Pieces(data) ==
  LET part(i)   == dir[data[i][1]].folders[data[i][2]]
      goeson(i) == \A k \in 1 .. i - 1 : Last(part(k)).size = 0
      upto[i \in 0 .. Len(data)] ==
        IF i = 0 THEN <<>> ELSE IF goeson(i) THEN upto[i - 1] \o part(i) ELSE upto[i - 1]
  IN  upto[Len(data)]

\* Whether these are the pieces of one block, all of them in order.
Whole(ps) == \A i \in DOMAIN ps : ps[i].block = ps[1].block /\ ps[i].part = i

\* What decompression gives of these pieces, of at most blocks blocks: a
\* block ends with a piece that has its size, and a wrong checksum, or the
\* want of such a piece, ends the decompression.
Read(ps, blocks) ==
  LET ends(i)  == {k \in 1 .. i : ps[k].size # 0}
      first(i) == Max(ends(i - 1) \cup {0}) + 1
      readable(i) == (\A k \in 1 .. i : ~ps[k].bad) /\ Cardinality(ends(i)) <= blocks
      upto[i \in 0 .. Len(ps)] ==
        IF i = 0 THEN <<>>
        ELSE IF ps[i].size = 0 \/ ~readable(i) THEN upto[i - 1]
        ELSE upto[i - 1] \o [u \in 1 .. ps[i].size |->
                               IF Whole(SubSeq(ps, first(i), i)) THEN Append(ps[i].block, u) ELSE Junk]
  IN  upto[Len(ps)]

\* Mutant: a folder without its beginning is not noticed.
Refused_NoPrev(f) == File(f).offset + File(f).length > fold[FolderOf(f)].num_blocks * BlockMax
\* Refused before the output is opened: the folder goes back to an archive
\* not joined, or has too few blocks for this file.
Refused(f) ==
  LET fol == fold[FolderOf(f)]
  IN  \/ fol.merge_prev # None
      \/ File(f).offset + File(f).length > fol.num_blocks * BlockMax

\* The units of f, as far as they can be read.
Extracted(f) ==
  LET fol   == fold[FolderOf(f)]
      units == Read(Pieces(fol.data), fol.num_blocks)
  IN  SubSeq(units, File(f).offset + 1, Min({Len(units), File(f).offset + File(f).length}))

--------------------------------------------------------------------------
(* cab_analyze: the archive named as the neighbour, if it is there, of the *)
(* same set, and has the number next to this one.                          *)

IsPrev(n, p) == dir[n].index = dir[p].index + 1
\* Mutant: the number of the next archive is not looked at.
IsNext_Any(n, p) == TRUE
IsNext(n, p) == dir[n].index + 1 = dir[p].index

Prev(n) ==
  LET p == dir[n].prev
  IN  IF p \in Here /\ dir[p].set = dir[n].set /\ IsPrev(n, p) THEN p ELSE None
Next1(n) ==
  LET p == dir[n].next
  IN  IF p \in Here /\ dir[p].set = dir[n].set /\ IsNext(n, p) THEN p ELSE None

--------------------------------------------------------------------------
Empty == [x \in {} |-> x]

Init ==
  /\ dir \in {d \in [Names -> Archives \cup {None}] :
                \A n \in Names : d[n] \in Archive[n] \cup {None}}
  /\ wanted \in Wanted
  /\ short \in Failures
  /\ mode \in {"search", "lookup"}
  /\ pc = mode
  /\ left = Here
  /\ scanned = {}
  /\ src = None /\ search = None /\ at = None /\ item = 0
  /\ prevlist = <<>> /\ nextlist = <<>>
  /\ cab = Empty /\ fold = Empty
  /\ out = None /\ cnt = 0

\* cab_unpack begins.
Begin(n) ==
  /\ src' = n /\ search' = n
  /\ pc' = "prev"
  /\ prevlist' = <<>> /\ nextlist' = <<>>

\* cab_search_unpack: the next name of the directory, in the order the system
\* gives them.  Names of archives joined before are kept with their directory
\* and so never found again.
SearchNext ==
  /\ pc = "search"
  /\ \E n \in left :
       /\ left' = left \ {n}
       /\ IF <<n>> \in scanned
          THEN UNCHANGED <<scanned, src, search, lists, pc>>
          ELSE scanned' = scanned \cup {<<n>>} /\ Begin(n)
  /\ UNCHANGED <<dir, wanted, short, mode, heap, at, item, out, cnt>>

SearchEnd ==
  /\ pc = "search" /\ left = {}
  /\ pc' = "done"
  /\ UNCHANGED <<dir, wanted, short, mode, left, scanned, src, search, lists, heap, at, item, out, cnt>>

\* cab_lookup_build: the last archive that lists the file is kept.
Lists(n) == dir[n].readable /\ \E i \in DOMAIN dir[n].files : dir[n].files[i].name = wanted

LookupNext ==
  /\ pc = "lookup"
  /\ \E n \in left :
       /\ left' = left \ {n}
       /\ src' = IF Lists(n) THEN n ELSE src
  /\ UNCHANGED <<dir, wanted, short, mode, pc, scanned, search, lists, heap, at, item, out, cnt>>

LookupEnd ==
  /\ pc = "lookup" /\ left = {}
  /\ IF src = None
     THEN pc' = "done" /\ UNCHANGED <<src, search, lists>>
     ELSE Begin(src)
  /\ UNCHANGED <<dir, wanted, short, mode, left, scanned, heap, at, item, out, cnt>>

\* An archive found next to the one looked at is opened and put in the list;
\* without memory for that it is passed over.
Listed(list, p) ==
  \/ /\ list' = Append(list, p)
     /\ scanned' = IF mode = "search" THEN scanned \cup {<<"path", p>>} ELSE scanned
     /\ Open(p)
  \/ short /\ UNCHANGED <<list, scanned, heap>>

FindPrev ==
  /\ pc = "prev"
  /\ IF Prev(search) = None
     THEN search' = src /\ pc' = "next" /\ UNCHANGED <<prevlist, scanned, heap>>
     ELSE search' = Prev(search) /\ Listed(prevlist, Prev(search)) /\ UNCHANGED pc
  /\ UNCHANGED <<dir, wanted, short, mode, left, src, nextlist, at, item, out, cnt>>

FindNext ==
  /\ pc = "next"
  /\ IF Next1(search) = None
     THEN search' = None /\ pc' = "open" /\ UNCHANGED <<nextlist, scanned, heap>>
     ELSE search' = Next1(search) /\ Listed(nextlist, Next1(search)) /\ UNCHANGED pc
  /\ UNCHANGED <<dir, wanted, short, mode, left, src, prevlist, at, item, out, cnt>>

OpenSource ==
  /\ pc = "open"
  /\ Open(src)
  /\ at' = src /\ item' = 0
  /\ pc' = IF dir[src].readable THEN "prepend" ELSE "close"
  /\ UNCHANGED <<dir, wanted, short, mode, left, scanned, src, search, lists, out, cnt>>

\* Mutant: every archive is joined to the source.
Prepend_Source ==
  /\ pc = "prepend" /\ item < Len(prevlist)
  /\ item' = item + 1
  /\ LET p == prevlist[item + 1]
     IN  IF p \in DOMAIN cab THEN Merge(p, at) ELSE UNCHANGED heap
  /\ UNCHANGED <<dir, wanted, short, mode, pc, left, scanned, src, search, lists, at, out, cnt>>
\* The archives of a list are joined one by one to the one before them that
\* could be opened, whether or not that one could be joined.
Prepend ==
  /\ pc = "prepend" /\ item < Len(prevlist)
  /\ item' = item + 1
  /\ LET p == prevlist[item + 1]
     IN  IF p \in DOMAIN cab THEN Merge(p, at) /\ at' = p ELSE UNCHANGED <<heap, at>>
  /\ UNCHANGED <<dir, wanted, short, mode, pc, left, scanned, src, search, lists, out, cnt>>

PrependEnd ==
  /\ pc = "prepend" /\ item = Len(prevlist)
  /\ item' = 0 /\ at' = src /\ pc' = "append"
  /\ UNCHANGED <<dir, wanted, short, mode, left, scanned, src, search, lists, heap, out, cnt>>

Append1 ==
  /\ pc = "append" /\ item < Len(nextlist)
  /\ item' = item + 1
  /\ LET p == nextlist[item + 1]
     IN  IF p \in DOMAIN cab THEN Merge(at, p) /\ at' = p ELSE UNCHANGED <<heap, at>>
  /\ UNCHANGED <<dir, wanted, short, mode, pc, left, scanned, src, search, lists, out, cnt>>

\* The files are those of the first archive, if it could be opened.
AppendEnd ==
  /\ pc = "append" /\ item = Len(nextlist)
  /\ item' = 0 /\ pc' = "files"
  /\ at' = IF prevlist # <<>> /\ Last(prevlist) \in DOMAIN cab THEN Last(prevlist) ELSE src
  /\ UNCHANGED <<dir, wanted, short, mode, left, scanned, src, search, lists, heap, out, cnt>>

\* cabd->extract.  What has been written stays when it fails halfway.
Extract(f) ==
  \/ Refused(f) /\ UNCHANGED <<out, cnt, pc>>
  \/ ~Refused(f) /\ short /\ UNCHANGED <<out, cnt, pc>> \* out cannot be made
  \/ /\ ~Refused(f)
     /\ out' = Extracted(f)
     /\ IF Len(Extracted(f)) = File(f).length
        THEN cnt' = 1 /\ pc' = "close"
        ELSE UNCHANGED <<cnt, pc>>

TryFile ==
  /\ pc = "files" /\ item < Len(cab[at].files)
  /\ item' = item + 1
  /\ LET f == cab[at].files[item + 1]
     IN  IF File(f).name = wanted THEN Extract(f) ELSE UNCHANGED <<out, cnt, pc>>
  /\ UNCHANGED <<dir, wanted, short, mode, left, scanned, src, search, lists, heap, at>>

FilesEnd ==
  /\ pc = "files" /\ item = Len(cab[at].files)
  /\ pc' = "close"
  /\ UNCHANGED <<dir, wanted, short, mode, left, scanned, src, search, lists, heap, at, item, out, cnt>>

\* cab_unpack ends; a search goes on until it has found the file.
Close ==
  /\ pc = "close"
  /\ cab' = Empty /\ fold' = Empty
  /\ at' = None /\ item' = 0
  /\ prevlist' = <<>> /\ nextlist' = <<>>
  /\ pc' = IF cnt = 0 /\ mode = "search" THEN "search" ELSE "done"
  /\ UNCHANGED <<dir, wanted, short, mode, left, scanned, src, search, out, cnt>>

Next ==
  \/ SearchNext \/ SearchEnd \/ LookupNext \/ LookupEnd
  \/ FindPrev \/ FindNext \/ OpenSource
  \/ Prepend \/ PrependEnd \/ Append1 \/ AppendEnd
  \/ TryFile \/ FilesEnd \/ Close

Spec == Init /\ [][Next]_vars /\ WF_vars(Next)

--------------------------------------------------------------------------
\* The units of the file i of n: every block of a folder but the last is full.
Content(n, i) ==
  LET f == dir[n].files[i]
      k == CASE f.join = "none" -> f.folder
             [] f.join = "next" -> Len(dir[n].folders)
             [] OTHER           -> 1
      name == dir[n].folders[k][1].block[1]
  IN  [u \in 1 .. f.length |->
         <<name, (f.offset + u - 1) \div BlockMax + 1, ((f.offset + u - 1) % BlockMax) + 1>>]

\* All the archives of the set of n, from the first to the last, are there
\* and can be read, each names its neighbours and goes on in the next.
GoesOn(m) ==
  LET l == Last(Last(dir[m].folders))
      r == Head(Head(dir[Next1(m)].folders))
  IN  IF l.size = 0 THEN r.block = l.block /\ r.part = l.part + 1 ELSE r.part = 1
SetOf(n) == {m \in Here : dir[m].set = dir[n].set}
Complete(n) ==
  /\ \A m \in SetOf(n) : dir[m].readable
  /\ \A m \in SetOf(n) : dir[m].prev # None => Prev(m) # None
  /\ \A m \in SetOf(n) : dir[m].next # None => Next1(m) # None /\ GoesOn(m)
  /\ \A m \in SetOf(n) : \A k \in DOMAIN dir[m].folders : \A i \in DOMAIN dir[m].folders[k] :
       ~dir[m].folders[k][i].bad

\* A file reported as extracted is one of that name, whole and in order,
\* however many archives its data is spread over (cabd_merge,
\* cabd_sys_read_block), as long as none was passed over, unreadable or for
\* want of memory: what is before it and behind it are joined nevertheless.
ExtractedExact ==
  (cnt = 1 /\ ~short /\ \A m \in Here : dir[m].readable)
    => \E n \in Here : \E i \in DOMAIN dir[n].files :
         dir[n].files[i].name = wanted /\ out = Content(n, i)

\* A file that a complete set in the directory holds is found by the search,
\* whichever of the archives it meets first and whatever else is there; by
\* the lookup, which keeps one archive only, if all that list it are such.
FoundIfThere ==
  (pc = "done" /\ cnt = 0 /\ ~short)
    => LET listing == {n \in Here : Lists(n)}
       IN  IF mode = "search" THEN \A n \in listing : ~Complete(n)
           ELSE listing # {} => \E n \in listing : ~Complete(n)

\* Joining frees the first folder of the right archive and the files in it:
\* what is listed afterwards is in a folder there still is, and the files
\* that a folder keeps for the next joining are still listed.
NoDangling ==
  \A n \in DOMAIN cab :
    /\ \A i \in DOMAIN cab[n].files : FolderOf(cab[n].files[i]) \in DOMAIN fold
    /\ \A k \in DOMAIN cab[n].folders :
         /\ cab[n].folders[k] \in DOMAIN fold
         /\ LET fol == fold[cab[n].folders[k]]
            IN  /\ fol.merge_next \in Range(cab[n].files) \cup {None}
                /\ fol.merge_prev \in Range(cab[n].files) \cup {None}

\* Archives that name each other do not keep the search going: the number in
\* the set must grow, or shrink, with every one of them.
Ends == <>(pc = "done")
=============================================================================
