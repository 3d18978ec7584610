------------------------------ MODULE PatchFiles ------------------------------
(***************************************************************************)
(* files.c with the parts of patcher9x.c, patch.c and unpacker.c it calls: *)
(* look for patchable files and make a patched copy of each next to it,    *)
(* ask the user, then commit the copies over the originals or clean up.    *)
(* The program is sequential; what makes it hard is that its state is the  *)
(* directory, which a crash leaves as it is at that moment, and that most  *)
(* of its file operations do not look at their own result.  Every write of *)
(* a file therefore takes two steps (the file is Torn in between).         *)
(***************************************************************************)
EXTENDS FileStore, Sequences, FiniteSets

CONSTANTS
  Table,     \* the rows of pfiles this lookup goes through, paths resolved
  EName,     \* ename, the temporary W3 form of VMM32.VXD
  VName,     \* vname, VMM32.VXD
  Bystanders,\* files next to those of the table which are not the program's
  Lookups,   \* the ways of looking for files a run may be asked for: see Modes
  Given,     \* the file whose path may be given instead (mode "file")
  NoBackup,  \* -no-backup
  ForceW3,   \* -force-w3
  Faults,    \* what may go wrong in the environment: see FaultKinds
  MaxRuns,   \* bound: how many times the program is started
  Versions   \* bound: the versions of a file the initial directory may hold

\* "dir" patches in place, "extract" and "novmm32" take drivers out of
\* VMM32.VXD (PATCH_LOOKUP_EXTRACTWX, _NO_VMM32), "cab" unpacks archives
\* (PATCH_LOOKUP_CABS, _ONE_CAB), "file" is files_apply on Given.
Modes == {"dir", "extract", "novmm32", "cab", "file"}

\* crash: the program stops between any two steps, restart: and is run
\* again; backup: the .bak cannot be created; pack: an archive cannot be
\* written; unpack: an archive cannot be read; rename: rename(2) fails;
\* copy: neither can the copy that replaces it; full: a write is cut short.
FaultKinds ==
  {"crash", "restart", "backup", "pack", "unpack", "rename", "copy", "full"}

Row == [fname : Path, tname : Path, bname : Path, kname : Path,
        kind : {"plain", "pack", "unpack", "kwaj"}]

ASSUME ConstantsAssumption ==
  /\ Table \in Seq(Row)
  /\ EName \in Path
  /\ VName \in Path
  /\ Bystanders \subseteq Path
  /\ Lookups \subseteq Modes
  /\ Given \in Path
  /\ NoBackup \in BOOLEAN
  /\ ForceW3 \in BOOLEAN
  /\ Faults \subseteq FaultKinds
  /\ MaxRuns \in Nat
  /\ Versions \subseteq Version

Rows == 1 .. Len(Table)

VARIABLES
  disk,     \* Path -> Data
  inside,   \* what VMM32.VXD or the archives hold for each row
  orig,     \* history: the directory as the user first gave it
  before,   \* history: the directory when this run began
  runs,     \* how many times the program was started
  mode,     \* the lookup flags of this run
  reverse,  \* -reverse
  pc,       \* the next step
  row,      \* the row the lookup is at
  branch,   \* how the lookup gets at the bytes of that row
  made,     \* ename_created
  list,     \* pmodfiles_t: the files looked up
  k,        \* the item files_commit or files_cleanup is at
  after,    \* what follows the backup of that item
  cnt,      \* files committed
  result    \* how the last run ended

world == <<inside, orig, before, runs, mode, reverse>>
scan  == <<row, branch, made, list>>
walk  == <<k, after, cnt>>
vars  == <<disk, world, pc, scan, walk, result>>

\* pmodfile_t: the row, whether a patch went into the copy (applied # 0)
\* and L_F_CREATED.  L_T_CREATED is set in every item; exists is only
\* shown to the user.
Item == [row : Rows, applied : BOOLEAN, created : BOOLEAN]

LookupPC == {"row", "unpackw3", "extract", "patch", "patching"}
CommitPC == {"commit", "backup", "backingup", "pack", "packing", "kwaj",
             "kwajing", "rename", "renaming", "copying", "drop", "dropcopy"}
PC       == {"start", "status", "ask", "cleanup", "done", "crashed"}
              \cup LookupPC \cup CommitPC
Branches == {"none", "skip", "open", "kwaj", "w3", "unpack", "unpackw3", "cab"}
Results  == {"none", "nothing", "aborted", "committed"}

--------------------------------------------------------------------------
(* The directory before the program ever ran.                              *)

FNames == {Table[i].fname : i \in Rows}

\* The paths that may hold a file of the user.
Own == FNames \cup Bystanders

\* The rows VMM32.VXD or the archives may hold a file for.
Inner == {i \in Rows : \/ "cab" \in Lookups
                      \/ /\ Lookups \cap {"extract", "novmm32"} # {}
                         /\ Table[i].kind = "unpack"}

\* An original file of a row, VMM32.VXD with w4 or without compression.
OriginalOf(p, ver, w4) ==
  LET kind == IF p \in FNames
              THEN (CHOOSE r \in {Table[i] : i \in Rows} : r.fname = p).kind
              ELSE "plain"
  IN  [file |-> p, ver |-> ver,
       form |-> CASE kind = "pack" -> IF w4 THEN "w4" ELSE "w3"
                  [] kind = "kwaj" -> "kwaj"
                  [] OTHER -> "raw"]

\* A driver or file of an archive is only looked for where the user has none
\* of that name, so none is put next to one.
Init ==
  /\ \E w4 \in BOOLEAN :
       /\ \E v \in [Own -> Versions \cup {"none"}] :
            disk = [p \in Path |-> IF p \notin Own THEN Absent
                                   ELSE IF v[p] = "none" THEN Absent
                                   ELSE OriginalOf(p, v[p], w4)]
       /\ \E v \in [Inner -> Versions \cup {"none"}] :
            inside = [i \in Rows |-> IF i \notin Inner THEN Absent
                                     ELSE IF v[i] = "none" THEN Absent
                                     ELSE OriginalOf(Table[i].fname, v[i], w4)]
  /\ \A i \in Inner : inside[i] # Absent => disk[Table[i].fname] = Absent
  /\ orig = disk
  /\ before = disk
  /\ runs = 0
  /\ mode = "dir"
  /\ reverse = FALSE
  /\ pc = "start"
  /\ row = 1
  /\ branch = "none"
  /\ made = FALSE
  /\ list = << >>
  /\ k = 1
  /\ after = "rename"
  /\ cnt = 0
  /\ result = "none"

\* A finished write leaves the bytes meant, or with the disk full (no
\* caller looks at the result of fwrite) a part of them.
Written(c) == {c} \cup (IF "full" \in Faults THEN {Torn} ELSE {})

--------------------------------------------------------------------------
(* files_lookup and files_apply                                            *)

From == IF reverse THEN "new" ELSE "old"
To   == IF reverse THEN "old" ELSE "new"

\* The program is started: read_arg fills the options, run_interactive
\* calls files_lookup or files_apply with an empty list.
Start ==
  /\ \/ pc \in {"start", "done"}
     \/ pc = "crashed" /\ "restart" \in Faults
  /\ runs < MaxRuns
  /\ runs' = runs + 1
  /\ mode' \in Lookups
  /\ reverse' \in BOOLEAN
  /\ before' = disk
  /\ pc' = "row"
  /\ row' = 1
  /\ branch' = "none"
  /\ made' = FALSE
  /\ list' = << >>
  /\ k' = 1
  /\ after' = "rename"
  /\ cnt' = 0
  /\ result' = "none"
  /\ UNCHANGED <<disk, inside, orig>>

R == Table[row]

IsW3(p) == disk[p] \in Content /\ disk[p].form = "w3"

InRow == pc = "row" /\ row <= Len(Table)

\* files_apply takes the rows with the name of the file it is given.
Applies == mode = "file" => R.fname = Given

\* Which branch of the loop takes the row.  files_apply does not unpack KWAJ
\* archives.  wx_unpack reads an ename
\* it finds, whoever made it, and makes one when VMM32.VXD is compressed.
Branch ==
  IF Exists(disk, R.fname)
  THEN IF ~Applies THEN "skip"
       ELSE CASE R.kind = "kwaj" /\ mode # "file" ->
                   IF Exists(disk, R.kname) THEN "skip" ELSE "kwaj"
              [] R.kind = "pack" -> IF mode = "novmm32" THEN "skip" ELSE "w3"
              [] OTHER -> "open"
  ELSE CASE R.kind = "unpack" /\ mode \in {"extract", "novmm32"} ->
              IF Exists(disk, EName) \/ IsW3(VName) THEN "unpack"
              ELSE IF Exists(disk, VName) THEN "unpackw3" ELSE "skip"
         [] mode = "cab" /\ inside[row] # Absent -> "cab"
         [] OTHER -> "skip"

\* The file the branch unpacks.
InputOf(b) ==
  CASE b \in {"kwaj", "w3"} -> R.fname
    [] b = "unpack" /\ Exists(disk, EName) -> EName
    [] OTHER -> VName
Damaged(b) == b \in {"kwaj", "w3", "unpack", "unpackw3"} /\ disk[InputOf(b)] = Torn

\* The file a branch writes first, and the one patch_selected then reads.
OutOf(b) == CASE b = "kwaj" -> R.kname
              [] b \in {"w3", "unpackw3"} -> EName
              [] OTHER -> R.fname
Source   == IF branch = "unpackw3" THEN R.fname ELSE OutOf(branch)

\* The row is left with list_item_added = 0.
NextRow == /\ pc' = "row"
           /\ row' = row + 1
           /\ branch' = "none"

\* No branch, or one whose input is too damaged to be opened.
SkipRow ==
  /\ InRow
  /\ Branch = "skip" \/ Damaged(Branch)
  /\ NextRow
  /\ UNCHANGED <<disk, world, made, list, walk, result>>

\* The file is patched as it is.
OpenRow ==
  /\ InRow
  /\ Branch = "open"
  /\ branch' = "open"
  /\ pc' = "patch"
  /\ UNCHANGED <<disk, world, row, made, list, walk, result>>

\* kwaj_unpack, wx_to_w3, wx_unpack or cab_unpack opens its output.
BeginExtract ==
  /\ InRow
  /\ Branch \in {"kwaj", "w3", "unpack", "unpackw3", "cab"}
  /\ branch' = Branch
  /\ disk' = IF Branch = "unpack" /\ inside[row] = Absent
             THEN disk ELSE Put(disk, OutOf(Branch), Torn)
  /\ pc' = IF Branch = "unpackw3" THEN "unpackw3" ELSE "extract"
  /\ UNCHANGED <<world, row, made, list, walk, result>>

\* wx_unpack has converted VMM32.VXD and goes on to the driver in it.
UnpackW3 ==
  /\ pc = "unpackw3"
  /\ \E c \in Written(As(disk[VName], "w3")) :
       LET d == Put(disk, EName, c)
       IN  disk' = IF inside[row] = Absent THEN d ELSE Put(d, R.fname, Torn)
  /\ pc' = "extract"
  /\ UNCHANGED <<world, scan, walk, result>>

\* What the row's file holds once unpacked: Absent where VMM32.VXD has no
\* such driver (wx_unpack says PATCH_OK and there is no file).
Unpacked ==
  CASE branch = "kwaj" -> As(disk[R.fname], "raw")
    [] branch = "w3" -> As(disk[R.fname], "w3")
    [] branch \in {"unpack", "unpackw3"} /\ inside[row] # Absent
         /\ disk[EName] = Torn -> Torn
    [] OTHER -> inside[row]

\* The output is complete.  wx_unpack removes the ename it made; wx_to_w3
\* in files_lookup sets ename_created.
EndExtract ==
  /\ pc = "extract"
  /\ \E c \in IF Unpacked = Absent THEN {Absent} ELSE Written(Unpacked) :
       LET d == Put(disk, Source, c)
       IN  /\ disk' = IF branch = "unpackw3" THEN Unlink(d, EName) ELSE d
           /\ IF c = Absent
              THEN NextRow
              ELSE pc' = "patch" /\ UNCHANGED <<row, branch>>
  /\ made' = (made \/ branch = "w3")
  /\ UNCHANGED <<world, list, walk, result>>

\* The input cannot be read (it is damaged, or unpacking fails): the row is
\* left, and with it the file begun.
ExtractFails ==
  /\ \/ pc = "unpackw3"
     \/ pc = "extract" /\ branch \in {"kwaj", "w3", "cab"}
  /\ "unpack" \in Faults \/ Damaged(branch)
  /\ NextRow
  /\ UNCHANGED <<disk, world, made, list, walk, result>>

\* Whether patch_selected finds something to do: it looks for the bytes a
\* patch replaces, which compressed data does not show, and what is left of
\* a damaged file may or may not.
Visible(c) == c.form \in {"raw", "w3", "stored", "stored2"}
Fits(c)    == IF c = Torn THEN BOOLEAN ELSE {Visible(c) /\ c.ver = From}

\* Some patch fits the file: fopen_copy opens tname.
BeginPatch ==
  /\ pc = "patch"
  /\ TRUE \in Fits(disk[Source])
  /\ disk' = Put(disk, R.tname, Torn)
  /\ pc' = "patching"
  /\ UNCHANGED <<world, scan, walk, result>>

\* pmodfiles_add.  files_apply removes its ename here.
AddItem(d, applied) ==
  /\ list' = Append(list, [row |-> row, applied |-> applied,
                           created |-> branch \in {"unpack", "unpackw3", "cab"}])
  /\ NextRow
  /\ IF mode = "file" /\ branch = "w3"
     THEN disk' = Unlink(d, EName) /\ made' = FALSE
     ELSE disk' = d /\ UNCHANGED made

EndPatch ==
  /\ pc = "patching"
  /\ LET c == disk[Source]
     IN  \E new \in Written(Patched(c, To)) :
           AddItem(Put(disk, R.tname, new), TRUE)
  /\ UNCHANGED <<world, walk, result>>

\* No patch fits, or all are there already.
NoPatch ==
  /\ pc = "patch"
  /\ FALSE \in Fits(disk[Source])
  /\ AddItem(disk, FALSE)
  /\ UNCHANGED <<world, walk, result>>

EndLookup ==
  /\ pc = "row"
  /\ row > Len(Table)
  /\ disk' = IF made THEN Unlink(disk, EName) ELSE disk
  /\ pc' = "status"
  /\ UNCHANGED <<world, scan, walk, result>>

--------------------------------------------------------------------------
(* run_interactive: files_status and the question                          *)

Selected == {j \in DOMAIN list : list[j].applied}

Status ==
  /\ pc = "status"
  /\ IF Selected = {}
     THEN pc' = "cleanup" /\ result' = "nothing"
     ELSE pc' = "ask" /\ UNCHANGED result
  /\ UNCHANGED <<disk, world, scan, walk>>

\* The user may also ask for the list of patches, which changes nothing.
AnswerYes ==
  /\ pc = "ask"
  /\ pc' = "commit"
  /\ UNCHANGED <<disk, world, scan, walk, result>>

AnswerNo ==
  /\ pc = "ask"
  /\ pc' = "cleanup"
  /\ result' = "aborted"
  /\ UNCHANGED <<disk, world, scan, walk>>

--------------------------------------------------------------------------
(* files_cleanup and files_commit                                          *)

It == list[k]
CR == Table[It.row]

InItem(step) == pc = step /\ k <= Len(list)

\* Mutant: the copy stays.
CleanupItem_ForgetsCopy ==
  /\ InItem("cleanup")
  /\ disk' = IF It.created THEN Unlink(disk, CR.fname) ELSE disk
  /\ k' = k + 1
  /\ UNCHANGED <<world, pc, scan, after, cnt, result>>

CleanupItem ==
  /\ InItem("cleanup")
  /\ LET d1 == Unlink(disk, CR.tname)
         d2 == IF It.created THEN Unlink(d1, CR.fname) ELSE d1
     IN  disk' = IF CR.kind = "kwaj" THEN Unlink(d2, CR.kname) ELSE d2
  /\ k' = k + 1
  /\ UNCHANGED <<world, pc, scan, after, cnt, result>>

CleanupDone ==
  /\ pc = "cleanup"
  /\ k > Len(list)
  /\ pc' = "done"
  /\ UNCHANGED <<disk, world, scan, walk, result>>

NextItem(done) ==
  /\ k' = k + 1
  /\ pc' = "commit"
  /\ cnt' = IF done THEN cnt + 1 ELSE cnt
  /\ UNCHANGED after

\* Mutants: without L_F_CREATED, the file goes in every case or never.
CommitUnselected_Removes ==
  /\ InItem("commit")
  /\ ~It.applied
  /\ disk' = Unlink(Unlink(disk, CR.tname), CR.fname)
  /\ NextItem(FALSE)
  /\ UNCHANGED <<world, scan, result>>
CommitUnselected_Keeps ==
  /\ InItem("commit")
  /\ ~It.applied
  /\ disk' = Unlink(disk, CR.tname)
  /\ NextItem(FALSE)
  /\ UNCHANGED <<world, scan, result>>

\* An item no patch was applied to: what the lookup made is removed.
CommitUnselected ==
  /\ InItem("commit")
  /\ ~It.applied
  /\ LET d == Unlink(disk, CR.tname)
     IN  disk' = IF It.created THEN Unlink(d, CR.fname) ELSE d
  /\ NextItem(FALSE)
  /\ UNCHANGED <<world, scan, result>>

\* Whether VMM32.VXD is compressed again: the copy is larger than the file
\* it replaces.  PATCH_FORCE_W4 is looked for in the flags of the table,
\* where no row has it, and not among the options of the run, so -force-w4
\* has no effect.
Compress(r) ==
  IF r.kind # "pack" \/ ForceW3 \/ disk[r.tname] = Absent \/ disk[r.fname] = Absent
  THEN {FALSE}
  ELSE IF Torn \in {disk[r.tname], disk[r.fname]}
       THEN BOOLEAN
       ELSE {disk[r.tname].form = "w3" /\ disk[r.fname].form = "w4"}

\* Mutant: an archive is compressed before its backup.
CommitFile_Unsaved ==
  /\ InItem("commit")
  /\ It.applied
  /\ CR.kind # "kwaj"
  /\ \E c \in Compress(CR) : pc' = IF c THEN "pack" ELSE "rename"
  /\ UNCHANGED <<disk, world, scan, k, after, cnt, result>>

CommitFile ==
  /\ InItem("commit")
  /\ It.applied
  /\ CR.kind # "kwaj"
  /\ \E c \in Compress(CR) : after' = IF c THEN "pack" ELSE "rename"
  /\ pc' = "backup"
  /\ UNCHANGED <<disk, world, scan, k, cnt, result>>

CommitKwaj ==
  /\ InItem("commit")
  /\ It.applied
  /\ CR.kind = "kwaj"
  /\ pc' = "kwaj"
  /\ UNCHANGED <<disk, world, scan, walk, result>>

CommitDone ==
  /\ pc = "commit"
  /\ k > Len(list)
  /\ pc' = "done"
  /\ result' = "committed"
  /\ UNCHANGED <<disk, world, scan, walk>>

\* patch_backup_file: a .bak that is there already is kept, and nobody
\* looks at the result.
NoBackupMade ==
  /\ pc = "backup"
  /\ \/ NoBackup
     \/ Exists(disk, CR.bname)
     \/ ~Exists(disk, CR.fname)
     \/ "backup" \in Faults
  /\ pc' = after
  /\ UNCHANGED <<disk, world, scan, walk, result>>

\* Mutant: a backup that is there already is written again.
BeginBackup_Again ==
  /\ pc = "backup"
  /\ ~NoBackup
  /\ Exists(disk, CR.fname)
  /\ disk' = Put(disk, CR.bname, Torn)
  /\ pc' = "backingup"
  /\ UNCHANGED <<world, scan, walk, result>>

BeginBackup ==
  /\ pc = "backup"
  /\ ~NoBackup
  /\ ~Exists(disk, CR.bname)
  /\ Exists(disk, CR.fname)
  /\ disk' = Put(disk, CR.bname, Torn)
  /\ pc' = "backingup"
  /\ UNCHANGED <<world, scan, walk, result>>

EndBackup ==
  /\ pc = "backingup"
  /\ \E c \in Written(disk[CR.fname]) : disk' = Put(disk, CR.bname, c)
  /\ pc' = after
  /\ UNCHANGED <<world, scan, walk, result>>

\* copy_done = 0: back up (again, if that failed) and rename.
FallBack == pc' = "backup" /\ after' = "rename"

\* wx_to_w4(tname, fname): pe_w3_to_w4 opens the file it replaces.
BeginPack ==
  /\ pc = "pack"
  /\ disk' = Put(disk, CR.fname, Torn)
  /\ pc' = "packing"
  /\ UNCHANGED <<world, scan, walk, result>>

EndPack ==
  /\ pc = "packing"
  /\ \E c \in Written(As(disk[CR.tname], "w4")) : disk' = Put(disk, CR.fname, c)
  /\ pc' = "drop"
  /\ UNCHANGED <<world, scan, walk, result>>

\* The file cannot be opened for writing: pe_w3_to_w4 returns PE_OK.
PackMissed ==
  /\ pc = "pack"
  /\ "pack" \in Faults
  /\ pc' = "drop"
  /\ UNCHANGED <<disk, world, scan, walk, result>>

\* A damaged copy is not a W3 archive.
PackRefused ==
  /\ pc = "pack"
  /\ disk[CR.tname] = Torn
  /\ FallBack
  /\ UNCHANGED <<disk, world, scan, k, cnt, result>>

\* Mutant: the copy is removed as soon as the archive is opened.
BeginKwaj_Drops ==
  /\ pc = "kwaj"
  /\ Exists(disk, CR.tname)
  /\ disk' = Unlink(Put(disk, CR.fname, Torn), CR.tname)
  /\ pc' = "kwajing"
  /\ UNCHANGED <<world, scan, walk, result>>

\* kwaj_pack(tname, fname, kname) opens the archive it replaces.
BeginKwaj ==
  /\ pc = "kwaj"
  /\ Exists(disk, CR.tname)
  /\ disk' = Put(disk, CR.fname, Torn)
  /\ pc' = "kwajing"
  /\ UNCHANGED <<world, scan, walk, result>>

Stored(c) ==
  As(c, IF c \in Content /\ c.form = "stored" THEN "stored2" ELSE "stored")

EndKwaj ==
  /\ pc = "kwajing"
  /\ \E c \in Written(Stored(disk[CR.tname])) : disk' = Put(disk, CR.fname, c)
  /\ pc' = "drop"
  /\ UNCHANGED <<world, scan, walk, result>>

\* The copy is missing, the archive cannot be opened, or is cut short.
KwajFails ==
  /\ \/ pc = "kwaj" /\ ~Exists(disk, CR.tname)
     \/ pc \in {"kwaj", "kwajing"} /\ "pack" \in Faults
  /\ FallBack
  /\ UNCHANGED <<disk, world, scan, k, cnt, result>>

\* Mutant: the copy stays.
Drop_Nothing ==
  /\ pc = "drop"
  /\ NextItem(TRUE)
  /\ UNCHANGED <<disk, world, scan, result>>

\* copy_done = 1: the copy goes, for a KWAJ archive what it unpacked to as
\* well.
Drop ==
  /\ pc = "drop"
  /\ LET d == Unlink(disk, CR.tname)
     IN  disk' = IF CR.kind = "kwaj" THEN Unlink(d, CR.kname) ELSE d
  /\ NextItem(TRUE)
  /\ UNCHANGED <<world, scan, result>>

\* fs_rename(tname, fname) removes fname first.
RenameNothing ==
  /\ pc = "rename"
  /\ ~Exists(disk, CR.tname)
  /\ NextItem(FALSE)
  /\ UNCHANGED <<disk, world, scan, result>>

RenameUnlink ==
  /\ pc = "rename"
  /\ Exists(disk, CR.tname)
  /\ disk' = Unlink(disk, CR.fname)
  /\ pc' = "renaming"
  /\ UNCHANGED <<world, scan, walk, result>>

RenameMove ==
  /\ pc = "renaming"
  /\ disk' = Move(disk, CR.tname, CR.fname)
  /\ NextItem(TRUE)
  /\ UNCHANGED <<world, scan, result>>

\* Mutant: without the copy that stands in for it, a rename that fails has
\* removed the file already.
RenameCopies_GivesUp ==
  /\ pc = "renaming"
  /\ "rename" \in Faults
  /\ NextItem(TRUE)
  /\ UNCHANGED <<disk, world, scan, result>>

\* rename(2) fails: fs_file_fullcopy opens fname, or fails as well, and
\* then neither fs_rename nor files_commit says so.
RenameCopies ==
  /\ pc = "renaming"
  /\ "rename" \in Faults
  /\ disk' = Put(disk, CR.fname, Torn)
  /\ pc' = "copying"
  /\ UNCHANGED <<world, scan, walk, result>>

RenameLost ==
  /\ pc = "renaming"
  /\ "copy" \in Faults
  /\ NextItem(TRUE)
  /\ UNCHANGED <<disk, world, scan, result>>

EndCopy ==
  /\ pc = "copying"
  /\ \E c \in Written(disk[CR.tname]) : disk' = Put(disk, CR.fname, c)
  /\ pc' = "dropcopy"
  /\ UNCHANGED <<world, scan, walk, result>>

DropCopy ==
  /\ pc = "dropcopy"
  /\ disk' = Unlink(disk, CR.tname)
  /\ NextItem(TRUE)
  /\ UNCHANGED <<world, scan, result>>

--------------------------------------------------------------------------
(* The specification                                                       *)

\* The machine is switched off, or the program killed, between two steps.
Crash ==
  /\ "crash" \in Faults
  /\ pc \notin {"start", "done", "crashed"}
  /\ pc' = "crashed"
  /\ UNCHANGED <<disk, world, scan, walk, result>>

LookupStep  == \/ SkipRow \/ OpenRow \/ BeginExtract \/ UnpackW3 \/ EndExtract
               \/ ExtractFails \/ BeginPatch \/ EndPatch \/ NoPatch \/ EndLookup
CleanupStep == CleanupItem \/ CleanupDone
BackupStep  == NoBackupMade \/ BeginBackup \/ EndBackup
PackStep    == \/ BeginPack \/ EndPack \/ PackMissed \/ PackRefused
               \/ BeginKwaj \/ EndKwaj \/ KwajFails \/ Drop
RenameStep  == \/ RenameNothing \/ RenameUnlink \/ RenameMove \/ RenameCopies
               \/ RenameLost \/ EndCopy \/ DropCopy
CommitStep  == \/ CommitUnselected \/ CommitFile \/ CommitKwaj \/ CommitDone
               \/ BackupStep \/ PackStep \/ RenameStep
Step        == LookupStep \/ Status \/ CleanupStep \/ CommitStep

Next == Start \/ AnswerYes \/ AnswerNo \/ Crash \/ Step

\* The program runs on by itself; nothing makes the user start it or answer.
Spec == Init /\ [][Next]_vars /\ WF_vars(Step)

--------------------------------------------------------------------------
(* Properties                                                              *)

\* Types of the variables.
TypeOK ==
  /\ disk \in [Path -> Data]
  /\ inside \in [Rows -> Data]
  /\ orig \in [Path -> Data]
  /\ before \in [Path -> Data]
  /\ runs \in 0 .. MaxRuns
  /\ mode \in Modes
  /\ reverse \in BOOLEAN
  /\ pc \in PC
  /\ row \in 1 .. Len(Table) + 1
  /\ branch \in Branches
  /\ made \in BOOLEAN
  /\ list \in Seq(Item)
  /\ k \in 1 .. Len(list) + 1
  /\ after \in {"pack", "rename"}
  /\ cnt \in Nat
  /\ result \in Results

\* The bytes a row's file first had.
Keeps(d, i) == orig[Table[i].fname] \in {d[Table[i].fname], d[Table[i].bname]}

\* Unless -no-backup is given no file loses its first content: whatever
\* step the program is stopped at, the file or its .bak has it.  KWAJ
\* archives are left out: see BackupBeforeModify.
Recoverable ==
  ~NoBackup =>
    \A i \in Rows : Table[i].kind # "kwaj" /\ orig[Table[i].fname] # Absent => Keeps(disk, i)

\* "-no-backup: don't backup files before modify" (help.h:62): without the
\* option every file that existed is backed up before it is changed.
BackupBeforeModify ==
  [][\A i \in Rows :
       LET r == Table[i]
       IN  ~NoBackup /\ orig[r.fname] # Absent /\ disk'[r.fname] # disk[r.fname]
             => disk[r.bname] = orig[r.fname]]_disk

\* A file the user has changes only in a commit the user agreed to, and
\* only if a patch for it was announced (files_status: 'N').
OnlyAnnouncedChange ==
  [][\A p \in Own :
       before[p] # Absent /\ disk'[p] # disk[p] =>
         pc \in CommitPC /\ \E j \in Selected : Table[list[j].row].fname = p]_disk

\* Even without backups a stopped commit leaves one whole version of every
\* file, old or patched, under its own name, the copy's or the backup's.
SomeVersionSurvives ==
  \A i \in Rows :
    LET r == Table[i]
    IN  orig[r.fname] # Absent =>
          \E p \in {r.fname, r.tname, r.bname} :
            disk[p] # Torn /\ disk[p] # Absent /\ disk[p].file = r.fname

\* What the run should leave under the name of row i: the patched version
\* of every file the mode reaches that some patch fits, in the container
\* the options ask for, and everything else as it was.
Reached(i) ==
  LET r == Table[i]
  IN  IF before[r.fname] # Absent
      THEN IF \/ r.kind = "pack" /\ mode = "novmm32"
              \/ r.kind = "kwaj" /\ (mode = "file" \/ before[r.kname] # Absent)
              \/ mode = "file" /\ r.fname # Given
           THEN Absent ELSE before[r.fname]
      ELSE IF \/ mode = "cab"
              \/ /\ mode \in {"extract", "novmm32"}
                 /\ r.kind = "unpack"
                 /\ before[VName] # Absent
           THEN inside[i] ELSE Absent

Wanted(i) ==
  LET r == Table[i]
      c == Reached(i)
      extracted == before[r.fname] = Absent
  IN  IF c = Absent \/ (extracted /\ ~Visible(c)) \/ c.ver # From
      THEN before[r.fname]
      ELSE [c EXCEPT !.ver = To,
                     !.form = CASE r.kind = "kwaj" -> "stored"
                                [] c.form = "w4" /\ ForceW3 -> "w3"
                                [] OTHER -> c.form]

\* README.md:208: the files with the 'N' flag are the modified files.  A
\* commit nothing interrupts patches every file it announced, and no other.
CommitExact ==
  pc = "done" /\ result = "committed" =>
    \A i \in Rows : disk[Table[i].fname] = Wanted(i)

\* A run that ends without a commit leaves the directory as it found it.
AbortRestores ==
  pc = "done" /\ result \in {"aborted", "nothing"} => disk = before

\* After a commit no temporary file is left: neither a copy, nor the W3
\* form of VMM32.VXD, nor what a KWAJ archive was unpacked to.
NoTempLeft ==
  pc = "done" /\ result = "committed" =>
    /\ disk[EName] = before[EName]
    /\ \A i \in Rows :
         /\ disk[Table[i].tname] = Absent
         /\ Table[i].kind = "kwaj" => disk[Table[i].kname] = before[Table[i].kname]

\* The user has agreed to a commit that row i is to be patched in.
Agreed(i) == pc = "commit" /\ \E j \in Selected : Table[list[j].row].fname = Table[i].fname

\* The run has ended, and the file of row i is there, whole and patched.
Delivered(i) ==
  LET c == disk[Table[i].fname]
  IN  pc = "done" /\ c \in Content /\ c.ver = To

\* README.md:208: the files with the 'N' flag are the modified files.  What
\* the user said yes to comes true unless the machine stops: fs_rename removes
\* a file before it puts the copy in its place (filesystem.c:876), and each
\* file so taken away is given back patched, also where rename(2) fails and a
\* copy has to stand in for it, and wx_to_w4 writes over its file to the end.
AgreedIsDone == \A i \in Rows : Agreed(i) ~> Delivered(i) \/ pc = "crashed"

--------------------------------------------------------------------------
(* The commit implements SafeReplace                                       *)

\* The rows whose files are backed up: kwaj_pack goes without (see
\* BackupBeforeModify).
Guarded == {i \in Rows : Table[i].kind # "kwaj"}

LiveOf(i) ==
  LET c == disk[Table[i].fname]
  IN  IF orig[Table[i].fname] \in {Absent, c} THEN "original"
      ELSE IF c \in {Absent, Torn} THEN "damaged" ELSE "patched"

SavedOf(i) == /\ orig[Table[i].fname] # Absent
              /\ disk[Table[i].bname] = orig[Table[i].fname]

Promise == INSTANCE SafeReplace
             WITH File  <- Guarded,
                  live  <- [i \in Guarded |-> LiveOf(i)],
                  saved <- [i \in Guarded |-> SavedOf(i)]

\* Every step of the program is one of SafeReplace or leaves its state
\* alone: a file is backed up whole before its bytes are touched, in
\* whatever order and wherever the program is stopped.
ImplementsSafeReplace == Promise!Spec

--------------------------------------------------------------------------
(* What theorems assume of the table, of the files of the user, and of     *)
(* what may fail                                                           *)

\* No two rows work on one file or share a backup, and no temporary file
\* has the name of a file or a backup.  The rows of Windows 95, 98 and Me
\* are like that; see CommitExact for those that are not.
DistinctNames ==
  /\ \A i, j \in Rows :
       /\ i # j => /\ Table[i].fname # Table[j].fname
                   /\ Table[i].bname # Table[j].bname
       /\ {Table[i].fname, Table[i].bname} \cap
            {Table[j].tname, EName} = {}
       /\ Table[i].fname # Table[j].bname
       /\ Table[j].kind = "kwaj" => Table[j].kname \notin {Table[i].fname, Table[i].bname}
  /\ \A i \in Rows : Table[i].bname \notin Bystanders

\* The temporary files.
Temps == {EName} \cup {Table[j].tname : j \in Rows}

\* A row whose archive may be in the list without having been unpacked:
\* what cleaning it up removes was not made by the run.
Listed(i) == \/ "cab" \in Lookups
             \/ "file" \in Lookups /\ Table[i].fname = Given

\* What the theorem assumes: no file of the user has the name of a copy, of
\* a backup or of ename, nor that of what such an archive unpacks to.  The
\* table of files.c is like that in the modes that patch in place.
OwnApart ==
  /\ \A p \in Own : p # EName /\ \A i \in Rows : p \notin {Table[i].tname, Table[i].bname}
  /\ \A i \in Rows : Table[i].kind = "kwaj" /\ Table[i].kname \in Own => ~Listed(i)

\* The temporary files have names of their own, those of KWAJ archives
\* included where cleaning up removes what the run may not have made.
TidyNames ==
  /\ DistinctNames
  /\ VName \notin Temps
  /\ \A p \in Bystanders : p \notin Temps
  /\ \A i \in Rows : /\ Table[i].tname # EName
                     /\ Table[i].fname = VName => Table[i].kind = "pack"
  /\ \A i \in Rows : Table[i].kind = "kwaj" =>
       /\ Table[i].kname \notin Temps \cup {VName}
       /\ Listed(i) => MaxRuns <= 1 /\ Table[i].kname \notin Bystanders

\* An archive that cannot be read leaves what was begun (a file damaged by
\* an earlier run is one), a rename(2) and a copy that both fail leave the
\* copy, and a crash leaves everything.
Tidy == /\ TidyNames
        /\ Faults \cap {"restart", "unpack", "copy"} = {}
        /\ Faults \cap {"full", "pack"} # {} => MaxRuns <= 1

\* Every row has a copy of its own.
CopiesApart ==
  /\ DistinctNames
  /\ \A i, j \in Rows : i # j => Table[i].tname # Table[j].tname
  /\ \A i \in Rows : /\ Table[i].tname # EName
                     /\ Table[i].kind = "kwaj" => Table[i].kname \notin Temps

\* And a step that fails to write or to replace a file shows it.
Surviving == CopiesApart /\ Faults \cap {"restart", "copy", "full"} = {}

\* A file is committed under no name another row needs, VMM32.VXD is the
\* one archive of drivers, and no file operation fails except the backup and
\* rename(2), whose failures files_commit makes good.
Exact ==
  /\ TidyNames
  /\ CopiesApart
  /\ \A i \in Rows : Table[i].kind = "pack" => Table[i].fname = VName
  /\ \A i, j \in Rows : i # j /\ Table[i].kind = "kwaj" /\ Table[j].kind = "kwaj" =>
       Table[i].kname # Table[j].kname
  /\ Faults \subseteq {"crash", "backup", "rename"}

--------------------------------------------------------------------------
(* The inductive invariant behind Recoverable and ImplementsSafeReplace    *)

\* Row i needs no care: it is not backed up, had no file, or is saved.
Safe(i) == i \in Guarded /\ orig[Table[i].fname] # Absent => SavedOf(i)

\* Branches that write the row's own file.
Unpacking == {"unpack", "unpackw3", "cab"}
\* Where files_commit may change the file of its item, and where it has
\* begun to.
Replacing == {"pack", "packing", "rename", "renaming", "copying", "drop", "dropcopy"}
Replaced  == {"packing", "renaming", "copying"}

\* A file is where it first was or in its backup, which is whole outside
\* the step that writes it.
Kept(i) ==
  LET o == orig[Table[i].fname]
      b == disk[Table[i].bname]
  IN  /\ o # Torn
      /\ o # Absent =>
           /\ Keeps(disk, i)
           /\ b \in {Absent, o, Torn}
           /\ b = Torn => pc = "crashed" \/ (pc = "backingup" /\ It.row = i)

BackupInv ==
  /\ \A i \in Guarded : Kept(i)
  /\ pc \in Replacing => Safe(It.row)
  /\ pc = "backingup" => disk[CR.bname] = Torn
  /\ pc \in Replaced => disk[CR.fname] \in {Absent, Torn}
  /\ \A j \in DOMAIN list : list[j].created => Safe(list[j].row)
  /\ pc \in LookupPC \ {"row"} /\ branch \in Unpacking => Safe(row)
  /\ pc \in {"unpackw3", "extract"} /\ branch \in Unpacking =>
       disk[R.fname] \in {Absent, Torn}
==============================================================================
