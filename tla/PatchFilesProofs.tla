-------------------------- MODULE PatchFilesProofs --------------------------
(***************************************************************************)
(* Proofs about PatchFiles.  For every table of rows, directory, lookup    *)
(* mode and set of faults: the variables have their types.                 *)
(*                                                                         *)
(* For every table whose names are distinct, every directory and every     *)
(* lookup mode: no file is lost between its backup and its replacement.    *)
(* The argument has two parts.  ChangesBy says which step may change which *)
(* path; BackupInv says that wherever such a step is possible the backup   *)
(* of the file already holds it.                                           *)
(*                                                                         *)
(* Then what a whole run does to the directory: which files it may change, *)
(* what a cancelled run and a commit leave behind, and that a commit makes *)
(* of every file what was announced.                                       *)
(***************************************************************************)
EXTENDS PatchFiles, TLAPS

--------------------------------------------------------------------------
(* Types                                                                   *)

\* The loops are inside their lists while they are at an element.
AtRow  == LookupPC \ {"row"}
AtItem == CommitPC \ {"commit"}

Positions == /\ pc \in AtRow => row <= Len(Table)
             /\ pc \in AtItem => k <= Len(list)

LEMMA RowTyped == \A i \in Rows : Table[i] \in Row
BY ConstantsAssumption DEF Rows

LEMMA DataTyped ==
  ASSUME NEW c \in Data
  PROVE  /\ \A form \in Form : As(c, form) \in Data
         /\ \A ver \in Version : Patched(c, ver) \in Data
         /\ Stored(c) \in Data
         /\ Written(c) \subseteq Data
<1>1. \A form \in Form : As(c, form) \in Data
  BY DEF As, Data, Content
<1>2. \A ver \in Version : Patched(c, ver) \in Data
  BY DEF Patched, Data, Content
<1>3. Stored(c) \in Data
  BY <1>1 DEF Stored, Form
<1>4. Written(c) \subseteq Data
  BY DEF Written, Data
<1> QED BY <1>1, <1>2, <1>3, <1>4

LEMMA DiskTyped ==
  ASSUME NEW d \in [Path -> Data], NEW p \in Path
  PROVE  /\ \A c \in Data : Put(d, p, c) \in [Path -> Data]
         /\ Unlink(d, p) \in [Path -> Data]
         /\ \A q \in Path : Move(d, q, p) \in [Path -> Data]
         /\ d[p] \in Data
BY DEF Put, Unlink, Move, Data

LEMMA OriginalTyped ==
  ASSUME NEW p \in Path, NEW ver \in Version, NEW w4 \in BOOLEAN
  PROVE  OriginalOf(p, ver, w4) \in Data
BY DEF OriginalOf, Data, Content, Form

LEMMA InitTyped == Init => TypeOK /\ Positions
<1> SUFFICES ASSUME Init PROVE TypeOK /\ Positions
  OBVIOUS
<1>1. disk \in [Path -> Data]
  <2>1. PICK w4 \in BOOLEAN, v \in [Own -> Versions \cup {"none"}] :
           disk = [p \in Path |-> IF p \notin Own THEN Absent
                                  ELSE IF v[p] = "none" THEN Absent
                                  ELSE OriginalOf(p, v[p], w4)]
    BY DEF Init
  <2>2. ASSUME NEW p \in Path, p \in Own, v[p] # "none"
        PROVE  OriginalOf(p, v[p], w4) \in Data
    BY <2>2, OriginalTyped, ConstantsAssumption
  <2> QED BY <2>1, <2>2 DEF Data
<1>2. inside \in [Rows -> Data]
  <2>1. PICK w4 \in BOOLEAN, v \in [Inner -> Versions \cup {"none"}] :
           inside = [i \in Rows |-> IF i \notin Inner THEN Absent
                                    ELSE IF v[i] = "none" THEN Absent
                                    ELSE OriginalOf(Table[i].fname, v[i], w4)]
    BY DEF Init
  <2>2. ASSUME NEW i \in Rows, i \in Inner, v[i] # "none"
        PROVE  OriginalOf(Table[i].fname, v[i], w4) \in Data
    BY <2>2, OriginalTyped, RowTyped, ConstantsAssumption DEF Row
  <2> QED BY <2>1, <2>2 DEF Data
<1>3. orig \in [Path -> Data] /\ before \in [Path -> Data]
  BY <1>1 DEF Init
<1>4. /\ row = 1 /\ k = 1 /\ list = << >> /\ runs = 0 /\ cnt = 0
      /\ pc = "start" /\ branch = "none" /\ result = "none" /\ after = "rename"
      /\ reverse = FALSE /\ made = FALSE /\ mode \in Modes
  BY DEF Init, Modes
<1>5. row \in 1 .. Len(Table) + 1 /\ runs \in 0 .. MaxRuns /\ k \in 1 .. Len(list) + 1
  BY <1>4, ConstantsAssumption
<1>6. pc \in PC /\ branch \in Branches /\ result \in Results /\ list \in Seq(Item)
  BY <1>4 DEF PC, Branches, Results
<1>7. Positions
  BY <1>4 DEF Positions, AtRow, AtItem, LookupPC, CommitPC
<1> QED BY <1>1, <1>2, <1>3, <1>4, <1>5, <1>6, <1>7 DEF TypeOK

\* What a state of the program says about the paths a step uses.
LEMMA RTyped ==
  ASSUME TypeOK, row <= Len(Table)
  PROVE  R \in Row /\ OutOf(Branch) \in Path /\ Source \in Path
<1>1. row \in Rows
  BY DEF TypeOK, Rows
<1>2. R \in Row
  BY <1>1, RowTyped DEF R
<1> QED BY <1>2, ConstantsAssumption DEF OutOf, Source, Row

LEMMA ItemTyped ==
  ASSUME TypeOK, k <= Len(list)
  PROVE  It \in Item /\ CR \in Row
<1>1. It \in Item
  BY DEF TypeOK, It
<1>2. It.row \in Rows
  BY <1>1 DEF Item
<1> QED BY <1>1, <1>2, RowTyped DEF CR

\* Actions of the lookup keep the types.
LEMMA LookupTyped ==
  ASSUME TypeOK, Positions, LookupStep
  PROVE  TypeOK' /\ Positions'
<1> USE DEF world, walk, scan
<1> USE ConstantsAssumption DEF PC, LookupPC, CommitPC, AtRow, AtItem, Branches, Results
<1>1. CASE SkipRow
  BY <1>1 DEF SkipRow, NextRow, InRow, TypeOK, Positions
<1>2. CASE OpenRow
  BY <1>2 DEF OpenRow, InRow, TypeOK, Positions
<1>3. CASE BeginExtract
  <2>1. disk' \in [Path -> Data]
    BY <1>3, RTyped, DiskTyped DEF BeginExtract, InRow, TypeOK, Data
  <2> QED BY <1>3, <2>1 DEF BeginExtract, InRow, TypeOK, Positions
<1>4. CASE UnpackW3
  <2>1. disk' \in [Path -> Data]
    <3>1. PICK c \in Written(As(disk[VName], "w3")) :
            disk' = IF inside[row] = Absent THEN Put(disk, EName, c)
                    ELSE Put(Put(disk, EName, c), R.fname, Torn)
      BY <1>4 DEF UnpackW3
    <3>2. disk[VName] \in Data
      BY DiskTyped DEF TypeOK
    <3>3. As(disk[VName], "w3") \in Data
      BY <3>2, DataTyped DEF Form
    <3>4. c \in Data
      BY <3>3, DataTyped
    <3>5. R.fname \in Path
      BY <1>4, RTyped DEF UnpackW3, Positions, Row
    <3>6. Put(disk, EName, c) \in [Path -> Data]
      BY <3>4, DiskTyped DEF TypeOK
    <3> QED BY <3>1, <3>5, <3>6, DiskTyped DEF Data
  <2> QED BY <1>4, <2>1 DEF UnpackW3, TypeOK, Positions
<1>5. CASE EndExtract
  <2>1. R \in Row /\ Source \in Path /\ row \in Rows
    BY <1>5, RTyped DEF EndExtract, Positions, TypeOK, Rows
  <2>2. Unpacked \in Data
    <3>1. disk[R.fname] \in Data /\ inside[row] \in Data
      BY <2>1, DiskTyped DEF Row, TypeOK
    <3> QED BY <3>1, DataTyped DEF Unpacked, Data, Form
  <2>3. \A c \in Data : Put(disk, Source, c) \in [Path -> Data]
    BY <2>1, DiskTyped DEF TypeOK
  <2>4. \A d \in [Path -> Data] : Unlink(d, EName) \in [Path -> Data]
    BY DiskTyped
  <2>5. PICK c \in IF Unpacked = Absent THEN {Absent} ELSE Written(Unpacked) :
           LET d == Put(disk, Source, c)
           IN  /\ disk' = IF branch = "unpackw3" THEN Unlink(d, EName) ELSE d
               /\ IF c = Absent THEN NextRow ELSE pc' = "patch" /\ UNCHANGED <<row, branch>>
    BY <1>5 DEF EndExtract
  <2>6. c \in Data
    BY <2>2, <2>5, DataTyped DEF Data
  <2>7. disk' \in [Path -> Data]
    BY <2>3, <2>4, <2>5, <2>6
  <2>8. /\ pc' \in {"row", "patch"} /\ row' \in 1 .. Len(Table) + 1
        /\ branch' \in Branches /\ Positions'
    BY <1>5, <2>5 DEF NextRow, EndExtract, TypeOK, Positions
  <2> QED BY <1>5, <2>7, <2>8 DEF EndExtract, TypeOK
<1>6. CASE ExtractFails
  BY <1>6 DEF ExtractFails, NextRow, TypeOK, Positions
<1>7. CASE BeginPatch
  <2>1. disk' \in [Path -> Data]
    BY <1>7, RTyped, DiskTyped DEF BeginPatch, TypeOK, Positions, Row, Data
  <2> QED BY <1>7, <2>1 DEF BeginPatch, TypeOK, Positions
<1>8. ASSUME NEW d \in [Path -> Data], NEW applied \in BOOLEAN, AddItem(d, applied),
             pc \in AtRow, UNCHANGED <<world, walk, result>>
      PROVE  TypeOK' /\ Positions'
  <2>0. EName \in Path /\ Unlink(d, EName) \in [Path -> Data]
    BY DiskTyped
  <2>1. disk' \in [Path -> Data] /\ made' \in BOOLEAN
    BY <1>8, <2>0 DEF AddItem, TypeOK
  <2>2. row \in Rows
    BY <1>8 DEF Positions, TypeOK, Rows
  <2>3. [row |-> row, applied |-> applied,
         created |-> branch \in {"unpack", "unpackw3", "cab"}] \in Item
    BY <2>2 DEF Item
  <2>4. list' \in Seq(Item) /\ Len(list') = Len(list) + 1
    BY <1>8, <2>3 DEF AddItem, TypeOK
  <2> QED BY <1>8, <2>1, <2>4 DEF AddItem, NextRow, TypeOK, Positions
<1>9. CASE EndPatch
  <2>1. R \in Row /\ Source \in Path
    BY <1>9, RTyped DEF EndPatch, Positions
  <2>2. Patched(disk[Source], To) \in Data
    BY <2>1, DiskTyped, DataTyped DEF To, Version, TypeOK
  <2>3. PICK new \in Written(Patched(disk[Source], To)) :
           AddItem(Put(disk, R.tname, new), TRUE)
    BY <1>9 DEF EndPatch
  <2>4. Put(disk, R.tname, new) \in [Path -> Data]
    BY <2>1, <2>2, <2>3, DataTyped, DiskTyped DEF Row, TypeOK
  <2> QED BY <1>8, <1>9, <2>3, <2>4 DEF EndPatch
<1>10. CASE NoPatch
  BY <1>8, <1>10 DEF NoPatch, TypeOK
<1>11. CASE EndLookup
  <2>1. disk' \in [Path -> Data]
    BY <1>11, DiskTyped DEF EndLookup, TypeOK
  <2> QED BY <1>11, <2>1 DEF EndLookup, TypeOK, Positions
<1> QED BY <1>1, <1>2, <1>3, <1>4, <1>5, <1>6, <1>7, <1>9, <1>10, <1>11 DEF LookupStep

\* Actions of the commit and of the cleanup keep the types.
LEMMA CommitTyped ==
  ASSUME TypeOK, Positions, CleanupStep \/ CommitStep
  PROVE  TypeOK' /\ Positions'
<1> USE ConstantsAssumption DEF world, walk, scan, PC, LookupPC, CommitPC, AtRow, AtItem, Results
<1>1. ASSUME k <= Len(list)
      PROVE  /\ CR.fname \in Path /\ CR.tname \in Path /\ CR.bname \in Path
             /\ CR.kname \in Path /\ It \in Item
  BY <1>1, ItemTyped DEF Row
<1>2. \A d \in [Path -> Data], p \in Path :
        /\ \A c \in Data : Put(d, p, c) \in [Path -> Data]
        /\ Unlink(d, p) \in [Path -> Data]
        /\ \A q \in Path : Move(d, q, p) \in [Path -> Data]
        /\ d[p] \in Data
  BY DiskTyped
<1>3. \A c \in Data : As(c, "w4") \in Data /\ Stored(c) \in Data /\ Written(c) \subseteq Data
  BY DataTyped DEF Form
<1>4. Torn \in Data /\ Absent \in Data
  BY DEF Data
<1>5. CASE CleanupItem
  <2>1. disk' \in [Path -> Data]
    BY <1>1, <1>2, <1>5 DEF CleanupItem, InItem, TypeOK
  <2> QED BY <1>5, <2>1 DEF CleanupItem, InItem, TypeOK, Positions
<1>6. CASE CleanupDone
  BY <1>6 DEF CleanupDone, TypeOK, Positions
<1>7. CASE CommitUnselected
  <2>1. disk' \in [Path -> Data]
    BY <1>1, <1>2, <1>7 DEF CommitUnselected, InItem, TypeOK
  <2> QED BY <1>7, <2>1 DEF CommitUnselected, NextItem, InItem, TypeOK, Positions
<1>8. CASE CommitFile \/ CommitKwaj \/ CommitDone
  BY <1>8 DEF CommitFile, CommitKwaj, CommitDone, InItem, TypeOK, Positions
<1>9. CASE NoBackupMade \/ PackMissed \/ PackRefused \/ KwajFails
  BY <1>9 DEF NoBackupMade, PackMissed, PackRefused, KwajFails, FallBack, TypeOK, Positions
<1>10. CASE BeginBackup \/ BeginPack \/ BeginKwaj \/ RenameCopies
  <2>0. k <= Len(list)
    BY <1>10 DEF BeginBackup, BeginPack, BeginKwaj, RenameCopies, Positions
  <2>1. disk' \in {Put(disk, CR.bname, Torn), Put(disk, CR.fname, Torn)}
    BY <1>10 DEF BeginBackup, BeginPack, BeginKwaj, RenameCopies
  <2>2. CR.fname \in Path /\ CR.bname \in Path /\ disk \in [Path -> Data]
    BY <1>1, <2>0 DEF TypeOK
  <2>3. \A c \in Data : /\ Put(disk, CR.bname, c) \in [Path -> Data]
                       /\ Put(disk, CR.fname, c) \in [Path -> Data]
    BY <1>2, <2>2
  <2>4. disk' \in [Path -> Data]
    BY <1>4, <2>1, <2>3
  <2> QED BY <1>10, <2>4 DEF BeginBackup, BeginPack, BeginKwaj, RenameCopies, TypeOK, Positions
<1>11. CASE EndBackup \/ EndPack \/ EndKwaj \/ EndCopy
  <2>0. k <= Len(list)
    BY <1>11 DEF EndBackup, EndPack, EndKwaj, EndCopy, Positions
  <2>1. disk[CR.fname] \in Data /\ disk[CR.tname] \in Data
    BY <1>1, <1>2, <2>0 DEF TypeOK
  <2>2. CR.fname \in Path /\ CR.bname \in Path /\ disk \in [Path -> Data]
    BY <1>1, <2>0 DEF TypeOK
  <2>3. \E c \in Data : disk' \in {Put(disk, CR.fname, c), Put(disk, CR.bname, c)}
    <3>1. CASE EndBackup
      BY <1>3, <2>1, <3>1 DEF EndBackup
    <3>2. CASE EndPack
      BY <1>3, <2>1, <3>2 DEF EndPack
    <3>3. CASE EndKwaj
      BY <1>3, <2>1, <3>3 DEF EndKwaj
    <3>4. CASE EndCopy
      BY <1>3, <2>1, <3>4 DEF EndCopy
    <3> QED BY <1>11, <3>1, <3>2, <3>3, <3>4
  <2>4. \A c \in Data : /\ Put(disk, CR.bname, c) \in [Path -> Data]
                       /\ Put(disk, CR.fname, c) \in [Path -> Data]
    BY <1>2, <2>2
  <2>5. disk' \in [Path -> Data]
    BY <2>3, <2>4
  <2> QED BY <1>11, <2>5 DEF EndBackup, EndPack, EndKwaj, EndCopy, TypeOK, Positions
<1>12. CASE RenameUnlink
  <2>1. disk' \in [Path -> Data]
    BY <1>1, <1>2, <1>12 DEF RenameUnlink, TypeOK, Positions
  <2> QED BY <1>12, <2>1 DEF RenameUnlink, TypeOK, Positions
<1>13. CASE Drop \/ RenameMove \/ DropCopy
  <2>0. k <= Len(list)
    BY <1>13 DEF Drop, RenameMove, DropCopy, Positions
  <2>1. /\ CR.fname \in Path /\ CR.tname \in Path /\ CR.kname \in Path
        /\ disk \in [Path -> Data]
    BY <1>1, <2>0 DEF TypeOK
  <2>2. /\ Unlink(disk, CR.tname) \in [Path -> Data]
        /\ Unlink(Unlink(disk, CR.tname), CR.kname) \in [Path -> Data]
        /\ Move(disk, CR.tname, CR.fname) \in [Path -> Data]
    BY <1>2, <2>1
  <2>3. disk' \in {Unlink(disk, CR.tname), Move(disk, CR.tname, CR.fname),
                  Unlink(Unlink(disk, CR.tname), CR.kname)}
    BY <1>13 DEF Drop, RenameMove, DropCopy
  <2>4. disk' \in [Path -> Data]
    BY <2>2, <2>3
  <2> QED BY <1>13, <2>4, SMTT(60) DEF Drop, RenameMove, DropCopy, NextItem, TypeOK, Positions
<1>14. CASE RenameNothing \/ RenameLost
  BY <1>14, SMTT(40) DEF RenameNothing, RenameLost, NextItem, TypeOK, Positions
<1> QED BY <1>5, <1>6, <1>7, <1>8, <1>9, <1>10, <1>11, <1>12, <1>13, <1>14
        DEF CleanupStep, CommitStep, BackupStep, PackStep, RenameStep

LEMMA NextTyped == TypeOK /\ Positions /\ [Next]_vars => TypeOK' /\ Positions'
<1> SUFFICES ASSUME TypeOK, Positions, [Next]_vars
             PROVE  TypeOK' /\ Positions'
  OBVIOUS
<1>1. CASE Start
  <2>1. runs' \in 0 .. MaxRuns /\ row' \in 1 .. Len(Table) + 1
    BY <1>1, ConstantsAssumption DEF Start, TypeOK
  <2>2. list' = << >> /\ k' = 1 /\ pc' = "row"
    BY <1>1 DEF Start
  <2>3. list' \in Seq(Item) /\ k' \in 1 .. Len(list') + 1
    BY <2>2
  <2>4. Positions'
    BY <2>2 DEF Positions, LookupPC, CommitPC, AtRow, AtItem
  <2>5. mode' \in Modes
    BY <1>1, ConstantsAssumption DEF Start
  <2> QED BY <1>1, <2>1, <2>2, <2>3, <2>4, <2>5 DEF Start, TypeOK, PC, LookupPC, Branches, Results
<1>2. CASE AnswerYes \/ AnswerNo \/ Crash \/ Status
  BY <1>2 DEF AnswerYes, AnswerNo, Crash, Status, TypeOK, Positions, PC, LookupPC, CommitPC,
              AtRow, AtItem, Results, world, walk, scan
<1>3. CASE UNCHANGED vars
  BY <1>3 DEF vars, world, walk, scan, TypeOK, Positions
<1> QED BY <1>1, <1>2, <1>3, LookupTyped, CommitTyped DEF Next, Step

\* In every state of every run the directory holds data of the kinds the
\* model knows and the loops of files.c stay inside their lists.
THEOREM TypeCorrect == Spec => [](TypeOK /\ Positions)
BY InitTyped, NextTyped, PTL DEF Spec

--------------------------------------------------------------------------
(* Backups                                                                 *)

\* What the theorems assume of the options, the table and the environment:
\* backups are made, whole, where none is there, and a crash is the end.
Careful == /\ DistinctNames
           /\ ~NoBackup
           /\ Faults \cap {"restart", "backup", "full"} = {}

\* What the steps between two tests of a kind remember of it.
Kinds ==
  /\ pc \in {"kwaj", "kwajing"} => CR.kind = "kwaj"
  /\ pc \in AtRow /\ branch = "kwaj" => R.kind = "kwaj"
  /\ pc = "unpackw3" => branch = "unpackw3"
  /\ pc = "extract" => branch \in {"kwaj", "w3"} \cup Unpacking

\* Everything known of every state besides the backups.
Base == TypeOK /\ Positions /\ Kinds

--------------------------------------------------------------------------
(* Which step may change which path                                        *)

LEMMA RowsAre ==
  ASSUME Base
  PROVE  /\ row <= Len(Table) => row \in Rows
         /\ k <= Len(list) => It \in Item /\ It.row \in Rows /\ CR = Table[It.row]
BY ItemTyped DEF Base, TypeOK, Rows, Item, CR

LEMMA KindsInit == Init => Kinds
BY DEF Init, Kinds, AtRow, LookupPC

\* The steps of a row and of an item stay at that row and that item.
LEMMA KindsNext == Base /\ [Next]_vars => Kinds'
<1> SUFFICES ASSUME Base, [Next]_vars PROVE Kinds'
  OBVIOUS
<1> USE DEF Base, Kinds, AtRow, LookupPC, world, walk, scan
<1>1. CASE Start
  BY <1>1 DEF Start
<1>2. CASE AnswerYes \/ AnswerNo \/ Crash \/ Status
  BY <1>2 DEF AnswerYes, AnswerNo, Crash, Status
<1>3. CASE SkipRow \/ ExtractFails \/ EndPatch \/ NoPatch \/ EndLookup
  BY <1>3 DEF SkipRow, ExtractFails, EndPatch, NoPatch, EndLookup, AddItem, NextRow, InRow
<1>4. CASE OpenRow \/ BeginPatch \/ UnpackW3
  BY <1>4 DEF OpenRow, BeginPatch, UnpackW3, Unpacking, R
<1>5. CASE BeginExtract
  BY <1>5 DEF BeginExtract, Branch, Unpacking, R
<1>6. CASE EndExtract
  BY <1>6 DEF EndExtract, NextRow, R
<1>7. CASE CleanupStep
  BY <1>7 DEF CleanupStep, CleanupItem, CleanupDone, InItem
<1>8. CASE CommitUnselected \/ CommitFile \/ CommitKwaj \/ CommitDone
  BY <1>8 DEF CommitUnselected, CommitFile, CommitKwaj, CommitDone, NextItem, InItem, CR, It
<1>9. CASE BackupStep
  BY <1>9 DEF BackupStep, NoBackupMade, BeginBackup, EndBackup, TypeOK
<1>10. CASE PackStep
  BY <1>10 DEF PackStep, BeginPack, EndPack, PackMissed, PackRefused, BeginKwaj, EndKwaj,
               KwajFails, Drop, FallBack, NextItem, CR, It
<1>11. CASE RenameStep
  BY <1>11 DEF RenameStep, RenameNothing, RenameUnlink, RenameMove, RenameCopies, RenameLost,
               EndCopy, DropCopy, NextItem
<1>12. CASE UNCHANGED vars
  BY <1>12 DEF vars, CR, It, R
<1> QED BY <1>1, <1>2, <1>3, <1>4, <1>5, <1>6, <1>7, <1>8, <1>9, <1>10, <1>11, <1>12
        DEF Next, Step, LookupStep, CommitStep

\* The steps that change the file of the row or the item they are at.
Unpacks(q) == /\ row <= Len(Table)
              /\ q = R.fname
              /\ \/ pc = "row" /\ disk[q] = Absent
                 \/ pc \in {"unpackw3", "extract"} /\ branch \in Unpacking
Removes(q) == /\ pc \in {"cleanup", "commit"}
              /\ k <= Len(list)
              /\ It.created
              /\ q = CR.fname
Replaces(q) == /\ pc \in Replacing \cup {"kwaj", "kwajing"}
               /\ q = CR.fname
Saves(q) == /\ BeginBackup \/ EndBackup
            /\ q = CR.bname
\* What a KWAJ archive unpacks to is only made where nothing has its name.
UnpacksKwaj(q) == /\ row <= Len(Table)
                  /\ R.kind = "kwaj"
                  /\ q = R.kname
                  /\ \/ pc = "row" /\ Branch = "kwaj" /\ disk[q] = Absent
                     \/ pc = "extract" /\ branch = "kwaj"
RemovesKwaj(q) == /\ pc \in {"cleanup", "drop"}
                  /\ k <= Len(list)
                  /\ CR.kind = "kwaj"
                  /\ q = CR.kname

LEMMA ChangesBy ==
  ASSUME Base, [Next]_vars, NEW q \in Path, disk'[q] # disk[q]
  PROVE  \/ q \in Temps
         \/ Unpacks(q) \/ UnpacksKwaj(q)
         \/ Removes(q) \/ RemovesKwaj(q)
         \/ Replaces(q)
         \/ Saves(q)
<1> USE DEF Base
<1>0. disk \in [Path -> Data] /\ EName \in Temps /\ EName \in Path
  BY ConstantsAssumption DEF TypeOK, Temps
<1>1. row <= Len(Table) => R \in Row /\ R.tname \in Temps
  BY RowsAre, RTyped DEF Temps, R
<1>2. k <= Len(list) => CR \in Row /\ CR.tname \in Temps
  BY RowsAre, ItemTyped DEF Temps
<1>3. CASE LookupStep
  <2>1. CASE BeginExtract
    <3>1. q = OutOf(Branch) /\ pc = "row" /\ row <= Len(Table)
      BY <1>0, <2>1 DEF BeginExtract, InRow, Put
    <3>2. \/ Branch = "kwaj" /\ R.kind = "kwaj" /\ disk[R.kname] = Absent
          \/ Branch = "w3"
          \/ Branch = "unpackw3"
          \/ Branch \in {"unpack", "cab"} /\ disk[R.fname] = Absent
      BY <2>1 DEF BeginExtract, Branch, Exists
    <3> QED BY <1>0, <1>1, <3>1, <3>2 DEF OutOf, Unpacks, UnpacksKwaj
  <2>2. CASE UnpackW3
    <3>1. PICK c : disk' = IF inside[row] = Absent THEN Put(disk, EName, c)
                           ELSE Put(Put(disk, EName, c), R.fname, Torn)
      BY <2>2 DEF UnpackW3
    <3>2. pc = "unpackw3" /\ branch \in Unpacking /\ row <= Len(Table)
      BY <2>2 DEF UnpackW3, Kinds, Unpacking, Positions, AtRow, LookupPC
    <3> QED BY <1>0, <3>1, <3>2 DEF Unpacks, Put
  <2>3. CASE EndExtract
    <3>1. PICK c : disk' \in {Put(disk, Source, c), Unlink(Put(disk, Source, c), EName)}
      BY <2>3 DEF EndExtract
    <3>2. pc = "extract" /\ row <= Len(Table) /\ branch \in {"kwaj", "w3"} \cup Unpacking
      BY <2>3 DEF EndExtract, Kinds, Positions, AtRow, LookupPC
    <3>3. q = Source \/ q = EName
      BY <1>0, <3>1 DEF Put, Unlink
    <3>4. \/ branch \in Unpacking /\ Source = R.fname
          \/ branch = "kwaj" /\ Source = R.kname /\ R.kind = "kwaj"
          \/ branch = "w3" /\ Source = EName
      BY <3>2 DEF Source, OutOf, Kinds, Unpacking, AtRow, LookupPC
    <3> QED BY <1>0, <1>1, <3>2, <3>3, <3>4 DEF Unpacks, UnpacksKwaj
  <2>4. CASE BeginPatch
    BY <1>0, <1>1, <2>4 DEF BeginPatch, Put, Positions, AtRow, LookupPC
  <2>5. ASSUME NEW d, NEW applied, AddItem(d, applied), d = disk \/ \E c : d = Put(disk, R.tname, c),
               row <= Len(Table)
        PROVE  q \in Temps
    <3>1. PICK c : d \in {disk, Put(disk, R.tname, c)}
      BY <2>5
    <3>2. disk' \in {d, Unlink(d, EName)}
      BY <2>5 DEF AddItem
    <3> QED BY <1>0, <1>1, <2>5, <3>1, <3>2 DEF Put, Unlink
  <2>6. CASE EndPatch
    BY <2>5, <2>6 DEF EndPatch, Positions, AtRow, LookupPC
  <2>7. CASE NoPatch
    BY <2>5, <2>7 DEF NoPatch, Positions, AtRow, LookupPC
  <2>8. CASE EndLookup
    BY <1>0, <2>8 DEF EndLookup, Unlink
  <2>9. CASE SkipRow \/ OpenRow \/ ExtractFails
    BY <2>9 DEF SkipRow, OpenRow, ExtractFails
  <2> QED BY <1>3, <2>1, <2>2, <2>3, <2>4, <2>6, <2>7, <2>8, <2>9 DEF LookupStep
<1>4. CASE CleanupItem \/ CommitUnselected
  <2>1. k <= Len(list) /\ pc \in {"cleanup", "commit"}
    BY <1>4 DEF CleanupItem, CommitUnselected, InItem
  <2>2. \/ q = CR.tname
        \/ q = CR.fname /\ It.created
        \/ q = CR.kname /\ CR.kind = "kwaj" /\ pc = "cleanup"
    BY <1>0, <1>4 DEF CleanupItem, CommitUnselected, Unlink, InItem
  <2> QED BY <1>2, <2>1, <2>2 DEF Removes, RemovesKwaj
<1>5. ASSUME pc \in AtItem
      PROVE  k <= Len(list)
  BY <1>5 DEF Positions
<1>6. CASE BeginBackup \/ EndBackup
  <2>1. PICK c : disk' = Put(disk, CR.bname, c)
    BY <1>6 DEF BeginBackup, EndBackup
  <2> QED BY <1>0, <1>6, <2>1 DEF Saves, Put
<1>7. CASE BeginPack \/ EndPack \/ BeginKwaj \/ EndKwaj
  <2>1. PICK c : disk' = Put(disk, CR.fname, c)
    BY <1>7 DEF BeginPack, EndPack, BeginKwaj, EndKwaj
  <2> QED BY <1>0, <1>7, <2>1
          DEF Put, BeginPack, EndPack, BeginKwaj, EndKwaj, Replaces, Replacing
<1>8. CASE RenameCopies \/ EndCopy \/ RenameUnlink
  <2>1. PICK c : disk' = Put(disk, CR.fname, c)
    BY <1>8 DEF RenameCopies, EndCopy, RenameUnlink, Put, Unlink
  <2> QED BY <1>0, <1>8, <2>1
          DEF Put, RenameCopies, EndCopy, RenameUnlink, Replaces, Replacing
<1>9. CASE Drop \/ DropCopy \/ RenameMove
  <2>1. k <= Len(list) /\ pc \in Replacing
    BY <1>5, <1>9 DEF Drop, DropCopy, RenameMove, AtItem, CommitPC, Replacing
  <2>2. q \in {CR.tname, CR.fname} \/ (q = CR.kname /\ CR.kind = "kwaj" /\ pc = "drop")
    BY <1>0, <1>9 DEF Drop, DropCopy, RenameMove, Unlink, Move
  <2> QED BY <1>2, <2>1, <2>2 DEF Replaces, RemovesKwaj
<1>10. CASE Start \/ AnswerYes \/ AnswerNo \/ Crash \/ Status \/ CleanupDone \/ UNCHANGED vars
  BY <1>10 DEF Start, AnswerYes, AnswerNo, Crash, Status, CleanupDone, vars
<1>11. CASE CommitFile \/ CommitKwaj \/ CommitDone \/ NoBackupMade \/ PackMissed
             \/ PackRefused \/ KwajFails \/ RenameNothing \/ RenameLost
  BY <1>11 DEF CommitFile, CommitKwaj, CommitDone, NoBackupMade, PackMissed, PackRefused,
               KwajFails, RenameNothing, RenameLost
<1> QED BY <1>3, <1>4, <1>6, <1>7, <1>8, <1>9, <1>10, <1>11
        DEF Next, Step, CleanupStep, CommitStep, BackupStep, PackStep, RenameStep

--------------------------------------------------------------------------
(* BackupInv is inductive                                                  *)

\* The step that changes the file or the backup of a row works on that row.
LEMMA ChangesRow ==
  ASSUME Base, DistinctNames, [Next]_vars, NEW i \in Guarded
  PROVE  /\ disk'[Table[i].fname] # disk[Table[i].fname] =>
              \/ /\ row = i
                 /\ \/ pc = "row" /\ disk[Table[i].fname] = Absent
                    \/ pc \in {"unpackw3", "extract"} /\ branch \in Unpacking
              \/ /\ k <= Len(list) /\ It.row = i
                 /\ \/ pc \in {"cleanup", "commit"} /\ It.created
                    \/ pc \in Replacing
         /\ disk'[Table[i].bname] # disk[Table[i].bname] =>
              k <= Len(list) /\ It.row = i /\ (BeginBackup \/ EndBackup)
<1> DEFINE f == Table[i].fname
           b == Table[i].bname
<1>1. i \in Rows /\ Table[i].kind # "kwaj"
  BY DEF Guarded
<1>2. f \in Path /\ b \in Path
  BY <1>1, RowTyped DEF Row
<1>3. /\ f \notin Temps /\ b \notin Temps
      /\ \A j \in Rows : Table[j].kind = "kwaj" => Table[j].kname \notin {f, b}
  BY <1>1 DEF DistinctNames, Temps
<1>4. \A j \in Rows : /\ Table[j].fname = f => j = i
                      /\ Table[j].bname = b => j = i
                      /\ Table[j].bname # f
                      /\ Table[j].fname # b
  BY <1>1 DEF DistinctNames
<1>5. row <= Len(Table) => row \in Rows /\ R = Table[row]
  BY RowsAre DEF R
<1>6. pc \in AtItem => k <= Len(list)
  BY DEF Base, Positions
<1>7. k <= Len(list) => It.row \in Rows /\ CR = Table[It.row]
  BY RowsAre
<1>8. pc \in Replacing \cup {"kwaj", "kwajing", "backup", "backingup"} => k <= Len(list)
  BY <1>6 DEF Replacing, AtItem, CommitPC
<1>9. ASSUME disk'[f] # disk[f]
      PROVE  \/ /\ row = i
                /\ \/ pc = "row" /\ disk[f] = Absent
                   \/ pc \in {"unpackw3", "extract"} /\ branch \in Unpacking
             \/ /\ k <= Len(list) /\ It.row = i
                /\ \/ pc \in {"cleanup", "commit"} /\ It.created
                   \/ pc \in Replacing
  <2>1. Unpacks(f) \/ Removes(f) \/ Replaces(f) \/ Saves(f)
    BY <1>2, <1>3, <1>5, <1>7, <1>9, ChangesBy DEF UnpacksKwaj, RemovesKwaj
  <2>2. CASE Unpacks(f)
    BY <1>4, <1>5, <2>2 DEF Unpacks
  <2>3. CASE Removes(f)
    BY <1>4, <1>7, <2>3 DEF Removes
  <2>4. CASE Replaces(f)
    <3>1. It.row = i /\ k <= Len(list)
      BY <1>4, <1>7, <1>8, <2>4 DEF Replaces
    <3>2. pc \notin {"kwaj", "kwajing"}
      BY <1>1, <1>7, <3>1 DEF Base, Kinds
    <3> QED BY <2>4, <3>1, <3>2 DEF Replaces
  <2>5. CASE Saves(f)
    BY <1>4, <1>7, <1>8, <2>5 DEF Saves, BeginBackup, EndBackup
  <2> QED BY <2>1, <2>2, <2>3, <2>4, <2>5
<1>10. ASSUME disk'[b] # disk[b]
       PROVE  k <= Len(list) /\ It.row = i /\ (BeginBackup \/ EndBackup)
  <2>1. Unpacks(b) \/ Removes(b) \/ Replaces(b) \/ Saves(b)
    BY <1>2, <1>3, <1>5, <1>7, <1>10, ChangesBy DEF UnpacksKwaj, RemovesKwaj
  <2>2. ~Unpacks(b) /\ ~Removes(b) /\ ~Replaces(b)
    BY <1>4, <1>5, <1>7, <1>8 DEF Unpacks, Removes, Replaces
  <2>3. Saves(b)
    BY <2>1, <2>2
  <2> QED BY <1>4, <1>7, <1>8, <2>3 DEF Saves, BeginBackup, EndBackup
<1> QED BY <1>9, <1>10

LEMMA OrigKept == [Next]_vars => orig' = orig
BY DEF Next, vars, world, Start, AnswerYes, AnswerNo, Crash, Step, LookupStep, Status,
       CleanupStep, CommitStep, BackupStep, PackStep, RenameStep, SkipRow, OpenRow,
       BeginExtract, UnpackW3, EndExtract, ExtractFails, BeginPatch, EndPatch, NoPatch,
       EndLookup, CleanupItem, CleanupDone, CommitUnselected, CommitFile, CommitKwaj,
       CommitDone, NoBackupMade, BeginBackup, EndBackup, BeginPack, EndPack, PackMissed,
       PackRefused, BeginKwaj, EndKwaj, KwajFails, Drop, RenameNothing, RenameUnlink,
       RenameMove, RenameCopies, RenameLost, EndCopy, DropCopy

\* Before the first run no backup exists and no file is torn.
LEMMA BackupStartsEmpty ==
  ASSUME DistinctNames, Init, NEW i \in Guarded
  PROVE  disk[Table[i].bname] = Absent /\ disk[Table[i].fname] # Torn
<1>1. PICK w4 \in BOOLEAN, v \in [Own -> Versions \cup {"none"}] :
         disk = [p \in Path |-> IF p \notin Own THEN Absent
                                ELSE IF v[p] = "none" THEN Absent
                                ELSE OriginalOf(p, v[p], w4)]
  BY DEF Init
<1>2. i \in Rows /\ Table[i].bname \in Path /\ Table[i].fname \in Path
  BY RowTyped DEF Guarded, Row
<1>3. Table[i].bname \notin Own
  BY <1>2 DEF DistinctNames, Own, FNames
<1>4. ASSUME NEW p \in Own, v[p] # "none", p \in Path
      PROVE  OriginalOf(p, v[p], w4) # Torn
  <2>1. v[p] \in Version
    BY <1>4, ConstantsAssumption
  <2>2. OriginalOf(p, v[p], w4) \in Content
    BY <1>4, <2>1 DEF OriginalOf, Content, Form
  <2> QED BY <2>2, DataAssumption
<1> QED BY <1>1, <1>2, <1>3, <1>4, DataAssumption

LEMMA BackupInit ==
  ASSUME DistinctNames, Init
  PROVE  BackupInv
<1>1. pc = "start" /\ list = << >> /\ orig = disk /\ branch = "none"
  BY DEF Init
<1>2. \A i \in Guarded : Kept(i)
  BY <1>1, BackupStartsEmpty, DataAssumption DEF Kept, Keeps
<1> QED BY <1>1, <1>2 DEF BackupInv, Replacing, Replaced, LookupPC

\* A file that is not in its place is saved.
LEMMA MissingIsSafe ==
  ASSUME BackupInv, NEW i \in Rows, disk[Table[i].fname] \in {Absent, Torn},
         pc # "backingup", pc # "crashed"
  PROVE  Safe(i)
BY DataAssumption DEF BackupInv, Kept, Keeps, Safe, SavedOf

\* What is saved stays saved.
LEMMA SafeStays ==
  ASSUME Base, DistinctNames, BackupInv, [Next]_vars, NEW i \in Rows, Safe(i)
  PROVE  Safe(i)'
<1> SUFFICES ASSUME i \in Guarded, orig[Table[i].fname] # Absent
             PROVE  SavedOf(i)'
  BY OrigKept DEF Safe
<1>1. SavedOf(i)
  BY DEF Safe
<1>2. CASE disk'[Table[i].bname] = disk[Table[i].bname]
  BY <1>1, <1>2, OrigKept DEF SavedOf
<1>3. CASE disk'[Table[i].bname] # disk[Table[i].bname]
  <2>1. k <= Len(list) /\ It.row = i /\ (BeginBackup \/ EndBackup)
    BY <1>3, ChangesRow
  <2>2. CR = Table[i]
    BY <2>1, RowsAre
  <2>3. ~BeginBackup
    BY <1>1, <2>2 DEF BeginBackup, Exists, SavedOf
  <2>4. ~EndBackup
    BY <1>1, <2>2 DEF EndBackup, BackupInv, Kept, SavedOf
  <2> QED BY <2>1, <2>3, <2>4
<1> QED BY <1>2, <1>3

LEMMA KeptStays ==
  ASSUME Base, Careful, BackupInv, [Next]_vars, NEW i \in Guarded
  PROVE  Kept(i)'
<1> DEFINE f == Table[i].fname
           b == Table[i].bname
           o == orig[f]
<1>0. i \in Rows /\ f \in Path /\ b \in Path
  BY RowTyped DEF Guarded, Row
<1>1. o # Torn /\ orig' = orig
  BY OrigKept DEF BackupInv, Kept
<1> SUFFICES ASSUME o # Absent
             PROVE  /\ o \in {disk'[f], disk'[b]}
                    /\ disk'[b] \in {Absent, o, Torn}
                    /\ disk'[b] = Torn => pc' = "crashed" \/ (pc' = "backingup" /\ It'.row = i)
  BY <1>1 DEF Kept, Keeps
<1>2. /\ o \in {disk[f], disk[b]}
      /\ disk[b] \in {Absent, o, Torn}
      /\ disk[b] = Torn => pc = "crashed" \/ (pc = "backingup" /\ It.row = i)
  BY DEF BackupInv, Kept, Keeps
<1>3. CASE disk'[b] = o
  BY <1>1, <1>3
<1>4. ASSUME disk'[b] # disk[b], disk'[b] # o
      PROVE  /\ disk'[b] = Torn /\ disk'[f] = o
             /\ pc' = "backingup" /\ It'.row = i
  <2>1. k <= Len(list) /\ It.row = i /\ CR = Table[i] /\ (BeginBackup \/ EndBackup)
    BY <1>4, ChangesRow, RowsAre DEF Careful
  <2>2. CASE BeginBackup
    <3>1. disk' = Put(disk, b, Torn) /\ disk[b] = Absent /\ pc' = "backingup" /\ It' = It
      BY <2>1, <2>2 DEF BeginBackup, Exists, It, scan, walk
    <3>2. disk[f] = o /\ f # b
      BY <1>0, <1>2, <3>1 DEF Careful, DistinctNames
    <3> QED BY <1>0, <2>1, <3>1, <3>2 DEF Put, Base, TypeOK
  <2>3. CASE EndBackup
    <3>1. disk[b] = Torn
      BY <2>1, <2>3 DEF EndBackup, BackupInv
    <3>2. disk[f] = o
      BY <1>1, <1>2, <3>1
    <3>3. disk' = Put(disk, b, o)
      BY <2>1, <2>3, <3>2 DEF EndBackup, Written, Careful
    <3> QED BY <1>0, <1>4, <3>3 DEF Put, Base, TypeOK
  <2> QED BY <2>1, <2>2, <2>3
<1>5. ASSUME disk'[b] = disk[b], disk'[b] # o
      PROVE  /\ disk'[f] = o
             /\ disk'[b] = Torn => pc' = "crashed" \/ (pc' = "backingup" /\ It'.row = i)
  <2>1. disk[f] = o
    BY <1>2, <1>5
  <2>2. disk'[f] = disk[f]
    <3>1. ~Safe(i)
      BY <1>5 DEF Safe, SavedOf
    <3>2. \A j \in DOMAIN list : list[j].created => Safe(list[j].row)
      BY DEF BackupInv
    <3>3. k <= Len(list) /\ It.row = i => ~It.created
      BY <3>1, <3>2 DEF It, Base, TypeOK
    <3>4. pc \in Replacing => It.row # i
      BY <3>1 DEF BackupInv
    <3>5. pc \in {"unpackw3", "extract"} /\ branch \in Unpacking => row # i
      BY <3>1 DEF BackupInv, LookupPC
    <3>6. disk[f] # Absent
      BY <2>1
    <3> QED BY <3>3, <3>4, <3>5, <3>6, ChangesRow DEF Careful
  <2>3. ASSUME disk[b] = Torn, pc # "crashed"
        PROVE  pc' = "crashed" \/ (pc' = "backingup" /\ It'.row = i)
    <3>1. pc = "backingup" /\ It.row = i
      BY <1>2, <2>3
    <3>2. CASE Crash
      BY <3>2 DEF Crash
    <3>3. CASE UNCHANGED vars
      BY <3>1, <3>3 DEF vars, It, scan, walk
    <3>4. CASE EndBackup
      <4>1. CR = Table[i]
        BY <3>1, RowsAre DEF Base, Positions, AtItem, CommitPC
      <4>2. disk' = Put(disk, b, o)
        BY <2>1, <3>4, <4>1 DEF EndBackup, Written, Careful
      <4> QED BY <1>0, <1>5, <4>2 DEF Put, Base, TypeOK
    <3> QED
      BY <3>1, <3>2, <3>3, <3>4
      DEF Next, Start, AnswerYes, AnswerNo, Step, LookupStep, Status,
          CleanupStep, CommitStep, BackupStep, PackStep, RenameStep, SkipRow, OpenRow,
          BeginExtract, UnpackW3, EndExtract, ExtractFails, BeginPatch, EndPatch, NoPatch,
          EndLookup, CleanupItem, CleanupDone, CommitUnselected, CommitFile, CommitKwaj,
          CommitDone, NoBackupMade, BeginBackup, BeginPack, EndPack, PackMissed,
          PackRefused, BeginKwaj, EndKwaj, KwajFails, Drop, RenameNothing, RenameUnlink,
          RenameMove, RenameCopies, RenameLost, EndCopy, DropCopy, InRow, InItem
  <2>4. ASSUME disk[b] = Torn, pc = "crashed"
        PROVE  pc' = "crashed"
    <3>1. "restart" \notin Faults
      BY DEF Careful
    <3> QED
      BY <2>4, <3>1
      DEF Next, vars, Start, Crash, AnswerYes, AnswerNo, Step, LookupStep, Status,
          CleanupStep, CommitStep, BackupStep, PackStep, RenameStep, SkipRow, OpenRow,
          BeginExtract, UnpackW3, EndExtract, ExtractFails, BeginPatch, EndPatch, NoPatch,
          EndLookup, CleanupItem, CleanupDone, CommitUnselected, CommitFile, CommitKwaj,
          CommitDone, NoBackupMade, BeginBackup, EndBackup, BeginPack, EndPack, PackMissed,
          PackRefused, BeginKwaj, EndKwaj, KwajFails, Drop, RenameNothing, RenameUnlink,
          RenameMove, RenameCopies, RenameLost, EndCopy, DropCopy, InRow, InItem
  <2> QED BY <1>5, <2>1, <2>2, <2>3, <2>4
<1> QED BY <1>1, <1>2, <1>3, <1>4, <1>5

\* The lookup creates only files that are missing.
LEMMA LookupSafe ==
  ASSUME Base, Careful, BackupInv, LookupStep
  PROVE  /\ pc' \in LookupPC \cup {"status"}
         /\ \A j \in DOMAIN list', i \in Rows :
              list'[j].created /\ list'[j].row = i => Safe(i)'
         /\ pc' \in LookupPC \ {"row"} /\ branch' \in Unpacking =>
              \A i \in Rows : row' = i => Safe(i)'
         /\ pc' \in {"unpackw3", "extract"} /\ branch' \in Unpacking =>
              disk'[R'.fname] \in {Absent, Torn}
<1> USE DEF LookupPC, world, scan, walk
<1>0. DistinctNames /\ [Next]_vars
  BY DEF Careful, Next, Step
<1>2. \A j \in DOMAIN list, i \in Rows : list[j].created /\ list[j].row = i => Safe(i)'
  <2>1. ASSUME NEW j \in DOMAIN list, list[j].created
        PROVE  Safe(list[j].row)
    BY <2>1 DEF BackupInv
  <2>2. \A i \in Rows : Safe(i) => Safe(i)'
    BY <1>0, SafeStays
  <2> QED BY <2>1, <2>2
<1>3. pc \in AtRow /\ branch \in Unpacking => \A i \in Rows : row = i => Safe(i)'
  BY <1>0, SafeStays, RowsAre DEF BackupInv, AtRow, Base, Positions
<1>4. CASE SkipRow \/ OpenRow \/ ExtractFails \/ EndLookup
  BY <1>2, <1>3, <1>4 DEF SkipRow, OpenRow, ExtractFails, EndLookup, NextRow, Unpacking, InRow
<1>5. CASE BeginExtract
  <2>1. /\ list' = list /\ row' = row /\ branch' = Branch /\ R' = R
        /\ pc = "row" /\ row \in Rows /\ pc' \in {"extract", "unpackw3"}
    BY <1>5, RowsAre DEF BeginExtract, InRow, R
  <2>2. Branch \in Unpacking => disk[R.fname] = Absent
    BY DEF Branch, Unpacking, Exists
  <2>3. Branch \in Unpacking => \A i \in Rows : row = i => Safe(i)'
    BY <1>0, <2>1, <2>2, MissingIsSafe, SafeStays DEF R
  <2>4. disk' \in {disk, Put(disk, OutOf(Branch), Torn)}
    BY <1>5 DEF BeginExtract
  <2>5. Branch \in Unpacking => disk'[R.fname] \in {Absent, Torn}
    <3>1. R.fname \in Path
      BY <2>1, RTyped DEF Base, Row, Rows, TypeOK
    <3> QED BY <2>2, <2>4, <3>1 DEF Put, Base, TypeOK
  <2> QED BY <1>2, <2>1, <2>3, <2>5
<1>6. CASE UnpackW3
  <2>1. /\ list' = list /\ row' = row /\ branch' = branch /\ R' = R
        /\ pc' = "extract" /\ pc = "unpackw3" /\ row <= Len(Table)
    BY <1>6 DEF UnpackW3, R, Base, Positions, AtRow
  <2>2. PICK c : disk' = IF inside[row] = Absent THEN Put(disk, EName, c)
                         ELSE Put(Put(disk, EName, c), R.fname, Torn)
    BY <1>6 DEF UnpackW3
  <2>3. R.fname # EName /\ R.fname \in Path
    BY <1>0, <2>1, RowsAre, RTyped DEF DistinctNames, R, Row, Base
  <2>4. branch \in Unpacking => disk[R.fname] \in {Absent, Torn}
    BY <2>1 DEF BackupInv
  <2>5. branch \in Unpacking => disk'[R.fname] \in {Absent, Torn}
    BY <2>2, <2>3, <2>4 DEF Put, Base, TypeOK
  <2> QED BY <1>2, <1>3, <2>1, <2>5 DEF AtRow
<1>7. CASE EndExtract
  BY <1>2, <1>3, <1>7 DEF EndExtract, NextRow, AtRow
<1>8. CASE BeginPatch
  BY <1>2, <1>3, <1>8 DEF BeginPatch, AtRow
<1>9. CASE EndPatch \/ NoPatch
  <2>1. /\ pc' = "row" /\ pc \in AtRow
        /\ \E applied \in BOOLEAN :
             list' = Append(list, [row |-> row, applied |-> applied,
                                   created |-> branch \in {"unpack", "unpackw3", "cab"}])
    BY <1>9 DEF EndPatch, NoPatch, AddItem, NextRow, AtRow
  <2>2. list \in Seq(Item)
    BY DEF Base, TypeOK
  <2> DEFINE e(applied) == [row |-> row, applied |-> applied,
                            created |-> branch \in {"unpack", "unpackw3", "cab"}]
  <2>3. PICK applied \in BOOLEAN : list' = Append(list, e(applied))
    BY <2>1
  <2>4. ASSUME NEW j \in DOMAIN list'
        PROVE  \/ j \in DOMAIN list /\ list'[j] = list[j]
               \/ list'[j] = e(applied)
    BY <2>2, <2>3, <2>4
  <2>5. e(applied).row = row /\ (e(applied).created => branch \in Unpacking)
    BY DEF Unpacking
  <2>6. ASSUME NEW j \in DOMAIN list', NEW i \in Rows, list'[j].created, list'[j].row = i
        PROVE  Safe(i)'
    <3>1. CASE j \in DOMAIN list /\ list'[j] = list[j]
      BY <1>2, <2>6, <3>1
    <3>2. CASE list'[j] = e(applied)
      <4> HIDE DEF e
      <4> QED BY <1>3, <2>1, <2>5, <2>6, <3>2
    <3> QED BY <2>4, <3>1, <3>2
  <2> HIDE DEF e
  <2> QED BY <2>1, <2>6
<1> QED BY <1>4, <1>5, <1>6, <1>7, <1>8, <1>9 DEF LookupStep

\* files_commit gets to the file of an item only when it is saved.
LEMMA CommitSafe ==
  ASSUME Base, Careful, BackupInv, CleanupStep \/ CommitStep
  PROVE  /\ pc' \in CommitPC \cup {"cleanup", "done"}
         /\ list' = list
         /\ pc' \in Replacing => \A i \in Rows : It'.row = i => Safe(i)'
         /\ pc' = "backingup" => disk'[CR'.bname] = Torn
         /\ pc' \in Replaced => disk'[CR'.fname] \in {Absent, Torn}
<1> USE DEF CommitPC, Replacing, Replaced, world, scan, walk
<1>0. DistinctNames /\ [Next]_vars /\ disk \in [Path -> Data]
  BY DEF Careful, Next, Step, Base, TypeOK
<1>1. k' = k /\ list' = list => It' = It /\ CR' = CR
  BY DEF It, CR
<1>2. pc \in Replacing => \A i \in Rows : It.row = i => Safe(i)'
  BY <1>0, SafeStays DEF BackupInv
<1>3. pc \in AtItem => CR \in Row /\ CR = Table[It.row] /\ It.row \in Rows
  BY RowsAre, ItemTyped DEF Base, Positions
<1>4. CASE CleanupStep
  BY <1>4 DEF CleanupStep, CleanupItem, CleanupDone, InItem
<1>5. CASE CommitUnselected \/ CommitFile \/ CommitKwaj \/ CommitDone
  BY <1>5 DEF CommitUnselected, CommitFile, CommitKwaj, CommitDone, NextItem
<1>6. CASE NoBackupMade
  <2>1. pc = "backup" /\ pc' \in {"pack", "rename"} /\ list' = list /\ k' = k /\ disk' = disk
    BY <1>6 DEF NoBackupMade, Base, TypeOK
  <2>2. disk[CR.bname] # Absent \/ disk[CR.fname] = Absent
    BY <1>6 DEF NoBackupMade, Exists, Careful
  <2>3. ASSUME NEW i \in Guarded, It.row = i
        PROVE  Safe(i)
    BY <1>3, <2>1, <2>2, <2>3 DEF BackupInv, Kept, Keeps, Safe, SavedOf, AtItem
  <2>4. \A i \in Rows : It.row = i => Safe(i)
    BY <2>3 DEF Safe
  <2>5. \A i \in Rows : It.row = i => Safe(i)'
    BY <1>0, <2>4, SafeStays
  <2> QED BY <1>1, <2>1, <2>5
<1>7. CASE BeginBackup
  <2>1. disk' = Put(disk, CR.bname, Torn) /\ pc = "backup" /\ pc' = "backingup"
        /\ list' = list /\ k' = k
    BY <1>7 DEF BeginBackup
  <2>2. CR.bname \in Path
    BY <1>3, <2>1 DEF AtItem, Row
  <2> QED BY <1>0, <1>1, <2>1, <2>2 DEF Put
<1>8. CASE EndBackup
  <2>1. pc = "backingup" /\ pc' \in {"pack", "rename"} /\ list' = list /\ k' = k
    BY <1>8 DEF EndBackup, Base, TypeOK
  <2>2. disk' = Put(disk, CR.bname, disk[CR.fname]) /\ disk[CR.bname] = Torn
    BY <1>8 DEF EndBackup, Written, Careful, BackupInv
  <2>3. ASSUME NEW i \in Guarded, It.row = i, orig[Table[i].fname] # Absent
        PROVE  SavedOf(i)'
    <3>1. CR = Table[i] /\ CR.bname \in Path
      BY <1>3, <2>1, <2>3 DEF AtItem, Row
    <3>2. orig[CR.fname] = disk[CR.fname]
      BY <2>2, <2>3, <3>1 DEF BackupInv, Kept, Keeps
    <3> QED BY <1>0, <2>2, <2>3, <3>1, <3>2, OrigKept DEF SavedOf, Put
  <2>4. \A i \in Rows : It.row = i => Safe(i)'
    BY <1>0, <2>3, OrigKept DEF Safe
  <2> QED BY <1>1, <2>1, <2>4
<1>9. CASE BeginPack
  <2>1. disk' = Put(disk, CR.fname, Torn) /\ pc = "pack" /\ pc' = "packing"
        /\ list' = list /\ k' = k
    BY <1>9 DEF BeginPack
  <2>2. CR.fname \in Path
    BY <1>3, <2>1 DEF AtItem, Row
  <2> QED BY <1>0, <1>1, <1>2, <2>1, <2>2 DEF Put
<1>10. CASE EndPack \/ PackMissed
  BY <1>1, <1>2, <1>10 DEF EndPack, PackMissed
<1>11. CASE PackRefused \/ KwajFails \/ BeginKwaj
  BY <1>11 DEF PackRefused, KwajFails, BeginKwaj, FallBack
<1>12. CASE EndKwaj
  <2>1. pc = "kwajing" /\ pc' = "drop" /\ list' = list /\ k' = k
    BY <1>12 DEF EndKwaj
  <2>2. \A i \in Rows : It.row = i => i \notin Guarded
    BY <1>3, <2>1 DEF Guarded, Base, Kinds, AtItem
  <2>3. \A i \in Rows : It.row = i => Safe(i)'
    BY <2>2 DEF Safe
  <2> QED BY <1>1, <2>1, <2>3
<1>13. CASE Drop \/ RenameNothing \/ RenameMove \/ RenameLost \/ DropCopy
  BY <1>13 DEF Drop, RenameNothing, RenameMove, RenameLost, DropCopy, NextItem
<1>14. CASE RenameUnlink
  <2>1. disk' = Unlink(disk, CR.fname) /\ pc = "rename" /\ pc' = "renaming"
        /\ list' = list /\ k' = k
    BY <1>14 DEF RenameUnlink
  <2>2. CR.fname \in Path
    BY <1>3, <2>1 DEF AtItem, Row
  <2> QED BY <1>0, <1>1, <1>2, <2>1, <2>2 DEF Unlink
<1>15. CASE RenameCopies
  <2>1. disk' = Put(disk, CR.fname, Torn) /\ pc = "renaming" /\ pc' = "copying"
        /\ list' = list /\ k' = k
    BY <1>15 DEF RenameCopies
  <2>2. CR.fname \in Path
    BY <1>3, <2>1 DEF AtItem, Row
  <2> QED BY <1>0, <1>1, <1>2, <2>1, <2>2 DEF Put
<1>16. CASE EndCopy
  BY <1>1, <1>2, <1>16 DEF EndCopy
<1> QED
  BY <1>4, <1>5, <1>6, <1>7, <1>8, <1>9, <1>10, <1>11, <1>12, <1>13, <1>14, <1>15, <1>16
  DEF CommitStep, BackupStep, PackStep, RenameStep

LEMMA RowOfItem ==
  ASSUME NEW s \in Seq(Item), NEW j \in DOMAIN s
  PROVE  s[j].row \in Rows
<1>1. s[j] \in Item
  OBVIOUS
<1> QED BY <1>1 DEF Item

LEMMA BackupNext ==
  ASSUME Base, Careful, BackupInv, [Next]_vars
  PROVE  BackupInv'
<1>1. \A i \in Guarded : Kept(i)'
  BY KeptStays
<1>2. DistinctNames
  BY DEF Careful
<1>3. \A i \in Rows : Safe(i) => Safe(i)'
  BY <1>2, SafeStays
<1>4. CASE UNCHANGED vars
  BY <1>4 DEF vars, world, scan, walk, BackupInv, Kept, Keeps, Safe, SavedOf, It, CR, R
<1>5. ASSUME list' = list
      PROVE  (\A j \in DOMAIN list : list[j].created => Safe(list[j].row))'
  <2>1. ASSUME NEW j \in DOMAIN list', list'[j].created, NEW i, list'[j].row = i
        PROVE  Safe(i)'
    <3>1. list[j] \in Item /\ Safe(i)
      BY <1>5, <2>1 DEF BackupInv, Base, TypeOK
    <3> QED BY <1>3, <1>5, <2>1, <3>1 DEF Item
  <2> QED BY <2>1 DEF Safe, SavedOf
<1>6. CASE LookupStep
  <2>1. pc' \in LookupPC \cup {"status"}
    BY <1>6, LookupSafe
  <2>2. (\A j \in DOMAIN list : list[j].created => Safe(list[j].row))'
    <3>1. list' \in Seq(Item)
      BY <1>6, LookupTyped DEF Base, TypeOK
    <3>2. \A j \in DOMAIN list' : list'[j].row \in Rows
      BY <3>1, RowOfItem
    <3> QED BY <1>6, <3>2, LookupSafe DEF Safe, SavedOf
  <2>3. (pc \in LookupPC \ {"row"} /\ branch \in Unpacking => Safe(row))'
    <3>1. pc' \in LookupPC \ {"row"} => row' \in Rows
      BY <1>6, LookupTyped DEF Base, TypeOK, Positions, AtRow, Rows
    <3> QED BY <1>6, <3>1, LookupSafe DEF Safe, SavedOf
  <2>4. (pc \in {"unpackw3", "extract"} /\ branch \in Unpacking =>
           disk[R.fname] \in {Absent, Torn})'
    BY <1>6, LookupSafe
  <2> QED BY <1>1, <2>1, <2>2, <2>3, <2>4 DEF BackupInv, LookupPC, Replacing, Replaced
<1>7. CASE CleanupStep \/ CommitStep
  <2>1. (pc \in Replacing => Safe(It.row))'
    <3>1. pc' \in Replacing => It'.row \in Rows
      <4>1. TypeOK' /\ Positions'
        BY <1>7, CommitTyped DEF Base
      <4>2. pc' \in Replacing => k' \in DOMAIN list' /\ list' \in Seq(Item)
        BY <4>1 DEF TypeOK, Positions, AtItem, CommitPC, Replacing
      <4> QED BY <4>2, RowOfItem DEF It
    <3> QED BY <1>7, <3>1, CommitSafe DEF Safe, SavedOf
  <2>2. (pc = "backingup" => disk[CR.bname] = Torn)'
    BY <1>7, CommitSafe
  <2>3. (pc \in Replaced => disk[CR.fname] \in {Absent, Torn})'
    BY <1>7, CommitSafe
  <2>4. pc' \notin LookupPC \ {"row"} /\ list' = list
    BY <1>7, CommitSafe DEF LookupPC, CommitPC
  <2> QED BY <1>1, <1>5, <2>1, <2>2, <2>3, <2>4 DEF BackupInv, LookupPC
<1>8. CASE Start
  BY <1>1, <1>8 DEF Start, BackupInv, LookupPC, Replacing, Replaced
<1>9. CASE AnswerYes \/ AnswerNo \/ Crash \/ Status
  <2>1. /\ pc' \in {"commit", "cleanup", "ask", "crashed"}
        /\ list' = list
    BY <1>9 DEF AnswerYes, AnswerNo, Crash, Status, scan
  <2> QED BY <1>1, <1>5, <2>1 DEF BackupInv, LookupPC, Replacing, Replaced
<1> QED BY <1>4, <1>6, <1>7, <1>8, <1>9 DEF Next, Step

--------------------------------------------------------------------------
(* The theorems                                                            *)

LEMMA BaseAlways == Spec => []Base
<1>1. Init => Base
  BY InitTyped, KindsInit DEF Base
<1>2. Base /\ [Next]_vars => Base'
  BY NextTyped, KindsNext DEF Base
<1> QED BY <1>1, <1>2, PTL DEF Spec

LEMMA BackupAlways ==
  ASSUME Careful
  PROVE  Spec => []BackupInv
<1>1. Init => BackupInv
  BY BackupInit DEF Careful
<1>2. Base /\ BackupInv /\ [Next]_vars => BackupInv'
  BY BackupNext
<1> QED BY <1>1, <1>2, BaseAlways, PTL DEF Spec

\* Whatever the table, the directory, the lookup mode and the faults of
\* rename(2), of the copy that replaces it and of the archives, and at
\* whatever step the program is stopped: the original bytes of every file
\* the commit replaces are under its name or in its .bak.
THEOREM OriginalsSurvive ==
  ASSUME Careful
  PROVE  Spec => []Recoverable
<1>1. Base /\ BackupInv => Recoverable
  BY DEF BackupInv, Kept, Recoverable, Guarded
<1> QED BY <1>1, BackupAlways, BaseAlways, PTL

\* Without KWAJ archives, whose originals files_commit does not back up,
\* no byte of a file that existed changes before its .bak holds the file.
THEOREM BackupFirst ==
  ASSUME Careful, \A i \in Rows : Table[i].kind # "kwaj"
  PROVE  Spec => BackupBeforeModify
<1>1. ASSUME Base, BackupInv, [Next]_vars, NEW i \in Rows, orig[Table[i].fname] # Absent,
             disk'[Table[i].fname] # disk[Table[i].fname]
      PROVE  disk[Table[i].bname] = orig[Table[i].fname]
  <2>1. i \in Guarded
    BY DEF Guarded
  <2>2. SavedOf(i) \/ disk[Table[i].fname] = Absent
    BY <1>1, <2>1, ChangesRow
    DEF Careful, BackupInv, Safe, It, Base, TypeOK, LookupPC
  <2> QED BY <1>1, <2>1, <2>2 DEF SavedOf, BackupInv, Kept, Keeps
<1>2. Base /\ BackupInv /\ [Next]_vars =>
        [\A i \in Rows :
           LET r == Table[i]
           IN  ~NoBackup /\ orig[r.fname] # Absent /\ disk'[r.fname] # disk[r.fname]
                 => disk[r.bname] = orig[r.fname]]_disk
  BY <1>1
<1> QED BY <1>2, BackupAlways, BaseAlways, PTL DEF Spec, BackupBeforeModify

--------------------------------------------------------------------------
(* PatchFiles implements SafeReplace: with live and saved read off the     *)
(* directory every step of the program is one step of one file of the      *)
(* abstract specification, or leaves its state alone.                      *)

\* Steps outside the ones that finish a file only remove or tear files.
LEMMA TearsOrRemoves ==
  ASSUME Base, [Next]_vars, NEW q \in Path,
         pc \in {"cleanup", "commit", "pack", "rename", "drop", "dropcopy"}
  PROVE  disk'[q] \in {disk[q], Absent, Torn}
<1>1. disk \in [Path -> Data]
  BY DEF Base, TypeOK
<1>2. CASE CleanupItem \/ CommitUnselected
  BY <1>1, <1>2 DEF CleanupItem, CommitUnselected, Unlink
<1>3. CASE BeginPack
  BY <1>1, <1>3 DEF BeginPack, Put
<1>4. CASE Drop \/ DropCopy \/ RenameUnlink
  BY <1>1, <1>4 DEF Drop, DropCopy, RenameUnlink, Unlink
<1>5. CASE CleanupDone \/ CommitFile \/ CommitKwaj \/ CommitDone \/ PackMissed \/ PackRefused
             \/ RenameNothing \/ Crash \/ UNCHANGED vars
  BY <1>5 DEF CleanupDone, CommitFile, CommitKwaj, CommitDone, PackMissed, PackRefused,
              RenameNothing, Crash, vars
<1> QED
  BY <1>2, <1>3, <1>4, <1>5
  DEF Next, Start, AnswerYes, AnswerNo, Step, LookupStep, Status, CleanupStep, CommitStep,
      BackupStep, PackStep, RenameStep, SkipRow, OpenRow, BeginExtract, UnpackW3,
      EndExtract, ExtractFails, BeginPatch, EndPatch, NoPatch, EndLookup, NoBackupMade,
      BeginBackup, EndBackup, EndPack, BeginKwaj, EndKwaj, KwajFails, RenameMove,
      RenameCopies, RenameLost, EndCopy, InRow

\* A file goes from one whole state to another through a damaged one, and
\* is saved when it begins to.
LEMMA FileStep ==
  ASSUME Base, Careful, BackupInv, [Next]_vars, NEW i \in Guarded,
         orig[Table[i].fname] # Absent, disk'[Table[i].fname] # disk[Table[i].fname]
  PROVE  /\ SavedOf(i)
         /\ {disk[Table[i].fname], disk'[Table[i].fname]} \cap {Absent, Torn} # {}
<1> DEFINE f == Table[i].fname
<1>0. DistinctNames /\ i \in Rows /\ f \in Path
  BY RowTyped DEF Careful, Guarded, Row
<1>1. CASE row = i /\ pc = "row" /\ disk[f] = Absent
  BY <1>0, <1>1, MissingIsSafe DEF Safe
<1>2. CASE row = i /\ pc \in {"unpackw3", "extract"} /\ branch \in Unpacking
  BY <1>2 DEF BackupInv, Safe, R, LookupPC
<1>3. CASE k <= Len(list) /\ It.row = i /\ pc \in {"cleanup", "commit"} /\ It.created
  <2>1. Safe(i)
    BY <1>3 DEF BackupInv, It, Base, TypeOK
  <2> QED BY <1>0, <1>3, <2>1, TearsOrRemoves DEF Safe
<1>4. CASE k <= Len(list) /\ It.row = i /\ pc \in Replacing
  <2>1. Safe(i) /\ CR = Table[i]
    BY <1>4, RowsAre DEF BackupInv
  <2>2. CASE pc \in Replaced
    BY <2>1, <2>2 DEF BackupInv, Safe
  <2>3. CASE pc \notin Replaced
    BY <1>0, <1>4, <2>1, <2>3, TearsOrRemoves DEF Safe, Replacing, Replaced
  <2> QED BY <2>2, <2>3
<1> QED BY <1>0, <1>1, <1>2, <1>3, <1>4, ChangesRow

\* A backup changes while the file is still the original.
LEMMA BackupStepOf ==
  ASSUME Base, Careful, BackupInv, [Next]_vars, NEW i \in Guarded,
         orig[Table[i].fname] # Absent, disk'[Table[i].bname] # disk[Table[i].bname]
  PROVE  ~SavedOf(i) /\ disk[Table[i].fname] = orig[Table[i].fname]
<1>1. k <= Len(list) /\ It.row = i /\ CR = Table[i] /\ (BeginBackup \/ EndBackup)
  BY ChangesRow, RowsAre DEF Careful
<1>2. disk[Table[i].bname] \in {Absent, Torn}
  BY <1>1 DEF BeginBackup, EndBackup, Exists, BackupInv
<1> QED BY <1>2 DEF BackupInv, Kept, Keeps, SavedOf

\* What one step changes of one file in the abstract state.
LEMMA AbstractStep ==
  ASSUME Base, Careful, BackupInv, [Next]_vars, NEW i \in Guarded
  PROVE  \/ LiveOf(i)' = LiveOf(i) /\ SavedOf(i)' = SavedOf(i)
         \/ /\ LiveOf(i) = "original" /\ LiveOf(i)' = "original"
            /\ ~SavedOf(i) /\ SavedOf(i)'
         \/ /\ SavedOf(i) /\ SavedOf(i)'
            /\ LiveOf(i) # "damaged" /\ LiveOf(i)' = "damaged"
         \/ /\ SavedOf(i) /\ SavedOf(i)'
            /\ LiveOf(i) = "damaged" /\ LiveOf(i)' \in {"original", "patched"}
<1> DEFINE f == Table[i].fname
           b == Table[i].bname
<1>0. orig' = orig
  BY OrigKept
<1>1. CASE orig[f] = Absent
  BY <1>0, <1>1 DEF LiveOf, SavedOf
<1>2. CASE orig[f] # Absent /\ disk'[b] # disk[b]
  <2>1. ~SavedOf(i) /\ disk[f] = orig[f]
    BY <1>2, BackupStepOf
  <2>2. disk'[f] = disk[f]
    BY <1>2, <2>1, FileStep
  <2>3. SavedOf(i)' \in BOOLEAN /\ SavedOf(i) \in BOOLEAN
    BY DEF SavedOf
  <2> QED BY <1>0, <2>1, <2>2, <2>3 DEF LiveOf
<1>3. CASE orig[f] # Absent /\ disk'[b] = disk[b] /\ disk'[f] # disk[f]
  <2>1. SavedOf(i) /\ SavedOf(i)'
    BY <1>0, <1>3, FileStep DEF SavedOf
  <2>2. disk[f] \in {Absent, Torn} \/ disk'[f] \in {Absent, Torn}
    BY <1>3, FileStep
  <2>3. orig[f] # Torn
    BY DEF BackupInv, Kept
  <2>4. /\ LiveOf(i) = IF orig[f] = disk[f] THEN "original"
                       ELSE IF disk[f] \in {Absent, Torn} THEN "damaged" ELSE "patched"
        /\ LiveOf(i)' = IF orig[f] = disk'[f] THEN "original"
                        ELSE IF disk'[f] \in {Absent, Torn} THEN "damaged" ELSE "patched"
    BY <1>0, <1>3 DEF LiveOf
  <2> QED BY <1>3, <2>1, <2>2, <2>3, <2>4
<1>4. CASE disk'[b] = disk[b] /\ disk'[f] = disk[f]
  BY <1>0, <1>4 DEF LiveOf, SavedOf
<1> QED BY <1>1, <1>2, <1>3, <1>4

\* The abstract state of at most one file changes.
LEMMA OneFile ==
  ASSUME Base, Careful, BackupInv, [Next]_vars, NEW i \in Guarded, NEW j \in Guarded,
         LiveOf(i)' # LiveOf(i) \/ SavedOf(i)' # SavedOf(i),
         LiveOf(j)' # LiveOf(j) \/ SavedOf(j)' # SavedOf(j)
  PROVE  i = j
<1>1. \A m \in Guarded :
        LiveOf(m)' # LiveOf(m) \/ SavedOf(m)' # SavedOf(m) =>
          \/ disk'[Table[m].fname] # disk[Table[m].fname]
          \/ disk'[Table[m].bname] # disk[Table[m].bname]
  BY OrigKept DEF LiveOf, SavedOf
<1>2. \A m \in Guarded :
        LiveOf(m)' # LiveOf(m) \/ SavedOf(m)' # SavedOf(m) =>
          \/ row = m /\ pc \in {"row", "unpackw3", "extract"}
          \/ It.row = m /\ pc \notin {"row", "unpackw3", "extract"}
  BY <1>1, ChangesRow DEF Careful, Replacing, BeginBackup, EndBackup
<1> QED BY <1>2

\* For every table, directory, lookup mode and the faults Careful allows,
\* the commit keeps the promise of SafeReplace, wherever it is stopped.
THEOREM CommitRefines ==
  ASSUME Careful
  PROVE  Spec => ImplementsSafeReplace
<1> DEFINE live  == [i \in Guarded |-> LiveOf(i)]
           saved == [i \in Guarded |-> SavedOf(i)]
<1>1. Init => Promise!Init
  <2> SUFFICES ASSUME Init PROVE Promise!Init
    OBVIOUS
  <2>1. ASSUME NEW i \in Guarded
        PROVE  LiveOf(i) = "original" /\ SavedOf(i) = FALSE
    <3>1. orig = disk
      BY DEF Init
    <3>2. disk[Table[i].bname] = Absent
      BY <3>1, BackupStartsEmpty DEF Careful
    <3> QED BY <3>1, <3>2 DEF LiveOf, SavedOf
  <2> QED BY <2>1 DEF Promise!Init
<1>2. Base /\ BackupInv /\ [Next]_vars => [Promise!Next]_(Promise!vars)
  <2> SUFFICES ASSUME Base, BackupInv, [Next]_vars
               PROVE  Promise!Next \/ UNCHANGED Promise!vars
    OBVIOUS
  <2>1. CASE \A i \in Guarded : LiveOf(i)' = LiveOf(i) /\ SavedOf(i)' = SavedOf(i)
    <3>1. live' = live /\ saved' = saved
      BY <2>1
    <3> QED BY <3>1 DEF Promise!vars
  <2>2. ASSUME NEW i \in Guarded, LiveOf(i)' # LiveOf(i) \/ SavedOf(i)' # SavedOf(i)
        PROVE  Promise!Next
    <3>1. \A j \in Guarded \ {i} : LiveOf(j)' = LiveOf(j) /\ SavedOf(j)' = SavedOf(j)
      BY <2>2, OneFile
    <3>2. live' = [live EXCEPT ![i] = LiveOf(i)'] /\ saved' = [saved EXCEPT ![i] = SavedOf(i)']
      BY <3>1
    <3>3. CASE /\ LiveOf(i) = "original" /\ LiveOf(i)' = "original"
               /\ ~SavedOf(i) /\ SavedOf(i)'
      <4>1. live' = live /\ saved' = [saved EXCEPT ![i] = TRUE]
        <5>1. SavedOf(i)' = TRUE /\ \A j \in Guarded : LiveOf(j)' = LiveOf(j)
          BY <3>1, <3>3 DEF SavedOf
        <5> QED BY <3>2, <5>1
      <4>2. Promise!Save(i)
        BY <3>3, <4>1 DEF Promise!Save
      <4> QED BY <4>2 DEF Promise!Next
    <3>4. CASE /\ SavedOf(i) /\ SavedOf(i)'
               /\ LiveOf(i) # "damaged" /\ LiveOf(i)' = "damaged"
      <4>1. saved' = saved /\ live' = [live EXCEPT ![i] = "damaged"]
        BY <3>1, <3>2, <3>4 DEF SavedOf
      <4>2. Promise!Damage(i)
        BY <3>4, <4>1 DEF Promise!Damage
      <4> QED BY <4>2 DEF Promise!Next
    <3>5. CASE /\ SavedOf(i) /\ SavedOf(i)'
               /\ LiveOf(i) = "damaged" /\ LiveOf(i)' \in {"original", "patched"}
      <4>1. saved' = saved /\ \E s \in {"original", "patched"} : live' = [live EXCEPT ![i] = s]
        BY <3>1, <3>2, <3>5, ZenonT(60) DEF SavedOf
      <4>2. Promise!Finish(i)
        BY <3>5, <4>1 DEF Promise!Finish
      <4> QED BY <4>2 DEF Promise!Next
    <3> QED BY <2>2, <3>3, <3>4, <3>5, AbstractStep
  <2> QED BY <2>1, <2>2
<1> QED BY <1>1, <1>2, BackupAlways, BaseAlways, PTL DEF Spec, ImplementsSafeReplace, Promise!Spec

--------------------------------------------------------------------------
(* Only announced changes                                                  *)

\* What row i unpacks to was not there when the run began.
KwajNew(i) == Table[i].kind = "kwaj" /\ Table[i].kname \in Own => before[Table[i].kname] = Absent

\* Until files_commit or files_cleanup begins no file of the user has
\* changed, so what the run creates or removes was not there before.
OwnInv ==
  /\ pc \in LookupPC => /\ mode \in Lookups
                        /\ \A p \in Own : before[p] # Absent => disk[p] = before[p]
  /\ pc \in AtRow => /\ branch \in Unpacking => before[Table[row].fname] = Absent
                     /\ KwajNew(row)
  /\ \A j \in DOMAIN list : /\ list[j].created => before[Table[list[j].row].fname] = Absent
                            /\ KwajNew(list[j].row)
  /\ pc \in AtItem => list[k].applied

LEMMA OwnPaths == Own \subseteq Path
BY RowTyped, ConstantsAssumption DEF Own, FNames, Row

\* The step that changes a file the user has belongs to a commit of an item
\* a patch was applied to.
LEMMA ChangesOwn ==
  ASSUME Base, OwnApart, OwnInv, [Next]_vars, NEW p \in Own,
         before[p] # Absent, disk'[p] # disk[p]
  PROVE  pc \in CommitPC /\ \E j \in Selected : Table[list[j].row].fname = p
<1>1. p \in Path /\ p \notin Temps
  BY OwnPaths, RowTyped DEF OwnApart, Temps
<1>2. /\ row <= Len(Table) => row \in Rows /\ R = Table[row]
      /\ k <= Len(list) => It.row \in Rows /\ CR = Table[It.row] /\ k \in DOMAIN list
  BY RowsAre DEF R, Base, TypeOK
<1>3. pc \in AtItem => k <= Len(list)
  BY DEF Base, Positions
<1>4. ~Unpacks(p)
  BY <1>2 DEF Unpacks, OwnInv, LookupPC, AtRow
<1>5. ~UnpacksKwaj(p)
  BY <1>2 DEF UnpacksKwaj, OwnInv, KwajNew, LookupPC, AtRow
<1>6. ~Removes(p) /\ ~RemovesKwaj(p)
  BY <1>2 DEF Removes, RemovesKwaj, OwnInv, KwajNew, It
<1>7. ~Saves(p)
  BY <1>2, <1>3 DEF Saves, BeginBackup, EndBackup, OwnApart, AtItem, CommitPC
<1>8. CASE Replaces(p)
  <2>1. pc \in AtItem
    BY <1>8 DEF Replaces, Replacing, AtItem, CommitPC
  <2> QED BY <1>2, <1>3, <1>8, <2>1 DEF Replaces, OwnInv, Selected, It, AtItem
<1> QED BY <1>1, <1>4, <1>5, <1>6, <1>7, <1>8, ChangesBy

LEMMA OwnInit == Init => OwnInv
<1> SUFFICES ASSUME Init PROVE OwnInv
  OBVIOUS
<1>1. pc = "start" /\ list = << >>
  BY DEF Init
<1> QED BY <1>1 DEF OwnInv, LookupPC, CommitPC, AtRow, AtItem

\* A row taken by files_lookup creates what it unpacks, and a KWAJ archive
\* whose .386 may be the user's is unpacked where there is none.
LEMMA RowTaken ==
  ASSUME Base, OwnApart, OwnInv, pc = "row", row <= Len(Table), Branch # "skip"
  PROVE  /\ Branch \in Unpacking => before[Table[row].fname] = Absent
         /\ KwajNew(row)
<1>1. row \in Rows /\ R = Table[row]
  BY RowsAre DEF R
<1>2. R.fname \in Own
  BY <1>1 DEF Own, FNames
<1>3. pc \in LookupPC
  BY DEF LookupPC
<1>4. Branch \in Unpacking => disk[R.fname] = Absent
  BY DEF Branch, Unpacking, Exists
<1>5. ASSUME R.kind = "kwaj", R.kname \in Own
      PROVE  disk[R.kname] = Absent
  <2>1. mode # "cab" /\ (mode = "file" => R.fname # Given)
    BY <1>1, <1>3, <1>5 DEF OwnApart, Listed, OwnInv
  <2> QED BY <1>5, <2>1 DEF Branch, Applies, Exists
<1> QED BY <1>1, <1>2, <1>3, <1>4, <1>5 DEF OwnInv, KwajNew

LEMMA OwnLookup ==
  ASSUME Base, OwnApart, OwnInv, LookupStep
  PROVE  OwnInv'
<1> USE DEF world, walk, scan
<1>0. [Next]_vars /\ before' = before /\ mode' = mode /\ k' = k
  BY DEF Next, Step, LookupStep, SkipRow, OpenRow, BeginExtract, UnpackW3, EndExtract,
         ExtractFails, BeginPatch, EndPatch, NoPatch, EndLookup
<1>1. pc \in LookupPC /\ pc' \in LookupPC \cup {"status"}
  BY DEF LookupStep, SkipRow, OpenRow, BeginExtract, UnpackW3, EndExtract, ExtractFails,
         BeginPatch, EndPatch, NoPatch, EndLookup, AddItem, NextRow, InRow, LookupPC
<1>2. \A p \in Own : before'[p] # Absent => disk'[p] = before'[p]
  BY <1>0, <1>1, ChangesOwn DEF OwnInv, LookupPC, CommitPC
<1>3. pc' \notin AtItem
  BY <1>1 DEF LookupPC, CommitPC, AtItem
<1>4. /\ \A i : KwajNew(i)' = KwajNew(i)
      /\ \A j \in DOMAIN list : /\ list[j].created => before'[Table[list[j].row].fname] = Absent
                                /\ KwajNew(list[j].row)
  BY <1>0 DEF KwajNew, OwnInv
<1>5. CASE SkipRow \/ ExtractFails \/ EndLookup
  <2>1. pc' \notin AtRow /\ list' = list
    BY <1>5 DEF SkipRow, ExtractFails, EndLookup, NextRow, AtRow, LookupPC
  <2> QED BY <1>0, <1>1, <1>2, <1>3, <1>4, <2>1 DEF OwnInv
<1>6. CASE OpenRow \/ BeginExtract
  <2>1. /\ pc = "row" /\ row <= Len(Table) /\ Branch # "skip" /\ branch' = Branch
        /\ row' = row /\ list' = list
    BY <1>6 DEF OpenRow, BeginExtract, InRow
  <2> QED BY <1>0, <1>1, <1>2, <1>3, <1>4, <2>1, RowTaken DEF OwnInv
<1>7. CASE UnpackW3 \/ EndExtract \/ BeginPatch
  <2>1. /\ pc \in AtRow /\ list' = list
        /\ pc' \in AtRow => row' = row /\ branch' = branch
    BY <1>7 DEF UnpackW3, EndExtract, BeginPatch, NextRow, AtRow, LookupPC
  <2> QED BY <1>0, <1>1, <1>2, <1>3, <1>4, <2>1 DEF OwnInv
<1>8. CASE EndPatch \/ NoPatch
  <2>1. PICK applied \in BOOLEAN :
          list' = Append(list, [row |-> row, applied |-> applied,
                                created |-> branch \in {"unpack", "unpackw3", "cab"}])
    BY <1>8 DEF EndPatch, NoPatch, AddItem
  <2>2. pc \in AtRow /\ pc' \notin AtRow
    BY <1>8 DEF EndPatch, NoPatch, AddItem, NextRow, AtRow, LookupPC
  <2>3. list \in Seq(Item)
    BY DEF Base, TypeOK
  <2> DEFINE e == [row |-> row, applied |-> applied,
                   created |-> branch \in {"unpack", "unpackw3", "cab"}]
  <2>4. \A j \in DOMAIN list' : list'[j] = e \/ (j \in DOMAIN list /\ list'[j] = list[j])
    BY <2>1, <2>3
  <2>5. (e.created => before'[Table[e.row].fname] = Absent) /\ KwajNew(e.row)
    BY <1>0, <2>2 DEF OwnInv, Unpacking
  <2> HIDE DEF e
  <2> QED BY <1>0, <1>1, <1>2, <1>3, <1>4, <2>2, <2>4, <2>5 DEF OwnInv
<1> QED BY <1>5, <1>6, <1>7, <1>8 DEF LookupStep

LEMMA OwnNext ==
  ASSUME Base, OwnApart, OwnInv, [Next]_vars
  PROVE  OwnInv'
<1> USE DEF world, walk, scan
<1>1. CASE UNCHANGED vars
  BY <1>1 DEF vars, OwnInv, KwajNew
<1>2. CASE Start
  BY <1>2 DEF Start, OwnInv, AtRow, AtItem, LookupPC, CommitPC
<1>3. ASSUME pc' \notin LookupPC, list' = list, before' = before,
             pc' \in AtItem => list[k'].applied
      PROVE  OwnInv'
  BY <1>3 DEF OwnInv, KwajNew, AtRow
<1>4. CASE AnswerYes \/ AnswerNo \/ Crash \/ Status \/ CleanupStep
  BY <1>3, <1>4 DEF AnswerYes, AnswerNo, Crash, Status, CleanupStep, CleanupItem, CleanupDone,
                    AtItem, LookupPC, CommitPC, InItem
<1>5. CASE CommitStep
  <2>1. before' = before /\ list' = list /\ pc' \in CommitPC \cup {"done"}
    BY <1>5 DEF CommitStep, BackupStep, PackStep, RenameStep, CommitUnselected, CommitFile,
                CommitKwaj, CommitDone, NoBackupMade, BeginBackup, EndBackup, BeginPack,
                EndPack, PackMissed, PackRefused, BeginKwaj, EndKwaj, KwajFails, Drop,
                RenameNothing, RenameUnlink, RenameMove, RenameCopies, RenameLost, EndCopy,
                DropCopy, NextItem, FallBack, CommitPC, Base, TypeOK
  <2>2. pc' \in AtItem => list[k'].applied
    <3>1. CASE CommitFile \/ CommitKwaj
      BY <3>1 DEF CommitFile, CommitKwaj, It
    <3>2. CASE pc \in AtItem /\ (k' = k \/ pc' = "commit")
      BY <3>2 DEF OwnInv, AtItem
    <3>3. CASE CommitUnselected \/ CommitDone
      BY <3>3 DEF CommitUnselected, CommitDone, NextItem, AtItem, CommitPC
    <3>4. CASE BackupStep \/ PackStep \/ RenameStep
      <4>1. pc \in AtItem /\ (k' = k \/ pc' = "commit")
        BY <3>4 DEF BackupStep, PackStep, RenameStep, NoBackupMade, BeginBackup, EndBackup,
                    BeginPack, EndPack, PackMissed, PackRefused, BeginKwaj, EndKwaj, KwajFails,
                    Drop, RenameNothing, RenameUnlink, RenameMove, RenameCopies, RenameLost,
                    EndCopy, DropCopy, NextItem, FallBack, AtItem, CommitPC
      <4> QED BY <3>2, <4>1
    <3> QED BY <1>5, <3>1, <3>3, <3>4 DEF CommitStep
  <2> QED BY <1>3, <2>1, <2>2 DEF LookupPC, CommitPC
<1> QED BY <1>1, <1>2, <1>4, <1>5, OwnLookup DEF Next, Step

\* Whatever fails, and wherever a run is stopped and started again: a file
\* the user has changes only in a commit, and only if a patch was applied to
\* its copy, which is what files_status announced.
THEOREM OnlyAnnounced ==
  ASSUME OwnApart
  PROVE  Spec => OnlyAnnouncedChange
<1>1. Base /\ OwnInv /\ [Next]_vars => OwnInv'
  BY OwnNext
<1>2. Base /\ OwnInv /\ [Next]_vars =>
        [\A p \in Own :
           before[p] # Absent /\ disk'[p] # disk[p] =>
             pc \in CommitPC /\ \E j \in Selected : Table[list[j].row].fname = p]_disk
  BY ChangesOwn
<1> QED BY <1>1, <1>2, OwnInit, BaseAlways, PTL DEF Spec, OnlyAnnouncedChange

--------------------------------------------------------------------------
(* A cancelled run and the temporary files                                 *)

\* The first run finds nothing but whole files of the user, every other
\* what a whole run left.
FirstRun ==
  /\ pc = "start" => \A p \in Path : disk[p] # Torn /\ (p \notin Own => disk[p] = Absent)
  /\ pc # "start" => /\ runs > 0
                     /\ \A p \in Path : before[p] # Torn
                     /\ MaxRuns <= 1 => \A p \in Path \ Own : before[p] = Absent

\* The file a step is writing.
Writing(p) ==
  \/ pc = "crashed"
  \/ pc = "unpackw3" /\ p = EName
  \/ pc = "extract" /\ p = Source
  \/ pc = "patching" /\ p = R.tname
  \/ pc = "backingup" /\ p = CR.bname
  \/ pc \in {"packing", "kwajing", "copying"} /\ p = CR.fname

Whole == /\ \A i \in Rows : inside[i] # Torn
         /\ Faults \cap {"full", "pack"} = {} =>
              \A p \in Path : disk[p] = Torn => Writing(p)

\* What files_cleanup removes for a row.
Scraps(i, created) ==
  {Table[i].tname} \cup (IF created THEN {Table[i].fname} ELSE {})
                   \cup (IF Table[i].kind = "kwaj" THEN {Table[i].kname} ELSE {})

\* What the row at hand has made so far, ename apart.
RowScraps ==
  (IF pc \in AtRow /\ branch \in Unpacking \cup {"kwaj"} THEN {Source} ELSE {})
    \cup (IF pc = "patching" THEN {R.tname} ELSE {})

\* ename is there while a row converts VMM32.VXD and, if the conversion is
\* for VMM32.VXD itself, until files_lookup is through.
Converted == pc \in LookupPC /\ \/ made
                                \/ pc \in {"unpackw3", "extract"} /\ branch \in {"w3", "unpackw3"}

Removable(p) ==
  \/ \E j \in DOMAIN list : j >= k /\ p \in Scraps(list[j].row, list[j].created)
  \/ p \in RowScraps
  \/ p = EName /\ Converted

\* Every difference from the directory the run began with is a file that
\* was not there and that will be removed.
OnlyScraps == \A p \in Path : disk[p] # before[p] => before[p] = Absent /\ Removable(p)

\* The row and the items of the list made only what was not there.
ScrapsNew ==
  /\ pc \in AtRow => \A p \in Scraps(row, branch \in Unpacking) : before[p] = Absent
  /\ \A j \in DOMAIN list : \A p \in Scraps(list[j].row, list[j].created) : before[p] = Absent

\* Rows are looked up in order, and outside the modes for archives only
\* drivers of VMM32.VXD are unpacked.
InOrder ==
  pc \in LookupPC =>
    /\ mode \in Lookups
    /\ pc \in AtRow /\ branch \in Unpacking => mode = "cab" \/ Table[row].kind = "unpack"
    /\ pc \in AtRow /\ branch = "unpackw3" => mode # "cab"
    /\ \A j \in DOMAIN list :
         /\ list[j].row < row
         /\ list[j].created => mode = "cab" \/ Table[list[j].row].kind = "unpack"

\* No archive being unpacked is damaged.
Readable ==
  /\ pc = "unpackw3" => disk[VName] # Torn
  /\ pc = "extract" /\ branch \in {"kwaj", "w3"} => disk[Table[row].fname] # Torn

BeforeCommit == LookupPC \cup {"status", "ask", "cleanup"}

TidyInv ==
  /\ FirstRun
  /\ Whole
  /\ InOrder
  /\ Readable
  /\ ScrapsNew
  /\ pc \in BeforeCommit \ {"cleanup"} => k = 1
  /\ pc \in BeforeCommit => OnlyScraps
  /\ pc \in {"start", "done"} => \A p \in Temps : disk[p] = Absent
  /\ pc # "start" => \A p \in Temps : before[p] = Absent
  /\ pc \in CommitPC => \A p \in Temps : disk[p] # Absent =>
                          \E j \in DOMAIN list : j >= k /\ Table[list[j].row].tname = p
  /\ pc = "done" /\ result \in {"aborted", "nothing"} => disk = before

LEMMA NamesAre ==
  ASSUME TidyNames
  PROVE  /\ EName \in Temps /\ Temps \subseteq Path /\ Temps \cap Own = {}
         /\ \A i \in Rows :
              /\ Table[i] \in Row
              /\ Table[i].tname \in Temps /\ Table[i].tname # EName
              /\ Table[i].fname \notin Temps /\ Table[i].bname \notin Temps
              /\ Table[i].kind = "kwaj" => Table[i].kname \notin Temps \cup FNames
<1>1. \A i \in Rows : /\ Table[i] \in Row /\ Table[i].tname \in Path
                      /\ Table[i].tname # EName
  BY RowTyped DEF TidyNames, Row
<1>2. EName \in Temps /\ Temps \subseteq Path /\ \A i \in Rows : Table[i].tname \in Temps
  BY <1>1, ConstantsAssumption DEF Temps
<1>3. \A i \in Rows : Table[i].fname \notin Temps /\ Table[i].bname \notin Temps
  BY DEF TidyNames, DistinctNames, Temps
<1>4. \A i \in Rows : Table[i].kind = "kwaj" => Table[i].kname \notin Temps \cup FNames
  BY DEF TidyNames, DistinctNames, FNames
<1>5. Temps \cap Own = {}
  BY <1>3 DEF TidyNames, Own, FNames
<1> QED BY <1>1, <1>2, <1>3, <1>4, <1>5

LEMMA ScrapsAre ==
  ASSUME TidyNames, NEW i \in Rows, NEW created \in BOOLEAN
  PROVE  /\ Scraps(i, created) \subseteq Path
         /\ EName \notin Scraps(i, created)
         /\ Scraps(i, created) \cap Temps = {Table[i].tname}
         /\ \A j \in Rows : Table[j].fname \in Scraps(i, created) => i = j /\ created
         /\ (created => Table[i].kind = "unpack") => VName \notin Scraps(i, created)
BY NamesAre DEF Scraps, Row, TidyNames, DistinctNames, Own, FNames

LEMMA OriginalsWhole ==
  ASSUME NEW p \in Path, NEW ver \in Version, NEW w4 \in BOOLEAN
  PROVE  OriginalOf(p, ver, w4) # Torn
<1>1. OriginalOf(p, ver, w4) \in Content
  BY DEF OriginalOf, Content, Form
<1> QED BY <1>1, DataAssumption

LEMMA InitWhole ==
  ASSUME Init
  PROVE  /\ \A p \in Path : disk[p] # Torn /\ (p \notin Own => disk[p] = Absent)
         /\ \A i \in Rows : inside[i] # Torn
<1>1. PICK w4 \in BOOLEAN :
         /\ \E v \in [Own -> Versions \cup {"none"}] :
              disk = [p \in Path |-> IF p \notin Own THEN Absent
                                     ELSE IF v[p] = "none" THEN Absent
                                     ELSE OriginalOf(p, v[p], w4)]
         /\ \E v \in [Inner -> Versions \cup {"none"}] :
              inside = [i \in Rows |-> IF i \notin Inner THEN Absent
                                       ELSE IF v[i] = "none" THEN Absent
                                       ELSE OriginalOf(Table[i].fname, v[i], w4)]
  BY DEF Init
<1>2. \A p \in Path : disk[p] # Torn /\ (p \notin Own => disk[p] = Absent)
  <2>1. PICK v \in [Own -> Versions \cup {"none"}] :
          disk = [p \in Path |-> IF p \notin Own THEN Absent
                                 ELSE IF v[p] = "none" THEN Absent
                                 ELSE OriginalOf(p, v[p], w4)]
    BY <1>1
  <2>2. ASSUME NEW p \in Path, p \in Own, v[p] # "none"
        PROVE  OriginalOf(p, v[p], w4) # Torn
    BY <2>2, OriginalsWhole, ConstantsAssumption
  <2> QED BY <2>1, <2>2, DataAssumption
<1>3. \A i \in Rows : inside[i] # Torn
  <2>1. PICK v \in [Inner -> Versions \cup {"none"}] :
          inside = [i \in Rows |-> IF i \notin Inner THEN Absent
                                   ELSE IF v[i] = "none" THEN Absent
                                   ELSE OriginalOf(Table[i].fname, v[i], w4)]
    BY <1>1
  <2>2. ASSUME NEW i \in Rows, i \in Inner, v[i] # "none"
        PROVE  OriginalOf(Table[i].fname, v[i], w4) # Torn
    BY <2>2, OriginalsWhole, RowTyped, ConstantsAssumption DEF Row
  <2> QED BY <2>1, <2>2, DataAssumption
<1> QED BY <1>2, <1>3

LEMMA TidyInit ==
  ASSUME TidyNames, Init
  PROVE  TidyInv
<1>1. pc = "start" /\ list = << >> /\ runs = 0
  BY DEF Init
<1>2. FirstRun /\ Whole
  BY <1>1, InitWhole DEF FirstRun, Whole
<1>3. \A p \in Temps : disk[p] = Absent
  BY InitWhole, NamesAre
<1> QED BY <1>1, <1>2, <1>3 DEF TidyInv, InOrder, Readable, ScrapsNew, BeforeCommit,
                                LookupPC, CommitPC, AtRow

LEMMA TidyStart ==
  ASSUME Base, Tidy, TidyInv, Start
  PROVE  TidyInv'
<1>1. /\ pc \in {"start", "done"} /\ pc' = "row" /\ row' = 1 /\ list' = << >> /\ k' = 1
      /\ before' = disk /\ disk' = disk /\ inside' = inside /\ mode' \in Lookups
      /\ runs' = runs + 1 /\ runs < MaxRuns /\ branch' = "none" /\ made' = FALSE
  BY DEF Start, Tidy
<1>2. \A p \in Path : disk[p] # Torn
  <2>1. CASE pc = "start"
    BY <2>1 DEF TidyInv, FirstRun
  <2>2. CASE pc = "done"
    <3>1. runs > 0 /\ runs \in Nat /\ MaxRuns \in Nat
      BY <2>2, ConstantsAssumption DEF TidyInv, FirstRun, Base, TypeOK
    <3>2. Faults \cap {"full", "pack"} = {}
      BY <1>1, <3>1 DEF Tidy
    <3> QED BY <2>2, <3>2 DEF TidyInv, Whole, Writing
  <2> QED BY <1>1, <2>1, <2>2
<1>3. MaxRuns <= 1 => \A p \in Path \ Own : disk[p] = Absent
  <2>1. runs \in Nat /\ MaxRuns \in Nat
    BY ConstantsAssumption DEF Base, TypeOK
  <2>2. MaxRuns <= 1 => pc = "start"
    BY <1>1, <2>1 DEF TidyInv, FirstRun
  <2> QED BY <2>2 DEF TidyInv, FirstRun
<1>4. FirstRun'
  <2>1. runs' > 0
    BY <1>1 DEF Base, TypeOK
  <2> QED BY <1>1, <1>2, <1>3, <2>1 DEF FirstRun
<1>5. Whole' /\ InOrder' /\ Readable' /\ ScrapsNew' /\ OnlyScraps'
  BY <1>1, <1>2 DEF TidyInv, Whole, InOrder, Readable, ScrapsNew, OnlyScraps, AtRow
<1>6. \A p \in Temps : before'[p] = Absent
  BY <1>1 DEF TidyInv
<1> QED BY <1>1, <1>4, <1>5, <1>6 DEF TidyInv, CommitPC

\* The lookup begins a row with its file, and VMM32.VXD, as the run found
\* them.
LEMMA RowUntouched ==
  ASSUME Base, TidyNames, TidyInv, pc = "row", row <= Len(Table)
  PROVE  /\ disk[Table[row].fname] = before[Table[row].fname]
         /\ mode # "cab" => disk[VName] = before[VName]
<1>1. row \in Rows /\ Table[row].fname \in Path /\ VName \in Path /\ list \in Seq(Item)
  BY RowsAre, RowTyped, ConstantsAssumption DEF Row, Base, TypeOK
<1>2. \A j \in DOMAIN list : list[j] \in Item
  BY <1>1
<1>3. OnlyScraps /\ InOrder
  BY DEF TidyInv, BeforeCommit, LookupPC
<1>4. \A p : Removable(p) =>
        p = EName \/ \E j \in DOMAIN list : p \in Scraps(list[j].row, list[j].created)
  BY DEF Removable, RowScraps, AtRow
<1>5. \A j \in DOMAIN list : list[j].row \in Rows /\ list[j].created \in BOOLEAN
  BY <1>2 DEF Item
<1>6. \A j \in DOMAIN list : Table[row].fname \notin Scraps(list[j].row, list[j].created)
  <2> SUFFICES ASSUME NEW j \in DOMAIN list,
                      Table[row].fname \in Scraps(list[j].row, list[j].created)
               PROVE  FALSE
    OBVIOUS
  <2>1. list[j].row = row
    BY <1>1, <1>5, ScrapsAre
  <2>2. list[j].row < row
    BY <1>3 DEF InOrder, LookupPC
  <2> QED BY <1>1, <2>1, <2>2 DEF Rows
<1>7. mode # "cab" => \A j \in DOMAIN list : VName \notin Scraps(list[j].row, list[j].created)
  <2> SUFFICES ASSUME mode # "cab", NEW j \in DOMAIN list
               PROVE  VName \notin Scraps(list[j].row, list[j].created)
    OBVIOUS
  <2>1. list[j].created => Table[list[j].row].kind = "unpack"
    BY <1>3 DEF InOrder, LookupPC
  <2> QED BY <1>5, <2>1, ScrapsAre
<1>8. Table[row].fname # EName /\ VName # EName
  BY <1>1, NamesAre DEF TidyNames
<1> QED BY <1>1, <1>3, <1>4, <1>6, <1>7, <1>8 DEF OnlyScraps

\* What the lookup's steps have in common.
LEMMA LookupFrame ==
  ASSUME Base, Tidy, TidyInv, LookupStep
  PROVE  /\ pc \in LookupPC /\ pc' \in LookupPC \cup {"status"}
         /\ before' = before /\ inside' = inside /\ mode' = mode /\ runs' = runs
         /\ k = 1 /\ k' = 1
         /\ disk \in [Path -> Data] /\ before \in [Path -> Data]
         /\ OnlyScraps
         /\ \A p \in Temps : p \in Path /\ before[p] = Absent
         /\ pc \in AtRow => /\ row \in Rows /\ R = Table[row] /\ R \in Row
                            /\ R.tname \in Temps /\ R.fname \notin Temps
                            /\ R.tname # EName
                            /\ R.kind = "kwaj" => R.kname \notin Temps /\ R.kname # R.fname
<1> USE DEF world, walk, scan
<1>1. /\ pc \in LookupPC /\ pc' \in LookupPC \cup {"status"}
      /\ before' = before /\ inside' = inside /\ mode' = mode /\ runs' = runs /\ k' = k
  BY DEF LookupStep, SkipRow, OpenRow, BeginExtract, UnpackW3, EndExtract, ExtractFails,
         BeginPatch, EndPatch, NoPatch, EndLookup, AddItem, NextRow, InRow, LookupPC
<1>2. k = 1 /\ OnlyScraps /\ \A p \in Temps : before[p] = Absent
  BY <1>1 DEF TidyInv, BeforeCommit, LookupPC
<1>3. TidyNames
  BY DEF Tidy
<1>4. pc \in AtRow => row \in Rows /\ R = Table[row]
  BY RowsAre DEF Base, Positions, R
<1>5. \A i \in Rows : Table[i].kind = "kwaj" => Table[i].kname # Table[i].fname
  BY <1>3 DEF TidyNames, DistinctNames
<1> QED BY <1>1, <1>2, <1>3, <1>4, <1>5, NamesAre DEF Base, TypeOK

\* The archive a row unpacks is whole, so unpacking does not fail.
LEMMA NoExtractFails ==
  ASSUME Base, Tidy, TidyInv
  PROVE  ~ExtractFails
<1>1. pc \in {"unpackw3", "extract"} => R = Table[row]
  BY DEF R
<1> QED BY <1>1 DEF ExtractFails, Damaged, InputOf, Tidy, TidyInv, Readable, Base, Kinds

\* A row taken by files_lookup makes only what is not there.
LEMMA RowNew ==
  ASSUME Base, Tidy, TidyInv, pc = "row", row <= Len(Table), Branch # "skip"
  PROVE  \A p \in Scraps(row, Branch \in Unpacking) : before[p] = Absent
<1>1. row \in Rows /\ R = Table[row] /\ R \in Row
  BY RowsAre, RowTyped DEF R
<1>2. TidyNames /\ OnlyScraps /\ mode \in Lookups
  BY DEF Tidy, TidyInv, BeforeCommit, LookupPC, InOrder
<1>3. before[R.tname] = Absent
  BY <1>1, <1>2, NamesAre DEF TidyInv
<1>4. Branch \in Unpacking => before[R.fname] = Absent
  <2>1. Branch \in Unpacking => disk[R.fname] = Absent
    BY DEF Branch, Unpacking, Exists
  <2> QED BY <1>1, <1>2, <2>1, RowUntouched
<1>5. ASSUME R.kind = "kwaj" PROVE before[R.kname] = Absent
  <2>1. CASE Branch = "kwaj"
    <3>1. disk[R.kname] = Absent /\ R.kname \in Path
      BY <1>1, <2>1 DEF Branch, Exists, Row
    <3> QED BY <1>2, <3>1 DEF OnlyScraps
  <2>2. CASE Branch # "kwaj"
    <3>1. Listed(row)
      BY <1>1, <1>2, <1>5, <2>2 DEF Branch, Applies, Listed
    <3>2. MaxRuns <= 1 /\ R.kname \in Path \ Own
      BY <1>1, <1>2, <1>5, <3>1, NamesAre DEF TidyNames, Own, Row
    <3> QED BY <3>2 DEF TidyInv, FirstRun
  <2> QED BY <2>1, <2>2
<1> QED BY <1>1, <1>3, <1>4, <1>5 DEF Scraps

\* Steps of a row that write no file, or the one its branch unpacks to.
LEMMA TidyRow ==
  ASSUME Base, Tidy, TidyInv, SkipRow \/ OpenRow \/ BeginExtract
  PROVE  Whole' /\ InOrder' /\ Readable' /\ ScrapsNew' /\ OnlyScraps'
<1> USE DEF world, walk, scan
<1>0. LookupStep /\ pc = "row" /\ row <= Len(Table) /\ row' >= row /\ list' = list /\ made' = made
  BY DEF LookupStep, SkipRow, OpenRow, BeginExtract, InRow, NextRow, Base, TypeOK
<1>1. /\ before' = before /\ inside' = inside /\ mode' = mode /\ k = 1 /\ k' = 1
      /\ disk \in [Path -> Data] /\ before \in [Path -> Data] /\ OnlyScraps
  BY <1>0, LookupFrame
<1>2. row \in Rows /\ R = Table[row] /\ R \in Row /\ TidyNames /\ EName \in Path /\ VName \in Path
  BY <1>0, RowsAre, RowTyped, ConstantsAssumption DEF R, Tidy
<1>3. \A p \in Path : disk[p] = Torn => Faults \cap {"full", "pack"} # {}
  BY <1>0 DEF TidyInv, Whole, Writing
<1>4. \A j \in DOMAIN list : list[j].row \in Nat
  <2>1. \A j \in DOMAIN list : list[j] \in Item
    BY DEF Base, TypeOK
  <2> QED BY <2>1 DEF Item, Rows
<1>5. RowScraps = {} /\ \A p \in Path : disk[p] # before[p] =>
        \/ \E j \in DOMAIN list : p \in Scraps(list[j].row, list[j].created)
        \/ p = EName /\ made
  BY <1>0, <1>1 DEF OnlyScraps, Removable, RowScraps, Converted, AtRow
<1>6. \A j \in DOMAIN list, i \in Rows, c \in BOOLEAN : Scraps(i, c)' = Scraps(i, c)
  BY DEF Scraps
<1>7. CASE SkipRow
  <2>1. pc' = "row" /\ disk' = disk /\ row' = row + 1
    BY <1>7 DEF SkipRow, NextRow
  <2>2. OnlyScraps'
    BY <1>0, <1>1, <1>5, <2>1 DEF OnlyScraps, Removable, RowScraps, Converted, AtRow, LookupPC
  <2>3. InOrder'
    BY <1>0, <1>1, <1>2, <1>4, <2>1 DEF TidyInv, InOrder, AtRow, LookupPC, Rows
  <2> QED BY <1>0, <1>1, <2>1, <2>2, <2>3 DEF TidyInv, Whole, Writing, Readable, ScrapsNew, AtRow
<1>8. CASE OpenRow
  <2>1. pc' = "patch" /\ disk' = disk /\ row' = row /\ branch' = "open" /\ Branch = "open"
    BY <1>8 DEF OpenRow
  <2>2. OnlyScraps'
    BY <1>0, <1>1, <1>5, <2>1
    DEF OnlyScraps, Removable, RowScraps, Converted, AtRow, LookupPC, Unpacking
  <2>3. InOrder'
    BY <1>0, <1>1, <2>1 DEF TidyInv, InOrder, AtRow, LookupPC, Unpacking
  <2>4. ScrapsNew'
    BY <1>0, <1>1, <2>1, RowNew DEF TidyInv, ScrapsNew, Unpacking
  <2> QED BY <1>0, <1>1, <2>1, <2>2, <2>3, <2>4 DEF TidyInv, Whole, Writing, Readable
<1>9. CASE BeginExtract
  <2>1. /\ Branch \in {"kwaj", "w3", "unpack", "unpackw3", "cab"} /\ branch' = Branch
        /\ disk' = disk \/ disk' = Put(disk, OutOf(Branch), Torn)
        /\ pc' = IF Branch = "unpackw3" THEN "unpackw3" ELSE "extract"
        /\ row' = row /\ R' = R
    BY <1>9 DEF BeginExtract, R
  <2>2. OutOf(Branch) \in Path /\ \A p \in Path : p # OutOf(Branch) => disk'[p] = disk[p]
    BY <1>1, <1>2, <2>1, RTyped DEF Put, Base, TypeOK, Rows
  <2>3. /\ Branch = "kwaj" => R.kind = "kwaj" /\ Exists(disk, R.fname)
        /\ Branch = "w3" => R.kind = "pack" /\ Exists(disk, R.fname)
        /\ Branch \in {"unpack", "unpackw3"} => R.kind = "unpack" /\ mode # "cab"
        /\ Branch = "cab" => mode = "cab"
    BY <2>1 DEF Branch
  <2>4. /\ R.fname # EName /\ VName # EName
        /\ R.kind = "kwaj" => R.kname # R.fname
    BY <1>2, NamesAre DEF TidyNames, FNames
  <2>5. Readable'
    <3>1. disk[R.fname] = before[R.fname] /\ (mode # "cab" => disk[VName] = before[VName])
      BY <1>0, <1>2, RowUntouched
    <3>2. before[R.fname] # Torn /\ before[VName] # Torn
      BY <1>0, <1>2 DEF TidyInv, FirstRun, Row
    <3>3. Branch \in {"kwaj", "w3"} => OutOf(Branch) # R.fname
      BY <2>3, <2>4 DEF OutOf
    <3>4. Branch = "unpackw3" => OutOf(Branch) = EName
      BY DEF OutOf
    <3> QED BY <1>2, <2>1, <2>2, <2>3, <2>4, <3>1, <3>2, <3>3, <3>4 DEF Readable, Row
  <2>6. InOrder'
    BY <1>0, <1>1, <1>2, <2>1, <2>3 DEF TidyInv, InOrder, AtRow, LookupPC, Unpacking
  <2>7. ScrapsNew'
    BY <1>0, <1>1, <2>1, RowNew DEF TidyInv, ScrapsNew
  <2>8. /\ Branch \in {"unpack", "cab", "kwaj"} => Source' = OutOf(Branch)
        /\ Branch = "w3" => Source' = EName /\ OutOf(Branch) = EName
        /\ Branch = "unpackw3" => OutOf(Branch) = EName
    BY <2>1 DEF Source, OutOf
  <2>9. Whole'
    BY <1>1, <1>3, <2>1, <2>2, <2>8 DEF TidyInv, Whole, Writing
  <2>10. before[OutOf(Branch)] = Absent
    <3>1. OutOf(Branch) = EName \/ OutOf(Branch) \in Scraps(row, Branch \in Unpacking)
      BY <1>2, <2>1, <2>3 DEF OutOf, Scraps, Unpacking
    <3>2. Branch # "skip"
      BY <2>1
    <3> QED BY <1>0, <1>2, <3>1, <3>2, RowNew, NamesAre DEF TidyInv
  <2>11. \A p \in Path : p = OutOf(Branch) => Removable(p)'
    BY <2>1, <2>8 DEF Removable, RowScraps, Converted, AtRow, LookupPC, Unpacking
  <2>12. OnlyScraps'
    <3> SUFFICES ASSUME NEW p \in Path, disk'[p] # before'[p]
                 PROVE  before'[p] = Absent /\ Removable(p)'
      BY DEF OnlyScraps
    <3>1. CASE p = OutOf(Branch)
      BY <1>1, <2>10, <2>11, <3>1
    <3>2. CASE p # OutOf(Branch)
      <4>1. disk[p] # before[p]
        BY <1>1, <2>2, <3>2
      <4> QED BY <1>0, <1>1, <1>5, <2>1, <4>1 DEF OnlyScraps, Removable, Converted, LookupPC
    <3> QED BY <3>1, <3>2
  <2> QED BY <2>5, <2>6, <2>7, <2>9, <2>12
<1> QED BY <1>7, <1>8, <1>9

\* What a row has unpacked, or is about to.
LEMMA SourceIs ==
  ASSUME Base, Tidy, TidyInv, LookupStep, pc \in AtRow
  PROVE  /\ Source \in Path /\ Source # R.tname
         /\ branch \in Unpacking => Source = R.fname
         /\ branch = "kwaj" => Source = R.kname /\ R.kind = "kwaj"
         /\ branch = "w3" => Source = EName
         /\ branch \in Unpacking \cup {"kwaj"} =>
              /\ Source # EName
              /\ before[Source] = Absent
              /\ Source \in Scraps(row, branch \in Unpacking)
         /\ before[R.tname] = Absent /\ R.tname \in Scraps(row, branch \in Unpacking)
         /\ before[EName] = Absent /\ EName \in Path
<1>1. /\ row \in Rows /\ R = Table[row] /\ R \in Row /\ row <= Len(Table)
      /\ R.tname \in Temps /\ R.tname # EName /\ R.fname \notin Temps
      /\ R.kind = "kwaj" => R.kname \notin Temps
      /\ \A p \in Temps : p \in Path /\ before[p] = Absent
  BY LookupFrame DEF Rows
<1>2. EName \in Temps
  BY NamesAre DEF Tidy
<1>3. /\ branch \in Unpacking => Source = R.fname
      /\ branch = "kwaj" => Source = R.kname /\ R.kind = "kwaj"
      /\ branch = "w3" => Source = EName
      /\ branch \notin {"kwaj", "w3"} => Source = R.fname
  BY DEF Base, Kinds, Source, OutOf, Unpacking
<1>4. \A p \in Scraps(row, branch \in Unpacking) : before[p] = Absent
  BY DEF TidyInv, ScrapsNew
<1>5. /\ R.tname \in Scraps(row, branch \in Unpacking)
      /\ branch \in Unpacking => R.fname \in Scraps(row, branch \in Unpacking)
      /\ R.kind = "kwaj" => R.kname \in Scraps(row, branch \in Unpacking)
  BY <1>1 DEF Scraps
<1> QED BY <1>1, <1>2, <1>3, <1>4, <1>5 DEF Row

\* No conversion damages what it converts.
LEMMA AsWhole ==
  ASSUME NEW c \in Data, c # Torn
  PROVE  /\ \A form \in Form : As(c, form) # Torn
         /\ \A ver \in Version : Patched(c, ver) # Torn
<1>1. CASE c = Absent
  BY <1>1, DataAssumption DEF As, Patched
<1>2. CASE c \in Content
  <2>1. \A form \in Form : [c EXCEPT !.form = form] \in Content
    BY <1>2 DEF Content
  <2>2. \A ver \in Version : [c EXCEPT !.ver = ver] \in Content
    BY <1>2 DEF Content
  <2> QED BY <1>2, <2>1, <2>2, DataAssumption DEF As, Patched
<1> QED BY <1>1, <1>2 DEF Data

LEMMA TidyUnpackW3 ==
  ASSUME Base, Tidy, TidyInv, UnpackW3
  PROVE  Whole' /\ InOrder' /\ Readable' /\ ScrapsNew' /\ OnlyScraps'
<1> USE DEF world, walk, scan
<1>0. LookupStep /\ pc = "unpackw3" /\ pc \in AtRow /\ branch = "unpackw3" /\ pc' = "extract"
  BY DEF LookupStep, UnpackW3, AtRow, LookupPC, Base, Kinds
<1>1. /\ before' = before /\ inside' = inside /\ mode' = mode /\ k = 1 /\ k' = 1
      /\ disk \in [Path -> Data] /\ before \in [Path -> Data] /\ OnlyScraps
      /\ R \in Row /\ R = Table[row]
  BY <1>0, LookupFrame
<1>2. /\ row' = row /\ branch' = branch /\ made' = made /\ list' = list /\ R' = R
      /\ Source' = Source
  BY DEF UnpackW3, R, Source, OutOf
<1>3. /\ Source = R.fname /\ Source # EName /\ EName \in Path /\ R.fname \in Path
      /\ before[EName] = Absent /\ before[R.fname] = Absent
  BY <1>0, SourceIs DEF Unpacking
<1>4. PICK c \in Written(As(disk[VName], "w3")) :
        disk' = IF inside[row] = Absent THEN Put(disk, EName, c)
                ELSE Put(Put(disk, EName, c), R.fname, Torn)
  BY DEF UnpackW3
<1>5. \A p \in Path : p \notin {EName, R.fname} => disk'[p] = disk[p]
  BY <1>1, <1>3, <1>4 DEF Put
<1>6. disk'[EName] = c
  BY <1>1, <1>3, <1>4 DEF Put
<1>7. Faults \cap {"full", "pack"} = {} => c # Torn
  <2>1. disk[VName] \in Data /\ disk[VName] # Torn
    BY <1>0, <1>1, ConstantsAssumption DEF TidyInv, Readable
  <2>2. As(disk[VName], "w3") # Torn
    BY <2>1, AsWhole DEF Form
  <2> QED BY <1>4, <2>2 DEF Written
<1>8. Whole'
  BY <1>0, <1>1, <1>2, <1>3, <1>5, <1>6, <1>7 DEF TidyInv, Whole, Writing
<1>9. Removable(EName)' /\ \A p \in Path : p = R.fname => Removable(p)'
  BY <1>0, <1>2, <1>3 DEF Removable, RowScraps, Converted, AtRow, LookupPC, Unpacking
<1>10. OnlyScraps'
  <2> SUFFICES ASSUME NEW p \in Path, disk'[p] # before'[p]
               PROVE  before'[p] = Absent /\ Removable(p)'
    BY DEF OnlyScraps
  <2>1. CASE p \in {EName, R.fname}
    BY <1>1, <1>3, <1>9, <2>1
  <2>2. CASE p \notin {EName, R.fname}
    <3>1. disk[p] # before[p]
      BY <1>1, <1>5, <2>2
    <3>2. before[p] = Absent /\ \E j \in DOMAIN list :
            j >= k /\ p \in Scraps(list[j].row, list[j].created)
      BY <1>0, <1>1, <1>3, <2>2, <3>1 DEF OnlyScraps, Removable, RowScraps
    <3> QED BY <1>1, <1>2, <3>2 DEF Removable
  <2> QED BY <2>1, <2>2
<1> QED BY <1>0, <1>1, <1>2, <1>8, <1>10
        DEF TidyInv, InOrder, Readable, ScrapsNew, AtRow, LookupPC

LEMMA TidyEndExtract ==
  ASSUME Base, Tidy, TidyInv, EndExtract
  PROVE  Whole' /\ InOrder' /\ Readable' /\ ScrapsNew' /\ OnlyScraps'
<1> USE DEF world, walk, scan
<1>0. /\ LookupStep /\ pc = "extract" /\ pc \in AtRow
      /\ branch \in {"kwaj", "w3"} \cup Unpacking
  BY DEF LookupStep, EndExtract, AtRow, LookupPC, Base, Kinds
<1>1. /\ before' = before /\ inside' = inside /\ mode' = mode /\ k = 1 /\ k' = 1
      /\ disk \in [Path -> Data] /\ before \in [Path -> Data] /\ OnlyScraps
      /\ R \in Row /\ R = Table[row] /\ row \in Rows /\ R.fname \notin Temps
  BY <1>0, LookupFrame
<1>2. PICK c \in IF Unpacked = Absent THEN {Absent} ELSE Written(Unpacked) :
        /\ disk' = IF branch = "unpackw3" THEN Unlink(Put(disk, Source, c), EName)
                   ELSE Put(disk, Source, c)
        /\ IF c = Absent THEN NextRow ELSE pc' = "patch" /\ UNCHANGED <<row, branch>>
  BY DEF EndExtract
<1>3. made' = (made \/ branch = "w3") /\ list' = list
  BY DEF EndExtract
<1>4. /\ Source \in Path /\ EName \in Path
      /\ before[EName] = Absent /\ before[Source] = Absent
      /\ branch = "w3" => Source = EName
      /\ branch # "w3" => Source # EName
  BY <1>0, SourceIs DEF Unpacking
<1>5. /\ disk'[Source] = c
      /\ branch = "unpackw3" => disk'[EName] = Absent
      /\ \A p \in Path : p \notin {Source, EName} => disk'[p] = disk[p]
      /\ branch # "unpackw3" => \A p \in Path : p # Source => disk'[p] = disk[p]
  BY <1>1, <1>2, <1>4 DEF Put, Unlink
<1>6. Faults \cap {"full", "pack"} = {} => c # Torn
  <2> SUFFICES ASSUME Faults \cap {"full", "pack"} = {} PROVE Unpacked # Torn
    BY <1>2, DataAssumption DEF Written
  <2>1. CASE branch \in {"kwaj", "w3"}
    <3>1. disk[R.fname] \in Data /\ disk[R.fname] # Torn
      BY <1>0, <1>1, <2>1 DEF TidyInv, Readable, Row
    <3> QED BY <2>1, <3>1, AsWhole DEF Unpacked, Form
  <2>2. CASE branch \in Unpacking
    <3>1. disk[EName] # Torn
      BY <1>0, <1>4, <2>2 DEF TidyInv, Whole, Writing, Unpacking
    <3> QED BY <1>0, <1>1, <2>2, <3>1 DEF Unpacked, TidyInv, Whole, Unpacking
  <2> QED BY <1>0, <2>1, <2>2
<1>7. pc' \in {"row", "patch"} /\ (pc' = "patch" => row' = row /\ branch' = branch /\ R' = R)
  BY <1>2 DEF NextRow, R
<1>8. Whole'
  <2> SUFFICES ASSUME Faults \cap {"full", "pack"} = {}, NEW p \in Path, disk'[p] = Torn
               PROVE  FALSE
    BY <1>1 DEF TidyInv, Whole
  <2>1. p # Source /\ ~(branch = "unpackw3" /\ p = EName)
    BY <1>5, <1>6, DataAssumption
  <2>2. disk[p] = Torn
    BY <1>4, <1>5, <2>1
  <2> QED BY <1>0, <2>1, <2>2 DEF TidyInv, Whole, Writing
<1>9. OnlyScraps'
  <2> SUFFICES ASSUME NEW p \in Path, disk'[p] # before'[p]
               PROVE  before'[p] = Absent /\ Removable(p)'
    BY DEF OnlyScraps
  <2>1. CASE p = Source
    <3>1. c # Absent
      BY <1>1, <1>4, <1>5, <2>1
    <3>2. pc' = "patch" /\ Source' = Source /\ R' = R /\ branch' = branch
      BY <1>2, <1>7, <3>1 DEF Source, OutOf
    <3>3. CASE branch = "w3"
      BY <1>1, <1>3, <1>4, <2>1, <3>2, <3>3 DEF Removable, Converted, LookupPC
    <3>4. CASE branch \in Unpacking \cup {"kwaj"}
      BY <1>1, <1>4, <2>1, <3>2, <3>4 DEF Removable, RowScraps, AtRow, LookupPC
    <3> QED BY <1>0, <3>3, <3>4
  <2>2. CASE p # Source
    <3>1. disk[p] # before[p] /\ ~(branch = "unpackw3" /\ p = EName)
      BY <1>1, <1>4, <1>5, <2>2
    <3>2. before[p] = Absent
      BY <1>1, <3>1 DEF OnlyScraps
    <3>3. \/ \E j \in DOMAIN list : j >= k /\ p \in Scraps(list[j].row, list[j].created)
          \/ p = EName /\ made
      BY <1>0, <1>1, <1>4, <2>2, <3>1 DEF OnlyScraps, Removable, RowScraps, Converted
    <3> QED BY <1>1, <1>3, <1>7, <3>2, <3>3 DEF Removable, Converted, LookupPC
  <2> QED BY <2>1, <2>2
<1>10. row' = row \/ row' = row + 1
  BY <1>2 DEF NextRow
<1>11. InOrder'
  <2>1. \A j \in DOMAIN list : list[j].row \in Nat
    <3>1. \A j \in DOMAIN list : list[j] \in Item
      BY DEF Base, TypeOK
    <3> QED BY <3>1 DEF Item, Rows
  <2>2. pc' \in AtRow => pc' = "patch"
    BY <1>7 DEF AtRow
  <2> QED BY <1>0, <1>1, <1>3, <1>7, <1>10, <2>1, <2>2
          DEF TidyInv, InOrder, AtRow, LookupPC, Rows
<1>12. ScrapsNew'
  BY <1>0, <1>1, <1>3, <1>7 DEF TidyInv, ScrapsNew, AtRow, LookupPC
<1> QED BY <1>7, <1>8, <1>9, <1>11, <1>12 DEF Readable

\* pmodfiles_add hands the files of the row over to its item.
LEMMA TidyAddItem ==
  ASSUME Base, Tidy, TidyInv, LookupStep, pc \in {"patch", "patching"},
         NEW d, NEW applied \in BOOLEAN, AddItem(d, applied),
         d \in [Path -> Data],
         \A p \in Path : d[p] # disk[p] => p = R.tname,
         pc = "patch" => d = disk,
         Faults \cap {"full", "pack"} = {} => d[R.tname] # Torn
  PROVE  Whole' /\ InOrder' /\ Readable' /\ ScrapsNew' /\ OnlyScraps'
<1> USE DEF world, walk, scan
<1> DEFINE e == [row |-> row, applied |-> applied,
                 created |-> branch \in {"unpack", "unpackw3", "cab"}]
<1>1. /\ before' = before /\ inside' = inside /\ mode' = mode /\ k = 1 /\ k' = 1
      /\ disk \in [Path -> Data] /\ before \in [Path -> Data] /\ OnlyScraps
      /\ R \in Row /\ R = Table[row] /\ row \in Rows /\ pc \in AtRow
  BY LookupFrame DEF AtRow, LookupPC
<1>2. /\ pc' = "row" /\ row' = row + 1 /\ list' = Append(list, e)
      /\ \/ mode = "file" /\ branch = "w3" /\ disk' = Unlink(d, EName) /\ made' = FALSE
         \/ disk' = d /\ made' = made
  BY DEF AddItem, NextRow
<1>3. /\ EName \in Path /\ before[EName] = Absent /\ before[R.tname] = Absent
      /\ branch \in Unpacking \cup {"kwaj"} => Source \in Scraps(row, branch \in Unpacking)
      /\ R.tname \in Scraps(row, branch \in Unpacking)
  BY <1>1, SourceIs
<1>4. list \in Seq(Item) /\ e \in Item /\ Len(list) \in Nat
  BY <1>1 DEF Base, TypeOK, Item
<1>5. /\ e.row = row /\ e.created = (branch \in Unpacking)
  BY DEF Unpacking
<1> HIDE DEF e
<1>6. /\ DOMAIN list' = 1 .. Len(list) + 1 /\ DOMAIN list = 1 .. Len(list)
      /\ \A j \in DOMAIN list : j \in DOMAIN list' /\ list'[j] = list[j]
      /\ list'[Len(list) + 1] = e
  BY <1>2, <1>4
<1>7. Whole'
  <2> SUFFICES ASSUME Faults \cap {"full", "pack"} = {}, NEW p \in Path, disk'[p] = Torn
               PROVE  FALSE
    BY <1>1 DEF TidyInv, Whole
  <2>1. d[p] = Torn
    BY <1>2, <1>3, DataAssumption DEF Unlink
  <2>2. p # R.tname /\ disk[p] = Torn
    BY <2>1
  <2> QED BY <2>2 DEF TidyInv, Whole, Writing
<1>8. OnlyScraps'
  <2> SUFFICES ASSUME NEW p \in Path, disk'[p] # before'[p]
               PROVE  before'[p] = Absent /\ Removable(p)'
    BY DEF OnlyScraps
  <2>1. d[p] # before[p] /\ (p = EName => disk' = d /\ made' = made)
    BY <1>1, <1>2, <1>3 DEF Unlink
  <2>2. CASE p \in Scraps(row, branch \in Unpacking)
    <3>1. before[p] = Absent
      BY <1>1, <2>2 DEF TidyInv, ScrapsNew
    <3>2. Len(list) + 1 \in DOMAIN list' /\ Len(list) + 1 >= k'
      BY <1>1, <1>4, <1>6
    <3>3. p \in Scraps(list'[Len(list) + 1].row, list'[Len(list) + 1].created)
      BY <1>5, <1>6, <2>2
    <3> QED BY <1>1, <3>1, <3>2, <3>3 DEF Removable, Scraps
  <2>3. CASE p \notin Scraps(row, branch \in Unpacking)
    <3>1. disk[p] # before[p]
      BY <1>3, <2>1, <2>3
    <3>2. before[p] = Absent
      BY <1>1, <3>1 DEF OnlyScraps
    <3>3. \/ \E j \in DOMAIN list : j >= k /\ p \in Scraps(list[j].row, list[j].created)
          \/ p = EName /\ made
      BY <1>1, <1>3, <2>3, <3>1 DEF OnlyScraps, Removable, RowScraps, Converted
    <3>4. CASE p = EName /\ made
      BY <1>1, <1>2, <2>1, <3>2, <3>4 DEF Removable, Converted, LookupPC
    <3>5. CASE \E j \in DOMAIN list : j >= k /\ p \in Scraps(list[j].row, list[j].created)
      <4>1. PICK j \in DOMAIN list : j >= k /\ p \in Scraps(list[j].row, list[j].created)
        BY <3>5
      <4>2. j \in DOMAIN list' /\ j >= k' /\ p \in Scraps(list'[j].row, list'[j].created)
        BY <1>1, <1>6, <4>1
      <4> QED BY <1>1, <3>2, <4>2 DEF Removable, Scraps
    <3> QED BY <3>3, <3>4, <3>5
  <2> QED BY <2>2, <2>3
<1>9. \A j \in DOMAIN list' : j \in DOMAIN list \/ j = Len(list) + 1
  BY <1>4, <1>6
<1>10. InOrder'
  <2>1. mode \in Lookups /\ (e.created => mode = "cab" \/ Table[row].kind = "unpack")
    BY <1>1, <1>5 DEF TidyInv, InOrder, LookupPC, AtRow
  <2>2. \A j \in DOMAIN list : /\ list[j].row < row
                               /\ list[j].created => mode = "cab" \/ Table[list[j].row].kind = "unpack"
    BY <1>1 DEF TidyInv, InOrder, LookupPC, AtRow
  <2>3. \A j \in DOMAIN list : list[j].row \in Nat
    BY <1>4, RowOfItem DEF Rows
  <2>4. row \in Nat /\ row' = row + 1
    BY <1>1, <1>2 DEF Rows
  <2>5. \A j \in DOMAIN list' : list'[j].row < row'
    BY <1>5, <1>6, <1>9, <2>2, <2>3, <2>4
  <2>6. \A j \in DOMAIN list' :
          list'[j].created => mode = "cab" \/ Table[list'[j].row].kind = "unpack"
    BY <1>5, <1>6, <1>9, <2>1, <2>2
  <2> QED BY <1>1, <1>2, <2>1, <2>5, <2>6 DEF InOrder, AtRow
<1>11. ScrapsNew'
  <2>1. \A j \in DOMAIN list' : \A p \in Scraps(list'[j].row, list'[j].created) : before[p] = Absent
    BY <1>1, <1>5, <1>6, <1>9 DEF TidyInv, ScrapsNew
  <2> QED BY <1>1, <1>2, <2>1 DEF ScrapsNew, AtRow, Scraps
<1> QED BY <1>2, <1>7, <1>8, <1>10, <1>11 DEF Readable

LEMMA TidyPatch ==
  ASSUME Base, Tidy, TidyInv, BeginPatch \/ EndPatch \/ NoPatch \/ EndLookup
  PROVE  Whole' /\ InOrder' /\ Readable' /\ ScrapsNew' /\ OnlyScraps'
<1> USE DEF world, walk, scan
<1>0. LookupStep
  BY DEF LookupStep
<1>1. /\ before' = before /\ inside' = inside /\ mode' = mode /\ k = 1 /\ k' = 1
      /\ disk \in [Path -> Data] /\ before \in [Path -> Data] /\ OnlyScraps
      /\ pc \in AtRow => /\ R \in Row /\ R = Table[row] /\ row \in Rows /\ R.tname # EName
                         /\ Source \in Path /\ Source # R.tname
                         /\ before[R.tname] = Absent
      /\ before[EName] = Absent /\ EName \in Path
  BY <1>0, LookupFrame, SourceIs, NamesAre DEF Tidy
<1>2. CASE BeginPatch
  <2>1. /\ pc = "patch" /\ pc \in AtRow /\ pc' = "patching" /\ disk' = Put(disk, R.tname, Torn)
        /\ row' = row /\ branch' = branch /\ made' = made /\ list' = list /\ R' = R
        /\ Source' = Source
    BY <1>2 DEF BeginPatch, AtRow, LookupPC, R, Source, OutOf
  <2>2. \A p \in Path : p # R.tname => disk'[p] = disk[p]
    BY <1>1, <2>1 DEF Put
  <2>3. Whole'
    BY <1>1, <2>1, <2>2 DEF TidyInv, Whole, Writing
  <2>4. OnlyScraps'
    <3> SUFFICES ASSUME NEW p \in Path, disk'[p] # before'[p]
                 PROVE  before'[p] = Absent /\ Removable(p)'
      BY DEF OnlyScraps
    <3>1. CASE p = R.tname
      BY <1>1, <2>1, <3>1 DEF Removable, RowScraps
    <3>2. CASE p # R.tname
      <4>1. disk[p] # before[p]
        BY <1>1, <2>2, <3>2
      <4>2. before[p] = Absent /\ Removable(p)
        BY <1>1, <4>1 DEF OnlyScraps
      <4> QED BY <1>1, <2>1, <4>2 DEF Removable, RowScraps, Converted, LookupPC, AtRow
    <3> QED BY <3>1, <3>2
  <2> QED BY <1>1, <2>1, <2>3, <2>4 DEF TidyInv, InOrder, Readable, ScrapsNew, AtRow, LookupPC
<1>3. CASE EndPatch
  <2>1. pc = "patching" /\ pc \in AtRow
    BY <1>3 DEF EndPatch, AtRow, LookupPC
  <2>2. PICK new \in Written(Patched(disk[Source], To)) :
          AddItem(Put(disk, R.tname, new), TRUE)
    BY <1>3 DEF EndPatch
  <2>3. disk[Source] \in Data /\ R.tname \in Path
    BY <1>1, <2>1 DEF Row
  <2>4. new \in Data /\ Put(disk, R.tname, new) \in [Path -> Data]
    BY <1>1, <2>2, <2>3, DataTyped, DiskTyped DEF To, Version
  <2>5. Faults \cap {"full", "pack"} = {} => new # Torn
    <3>1. Faults \cap {"full", "pack"} = {} => disk[Source] # Torn
      BY <1>1, <2>1 DEF TidyInv, Whole, Writing
    <3> QED BY <2>2, <2>3, <3>1, AsWhole DEF Written, To, Version
  <2>6. /\ Put(disk, R.tname, new)[R.tname] = new
        /\ \A p \in Path : Put(disk, R.tname, new)[p] # disk[p] => p = R.tname
    BY <1>1, <2>3 DEF Put
  <2> QED BY <1>0, <2>1, <2>2, <2>4, <2>5, <2>6, TidyAddItem
<1>4. CASE NoPatch
  <2>1. pc = "patch" /\ pc \in AtRow /\ AddItem(disk, FALSE)
    BY <1>4 DEF NoPatch, AtRow, LookupPC
  <2>2. Faults \cap {"full", "pack"} = {} => disk[R.tname] # Torn
    BY <1>1, <2>1 DEF TidyInv, Whole, Writing, Row
  <2> QED BY <1>0, <1>1, <2>1, <2>2, TidyAddItem
<1>5. CASE EndLookup
  <2>1. /\ pc = "row" /\ pc' = "status" /\ list' = list
        /\ disk' = IF made THEN Unlink(disk, EName) ELSE disk
    BY <1>5 DEF EndLookup
  <2>2. Whole'
    <3> SUFFICES ASSUME Faults \cap {"full", "pack"} = {}, NEW p \in Path, disk'[p] = Torn
                 PROVE  FALSE
      BY <1>1 DEF TidyInv, Whole
    <3>1. disk[p] = Torn
      BY <1>1, <2>1, DataAssumption DEF Unlink
    <3> QED BY <2>1, <3>1 DEF TidyInv, Whole, Writing
  <2>3. OnlyScraps'
    <3> SUFFICES ASSUME NEW p \in Path, disk'[p] # before'[p]
                 PROVE  before'[p] = Absent /\ Removable(p)'
      BY DEF OnlyScraps
    <3>1. disk[p] # before[p] /\ ~(p = EName /\ made)
      BY <1>1, <2>1 DEF Unlink
    <3>2. before[p] = Absent /\ \E j \in DOMAIN list :
            j >= k /\ p \in Scraps(list[j].row, list[j].created)
      BY <1>1, <2>1, <3>1 DEF OnlyScraps, Removable, RowScraps, Converted, AtRow
    <3> QED BY <1>1, <2>1, <3>2 DEF Removable
  <2> QED BY <1>1, <2>1, <2>2, <2>3
          DEF TidyInv, InOrder, Readable, ScrapsNew, AtRow, LookupPC
<1> QED BY <1>2, <1>3, <1>4, <1>5

LEMMA TidyLookup ==
  ASSUME Base, Tidy, TidyInv, LookupStep
  PROVE  TidyInv'
<1>1. Whole' /\ InOrder' /\ Readable' /\ ScrapsNew' /\ OnlyScraps'
  BY NoExtractFails, TidyRow, TidyUnpackW3, TidyEndExtract, TidyPatch DEF LookupStep
<1>2. /\ pc \in LookupPC /\ pc' \in LookupPC \cup {"status"}
      /\ before' = before /\ runs' = runs /\ k' = 1
  BY LookupFrame
<1> QED BY <1>1, <1>2 DEF TidyInv, FirstRun, LookupPC, CommitPC, BeforeCommit

LEMMA TidyCleanup ==
  ASSUME Base, Tidy, TidyInv, CleanupStep
  PROVE  TidyInv'
<1> USE DEF world, walk, scan
<1>1. /\ pc = "cleanup" /\ before' = before /\ inside' = inside /\ runs' = runs /\ list' = list
      /\ disk \in [Path -> Data] /\ before \in [Path -> Data] /\ OnlyScraps
      /\ k \in Nat /\ list \in Seq(Item)
  BY DEF CleanupStep, CleanupItem, CleanupDone, InItem, TidyInv, BeforeCommit, Base, TypeOK
<1>2. \A p \in Path : disk[p] # before[p] =>
        /\ before[p] = Absent
        /\ \E j \in DOMAIN list : j >= k /\ p \in Scraps(list[j].row, list[j].created)
  BY <1>1 DEF OnlyScraps, Removable, RowScraps, Converted, LookupPC, AtRow
<1>3. FirstRun' /\ ScrapsNew'
  BY <1>1 DEF CleanupStep, CleanupItem, CleanupDone, TidyInv, FirstRun, ScrapsNew, AtRow, LookupPC,
              Scraps
<1>4. CASE CleanupItem
  <2>1. k <= Len(list) /\ k' = k + 1 /\ pc' = pc
    BY <1>4 DEF CleanupItem, InItem
  <2>2. /\ It \in Item /\ It.row \in Rows /\ CR = Table[It.row] /\ It = list[k]
        /\ k \in DOMAIN list
    BY <1>1, <2>1, RowsAre DEF It, Base, TypeOK
  <2>3. \A p \in Path : disk'[p] = IF p \in Scraps(It.row, It.created) THEN Absent ELSE disk[p]
    BY <1>1, <1>4, <2>2 DEF CleanupItem, Scraps, Unlink
  <2>4. OnlyScraps'
    <3> SUFFICES ASSUME NEW p \in Path, disk'[p] # before'[p]
                 PROVE  before'[p] = Absent /\ Removable(p)'
      BY DEF OnlyScraps
    <3>1. p \notin Scraps(It.row, It.created) /\ disk[p] # before[p]
      BY <1>1, <2>2, <2>3 DEF TidyInv, ScrapsNew
    <3>2. PICK j \in DOMAIN list : j >= k /\ p \in Scraps(list[j].row, list[j].created)
      BY <1>2, <3>1
    <3>3. j # k
      BY <2>2, <3>1, <3>2
    <3>4. j >= k'
      BY <1>1, <2>1, <3>2, <3>3
    <3> QED BY <1>1, <1>2, <3>1, <3>2, <3>4 DEF Removable, Scraps
  <2>5. Whole'
    <3> SUFFICES ASSUME Faults \cap {"full", "pack"} = {}, NEW p \in Path, disk'[p] = Torn
                 PROVE  FALSE
      BY <1>1 DEF TidyInv, Whole
    <3>1. disk[p] = Torn
      BY <2>3, DataAssumption
    <3> QED BY <1>1, <3>1 DEF TidyInv, Whole, Writing
  <2> QED BY <1>1, <1>3, <2>1, <2>4, <2>5
          DEF TidyInv, InOrder, Readable, LookupPC, CommitPC, BeforeCommit
<1>5. CASE CleanupDone
  <2>1. k > Len(list) /\ pc' = "done" /\ disk' = disk
    BY <1>5 DEF CleanupDone
  <2>2. \A p \in Path : disk[p] = before[p]
    BY <1>1, <1>2, <2>1
  <2>3. disk = before
    BY <1>1, <2>2
  <2>4. Whole'
    BY <1>1, <2>1 DEF TidyInv, Whole, Writing
  <2>5. \A p \in Temps : before[p] = Absent
    BY <1>1 DEF TidyInv
  <2> QED BY <1>1, <1>3, <2>1, <2>3, <2>4, <2>5
          DEF TidyInv, InOrder, Readable, LookupPC, CommitPC, BeforeCommit
<1> QED BY <1>4, <1>5 DEF CleanupStep

\* The steps of files_commit leave no copy of an item they are through
\* with, and make none.
LEMMA CopiesGo ==
  ASSUME Base, Tidy, TidyInv, CommitStep
  PROVE  /\ pc' \in CommitPC \cup {"done"}
         /\ \A p \in Temps : disk'[p] \in {Absent, disk[p]}
         /\ \/ k' = k /\ pc' # "done"
            \/ k' = k + 1 /\ k <= Len(list) /\ pc' # "done" /\ disk'[CR.tname] = Absent
            \/ k' = k /\ k > Len(list) /\ pc' = "done" /\ result' = "committed"
<1> USE DEF world, walk, scan, CommitPC
<1>1. disk \in [Path -> Data] /\ after \in {"pack", "rename"}
  BY DEF Base, TypeOK
<1>2. k <= Len(list) => /\ CR \in Row /\ CR.tname \in Path
                        /\ CR.tname \in Temps /\ CR.fname \notin Temps /\ CR.bname \notin Temps
  BY RowsAre, NamesAre DEF Tidy, Row
<1>3. Temps \subseteq Path
  BY NamesAre DEF Tidy
<1>4. pc \in AtItem => k <= Len(list)
  BY DEF Base, Positions
<1>5. CASE CommitUnselected
  BY <1>1, <1>2, <1>3, <1>5 DEF CommitUnselected, NextItem, InItem, Unlink
<1>6. CASE CommitFile \/ CommitKwaj \/ CommitDone
  BY <1>6 DEF CommitFile, CommitKwaj, CommitDone, InItem
<1>7. CASE BackupStep
  <2>1. /\ k' = k /\ pc' \in {after, "backingup"} /\ pc \in AtItem
        /\ disk' = disk \/ \E c : disk' = Put(disk, CR.bname, c)
    BY <1>7 DEF BackupStep, NoBackupMade, BeginBackup, EndBackup, AtItem
  <2> QED BY <1>1, <1>2, <1>3, <1>4, <2>1 DEF Put
<1>8. CASE BeginPack \/ EndPack \/ PackMissed \/ PackRefused \/ BeginKwaj \/ EndKwaj \/ KwajFails
  <2>1. /\ k' = k /\ pc' \in {"packing", "drop", "backup", "kwajing"} /\ pc \in AtItem
        /\ disk' = disk \/ \E c : disk' = Put(disk, CR.fname, c)
    BY <1>8 DEF BeginPack, EndPack, PackMissed, PackRefused, BeginKwaj, EndKwaj, KwajFails,
                FallBack, AtItem
  <2> QED BY <1>1, <1>2, <1>3, <1>4, <2>1 DEF Put
<1>9. CASE Drop \/ DropCopy
  <2>1. pc \in AtItem
    BY <1>9 DEF Drop, DropCopy, AtItem
  <2> QED BY <1>1, <1>2, <1>3, <1>4, <1>9, <2>1 DEF Drop, DropCopy, NextItem, Unlink
<1>10. CASE RenameNothing
  BY <1>4, <1>10 DEF RenameNothing, NextItem, Exists, AtItem
<1>11. CASE RenameUnlink \/ RenameCopies \/ EndCopy
  <2>1. /\ k' = k /\ pc' \in {"renaming", "copying", "dropcopy"} /\ pc \in AtItem
        /\ \E c : disk' = Put(disk, CR.fname, c)
    BY <1>11 DEF RenameUnlink, RenameCopies, EndCopy, AtItem, Unlink, Put
  <2> QED BY <1>1, <1>2, <1>3, <1>4, <2>1 DEF Put
<1>12. CASE RenameMove
  <2>1. pc \in AtItem
    BY <1>12 DEF RenameMove, AtItem
  <2> QED BY <1>1, <1>2, <1>3, <1>4, <1>12, <2>1 DEF RenameMove, NextItem, Move
<1>13. CASE RenameLost
  BY <1>13 DEF RenameLost, Tidy
<1> QED BY <1>5, <1>6, <1>7, <1>8, <1>9, <1>10, <1>11, <1>12, <1>13
        DEF CommitStep, PackStep, RenameStep

\* With room on the disk files_commit damages nothing for longer than it
\* writes.
LEMMA CommitWhole ==
  ASSUME Base, Tidy, TidyInv, CommitStep, Faults \cap {"full", "pack"} = {},
         NEW p \in Path, disk'[p] = Torn
  PROVE  Writing(p)'
<1> USE DEF world, walk, scan
<1>1. disk \in [Path -> Data] /\ pc \in CommitPC
  BY DEF Base, TypeOK, CommitPC, CommitStep, CommitUnselected, CommitFile, CommitKwaj,
         CommitDone, BackupStep, PackStep, RenameStep, NoBackupMade, BeginBackup, EndBackup,
         BeginPack, EndPack, PackMissed, PackRefused, BeginKwaj, EndKwaj, KwajFails, Drop,
         RenameNothing, RenameUnlink, RenameMove, RenameCopies, RenameLost, EndCopy, DropCopy,
         InItem
<1>2. pc \in AtItem => /\ CR \in Row /\ CR.tname \in Path /\ CR.fname \in Path /\ CR.bname \in Path
                       /\ CR.tname # CR.fname /\ CR.tname # CR.bname /\ CR.fname # CR.bname
  <2>1. pc \in AtItem => CR \in Row /\ It.row \in Rows /\ CR = Table[It.row]
    BY RowsAre, RowTyped DEF Base, Positions
  <2> QED BY <2>1 DEF Tidy, TidyNames, DistinctNames, Row
<1>3. \A q \in Path : disk[q] = Torn =>
        \/ pc = "backingup" /\ q = CR.bname
        \/ pc \in {"packing", "kwajing", "copying"} /\ q = CR.fname
  BY <1>1 DEF TidyInv, Whole, Writing, CommitPC
<1>4. k' = k /\ list' = list => CR' = CR
  BY DEF CR, It
<1>5. CASE CommitUnselected
  BY <1>1, <1>3, <1>5, DataAssumption DEF CommitUnselected, InItem, Unlink
<1>6. CASE CommitFile \/ CommitKwaj \/ CommitDone \/ NoBackupMade \/ PackMissed \/ PackRefused
  BY <1>3, <1>6 DEF CommitFile, CommitKwaj, CommitDone, NoBackupMade, PackMissed, PackRefused,
                    InItem
<1>7. CASE BeginBackup
  BY <1>1, <1>3, <1>4, <1>7 DEF BeginBackup, Put, Writing
<1>8. CASE BeginPack \/ BeginKwaj \/ RenameCopies
  BY <1>1, <1>3, <1>4, <1>8 DEF BeginPack, BeginKwaj, RenameCopies, Put, Writing
<1>9. CASE EndBackup
  BY <1>1, <1>2, <1>3, <1>9 DEF EndBackup, Put, Written, AtItem, CommitPC
<1>10. CASE EndPack \/ EndKwaj \/ EndCopy
  <2>1. pc \in {"packing", "kwajing", "copying"} /\ pc \in AtItem
    BY <1>10 DEF EndPack, EndKwaj, EndCopy, AtItem, CommitPC
  <2>2. disk[CR.tname] \in Data /\ disk[CR.tname] # Torn
    BY <1>1, <1>2, <1>3, <2>1
  <2>3. As(disk[CR.tname], "w4") # Torn /\ Stored(disk[CR.tname]) # Torn
    BY <2>2, AsWhole DEF Stored, Form
  <2>4. PICK c : disk' = Put(disk, CR.fname, c) /\ c # Torn
    <3>1. CASE EndPack
      BY <2>3, <3>1 DEF EndPack, Written
    <3>2. CASE EndKwaj
      BY <2>3, <3>2 DEF EndKwaj, Written
    <3>3. CASE EndCopy
      BY <2>2, <3>3 DEF EndCopy, Written
    <3> QED BY <1>10, <3>1, <3>2, <3>3
  <2> QED BY <1>1, <1>2, <1>3, <2>1, <2>4 DEF Put
<1>11. CASE KwajFails
  BY <1>3, <1>11 DEF KwajFails
<1>12. CASE Drop \/ DropCopy
  BY <1>1, <1>3, <1>12, DataAssumption DEF Drop, DropCopy, Unlink
<1>13. CASE RenameNothing \/ RenameLost
  BY <1>3, <1>13 DEF RenameNothing, RenameLost
<1>14. CASE RenameUnlink
  BY <1>1, <1>3, <1>14, DataAssumption DEF RenameUnlink, Unlink
<1>15. CASE RenameMove
  <2>1. pc = "renaming" /\ pc \in AtItem
    BY <1>15 DEF RenameMove, AtItem, CommitPC
  <2>2. disk' = Move(disk, CR.tname, CR.fname)
    BY <1>15 DEF RenameMove
  <2> QED BY <1>1, <1>2, <1>3, <2>1, <2>2, DataAssumption DEF Move
<1> QED BY <1>5, <1>6, <1>7, <1>8, <1>9, <1>10, <1>11, <1>12, <1>13, <1>14, <1>15
        DEF CommitStep, BackupStep, PackStep, RenameStep

LEMMA TidyCommit ==
  ASSUME Base, Tidy, TidyInv, CommitStep
  PROVE  TidyInv'
<1> USE DEF world, walk, scan
<1>1. /\ pc \in CommitPC /\ list' = list /\ before' = before /\ inside' = inside /\ runs' = runs
      /\ mode' = mode
  BY DEF CommitPC, CommitStep, CommitUnselected, CommitFile, CommitKwaj,
         CommitDone, BackupStep, PackStep, RenameStep, NoBackupMade, BeginBackup, EndBackup,
         BeginPack, EndPack, PackMissed, PackRefused, BeginKwaj, EndKwaj, KwajFails, Drop,
         RenameNothing, RenameUnlink, RenameMove, RenameCopies, RenameLost, EndCopy, DropCopy,
         InItem, NextItem, FallBack
<1>2. Whole'
  BY <1>1, CommitWhole DEF TidyInv, Whole
<1>3. FirstRun' /\ ScrapsNew' /\ (\A p \in Temps : before[p] = Absent)'
  BY <1>1, CopiesGo DEF TidyInv, FirstRun, ScrapsNew, CommitPC, AtRow, LookupPC, Scraps
<1>4. \A p \in Temps : disk[p] # Absent =>
        \E j \in DOMAIN list : j >= k /\ Table[list[j].row].tname = p
  BY <1>1 DEF TidyInv
<1>5. list \in Seq(Item) /\ k \in Nat
  BY DEF Base, TypeOK
<1>6. pc' # "done" => \A p \in Temps : disk'[p] # Absent =>
        \E j \in DOMAIN list' : j >= k' /\ Table[list'[j].row].tname = p
  <2>1. CASE k' = k
    BY <1>1, <1>4, <2>1, CopiesGo
  <2>2. CASE k' = k + 1 /\ k <= Len(list) /\ disk'[CR.tname] = Absent
    <3> SUFFICES ASSUME NEW p \in Temps, disk'[p] # Absent
                 PROVE  \E j \in DOMAIN list' : j >= k' /\ Table[list'[j].row].tname = p
      OBVIOUS
    <3>1. disk[p] # Absent /\ p # CR.tname
      BY <2>2, CopiesGo
    <3>2. PICK j \in DOMAIN list : j >= k /\ Table[list[j].row].tname = p
      BY <1>4, <3>1
    <3>3. j # k
      BY <3>1, <3>2 DEF CR, It
    <3> QED BY <1>1, <1>5, <2>2, <3>2, <3>3
  <2> QED BY <2>1, <2>2, CopiesGo
<1>7. pc' = "done" => \A p \in Temps : disk'[p] = Absent
  <2> SUFFICES ASSUME pc' = "done", NEW p \in Temps PROVE disk'[p] = Absent
    OBVIOUS
  <2>1. k > Len(list) /\ disk'[p] \in {Absent, disk[p]}
    BY CopiesGo
  <2>2. ~\E j \in DOMAIN list : j >= k
    BY <1>5, <2>1
  <2> QED BY <1>4, <2>1, <2>2
<1>8. pc' = "done" => result' = "committed"
  BY CopiesGo
<1>9. pc' \in CommitPC \cup {"done"}
  BY CopiesGo
<1> QED BY <1>2, <1>3, <1>6, <1>7, <1>8, <1>9
        DEF TidyInv, InOrder, Readable, LookupPC, CommitPC, BeforeCommit

LEMMA TidyNext ==
  ASSUME Base, Tidy, TidyInv, [Next]_vars
  PROVE  TidyInv'
<1> USE DEF world, walk, scan
<1>1. CASE UNCHANGED vars
  BY <1>1 DEF vars, TidyInv, FirstRun, Whole, Writing, InOrder, Readable, ScrapsNew, OnlyScraps,
              Removable, RowScraps, Converted, Scraps, Source, OutOf, R, CR, It
<1>2. CASE Crash \/ Status \/ AnswerYes \/ AnswerNo
  <2>1. /\ disk' = disk /\ before' = before /\ inside' = inside /\ runs' = runs /\ list' = list
        /\ k' = k /\ pc # "start"
        /\ pc' \in {"crashed", "cleanup", "ask", "commit"}
        /\ pc' \in {"cleanup", "ask", "commit"} => pc \in {"status", "ask"}
        /\ pc' = "ask" => pc = "status"
    BY <1>2 DEF Crash, Status, AnswerYes, AnswerNo
  <2>2. FirstRun' /\ ScrapsNew' /\ (\A p \in Temps : before[p] = Absent)'
    BY <2>1 DEF TidyInv, FirstRun, ScrapsNew, AtRow, LookupPC, Scraps
  <2>3. Whole'
    BY <2>1 DEF TidyInv, Whole, Writing
  <2>4. pc \in {"status", "ask"} =>
          /\ k = 1
          /\ \A p \in Path : disk[p] # before[p] =>
               /\ before[p] = Absent
               /\ \E j \in DOMAIN list : j >= k /\ p \in Scraps(list[j].row, list[j].created)
    BY DEF TidyInv, BeforeCommit, OnlyScraps, Removable, RowScraps, Converted, AtRow, LookupPC
  <2>5. pc \in {"status", "ask"} => OnlyScraps'
    BY <2>1, <2>4 DEF OnlyScraps, Removable, Scraps
  <2>6. ASSUME pc \in {"status", "ask"}, NEW p \in Temps, disk[p] # Absent
        PROVE  \E j \in DOMAIN list : j >= k /\ Table[list[j].row].tname = p
    <3>1. p \in Path /\ before[p] = Absent /\ TidyNames
      BY <2>1, <2>6, NamesAre DEF TidyInv, Tidy
    <3>2. PICK j \in DOMAIN list : j >= k /\ p \in Scraps(list[j].row, list[j].created)
      BY <2>4, <2>6, <3>1
    <3>3. list[j] \in Item
      BY DEF Base, TypeOK
    <3>4. list[j].row \in Rows /\ list[j].created \in BOOLEAN
      BY <3>3 DEF Item
    <3>5. p = Table[list[j].row].tname
      BY <3>1, <3>2, <3>4, ScrapsAre
    <3> QED BY <3>2, <3>5
  <2> QED BY <2>1, <2>2, <2>3, <2>4, <2>5, <2>6
          DEF TidyInv, InOrder, Readable, LookupPC, CommitPC, BeforeCommit
<1> QED BY <1>1, <1>2, TidyStart, TidyLookup, TidyCleanup, TidyCommit DEF Next, Step

LEMMA TidyAlways ==
  ASSUME Tidy
  PROVE  Spec => []TidyInv
<1>1. Init => TidyInv
  BY TidyInit DEF Tidy
<1>2. Base /\ TidyInv /\ [Next]_vars => TidyInv'
  BY TidyNext
<1> QED BY <1>1, <1>2, BaseAlways, PTL DEF Spec

\* Whatever the table, the directory and the lookup mode, with the disk full
\* or not: a run that finds nothing to patch, or that the user cancels,
\* leaves every path as it found it.
THEOREM CancelRestores ==
  ASSUME Tidy
  PROVE  Spec => []AbortRestores
<1>1. TidyInv => AbortRestores
  BY DEF TidyInv, AbortRestores
<1> QED BY <1>1, TidyAlways, PTL

\* Without KWAJ archives, whose unpacked form stays when no patch is applied
\* to it, a run leaves none of its temporary files.
THEOREM TemporariesGo ==
  ASSUME Tidy, \A i \in Rows : Table[i].kind # "kwaj"
  PROVE  Spec => []NoTempLeft
<1>1. TidyInv => NoTempLeft
  BY NamesAre DEF TidyInv, NoTempLeft, Tidy
<1> QED BY <1>1, TidyAlways, PTL

--------------------------------------------------------------------------
(* One whole version survives                                              *)

\* The user has a file for row i, and p holds a version of it.
Precious(i) == orig[Table[i].fname] # Absent
HasVersion(p, i) == disk[p] \in Content /\ disk[p].file = Table[i].fname

\* Where the copy of the item goes, where its file may be gone, and where
\* files_commit is about to write an archive.
Dropping == {"drop", "dropcopy"}
Swapping == AtItem \ Dropping
Packing  == pc = "pack" \/ (pc \in {"backup", "backingup"} /\ after = "pack")

\* The items whose copy is still needed.
Pending(j) == /\ list[j].applied
              /\ Precious(list[j].row)
              /\ j > k \/ (j = k /\ pc \notin Dropping)

SurviveInv ==
  /\ \A i \in Rows : Precious(i) =>
       /\ \/ pc = "crashed"
          \/ pc \in Swapping /\ It.row = i /\ ~Packing
          \/ HasVersion(Table[i].fname, i)
       /\ pc = "crashed" =>
            \E p \in {Table[i].fname, Table[i].tname} : HasVersion(p, i)
  /\ pc \in AtRow /\ branch \in Unpacking => ~Precious(row)
  /\ pc \in {"patch", "patching"} /\ Precious(row) => HasVersion(Source, row)
  /\ pc \in LookupPC => \A j \in DOMAIN list : list[j].row < row
  /\ \A j \in DOMAIN list : list[j].created => ~Precious(list[j].row)
  /\ \A i, j \in DOMAIN list : i # j => list[i].row # list[j].row
  /\ pc \in LookupPC \cup {"status", "ask"} => k = 1
  /\ pc \in AtItem => list[k].applied
  /\ pc \in LookupPC \cup {"status", "ask"} \cup CommitPC =>
       \A j \in DOMAIN list : Pending(j) => HasVersion(Table[list[j].row].tname, list[j].row)

LEMMA CopyNames ==
  ASSUME CopiesApart, NEW i \in Rows
  PROVE  /\ Table[i].fname \in Path /\ Table[i].tname \in Path
         /\ Table[i].bname \in Path /\ Table[i].kname \in Path
         /\ Table[i].fname \notin Temps /\ Table[i].bname \notin Temps
         /\ Table[i].tname \in Temps /\ Table[i].tname # EName
         /\ Table[i].kind = "kwaj" => Table[i].kname \notin Temps
         /\ \A j \in Rows :
              /\ Table[j].fname = Table[i].fname => j = i
              /\ Table[j].tname = Table[i].tname => j = i
              /\ Table[j].bname # Table[i].fname
              /\ Table[j].kind = "kwaj" => Table[j].kname # Table[i].fname
<1>1. Table[i] \in Row
  BY RowTyped
<1>2. Table[i].tname \in Temps
  BY DEF Temps
<1>3. Table[i].fname \notin Temps /\ Table[i].bname \notin Temps
  BY DEF CopiesApart, DistinctNames, Temps
<1> QED BY <1>1, <1>2, <1>3 DEF CopiesApart, DistinctNames, Row

\* The file of a row only changes where the row unpacks it and where its
\* item is removed or replaced.
LEMMA FileChanges ==
  ASSUME Base, CopiesApart, [Next]_vars, NEW i \in Rows,
         disk'[Table[i].fname] # disk[Table[i].fname]
  PROVE  \/ /\ row <= Len(Table) /\ row = i
            /\ \/ pc = "row" /\ disk[Table[i].fname] = Absent
               \/ pc \in {"unpackw3", "extract"} /\ branch \in Unpacking
         \/ /\ k <= Len(list) /\ It.row = i
            /\ \/ pc \in {"cleanup", "commit"} /\ It.created
               \/ pc \in Replacing \cup {"kwaj", "kwajing"}
<1> DEFINE f == Table[i].fname
<1>1. f \in Path /\ f \notin Temps
  BY CopyNames
<1>2. /\ row <= Len(Table) => row \in Rows /\ R = Table[row]
      /\ k <= Len(list) => It.row \in Rows /\ CR = Table[It.row] /\ k \in DOMAIN list
      /\ pc \in AtItem => k <= Len(list)
  BY RowsAre DEF R, Base, TypeOK, Positions
<1>3. ~UnpacksKwaj(f) /\ ~RemovesKwaj(f)
  BY <1>2, CopyNames DEF UnpacksKwaj, RemovesKwaj
<1>4. ~Saves(f)
  BY <1>2, CopyNames DEF Saves, BeginBackup, EndBackup, AtItem, CommitPC
<1>5. CASE Unpacks(f)
  BY <1>2, <1>5, CopyNames DEF Unpacks
<1>6. CASE Removes(f)
  BY <1>2, <1>6, CopyNames DEF Removes
<1>7. CASE Replaces(f)
  <2>1. k <= Len(list)
    BY <1>2, <1>7 DEF Replaces, Replacing, AtItem, CommitPC
  <2> QED BY <1>2, <1>7, <2>1, CopyNames DEF Replaces
<1> QED BY <1>1, <1>3, <1>4, <1>5, <1>6, <1>7, ChangesBy

\* A file of the user only changes where files_commit replaces it.
LEMMA FileStays ==
  ASSUME Base, CopiesApart, SurviveInv, [Next]_vars, NEW i \in Rows, Precious(i),
         disk'[Table[i].fname] # disk[Table[i].fname]
  PROVE  pc \in AtItem /\ It.row = i
<1>1. pc = "row" => disk[Table[i].fname] # Absent
  BY DataAssumption DEF SurviveInv, HasVersion, AtItem, CommitPC, Swapping
<1>2. ~(pc \in {"unpackw3", "extract"} /\ branch \in Unpacking /\ row = i)
  BY DEF SurviveInv, AtRow, LookupPC
<1>3. k <= Len(list) => k \in DOMAIN list
  BY DEF Base, TypeOK
<1>4. ~(k <= Len(list) /\ It.row = i /\ It.created)
  BY <1>3 DEF SurviveInv, It
<1> QED BY <1>1, <1>2, <1>4, FileChanges DEF Replacing, AtItem, CommitPC

\* The copy of a row only changes where its row is patched and where its
\* item is cleaned up or done.
LEMMA CopyStays ==
  ASSUME Base, CopiesApart, [Next]_vars, NEW i \in Rows,
         disk'[Table[i].tname] # disk[Table[i].tname]
  PROVE  \/ pc \in {"patch", "patching"} /\ row = i
         \/ k <= Len(list) /\ It.row = i
            /\ (CleanupItem \/ CommitUnselected \/ Drop \/ DropCopy \/ RenameMove)
<1> DEFINE t == Table[i].tname
<1>0. t \in Path /\ t # EName /\ disk \in [Path -> Data]
  BY CopyNames DEF Base, TypeOK
<1>1. /\ row <= Len(Table) => row \in Rows /\ R = Table[row]
      /\ k <= Len(list) => It.row \in Rows /\ CR = Table[It.row]
      /\ pc \in AtItem => k <= Len(list)
      /\ pc \in AtRow => row <= Len(Table)
  BY RowsAre DEF R, Base, Positions
<1>2. ASSUME NEW j \in Rows
      PROVE  /\ t # Table[j].fname /\ t # Table[j].bname
             /\ Table[j].kind = "kwaj" => t # Table[j].kname
             /\ t = Table[j].tname => i = j
  BY CopyNames
<1>3. CASE LookupStep
  <2>1. CASE BeginExtract
    <3>1. row \in Rows /\ R = Table[row]
      BY <1>1, <2>1 DEF BeginExtract, InRow
    <3>2. Branch = "kwaj" => R.kind = "kwaj"
      BY DEF Branch
    <3> QED BY <1>0, <1>2, <2>1, <3>1, <3>2 DEF BeginExtract, OutOf, Put
  <2>2. CASE UnpackW3
    <3>1. row \in Rows /\ R = Table[row]
      BY <1>1, <2>2 DEF UnpackW3, AtRow, LookupPC
    <3> QED BY <1>0, <1>2, <2>2, <3>1 DEF UnpackW3, Put
  <2>3. CASE EndExtract
    <3>1. row \in Rows /\ R = Table[row]
      BY <1>1, <2>3 DEF EndExtract, AtRow, LookupPC
    <3>2. branch = "kwaj" => R.kind = "kwaj"
      BY <2>3 DEF EndExtract, Base, Kinds, AtRow, LookupPC
    <3> QED BY <1>0, <1>2, <2>3, <3>1, <3>2 DEF EndExtract, Source, OutOf, Put, Unlink
  <2>4. CASE BeginPatch
    <3>1. row \in Rows /\ R = Table[row]
      BY <1>1, <2>4 DEF BeginPatch, AtRow, LookupPC
    <3> QED BY <1>0, <1>2, <2>4, <3>1 DEF BeginPatch, Put
  <2>5. CASE EndPatch
    <3>1. row \in Rows /\ R = Table[row]
      BY <1>1, <2>5 DEF EndPatch, AtRow, LookupPC
    <3>2. PICK c : disk' \in {Put(disk, R.tname, c), Unlink(Put(disk, R.tname, c), EName)}
      BY <2>5 DEF EndPatch, AddItem
    <3> QED BY <1>0, <1>2, <2>5, <3>1, <3>2 DEF EndPatch, Put, Unlink
  <2>6. CASE NoPatch \/ EndLookup
    BY <1>0, <2>6 DEF NoPatch, EndLookup, AddItem, Unlink
  <2>7. CASE SkipRow \/ OpenRow \/ ExtractFails
    BY <2>7 DEF SkipRow, OpenRow, ExtractFails
  <2> QED BY <1>3, <2>1, <2>2, <2>3, <2>4, <2>5, <2>6, <2>7 DEF LookupStep
<1>4. CASE CleanupItem \/ CommitUnselected \/ Drop \/ DropCopy \/ RenameMove
  <2>1. k <= Len(list)
    BY <1>1, <1>4 DEF CleanupItem, CommitUnselected, InItem, Drop, DropCopy, RenameMove,
                      AtItem, CommitPC
  <2>2. \/ t = CR.tname
        \/ t = CR.fname
        \/ t = CR.kname /\ CR.kind = "kwaj"
    BY <1>0, <1>4 DEF CleanupItem, CommitUnselected, Drop, DropCopy, RenameMove, Unlink, Move
  <2> QED BY <1>1, <1>2, <1>4, <2>1, <2>2
<1>5. CASE \/ BeginBackup \/ EndBackup \/ BeginPack \/ EndPack \/ BeginKwaj \/ EndKwaj
           \/ RenameCopies \/ EndCopy \/ RenameUnlink
  <2>1. PICK c : disk' \in {Put(disk, CR.bname, c), Put(disk, CR.fname, c)}
    BY <1>5 DEF BeginBackup, EndBackup, BeginPack, EndPack, BeginKwaj, EndKwaj,
                RenameCopies, EndCopy, RenameUnlink, Put, Unlink
  <2>2. pc \in AtItem
    BY <1>5 DEF BeginBackup, EndBackup, BeginPack, EndPack, BeginKwaj, EndKwaj,
                RenameCopies, EndCopy, RenameUnlink, AtItem, CommitPC
  <2> QED BY <1>0, <1>1, <1>2, <2>1, <2>2 DEF Put
<1>6. CASE Start \/ AnswerYes \/ AnswerNo \/ Crash \/ Status \/ CleanupDone \/ UNCHANGED vars
  BY <1>6 DEF Start, AnswerYes, AnswerNo, Crash, Status, CleanupDone, vars
<1>7. CASE CommitFile \/ CommitKwaj \/ CommitDone \/ NoBackupMade \/ PackMissed
             \/ PackRefused \/ KwajFails \/ RenameNothing \/ RenameLost
  BY <1>7 DEF CommitFile, CommitKwaj, CommitDone, NoBackupMade, PackMissed, PackRefused,
              KwajFails, RenameNothing, RenameLost
<1> QED BY <1>3, <1>4, <1>5, <1>6, <1>7
        DEF Next, Step, CleanupStep, CommitStep, BackupStep, PackStep, RenameStep

\* A version stays one where the file does, and unpacking, packing and
\* patching keep whose file it is.
LEMMA VersionStays ==
  ASSUME NEW i \in Rows, NEW p \in Path, HasVersion(p, i), disk'[p] = disk[p]
  PROVE  HasVersion(p, i)'
BY DEF HasVersion

LEMMA VersionOf ==
  ASSUME NEW c \in Content
  PROVE  /\ \A form \in Form : As(c, form) \in Content /\ As(c, form).file = c.file
         /\ \A ver \in Version : Patched(c, ver) \in Content /\ Patched(c, ver).file = c.file
         /\ Stored(c) \in Content /\ Stored(c).file = c.file
         /\ "full" \notin Faults => Written(c) = {c}
<1>1. \A form \in Form : As(c, form) \in Content /\ As(c, form).file = c.file
  BY DEF As, Content
<1> QED BY <1>1 DEF Patched, Content, Stored, Written, Form

LEMMA SurviveInit ==
  ASSUME Surviving, Init
  PROVE  SurviveInv
<1>a. CopiesApart
  BY DEF Surviving
<1>1. pc = "start" /\ list = << >> /\ orig = disk /\ k = 1
  BY DEF Init
<1>2. ASSUME NEW i \in Rows, Precious(i)
      PROVE  HasVersion(Table[i].fname, i)
  <2> DEFINE f == Table[i].fname
  <2>1. f \in Path /\ disk[f] # Absent
    BY <1>1, <1>2, <1>a, CopyNames DEF Precious
  <2>2. PICK w4 \in BOOLEAN, v \in [Own -> Versions \cup {"none"}] :
          disk = [p \in Path |-> IF p \notin Own THEN Absent
                                 ELSE IF v[p] = "none" THEN Absent
                                 ELSE OriginalOf(p, v[p], w4)]
    BY DEF Init
  <2>3. f \in Own /\ v[f] \in Version /\ disk[f] = OriginalOf(f, v[f], w4)
    BY <2>1, <2>2, ConstantsAssumption
  <2> QED BY <2>1, <2>3 DEF HasVersion, OriginalOf, Content, Form
<1> QED BY <1>1, <1>2 DEF SurviveInv, AtRow, AtItem, LookupPC, CommitPC

\* Where the row at hand is read, a file of the user has not been touched.
LEMMA SurviveLookup ==
  ASSUME Base, Surviving, SurviveInv, LookupStep
  PROVE  SurviveInv'
<1>a. CopiesApart
  BY DEF Surviving
<1> USE DEF world, walk, scan
<1>0. [Next]_vars /\ orig' = orig /\ k' = k /\ k = 1 /\ disk \in [Path -> Data]
  BY DEF Next, Step, LookupStep, SkipRow, OpenRow, BeginExtract, UnpackW3, EndExtract,
         ExtractFails, BeginPatch, EndPatch, NoPatch, EndLookup, SurviveInv, LookupPC, InRow,
         Base, TypeOK
<1>1. pc \in LookupPC /\ pc' \in LookupPC \cup {"status"}
  BY DEF LookupStep, SkipRow, OpenRow, BeginExtract, UnpackW3, EndExtract, ExtractFails,
         BeginPatch, EndPatch, NoPatch, EndLookup, AddItem, NextRow, InRow, LookupPC
<1>2. pc' \notin AtItem /\ pc \notin AtItem /\ pc' # "crashed"
  BY <1>1 DEF LookupPC, CommitPC, AtItem
<1>3. ASSUME NEW i \in Rows
      PROVE  Precious(i)' = Precious(i)
  BY <1>0 DEF Precious
<1>4. ASSUME NEW i \in Rows, Precious(i)
      PROVE  HasVersion(Table[i].fname, i) /\ HasVersion(Table[i].fname, i)'
  <2>1. HasVersion(Table[i].fname, i)
    BY <1>1, <1>2, <1>4 DEF SurviveInv, Swapping, LookupPC
  <2> QED BY <1>0, <1>2, <1>4, <2>1, <1>a, FileStays, VersionStays, CopyNames
<1>5. row <= Len(Table) => row \in Rows /\ R = Table[row]
  BY RowsAre DEF R
<1>6. pc \in AtRow => row <= Len(Table)
  BY DEF Base, Positions
<1>7. ASSUME NEW j \in DOMAIN list
      PROVE  list[j] \in Item /\ list[j].row \in Rows /\ list[j].row < row /\ j \in Nat /\ j >= 1
  <2>1. list[j] \in Item /\ j \in Nat /\ j >= 1
    BY DEF Base, TypeOK
  <2> QED BY <1>1, <2>1 DEF SurviveInv, Item
<1>8. ASSUME NEW j \in DOMAIN list, NEW i \in Rows, i = list[j].row, list[j].applied, Precious(i)
      PROVE  HasVersion(Table[i].tname, i)'
  <2> DEFINE t == Table[i].tname
  <2>1. HasVersion(t, i)
    <3>1. Pending(j)
      BY <1>0, <1>1, <1>7, <1>8 DEF Pending, LookupPC, Dropping
    <3> QED BY <1>1, <1>8, <3>1 DEF SurviveInv
  <2>2. i # row
    BY <1>7, <1>8 DEF Rows, Base, TypeOK
  <2>3. disk'[t] = disk[t]
    BY <1>0, <1>1, <2>2, <1>a, CopyStays
       DEF LookupPC, CleanupItem, CommitUnselected, Drop, DropCopy, RenameMove, InItem
  <2> QED BY <2>1, <2>3, <1>a, CopyNames, VersionStays
<1>9. ASSUME list' = list, row' \in Nat, row <= row',
             pc' \in AtRow => row' = row,
             pc' \in AtRow /\ branch' \in Unpacking => ~Precious(row),
             pc' \in {"patch", "patching"} /\ Precious(row) => HasVersion(Source, row)'
      PROVE  SurviveInv'
  <2>1. \A j \in DOMAIN list' : list'[j].row < row'
    BY <1>7, <1>9 DEF Rows, Base, TypeOK
  <2>2. pc' \in {"patch", "patching"} => pc' \in AtRow
    BY DEF AtRow, LookupPC
  <2>3. pc' \in {"patch", "patching"} /\ Precious(row)' => HasVersion(Source, row)'
    BY <1>0, <1>9, <2>2 DEF Precious
  <2>4. \A j \in DOMAIN list' : Pending(j)' =>
          HasVersion(Table[list[j].row].tname, list[j].row)'
    <3> SUFFICES ASSUME NEW j \in DOMAIN list, Pending(j)'
                 PROVE  \A i \in Rows : i = list[j].row => HasVersion(Table[i].tname, i)'
      BY <1>7, <1>9 DEF HasVersion
    <3>1. list[j].applied /\ Precious(list[j].row)
      BY <1>0, <1>9 DEF Pending, Precious
    <3> QED BY <1>8, <3>1
  <2> QED BY <1>0, <1>1, <1>2, <1>3, <1>4, <1>7, <1>9, <2>1, <2>3, <2>4
          DEF SurviveInv, Precious
<1>10. CASE SkipRow \/ ExtractFails \/ EndLookup
  BY <1>9, <1>10 DEF SkipRow, ExtractFails, EndLookup, NextRow, AtRow, LookupPC, Base, TypeOK
<1>11. ASSUME row <= Len(Table), Precious(row)
       PROVE  /\ disk'[R.fname] \in Content /\ disk'[R.fname].file = R.fname
              /\ disk[R.fname] \in Content /\ disk[R.fname].file = R.fname
  BY <1>4, <1>5, <1>11 DEF HasVersion
<1>12. CASE OpenRow
  <2>1. row <= Len(Table) /\ pc' = "patch" /\ branch' = "open" /\ row' = row /\ list' = list
    BY <1>12 DEF OpenRow, InRow
  <2>2. Source' = R.fname
    BY <2>1 DEF Source, OutOf, R
  <2>3. Precious(row) => HasVersion(Source, row)'
    BY <1>5, <1>11, <2>1, <2>2 DEF HasVersion
  <2> QED BY <1>9, <2>1, <2>3 DEF Unpacking, Base, TypeOK
<1>13. CASE BeginExtract
  <2>1. /\ row <= Len(Table) /\ branch' = Branch /\ row' = row /\ list' = list
        /\ pc' \in {"unpackw3", "extract"}
    BY <1>13 DEF BeginExtract, InRow
  <2>2. Branch \in Unpacking => disk[R.fname] = Absent
    BY DEF Branch, Unpacking, Exists
  <2> QED BY <1>9, <1>11, <2>1, <2>2, DataAssumption DEF Base, TypeOK
<1>14. CASE UnpackW3
  BY <1>9, <1>14 DEF UnpackW3, SurviveInv, AtRow, LookupPC, Base, TypeOK
<1>15. CASE BeginPatch
  <2>1. /\ pc = "patch" /\ row <= Len(Table) /\ branch' = branch /\ row' = row /\ list' = list
        /\ Source' = Source
    BY <1>6, <1>15 DEF BeginPatch, AtRow, LookupPC, Source, OutOf, R
  <2>2. Source # R.tname /\ Source \in Path
    BY <1>5, <2>1, RTyped, <1>a, CopyNames DEF Source, OutOf, Base, TypeOK, Kinds, AtRow, LookupPC
  <2>3. disk'[Source] = disk[Source]
    BY <1>15, <2>2 DEF BeginPatch, Put
  <2>4. Precious(row) => HasVersion(Source, row)'
    BY <2>1, <2>3 DEF SurviveInv, HasVersion
  <2> QED BY <1>9, <1>15, <2>1, <2>4 DEF BeginPatch, SurviveInv, AtRow, LookupPC, Base, TypeOK
<1>16. CASE EndExtract
  <2>1. /\ pc = "extract" /\ row <= Len(Table) /\ list' = list
        /\ row' \in {row, row + 1}
        /\ pc' \in AtRow => pc' = "patch" /\ row' = row /\ branch' = branch /\ Source' = Source
    BY <1>6, <1>16 DEF EndExtract, NextRow, AtRow, LookupPC, Source, OutOf, R
  <2>2. branch \in Unpacking => ~Precious(row)
    BY <2>1 DEF SurviveInv, AtRow, LookupPC
  <2>3. ASSUME Precious(row), branch \in {"kwaj", "w3"}, pc' = "patch"
        PROVE  HasVersion(Source, row)'
    <3>1. Unpacked \in Content /\ Unpacked.file = R.fname
      BY <1>11, <2>1, <2>3, VersionOf DEF Unpacked, Form
    <3>2. disk' = Put(disk, Source, Unpacked)
      BY <1>16, <2>3, <3>1, VersionOf, DataAssumption DEF EndExtract, Surviving
    <3>3. Source \in Path
      BY <2>1, RTyped DEF Base
    <3> QED BY <1>0, <1>5, <2>1, <2>3, <3>1, <3>2, <3>3 DEF HasVersion, Put, AtRow, LookupPC
  <2>4. branch \in {"kwaj", "w3"} \cup Unpacking
    BY <2>1 DEF Base, Kinds
  <2>5. pc' \in {"patch", "patching"} => pc' = "patch"
    BY <1>16 DEF EndExtract, NextRow
  <2> QED BY <1>9, <2>1, <2>2, <2>3, <2>4, <2>5 DEF Base, TypeOK
<1>17. CASE EndPatch \/ NoPatch
  <2>1. PICK applied \in BOOLEAN :
          /\ list' = Append(list, [row |-> row, applied |-> applied,
                                   created |-> branch \in {"unpack", "unpackw3", "cab"}])
          /\ applied => EndPatch
    BY <1>17 DEF EndPatch, NoPatch, AddItem
  <2> DEFINE e == [row |-> row, applied |-> applied,
                   created |-> branch \in {"unpack", "unpackw3", "cab"}]
  <2>2. /\ pc \in {"patch", "patching"} /\ row \in Rows /\ R = Table[row]
        /\ row' = row + 1 /\ pc' = "row" /\ row \in Nat
    <3>1. pc \in {"patch", "patching"} /\ row' = row + 1 /\ pc' = "row"
      BY <1>17 DEF EndPatch, NoPatch, AddItem, NextRow
    <3>2. row \in Rows /\ R = Table[row]
      BY <1>5, <1>6, <3>1 DEF AtRow, LookupPC
    <3> QED BY <3>1, <3>2 DEF Rows
  <2>3. e.created => ~Precious(row)
    BY <2>2 DEF SurviveInv, Unpacking, AtRow, LookupPC
  <2>4. ASSUME applied, NEW i \in Rows, i = row, Precious(i)
        PROVE  HasVersion(Table[i].tname, i)'
    <3>1. HasVersion(Source, row)
      BY <2>2, <2>4 DEF SurviveInv
    <3>2. Patched(disk[Source], To) \in Content /\ Patched(disk[Source], To).file = R.fname
      BY <2>2, <3>1, VersionOf DEF HasVersion, To, Version
    <3>3. disk'[R.tname] = Patched(disk[Source], To)
      <4>1. disk' \in {Put(disk, R.tname, Patched(disk[Source], To)),
                       Unlink(Put(disk, R.tname, Patched(disk[Source], To)), EName)}
        BY <2>1, <2>4, <3>1, VersionOf DEF EndPatch, AddItem, HasVersion, To, Version, Surviving
      <4>2. R.tname \in Path /\ R.tname # EName
        BY <2>2, <1>a, CopyNames
      <4> QED BY <1>0, <4>1, <4>2 DEF Put, Unlink
    <3> QED BY <2>2, <2>4, <3>2, <3>3 DEF HasVersion
  <2>5. /\ list \in Seq(Item) /\ list'[Len(list) + 1] = e /\ Len(list) \in Nat
        /\ DOMAIN list' = DOMAIN list \cup {Len(list) + 1}
        /\ Len(list) + 1 \notin DOMAIN list
        /\ \A j \in DOMAIN list : list'[j] = list[j]
    BY <2>1 DEF Base, TypeOK
  <2>6. e.row = row /\ e.applied = applied
    OBVIOUS
  <2> HIDE DEF e
  <2>7. \A j \in DOMAIN list' : list'[j].row < row' /\ (list'[j].created => ~Precious(list'[j].row))
    BY <1>7, <2>2, <2>3, <2>5, <2>6 DEF SurviveInv, Rows
  <2>8. \A i, j \in DOMAIN list' : i # j => list'[i].row # list'[j].row
    BY <1>7, <2>2, <2>5, <2>6 DEF SurviveInv, Rows
  <2>9. ASSUME NEW j \in DOMAIN list', NEW i \in Rows, i = list'[j].row,
               list'[j].applied, Precious(i)
        PROVE  HasVersion(Table[i].tname, i)'
    <3>1. CASE j \in DOMAIN list
      BY <1>8, <2>5, <2>9, <3>1
    <3>2. CASE j = Len(list) + 1
      BY <2>2, <2>4, <2>5, <2>6, <2>9, <3>2
    <3> QED BY <2>5, <2>9, <3>1, <3>2
  <2>10. \A j \in DOMAIN list' : list'[j].row \in Rows
    BY <1>7, <2>2, <2>5, <2>6
  <2>11. \A j \in DOMAIN list' : Pending(j)' =>
          HasVersion(Table[list[j].row].tname, list[j].row)'
    <3> SUFFICES ASSUME NEW j \in DOMAIN list', Pending(j)'
                 PROVE  \A i \in Rows : i = list'[j].row => HasVersion(Table[i].tname, i)'
      BY <2>10 DEF HasVersion
    <3>1. list'[j].applied /\ Precious(list'[j].row)
      BY <1>0 DEF Pending, Precious
    <3> QED BY <2>9, <3>1
  <2> QED BY <1>0, <1>1, <1>2, <1>3, <1>4, <2>2, <2>7, <2>8, <2>11
          DEF SurviveInv, Precious, AtRow, LookupPC
<1> QED BY <1>10, <1>12, <1>13, <1>14, <1>15, <1>16, <1>17 DEF LookupStep

\* The item at hand has its copy until its file is whole again.
LEMMA SurviveItem ==
  ASSUME Base, Surviving, SurviveInv, BackupStep \/ PackStep \/ RenameStep,
         NEW i \in Rows, i = It.row, Precious(i)
  PROVE  \/ /\ k' = k /\ pc' \in Swapping
            /\ HasVersion(Table[i].tname, i)'
            /\ Packing' => HasVersion(Table[i].fname, i)'
         \/ /\ (pc' \in Dropping /\ k' = k) \/ (pc' = "commit" /\ k' = k + 1)
            /\ HasVersion(Table[i].fname, i)'
<1>a. CopiesApart
  BY DEF Surviving
<1> DEFINE f == Table[i].fname
           t == Table[i].tname
           b == Table[i].bname
<1> USE DEF AtItem, CommitPC, Swapping, Dropping, Packing
<1>1. pc \in AtItem /\ k \in DOMAIN list /\ i = list[k].row /\ list[k].applied
  <2>1. pc \in AtItem
    BY DEF BackupStep, PackStep, RenameStep, NoBackupMade, BeginBackup, EndBackup, BeginPack,
           EndPack, PackMissed, PackRefused, BeginKwaj, EndKwaj, KwajFails, Drop, RenameNothing,
           RenameUnlink, RenameMove, RenameCopies, RenameLost, EndCopy, DropCopy
  <2> QED BY <2>1 DEF Base, TypeOK, Positions, It, SurviveInv
<1>2. /\ CR = Table[i]
      /\ f \in Path /\ t \in Path /\ b \in Path /\ t # f /\ t # b /\ f # b
      /\ CR.kind = "kwaj" => CR.kname # f
      /\ disk \in [Path -> Data]
  BY <1>1, <1>a, CopyNames DEF CR, Base, TypeOK
<1>3. pc \notin Dropping => disk[t] \in Content /\ disk[t].file = f /\ HasVersion(t, i)
  BY <1>1 DEF SurviveInv, Pending, HasVersion
<1>4. pc \in Dropping \/ Packing => disk[f] \in Content /\ disk[f].file = f /\ HasVersion(f, i)
  BY <1>1 DEF SurviveInv, HasVersion
<1>6. CASE NoBackupMade \/ BeginBackup \/ EndBackup
  <2>1. /\ k' = k /\ pc' \in Swapping /\ pc \notin Dropping
        /\ disk'[t] = disk[t] /\ disk'[f] = disk[f]
        /\ Packing' => Packing
    BY <1>2, <1>6 DEF NoBackupMade, BeginBackup, EndBackup, Put, walk, Base, TypeOK
  <2> QED BY <1>2, <1>3, <1>4, <2>1, VersionStays
<1>7. CASE BeginPack \/ BeginKwaj
  <2>1. /\ k' = k /\ pc' \in Swapping /\ ~Packing' /\ pc \notin Dropping
        /\ disk'[t] = disk[t]
    BY <1>2, <1>7 DEF BeginPack, BeginKwaj, Put, walk
  <2> QED BY <1>2, <1>3, <2>1, VersionStays
<1>8. CASE EndPack \/ EndKwaj \/ EndCopy
  <2>1. k' = k /\ pc' \in Dropping /\ pc \notin Dropping
    BY <1>8 DEF EndPack, EndKwaj, EndCopy, walk
  <2>2. PICK c \in {As(disk[t], "w4"), Stored(disk[t]), disk[t]} :
          \E w \in Written(c) : disk' = Put(disk, f, w)
    BY <1>2, <1>8 DEF EndPack, EndKwaj, EndCopy
  <2>3. c \in Content /\ c.file = f /\ Written(c) = {c}
    <3>1. c \in Content /\ c.file = f
      BY <1>3, <2>1, <2>2, VersionOf DEF Form
    <3> QED BY <3>1, VersionOf DEF Surviving
  <2>4. disk'[f] = c
    BY <1>2, <2>2, <2>3 DEF Put
  <2> QED BY <2>1, <2>3, <2>4 DEF HasVersion
<1>9. CASE PackMissed
  <2>1. k' = k /\ pc' \in Dropping /\ disk' = disk /\ Packing
    BY <1>9 DEF PackMissed, walk
  <2> QED BY <1>2, <1>4, <2>1, VersionStays
<1>10. CASE PackRefused \/ KwajFails
  <2>1. k' = k /\ pc' \in Swapping /\ ~Packing' /\ disk' = disk /\ pc \notin Dropping
    BY <1>10 DEF PackRefused, KwajFails, FallBack
  <2> QED BY <1>2, <1>3, <2>1, VersionStays
<1>11. CASE Drop \/ DropCopy
  <2>1. pc \in Dropping /\ pc' = "commit" /\ k' = k + 1 /\ disk'[f] = disk[f]
    BY <1>2, <1>11 DEF Drop, DropCopy, NextItem, Unlink
  <2> QED BY <1>2, <1>4, <2>1, VersionStays
<1>12. ~RenameNothing /\ ~RenameLost
  BY <1>2, <1>3, DataAssumption DEF RenameNothing, RenameLost, Exists, Surviving
<1>13. CASE RenameUnlink \/ RenameCopies
  <2>1. k' = k /\ pc' \in Swapping /\ ~Packing' /\ disk'[t] = disk[t] /\ pc \notin Dropping
    BY <1>2, <1>13 DEF RenameUnlink, RenameCopies, Unlink, Put, walk
  <2> QED BY <1>2, <1>3, <2>1, VersionStays
<1>14. CASE RenameMove
  <2>1. pc \notin Dropping /\ pc' = "commit" /\ k' = k + 1 /\ disk'[f] = disk[t]
    BY <1>2, <1>14 DEF RenameMove, NextItem, Move
  <2> QED BY <1>3, <2>1 DEF HasVersion
<1> QED BY <1>6, <1>7, <1>8, <1>9, <1>10, <1>11, <1>12, <1>13, <1>14
        DEF BackupStep, PackStep, RenameStep

LEMMA SurviveCommit ==
  ASSUME Base, Surviving, SurviveInv, CommitStep
  PROVE  SurviveInv'
<1>a. CopiesApart
  BY DEF Surviving
<1> USE DEF world, walk, scan
<1>0. /\ [Next]_vars /\ orig' = orig /\ list' = list /\ pc \in CommitPC
      /\ pc' \in CommitPC \cup {"done"}
  BY DEF Next, Step, CommitStep, BackupStep, PackStep, RenameStep, CommitUnselected, CommitFile,
         CommitKwaj, CommitDone, NoBackupMade, BeginBackup, EndBackup, BeginPack, EndPack,
         PackMissed, PackRefused, BeginKwaj, EndKwaj, KwajFails, Drop, RenameNothing,
         RenameUnlink, RenameMove, RenameCopies, RenameLost, EndCopy, DropCopy, NextItem,
         FallBack, CommitPC, InItem, Base, TypeOK
<1>1. pc' \notin LookupPC /\ pc' \notin AtRow /\ pc \notin {"patch", "patching", "cleanup"}
      /\ pc # "crashed"
  BY <1>0 DEF CommitPC, LookupPC, AtRow
<1>2. \A i : Precious(i)' = Precious(i)
  BY <1>0 DEF Precious
<1>3. ASSUME NEW j \in DOMAIN list
      PROVE  list[j] \in Item /\ list[j].row \in Rows /\ j \in Nat
  <2>1. list[j] \in Item /\ j \in Nat
    BY DEF Base, TypeOK
  <2> QED BY <2>1 DEF Item
<1>4. ASSUME NEW j \in DOMAIN list, NEW i \in Rows, i = list[j].row, list[j].applied,
             Precious(i), j > k
      PROVE  HasVersion(Table[i].tname, i)'
  <2>1. HasVersion(Table[i].tname, i)
    BY <1>0, <1>4 DEF SurviveInv, Pending
  <2>2. k <= Len(list) => It.row # i
    <3>1. k <= Len(list) => k \in DOMAIN list /\ k # j
      BY <1>3, <1>4 DEF Base, TypeOK
    <3> QED BY <1>4, <3>1 DEF SurviveInv, It
  <2>3. disk'[Table[i].tname] = disk[Table[i].tname]
    BY <1>0, <1>1, <2>2, <1>a, CopyStays
  <2> QED BY <2>1, <2>3, <1>a, CopyNames, VersionStays
<1>5. ASSUME NEW i \in Rows, Precious(i), ~(pc \in AtItem /\ It.row = i)
      PROVE  HasVersion(Table[i].fname, i)'
  <2>1. HasVersion(Table[i].fname, i)
    BY <1>1, <1>5 DEF SurviveInv, Swapping
  <2> QED BY <1>0, <1>5, <2>1, <1>a, FileStays, CopyNames, VersionStays
<1>6. CASE BackupStep \/ PackStep \/ RenameStep
  <2>1. pc \in AtItem
    BY <1>6 DEF BackupStep, PackStep, RenameStep, NoBackupMade, BeginBackup, EndBackup, BeginPack,
           EndPack, PackMissed, PackRefused, BeginKwaj, EndKwaj, KwajFails, Drop, RenameNothing,
           RenameUnlink, RenameMove, RenameCopies, RenameLost, EndCopy, DropCopy, AtItem, CommitPC
  <2>2. k \in DOMAIN list /\ k \in Nat /\ It.row \in Rows /\ list[k].applied
    BY <1>3, <2>1 DEF Base, TypeOK, Positions, It, SurviveInv
  <2>3. (k' = k /\ pc' \in AtItem) \/ (k' = k + 1 /\ pc' = "commit")
    <3>1. after \in {"pack", "rename"}
      BY DEF Base, TypeOK
    <3> QED BY <1>6, <3>1
        DEF BackupStep, PackStep, RenameStep, NoBackupMade, BeginBackup, EndBackup, BeginPack,
            EndPack, PackMissed, PackRefused, BeginKwaj, EndKwaj, KwajFails, Drop, RenameNothing,
            RenameUnlink, RenameMove, RenameCopies, RenameLost, EndCopy, DropCopy, NextItem,
            FallBack, AtItem, CommitPC
  <2>4. pc' \in AtItem => It' = It
    BY <1>0, <2>3 DEF It, AtItem, CommitPC
  <2>5. ASSUME NEW i \in Rows, Precious(i)
        PROVE  \/ pc' \in Swapping /\ It'.row = i /\ ~Packing'
               \/ HasVersion(Table[i].fname, i)'
    <3>1. CASE It.row = i
      BY <1>6, <2>4, <2>5, <3>1, SurviveItem DEF Swapping
    <3> QED BY <1>5, <2>5, <3>1
  <2>6. ASSUME NEW j \in DOMAIN list, NEW i \in Rows, i = list[j].row, Pending(j)'
        PROVE  HasVersion(Table[i].tname, i)'
    <3>1. list[j].applied /\ Precious(i) /\ (j > k' \/ (j = k' /\ pc' \notin Dropping))
      BY <1>0, <1>2, <2>6 DEF Pending
    <3>2. CASE j > k
      BY <1>4, <2>6, <3>1, <3>2
    <3>3. CASE j = k
      <4>1. pc' \notin Dropping /\ pc' # "commit" /\ i = It.row
        BY <2>2, <2>3, <2>6, <3>1, <3>3 DEF It, Dropping, AtItem, CommitPC
      <4> QED BY <1>6, <2>6, <3>1, <4>1, SurviveItem
    <3> QED BY <1>3, <2>2, <2>3, <3>1, <3>2, <3>3
  <2>7. \A j \in DOMAIN list' : Pending(j)' => HasVersion(Table[list[j].row].tname, list[j].row)'
    BY <1>0, <1>3, <2>6 DEF HasVersion
  <2>8. \A i \in Rows : Precious(i)' =>
          \/ pc' \in Swapping /\ It'.row = i /\ ~Packing'
          \/ HasVersion(Table[i].fname, i)'
    BY <1>2, <2>5
  <2>9. pc' # "crashed" /\ pc' \notin {"patch", "patching", "status", "ask"}
    BY <1>0 DEF CommitPC
  <2>10. pc' \in AtItem => list'[k'].applied
    BY <1>0, <2>2, <2>3 DEF AtItem, CommitPC
  <2> QED BY <1>0, <1>1, <1>2, <2>7, <2>8, <2>9, <2>10 DEF SurviveInv
<1>7. CASE CommitUnselected \/ CommitFile \/ CommitKwaj \/ CommitDone
  <2>1. pc = "commit" /\ pc \notin AtItem
    BY <1>7 DEF CommitUnselected, CommitFile, CommitKwaj, CommitDone, InItem, AtItem, CommitPC
  <2>2. \A i \in Rows : Precious(i)' => HasVersion(Table[i].fname, i)'
    BY <1>2, <1>5, <2>1
  <2>3. /\ pc' \in AtItem => k' = k /\ k \in DOMAIN list /\ list[k].applied /\ ~CommitUnselected
        /\ pc' # "crashed" /\ pc' \notin {"patch", "patching", "status", "ask"}
        /\ k' \in {k, k + 1} /\ k \in Nat
        /\ k' = k => disk' = disk
    BY <1>7 DEF CommitUnselected, CommitFile, CommitKwaj, CommitDone, NextItem, InItem, It,
                AtItem, CommitPC, Base, TypeOK
  <2>4. ASSUME NEW j \in DOMAIN list, NEW i \in Rows, i = list[j].row, Pending(j)'
        PROVE  HasVersion(Table[i].tname, i)'
    <3>1. list[j].applied /\ Precious(i) /\ j >= k'
      BY <1>0, <1>2, <1>3, <2>3, <2>4 DEF Pending
    <3>2. CASE j > k
      BY <1>4, <2>4, <3>1, <3>2
    <3>3. CASE j = k
      <4>1. k' = k /\ disk' = disk
        BY <2>3, <3>1, <3>3
      <4>2. Pending(j)
        BY <2>1, <2>4, <3>1, <3>3 DEF Pending, Dropping
      <4>3. HasVersion(Table[i].tname, i)
        BY <1>0, <2>4, <4>2 DEF SurviveInv
      <4> QED BY <4>1, <4>3 DEF HasVersion
    <3> QED BY <1>3, <2>3, <3>1, <3>2, <3>3
  <2>5. \A j \in DOMAIN list' : Pending(j)' => HasVersion(Table[list[j].row].tname, list[j].row)'
    BY <1>0, <1>3, <2>4 DEF HasVersion
  <2>6. pc' \in AtItem => list'[k'].applied
    BY <1>0, <2>3
  <2> QED BY <1>0, <1>1, <1>2, <2>2, <2>3, <2>5, <2>6 DEF SurviveInv
<1> QED BY <1>6, <1>7 DEF CommitStep

LEMMA SurviveNext ==
  ASSUME Base, Surviving, SurviveInv, [Next]_vars
  PROVE  SurviveInv'
<1>a. CopiesApart
  BY DEF Surviving
<1> USE DEF world, walk, scan
<1>1. CASE UNCHANGED vars
  BY <1>1 DEF vars, SurviveInv, Pending, Precious, HasVersion, Packing, It, R, Source, OutOf
<1>2. ASSUME orig' = orig, list' \in {list, << >>}, pc \notin AtItem \cup {"crashed"},
             pc' \notin AtRow \cup AtItem \cup {"crashed"},
             pc' \in LookupPC => list' = << >> /\ k' = 1,
             pc' \in {"status", "ask"} => k' = 1,
             pc' \in {"status", "ask", "commit"} =>
               pc \in LookupPC \cup {"status", "ask"} /\ disk' = disk /\ list' = list /\ k' = k
      PROVE  SurviveInv'
  <2>1. \A i : Precious(i)' = Precious(i)
    BY <1>2 DEF Precious
  <2>2. ASSUME NEW i \in Rows, Precious(i)
        PROVE  HasVersion(Table[i].fname, i)'
    <3>1. HasVersion(Table[i].fname, i)
      BY <1>2, <2>2 DEF SurviveInv, Swapping
    <3> QED BY <1>2, <2>2, <3>1, <1>a, FileStays, CopyNames, VersionStays
  <2>3. pc' \in LookupPC \cup {"status", "ask"} \cup CommitPC =>
          \A j \in DOMAIN list' : Pending(j)' => HasVersion(Table[list[j].row].tname, list[j].row)'
    <3>1. CASE pc' \in {"status", "ask", "commit"}
      <4>1. pc \notin Dropping
        BY <1>2, <3>1 DEF Dropping, LookupPC
      <4> QED BY <1>2, <3>1, <4>1 DEF SurviveInv, Pending, Precious, HasVersion
    <3>2. CASE pc' \in LookupPC
      BY <1>2, <3>2
    <3> QED BY <1>2, <3>1, <3>2 DEF AtItem, CommitPC
  <2>4. pc' \in LookupPC => pc' = "row"
    BY <1>2 DEF AtRow
  <2>5. \A j \in DOMAIN list' : list' = list
    BY <1>2
  <2> QED BY <1>2, <2>1, <2>2, <2>3, <2>4, <2>5 DEF SurviveInv, AtRow, LookupPC
<1>3. CASE Start
  BY <1>2, <1>3 DEF Start, Surviving, AtRow, AtItem, LookupPC, CommitPC
<1>4. CASE AnswerYes \/ AnswerNo \/ Status
  BY <1>2, <1>4 DEF AnswerYes, AnswerNo, Status, SurviveInv, AtRow, AtItem, LookupPC, CommitPC
<1>5. CASE CleanupStep
  BY <1>2, <1>5 DEF CleanupStep, CleanupItem, CleanupDone, InItem, AtRow, AtItem, LookupPC, CommitPC
<1>6. CASE Crash
  <2>1. pc' = "crashed" /\ disk' = disk /\ list' = list /\ orig' = orig /\ pc # "crashed"
    BY <1>6 DEF Crash
  <2>2. ASSUME NEW i \in Rows, Precious(i)
        PROVE  \E p \in {Table[i].fname, Table[i].tname} : HasVersion(p, i)
    <3>1. CASE pc \in Swapping /\ It.row = i
      <4>1. k \in DOMAIN list /\ list[k].applied /\ list[k].row = i
        BY <3>1 DEF Base, TypeOK, Positions, Swapping, It, SurviveInv
      <4>2. Pending(k) /\ pc \in CommitPC
        BY <2>2, <3>1, <4>1 DEF Pending, Swapping, AtItem
      <4> QED BY <4>1, <4>2 DEF SurviveInv
    <3> QED BY <2>1, <2>2, <3>1 DEF SurviveInv
  <2>3. \A i \in Rows : Precious(i)' =>
          \E p \in {Table[i].fname, Table[i].tname} : HasVersion(p, i)'
    BY <2>1, <2>2 DEF HasVersion, Precious
  <2>4. \A i : Precious(i)' = Precious(i)
    BY <2>1 DEF Precious
  <2> QED BY <2>1, <2>3, <2>4 DEF SurviveInv, AtRow, AtItem, LookupPC, CommitPC
<1> QED BY <1>1, <1>3, <1>4, <1>5, <1>6, SurviveLookup, SurviveCommit DEF Next, Step

\* Without backups, with rename(2), archives and .bak files failing, and
\* wherever the program is killed: every file the user had is there in one
\* whole version, under its own name or as the copy about to replace it.
THEOREM OneVersionSurvives ==
  ASSUME Surviving
  PROVE  Spec => []SomeVersionSurvives
<1>1. Base /\ SurviveInv => SomeVersionSurvives
  <2> SUFFICES ASSUME Base, SurviveInv, NEW i \in Rows, Precious(i)
               PROVE  \E p \in {Table[i].fname, Table[i].tname} : HasVersion(p, i)
    BY DataAssumption DEF SomeVersionSurvives, Precious, HasVersion
  <2>1. CASE pc \in Swapping /\ It.row = i
    <3>1. k \in DOMAIN list /\ list[k].applied /\ list[k].row = i
      BY <2>1 DEF Base, TypeOK, Positions, Swapping, It, SurviveInv
    <3>2. Pending(k) /\ pc \in CommitPC
      BY <2>1, <3>1 DEF Pending, Swapping, AtItem
    <3> QED BY <3>1, <3>2 DEF SurviveInv
  <2> QED BY <2>1 DEF SurviveInv
<1>2. Surviving /\ Init => SurviveInv
  BY SurviveInit
<1>3. Surviving /\ Base /\ SurviveInv /\ [Next]_vars => SurviveInv'
  BY SurviveNext
<1> QED BY <1>1, <1>2, <1>3, BaseAlways, PTL DEF Spec

--------------------------------------------------------------------------
(* A commit patches exactly what was announced                             *)

\* The rows a run should patch, and what the copy of one then holds.
Chosen(i) ==
  LET c == Reached(i)
  IN  /\ c # Absent
      /\ before[Table[i].fname] = Absent => Visible(c)
      /\ c.ver = From
CopyOf(i) ==
  [Reached(i) EXCEPT !.ver = To,
                     !.form = CASE Table[i].kind = "kwaj" -> "raw"
                                [] Table[i].kind = "pack" -> "w3"
                                [] OTHER -> Reached(i).form]

\* The containers files of row i come in.
FormsOf(i) == CASE Table[i].kind = "kwaj" -> IF Listed(i) THEN {"kwaj"} ELSE {"kwaj", "stored"}
                [] Table[i].kind = "pack" -> {"w3", "w4"}
                [] OTHER -> {"raw"}
Formed(c, i) == c = Absent \/ (c \in Content /\ c.form \in FormsOf(i))
Shaped(i) == /\ Formed(inside[i], i)
             /\ Formed(before[Table[i].fname], i)
             /\ inside[i] # Absent => i \in Inner

\* The row at hand: where its branch gets the bytes, and what they are.
AtSource ==
  /\ branch \in Unpacking <=> before[R.fname] = Absent
  /\ branch \in Unpacking => Reached(row) = inside[row]
  /\ branch \in {"kwaj", "w3"} => Reached(row) = before[R.fname]
  /\ branch = "w3" => R.kind = "pack"
  /\ pc \in {"patch", "patching"} =>
       /\ disk[Source] \in Content
       /\ Visible(disk[Source]) /\ disk[Source].ver = From <=> Chosen(row)
       /\ Chosen(row) => Patched(disk[Source], To) = CopyOf(row)
       /\ branch \in Unpacking => disk[Source] = inside[row]
  /\ pc = "patching" => Chosen(row)

\* An item of the list and its row, before files_commit comes to it and
\* where it leaves it.
Announced(j) ==
  LET i == list[j].row
      f == disk[Table[i].fname]
  IN  /\ list[j].applied <=> Chosen(i)
      /\ list[j].created <=> before[Table[i].fname] = Absent
      /\ CASE pc \in CommitPC /\ j < k -> f = Wanted(i)
           [] pc \in AtItem /\ j = k -> TRUE
           [] OTHER -> /\ f = IF list[j].created THEN inside[i] ELSE before[Table[i].fname]
                       /\ list[j].created => Reached(i) = inside[i]
                       /\ list[j].applied => disk[Table[i].tname] = CopyOf(i)

\* The item at hand: what is written in place of its file.
AtCommit ==
  LET i == It.row
      packs == pc \in {"pack", "packing"} \/ (pc \in {"backup", "backingup"} /\ after = "pack")
  IN  /\ pc \notin Dropping => disk[CR.tname] = CopyOf(i)
      /\ pc \in Dropping => disk[CR.fname] = Wanted(i)
      /\ pc \in {"kwaj", "kwajing"} <=> CR.kind = "kwaj" /\ pc \notin Dropping
      /\ pc \notin Dropping /\ CR.kind # "kwaj" =>
           Wanted(i) = IF packs THEN As(CopyOf(i), "w4") ELSE CopyOf(i)

Unlisted(i) == \A j \in DOMAIN list : list[j].row # i
Looked == LookupPC \cup {"status", "ask"}

ExactInv ==
  /\ \A i \in Rows : Shaped(i) /\ (pc = "start" => Formed(disk[Table[i].fname], i))
  /\ \A i, j \in DOMAIN list : i # j => list[i].row # list[j].row
  /\ made => before[VName] # Absent
  /\ pc \in AtRow => AtSource
  /\ pc \in AtItem => AtCommit /\ Chosen(It.row)
  /\ pc \in Looked \cup CommitPC =>
       /\ \A j \in DOMAIN list : Announced(j)
       /\ \A i \in Rows : Unlisted(i) =>
            /\ (pc \in LookupPC /\ i >= row) \/ ~Chosen(i)
            /\ \/ pc \in AtRow /\ branch \in Unpacking /\ i = row
               \/ disk[Table[i].fname] = before[Table[i].fname]
  /\ pc = "cleanup" => result \in {"nothing", "aborted"}
  /\ pc = "done" => result # "none"
  /\ CommitExact

\* What a run should leave depends on what it began with alone.
LEMMA WantedFixed ==
  ASSUME UNCHANGED <<before, inside, mode, reverse>>, NEW i \in Rows
  PROVE  /\ Reached(i)' = Reached(i) /\ Chosen(i)' = Chosen(i)
         /\ CopyOf(i)' = CopyOf(i) /\ Wanted(i)' = Wanted(i)
<1>1. Reached(i)' = Reached(i)
  BY DEF Reached
<1>2. From' = From /\ To' = To
  BY DEF From, To
<1> QED BY <1>1, <1>2 DEF Chosen, CopyOf, Wanted, Visible

LEMMA WantedIs ==
  ASSUME NEW i \in Rows
  PROVE  /\ ~Chosen(i) => Wanted(i) = before[Table[i].fname]
         /\ Chosen(i) => Wanted(i) =
              [Reached(i) EXCEPT !.ver = To,
                                 !.form = CASE Table[i].kind = "kwaj" -> "stored"
                                            [] Reached(i).form = "w4" /\ ForceW3 -> "w3"
                                            [] OTHER -> Reached(i).form]
         /\ Reached(i) \in {Absent, before[Table[i].fname], inside[i]}
         /\ Chosen(i) => Reached(i) = IF before[Table[i].fname] = Absent THEN inside[i]
                                      ELSE before[Table[i].fname]
BY DEF Wanted, Chosen, Reached

\* The copy of a file in its own container is the file the run should leave.
LEMMA CopyIs ==
  ASSUME NEW i \in Rows, Shaped(i), Chosen(i)
  PROVE  /\ Reached(i) \in Content /\ Reached(i).form \in FormsOf(i)
         /\ CopyOf(i) \in Content /\ Wanted(i) \in Content
         /\ Table[i].kind = "kwaj" => /\ Reached(i) = before[Table[i].fname]
                                      /\ Stored(CopyOf(i)) = Wanted(i)
         /\ Table[i].kind # "kwaj" =>
              Wanted(i) = IF Table[i].kind = "pack" /\ Reached(i).form = "w4" /\ ~ForceW3
                          THEN As(CopyOf(i), "w4") ELSE CopyOf(i)
         /\ Table[i].kind = "pack" => CopyOf(i).form = "w3"
         /\ Wanted(i).form \in FormsOf(i) \cup (IF Table[i].kind = "kwaj" THEN {"stored"} ELSE {})
<1> DEFINE c == Reached(i)
<1>1. c \in Content /\ c.form \in FormsOf(i)
  BY WantedIs DEF Chosen, Shaped, Formed
<1>2. Table[i].kind \in {"plain", "pack", "unpack", "kwaj"}
  BY RowTyped DEF Row
<1>3. To \in Version
  BY DEF To, Version
<1>4. CASE Table[i].kind = "kwaj"
  <2>1. /\ CopyOf(i) = [c EXCEPT !.ver = To, !.form = "raw"]
        /\ Wanted(i) = [c EXCEPT !.ver = To, !.form = "stored"]
    <3>1. c.form # "w4"
      BY <1>1, <1>4 DEF FormsOf
    <3> QED BY <1>4, <3>1, WantedIs DEF CopyOf
  <2>2. CopyOf(i) \in Content /\ CopyOf(i).form = "raw" /\ Wanted(i) \in Content
        /\ Wanted(i).form = "stored"
    BY <1>1, <1>3, <2>1 DEF Content, Form
  <2>3. Stored(CopyOf(i)) = Wanted(i)
    <3>1. Stored(CopyOf(i)) = [CopyOf(i) EXCEPT !.form = "stored"]
      BY <2>2 DEF Stored, As
    <3> QED BY <1>1, <2>1, <3>1 DEF Content
  <2>4. c = before[Table[i].fname]
    <3>1. ~Visible(inside[i]) \/ before[Table[i].fname] # Absent
      <4> SUFFICES ASSUME before[Table[i].fname] = Absent PROVE ~Visible(inside[i])
        OBVIOUS
      <4>1. c = inside[i] /\ c # Absent
        BY WantedIs DEF Chosen
      <4>2. Listed(i)
        BY <1>4, <4>1 DEF Shaped, Inner, Listed
      <4> QED BY <1>1, <1>4, <4>1, <4>2 DEF FormsOf, Visible
    <3> QED BY <3>1, WantedIs DEF Chosen
  <2> QED BY <1>1, <1>4, <2>2, <2>3, <2>4
<1>5. CASE Table[i].kind = "pack"
  <2>1. /\ CopyOf(i) = [c EXCEPT !.ver = To, !.form = "w3"]
        /\ Wanted(i) = [c EXCEPT !.ver = To, !.form = IF c.form = "w4" /\ ForceW3 THEN "w3" ELSE c.form]
        /\ c.form \in {"w3", "w4"} /\ FormsOf(i) = {"w3", "w4"}
    BY <1>1, <1>5, WantedIs DEF CopyOf, FormsOf
  <2>2. CopyOf(i) \in Content /\ CopyOf(i).form = "w3" /\ Wanted(i) \in Content
        /\ Wanted(i).form \in {"w3", "w4"}
    BY <1>1, <1>3, <2>1 DEF Content, Form
  <2>3. CASE c.form = "w4" /\ ~ForceW3
    <3>1. As(CopyOf(i), "w4") = [CopyOf(i) EXCEPT !.form = "w4"]
      BY <2>2 DEF As
    <3>2. Wanted(i) = As(CopyOf(i), "w4")
      BY <1>1, <2>1, <2>3, <3>1 DEF Content
    <3> QED BY <1>1, <1>5, <2>1, <2>2, <2>3, <3>2
  <2>4. CASE ~(c.form = "w4" /\ ~ForceW3)
    <3>1. Wanted(i) = CopyOf(i)
      BY <1>1, <2>1, <2>4 DEF Content
    <3> QED BY <1>1, <1>5, <2>1, <2>2, <2>4, <3>1
  <2> QED BY <2>3, <2>4
<1>6. CASE Table[i].kind \notin {"kwaj", "pack"}
  <2>1. FormsOf(i) = {"raw"} /\ c.form = "raw"
    BY <1>1, <1>6 DEF FormsOf
  <2>2. Wanted(i) = CopyOf(i) /\ CopyOf(i) = [c EXCEPT !.ver = To, !.form = "raw"]
    BY <1>6, <2>1, WantedIs DEF CopyOf
  <2>3. CopyOf(i) \in Content /\ CopyOf(i).form = "raw"
    BY <1>1, <1>3, <2>2 DEF Content, Form
  <2> QED BY <1>1, <1>6, <2>1, <2>2, <2>3
<1> QED BY <1>4, <1>5, <1>6

\* What patch_selected is given shows the patch exactly for a chosen row,
\* and patched it is the copy.
LEMMA SourceShows ==
  ASSUME NEW i \in Rows, Shaped(i), NEW c \in Content,
         \/ /\ Reached(i) = before[Table[i].fname] /\ before[Table[i].fname] # Absent
            /\ \/ c = Reached(i) /\ Table[i].kind \notin {"pack", "kwaj"}
               \/ c = As(Reached(i), "raw") /\ Table[i].kind = "kwaj"
               \/ c = As(Reached(i), "w3") /\ Table[i].kind = "pack"
         \/ c = Reached(i) /\ Reached(i) = inside[i] /\ before[Table[i].fname] = Absent
  PROVE  /\ Visible(c) /\ c.ver = From <=> Chosen(i)
         /\ Chosen(i) => Patched(c, To) = CopyOf(i)
<1> DEFINE r == Reached(i)
<1>1. r \in Content /\ r # Absent /\ r.form \in FormsOf(i)
  BY DataAssumption DEF Shaped, Formed
<1>2. Table[i].kind \in {"plain", "pack", "unpack", "kwaj"}
  BY RowTyped DEF Row
<1>3. To \in Version
  BY DEF To, Version
<1>4. CASE c = r
  <2>1. Chosen(i) <=> c.ver = From /\ (before[Table[i].fname] = Absent => Visible(c))
    BY <1>1, <1>4 DEF Chosen
  <2>2. before[Table[i].fname] # Absent => Visible(c)
    <3>1. CASE c = As(r, "raw") /\ Table[i].kind = "kwaj"
      <4>1. c.form = "raw"
        BY <1>1, <3>1 DEF As, Content
      <4> QED BY <4>1 DEF Visible
    <3>2. CASE c = As(r, "w3") /\ Table[i].kind = "pack"
      <4>1. c.form = "w3"
        BY <1>1, <3>2 DEF As, Content
      <4> QED BY <4>1 DEF Visible
    <3>3. CASE Table[i].kind \notin {"pack", "kwaj"}
      BY <1>1, <1>2, <1>4, <3>3 DEF FormsOf, Visible
    <3> QED BY <1>1, <3>1, <3>2, <3>3
  <2>3. ASSUME Visible(c)
        PROVE  Patched(c, To) = CopyOf(i)
    <3>1. CopyOf(i) = [c EXCEPT !.ver = To,
                                !.form = CASE Table[i].kind = "kwaj" -> "raw"
                                           [] Table[i].kind = "pack" -> "w3"
                                           [] OTHER -> c.form]
      BY <1>4 DEF CopyOf
    <3>2. /\ Table[i].kind = "kwaj" => c.form = "raw"
          /\ Table[i].kind = "pack" => c.form = "w3"
      <4>1. CASE Table[i].kind = "kwaj"
        <5>1. c = As(r, "raw") \/ Listed(i)
          BY <1>1, <4>1 DEF Shaped, Inner, Listed
        <5>2. c.form = "raw" \/ c.form = "kwaj"
          <6>1. c = As(r, "raw") => c.form = "raw"
            BY <1>1 DEF As, Content
          <6>2. Listed(i) => c.form = "kwaj"
            BY <1>1, <1>4, <4>1 DEF FormsOf
          <6> QED BY <5>1, <6>1, <6>2
        <5> QED BY <2>3, <4>1, <5>2 DEF Visible
      <4>2. CASE Table[i].kind = "pack"
        BY <1>1, <1>4, <2>3, <4>2 DEF FormsOf, Visible
      <4> QED BY <4>1, <4>2
    <3>3. CopyOf(i) = [c EXCEPT !.ver = To, !.form = c.form]
      BY <3>1, <3>2
    <3> QED BY <3>3 DEF Patched, Content
  <2> QED BY <2>1, <2>2, <2>3
<1>5. ASSUME NEW form \in {"raw", "w3"}, c = As(r, form), before[Table[i].fname] # Absent,
             Table[i].kind = IF form = "raw" THEN "kwaj" ELSE "pack"
      PROVE  /\ Visible(c) /\ c.ver = From <=> Chosen(i)
             /\ Chosen(i) => Patched(c, To) = CopyOf(i)
  <2>1. c = [r EXCEPT !.form = form] /\ c.form = form /\ c.ver = r.ver
    BY <1>1, <1>5 DEF As, Content
  <2>2. CopyOf(i) = [r EXCEPT !.ver = To, !.form = form]
    BY <1>5 DEF CopyOf
  <2>3. Patched(c, To) = [c EXCEPT !.ver = To]
    BY DEF Patched
  <2>4. Patched(c, To) = CopyOf(i)
    BY <1>1, <2>1, <2>2, <2>3, ZenonT(60) DEF Content
  <2> QED BY <1>1, <1>5, <2>1, <2>4 DEF Visible, Chosen
<1> QED BY <1>4, <1>5

LEMMA ExactTidy ==
  ASSUME Exact
  PROVE  Tidy /\ TidyNames /\ CopiesApart
BY DEF Exact, Tidy

\* A file is found in one of the containers of its row.
LEMMA OriginalFormed ==
  ASSUME DistinctNames, NEW i \in Rows, NEW ver \in Version, NEW w4 \in BOOLEAN
  PROVE  Formed(OriginalOf(Table[i].fname, ver, w4), i)
<1> DEFINE f == Table[i].fname
           o == OriginalOf(f, ver, w4)
           r == CHOOSE r \in {Table[j] : j \in Rows} : r.fname = f
<1>1. f \in FNames /\ f \in Path /\ Table[i].kind \in {"plain", "pack", "unpack", "kwaj"}
  BY RowTyped DEF FNames, Row
<1>2. r = Table[i]
  <2>1. \E q \in {Table[j] : j \in Rows} : q.fname = f
    OBVIOUS
  <2>2. r \in {Table[j] : j \in Rows} /\ r.fname = f
    BY <2>1
  <2> QED BY <2>2 DEF DistinctNames
<1>3. o = [file |-> f, ver |-> ver,
           form |-> CASE Table[i].kind = "pack" -> IF w4 THEN "w4" ELSE "w3"
                      [] Table[i].kind = "kwaj" -> "kwaj"
                      [] OTHER -> "raw"]
  BY <1>1, <1>2 DEF OriginalOf
<1>4. o \in Content /\ o.form \in FormsOf(i)
  BY <1>1, <1>3 DEF Content, Form, FormsOf
<1> QED BY <1>4 DEF Formed

LEMMA ExactInit ==
  ASSUME Exact, Init
  PROVE  ExactInv
<1>1. /\ pc = "start" /\ list = << >> /\ made = FALSE /\ result = "none"
      /\ before = disk
  BY DEF Init
<1>2. PICK w4 \in BOOLEAN :
         /\ \E v \in [Own -> Versions \cup {"none"}] :
              disk = [p \in Path |-> IF p \notin Own THEN Absent
                                     ELSE IF v[p] = "none" THEN Absent
                                     ELSE OriginalOf(p, v[p], w4)]
         /\ \E v \in [Inner -> Versions \cup {"none"}] :
              inside = [i \in Rows |-> IF i \notin Inner THEN Absent
                                       ELSE IF v[i] = "none" THEN Absent
                                       ELSE OriginalOf(Table[i].fname, v[i], w4)]
  BY DEF Init
<1>3. ASSUME NEW i \in Rows
      PROVE  Formed(disk[Table[i].fname], i)
  <2> DEFINE f == Table[i].fname
  <2>1. PICK v \in [Own -> Versions \cup {"none"}] :
          disk = [p \in Path |-> IF p \notin Own THEN Absent
                                 ELSE IF v[p] = "none" THEN Absent
                                 ELSE OriginalOf(p, v[p], w4)]
    BY <1>2
  <2>2. f \in Path /\ f \in Own
    BY RowTyped DEF Row, Own, FNames
  <2>3. v[f] = "none" \/ v[f] \in Version
    BY <2>2, ConstantsAssumption
  <2>4. disk[f] = Absent \/ (v[f] \in Version /\ disk[f] = OriginalOf(f, v[f], w4))
    BY <2>1, <2>2, <2>3
  <2>5. DistinctNames
    BY DEF Exact, CopiesApart
  <2> QED BY <2>4, <2>5, OriginalFormed DEF Formed
<1>4. ASSUME NEW i \in Rows
      PROVE  Formed(inside[i], i) /\ (inside[i] # Absent => i \in Inner)
  <2>1. PICK v \in [Inner -> Versions \cup {"none"}] :
          inside = [j \in Rows |-> IF j \notin Inner THEN Absent
                                   ELSE IF v[j] = "none" THEN Absent
                                   ELSE OriginalOf(Table[j].fname, v[j], w4)]
    BY <1>2
  <2>2. i \in Inner => v[i] = "none" \/ v[i] \in Version
    BY <2>1, ConstantsAssumption
  <2>3. inside[i] = Absent \/ (i \in Inner /\ v[i] \in Version
                               /\ inside[i] = OriginalOf(Table[i].fname, v[i], w4))
    BY <2>1, <2>2
  <2>4. DistinctNames
    BY DEF Exact, CopiesApart
  <2> QED BY <2>3, <2>4, OriginalFormed DEF Formed
<1> QED BY <1>1, <1>3, <1>4 DEF ExactInv, Shaped, CommitExact, AtRow, AtItem, Looked,
                                LookupPC, CommitPC

\* What a row that files_lookup comes to holds and what its branch makes of
\* it.
LEMMA RowBranch ==
  ASSUME Base, Exact, TidyInv, ExactInv, pc = "row", row <= Len(Table)
  PROVE  /\ row \in Rows /\ R = Table[row] /\ Unlisted(row)
         /\ disk[R.fname] = before[R.fname]
         /\ ~Damaged(Branch)
         /\ Branch = "skip" => ~Chosen(row)
         /\ Branch # "skip" => (Branch \in Unpacking <=> before[R.fname] = Absent)
         /\ Branch \in Unpacking => Reached(row) = inside[row]
         /\ Branch \in {"kwaj", "w3"} => Reached(row) = before[R.fname]
         /\ Branch = "open" => \/ R.kind \notin {"kwaj", "pack"} /\ Reached(row) = before[R.fname]
                               \/ R.kind = "kwaj" /\ Reached(row) = Absent /\ Listed(row)
         /\ Branch = "w3" => R.kind = "pack"
<1>1. row \in Rows /\ R = Table[row] /\ R \in Row
  BY RowsAre, RowTyped DEF R
<1>2. TidyNames /\ OnlyScraps /\ InOrder /\ mode \in Lookups
  BY ExactTidy DEF TidyInv, BeforeCommit, LookupPC, InOrder
<1>3. disk[R.fname] = before[R.fname] /\ (mode # "cab" => disk[VName] = before[VName])
  BY <1>1, <1>2, RowUntouched
<1>4. \A j \in DOMAIN list : list[j] \in Item /\ list[j].row \in Rows /\ list[j].row < row
                             /\ list[j].created \in BOOLEAN
  <2>1. \A j \in DOMAIN list : list[j] \in Item
    BY DEF Base, TypeOK
  <2> QED BY <1>2, <2>1 DEF InOrder, LookupPC, Item
<1>5. Unlisted(row)
  BY <1>1, <1>4 DEF Unlisted, Rows
<1>6. disk[EName] # Absent => before[VName] # Absent
  <2>1. ASSUME disk[EName] # Absent PROVE made
    <3>1. EName \in Path /\ before[EName] = Absent
      BY <1>2, NamesAre DEF TidyInv
    <3>2. Removable(EName)
      BY <2>1, <3>1, <1>2 DEF OnlyScraps
    <3>3. EName \notin RowScraps
      BY DEF RowScraps, AtRow
    <3>4. \A j \in DOMAIN list : EName \notin Scraps(list[j].row, list[j].created)
      BY <1>2, <1>4, ScrapsAre
    <3> QED BY <3>2, <3>3, <3>4 DEF Removable, Converted
  <2> QED BY <2>1 DEF ExactInv
<1>7. R.kind = "kwaj" => disk[R.kname] = before[R.kname]
  <2> SUFFICES ASSUME R.kind = "kwaj", disk[R.kname] # before[R.kname] PROVE FALSE
    OBVIOUS
  <2>1. R.kname \in Path /\ R.kname \notin Temps \cup FNames /\ EName \in Temps
    BY <1>1, <1>2, NamesAre DEF Row
  <2>2. Removable(R.kname)
    BY <1>2, <2>1 DEF OnlyScraps
  <2>3. R.kname \notin RowScraps /\ R.kname # EName
    BY <2>1 DEF RowScraps, AtRow
  <2>4. PICK j \in DOMAIN list : R.kname \in Scraps(list[j].row, list[j].created)
    BY <2>2, <2>3 DEF Removable
  <2>5. Table[list[j].row].kind = "kwaj" /\ R.kname = Table[list[j].row].kname
    BY <1>2, <1>4, <2>1, <2>4, NamesAre DEF Scraps, FNames
  <2>6. list[j].row = row
    BY <1>1, <1>4, <2>5 DEF Exact
  <2> QED BY <1>5, <2>6 DEF Unlisted
<1>8. \A p \in Path : disk[p] # Torn
  BY ExactTidy DEF TidyInv, Whole, Writing, Exact
<1>9. ~Damaged(Branch)
  <2>1. R.fname \in Path /\ EName \in Path /\ VName \in Path
    BY <1>1, ConstantsAssumption DEF Row
  <2> QED BY <1>8, <2>1 DEF Damaged, InputOf
<1>10. VName # EName /\ R.fname \in Own
  BY <1>1 DEF Own, FNames, Exact, TidyNames, Temps
<1>11. Branch = "skip" => ~Chosen(row)
  <2> SUFFICES ASSUME Branch = "skip", Reached(row) # Absent PROVE FALSE
    BY DEF Chosen
  <2>1. CASE before[R.fname] # Absent
    <3>1. /\ ~(R.kind = "pack" /\ mode = "novmm32")
          /\ ~(R.kind = "kwaj" /\ (mode = "file" \/ before[R.kname] # Absent))
          /\ ~(mode = "file" /\ R.fname # Given)
      BY <1>1, <2>1 DEF Reached
    <3> QED BY <1>3, <1>7, <2>1, <3>1 DEF Branch, Exists, Applies
  <2>2. CASE before[R.fname] = Absent
    <3>1. /\ \/ mode = "cab"
             \/ mode \in {"extract", "novmm32"} /\ R.kind = "unpack" /\ before[VName] # Absent
          /\ inside[row] # Absent
      BY <1>1, <2>2 DEF Reached
    <3> QED BY <1>3, <2>2, <3>1 DEF Branch, Exists
  <2> QED BY <2>1, <2>2
<1>12. Branch # "skip" => (Branch \in Unpacking <=> before[R.fname] = Absent)
  BY <1>3 DEF Branch, Unpacking, Exists
<1>13. ASSUME Branch \in Unpacking PROVE Reached(row) = inside[row]
  <2>1. before[R.fname] = Absent
    BY <1>12, <1>13 DEF Unpacking
  <2>2. \/ mode = "cab"
        \/ mode \in {"extract", "novmm32"} /\ R.kind = "unpack"
           /\ (disk[EName] # Absent \/ IsW3(VName) \/ disk[VName] # Absent)
    BY <1>3, <1>13, <2>1 DEF Branch, Unpacking, Exists
  <2>3. IsW3(VName) => disk[VName] # Absent
    BY DataAssumption DEF IsW3
  <2> QED BY <1>1, <1>3, <1>6, <2>1, <2>2, <2>3 DEF Reached
<1>14. ASSUME Branch \in {"kwaj", "w3", "open"}
       PROVE  /\ before[R.fname] # Absent /\ Applies
              /\ Branch = "kwaj" => R.kind = "kwaj" /\ mode # "file" /\ before[R.kname] = Absent
              /\ Branch = "w3" => R.kind = "pack" /\ mode # "novmm32"
              /\ Branch = "open" => R.kind # "pack" /\ (R.kind = "kwaj" => mode = "file")
  BY <1>3, <1>7, <1>14 DEF Branch, Exists
<1>15. ASSUME Branch \in {"kwaj", "w3"}
       PROVE  Reached(row) = before[R.fname]
  BY <1>1, <1>14, <1>15 DEF Reached, Applies
<1>16. ASSUME Branch = "open"
       PROVE  \/ R.kind \notin {"kwaj", "pack"} /\ Reached(row) = before[R.fname]
              \/ R.kind = "kwaj" /\ Reached(row) = Absent /\ Listed(row)
  BY <1>1, <1>2, <1>14, <1>16 DEF Reached, Applies, Listed
<1> QED BY <1>1, <1>3, <1>5, <1>9, <1>11, <1>12, <1>13, <1>14, <1>15, <1>16

\* What a lookup step leaves of the items and the rows it is not at.
LEMMA ExactLookupFrame ==
  ASSUME Base, Exact, TidyInv, ExactInv, LookupStep
  PROVE  /\ [Next]_vars
         /\ pc \in LookupPC /\ pc' \in LookupPC \cup {"status"}
         /\ before' = before /\ inside' = inside /\ mode' = mode /\ reverse' = reverse
         /\ k' = 1 /\ k = 1 /\ result' = result
         /\ disk \in [Path -> Data] /\ row \in Nat /\ Len(Table) \in Nat
         /\ row <= Len(Table) => row \in Rows /\ R = Table[row] /\ R \in Row
         /\ pc \in AtRow => row <= Len(Table)
         /\ Unlisted(row)
         /\ \A i \in Rows : disk'[Table[i].fname] # disk[Table[i].fname] =>
              row = i /\ \/ pc = "row" /\ disk[Table[i].fname] = Absent
                         \/ pc \in {"unpackw3", "extract"} /\ branch \in Unpacking
         /\ \A i \in Rows : disk'[Table[i].tname] # disk[Table[i].tname] =>
              pc \in {"patch", "patching"} /\ row = i
         /\ \A j \in DOMAIN list : list[j] \in Item /\ list[j].row \in Rows /\ list[j].row < row
                                   /\ j \in Nat /\ j >= 1
<1> USE DEF world, walk, scan
<1>1. [Next]_vars
  BY DEF Next, Step
<1>2. /\ pc \in LookupPC /\ pc' \in LookupPC \cup {"status"}
      /\ before' = before /\ inside' = inside /\ mode' = mode /\ reverse' = reverse
      /\ k' = k /\ result' = result
  BY DEF LookupStep, SkipRow, OpenRow, BeginExtract, UnpackW3, EndExtract, ExtractFails,
         BeginPatch, EndPatch, NoPatch, EndLookup, AddItem, NextRow, InRow, LookupPC
<1>3. k = 1
  BY <1>2 DEF TidyInv, BeforeCommit, LookupPC
<1>4. /\ row <= Len(Table) => row \in Rows /\ R = Table[row] /\ R \in Row
      /\ pc \in AtRow => row <= Len(Table)
      /\ row \in Nat /\ Len(Table) \in Nat /\ disk \in [Path -> Data]
  BY RowsAre, RowTyped, ConstantsAssumption DEF Base, Positions, TypeOK, R
<1>5. \A j \in DOMAIN list : list[j] \in Item /\ list[j].row \in Rows /\ list[j].row < row
                             /\ j \in Nat /\ j >= 1
  <2>1. \A j \in DOMAIN list : list[j] \in Item /\ j \in Nat /\ j >= 1
    BY DEF Base, TypeOK
  <2> QED BY <1>2, <2>1 DEF TidyInv, InOrder, Item
<1>6. Unlisted(row)
  BY <1>4, <1>5 DEF Unlisted, Rows
<1>7. pc \notin {"cleanup", "commit"} \cup Replacing \cup {"kwaj", "kwajing"}
  BY <1>2 DEF LookupPC, Replacing
<1>8. \A i \in Rows : disk'[Table[i].fname] # disk[Table[i].fname] =>
        row = i /\ \/ pc = "row" /\ disk[Table[i].fname] = Absent
                   \/ pc \in {"unpackw3", "extract"} /\ branch \in Unpacking
  BY <1>1, <1>7, ExactTidy, FileChanges
<1>9. \A i \in Rows : disk'[Table[i].tname] # disk[Table[i].tname] =>
        pc \in {"patch", "patching"} /\ row = i
  BY <1>1, <1>2, ExactTidy, CopyStays
     DEF CleanupItem, CommitUnselected, Drop, DropCopy, RenameMove, InItem, LookupPC
<1> QED BY <1>1, <1>2, <1>3, <1>4, <1>5, <1>6, <1>8, <1>9

\* The items already in the list, and the rows not in it, after a step.
LEMMA ExactListed ==
  ASSUME Base, Exact, TidyInv, ExactInv, LookupStep
  PROVE  /\ \A j \in DOMAIN list :
              /\ list[j].applied <=> Chosen(list[j].row)
              /\ list[j].created <=> before[Table[list[j].row].fname] = Absent
              /\ disk'[Table[list[j].row].fname] =
                   IF list[j].created THEN inside[list[j].row] ELSE before[Table[list[j].row].fname]
              /\ list[j].created => Reached(list[j].row) = inside[list[j].row]
              /\ list[j].applied => disk'[Table[list[j].row].tname] = CopyOf(list[j].row)
         /\ \A i \in Rows : Unlisted(i) =>
              /\ i >= row \/ ~Chosen(i)
              /\ i # row => disk'[Table[i].fname] = before[Table[i].fname]
<1>1. ASSUME NEW j \in DOMAIN list, NEW i \in Rows, i = list[j].row
      PROVE  /\ list[j].applied <=> Chosen(i)
             /\ list[j].created <=> before[Table[i].fname] = Absent
             /\ disk'[Table[i].fname] = IF list[j].created THEN inside[i]
                                        ELSE before[Table[i].fname]
             /\ list[j].created => Reached(i) = inside[i]
             /\ list[j].applied => disk'[Table[i].tname] = CopyOf(i)
  <2>1. i # row /\ pc \in LookupPC
    BY <1>1, ExactLookupFrame DEF Rows
  <2>2. Announced(j) /\ pc \notin CommitPC /\ pc \notin AtItem
    BY <2>1 DEF ExactInv, Looked, LookupPC, CommitPC, AtItem
  <2>3. disk'[Table[i].fname] = disk[Table[i].fname] /\ disk'[Table[i].tname] = disk[Table[i].tname]
    BY <2>1, ExactLookupFrame
  <2> QED BY <1>1, <2>2, <2>3 DEF Announced
<1>2. ASSUME NEW i \in Rows, Unlisted(i)
      PROVE  /\ i >= row \/ ~Chosen(i)
             /\ i # row => disk'[Table[i].fname] = before[Table[i].fname]
  <2>1. pc \in LookupPC
    BY ExactLookupFrame
  <2>2. /\ i >= row \/ ~Chosen(i)
        /\ i # row => disk[Table[i].fname] = before[Table[i].fname]
    BY <1>2, <2>1 DEF ExactInv, Looked
  <2> QED BY <2>2, ExactLookupFrame
<1> QED BY <1>1, <1>2, ExactLookupFrame

\* A step of the lookup keeps the invariant when it leaves a row it does not
\* list only where the row is not chosen, and is right about the row at hand.
LEMMA ExactKeeps ==
  ASSUME Base, Exact, TidyInv, ExactInv, LookupStep, list' = list,
         \/ row' = row
         \/ row' = row + 1 /\ ~Chosen(row) /\ disk'[R.fname] = before[R.fname],
         pc' = "status" => row > Len(Table),
         pc' \notin AtRow => \/ row' = row + 1
                             \/ row > Len(Table)
                             \/ disk'[R.fname] = before[R.fname],
         pc' \in AtRow => row' = row /\ AtSource'
                          /\ (branch' \in Unpacking \/ disk'[R.fname] = before[R.fname]),
         made' => before[VName] # Absent
  PROVE  ExactInv'
<1>0. /\ pc' \in Looked /\ pc' \notin CommitPC /\ pc' \notin AtItem
      /\ pc' \notin {"start", "done", "cleanup"}
  BY ExactLookupFrame DEF Looked, LookupPC, CommitPC, AtItem
<1>1. \A i \in Rows : Shaped(i)'
  BY ExactLookupFrame DEF ExactInv, Shaped, Formed, FormsOf, Listed, Inner
<1>2. \A i \in Rows : Chosen(i)' = Chosen(i) /\ CopyOf(i)' = CopyOf(i) /\ Reached(i)' = Reached(i)
  BY WantedFixed, ExactLookupFrame
<1>3. \A j \in DOMAIN list' : Announced(j)'
  <2> SUFFICES ASSUME NEW j \in DOMAIN list
               PROVE  \A i \in Rows : i = list[j].row =>
                        /\ list[j].applied <=> Chosen(i)'
                        /\ list[j].created <=> before'[Table[i].fname] = Absent
                        /\ disk'[Table[i].fname] = IF list[j].created THEN inside'[i]
                                                   ELSE before'[Table[i].fname]
                        /\ list[j].created => Reached(i)' = inside'[i]
                        /\ list[j].applied => disk'[Table[i].tname] = CopyOf(i)'
    BY <1>0, ExactLookupFrame DEF Announced
  <2> QED BY <1>2, ExactLookupFrame, ExactListed
<1>4. ASSUME NEW i \in Rows, Unlisted(i)'
      PROVE  /\ (pc' \in LookupPC /\ i >= row') \/ ~Chosen(i)'
             /\ \/ pc' \in AtRow /\ branch' \in Unpacking /\ i = row'
                \/ disk'[Table[i].fname] = before'[Table[i].fname]
  <2>1. Unlisted(i)
    BY <1>4 DEF Unlisted
  <2>2. i \in Nat /\ row \in Nat /\ i <= Len(Table) /\ Len(Table) \in Nat
    BY ExactLookupFrame DEF Rows
  <2>3. /\ i >= row \/ ~Chosen(i)
        /\ i # row => disk'[Table[i].fname] = before[Table[i].fname]
    BY <2>1, ExactListed
  <2>4. i = row => R = Table[i]
    BY DEF R
  <2>5. (pc' \in LookupPC /\ i >= row') \/ ~Chosen(i)
    <3>1. CASE pc' = "status"
      BY <2>2, <2>3, <3>1
    <3>2. CASE pc' \in LookupPC
      BY <2>2, <2>3, <3>2
    <3> QED BY <3>1, <3>2, ExactLookupFrame
  <2>6. \/ pc' \in AtRow /\ branch' \in Unpacking /\ i = row'
        \/ disk'[Table[i].fname] = before[Table[i].fname]
    BY <2>2, <2>3, <2>4
  <2> QED BY <1>2, <2>5, <2>6, ExactLookupFrame
<1> QED BY <1>0, <1>1, <1>3, <1>4, ExactLookupFrame DEF ExactInv, CommitExact

LEMMA ExactRow ==
  ASSUME Base, Exact, TidyInv, ExactInv, SkipRow \/ OpenRow \/ BeginExtract \/ EndLookup
  PROVE  ExactInv'
<1> USE DEF world, walk, scan
<1>0. LookupStep /\ pc = "row" /\ list' = list /\ made' = made
  BY DEF LookupStep, SkipRow, OpenRow, BeginExtract, EndLookup, InRow
<1>1. made' => before[VName] # Absent
  BY <1>0 DEF ExactInv
<1>2. CASE SkipRow
  <2>1. row <= Len(Table) /\ row' = row + 1 /\ pc' = "row" /\ disk' = disk
    BY <1>2 DEF SkipRow, InRow, NextRow
  <2>2. ~Chosen(row) /\ disk[R.fname] = before[R.fname]
    BY <1>0, <1>2, <2>1, RowBranch DEF SkipRow
  <2> QED BY <1>0, <1>1, <2>1, <2>2, ExactKeeps DEF AtRow
<1>3. CASE OpenRow
  <2>1. /\ row <= Len(Table) /\ Branch = "open" /\ branch' = "open" /\ pc' = "patch" /\ row' = row
        /\ disk' = disk
    BY <1>3 DEF OpenRow, InRow
  <2>2. /\ row \in Rows /\ R = Table[row] /\ disk[R.fname] = before[R.fname]
        /\ before[R.fname] # Absent /\ Shaped(row)
        /\ \/ R.kind \notin {"kwaj", "pack"} /\ Reached(row) = before[R.fname]
           \/ R.kind = "kwaj" /\ Reached(row) = Absent /\ Listed(row)
    BY <1>0, <2>1, RowBranch DEF Unpacking, ExactInv
  <2> DEFINE c == disk[R.fname]
  <2>3. c \in Content /\ c.form \in FormsOf(row)
    BY <2>2 DEF Shaped, Formed
  <2>4. /\ Visible(c) /\ c.ver = From <=> Chosen(row)
        /\ Chosen(row) => Patched(c, To) = CopyOf(row)
    <3>1. CASE R.kind = "kwaj" /\ Reached(row) = Absent /\ Listed(row)
      BY <2>2, <2>3, <3>1 DEF FormsOf, Visible, Chosen
    <3>2. CASE R.kind \notin {"kwaj", "pack"} /\ Reached(row) = before[R.fname]
      BY <2>2, <2>3, <3>2, SourceShows
    <3> QED BY <2>2, <3>1, <3>2
  <2>5. Source' = R.fname /\ R' = R
    BY <2>1 DEF Source, OutOf, R
  <2>6. /\ Chosen(row)' = Chosen(row) /\ CopyOf(row)' = CopyOf(row)
        /\ From' = From /\ To' = To /\ before' = before
    <3>1. \A i \in Rows : i = row => Chosen(i)' = Chosen(i) /\ CopyOf(i)' = CopyOf(i)
      BY <1>0, WantedFixed, ExactLookupFrame
    <3>2. Chosen(row)' = Chosen(row) /\ CopyOf(row)' = CopyOf(row)
      BY <1>3, <2>1, <2>2, <3>1
         DEF OpenRow, Chosen, CopyOf, Reached, From, To, Visible
    <3> QED BY <1>0, <3>2, ExactLookupFrame DEF From, To
  <2>7. disk'[Source'] = c
    BY <2>1, <2>5
  <2>8. AtSource'
    BY <2>1, <2>2, <2>3, <2>4, <2>5, <2>6, <2>7 DEF AtSource, Unpacking, Visible
  <2> QED BY <1>0, <1>1, <2>1, <2>2, <2>8, ExactKeeps DEF AtRow, LookupPC
<1>4. CASE BeginExtract
  <2>1. /\ row <= Len(Table) /\ Branch \in {"kwaj", "w3", "unpack", "unpackw3", "cab"}
        /\ branch' = Branch /\ row' = row /\ R' = R
        /\ pc' \in {"unpackw3", "extract"}
    BY <1>4 DEF BeginExtract, InRow, R
  <2>2. /\ row \in Rows /\ R = Table[row]
        /\ disk[R.fname] = before[R.fname]
        /\ Branch \in Unpacking <=> before[R.fname] = Absent
        /\ Branch \in Unpacking => Reached(row) = inside[row]
        /\ Branch \in {"kwaj", "w3"} => Reached(row) = before[R.fname]
        /\ Branch = "w3" => R.kind = "pack"
    BY <1>0, <2>1, RowBranch
  <2>3. Reached(row)' = Reached(row) /\ before' = before /\ inside' = inside
    BY <1>0, <1>4, <2>1 DEF BeginExtract, Reached
  <2>4. AtSource'
    BY <2>1, <2>2, <2>3 DEF AtSource
  <2>5. Branch \in Unpacking \/ disk'[R.fname] = disk[R.fname]
    BY <1>0, <2>2, ExactLookupFrame
  <2> QED BY <1>0, <1>1, <2>1, <2>2, <2>4, <2>5, ExactKeeps DEF AtRow, LookupPC
<1>5. CASE EndLookup
  BY <1>0, <1>1, <1>5, ExactKeeps DEF EndLookup, AtRow, LookupPC
<1> QED BY <1>2, <1>3, <1>4, <1>5

LEMMA ExactExtract ==
  ASSUME Base, Exact, TidyInv, ExactInv, UnpackW3 \/ EndExtract
  PROVE  ExactInv'
<1> USE DEF world, walk, scan
<1>0. LookupStep /\ pc \in AtRow /\ list' = list
  BY DEF LookupStep, UnpackW3, EndExtract, AtRow, LookupPC
<1>1. /\ AtSource /\ row \in Rows /\ R = Table[row] /\ R \in Row /\ row <= Len(Table)
      /\ Shaped(row) /\ row \in Nat /\ disk \in [Path -> Data]
      /\ before' = before /\ inside' = inside /\ mode' = mode /\ reverse' = reverse
  BY <1>0, ExactLookupFrame DEF ExactInv
<1>2. branch \in Unpacking \/ disk[R.fname] = before[R.fname]
  BY <1>0, <1>1, ExactLookupFrame DEF ExactInv, Looked, AtRow
<1>3. branch \in Unpacking \/ disk'[R.fname] = before[R.fname]
  <2>1. pc # "row"
    BY <1>0 DEF AtRow
  <2> QED BY <1>0, <1>1, <1>2, <2>1, ExactLookupFrame
<1>4. \A i \in Rows : Chosen(i)' = Chosen(i) /\ CopyOf(i)' = CopyOf(i) /\ Reached(i)' = Reached(i)
  BY <1>1, WantedFixed
<1>5. CASE UnpackW3
  <2>1. /\ pc = "unpackw3" /\ pc' = "extract" /\ row' = row /\ branch' = branch /\ made' = made
        /\ R' = R
    BY <1>5 DEF UnpackW3, R
  <2>2. Reached(row)' = Reached(row)
    BY <1>1, <2>1 DEF Reached
  <2>3. AtSource'
    BY <1>1, <2>1, <2>2 DEF AtSource
  <2> QED BY <1>0, <1>3, <2>1, <2>3, ExactKeeps DEF AtRow, LookupPC, ExactInv
<1>6. CASE EndExtract
  <2>1. /\ pc = "extract" /\ branch \in {"kwaj", "w3"} \cup Unpacking
        /\ branch = "kwaj" => R.kind = "kwaj"
    BY <1>0, <1>6 DEF EndExtract, Base, Kinds
  <2>2. made' => before[VName] # Absent
    <3>1. branch = "w3" => R.fname = VName /\ before[R.fname] # Absent
      BY <1>1, <2>1 DEF AtSource, Unpacking, Exact
    <3> QED BY <1>6, <3>1 DEF EndExtract, ExactInv
  <2>3. Source \in Path /\ (branch \in Unpacking => Source = R.fname /\ Source # EName)
    BY <1>0, ExactTidy, SourceIs
  <2>4. ASSUME branch \in Unpacking
        PROVE  Unpacked = inside[row]
    <3>1. EName \in Path /\ ~Writing(EName)
      BY <2>1, <2>3, <2>4, ConstantsAssumption DEF Writing
    <3>2. disk[EName] # Torn
      BY <3>1 DEF TidyInv, Whole, Exact
    <3> QED BY <2>4, <3>2 DEF Unpacked, Unpacking
  <2>5. ASSUME branch \notin Unpacking
        PROVE  /\ Reached(row) = before[R.fname] /\ before[R.fname] # Absent
               /\ before[R.fname] \in Content
               /\ Unpacked = As(Reached(row), IF branch = "kwaj" THEN "raw" ELSE "w3")
               /\ branch \in {"kwaj", "w3"}
    <3>1. branch \in {"kwaj", "w3"} /\ disk[R.fname] = before[R.fname]
      BY <1>2, <2>1, <2>5
    <3>2. Reached(row) = before[R.fname] /\ before[R.fname] # Absent
      BY <1>1, <2>5, <3>1 DEF AtSource
    <3> QED BY <1>1, <3>1, <3>2 DEF Shaped, Formed, Unpacked
  <2>6. Unpacked = Absent \/ Unpacked \in Content
    <3>1. CASE branch \in Unpacking
      BY <1>1, <2>4, <3>1 DEF Shaped, Formed
    <3>2. CASE branch \notin Unpacking
      BY <2>5, <3>2, VersionOf DEF Form
    <3> QED BY <3>1, <3>2
  <2>7. /\ disk' = IF branch = "unpackw3" THEN Unlink(Put(disk, Source, Unpacked), EName)
                   ELSE Put(disk, Source, Unpacked)
        /\ IF Unpacked = Absent THEN NextRow ELSE pc' = "patch" /\ UNCHANGED <<row, branch>>
    <3>1. Unpacked # Absent => Written(Unpacked) = {Unpacked}
      BY <2>6, VersionOf DEF Exact
    <3> QED BY <1>6, <3>1 DEF EndExtract
  <2>8. disk'[Source] = Unpacked
    BY <1>1, <2>3, <2>7 DEF Put, Unlink, Unpacking
  <2>9. CASE Unpacked = Absent
    <3>1. branch \in Unpacking
      BY <2>5, <2>9, VersionOf, DataAssumption DEF Form
    <3>2. disk'[R.fname] = before[R.fname] /\ ~Chosen(row)
      BY <1>1, <2>3, <2>4, <2>8, <2>9, <3>1 DEF AtSource, Chosen
    <3> QED BY <1>0, <1>1, <2>2, <2>7, <2>9, <3>2, ExactKeeps DEF NextRow, AtRow
  <2>10. CASE Unpacked # Absent
    <3>1. /\ pc' = "patch" /\ row' = row /\ branch' = branch /\ R' = R /\ Source' = Source
          /\ Unpacked \in Content
      BY <2>6, <2>7, <2>10 DEF R, Source, OutOf
    <3>2. /\ Visible(Unpacked) /\ Unpacked.ver = From <=> Chosen(row)
          /\ Chosen(row) => Patched(Unpacked, To) = CopyOf(row)
      <4>1. CASE branch \in Unpacking
        BY <1>1, <2>4, <3>1, <4>1, SourceShows DEF AtSource
      <4>2. CASE branch \notin Unpacking
        <5>1. branch = "kwaj" => R.kind = "kwaj"
          BY <2>1
        <5>2. branch = "w3" => R.kind = "pack"
          BY <1>1 DEF AtSource
        <5> QED BY <1>1, <2>5, <3>1, <4>2, <5>1, <5>2, SourceShows
      <4> QED BY <4>1, <4>2
    <3>3. /\ Chosen(row)' = Chosen(row) /\ CopyOf(row)' = CopyOf(row)
          /\ Reached(row)' = Reached(row) /\ From' = From /\ To' = To
      <4>1. From' = From /\ To' = To
        BY <1>1 DEF From, To
      <4> QED BY <1>1, <3>1, <4>1 DEF Chosen, CopyOf, Reached, Visible
    <3>4. AtSource'
      BY <1>1, <2>3, <2>4, <2>8, <3>1, <3>2, <3>3 DEF AtSource, Visible
    <3> QED BY <1>0, <1>1, <1>3, <2>2, <3>1, <3>4, ExactKeeps DEF AtRow, LookupPC
  <2> QED BY <2>9, <2>10
<1> QED BY <1>5, <1>6

\* The row at hand becomes an item of the list.
LEMMA ExactAdd ==
  ASSUME Base, Exact, TidyInv, ExactInv, EndPatch \/ NoPatch
  PROVE  ExactInv'
<1> USE DEF world, walk, scan
<1>0. LookupStep /\ pc \in {"patch", "patching"} /\ pc \in AtRow
  BY DEF LookupStep, EndPatch, NoPatch, AtRow, LookupPC
<1>1. /\ AtSource /\ row \in Rows /\ R = Table[row] /\ row <= Len(Table) /\ row \in Nat
      /\ disk \in [Path -> Data] /\ Unlisted(row)
      /\ before' = before /\ inside' = inside /\ mode' = mode /\ reverse' = reverse
  BY <1>0, ExactLookupFrame DEF ExactInv
<1>2. PICK applied \in BOOLEAN :
        /\ list' = Append(list, [row |-> row, applied |-> applied,
                                 created |-> branch \in {"unpack", "unpackw3", "cab"}])
        /\ applied => EndPatch
        /\ ~applied => NoPatch
  BY DEF EndPatch, NoPatch, AddItem
<1> DEFINE e == [row |-> row, applied |-> applied,
                 created |-> branch \in {"unpack", "unpackw3", "cab"}]
<1>3. row' = row + 1 /\ pc' = "row" /\ (made' => made)
  BY DEF EndPatch, NoPatch, AddItem, NextRow
<1>4. /\ disk[Source] \in Content
      /\ Visible(disk[Source]) /\ disk[Source].ver = From <=> Chosen(row)
      /\ Chosen(row) => Patched(disk[Source], To) = CopyOf(row)
      /\ branch \in Unpacking <=> before[R.fname] = Absent
      /\ branch \in Unpacking => Reached(row) = inside[row] /\ disk[Source] = inside[row]
      /\ branch \in Unpacking \/ disk[R.fname] = before[R.fname]
  BY <1>0, <1>1 DEF AtSource, ExactInv, Looked, AtRow
<1>5. applied <=> Chosen(row)
  <2>1. applied => Chosen(row)
    BY <1>1, <1>2 DEF EndPatch, AtSource
  <2>2. ~applied => ~Chosen(row)
    BY <1>2, <1>4, DataAssumption DEF NoPatch, Fits
  <2> QED BY <2>1, <2>2
<1>6. disk'[R.fname] = disk[R.fname]
  BY <1>0, <1>1, ExactLookupFrame
<1>7. disk'[R.fname] = IF branch \in Unpacking THEN inside[row] ELSE before[R.fname]
  BY <1>0, <1>4, <1>6, ExactTidy, SourceIs
<1>8. applied => disk'[R.tname] = CopyOf(row)
  <2> SUFFICES ASSUME applied PROVE disk'[R.tname] = CopyOf(row)
    OBVIOUS
  <2>1. Written(CopyOf(row)) = {CopyOf(row)}
    BY <1>1, <1>5, CopyIs, VersionOf DEF ExactInv, Exact
  <2>2. disk' \in {Put(disk, R.tname, CopyOf(row)), Unlink(Put(disk, R.tname, CopyOf(row)), EName)}
    BY <1>2, <1>4, <1>5, <2>1 DEF EndPatch, AddItem
  <2>3. R.tname \in Path /\ R.tname # EName
    BY <1>1, ExactTidy, CopyNames
  <2> QED BY <1>1, <2>2, <2>3 DEF Put, Unlink
<1>9. \A i \in Rows : /\ Chosen(i)' = Chosen(i) /\ CopyOf(i)' = CopyOf(i)
                      /\ Reached(i)' = Reached(i)
  BY <1>1, WantedFixed
<1>10. /\ list \in Seq(Item) /\ list'[Len(list) + 1] = e /\ Len(list) \in Nat
       /\ DOMAIN list' = DOMAIN list \cup {Len(list) + 1}
       /\ Len(list) + 1 \notin DOMAIN list
       /\ \A j \in DOMAIN list : list'[j] = list[j]
  BY <1>2 DEF Base, TypeOK
<1>11. e.row = row /\ e.applied = applied /\ (e.created <=> branch \in Unpacking)
  BY DEF Unpacking
<1> HIDE DEF e
<1>12. pc' \in Looked /\ pc' \notin CommitPC \cup AtItem \cup AtRow
       /\ pc' \notin {"start", "done", "cleanup"} /\ pc' \in LookupPC
  BY <1>3 DEF Looked, LookupPC, CommitPC, AtItem, AtRow
<1>13. \A j \in DOMAIN list' : list'[j].row \in Rows
  BY <1>0, <1>1, <1>10, <1>11, ExactLookupFrame
<1>14. ASSUME NEW j \in DOMAIN list', NEW i \in Rows, i = list'[j].row
       PROVE  /\ list'[j].applied <=> Chosen(i)'
              /\ list'[j].created <=> before'[Table[i].fname] = Absent
              /\ disk'[Table[i].fname] = IF list'[j].created THEN inside'[i]
                                         ELSE before'[Table[i].fname]
              /\ list'[j].created => Reached(i)' = inside'[i]
              /\ list'[j].applied => disk'[Table[i].tname] = CopyOf(i)'
  <2>1. CASE j \in DOMAIN list
    BY <1>0, <1>1, <1>9, <1>10, <1>14, <2>1, ExactListed
  <2>2. CASE j = Len(list) + 1
    BY <1>1, <1>4, <1>5, <1>7, <1>8, <1>9, <1>10, <1>11, <1>14, <2>2
  <2> QED BY <1>10, <1>14, <2>1, <2>2
<1>15. \A j \in DOMAIN list' : Announced(j)'
  BY <1>12, <1>13, <1>14 DEF Announced
<1>16. \A i, j \in DOMAIN list' : i # j => list'[i].row # list'[j].row
  BY <1>1, <1>10, <1>11 DEF ExactInv, Unlisted
<1>17. ASSUME NEW i \in Rows, Unlisted(i)'
       PROVE  /\ i >= row' \/ ~Chosen(i)'
              /\ disk'[Table[i].fname] = before'[Table[i].fname]
  <2>1. Unlisted(i) /\ i # row
    BY <1>10, <1>11, <1>17 DEF Unlisted
  <2>2. (i >= row \/ ~Chosen(i)) /\ disk'[Table[i].fname] = before[Table[i].fname]
    BY <1>0, <2>1, ExactListed
  <2> QED BY <1>1, <1>3, <1>9, <2>1, <2>2 DEF Rows
<1>18. \A i \in Rows : Shaped(i)'
  BY <1>1 DEF ExactInv, Shaped, Formed, FormsOf, Listed, Inner
<1> QED BY <1>1, <1>3, <1>12, <1>15, <1>16, <1>17, <1>18 DEF ExactInv, CommitExact

LEMMA ExactLookup ==
  ASSUME Base, Exact, TidyInv, ExactInv, LookupStep
  PROVE  ExactInv'
<1> USE DEF world, walk, scan
<1>1. CASE BeginPatch
  <2>1. /\ pc = "patch" /\ pc' = "patching" /\ row' = row /\ branch' = branch /\ list' = list
        /\ made' = made /\ R' = R /\ Source' = Source /\ pc \in AtRow
    BY <1>1 DEF BeginPatch, R, Source, OutOf, AtRow, LookupPC
  <2>2. /\ AtSource /\ row \in Rows /\ R = Table[row] /\ disk \in [Path -> Data]
        /\ before' = before /\ inside' = inside /\ mode' = mode /\ reverse' = reverse
    BY <2>1, ExactLookupFrame DEF ExactInv
  <2>3. Source \in Path /\ disk'[Source] = disk[Source]
    BY <1>1, <2>1, <2>2, ExactTidy, SourceIs DEF BeginPatch, Put
  <2>4. Chosen(row)
    BY <1>1, <2>1, <2>2, DataAssumption DEF BeginPatch, Fits, AtSource
  <2>5. /\ Chosen(row)' = Chosen(row) /\ CopyOf(row)' = CopyOf(row)
        /\ Reached(row)' = Reached(row) /\ From' = From /\ To' = To
    <3>1. From' = From /\ To' = To
      BY <2>2 DEF From, To
    <3> QED BY <2>1, <2>2, <3>1 DEF Chosen, CopyOf, Reached, Visible
  <2>6. AtSource'
    BY <2>1, <2>2, <2>3, <2>4, <2>5 DEF AtSource, Visible
  <2>7. branch \in Unpacking \/ disk'[R.fname] = before[R.fname]
    BY <2>1, <2>2, ExactLookupFrame DEF ExactInv, Looked, AtRow
  <2> QED BY <2>1, <2>2, <2>6, <2>7, ExactKeeps DEF AtRow, LookupPC, ExactInv
<1>2. ~ExtractFails
  BY ExactTidy, NoExtractFails
<1> QED BY <1>1, <1>2, ExactRow, ExactExtract, ExactAdd DEF LookupStep

\* The item at hand is written whole over its file.
LEMMA ExactItem ==
  ASSUME Base, Exact, TidyInv, ExactInv, BackupStep \/ PackStep \/ RenameStep
  PROVE  /\ pc \in AtItem /\ k \in DOMAIN list /\ It.row \in Rows /\ CR = Table[It.row]
         /\ \/ k' = k /\ pc' \in AtItem /\ AtCommit'
            \/ k' = k + 1 /\ pc' = "commit" /\ disk'[CR.fname] = Wanted(It.row)
<1> DEFINE i == It.row
           f == CR.fname
           t == CR.tname
<1> USE DEF AtItem, CommitPC, Dropping, world, walk, scan
<1>1. pc \in AtItem
  BY DEF BackupStep, PackStep, RenameStep, NoBackupMade, BeginBackup, EndBackup, BeginPack,
         EndPack, PackMissed, PackRefused, BeginKwaj, EndKwaj, KwajFails, Drop, RenameNothing,
         RenameUnlink, RenameMove, RenameCopies, RenameLost, EndCopy, DropCopy
<1>2. /\ k \in DOMAIN list /\ i \in Rows /\ CR = Table[i] /\ AtCommit /\ Chosen(i) /\ Shaped(i)
      /\ disk \in [Path -> Data] /\ after \in {"pack", "rename"}
  <2>1. k <= Len(list) /\ k \in DOMAIN list
    BY <1>1 DEF Base, TypeOK, Positions
  <2> QED BY <1>1, <2>1, RowsAre DEF Base, TypeOK, ExactInv
<1>3. /\ f \in Path /\ t \in Path /\ CR.bname \in Path /\ t # f /\ t # CR.bname /\ f # CR.bname
      /\ CR.kind = "kwaj" => CR.kname # f
  BY <1>2, ExactTidy, CopyNames
<1>4. /\ CopyOf(i) \in Content /\ Wanted(i) \in Content
      /\ CR.kind = "kwaj" => Stored(CopyOf(i)) = Wanted(i)
      /\ Written(Wanted(i)) = {Wanted(i)}
  BY <1>2, CopyIs, VersionOf DEF Exact
<1>5. Faults \cap {"pack", "copy", "full", "unpack"} = {}
  BY DEF Exact
<1>6. ASSUME UNCHANGED <<list, before, inside, mode, reverse>>, k' = k
      PROVE  /\ It' = It /\ CR' = CR
             /\ CopyOf(i)' = CopyOf(i)
             /\ Wanted(i)' = Wanted(i)
  <2>1. It' = It /\ CR' = CR
    BY <1>6 DEF It, CR
  <2>2. From' = From /\ To' = To
    BY <1>6 DEF From, To
  <2>3. Reached(i)' = Reached(i)
    BY <1>6, <2>1 DEF Reached
  <2> QED BY <2>1, <2>2, <2>3, <1>6 DEF CopyOf, Wanted, Visible
<1>7. /\ pc \notin Dropping => disk[t] = CopyOf(i)
      /\ pc \in Dropping => disk[f] = Wanted(i)
      /\ pc \in {"kwaj", "kwajing"} <=> CR.kind = "kwaj" /\ pc \notin Dropping
      /\ pc \notin Dropping /\ CR.kind # "kwaj" =>
           Wanted(i) = IF \/ pc \in {"pack", "packing"}
                          \/ (pc \in {"backup", "backingup"} /\ after = "pack")
                       THEN As(CopyOf(i), "w4") ELSE CopyOf(i)
  BY <1>2 DEF AtCommit
<1>8. \/ NoBackupMade \/ BeginBackup \/ EndBackup \/ BeginPack \/ BeginKwaj
      \/ RenameUnlink \/ RenameCopies \/ EndPack \/ EndKwaj \/ EndCopy \/ Drop \/ DropCopy
      \/ RenameMove
  <2>1. (disk[t] # Absent /\ disk[t] # Torn) \/ pc \in Dropping
    BY <1>4, <1>7, DataAssumption
  <2>2. ~PackMissed /\ ~PackRefused /\ ~KwajFails /\ ~RenameNothing /\ ~RenameLost
    BY <1>5, <2>1 DEF PackMissed, PackRefused, KwajFails, RenameNothing, RenameLost, Exists
  <2> QED BY <2>2 DEF BackupStep, PackStep, RenameStep
<1>9. UNCHANGED <<list, before, inside, mode, reverse>>
  BY <1>8 DEF NoBackupMade, BeginBackup, EndBackup, BeginPack, BeginKwaj, RenameUnlink,
              RenameCopies, EndPack, EndKwaj, EndCopy, Drop, DropCopy, RenameMove, NextItem
<1>10. CASE NoBackupMade \/ BeginBackup \/ EndBackup \/ BeginPack \/ BeginKwaj
            \/ RenameUnlink \/ RenameCopies
  <2>1. k' = k /\ after' = after /\ disk'[t] = disk[t] /\ pc \notin Dropping
    BY <1>2, <1>3, <1>10 DEF NoBackupMade, BeginBackup, EndBackup, BeginPack, BeginKwaj,
                      RenameUnlink, RenameCopies, Put, Unlink
  <2>2. \/ pc = "backup" /\ pc' \in {after, "backingup"}
        \/ pc = "backingup" /\ pc' = after
        \/ pc = "pack" /\ pc' = "packing"
        \/ pc = "kwaj" /\ pc' = "kwajing"
        \/ pc = "rename" /\ pc' = "renaming"
        \/ pc = "renaming" /\ pc' = "copying"
    BY <1>10 DEF NoBackupMade, BeginBackup, EndBackup, BeginPack, BeginKwaj,
                      RenameUnlink, RenameCopies
  <2>3. pc' \in AtItem /\ pc' \notin Dropping
    BY <1>2, <2>2
  <2>4. AtCommit'
    BY <1>2, <1>6, <1>7, <1>9, <2>1, <2>2, <2>3 DEF AtCommit
  <2> QED BY <1>1, <1>2, <2>1, <2>3, <2>4
<1>11. CASE EndPack \/ EndKwaj \/ EndCopy
  <2>1. k' = k /\ pc' \in Dropping /\ pc \notin Dropping /\ pc' \in AtItem
    BY <1>11 DEF EndPack, EndKwaj, EndCopy
  <2>2. \/ \E c \in Written(As(disk[t], "w4")) : disk' = Put(disk, f, c) /\ EndPack
        \/ \E c \in Written(Stored(disk[t])) : disk' = Put(disk, f, c) /\ EndKwaj
        \/ \E c \in Written(disk[t]) : disk' = Put(disk, f, c) /\ EndCopy
    BY <1>11 DEF EndPack, EndKwaj, EndCopy
  <2>3. /\ EndPack => As(disk[t], "w4") = Wanted(i)
        /\ EndKwaj => Stored(disk[t]) = Wanted(i)
        /\ EndCopy => disk[t] = Wanted(i)
    BY <1>4, <1>7 DEF EndPack, EndKwaj, EndCopy
  <2>4. disk'[f] = Wanted(i)
    BY <1>2, <1>3, <1>4, <2>2, <2>3 DEF Put
  <2>5. AtCommit'
    BY <1>6, <1>9, <2>1, <2>4 DEF AtCommit
  <2> QED BY <1>1, <1>2, <2>1, <2>5
<1>12. CASE Drop \/ DropCopy
  <2>1. pc \in Dropping /\ k' = k + 1 /\ pc' = "commit" /\ disk'[f] = disk[f]
    BY <1>2, <1>3, <1>12 DEF Drop, DropCopy, NextItem, Unlink
  <2> QED BY <1>1, <1>2, <1>7, <2>1
<1>13. CASE RenameMove
  <2>1. pc = "renaming" /\ k' = k + 1 /\ pc' = "commit" /\ disk'[f] = disk[t]
    BY <1>2, <1>3, <1>13 DEF RenameMove, NextItem, Move
  <2> QED BY <1>1, <1>2, <1>7, <2>1
<1> QED BY <1>8, <1>10, <1>11, <1>12, <1>13

\* The item at hand when files_commit comes to it.
LEMMA ExactStart ==
  ASSUME Base, Exact, TidyInv, ExactInv,
         CommitUnselected \/ CommitFile \/ CommitKwaj
  PROVE  /\ pc = "commit" /\ k \in DOMAIN list /\ It.row \in Rows /\ CR = Table[It.row]
         /\ \/ k' = k /\ pc' \in AtItem /\ disk' = disk /\ AtCommit' /\ Chosen(It.row)
            \/ k' = k + 1 /\ pc' = "commit" /\ disk'[CR.fname] = Wanted(It.row)
<1> DEFINE i == It.row
           f == CR.fname
           t == CR.tname
<1> USE DEF AtItem, CommitPC, Dropping, world, walk, scan
<1>1. /\ pc = "commit" /\ k \in DOMAIN list /\ i \in Rows /\ CR = Table[i] /\ Shaped(i)
      /\ disk \in [Path -> Data] /\ Announced(k)
      /\ UNCHANGED <<list, before, inside, mode, reverse>>
  <2>1. pc = "commit" /\ k <= Len(list)
    BY DEF CommitUnselected, CommitFile, CommitKwaj, InItem
  <2>2. k \in DOMAIN list
    BY <2>1 DEF Base, TypeOK
  <2> QED BY <2>1, <2>2, RowsAre
          DEF Base, TypeOK, ExactInv, CommitUnselected, CommitFile, CommitKwaj, NextItem
<1>2. /\ It.applied <=> Chosen(i)
      /\ It.created <=> before[f] = Absent
      /\ disk[f] = IF It.created THEN inside[i] ELSE before[f]
      /\ It.applied => disk[t] = CopyOf(i)
  <2>1. /\ ~(pc \in CommitPC /\ k < k)
        /\ ~(pc \in AtItem /\ k = k)
    BY <1>1 DEF Base, TypeOK
  <2>2. It = list[k]
    BY DEF It
  <2> QED BY <1>1, <2>1, <2>2 DEF Announced
<1>3. /\ f \in Path /\ t \in Path /\ t # f
  BY <1>1, ExactTidy, CopyNames
<1>4. CASE CommitUnselected
  <2>1. ~Chosen(i) /\ k' = k + 1 /\ pc' = "commit"
    BY <1>2, <1>4 DEF CommitUnselected, NextItem
  <2>2. disk'[f] = before[f]
    BY <1>1, <1>2, <1>3, <1>4 DEF CommitUnselected, Unlink
  <2> QED BY <1>1, <2>1, <2>2, WantedIs
<1>5. ASSUME k' = k, It.applied
      PROVE  /\ It' = It /\ CR' = CR
             /\ CopyOf(i)' = CopyOf(i)
             /\ Wanted(i)' = Wanted(i)
  <2>1. It' = It /\ CR' = CR
    BY <1>1, <1>5 DEF It, CR
  <2>2. From' = From /\ To' = To
    BY <1>1 DEF From, To
  <2>3. Reached(i)' = Reached(i)
    BY <1>1, <2>1 DEF Reached
  <2> QED BY <1>1, <2>1, <2>2, <2>3 DEF CopyOf, Wanted, Visible
<1>6. CASE CommitKwaj
  <2>1. k' = k /\ pc' = "kwaj" /\ disk' = disk /\ It.applied /\ CR.kind = "kwaj"
    BY <1>6 DEF CommitKwaj
  <2>2. AtCommit'
    BY <1>2, <1>5, <2>1 DEF AtCommit
  <2> QED BY <1>1, <1>2, <2>1, <2>2
<1>7. CASE CommitFile
  <2>1. PICK c \in Compress(CR) : after' = IF c THEN "pack" ELSE "rename"
    BY <1>7 DEF CommitFile
  <2>2. k' = k /\ pc' = "backup" /\ disk' = disk /\ It.applied /\ CR.kind # "kwaj"
    BY <1>7 DEF CommitFile
  <2>3. /\ Reached(i) \in Content /\ CopyOf(i) \in Content
        /\ Wanted(i) = IF CR.kind = "pack" /\ Reached(i).form = "w4" /\ ~ForceW3
                       THEN As(CopyOf(i), "w4") ELSE CopyOf(i)
        /\ CR.kind = "pack" => CopyOf(i).form = "w3"
    BY <1>1, <1>2, <2>2, CopyIs
  <2>4. disk[f] = Reached(i) /\ disk[t] = CopyOf(i)
    BY <1>1, <1>2, <2>2, WantedIs
  <2>5. c <=> CR.kind = "pack" /\ Reached(i).form = "w4" /\ ~ForceW3
    BY <2>1, <2>3, <2>4, DataAssumption, ConstantsAssumption DEF Compress
  <2>6. Wanted(i) = IF after' = "pack" THEN As(CopyOf(i), "w4") ELSE CopyOf(i)
    BY <2>1, <2>3, <2>5
  <2>7. AtCommit'
    BY <1>5, <2>2, <2>4, <2>6 DEF AtCommit
  <2> QED BY <1>1, <1>2, <2>2, <2>7
<1> QED BY <1>4, <1>6, <1>7

LEMMA ExactCommit ==
  ASSUME Base, Exact, TidyInv, ExactInv, CommitStep
  PROVE  ExactInv'
<1> USE DEF world, walk, scan
<1>1. /\ [Next]_vars /\ list' = list /\ made' = made /\ pc \in CommitPC
      /\ before' = before /\ inside' = inside /\ mode' = mode /\ reverse' = reverse
  BY DEF Next, Step, CommitStep, BackupStep, PackStep, RenameStep, CommitUnselected, CommitFile,
         CommitKwaj, CommitDone, NoBackupMade, BeginBackup, EndBackup, BeginPack, EndPack,
         PackMissed, PackRefused, BeginKwaj, EndKwaj, KwajFails, Drop, RenameNothing,
         RenameUnlink, RenameMove, RenameCopies, RenameLost, EndCopy, DropCopy, NextItem,
         FallBack, CommitPC, InItem
<1>2. pc \notin LookupPC /\ pc \notin AtRow /\ pc \notin {"patch", "patching", "cleanup", "start"}
  BY <1>1 DEF CommitPC, LookupPC, AtRow
<1>3. \A i \in Rows : /\ Chosen(i)' = Chosen(i) /\ CopyOf(i)' = CopyOf(i)
                      /\ Wanted(i)' = Wanted(i) /\ Reached(i)' = Reached(i)
  BY <1>1, WantedFixed
<1>4. \A i \in Rows : Shaped(i)'
  BY <1>1 DEF ExactInv, Shaped, Formed, FormsOf, Listed, Inner
<1>5. \A j \in DOMAIN list : list[j] \in Item /\ list[j].row \in Rows /\ j \in Nat /\ j <= Len(list)
  <2>1. \A j \in DOMAIN list : list[j] \in Item /\ j \in Nat /\ j <= Len(list)
    BY DEF Base, TypeOK
  <2> QED BY <2>1 DEF Item
<1>6. \A i \in Rows : Unlisted(i) => ~Chosen(i) /\ disk[Table[i].fname] = before[Table[i].fname]
  BY <1>1, <1>2 DEF ExactInv
<1>7. CASE CommitDone
  <2>1. pc' = "done" /\ pc = "commit" /\ k > Len(list) /\ disk' = disk
    BY <1>7 DEF CommitDone
  <2>2. ASSUME NEW i \in Rows
        PROVE  disk[Table[i].fname] = Wanted(i)
    <3>1. CASE Unlisted(i)
      BY <1>6, <3>1, WantedIs
    <3>2. CASE ~Unlisted(i)
      <4>1. PICK j \in DOMAIN list : list[j].row = i
        BY <3>2 DEF Unlisted
      <4>2. j < k /\ j # k
        BY <1>5, <2>1 DEF Base, TypeOK
      <4>3. Announced(j)
        BY <1>1 DEF ExactInv
      <4> QED BY <1>1, <4>1, <4>2, <4>3 DEF Announced
    <3> QED BY <3>1, <3>2
  <2>3. CommitExact'
    BY <1>3, <2>1, <2>2 DEF CommitExact
  <2>4. pc' \notin AtRow /\ pc' \notin AtItem /\ pc' \notin Looked \cup CommitPC
    BY <2>1 DEF AtRow, AtItem, Looked, LookupPC, CommitPC
  <2>5. (\A i, j \in DOMAIN list : i # j => list[i].row # list[j].row)'
        /\ (made => before[VName] # Absent)'
    BY <1>1 DEF ExactInv
  <2>6. result' = "committed"
    BY <1>7 DEF CommitDone
  <2> QED BY <1>4, <2>1, <2>3, <2>4, <2>5, <2>6 DEF ExactInv
<1>8. ASSUME ~CommitDone
      PROVE  /\ k \in DOMAIN list /\ It.row \in Rows /\ CR = Table[It.row]
             /\ \/ k' = k /\ pc' \in AtItem /\ AtCommit' /\ Chosen(It.row)
                \/ k' = k + 1 /\ pc' = "commit" /\ disk'[CR.fname] = Wanted(It.row)
  <2>1. CASE BackupStep \/ PackStep \/ RenameStep
    <3>1. pc \in AtItem => Chosen(It.row)
      BY DEF ExactInv
    <3> QED BY <2>1, <3>1, ExactItem
  <2>2. CASE CommitUnselected \/ CommitFile \/ CommitKwaj
    BY <2>2, ExactStart
  <2> QED BY <1>8, <2>1, <2>2 DEF CommitStep
<1>9. ASSUME ~CommitDone, NEW i \in Rows, i # It.row
      PROVE  disk'[Table[i].fname] = disk[Table[i].fname] /\ disk'[Table[i].tname] = disk[Table[i].tname]
  <2>1. CopiesApart
    BY ExactTidy
  <2>2. pc \notin {"row", "unpackw3", "extract"}
    BY <1>2 DEF LookupPC
  <2> QED BY <1>1, <1>2, <1>9, <2>1, <2>2, FileChanges, CopyStays
<1>10. ASSUME ~CommitDone, NEW j \in DOMAIN list, NEW i \in Rows, i = list[j].row
       PROVE  /\ list[j].applied <=> Chosen(i)'
              /\ list[j].created <=> before'[Table[i].fname] = Absent
              /\ CASE pc' \in CommitPC /\ j < k' -> disk'[Table[i].fname] = Wanted(i)'
                   [] pc' \in AtItem /\ j = k' -> TRUE
                   [] OTHER -> /\ disk'[Table[i].fname] = IF list[j].created THEN inside'[i]
                                                          ELSE before'[Table[i].fname]
                               /\ list[j].created => Reached(i)' = inside'[i]
                               /\ list[j].applied => disk'[Table[i].tname] = CopyOf(i)'
  <2>1. Announced(j)
    BY <1>1 DEF ExactInv
  <2>2. j \in Nat /\ k \in Nat
    BY <1>5, <1>8, <1>10
  <2>3. j # k => i # It.row
    BY <1>8, <1>10 DEF ExactInv, It
  <2>4. CASE j < k
    <3>1. disk[Table[i].fname] = Wanted(i)
      <4>1. j # k
        BY <2>2, <2>4
      <4> QED BY <1>1, <1>10, <2>1, <2>4, <4>1 DEF Announced
    <3>2. disk'[Table[i].fname] = Wanted(i)' /\ j < k'
      BY <1>3, <1>8, <1>9, <1>10, <2>2, <2>3, <2>4, <3>1
    <3>3. pc' \in CommitPC
      BY <1>8, <1>10 DEF AtItem, CommitPC
    <3>4. ~(pc' \in AtItem /\ j = k')
      BY <2>2, <3>2, <1>8, <1>10
    <3> QED BY <1>1, <1>3, <1>10, <2>1, <3>2, <3>3, <3>4 DEF Announced
  <2>5. CASE j = k
    <3>1. i = It.row
      BY <1>10, <2>5 DEF It
    <3>2. CASE k' = k /\ pc' \in AtItem
      BY <1>1, <1>3, <1>10, <2>1, <2>2, <2>5, <3>2 DEF Announced
    <3>3. CASE k' = k + 1 /\ pc' = "commit" /\ disk'[CR.fname] = Wanted(It.row)
      <4>1. disk'[Table[i].fname] = Wanted(i)' /\ j < k' /\ pc' \in CommitPC /\ j # k'
        BY <1>3, <1>8, <1>10, <2>2, <2>5, <3>1, <3>3 DEF CommitPC
      <4> QED BY <1>1, <1>3, <1>10, <2>1, <4>1 DEF Announced
    <3> QED BY <1>8, <1>10, <3>2, <3>3
  <2>6. CASE j > k
    <3>1. ~(pc \in CommitPC /\ j < k) /\ ~(pc \in AtItem /\ j = k)
      BY <2>2, <2>6
    <3>2. ~(pc' \in CommitPC /\ j < k') /\ ~(pc' \in AtItem /\ j = k')
      BY <1>8, <1>10, <2>2, <2>6 DEF AtItem
    <3>3. /\ disk'[Table[i].fname] = disk[Table[i].fname]
          /\ disk'[Table[i].tname] = disk[Table[i].tname]
      BY <1>9, <1>10, <2>2, <2>3, <2>6
    <3> QED BY <1>1, <1>3, <1>10, <2>1, <3>1, <3>2, <3>3 DEF Announced
  <2> QED BY <2>2, <2>4, <2>5, <2>6
<1>11. CASE ~CommitDone
  <2>1. \A j \in DOMAIN list' : Announced(j)'
    BY <1>1, <1>5, <1>10, <1>11 DEF Announced
  <2>2. ASSUME NEW i \in Rows, Unlisted(i)'
        PROVE  ~Chosen(i)' /\ disk'[Table[i].fname] = before'[Table[i].fname]
    <3>1. Unlisted(i) /\ i # It.row
      BY <1>1, <1>8, <1>11, <2>2 DEF Unlisted, It
    <3> QED BY <1>1, <1>3, <1>6, <1>9, <1>11, <3>1
  <2>3. pc' \in CommitPC /\ pc' \notin AtRow /\ pc' \notin {"start", "cleanup", "done"}
    BY <1>8, <1>11 DEF AtItem, CommitPC, AtRow, LookupPC
  <2>4. pc' \in AtItem => AtCommit' /\ Chosen(It.row)'
    <3>1. pc' \in AtItem => pc' # "commit"
      BY DEF AtItem
    <3>2. k' = k => It' = It
      BY <1>1 DEF It
    <3>3. Chosen(It.row) /\ k' = k => Chosen(It.row)'
      <4> DEFINE i == It.row
      <4>1. k' = k => Chosen(i)' = Chosen(i)
        <5>1. From' = From
          BY <1>1 DEF From
        <5> QED BY <1>1, <3>2, <5>1 DEF Chosen, Reached, Visible
      <4> QED BY <4>1
    <3> QED BY <1>8, <1>11, <3>1, <3>3
  <2>5. CommitExact'
    BY <2>3 DEF CommitExact
  <2>6. \A i, j \in DOMAIN list' : i # j => list'[i].row # list'[j].row
    BY <1>1 DEF ExactInv
  <2>7. made' => before'[VName] # Absent
    BY <1>1 DEF ExactInv
  <2> QED BY <1>4, <2>1, <2>2, <2>3, <2>4, <2>5, <2>6, <2>7 DEF ExactInv
<1> QED BY <1>7, <1>11

\* A run may find what the one before it left.
LEMMA ExactRestart ==
  ASSUME Base, Exact, TidyInv, ExactInv, Start
  PROVE  ExactInv'
<1> USE DEF world, walk, scan
<1>1. /\ pc \in {"start", "done"} /\ pc' = "row" /\ row' = 1 /\ list' = << >> /\ made' = FALSE
      /\ before' = disk /\ disk' = disk /\ inside' = inside /\ runs < MaxRuns
  BY ExactTidy DEF Start, Tidy
<1>2. ASSUME NEW i \in Rows
      PROVE  Formed(disk[Table[i].fname], i)
  <2> DEFINE f == Table[i].fname
  <2>1. Formed(before[f], i) /\ f \in Path
    BY RowTyped DEF ExactInv, Shaped, Row
  <2>2. CASE pc = "start"
    BY <1>2, <2>2 DEF ExactInv
  <2>3. CASE pc = "done" /\ result # "committed"
    <3>1. result \in {"nothing", "aborted"}
      BY <2>3 DEF ExactInv, Base, TypeOK, Results
    <3> QED BY <2>1, <2>3, <3>1 DEF TidyInv, AbortRestores
  <2>4. CASE pc = "done" /\ result = "committed"
    <3>1. disk[f] = Wanted(i)
      BY <2>4 DEF ExactInv, CommitExact
    <3>2. CASE ~Chosen(i)
      BY <2>1, <3>1, <3>2, WantedIs
    <3>3. CASE Chosen(i)
      <4>1. Wanted(i) \in Content
            /\ Wanted(i).form \in FormsOf(i) \cup (IF Table[i].kind = "kwaj" THEN {"stored"} ELSE {})
        BY <3>3, CopyIs DEF ExactInv
      <4>2. Table[i].kind = "kwaj" => ~Listed(i)
        <5>1. runs > 0 /\ runs \in Nat /\ MaxRuns \in Nat
          BY <2>4, ConstantsAssumption DEF TidyInv, FirstRun, Base, TypeOK
        <5> QED BY <1>1, <5>1, ExactTidy DEF TidyNames
      <4>3. Table[i].kind = "kwaj" => "stored" \in FormsOf(i)
        BY <4>2 DEF FormsOf
      <4> QED BY <3>1, <4>1, <4>3 DEF Formed
    <3> QED BY <3>2, <3>3
  <2> QED BY <1>1, <2>2, <2>3, <2>4
<1>3. \A i \in Rows : Shaped(i)'
  BY <1>1, <1>2 DEF ExactInv, Shaped, Formed, FormsOf, Listed, Inner
<1>4. \A i \in Rows : i >= 1
  BY DEF Rows
<1> QED BY <1>1, <1>3, <1>4 DEF ExactInv, CommitExact, AtRow, AtItem, LookupPC, CommitPC

LEMMA ExactNext ==
  ASSUME Base, Exact, TidyInv, ExactInv, [Next]_vars
  PROVE  ExactInv'
<1> USE DEF world, walk, scan
<1>1. CASE UNCHANGED vars
  <2>1. It' = It /\ CR' = CR /\ R' = R /\ From' = From /\ To' = To /\ Source' = Source
    BY <1>1 DEF vars, It, CR, R, From, To, Source, OutOf
  <2>2. (\A i \in Rows : Shaped(i) /\ (pc = "start" => Formed(disk[Table[i].fname], i)))'
    BY <1>1 DEF vars, ExactInv, Shaped, Formed, FormsOf, Listed, Inner
  <2>3. (pc \in AtRow => AtSource)'
    BY <1>1, <2>1, ZenonT(60) DEF vars, ExactInv, AtSource, Chosen, CopyOf, Reached, Visible
  <2>4. (pc \in AtItem => AtCommit /\ Chosen(It.row))'
    <3>1. pc' = pc /\ (pc \in AtItem => AtCommit /\ Chosen(It.row))
      BY <1>1 DEF vars, ExactInv
    <3>2. CopyOf(It.row)' = CopyOf(It.row) /\ Chosen(It.row)' = Chosen(It.row)
      BY <1>1, <2>1 DEF vars, Chosen, CopyOf, Reached, Visible
    <3>3. Wanted(It.row)' = Wanted(It.row)
      BY <1>1, <2>1 DEF vars, Wanted, Reached, Visible
    <3>4. AtCommit' = AtCommit
      BY <1>1, <2>1, <3>2, <3>3 DEF vars, AtCommit
    <3> QED BY <3>1, <3>2, <3>4
  <2>5. \A i : Chosen(i)' = Chosen(i) /\ CopyOf(i)' = CopyOf(i) /\ Wanted(i)' = Wanted(i)
                /\ Reached(i)' = Reached(i) /\ Unlisted(i)' = Unlisted(i)
    BY <1>1, <2>1 DEF vars, Chosen, CopyOf, Reached, Wanted, Visible, Unlisted
  <2>6. (\A j \in DOMAIN list : Announced(j))' <=> \A j \in DOMAIN list : Announced(j)
    BY <1>1, <2>5 DEF vars, Announced
  <2>7. CommitExact'
    BY <1>1, <2>5 DEF vars, ExactInv, CommitExact
  <2> QED BY <1>1, <2>2, <2>3, <2>4, <2>5, <2>6, <2>7 DEF vars, ExactInv
<1>2. CASE Crash \/ Status \/ AnswerYes \/ AnswerNo \/ CleanupStep
  <2>1. /\ before' = before /\ inside' = inside /\ mode' = mode /\ reverse' = reverse
        /\ list' = list /\ made' = made
        /\ pc' \in {"crashed", "ask", "commit", "cleanup", "done"}
        /\ pc' = "cleanup" => result' \in {"nothing", "aborted"}
        /\ pc' = "done" => result' \in {"nothing", "aborted"}
        /\ pc' \in {"ask", "commit"} => pc \in {"status", "ask"} /\ disk' = disk /\ k' = k
    BY <1>2 DEF Crash, Status, AnswerYes, AnswerNo, CleanupStep, CleanupItem, CleanupDone, InItem,
                ExactInv
  <2>2. /\ pc' \notin AtRow \cup AtItem \cup LookupPC
        /\ pc' \in Looked \cup CommitPC => pc' \in {"ask", "commit"}
    BY <2>1 DEF AtRow, AtItem, Looked, LookupPC, CommitPC
  <2>3. \A i \in Rows : Shaped(i)'
    BY <2>1 DEF ExactInv, Shaped, Formed, FormsOf, Listed, Inner
  <2>4. ASSUME pc' \in {"ask", "commit"}
        PROVE  /\ \A j \in DOMAIN list' : Announced(j)'
               /\ \A i \in Rows : Unlisted(i)' =>
                    ~Chosen(i)' /\ disk'[Table[i].fname] = before'[Table[i].fname]
    <3>1. k = 1 /\ pc \in Looked /\ pc \notin CommitPC \cup AtItem \cup AtRow \cup LookupPC
      BY <2>1, <2>4 DEF TidyInv, BeforeCommit, Looked, CommitPC, AtItem, AtRow, LookupPC
    <3>2. \A i \in Rows : Chosen(i)' = Chosen(i) /\ CopyOf(i)' = CopyOf(i) /\ Reached(i)' = Reached(i)
      BY <2>1, WantedFixed
    <3>3. ASSUME NEW j \in DOMAIN list, NEW i \in Rows, i = list[j].row
          PROVE  /\ list[j].applied <=> Chosen(i)'
                 /\ list[j].created <=> before'[Table[i].fname] = Absent
                 /\ disk'[Table[i].fname] = IF list[j].created THEN inside'[i]
                                            ELSE before'[Table[i].fname]
                 /\ list[j].created => Reached(i)' = inside'[i]
                 /\ list[j].applied => disk'[Table[i].tname] = CopyOf(i)'
      <4>1. Announced(j)
        BY <3>1 DEF ExactInv
      <4> QED BY <2>1, <2>4, <3>1, <3>2, <3>3, <4>1 DEF Announced
    <3>4. \A j \in DOMAIN list : list[j].row \in Rows /\ ~(j < k')
      <4>1. \A j \in DOMAIN list : list[j] \in Item /\ j \in Nat /\ j >= 1
        BY DEF Base, TypeOK
      <4> QED BY <2>1, <2>4, <3>1, <4>1 DEF Item
    <3>5. \A j \in DOMAIN list' : Announced(j)'
      BY <2>1, <2>2, <3>3, <3>4 DEF Announced
    <3>6. \A i \in Rows : Unlisted(i) => ~Chosen(i) /\ disk[Table[i].fname] = before[Table[i].fname]
      BY <3>1 DEF ExactInv
    <3> QED BY <2>1, <2>4, <3>2, <3>5, <3>6 DEF Unlisted
  <2>5. CommitExact'
    BY <2>1 DEF CommitExact
  <2>6. (\A i, j \in DOMAIN list : i # j => list[i].row # list[j].row)'
        /\ (made => before[VName] # Absent)'
    BY <2>1 DEF ExactInv
  <2> QED BY <2>1, <2>2, <2>3, <2>4, <2>5, <2>6 DEF ExactInv
<1> QED BY <1>1, <1>2, ExactRestart, ExactLookup, ExactCommit DEF Next, Step

\* Whatever the table, the directory, the lookup mode and the options: a
\* commit that comes to its end has patched every file the mode reaches
\* that some patch fits, each in the container it came in, and no other.
THEOREM CommitsExactly ==
  ASSUME Exact
  PROVE  Spec => []CommitExact
<1>1. ExactInv => CommitExact
  BY DEF ExactInv
<1>2. Init => ExactInv
  BY ExactInit
<1>3. Base /\ TidyInv /\ ExactInv /\ [Next]_vars => ExactInv'
  BY ExactNext
<1>4. Spec => []TidyInv
  BY ExactTidy, TidyAlways
<1> QED BY <1>1, <1>2, <1>3, <1>4, BaseAlways, PTL DEF Spec
=============================================================================
