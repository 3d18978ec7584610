------------------------- MODULE PatchSelectedProofs -------------------------
(***************************************************************************)
(* Whatever the table of patches, the file, the selection and the faults:  *)
(* the copy patch_selected makes differs from the file only where a patch  *)
(* it reports belongs.  What a place of the copy holds is known from the   *)
(* row that wrote it; that the row is reported is known when it writes     *)
(* because the loop over the places of a row starts with the report.       *)
(* Where nothing fails, and the rows keep apart as those of ppathes do for *)
(* one file (RowsApart), the copy is what it should be: CallInv says what  *)
(* each window and block holds once some of the rows have been through it. *)
(***************************************************************************)
EXTENDS PatchSelected, TLAPS

\* Where the loops over places and objects are.
AtInv ==
  /\ pc # "idle" /\ ~copied => copy = file
  /\ pc \in {"sites", "objects"} => i \in Rows /\ R.id \in toApply
  /\ pc = "sites" => /\ R.kind = "cpatch" /\ R.id \in applied
                     /\ copied /\ at \in Sites(R)
  /\ pc = "objects" => /\ R.kind = "spatch"
                       /\ at \in DOMAIN Objects[R.id]

IInv == PatchTypeOK /\ AtInv /\ OnlyReported

\* What the table holds in each row.
LEMMA RowTypes ==
  ASSUME NEW j \in Rows
  PROVE  /\ table[j] \in PatchRow /\ table[j].id \in Ids
         /\ table[j].pairs \subseteq Values \X Values
         /\ table[j].kind \in {"cpatch", "spatch", "me"}
         /\ table[j].kind # "cpatch" => "old" \in Values /\ "new" \in Values
<1>1. table[j] \in PatchRow
  BY PatchAssumption DEF Rows
<1>2. table[j].id \in Ids /\ table[j].pairs \subseteq Values \X Values
      /\ table[j].kind \in {"cpatch", "spatch", "me"}
  BY ONLY <1>1 DEF PatchRow
<1>3. table[j].kind # "cpatch" => table[j].pairs = {<<"old", "new">>}
  BY PatchAssumption
<1>4. table[j].kind # "cpatch" => <<"old", "new">> \in Values \X Values
  BY ONLY <1>2, <1>3
<1> QED BY ONLY <1>1, <1>2, <1>4

LEMMA RowsAre == Rows = 1 .. Len(table) /\ Len(table) \in Nat
BY PatchAssumption DEF Rows

\* What WriteSite writes at a place the search found.
LEMMA NewIsLeft ==
  ASSUME NEW j \in Rows, NEW p \in Sites(table[j])
  PROVE  /\ <<file[p], New(table[j], file[p])>> \in Dir(table[j])
         /\ New(table[j], file[p]) \in Values
<1>1. p \in Windows /\ file[p] \in Sought(table[j])
  BY DEF Sites
<1>2. PICK pr \in Dir(table[j]) : pr[1] = file[p]
  BY <1>1 DEF Sought
<1>3. Dir(table[j]) \subseteq Values \X Values
  BY RowTypes DEF Dir
<1> DEFINE c == CHOOSE q \in Dir(table[j]) : q[1] = file[p]
<1>4. c \in Dir(table[j]) /\ c[1] = file[p]
  BY ONLY <1>2
<1>5. New(table[j], file[p]) = c[2]
  BY DEF New
<1> HIDE DEF c
<1>6. c \in Values \X Values
  BY ONLY <1>3, <1>4
<1>7. c = <<c[1], c[2]>> /\ c[2] \in Values
  BY ONLY <1>6
<1> QED BY ONLY <1>4, <1>5, <1>7

\* A step that leaves the copy alone keeps what is known of it.
LEMMA CopyStays ==
  ASSUME OnlyReported, UNCHANGED <<file, copy, toApply, reverse>>,
         applied \subseteq applied', failed => failed'
  PROVE  OnlyReported'
<1>1. SUFFICES ASSUME NEW p \in Place, copy'[p] # file'[p]
               PROVE  \E n \in Rows :
                        /\ Writes(table[n], p, copy[p])'
                        /\ table[n].id \in toApply'
                        /\ table[n].id \in applied' \/ (table[n].kind = "me" /\ failed')
  BY Zenon DEF OnlyReported
<1>2. PICK n \in Rows :
        /\ Writes(table[n], p, copy[p])
        /\ table[n].id \in toApply
        /\ table[n].id \in applied \/ (table[n].kind = "me" /\ failed)
  BY <1>1 DEF OnlyReported
<1>3. Writes(table[n], p, copy[p])'
  BY <1>2 DEF Writes, Dir, To
<1> QED BY <1>2, <1>3, Zenon

\* A step that writes what row j leaves, when the row is reported.
LEMMA CopyWritten ==
  ASSUME OnlyReported, UNCHANGED <<file, toApply, reverse>>,
         applied \subseteq applied', failed => failed',
         NEW j \in Rows, table[j].id \in toApply,
         table[j].id \in applied' \/ (table[j].kind = "me" /\ failed'),
         \A p \in Place : copy'[p] = copy[p] \/ Writes(table[j], p, copy'[p])
  PROVE  OnlyReported'
<1> SUFFICES ASSUME NEW p \in Place, copy'[p] # file'[p]
             PROVE  \E n \in Rows :
                      /\ Writes(table[n], p, copy[p])'
                      /\ table[n].id \in toApply'
                      /\ table[n].id \in applied' \/ (table[n].kind = "me" /\ failed')
  BY Zenon DEF OnlyReported
<1> DEFINE v == copy'[p]
<1>2. CASE Writes(table[j], p, v)
  <2>1. Writes(table[j], p, copy[p])'
    BY <1>2 DEF Writes, Dir, To
  <2> QED BY <2>1
<1>3. CASE copy'[p] = copy[p]
  <2>1. PICK n \in Rows :
          /\ Writes(table[n], p, copy[p])
          /\ table[n].id \in toApply
          /\ table[n].id \in applied \/ (table[n].kind = "me" /\ failed)
    BY <1>3 DEF OnlyReported
  <2>2. Writes(table[n], p, copy[p])'
    BY <1>3, <2>1 DEF Writes, Dir, To
  <2> QED BY <2>1, <2>2
<1> QED BY <1>2, <1>3

LEMMA InitInv == ASSUME Init PROVE IInv
<1>1. file \in File /\ copy \in File
  BY PatchAssumption DEF Init
<1>2. i \in 1 .. Len(table) + 1
  BY RowsAre DEF Init
<1>3. runs \in 0 .. MaxRuns
  BY PatchAssumption DEF Init
<1>4. last \in [toApply : SUBSET Ids, reverse : BOOLEAN]
  BY DEF Init, Nothing
<1>5. PatchTypeOK
  BY ONLY Init, <1>1, <1>2, <1>3, <1>4 DEF Init, PatchTypeOK
<1> QED BY <1>5 DEF Init, IInv, AtInv, OnlyReported

LEMMA StartInv == ASSUME IInv, Start PROVE IInv'
<1>1. toApply' \subseteq Ids
  <2>1. Selections \subseteq SUBSET Ids
    BY PatchAssumption
  <2> QED BY <2>1 DEF Start
<1>2. i' \in 1 .. Len(table) + 1
  BY RowsAre DEF Start
<1>3. runs' \in 0 .. MaxRuns
  <2>1. MaxRuns \in Nat
    BY PatchAssumption
  <2> QED BY <2>1 DEF Start, IInv, PatchTypeOK
<1>4. PatchTypeOK'
  BY ONLY IInv, Start, <1>1, <1>2, <1>3 DEF IInv, PatchTypeOK, Start
<1>5. AtInv' /\ OnlyReported'
  BY DEF Start, AtInv, OnlyReported
<1> QED BY <1>4, <1>5 DEF IInv

LEMMA EndInv == ASSUME IInv, Finish \/ Accept \/ Discard PROVE IInv'
<1>1. CASE Finish
  <2>1. OnlyReported'
    BY <1>1, CopyStays DEF Finish, call, IInv
  <2>2. PatchTypeOK' /\ AtInv'
    BY <1>1 DEF Finish, call, IInv, PatchTypeOK, AtInv
  <2> QED BY <2>1, <2>2 DEF IInv
<1>2. CASE Accept
  BY <1>2 DEF Accept, IInv, PatchTypeOK, AtInv, OnlyReported, Nothing
<1>3. CASE Discard
  BY <1>3 DEF Discard, call, IInv, PatchTypeOK, AtInv, OnlyReported
<1> QED BY <1>1, <1>2, <1>3

\* The row the loop is at.
LEMMA TheRow ==
  ASSUME NEW kind, InKind(kind)
  PROVE  i \in Rows /\ R = table[i] /\ R.id \in toApply /\ R.kind = kind /\ pc = "row"
BY DEF InKind, InRow, R, Ignored

\* The loop goes on to the next row, or stays at this one.
LEMMA RowsOn == ASSUME PatchTypeOK, i \in Rows, NextPatch
                PROVE  i' \in 1 .. Len(table) + 1 /\ at' \in Nat /\ pc' = "row"
BY RowsAre DEF NextPatch, PatchTypeOK

LEMMA SkipInv == ASSUME IInv, SkipPatch PROVE IInv'
<1>1. OnlyReported'
  BY CopyStays DEF SkipPatch, call, IInv
<1>2. i' \in 1 .. Len(table) + 1 /\ at' \in Nat /\ pc' = "row"
  BY RowsOn DEF SkipPatch, InRow, IInv
<1>3. PatchTypeOK' /\ AtInv'
  BY <1>2 DEF SkipPatch, InRow, call, IInv, PatchTypeOK, AtInv
<1> QED BY <1>1, <1>3 DEF IInv

--------------------------------------------------------------------------
(* Patches found by a sieve                                                *)

LEMMA SitesAre == Sites(R) \subseteq Place /\ Place \subseteq Nat
BY PatchAssumption DEF Sites

LEMMA FindInv == ASSUME IInv, FindCpatch PROVE IInv'
<1>1. i \in Rows /\ R = table[i] /\ R.id \in toApply /\ R.kind = "cpatch" /\ pc = "row"
  BY TheRow DEF FindCpatch
<1>2. R.id \in Ids
  BY <1>1, RowTypes
<1>3. at' \in Sites(R) /\ pc' = "sites"
  BY DEF FindCpatch, Found
<1>4. R' = R /\ Sites(R)' = Sites(R)
  BY DEF FindCpatch, call, R, Sites, Sought, Dir
<1>5. OnlyReported'
  BY CopyStays DEF FindCpatch, NoFault, call, IInv
<1>6. PatchTypeOK'
  BY <1>2, <1>3, SitesAre DEF FindCpatch, Opened, NoFault, call, IInv, PatchTypeOK
<1>7. AtInv'
  BY <1>1, <1>3, <1>4 DEF FindCpatch, Opened, call, AtInv
<1> QED BY <1>5, <1>6, <1>7 DEF IInv

LEMMA CpatchPassedInv == ASSUME IInv, CpatchRefused \/ CpatchAbsent PROVE IInv'
<1>1. i \in Rows /\ R = table[i] /\ R.id \in toApply /\ R.kind = "cpatch" /\ pc = "row"
  BY TheRow DEF CpatchRefused, CpatchAbsent
<1>2. R.id \in Ids
  BY <1>1, RowTypes
<1>3. i' \in 1 .. Len(table) + 1 /\ at' \in Nat /\ pc' = "row"
  BY <1>1, RowsOn DEF CpatchRefused, CpatchAbsent, IInv
<1>4. OnlyReported'
  BY CopyStays DEF CpatchRefused, CpatchAbsent, Refused, Fault, call, IInv
<1>5. PatchTypeOK'
  BY <1>2, <1>3 DEF CpatchRefused, CpatchAbsent, Refused, Opened, Fault, call, IInv, PatchTypeOK
<1>6. AtInv'
  BY <1>1, <1>3 DEF CpatchRefused, CpatchAbsent, Refused, Opened, call, IInv, AtInv
<1> QED BY <1>4, <1>5, <1>6 DEF IInv

\* The next place of the row, or the next row.
LEMMA SitesOn ==
  ASSUME PatchTypeOK, AtInv, pc = "sites", NextSite,
         UNCHANGED <<file, copied, toApply, reverse>>,
         applied \subseteq applied'
  PROVE  AtInv' /\ i' \in 1 .. Len(table) + 1 /\ at' \in Nat /\ pc' \in {"row", "sites"}
<1>1. i \in Rows /\ R = table[i]
  BY DEF AtInv, R
<1>2. CASE NextPatch
  BY <1>1, <1>2, RowsOn DEF AtInv
<1>3. CASE at' \in Sites(R) /\ UNCHANGED <<pc, i>>
  <2>1. R' = R /\ Sites(R)' = Sites(R)
    BY <1>3 DEF R, Sites, Sought, Dir
  <2>2. AtInv'
    BY <1>3, <2>1 DEF AtInv
  <2> QED BY <1>3, <2>2, SitesAre DEF PatchTypeOK
<1> QED BY <1>2, <1>3 DEF NextSite, Found

LEMMA WriteSiteInv == ASSUME IInv, WriteSite PROVE IInv'
<1>1. i \in Rows /\ R = table[i] /\ R.id \in toApply /\ R.kind = "cpatch" /\ R.id \in applied
      /\ at \in Sites(R)
  BY DEF WriteSite, IInv, AtInv, R
<1>2. <<file[at], New(R, file[at])>> \in Dir(R) /\ New(R, file[at]) \in Values
  BY <1>1, NewIsLeft
<1>3. at \in Windows /\ at \in Place /\ copy \in [Place -> Values]
  BY <1>1, SitesAre DEF Sites, IInv, PatchTypeOK, File
<1>4. copy' = [copy EXCEPT ![at] = New(R, file[at])] /\ UNCHANGED <<file, toApply, reverse, applied, failed>>
  BY DEF WriteSite, call
<1>5. copy' \in File /\ \A p \in Place : copy'[p] = copy[p] \/ (p = at /\ copy'[p] = New(R, file[at]))
  BY ONLY <1>2, <1>3, <1>4 DEF File
<1>6. \A p \in Place : copy'[p] = copy[p] \/ Writes(table[i], p, copy'[p])
  BY <1>1, <1>2, <1>3, <1>5 DEF Writes
<1>7. OnlyReported'
  BY <1>1, <1>4, <1>6, CopyWritten DEF IInv
<1>8. AtInv' /\ i' \in 1 .. Len(table) + 1 /\ at' \in Nat /\ pc' \in {"row", "sites"}
  <2>1. copied
    BY DEF WriteSite, IInv, AtInv
  <2> QED BY <2>1, SitesOn DEF WriteSite, call, IInv
<1>9. PatchTypeOK'
  BY <1>5, <1>8 DEF WriteSite, call, IInv, PatchTypeOK
<1> QED BY <1>7, <1>8, <1>9 DEF IInv

LEMMA ReadSiteInv == ASSUME IInv, ReadSiteFails PROVE IInv'
<1>1. OnlyReported'
  BY CopyStays DEF ReadSiteFails, Fault, call, IInv
<1>2. AtInv' /\ i' \in 1 .. Len(table) + 1 /\ at' \in Nat /\ pc' \in {"row", "sites"}
  BY SitesOn DEF ReadSiteFails, call, IInv
<1>3. PatchTypeOK'
  BY <1>2 DEF ReadSiteFails, Fault, call, IInv, PatchTypeOK
<1> QED BY <1>1, <1>2, <1>3 DEF IInv

--------------------------------------------------------------------------
(* The patch of Windows Me                                                 *)

\* What a row that is no cpatch writes is a value of the file.
LEMMA ToIsValue ==
  ASSUME i \in Rows, R.kind # "cpatch", copy \in File, NEW S,
         copy' = [p \in Place |-> IF p \in S THEN To ELSE copy[p]]
  PROVE  /\ copy' \in File
         /\ \A p \in Place : copy'[p] = copy[p] \/ (p \in S /\ copy'[p] = To)
<1>1. To \in Values
  BY RowTypes DEF R, To
<1> QED BY ONLY <1>1, copy \in File, copy' = [p \in Place |-> IF p \in S THEN To ELSE copy[p]]
        DEF File

LEMMA MeInv == ASSUME IInv, PatchMe \/ ReadMeFails PROVE IInv'
<1>1. i \in Rows /\ R = table[i] /\ R.id \in toApply /\ R.kind = "me" /\ pc = "row"
  BY TheRow DEF PatchMe, ReadMeFails
<1>2. R.id \in Ids
  BY <1>1, RowTypes
<1>3. i' \in 1 .. Len(table) + 1 /\ at' \in Nat /\ pc' = "row"
  BY <1>1, RowsOn DEF PatchMe, ReadMeFails, IInv
<1>4. copy \in File
  BY DEF IInv, PatchTypeOK
<1>5. PICK S \in SUBSET {MeA, MeB} :
        copy' = [p \in Place |-> IF p \in S THEN To ELSE copy[p]]
  <2>1. CASE PatchMe
    <3>1. copy' = [p \in Place |-> IF p \in {MeA, MeB} THEN To ELSE copy[p]]
      BY <2>1, <1>4 DEF PatchMe, File
    <3> QED BY <3>1
  <2>2. CASE ReadMeFails
    BY <2>2 DEF ReadMeFails
  <2> QED BY <2>1, <2>2
<1>6. /\ copy' \in File
      /\ \A p \in Place : copy'[p] = copy[p] \/ (p \in S /\ copy'[p] = To)
  BY <1>1, <1>4, <1>5, ToIsValue
<1>7. \A p \in Place : copy'[p] = copy[p] \/ Writes(table[i], p, copy'[p])
  BY <1>1, <1>6 DEF Writes
<1>8. /\ UNCHANGED <<file, toApply, reverse>> /\ applied \subseteq applied'
      /\ (failed => failed') /\ (R.id \in applied' \/ failed')
  BY DEF PatchMe, ReadMeFails, NoFault, Fault, call
<1>9. OnlyReported'
  <2>1. table[i].id \in toApply /\ (table[i].id \in applied' \/ (table[i].kind = "me" /\ failed'))
    BY ONLY <1>1, <1>8
  <2>2. OnlyReported
    BY DEF IInv
  <2> QED BY ONLY <1>1, <1>7, <1>8, <2>1, <2>2, CopyWritten
<1>10. PatchTypeOK'
  BY <1>2, <1>3, <1>6 DEF PatchMe, ReadMeFails, NoFault, Fault, Opened, call, IInv, PatchTypeOK
<1>11. AtInv'
  BY <1>3 DEF PatchMe, ReadMeFails, Opened, AtInv
<1> QED BY <1>9, <1>10, <1>11 DEF IInv

LEMMA MePassedInv == ASSUME IInv, MeRefused \/ MeAbsent PROVE IInv'
<1>1. i \in Rows /\ R = table[i] /\ R.id \in toApply /\ R.kind = "me" /\ pc = "row"
  BY TheRow DEF MeRefused, MeAbsent
<1>2. R.id \in Ids
  BY <1>1, RowTypes
<1>3. i' \in 1 .. Len(table) + 1 /\ at' \in Nat /\ pc' = "row"
  BY <1>1, RowsOn DEF MeRefused, MeAbsent, IInv
<1>4. OnlyReported'
  BY CopyStays DEF MeRefused, MeAbsent, Refused, Fault, call, IInv
<1>5. PatchTypeOK'
  BY <1>2, <1>3 DEF MeRefused, MeAbsent, Refused, Opened, Fault, call, IInv, PatchTypeOK
<1>6. AtInv'
  BY <1>1, <1>3 DEF MeRefused, MeAbsent, Refused, Opened, call, IInv, AtInv
<1> QED BY <1>4, <1>5, <1>6 DEF IInv

--------------------------------------------------------------------------
(* Patches of blocks at fixed offsets                                      *)

\* The loop over the objects: where it starts and where it goes on.
LEMMA ObjectsAre ==
  ASSUME NEW id \in Ids
  PROVE  /\ Len(Objects[id]) \in Nat /\ DOMAIN Objects[id] = 1 .. Len(Objects[id])
         /\ Objects[id] # << >> => 1 \in DOMAIN Objects[id]
<1>1. Objects[id] \in Seq(SUBSET Place)
  BY PatchAssumption
<1> QED BY ONLY <1>1

LEMMA BeginObjectsInv == ASSUME IInv, BeginObjects PROVE IInv'
<1>1. i \in Rows /\ R = table[i] /\ R.id \in toApply /\ R.kind = "spatch" /\ pc = "row"
  BY TheRow DEF BeginObjects
<1>2. R.id \in Ids
  BY <1>1, RowTypes
<1>3. OnlyReported'
  BY CopyStays DEF BeginObjects, call, IInv
<1>4. CASE NextPatch /\ status' = "ok"
  <2>1. i' \in 1 .. Len(table) + 1 /\ at' \in Nat /\ pc' = "row"
    BY <1>1, <1>4, RowsOn DEF IInv
  <2>2. PatchTypeOK' /\ AtInv'
    BY <1>1, <1>4, <2>1 DEF BeginObjects, call, IInv, PatchTypeOK, AtInv
  <2> QED BY <1>3, <2>2 DEF IInv
<1>5. CASE /\ Objects[R.id] # << >> /\ at' = 1 /\ pc' = "objects"
           /\ UNCHANGED <<i, status>>
  <2>1. R' = R /\ at' \in DOMAIN Objects[R.id]
    BY <1>2, <1>5, ObjectsAre DEF R
  <2>2. PatchTypeOK'
    BY <1>5 DEF BeginObjects, call, IInv, PatchTypeOK
  <2>3. AtInv'
    BY <1>1, <1>5, <2>1 DEF BeginObjects, call, IInv, AtInv
  <2> QED BY <1>3, <2>2, <2>3 DEF IInv
<1> QED BY <1>4, <1>5 DEF BeginObjects

\* The next object of the row, or the next row.
LEMMA ObjectsOn ==
  ASSUME PatchTypeOK, AtInv, pc = "objects", NextObject,
         UNCHANGED <<file, toApply>>, copied' \/ UNCHANGED <<copied, copy>>
  PROVE  AtInv' /\ i' \in 1 .. Len(table) + 1 /\ at' \in Nat /\ pc' \in {"row", "objects"}
<1>1. i \in Rows /\ R = table[i] /\ R.kind = "spatch" /\ at \in DOMAIN Objects[R.id]
      /\ R.id \in toApply
  BY DEF AtInv, R
<1>2. R.id \in Ids
  BY <1>1, RowTypes
<1>3. CASE NextPatch
  BY <1>1, <1>3, RowsOn DEF AtInv
<1>4. CASE at < Len(Objects[R.id]) /\ at' = at + 1 /\ UNCHANGED <<pc, i>>
  <2>1. R' = R
    BY <1>4 DEF R
  <2>2. at' \in DOMAIN Objects[R.id] /\ at' \in Nat
    BY <1>1, <1>2, <1>4, ObjectsAre
  <2>3. AtInv'
    BY <1>1, <1>4, <2>1, <2>2 DEF AtInv
  <2> QED BY <1>4, <2>2, <2>3 DEF PatchTypeOK
<1> QED BY <1>3, <1>4 DEF NextObject

LEMMA PatchObjectInv == ASSUME IInv, PatchObject PROVE IInv'
<1>1. i \in Rows /\ R = table[i] /\ R.id \in toApply /\ R.kind = "spatch"
      /\ at \in DOMAIN Objects[R.id]
  BY DEF PatchObject, IInv, AtInv, R
<1>2. R.id \in Ids
  BY <1>1, RowTypes
<1>3. copy \in File
  BY DEF IInv, PatchTypeOK
<1>4. copy' = [p \in Place |-> IF p \in Object THEN To ELSE copy[p]]
  BY DEF PatchObject
<1>5. /\ copy' \in File
      /\ \A p \in Place : copy'[p] = copy[p] \/ (p \in Object /\ copy'[p] = To)
  BY <1>1, <1>3, <1>4, ToIsValue
<1>6. \A p \in Place : copy'[p] = copy[p] \/ Writes(table[i], p, copy'[p])
  BY <1>1, <1>5 DEF Writes, Object
<1>7. OnlyReported'
  BY <1>1, <1>6, CopyWritten DEF PatchObject, call, IInv
<1>8. AtInv' /\ i' \in 1 .. Len(table) + 1 /\ at' \in Nat /\ pc' \in {"row", "objects"}
  BY ObjectsOn DEF PatchObject, Opened, call, IInv
<1>9. PatchTypeOK'
  BY <1>2, <1>5, <1>8 DEF PatchObject, Opened, call, IInv, PatchTypeOK
<1> QED BY <1>7, <1>8, <1>9 DEF IInv

LEMMA ObjectPassedInv ==
  ASSUME IInv, ObjectRefused \/ LeaveObject \/ ReadObjectFails PROVE IInv'
<1>1. i \in Rows /\ R = table[i]
  BY DEF ObjectRefused, LeaveObject, ReadObjectFails, IInv, AtInv, R
<1>2. R.id \in Ids
  BY <1>1, RowTypes
<1>3. OnlyReported'
  BY CopyStays DEF ObjectRefused, LeaveObject, ReadObjectFails, Fault, call, IInv
<1>4. AtInv' /\ i' \in 1 .. Len(table) + 1 /\ at' \in Nat /\ pc' \in {"row", "objects"}
  BY ObjectsOn DEF ObjectRefused, LeaveObject, ReadObjectFails, call, IInv
<1>5. PatchTypeOK'
  BY <1>2, <1>4
     DEF ObjectRefused, LeaveObject, ReadObjectFails, Fault, call, IInv, PatchTypeOK
<1> QED BY <1>3, <1>4, <1>5 DEF IInv

--------------------------------------------------------------------------
(* The theorems                                                            *)

LEMMA NextInv == ASSUME IInv, [Next]_vars PROVE IInv'
<1>1. CASE Next
  BY <1>1, StartInv, EndInv, SkipInv, FindInv, CpatchPassedInv, WriteSiteInv, ReadSiteInv,
     MeInv, MePassedInv, BeginObjectsInv, PatchObjectInv, ObjectPassedInv
     DEF Next, CpatchStep, MeStep, SpatchStep
<1>2. CASE UNCHANGED vars
  <2>1. OnlyReported'
    BY <1>2, CopyStays DEF vars, call, IInv
  <2>2. PatchTypeOK'
    BY <1>2 DEF vars, call, IInv, PatchTypeOK
  <2>3. R' = R /\ Sites(R)' = Sites(R)
    BY <1>2 DEF vars, call, R, Sites, Sought, Dir
  <2>4. AtInv'
    BY <1>2, <2>3 DEF vars, call, IInv, AtInv
  <2> QED BY <2>1, <2>2, <2>4 DEF IInv
<1> QED BY <1>1, <1>2

LEMMA IInvHolds == PatchSpec => []IInv
<1>1. Init => IInv
  BY InitInv
<1>2. IInv /\ [Next]_vars => IInv'
  BY NextInv
<1> QED BY <1>1, <1>2, PTL DEF PatchSpec

\* The loop over the table, the places and the objects never leaves the
\* table, and the sets of ids it keeps are ids of the table, for every
\* table, file, selection and fault.
THEOREM PatchTyped == PatchSpec => []PatchTypeOK
BY IInvHolds, PTL DEF IInv

\* For every table, file, selection and fault, and however often the
\* program is called on what it made: the copy differs from the file only
\* where a selected patch that is reported as applied belongs.
THEOREM CopyIsReported == PatchSpec => []OnlyReported
BY IInvHolds, PTL DEF IInv

--------------------------------------------------------------------------
(* What a call that nothing fails in has made of each place                *)

\* Rows -reverse or the selection does not leave out.
Active(n) == table[n].id \in toApply /\ ~(reverse /\ IsUpgrade(n))

Finds(n, p) == n \in Cpatches /\ Active(n) /\ file[p] \in Sought(table[n])

\* The rows whose search has been at p and found it.
Behind(n, p) == n < i \/ (n = i /\ pc = "sites" /\ p < at)
Through(p) == {n \in Cpatches : Finds(n, p) /\ Behind(n, p)}

\* A window holds what one of these rows wrote; that of a simple version only
\* where there is no other.
WindowInv ==
  \A p \in Windows :
    IF Through(p) = {} THEN copy[p] = file[p]
    ELSE \E n \in Through(p) :
           /\ copy[p] = New(table[n], file[p])
           /\ IsSimple(n) /\ ~reverse => \A j \in Through(p) : IsSimple(j)

Fits(n) ==
  \/ \E p \in Windows : Finds(n, p)
  \/ table[n].kind = "me" /\ table[n].id \in toApply /\ MeFits
  \/ /\ table[n].kind = "spatch" /\ table[n].id \in toApply
     /\ \E B \in BlocksOf(table[n]) : Applies(B)

\* What is reported fits; an updated patch that fits is reported before a
\* simple version is thought of.
ReportInv ==
  /\ \A id \in applied : \E n \in Rows :
       table[n].id = id /\ Fits(n) /\ (n < i \/ (n = i /\ pc \in {"sites", "objects"}))
  /\ \A n \in Cpatches : /\ table[n].id \in Updated
                         /\ \E p \in Windows : Finds(n, p)
                         /\ n < i \/ (n = i /\ pc = "sites")
                         => table[n].id \in applied
  /\ pc = "sites" => Active(i) /\ (IsSimple(i) => applied \cap Updated = {})

Passed(B) ==
  \E n \in Rows : /\ table[n].kind = "spatch" /\ table[n].id \in toApply
                  /\ \E k \in DOMAIN Objects[table[n].id] :
                       /\ Objects[table[n].id][k] = B
                       /\ n < i \/ (n = i /\ pc = "objects" /\ k < at)

BlockInv ==
  \A B \in Blocks :
    IF Passed(B) /\ Applies(B) THEN \A p \in B : copy[p] = To
    ELSE \A p \in B : copy[p] = file[p]

PassedMe == \E n \in Rows : table[n].kind = "me" /\ table[n].id \in toApply /\ n < i

MeTurned == IF PassedMe /\ MeFits THEN copy[MeA] = To /\ copy[MeB] = To
         ELSE copy[MeA] = file[MeA] /\ copy[MeB] = file[MeB]

\* The one window of the TLB patches stays that.
ClassInv ==
  /\ \A p \in Windows : copy[p] \in TlbValues => file[p] \in TlbValues
  /\ \A p, q \in Windows : {file[p], file[q]} \subseteq TlbValues => p = q

\* Nothing in f fits a call with the selection S.
Settled(f, S, rev) ==
  /\ \A n \in Cpatches : table[n].id \in S /\ ~(rev /\ IsUpgrade(n))
       => \A p \in Windows : f[p] \notin (IF rev THEN NewOf(n) ELSE OldOf(n))
  /\ \A n \in Rows : table[n].id \in S =>
       /\ table[n].kind = "me" =>
            ~({f[MeA], f[MeB]} = {IF rev THEN "new" ELSE "old"})
       /\ table[n].kind = "spatch" => \A B \in BlocksOf(table[n]) :
            (\A p \in B : f[p] \in {"old", "new"}) => ((\E p \in B : f[p] = "new") # rev)

CallInv ==
  /\ ClassInv
  /\ pc # "idle" => toApply \in Selections
  /\ pc = "done" => i \notin Rows
  /\ pc # "idle" /\ ~failed => WindowInv /\ ReportInv /\ BlockInv /\ MeTurned
  /\ Settled(file, last.toApply, last.reverse)


\* What a row looks for and leaves, in the direction of the call.
LEMMA Sides ==
  ASSUME NEW n \in Rows
  PROVE  /\ Sought(table[n]) = IF reverse THEN NewOf(n) ELSE OldOf(n)
         /\ Left(table[n]) = IF reverse THEN OldOf(n) ELSE NewOf(n)
<1>1. CASE reverse
  <2>1. Dir(table[n]) = {<<pr[2], pr[1]>> : pr \in table[n].pairs}
    BY <1>1 DEF Dir
  <2>2. ASSUME NEW pr \in table[n].pairs
        PROVE  \E q \in Dir(table[n]) : q[1] = pr[2] /\ q[2] = pr[1]
    <3>1. <<pr[2], pr[1]>> \in Dir(table[n])
      BY <2>1
    <3> QED BY <3>1
  <2>3. ASSUME NEW q \in Dir(table[n])
        PROVE  \E pr \in table[n].pairs : q[1] = pr[2] /\ q[2] = pr[1]
    BY <2>1
  <2>4. Sought(table[n]) = NewOf(n)
    BY <2>2, <2>3 DEF Sought, NewOf
  <2>5. Left(table[n]) = OldOf(n)
    BY <2>2, <2>3 DEF Left, OldOf
  <2> QED BY <1>1, <2>4, <2>5
<1>2. CASE ~reverse
  BY <1>2 DEF Sought, Left, Dir, NewOf, OldOf
<1> QED BY <1>1, <1>2

\* What a row writes where it finds v is the other half of a pair of it.
LEMMA Written ==
  ASSUME NEW n \in Rows, NEW v \in Sought(table[n])
  PROVE  /\ New(table[n], v) \in Left(table[n])
         /\ ~reverse => \E pr \in table[n].pairs : pr[1] = v /\ pr[2] = New(table[n], v)
<1>1. PICK pr \in Dir(table[n]) : pr[1] = v
  BY DEF Sought
<1> DEFINE c == CHOOSE q \in Dir(table[n]) : q[1] = v
<1>2. c \in Dir(table[n]) /\ c[1] = v
  BY ONLY <1>1
<1>3. New(table[n], v) = c[2]
  BY DEF New
<1> HIDE DEF c
<1> QED BY <1>2, <1>3 DEF Left, Dir

\* No row finds a window of the TLB patches but theirs, and what they write
\* is found by theirs alone.
LEMMA SameClass ==
  ASSUME RowsApart, NEW n \in Cpatches, NEW v \in Sought(table[n])
  PROVE  /\ v \in TlbValues <=> n \in Tlb
         /\ New(table[n], v) \in TlbValues <=> n \in Tlb
<1>1. n \in Rows
  BY DEF Cpatches
<1>2. v \in OldOf(n) \cup NewOf(n) /\ New(table[n], v) \in OldOf(n) \cup NewOf(n)
  BY <1>1, Sides, Written
<1>3. n \in Tlb => OldOf(n) \cup NewOf(n) \subseteq TlbValues
  BY DEF TlbValues
<1>4. n \notin Tlb => (OldOf(n) \cup NewOf(n)) \cap TlbValues = {}
  BY DEF RowsApart, OneTlb
<1> QED BY <1>2, <1>3, <1>4

\* While a call goes on, what a row finds does not change.
LEMMA SameCall ==
  ASSUME UNCHANGED <<file, toApply, reverse>>
  PROVE  /\ \A n : Active(n)' = Active(n) /\ Fits(n)' = Fits(n) /\ Sought(table[n])' = Sought(table[n])
         /\ \A n, p : Finds(n, p)' = Finds(n, p)
         /\ \A n, v : New(table[n], v)' = New(table[n], v)
         /\ \A B : Applies(B)' = Applies(B)
         /\ MeFits' = MeFits /\ To' = To /\ From' = From
<1>1. /\ \A n : Active(n)' = Active(n) /\ Sought(table[n])' = Sought(table[n])
      /\ \A n, v : New(table[n], v)' = New(table[n], v)
      /\ \A B : Applies(B)' = Applies(B)
      /\ MeFits' = MeFits /\ To' = To /\ From' = From
  BY DEF Active, Sought, Dir, New, Applies, Valid, There, MeFits, From, To
<1>2. \A n, p : Finds(n, p)' = Finds(n, p)
  BY <1>1 DEF Finds
<1>3. \A n : Fits(n)' = Fits(n)
  BY <1>1, <1>2 DEF Fits
<1> QED BY <1>1, <1>2, <1>3

--------------------------------------------------------------------------
(* Steps that leave the windows, the blocks or the report alone            *)

LEMMA WindowsStay ==
  ASSUME UNCHANGED <<file, toApply, reverse>>, WindowInv,
         \A p \in Windows : copy'[p] = copy[p],
         \A p \in Windows : \A n \in Cpatches : Finds(n, p) => (Behind(n, p)' <=> Behind(n, p))
  PROVE  WindowInv'
<1>1. ASSUME NEW p \in Windows PROVE Through(p)' = Through(p)
  BY SameCall DEF Through
<1> QED BY <1>1, SameCall DEF WindowInv

LEMMA BlocksStay ==
  ASSUME UNCHANGED <<file, toApply, reverse>>, BlockInv,
         \A B \in Blocks : \A p \in B : copy'[p] = copy[p],
         \A B \in Blocks : Applies(B) => (Passed(B)' <=> Passed(B))
  PROVE  BlockInv'
BY SameCall DEF BlockInv

LEMMA MeStays ==
  ASSUME UNCHANGED <<file, toApply, reverse>>, MeTurned,
         copy'[MeA] = copy[MeA], copy'[MeB] = copy[MeB], MeFits => (PassedMe' <=> PassedMe)
  PROVE  MeTurned'
BY SameCall DEF MeTurned

\* What is reported stays reported as the loop goes on, what is added fits,
\* and an updated patch the loop leaves has been reported.
LEMMA ReportStays ==
  ASSUME UNCHANGED <<file, toApply, reverse>>, ReportInv,
         applied' \in {applied, applied \cup {table[i].id}},
         i \in Rows, applied' # applied => Fits(i) /\ (i < i' \/ (i = i' /\ pc' = "objects")),
         \A n \in Rows : n < i \/ (n = i /\ pc \in {"sites", "objects"})
           => n < i' \/ (n = i' /\ pc' \in {"sites", "objects"}),
         \A n \in Cpatches :
           /\ table[n].id \in Updated /\ \E p \in Windows : Finds(n, p)
           /\ n < i' \/ (n = i' /\ pc' = "sites")
           => n < i \/ (n = i /\ pc = "sites"),
         pc' = "sites" => pc = "sites" /\ i' = i /\ applied' = applied
  PROVE  ReportInv'
<1>1. ASSUME NEW id \in applied'
      PROVE  \E n \in Rows :
               table[n].id = id /\ Fits(n)' /\ (n < i' \/ (n = i' /\ pc' \in {"sites", "objects"}))
  <2>1. CASE id \in applied
    <3>1. PICK n \in Rows :
            table[n].id = id /\ Fits(n) /\ (n < i \/ (n = i /\ pc \in {"sites", "objects"}))
      BY <2>1 DEF ReportInv
    <3>2. Fits(n)'
      BY <3>1, SameCall
    <3> QED BY <3>1, <3>2
  <2>2. CASE id \notin applied
    <3>1. PICK r \in Rows : r = i
      OBVIOUS
    <3>2. id = table[r].id /\ applied' # applied
      BY <2>2, <3>1
    <3>3. Fits(r)'
      BY <3>1, <3>2, SameCall
    <3> QED BY <3>1, <3>2, <3>3
  <2> QED BY <2>1, <2>2
<1>2. ASSUME NEW n \in Cpatches, table[n].id \in Updated,
             \E p \in Windows : Finds(n, p)', n < i' \/ (n = i' /\ pc' = "sites")
      PROVE  table[n].id \in applied'
  <2>1. \E p \in Windows : Finds(n, p)
    BY <1>2, SameCall
  <2> QED BY <1>2, <2>1 DEF ReportInv
<1>3. pc' = "sites" => Active(i)' /\ (IsSimple(i) => applied \cap Updated = {})'
  BY SameCall DEF ReportInv, IsSimple
<1> QED BY <1>1, <1>2, <1>3 DEF ReportInv

--------------------------------------------------------------------------
(* The invariant of a call, one kind of step after another                 *)

Good == WindowInv /\ ReportInv /\ BlockInv /\ MeTurned

\* The next row: what the row just left would have found decides.
LEMMA RowOn ==
  ASSUME i \in Rows, NextPatch, pc \in {"row", "objects"}
  PROVE  /\ \A n \in Rows : n < i' <=> n < i \/ n = i
         /\ \A n \in Rows : \A p : Behind(n, p)' <=> Behind(n, p) \/ n = i
         /\ \A n \in Rows : n < i' \/ (n = i' /\ pc' = "sites") <=> n < i \/ n = i
         /\ pc' = "row"
<1>1. i \in Nat /\ i' = i + 1 /\ pc' = "row" /\ \A n \in Rows : n \in Nat
  BY RowsAre DEF NextPatch
<1> QED BY <1>1 DEF Behind

LEMMA RowOnReport ==
  ASSUME i \in Rows, NextPatch, pc \in {"row", "objects"}, ReportInv,
         UNCHANGED <<file, toApply, reverse>>,
         applied' \in {applied, applied \cup {table[i].id}}, applied' # applied => Fits(i),
         i \in Cpatches /\ table[i].id \in Updated => \A p \in Windows : ~Finds(i, p)
  PROVE  ReportInv'
<1>1. \A n \in Rows : n < i' <=> n < i \/ n = i
  BY RowOn
<1>2. \A n \in Cpatches : n \in Rows
  BY DEF Cpatches
<1>3. pc' = "row"
  BY RowOn
<1>4. \A n \in Rows : n < i \/ (n = i /\ pc \in {"sites", "objects"})
           => n < i' \/ (n = i' /\ pc' \in {"sites", "objects"})
  BY <1>1
<1>5. \A n \in Cpatches :
           /\ table[n].id \in Updated /\ \E p \in Windows : Finds(n, p)
           /\ n < i' \/ (n = i' /\ pc' = "sites")
           => n < i \/ (n = i /\ pc = "sites")
  BY <1>1, <1>2, <1>3
<1> QED BY <1>1, <1>3, <1>4, <1>5, ReportStays

\* The rows of the TLB patches have a window each; a row without one can only
\* have passed blocks, or the windows of Windows Me.
LEMMA RowOnBlocks ==
  ASSUME i \in Rows, NextPatch, pc = "row", BlockInv, MeTurned,
         UNCHANGED <<file, toApply, reverse, copy>>,
         table[i].id \in toApply => i \in Cpatches
  PROVE  BlockInv' /\ MeTurned'
<1>1. \A n \in Rows : n < i' <=> n < i \/ n = i
  BY RowOn
<1>2. pc' = "row"
  BY RowOn
<1>3. table[i].id \in toApply => table[i].kind \notin {"me", "spatch"}
  BY DEF Cpatches
<1>4. PassedMe' <=> PassedMe
  BY <1>1, <1>3 DEF PassedMe
<1>5. \A B : Passed(B)' <=> Passed(B)
  BY <1>1, <1>2, <1>3 DEF Passed
<1> QED BY <1>4, <1>5, MeStays, BlocksStay

\* A simple version is passed over only where another row has been.
LEMMA SkipGood ==
  ASSUME RowsApart, IInv, ClassInv, Good, SkipPatch
  PROVE  Good'
<1>1. i \in Rows /\ R = table[i] /\ pc = "row" /\ NextPatch /\ Ignored(table[i])
  BY DEF SkipPatch, InRow, R
<1>2. UNCHANGED <<file, toApply, reverse, copy, applied>>
  BY DEF SkipPatch, call
<1>3. Tlb \subseteq Cpatches
  BY DEF RowsApart, OneTlb
<1>4. table[i].id \in toApply => i \in Cpatches
  BY <1>1, <1>3 DEF Ignored, Tlb
<1>5. BlockInv' /\ MeTurned'
  BY <1>1, <1>2, <1>4, RowOnBlocks DEF Good
<1>6. ASSUME NEW p \in Windows, Finds(i, p)
      PROVE  IsSimple(i) /\ \E n \in Through(p) : ~IsSimple(n)
  <2>1. i \in Cpatches /\ Active(i) /\ file[p] \in Sought(table[i])
    BY <1>6 DEF Finds
  <2>2. IsSimple(i) /\ applied \cap Updated # {}
    BY <1>1, <2>1 DEF Ignored, Active, IsUpgrade, IsSimple
  <2>3. PICK id \in applied \cap Updated : TRUE
    BY <2>2
  <2>4. PICK n \in Rows :
          table[n].id = id /\ Fits(n) /\ (n < i \/ (n = i /\ pc \in {"sites", "objects"}))
    BY <2>3 DEF Good, ReportInv
  <2>5. n < i /\ n \in Tlb /\ i \in Tlb /\ ~IsSimple(n)
    BY <1>1, <2>2, <2>3, <2>4 DEF Tlb, IsSimple, Updated, Simple
  <2>6. table[n].kind = "cpatch"
    BY <1>3, <2>5 DEF Cpatches
  <2>7. PICK q \in Windows : Finds(n, q)
    BY <2>4, <2>6 DEF Fits
  <2>8. file[q] \in TlbValues /\ file[p] \in TlbValues
    <3>1. n \in Cpatches /\ file[q] \in Sought(table[n])
      BY <2>7 DEF Finds
    <3> QED BY <2>1, <2>5, <3>1, SameClass
  <2>9. q = p
    BY <2>8 DEF ClassInv
  <2>10. n \in Through(p)
    BY <2>5, <2>7, <2>9 DEF Through, Finds, Behind
  <2> QED BY <2>2, <2>5, <2>10
<1>7. ReportInv'
  <2>1. i \in Cpatches /\ table[i].id \in Updated => \A p \in Windows : ~Finds(i, p)
    BY <1>6 DEF IsSimple, Updated, Simple
  <2> QED BY <1>1, <1>2, <2>1, RowOnReport DEF Good
<1>8. WindowInv'
  <2> SUFFICES ASSUME NEW p \in Windows
               PROVE  (IF Through(p) = {} THEN copy[p] = file[p]
                       ELSE \E n \in Through(p) :
                         /\ copy[p] = New(table[n], file[p])
                         /\ IsSimple(n) /\ ~reverse => \A j \in Through(p) : IsSimple(j))'
    BY DEF WindowInv
  <2>1. \A n \in Rows : Behind(n, p)' <=> Behind(n, p) \/ n = i
    BY <1>1, RowOn
  <2>2. Cpatches \subseteq Rows
    BY DEF Cpatches
  <2>3. CASE ~Finds(i, p)
    <3>1. Through(p)' = Through(p)
      BY <1>2, <2>1, <2>2, <2>3, SameCall DEF Through
    <3>2. IF Through(p) = {} THEN copy[p] = file[p]
          ELSE \E n \in Through(p) :
                 /\ copy[p] = New(table[n], file[p])
                 /\ IsSimple(n) /\ ~reverse => \A j \in Through(p) : IsSimple(j)
      BY DEF Good, WindowInv
    <3> QED BY <1>2, <3>1, <3>2, SameCall
  <2>4. CASE Finds(i, p)
    <3>1. i \in Cpatches
      BY <2>4 DEF Finds
    <3>2. Through(p)' = Through(p) \cup {i}
      <4>1. \A n : Finds(n, p)' <=> Finds(n, p)
        BY <1>2, SameCall
      <4> QED BY <2>1, <2>2, <2>4, <3>1, <4>1 DEF Through
    <3>3. PICK n \in Through(p) :
            /\ copy[p] = New(table[n], file[p])
            /\ IsSimple(n) /\ ~reverse => \A j \in Through(p) : IsSimple(j)
      BY <1>6, <2>4 DEF Good, WindowInv
    <3>4. ~(IsSimple(n) /\ ~reverse)
      BY <1>6, <2>4, <3>3
    <3>5. copy'[p] = New(table[n], file[p])' /\ reverse' = reverse
      BY <1>2, <3>3, SameCall
    <3> QED BY <3>2, <3>3, <3>4, <3>5 DEF IsSimple
  <2> QED BY <2>3, <2>4
<1> QED BY <1>5, <1>7, <1>8 DEF Good
LEMMA AbsentGood ==
  ASSUME IInv, Good, CpatchAbsent
  PROVE  Good'
<1>1. i \in Rows /\ R = table[i] /\ R.kind = "cpatch" /\ pc = "row"
  BY TheRow DEF CpatchAbsent
<1>2. UNCHANGED <<file, toApply, reverse, copy, applied>> /\ NextPatch /\ Sites(R) = {}
  BY DEF CpatchAbsent, call
<1>3. \A p \in Windows : ~Finds(i, p)
  BY <1>1, <1>2 DEF Finds, Sites
<1>4. i \in Cpatches
  BY <1>1 DEF Cpatches
<1>5. ReportInv'
  BY <1>1, <1>2, <1>3, RowOnReport DEF Good
<1>6. BlockInv' /\ MeTurned'
  BY <1>1, <1>2, <1>4, RowOnBlocks DEF Good
<1>7. WindowInv'
  <2>1. \A n \in Rows : \A p : Behind(n, p)' <=> Behind(n, p) \/ n = i
    BY <1>1, <1>2, RowOn
  <2>2. Cpatches \subseteq Rows
    BY DEF Cpatches
  <2>3. \A p \in Windows : \A n \in Cpatches : Finds(n, p) => (Behind(n, p)' <=> Behind(n, p))
    BY <1>3, <2>1, <2>2
  <2> QED BY <1>2, <2>3, WindowsStay DEF Good
<1> QED BY <1>5, <1>6, <1>7 DEF Good

\* The search stops at the first place, before which there is nothing.
LEMMA FindGood ==
  ASSUME IInv, Good, FindCpatch
  PROVE  Good'
<1>1. i \in Rows /\ R = table[i] /\ R.kind = "cpatch" /\ pc = "row" /\ ~Ignored(R)
  BY TheRow DEF FindCpatch, InKind
<1>2. UNCHANGED <<file, toApply, reverse, copy, i>> /\ pc' = "sites"
      /\ applied' = applied \cup {table[i].id}
  BY <1>1 DEF FindCpatch, call
<1>3. at' \in Sites(R) /\ \A q \in Sites(R) : at' <= q
  BY DEF FindCpatch, Found
<1>4. i \in Cpatches
  BY <1>1 DEF Cpatches
<1>5. Active(i)
  BY <1>1 DEF Active, Ignored, IsUpgrade
<1>6. \A p \in Windows : Finds(i, p) <=> p \in Sites(R)
  BY <1>1, <1>4, <1>5 DEF Finds, Sites
<1>7. WindowInv'
  <2>1. ASSUME NEW p \in Windows, NEW n \in Cpatches, Finds(n, p)
        PROVE  Behind(n, p)' <=> Behind(n, p)
    <3>1. CASE n = i
      <4>1. p \in Nat /\ at' \in Nat /\ at' <= p
        BY <1>3, <1>6, <2>1, <3>1, SitesAre
      <4>2. i \in Nat
        BY <1>1, RowsAre
      <4> QED BY <1>1, <1>2, <3>1, <4>1, <4>2 DEF Behind
    <3>2. CASE n # i
      BY <1>1, <1>2, <3>2 DEF Behind
    <3> QED BY <3>1, <3>2
  <2> QED BY <1>2, <2>1, WindowsStay DEF Good
<1>8. BlockInv' /\ MeTurned'
  <2>1. PassedMe' <=> PassedMe
    BY <1>2 DEF PassedMe
  <2>2. \A B : Passed(B)' <=> Passed(B)
    BY <1>1, <1>2 DEF Passed
  <2> QED BY <1>2, <2>1, <2>2, MeStays, BlocksStay DEF Good
<1>9. ReportInv'
  <2>1. \A n : Fits(n)' = Fits(n) /\ Active(n)' = Active(n)
    BY <1>2, SameCall
  <2>2. \A n, p : Finds(n, p)' = Finds(n, p)
    BY <1>2, SameCall
  <2>3. ASSUME NEW id \in applied'
        PROVE  \E n \in Rows :
                 table[n].id = id /\ Fits(n)' /\ (n < i' \/ (n = i' /\ pc' \in {"sites", "objects"}))
    <3>1. CASE id = table[i].id
      <4>1. at' \in Windows /\ Finds(i, at')
        BY <1>3, <1>6 DEF Sites
      <4>2. Fits(i)
        BY <4>1 DEF Fits
      <4> QED BY <1>1, <1>2, <2>1, <3>1, <4>2
    <3>2. CASE id \in applied
      <4>1. PICK n \in Rows :
              table[n].id = id /\ Fits(n) /\ (n < i \/ (n = i /\ pc \in {"sites", "objects"}))
        BY <3>2 DEF Good, ReportInv
      <4> QED BY <1>1, <1>2, <2>1, <4>1
    <3> QED BY <1>2, <3>1, <3>2
  <2>4. ASSUME NEW n \in Cpatches, table[n].id \in Updated,
               \E p \in Windows : Finds(n, p)', n < i' \/ (n = i' /\ pc' = "sites")
        PROVE  table[n].id \in applied'
    <3>1. CASE n = i
      BY <1>2, <3>1
    <3>2. CASE n # i
      <4>1. n < i /\ \E p \in Windows : Finds(n, p)
        BY <1>2, <2>2, <2>4, <3>2
      <4> QED BY <1>2, <2>4, <4>1 DEF Good, ReportInv
    <3> QED BY <3>1, <3>2
  <2>5. IsSimple(i) => applied' \cap Updated = {}
    <3>1. IsSimple(i) => applied \cap Updated = {} /\ table[i].id \notin Updated
      BY <1>1 DEF Ignored, IsSimple, Simple, Updated
    <3> QED BY <1>2, <3>1
  <2>6. (pc = "sites" => Active(i) /\ (IsSimple(i) => applied \cap Updated = {}))'
    BY <1>2, <1>5, <2>1, <2>5 DEF IsSimple
  <2> QED BY <2>3, <2>4, <2>6 DEF ReportInv
<1> QED BY <1>7, <1>8, <1>9 DEF Good
\* Places are met as they grow: the next one is the first behind this one.
LEMMA SiteOn ==
  ASSUME IInv, pc = "sites", NextSite, UNCHANGED <<file, toApply, reverse>>
  PROVE  /\ i \in Cpatches
         /\ \A n \in Cpatches, p \in Windows :
              Finds(n, p) => (Behind(n, p)' <=> Behind(n, p) \/ (n = i /\ p = at))
         /\ ~Behind(i, at)
         /\ \A n \in Cpatches : n < i' \/ (n = i' /\ pc' = "sites") => n < i \/ n = i
         /\ \A n \in Rows : n < i \/ n = i => n < i' \/ (n = i' /\ pc' = "sites")
         /\ pc' = "sites" => i' = i
         /\ pc' \in {"row", "sites"}
<1>1. i \in Rows /\ R = table[i] /\ R.kind = "cpatch" /\ at \in Sites(R)
  BY DEF IInv, AtInv, R
<1>2. i \in Cpatches /\ i \in Nat /\ \A n \in Rows : n \in Nat
  BY <1>1, RowsAre DEF Cpatches
<1>3. at \in Nat /\ \A p \in Windows : p \in Nat
  BY <1>1, PatchAssumption, SitesAre
<1>4. \A p \in Windows : Finds(i, p) => p \in Sites(R)
  BY <1>1 DEF Finds, Sites
<1>5. Cpatches \subseteq Rows
  BY DEF Cpatches
<1>6. ~Behind(i, at)
  BY <1>2, <1>3 DEF Behind
<1> DEFINE later == {p \in Sites(R) : p > at}
<1>7. CASE later = {}
  <2>1. NextPatch
    BY <1>7 DEF NextSite
  <2>2. i' = i + 1 /\ pc' = "row"
    BY <2>1 DEF NextPatch
  <2>3. ASSUME NEW n \in Cpatches, NEW p \in Windows, Finds(n, p)
        PROVE  Behind(n, p)' <=> Behind(n, p) \/ (n = i /\ p = at)
    <3>1. Behind(n, p)' <=> n < i + 1
      BY <1>2, <1>5, <2>2 DEF Behind
    <3>2. n = i => p < at \/ p = at
      BY <1>3, <1>4, <1>7, <2>3
    <3> QED BY <1>2, <1>5, <3>1, <3>2 DEF Behind
  <2> QED BY <1>2, <1>5, <1>6, <2>2, <2>3
<1>8. CASE later # {}
  <2>1. Found(later) /\ pc' = "sites" /\ i' = i
    BY <1>8 DEF NextSite
  <2>2. at' \in later /\ \A q \in later : at' <= q
    BY <2>1 DEF Found
  <2>3. at' \in Nat /\ at < at'
    BY <1>3, <2>2, SitesAre
  <2>4. ASSUME NEW n \in Cpatches, NEW p \in Windows, Finds(n, p)
        PROVE  Behind(n, p)' <=> Behind(n, p) \/ (n = i /\ p = at)
    <3>1. Behind(n, p)' <=> n < i \/ (n = i /\ p < at')
      BY <2>1 DEF Behind
    <3>2. n = i => (p < at' <=> p < at \/ p = at)
      <4>1. n = i /\ p > at => at' <= p
        BY <1>4, <2>2, <2>4
      <4> QED BY <1>3, <2>3, <4>1
    <3> QED BY <3>1, <3>2 DEF Behind
  <2> QED BY <1>2, <1>5, <1>6, <2>1, <2>4
<1> QED BY <1>7, <1>8

\* A simple version writes only where no updated one has been, and such a one
\* would have been reported.
LEMMA WriteGood ==
  ASSUME RowsApart, IInv, Good, WriteSite
  PROVE  Good'
<1>1. i \in Rows /\ R = table[i] /\ R.kind = "cpatch" /\ at \in Sites(R) /\ pc = "sites"
  BY DEF WriteSite, IInv, AtInv, R
<1>2. UNCHANGED <<file, toApply, reverse, applied>> /\ NextSite
      /\ copy' = [copy EXCEPT ![at] = New(R, file[at])]
  BY DEF WriteSite, call
<1>3. /\ i \in Cpatches
      /\ \A n \in Cpatches, p \in Windows :
           Finds(n, p) => (Behind(n, p)' <=> Behind(n, p) \/ (n = i /\ p = at))
      /\ \A n \in Cpatches : n < i' \/ (n = i' /\ pc' = "sites") => n < i \/ n = i
      /\ \A n \in Rows : n < i \/ n = i => n < i' \/ (n = i' /\ pc' = "sites")
      /\ pc' = "sites" => i' = i
      /\ pc' \in {"row", "sites"}
  BY <1>1, <1>2, SiteOn
<1>4. at \in Windows /\ at \in Place /\ file[at] \in Sought(table[i])
  BY <1>1, SitesAre DEF Sites
<1>5. copy'[at] = New(table[i], file[at]) /\ \A p \in Place : p # at => copy'[p] = copy[p]
  BY <1>1, <1>2, <1>4 DEF IInv, PatchTypeOK, File
<1>6. Active(i) /\ Finds(i, at)
  BY <1>1, <1>3, <1>4 DEF Good, ReportInv, Finds
<1>7. Windows \subseteq Place /\ \A B \in Blocks : B \subseteq Place /\ at \notin B
  <2>1. \A B \in Blocks : B \subseteq Place
    <3> SUFFICES ASSUME NEW B \in Blocks PROVE B \subseteq Place
      OBVIOUS
    <3>1. PICK n \in Rows : B \in BlocksOf(table[n])
      BY DEF Blocks
    <3>2. Objects[table[n].id] \in Seq(SUBSET Place)
      BY <3>1, RowTypes, PatchAssumption
    <3> QED BY <3>1, <3>2 DEF BlocksOf
  <2> QED BY <1>4, <2>1, PatchAssumption DEF RowsApart, PlacesApart
<1>8. BlockInv' /\ MeTurned'
  <2>1. PassedMe' <=> PassedMe
    <3>1. \A n \in Rows : table[n].kind = "me" => (n < i' <=> n < i)
      BY <1>1, <1>2, <1>3, RowsAre DEF NextSite, NextPatch
    <3> QED BY <1>2, <3>1 DEF PassedMe
  <2>2. \A B : Passed(B)' <=> Passed(B)
    <3>1. \A n \in Rows : table[n].kind = "spatch" => (n < i' <=> n < i)
      BY <1>1, <1>2, <1>3, RowsAre DEF NextSite, NextPatch
    <3> QED BY <1>1, <1>2, <1>3, <3>1 DEF Passed
  <2>3. copy'[MeA] = copy[MeA] /\ copy'[MeB] = copy[MeB]
    <3>1. MeA \in Place /\ MeB \in Place /\ Windows \cap {MeA, MeB} = {}
      BY PatchAssumption DEF RowsApart, PlacesApart
    <3> QED BY <1>4, <1>5, <3>1
  <2>4. \A B \in Blocks : \A p \in B : copy'[p] = copy[p]
    BY <1>5, <1>7
  <2> QED BY <1>2, <2>1, <2>2, <2>3, <2>4, MeStays, BlocksStay DEF Good
<1>9. ReportInv'
  <2>1. \A n \in Rows : n < i \/ (n = i /\ pc \in {"sites", "objects"})
           => n < i' \/ (n = i' /\ pc' \in {"sites", "objects"})
    BY <1>1, <1>3
  <2>2. \A n \in Cpatches :
           /\ table[n].id \in Updated /\ \E p \in Windows : Finds(n, p)
           /\ n < i' \/ (n = i' /\ pc' = "sites")
           => n < i \/ (n = i /\ pc = "sites")
    BY <1>1, <1>3
  <2> QED BY <1>1, <1>2, <1>3, <2>1, <2>2, ReportStays DEF Good
<1>10. \A p \in Windows : Through(p)' = Through(p) \cup (IF p = at THEN {i} ELSE {})
  <2> SUFFICES ASSUME NEW p \in Windows
               PROVE  Through(p)' = Through(p) \cup (IF p = at THEN {i} ELSE {})
    OBVIOUS
  <2>1. \A n : Finds(n, p)' <=> Finds(n, p)
    BY <1>2, SameCall
  <2> QED BY <1>3, <1>6, <2>1 DEF Through
<1>11. WindowInv'
  <2> SUFFICES ASSUME NEW p \in Windows
               PROVE  (IF Through(p) = {} THEN copy[p] = file[p]
                       ELSE \E n \in Through(p) :
                         /\ copy[p] = New(table[n], file[p])
                         /\ IsSimple(n) /\ ~reverse => \A j \in Through(p) : IsSimple(j))'
    BY DEF WindowInv
  <2>1. CASE p # at
    <3>1. Through(p)' = Through(p) /\ copy'[p] = copy[p]
      BY <1>5, <1>7, <1>10, <2>1
    <3>2. IF Through(p) = {} THEN copy[p] = file[p]
          ELSE \E n \in Through(p) :
                 /\ copy[p] = New(table[n], file[p])
                 /\ IsSimple(n) /\ ~reverse => \A j \in Through(p) : IsSimple(j)
      BY DEF Good, WindowInv
    <3> QED BY <1>2, <3>1, <3>2, SameCall
  <2>2. CASE p = at
    <3>1. PICK r \in Cpatches : r = i
      BY <1>3
    <3>2. Through(p)' = Through(p) \cup {r}
      BY <1>10, <2>2, <3>1
    <3>3. copy'[p] = New(table[r], file[p])'
      BY <1>2, <1>5, <2>2, <3>1, SameCall
    <3>4. ASSUME IsSimple(r), ~reverse, NEW j \in Through(p), ~IsSimple(j) PROVE FALSE
      <4>1. j \in Cpatches /\ Finds(j, p) /\ Behind(j, p) /\ j \in Rows
        BY <3>4 DEF Through, Cpatches
      <4>2. j < i
        BY <3>1, <3>4, <4>1 DEF Behind
      <4>3. file[p] \in OldOf(j) /\ file[p] \in OldOf(r)
        BY <1>1, <1>4, <2>2, <3>1, <3>4, <4>1, Sides DEF Finds
      <4>4. table[j].id \in Updated
        BY <3>1, <3>4, <4>1, <4>2, <4>3 DEF RowsApart, SimpleLast
      <4>5. table[j].id \in applied
        BY <4>1, <4>2, <4>4 DEF Good, ReportInv
      <4> QED BY <1>1, <3>1, <3>4, <4>4, <4>5 DEF Good, ReportInv
    <3> QED BY <1>2, <3>2, <3>3, <3>4 DEF IsSimple
  <2> QED BY <2>1, <2>2
<1> QED BY <1>8, <1>9, <1>11 DEF Good
\* Blocks, windows and the places of Windows Me share nothing.
LEMMA BlockPlaces ==
  ASSUME RowsApart
  PROVE  /\ Windows \subseteq Place /\ MeA \in Place /\ MeB \in Place
         /\ MeA \notin Windows /\ MeB \notin Windows
         /\ \A B \in Blocks : /\ B \subseteq Place /\ B # {} /\ MeA \notin B /\ MeB \notin B
                              /\ B \cap Windows = {}
<1>1. ASSUME NEW B \in Blocks PROVE B \subseteq Place
  <2>1. PICK n \in Rows : B \in BlocksOf(table[n])
    BY DEF Blocks
  <2>2. Objects[table[n].id] \in Seq(SUBSET Place)
    BY <2>1, RowTypes, PatchAssumption
  <2> QED BY <2>1, <2>2 DEF BlocksOf
<1> QED BY <1>1, PatchAssumption DEF RowsApart, PlacesApart

\* A row that is no cpatch leaves the windows to those before it.
LEMMA OtherWindows ==
  ASSUME i \in Rows, table[i].kind # "cpatch", pc # "sites", pc' # "sites",
         i' \in {i, i + 1}, WindowInv,
         UNCHANGED <<file, toApply, reverse>>, \A p \in Windows : copy'[p] = copy[p]
  PROVE  WindowInv'
<1>1. \A n \in Cpatches : n \in Nat /\ n # i
  BY RowsAre DEF Cpatches
<1>2. i \in Nat
  BY RowsAre
<1>3. \A n \in Cpatches : \A p \in Windows : Behind(n, p)' <=> Behind(n, p)
  BY <1>1, <1>2 DEF Behind
<1> QED BY <1>3, WindowsStay

LEMMA MeGood ==
  ASSUME RowsApart, IInv, Good, PatchMe \/ MeAbsent
  PROVE  Good'
<1>1. i \in Rows /\ R = table[i] /\ R.id \in toApply /\ R.kind = "me" /\ pc = "row"
  BY TheRow DEF PatchMe, MeAbsent
<1>2. UNCHANGED <<file, toApply, reverse>> /\ NextPatch
  BY DEF PatchMe, MeAbsent, call
<1>3. i' = i + 1 /\ pc' = "row" /\ i \notin Cpatches
  BY <1>1, <1>2 DEF NextPatch, Cpatches
<1>4. \A p \in Place : p \notin {MeA, MeB} => copy'[p] = copy[p]
  BY DEF PatchMe, MeAbsent, IInv, PatchTypeOK, File
<1>5. \A n \in Rows : n < i' <=> n < i \/ n = i
  BY <1>1, <1>2, RowOn
<1>6. /\ MeFits => copy'[MeA] = To /\ copy'[MeB] = To
      /\ ~MeFits => UNCHANGED copy
  <2>1. MeA \in Place /\ MeB \in Place
    BY BlockPlaces
  <2> QED BY <2>1 DEF PatchMe, MeAbsent, IInv, PatchTypeOK, File
<1>7. WindowInv'
  <2>1. \A p \in Windows : copy'[p] = copy[p]
    BY <1>4, BlockPlaces
  <2> QED BY <1>1, <1>2, <1>3, <2>1, OtherWindows DEF Good
<1>8. BlockInv'
  <2>1. \A B \in Blocks : \A p \in B : copy'[p] = copy[p]
    BY <1>4, BlockPlaces
  <2>2. \A B : Passed(B)' <=> Passed(B)
    BY <1>1, <1>2, <1>3, <1>5 DEF Passed
  <2> QED BY <1>2, <2>1, <2>2, BlocksStay DEF Good
<1>9. MeTurned'
  <2>1. PassedMe'
    BY <1>1, <1>2, <1>5 DEF PassedMe
  <2>2. MeFits' = MeFits /\ To' = To
    BY <1>2, SameCall
  <2>3. ~MeFits => copy'[MeA] = file'[MeA] /\ copy'[MeB] = file'[MeB]
    BY <1>2, <1>6 DEF Good, MeTurned
  <2> QED BY <1>6, <2>1, <2>2, <2>3 DEF MeTurned
<1>10. ReportInv'
  <2>1. applied' \in {applied, applied \cup {table[i].id}}
    BY <1>1 DEF PatchMe, MeAbsent
  <2>2. applied' # applied => Fits(i)
    BY <1>1 DEF PatchMe, MeAbsent, Fits
  <2> QED BY <1>1, <1>2, <1>3, <2>1, <2>2, RowOnReport DEF Good
<1> QED BY <1>7, <1>8, <1>9, <1>10 DEF Good

LEMMA BeginObjectsGood ==
  ASSUME IInv, Good, BeginObjects
  PROVE  Good'
<1>1. i \in Rows /\ R = table[i] /\ R.id \in toApply /\ R.kind = "spatch" /\ pc = "row"
  BY TheRow DEF BeginObjects
<1>2. UNCHANGED <<file, toApply, reverse, copy, applied>>
  BY DEF BeginObjects, call
<1>3. \/ Objects[table[i].id] = << >> /\ NextPatch
      \/ at' = 1 /\ pc' = "objects" /\ i' = i
  BY <1>1 DEF BeginObjects
<1>4. i \in Nat /\ i \notin Cpatches /\ \A n \in Rows : n \in Nat
  BY <1>1, RowsAre DEF Cpatches
<1>5. i' \in {i, i + 1} /\ pc' # "sites" /\ (i' = i + 1 <=> NextPatch)
  BY <1>3, <1>4 DEF NextPatch
<1>6. WindowInv'
  BY <1>1, <1>2, <1>5, OtherWindows DEF Good
<1>7. MeTurned'
  <2>1. \A n \in Rows : table[n].kind = "me" => (n < i' <=> n < i)
    <3>1. \A n \in Rows : table[n].kind = "me" => n # i
      BY <1>1
    <3>2. i' = i \/ i' = i + 1
      BY <1>5
    <3> QED BY <1>4, <3>1, <3>2
  <2>2. PassedMe' <=> PassedMe
    BY <1>2, <2>1 DEF PassedMe
  <2> QED BY <1>2, <2>2, MeStays DEF Good
<1>8. BlockInv'
  <2>1. ASSUME NEW B PROVE Passed(B)' <=> Passed(B)
    <3>1. ASSUME NEW n \in Rows, NEW k \in DOMAIN Objects[table[n].id]
          PROVE  n < i' \/ (n = i' /\ pc' = "objects" /\ k < at') <=> n < i
      <4>1. CASE NextPatch /\ Objects[table[i].id] = << >>
        <5>1. i' = i + 1 /\ pc' = "row" /\ n # i
          BY <3>1, <4>1 DEF NextPatch
        <5> QED BY <1>4, <5>1
      <4>2. CASE at' = 1 /\ pc' = "objects" /\ i' = i
        <5>1. n = i /\ table[n].id \in Ids => k \in Nat /\ k >= 1
          BY <3>1, ObjectsAre
        <5>2. table[n].id \in Ids
          BY RowTypes
        <5> QED BY <4>2, <5>1, <5>2
      <4> QED BY <1>3, <4>1, <4>2
    <3> QED BY <1>1, <1>2, <3>1 DEF Passed
  <2> QED BY <1>2, <2>1, BlocksStay DEF Good
<1>9. ReportInv'
  <2>1. CASE NextPatch
    BY <1>1, <1>2, <1>4, <2>1, RowOnReport DEF Good
  <2>2. CASE at' = 1 /\ pc' = "objects" /\ i' = i
    BY <1>1, <1>2, <2>2, ReportStays DEF Good
  <2> QED BY <1>3, <2>1, <2>2
<1> QED BY <1>6, <1>7, <1>8, <1>9 DEF Good

\* One object after another, and then the next row.
LEMMA ObjectOn ==
  ASSUME IInv, pc = "objects", NextObject, UNCHANGED <<file, toApply, reverse>>
  PROVE  /\ i \in Rows /\ table[i].kind = "spatch" /\ table[i].id \in toApply
         /\ Object \in Blocks /\ Object \in BlocksOf(table[i])
         /\ \A B : Passed(B)' <=> Passed(B) \/ B = Object
         /\ PassedMe' <=> PassedMe
         /\ i' \in {i, i + 1} /\ pc' # "sites"
         /\ (NextPatch \/ (i' = i /\ pc' = "objects"))
<1>1. i \in Rows /\ R = table[i] /\ R.kind = "spatch" /\ at \in DOMAIN Objects[R.id]
      /\ R.id \in toApply
  BY DEF IInv, AtInv, R
<1>2. table[i].id \in Ids /\ i \in Nat /\ \A n \in Rows : n \in Nat
  BY <1>1, RowTypes, RowsAre
<1>3. Len(Objects[R.id]) \in Nat /\ DOMAIN Objects[R.id] = 1 .. Len(Objects[R.id])
  BY <1>1, <1>2, ObjectsAre
<1>4. Object \in BlocksOf(table[i]) /\ Object \in Blocks
  BY <1>1 DEF Object, BlocksOf, Blocks
<1>5. \/ NextPatch /\ at = Len(Objects[R.id])
      \/ at' = at + 1 /\ i' = i /\ pc' = "objects"
  BY <1>1, <1>3 DEF NextObject
<1>6. i' \in {i, i + 1} /\ pc' # "sites"
  BY <1>5 DEF NextPatch
<1>7. PassedMe' <=> PassedMe
  BY <1>1, <1>2, <1>6 DEF PassedMe
<1>8. ASSUME NEW n \in Rows, NEW k \in DOMAIN Objects[table[n].id]
      PROVE  n < i' \/ (n = i' /\ pc' = "objects" /\ k < at')
               <=> n < i \/ (n = i /\ k < at) \/ (n = i /\ k = at)
  <2>1. CASE NextPatch /\ at = Len(Objects[R.id])
    <3>1. i' = i + 1 /\ pc' = "row"
      BY <2>1 DEF NextPatch
    <3>2. n = i => k < at \/ k = at
      BY <1>1, <1>3, <1>8, <2>1
    <3> QED BY <1>2, <3>1, <3>2
  <2>2. CASE at' = at + 1 /\ i' = i /\ pc' = "objects"
    <3>1. n = i => (k < at' <=> k < at \/ k = at)
      BY <1>1, <1>3, <1>8, <2>2
    <3> QED BY <2>2, <3>1
  <2> QED BY <1>5, <2>1, <2>2
<1>9. ASSUME NEW B PROVE Passed(B)' <=> Passed(B) \/ B = Object
  <2>1. Passed(B)' => Passed(B) \/ B = Object
    BY <1>1, <1>8 DEF Passed, Object
  <2>2. Passed(B) => Passed(B)'
    BY <1>1, <1>8 DEF Passed
  <2>3. B = Object => Passed(B)'
    BY <1>1, <1>8 DEF Passed, Object
  <2> QED BY <2>1, <2>2, <2>3
<1> QED BY <1>1, <1>4, <1>5, <1>6, <1>7, <1>9

LEMMA ObjectGood ==
  ASSUME RowsApart, IInv, Good, PatchObject \/ LeaveObject
  PROVE  Good'
<1>1. pc = "objects" /\ NextObject /\ UNCHANGED <<file, toApply, reverse>>
  BY DEF PatchObject, LeaveObject, call
<1>2. /\ i \in Rows /\ table[i].kind = "spatch" /\ table[i].id \in toApply
      /\ Object \in Blocks /\ Object \in BlocksOf(table[i])
      /\ \A B : Passed(B)' <=> Passed(B) \/ B = Object
      /\ PassedMe' <=> PassedMe
      /\ i' \in {i, i + 1} /\ pc' # "sites"
      /\ (NextPatch \/ (i' = i /\ pc' = "objects"))
  BY <1>1, ObjectOn
<1>3. \A p \in Place : p \notin Object => copy'[p] = copy[p]
  BY DEF PatchObject, LeaveObject, IInv, PatchTypeOK, File
<1>4. Applies(Object) => \A p \in Object : copy'[p] = To
  BY <1>2, BlockPlaces DEF PatchObject, LeaveObject
<1>5. ~Applies(Object) => UNCHANGED copy
  BY DEF PatchObject, LeaveObject
<1>6. WindowInv'
  <2>1. \A p \in Windows : copy'[p] = copy[p]
    BY <1>2, <1>3, BlockPlaces
  <2> QED BY <1>1, <1>2, <2>1, OtherWindows DEF Good
<1>7. MeTurned'
  <2>1. copy'[MeA] = copy[MeA] /\ copy'[MeB] = copy[MeB]
    BY <1>2, <1>3, BlockPlaces
  <2> QED BY <1>1, <1>2, <2>1, MeStays DEF Good
<1>8. BlockInv'
  <2> SUFFICES ASSUME NEW B \in Blocks
               PROVE  (IF Passed(B) /\ Applies(B) THEN \A p \in B : copy[p] = To
                       ELSE \A p \in B : copy[p] = file[p])'
    BY DEF BlockInv
  <2>1. Applies(B)' = Applies(B) /\ To' = To
    BY <1>1, SameCall
  <2>2. IF Passed(B) /\ Applies(B) THEN \A p \in B : copy[p] = To
        ELSE \A p \in B : copy[p] = file[p]
    BY DEF Good, BlockInv
  <2>3. CASE B = Object
    <3>1. Passed(B)'
      BY <1>2, <2>3
    <3>2. CASE Applies(B)
      BY <1>4, <2>1, <2>3, <3>1, <3>2
    <3>3. CASE ~Applies(B)
      BY <1>1, <1>5, <2>1, <2>2, <2>3, <3>3
    <3> QED BY <3>2, <3>3
  <2>4. CASE B # Object
    <3>1. B \cap Object = {} /\ B \subseteq Place
      BY <1>2, <2>4, BlockPlaces DEF RowsApart, PlacesApart
    <3>2. \A p \in B : copy'[p] = copy[p]
      BY <1>3, <3>1
    <3>3. Passed(B)' <=> Passed(B)
      BY <1>2, <2>4
    <3> QED BY <1>1, <2>1, <2>2, <3>2, <3>3
  <2> QED BY <2>3, <2>4
<1>9. ReportInv'
  <2>1. applied' \in {applied, applied \cup {table[i].id}}
    BY DEF PatchObject, LeaveObject, R
  <2>2. applied' # applied => Fits(i)
    <3>1. applied' # applied => Applies(Object)
      BY DEF PatchObject, LeaveObject
    <3> QED BY <1>2, <3>1 DEF Fits
  <2>3. i \notin Cpatches /\ i \in Nat
    BY <1>2, RowsAre DEF Cpatches
  <2>4. CASE NextPatch
    BY <1>1, <1>2, <2>1, <2>2, <2>3, <2>4, RowOnReport DEF Good
  <2>5. CASE i' = i /\ pc' = "objects"
    BY <1>1, <1>2, <2>1, <2>2, <2>5, ReportStays DEF Good
  <2> QED BY <1>2, <2>4, <2>5
<1> QED BY <1>6, <1>7, <1>8, <1>9 DEF Good
LEMMA StartGood ==
  ASSUME Start
  PROVE  Good'
<1>1. i' = 1 /\ pc' = "row" /\ copy' = file' /\ applied' = {}
  BY DEF Start
<1>2. \A n \in Rows : ~(n < i')
  BY <1>1, RowsAre
<1>3. \A n \in Cpatches : \A p : ~Behind(n, p)'
  BY <1>1, <1>2 DEF Behind, Cpatches
<1>4. \A p : Through(p)' = {}
  BY <1>3 DEF Through
<1>5. ~PassedMe' /\ \A B : ~Passed(B)'
  BY <1>1, <1>2 DEF PassedMe, Passed
<1>6. WindowInv' /\ BlockInv' /\ MeTurned'
  BY <1>1, <1>4, <1>5 DEF WindowInv, BlockInv, MeTurned
<1>7. ReportInv'
  BY <1>1, <1>2 DEF ReportInv, Cpatches
<1> QED BY <1>6, <1>7 DEF Good

LEMMA FinishGood ==
  ASSUME Good, Finish
  PROVE  Good'
<1>1. UNCHANGED <<file, toApply, reverse, copy, applied, i>> /\ pc = "row" /\ pc' = "done"
      /\ i \notin Rows
  BY DEF Finish, call
<1>2. WindowInv'
  <2>1. \A n \in Cpatches : \A p : Behind(n, p)' <=> Behind(n, p)
    BY <1>1 DEF Behind
  <2> QED BY <1>1, <2>1, WindowsStay DEF Good
<1>3. BlockInv' /\ MeTurned'
  <2>1. PassedMe' <=> PassedMe
    BY <1>1 DEF PassedMe
  <2>2. \A B : Passed(B)' <=> Passed(B)
    BY <1>1 DEF Passed
  <2> QED BY <1>1, <2>1, <2>2, MeStays, BlocksStay DEF Good
<1>4. ReportInv'
  <2>1. \A n : Fits(n)' = Fits(n)
    BY <1>1, SameCall
  <2>2. \A n, p : Finds(n, p)' = Finds(n, p)
    BY <1>1, SameCall
  <2> QED BY <1>1, <2>1, <2>2 DEF Good, ReportInv
<1> QED BY <1>2, <1>3, <1>4 DEF Good

LEMMA IdleGood ==
  ASSUME Good, UNCHANGED vars
  PROVE  Good'
<1>1. UNCHANGED <<file, toApply, reverse, copy, applied, i, pc, at>>
  BY DEF vars, call
<1>2. WindowInv'
  <2>1. \A n \in Cpatches : \A p : Behind(n, p)' <=> Behind(n, p)
    BY <1>1 DEF Behind
  <2> QED BY <1>1, <2>1, WindowsStay DEF Good
<1>3. BlockInv' /\ MeTurned'
  <2>1. PassedMe' <=> PassedMe
    BY <1>1 DEF PassedMe
  <2>2. \A B : Passed(B)' <=> Passed(B)
    BY <1>1 DEF Passed
  <2> QED BY <1>1, <2>1, <2>2, MeStays, BlocksStay DEF Good
<1>4. ReportInv'
  <2>1. \A n : Fits(n)' = Fits(n) /\ Active(n)' = Active(n)
    BY <1>1, SameCall
  <2>2. \A n, p : Finds(n, p)' = Finds(n, p)
    BY <1>1, SameCall
  <2>3. (pc = "sites" => Active(i) /\ (IsSimple(i) => applied \cap Updated = {}))'
    BY <1>1, <2>1 DEF Good, ReportInv, IsSimple
  <2> QED BY <1>1, <2>1, <2>2, <2>3 DEF Good, ReportInv
<1> QED BY <1>2, <1>3, <1>4 DEF Good

LEMMA GoodNext ==
  ASSUME RowsApart, IInv, CallInv, [Next]_vars, pc' # "idle", ~failed'
  PROVE  Good'
<1>1. CASE Start
  BY <1>1, StartGood
<1>2. CASE ~Start
  <2>1. ~Accept /\ ~Discard
    BY DEF Accept, Discard
  <2>2. ~CpatchRefused /\ ~ReadSiteFails /\ ~ReadMeFails /\ ~MeRefused /\ ~ObjectRefused /\ ~ReadObjectFails
    BY DEF CpatchRefused, ReadSiteFails, ReadMeFails, MeRefused, ObjectRefused, ReadObjectFails, Refused, Fault
  <2>3. \/ SkipPatch \/ FindCpatch \/ WriteSite \/ CpatchAbsent \/ PatchMe \/ MeAbsent
        \/ BeginObjects \/ PatchObject \/ LeaveObject \/ Finish \/ UNCHANGED vars
    BY <1>2, <2>1, <2>2 DEF Next, CpatchStep, MeStep, SpatchStep
  <2>4. pc # "idle" /\ ~failed
    BY <2>3 DEF SkipPatch, FindCpatch, WriteSite, CpatchAbsent, PatchMe, MeAbsent, BeginObjects,
       PatchObject, LeaveObject, Finish, InKind, InRow, NoFault, vars
  <2>5. Good /\ ClassInv
    BY <2>4 DEF CallInv, Good
  <2> QED BY <2>3, <2>5, SkipGood, FindGood, WriteGood, AbsentGood, MeGood, BeginObjectsGood,
          ObjectGood, FinishGood, IdleGood
<1> QED BY <1>1, <1>2

--------------------------------------------------------------------------
(* The file the next call is given                                         *)

\* What every step but four leaves.
LEMMA WindowsKept ==
  ASSUME RowsApart, IInv, [Next]_vars, ~Start, ~WriteSite, ~Accept, ~Discard
  PROVE  UNCHANGED <<file, toApply, reverse, last>> /\ \A p \in Windows : copy'[p] = copy[p]
<1>1. UNCHANGED <<file, toApply, reverse, last>>
  BY DEF Next, CpatchStep, MeStep, SpatchStep, SkipPatch, FindCpatch, CpatchRefused, ReadSiteFails,
     CpatchAbsent, PatchMe, ReadMeFails, MeRefused, MeAbsent, BeginObjects, PatchObject,
     ObjectRefused, LeaveObject, ReadObjectFails, Finish, vars, call
<1>2. CASE UNCHANGED copy
  BY <1>1, <1>2
<1>3. CASE PatchMe \/ ReadMeFails
  <2>1. \A p \in Windows : p \in Place /\ p \notin {MeA, MeB}
    BY BlockPlaces
  <2>2. \A p \in Place : p \notin {MeA, MeB} => copy'[p] = copy[p]
    BY <1>3 DEF PatchMe, ReadMeFails, IInv, PatchTypeOK, File
  <2> QED BY <1>1, <2>1, <2>2
<1>4. CASE PatchObject
  <2>1. Object \in Blocks
    BY <1>4, ObjectOn DEF PatchObject, call
  <2>2. \A p \in Place : p \notin Object => copy'[p] = copy[p]
    BY <1>4 DEF PatchObject
  <2> QED BY <1>1, <2>1, <2>2, BlockPlaces
<1>5. UNCHANGED copy \/ PatchMe \/ ReadMeFails \/ PatchObject
  BY DEF Next, CpatchStep, MeStep, SpatchStep, SkipPatch, FindCpatch, CpatchRefused, ReadSiteFails,
     CpatchAbsent, MeRefused, MeAbsent, BeginObjects,
     ObjectRefused, LeaveObject, ReadObjectFails, Finish, vars
<1> QED BY <1>2, <1>3, <1>4, <1>5

LEMMA ClassNext ==
  ASSUME RowsApart, IInv, ClassInv, [Next]_vars
  PROVE  ClassInv'
<1>1. CASE Start \/ Discard
  BY <1>1 DEF Start, Discard, ClassInv
<1>2. CASE Accept
  BY <1>2 DEF Accept, ClassInv
<1>3. CASE WriteSite
  <2>1. i \in Rows /\ R = table[i] /\ R.kind = "cpatch" /\ at \in Sites(R)
    BY <1>3 DEF WriteSite, IInv, AtInv, R
  <2>2. i \in Cpatches /\ at \in Windows /\ at \in Place /\ file[at] \in Sought(table[i])
    BY <2>1, SitesAre DEF Cpatches, Sites
  <2>3. file' = file /\ copy' = [copy EXCEPT ![at] = New(table[i], file[at])]
    BY <1>3, <2>1 DEF WriteSite
  <2>4. New(table[i], file[at]) \in TlbValues => file[at] \in TlbValues
    BY <2>2, SameClass
  <2>5. \A p \in Windows : copy'[p] \in TlbValues => file[p] \in TlbValues
    BY <2>2, <2>3, <2>4, BlockPlaces DEF ClassInv, IInv, PatchTypeOK, File
  <2> QED BY <2>3, <2>5 DEF ClassInv
<1>4. CASE ~Start /\ ~WriteSite /\ ~Accept /\ ~Discard
  <2>1. UNCHANGED file /\ \A p \in Windows : copy'[p] = copy[p]
    BY <1>4, WindowsKept
  <2> QED BY <2>1 DEF ClassInv
<1> QED BY <1>1, <1>2, <1>3, <1>4

\* At its end a call has been through every row, place and object.
LEMMA AllThrough ==
  ASSUME PatchTypeOK, pc = "done", i \notin Rows
  PROVE  /\ \A n \in Rows : n < i
         /\ \A p : Through(p) = {n \in Cpatches : Finds(n, p)}
         /\ \A n \in Rows : table[n].kind = "me" /\ table[n].id \in toApply => PassedMe
         /\ \A n \in Rows : table[n].kind = "spatch" /\ table[n].id \in toApply
              => \A B \in BlocksOf(table[n]) : Passed(B) /\ B \in Blocks
<1>1. \A n \in Rows : n < i
  BY RowsAre DEF PatchTypeOK
<1>2. ASSUME NEW p PROVE Through(p) = {n \in Cpatches : Finds(n, p)}
  BY <1>1 DEF Through, Behind, Cpatches
<1>3. \A n \in Rows : table[n].kind = "me" /\ table[n].id \in toApply => PassedMe
  BY <1>1 DEF PassedMe
<1>4. \A n \in Rows : table[n].kind = "spatch" /\ table[n].id \in toApply
              => \A B \in BlocksOf(table[n]) : Passed(B) /\ B \in Blocks
  BY <1>1 DEF Passed, BlocksOf, Blocks
<1> QED BY <1>1, <1>2, <1>3, <1>4

\* What a window holds now, no row of this call looks for: no row finds what
\* another leaves but an update what a simple version does, and then an
\* updated row has found the window.
LEMMA WindowSettled ==
  ASSUME RowsApart, IInv, Good, toApply \in Selections, pc = "done", i \notin Rows,
         NEW n \in Cpatches, Active(n), NEW p \in Windows
  PROVE  copy[p] \notin Sought(table[n])
<1>1. SUFFICES ASSUME copy[p] \in Sought(table[n]) PROVE FALSE
  OBVIOUS
<1>2. Through(p) = {m \in Cpatches : Finds(m, p)} /\ Cpatches \subseteq Rows
  BY AllThrough DEF IInv, Cpatches
<1>3. Through(p) # {}
  <2>1. CASE Through(p) = {}
    <3>1. Finds(n, p)
      BY <1>1, <2>1 DEF Good, WindowInv, Finds
    <3> QED BY <1>2, <2>1, <3>1
  <2> QED BY <2>1
<1>4. PICK m \in Through(p) :
        /\ copy[p] = New(table[m], file[p])
        /\ IsSimple(m) /\ ~reverse => \A j \in Through(p) : IsSimple(j)
  BY <1>3 DEF Good, WindowInv
<1>5. m \in Cpatches /\ m \in Rows /\ n \in Rows /\ Active(m) /\ file[p] \in Sought(table[m])
  BY <1>2, <1>4 DEF Finds
<1>6. copy[p] \in Left(table[m])
  BY <1>4, <1>5, Written
<1>7. CASE reverse
  <2>1. copy[p] \in NewOf(n) \cap OldOf(m)
    BY <1>1, <1>5, <1>6, <1>7, Sides
  <2>2. IsUpgrade(m)
    BY <1>5, <2>1 DEF RowsApart, OneWay
  <2> QED BY <1>5, <1>7, <2>2 DEF Active
<1>8. CASE ~reverse
  <2>1. copy[p] \in NewOf(m) \cap OldOf(n)
    BY <1>1, <1>5, <1>6, <1>8, Sides
  <2>2. IsSimple(m) /\ IsUpgrade(n)
    BY <1>5, <2>1 DEF RowsApart, OneWay
  <2>3. PICK pr \in table[m].pairs : pr[1] = file[p] /\ pr[2] = copy[p]
    BY <1>4, <1>5, <1>8, Written
  <2>4. table[m].id \in toApply /\ table[n].id \in toApply
    BY <1>5 DEF Active
  <2>5. PICK k \in Cpatches : table[k].id \in toApply /\ ~IsSimple(k) /\ pr[1] \in OldOf(k)
    BY <1>5, <2>1, <2>2, <2>3, <2>4 DEF RowsApart, TogetherTlb
  <2>6. Active(k) /\ file[p] \in Sought(table[k])
    BY <1>2, <1>8, <2>3, <2>5, Sides DEF Active
  <2>7. k \in Through(p)
    BY <1>2, <2>6 DEF Finds
  <2> QED BY <1>4, <1>8, <2>2, <2>5, <2>7
<1> QED BY <1>7, <1>8

LEMMA DoneSettled ==
  ASSUME RowsApart, IInv, Good, toApply \in Selections, pc = "done", i \notin Rows
  PROVE  Settled(copy, toApply, reverse)
<1>0. PatchTypeOK
  BY DEF IInv
<1>1. ASSUME NEW n \in Cpatches, table[n].id \in toApply, ~(reverse /\ IsUpgrade(n)),
             NEW p \in Windows
      PROVE  copy[p] \notin (IF reverse THEN NewOf(n) ELSE OldOf(n))
  <2>1. Active(n) /\ n \in Rows
    BY <1>1 DEF Active, Cpatches
  <2> QED BY <2>1, WindowSettled, Sides
<1>2. ASSUME NEW n \in Rows, table[n].id \in toApply, table[n].kind = "me"
      PROVE  ~({copy[MeA], copy[MeB]} = {IF reverse THEN "new" ELSE "old"})
  <2>1. PassedMe
    BY <1>0, <1>2, AllThrough
  <2>2. CASE MeFits
    BY <2>1, <2>2 DEF Good, MeTurned, To
  <2>3. CASE ~MeFits
    BY <2>1, <2>3 DEF Good, MeTurned, MeFits, From
  <2> QED BY <2>2, <2>3
<1>3. ASSUME NEW n \in Rows, table[n].id \in toApply, table[n].kind = "spatch",
             NEW B \in BlocksOf(table[n]), \A p \in B : copy[p] \in {"old", "new"}
      PROVE  (\E p \in B : copy[p] = "new") # reverse
  <2>1. Passed(B) /\ B \in Blocks
    BY <1>0, <1>3, AllThrough
  <2>2. reverse \in BOOLEAN
    BY <1>0 DEF PatchTypeOK
  <2>3. CASE Applies(B)
    <3>1. \A p \in B : copy[p] = To
      BY <2>1, <2>3 DEF Good, BlockInv
    <3>2. PICK q : q \in B
      BY <2>1, BlockPlaces
    <3>3. CASE reverse
      BY <3>1, <3>3 DEF To
    <3>4. CASE ~reverse
      BY <2>2, <3>1, <3>2, <3>4 DEF To
    <3> QED BY <3>3, <3>4
  <2>4. CASE ~Applies(B)
    <3>1. \A p \in B : copy[p] = file[p]
      BY <2>1, <2>4 DEF Good, BlockInv
    <3>2. Valid(B)
      BY <1>3, <3>1 DEF Valid
    <3>3. ~((\E p \in B : copy[p] = "new") <=> reverse)
      BY <2>4, <3>1, <3>2 DEF Applies, There
    <3> QED BY <3>3
  <2> QED BY <2>3, <2>4
<1> QED BY <1>1, <1>2, <1>3 DEF Settled
LEMMA CallInit == ASSUME RowsApart, Init PROVE CallInv
<1>1. ClassInv
  <2>1. file \in Files /\ copy = file
    BY DEF Init
  <2> QED BY <2>1 DEF ClassInv, RowsApart, OneTlb
<1>2. Settled(file, last.toApply, last.reverse)
  BY DEF Init, Nothing, Settled
<1> QED BY <1>1, <1>2 DEF CallInv, Init

LEMMA CallNext ==
  ASSUME RowsApart, IInv, CallInv, [Next]_vars
  PROVE  CallInv'
<1>1. ClassInv'
  BY ClassNext DEF CallInv
<1>2. pc' # "idle" => toApply' \in Selections
  <2>1. CASE Start
    BY <2>1 DEF Start
  <2>2. CASE Accept \/ Discard
    BY <2>2 DEF Accept, Discard
  <2>3. CASE ~Start /\ ~Accept /\ ~Discard
    <3>1. toApply' = toApply
      BY <2>3, WindowsKept DEF WriteSite, call
    <3>2. pc' # "idle" => pc # "idle"
      BY <2>3 DEF Next, CpatchStep, MeStep, SpatchStep, SkipPatch, FindCpatch, CpatchRefused, ReadSiteFails,
         WriteSite, CpatchAbsent, PatchMe, ReadMeFails, MeRefused, MeAbsent, BeginObjects, PatchObject,
         ObjectRefused, LeaveObject, ReadObjectFails, Finish, InKind, InRow, vars
    <3> QED BY <3>1, <3>2 DEF CallInv
  <2> QED BY <2>1, <2>2, <2>3
<1>3. pc' = "done" => i' \notin Rows
  <2>1. CASE Finish \/ UNCHANGED vars
    BY <2>1 DEF Finish, vars, CallInv
  <2>2. CASE ~Finish /\ ~UNCHANGED vars
    BY <2>2 DEF Next, CpatchStep, MeStep, SpatchStep, Start, Accept, Discard, SkipPatch, FindCpatch,
       CpatchRefused, ReadSiteFails, WriteSite, CpatchAbsent, PatchMe, ReadMeFails, MeRefused, MeAbsent,
       BeginObjects, PatchObject, ObjectRefused, LeaveObject, ReadObjectFails, NextSite, NextObject, NextPatch
  <2> QED BY <2>1, <2>2
<1>4. pc' # "idle" /\ ~failed' => (WindowInv /\ ReportInv /\ BlockInv /\ MeTurned)'
  BY GoodNext DEF Good
<1>5. Settled(file, last.toApply, last.reverse)'
  <2>1. CASE Accept /\ ~failed
    <3>1. pc = "done" /\ file' = copy /\ last'.toApply = toApply /\ last'.reverse = reverse
      BY <2>1 DEF Accept
    <3>2. Good /\ toApply \in Selections /\ i \notin Rows
      BY <2>1, <3>1 DEF CallInv, Good
    <3>3. Settled(copy, toApply, reverse)
      BY <3>1, <3>2, DoneSettled
    <3> QED BY <3>1, <3>3 DEF Settled
  <2>2. CASE Accept /\ failed
    <3>1. last'.toApply = {} /\ last'.reverse = FALSE
      BY <2>2 DEF Accept, Nothing
    <3> QED BY <3>1 DEF Settled
  <2>3. CASE ~Accept
    <3>1. UNCHANGED <<file, last>>
      BY <2>3, WindowsKept DEF Start, Discard, WriteSite, call
    <3> QED BY <3>1 DEF CallInv, Settled
  <2> QED BY <2>1, <2>2, <2>3
<1> QED BY <1>1, <1>2, <1>3, <1>4, <1>5 DEF CallInv

LEMMA CallAlways == ASSUME RowsApart PROVE PatchSpec => [](IInv /\ CallInv)
<1>1. Init => IInv /\ CallInv
  BY InitInv, CallInit
<1>2. IInv /\ CallInv /\ [Next]_vars => IInv' /\ CallInv'
  BY NextInv, CallNext
<1> QED BY <1>1, <1>2, PTL DEF PatchSpec

--------------------------------------------------------------------------
(* What the call has done                                                  *)

\* Both windows of Windows Me, or neither.
LEMMA MeWhole ==
  ASSUME IInv, Good, pc = "done", i \notin Rows, Chosen("me") # {}
  PROVE  Turned({MeA, MeB})
<1>1. PassedMe
  BY AllThrough DEF Chosen, IInv
<1>2. MeFits <=> \A p \in {MeA, MeB} : file[p] = From
  BY DEF MeFits
<1> QED BY <1>1, <1>2 DEF Good, MeTurned, Turned

\* A call of patch_selected in which nothing fails leaves every window as the
\* best selected patch for it makes it, at every place it is found, and
\* applies the patches of several blocks whole or not at all.
THEOREM ForwardIsExact ==
  ASSUME RowsApart
  PROVE  PatchSpec => []ForwardExact
<1>1. ASSUME IInv, CallInv, pc = "done", ~reverse, ~failed
      PROVE  /\ \A p \in Windows : copy[p] \in Best(file[p])
             /\ \A r \in Chosen("spatch") : \A B \in BlocksOf(r) : Turned(B)
             /\ Chosen("me") # {} => Turned({MeA, MeB})
  <2>1. Good /\ i \notin Rows /\ PatchTypeOK
    BY <1>1 DEF CallInv, Good, IInv
  <2>2. ASSUME NEW p \in Windows PROVE copy[p] \in Best(file[p])
    <3> DEFINE v == file[p]
               plain == {r \in Chosen("cpatch") : r.id \notin Simple}
               simple == Chosen("cpatch") \ plain
               outcome(S) == {New(r, v) : r \in {q \in S : v \in Sought(q)}}
    <3>1. Best(v) = IF outcome(plain) # {} THEN outcome(plain)
                    ELSE IF outcome(simple) # {} THEN outcome(simple) ELSE {v}
      BY DEF Best
    <3>2. Through(p) = {n \in Cpatches : Finds(n, p)}
      BY <1>1, <2>1, AllThrough
    <3>3. \A r \in Chosen("cpatch") : v \in Sought(r) => \E n \in Through(p) : r = table[n]
      <4> SUFFICES ASSUME NEW r \in Chosen("cpatch"), v \in Sought(r)
                   PROVE  \E n \in Through(p) : r = table[n]
        OBVIOUS
      <4>1. PICK n \in Rows : table[n].kind = "cpatch" /\ table[n].id \in toApply /\ r = table[n]
        BY DEF Chosen
      <4>2. n \in Cpatches /\ Active(n)
        BY <1>1, <4>1 DEF Cpatches, Active
      <4> QED BY <3>2, <4>1, <4>2 DEF Finds
    <3>4. \A n \in Through(p) : table[n] \in Chosen("cpatch") /\ v \in Sought(table[n])
      BY <3>2 DEF Finds, Chosen, Cpatches, Active
    <3>5. CASE Through(p) = {}
      <4>1. copy[p] = v
        BY <3>5, <2>1 DEF Good, WindowInv
      <4>2. outcome(plain) = {} /\ outcome(simple) = {}
        BY <3>3, <3>5
      <4> QED BY <3>1, <4>1, <4>2
    <3>6. CASE Through(p) # {}
      <4>1. PICK m \in Through(p) :
              copy[p] = New(table[m], v) /\ (IsSimple(m) => \A j \in Through(p) : IsSimple(j))
        BY <1>1, <2>1, <3>6 DEF Good, WindowInv
      <4>2. CASE ~IsSimple(m)
        <5>1. copy[p] \in outcome(plain)
          BY <3>4, <4>1, <4>2 DEF IsSimple
        <5> QED BY <3>1, <5>1
      <4>3. CASE IsSimple(m)
        <5>1. outcome(plain) = {}
          BY <3>3, <4>1, <4>3 DEF IsSimple
        <5>2. copy[p] \in outcome(simple)
          BY <3>4, <4>1, <4>3 DEF IsSimple
        <5> QED BY <3>1, <5>1, <5>2
      <4> QED BY <4>2, <4>3
    <3> QED BY <3>5, <3>6
  <2>3. ASSUME NEW r \in Chosen("spatch"), NEW B \in BlocksOf(r) PROVE Turned(B)
    <3>1. Passed(B) /\ B \in Blocks
      BY <1>1, <2>1, <2>3, AllThrough DEF Chosen
    <3>2. Applies(B) <=> \A p \in B : file[p] = From
      BY <1>1 DEF Applies, Valid, There, From
    <3> QED BY <2>1, <3>1, <3>2 DEF Good, BlockInv, Turned
  <2> QED BY <1>1, <2>1, <2>2, <2>3, MeWhole
<1>2. IInv /\ CallInv => ForwardExact
  BY <1>1 DEF ForwardExact
<1> QED BY <1>2, CallAlways, PTL

\* With -reverse no selected patch is left in the file, nor the half of one.
THEOREM ReverseIsClean ==
  ASSUME RowsApart
  PROVE  PatchSpec => []ReverseClean
<1>1. ASSUME IInv, CallInv, pc = "done", reverse, ~failed
      PROVE  /\ \A r \in Chosen("cpatch") : \A p \in Windows : copy[p] \notin Sought(r)
             /\ \A r \in Chosen("spatch") : \A B \in BlocksOf(r) :
                  Valid(B) => \A p \in B : copy[p] = "old"
             /\ Chosen("me") # {} => Turned({MeA, MeB})
  <2>1. Good /\ i \notin Rows /\ PatchTypeOK /\ toApply \in Selections
    BY <1>1 DEF CallInv, Good, IInv
  <2>2. ASSUME NEW r \in Chosen("cpatch"), NEW p \in Windows PROVE copy[p] \notin Sought(r)
    <3>1. PICK n \in Rows : table[n].kind = "cpatch" /\ table[n].id \in toApply /\ r = table[n]
      BY DEF Chosen
    <3>2. n \in Cpatches /\ Sought(r) = NewOf(n)
      BY <1>1, <3>1, Sides DEF Cpatches
    <3>3. CASE ~IsUpgrade(n)
      BY <1>1, <2>1, <3>1, <3>2, <3>3, WindowSettled DEF Active
    <3>4. CASE IsUpgrade(n)
      <4>1. SUFFICES ASSUME copy[p] \in NewOf(n) PROVE FALSE
        BY <3>2
      <4>2. PICK k \in Cpatches : table[k].id \in toApply /\ ~IsUpgrade(k) /\ copy[p] \in NewOf(k)
        BY <2>1, <3>1, <3>2, <3>4, <4>1 DEF RowsApart, TogetherTlb
      <4>3. Active(k) /\ Sought(table[k]) = NewOf(k)
        BY <1>1, <4>2, Sides DEF Active, Cpatches
      <4> QED BY <1>1, <2>1, <4>2, <4>3, WindowSettled
    <3> QED BY <3>3, <3>4
  <2>3. ASSUME NEW r \in Chosen("spatch"), NEW B \in BlocksOf(r), Valid(B)
        PROVE  \A p \in B : copy[p] = "old"
    <3>1. Passed(B) /\ B \in Blocks
      BY <1>1, <2>1, <2>3, AllThrough DEF Chosen
    <3>2. CASE Applies(B)
      BY <1>1, <2>1, <3>1, <3>2 DEF Good, BlockInv, To
    <3>3. CASE ~Applies(B)
      <4>1. \A p \in B : copy[p] = file[p]
        BY <2>1, <3>1, <3>3 DEF Good, BlockInv
      <4>2. ~There(B)
        BY <1>1, <2>3, <3>3 DEF Applies
      <4> QED BY <2>3, <4>1, <4>2 DEF Valid, There
    <3> QED BY <3>2, <3>3
  <2> QED BY <1>1, <2>1, <2>2, <2>3, MeWhole
<1>2. IInv /\ CallInv => ReverseClean
  BY <1>1 DEF ReverseClean
<1> QED BY <1>2, CallAlways, PTL

\* patch_selected called again, with the same selection, on what it made finds
\* nothing to do.
THEOREM SecondRunIsIdle ==
  ASSUME RowsApart
  PROVE  PatchSpec => []SecondRunIdle
<1>1. ASSUME IInv, CallInv, pc = "done", ~failed, last = [toApply |-> toApply, reverse |-> reverse]
      PROVE  applied = {}
  <2>1. Good /\ i \notin Rows
    BY <1>1 DEF CallInv, Good
  <2>2. Settled(file, toApply, reverse)
    BY <1>1 DEF CallInv
  <2>3. ASSUME NEW n \in Rows, Fits(n) PROVE FALSE
    <3>1. CASE \E p \in Windows : Finds(n, p)
      BY <2>2, <3>1, Sides DEF Finds, Active, Settled
    <3>2. CASE table[n].kind = "me" /\ table[n].id \in toApply /\ MeFits
      BY <2>2, <3>2 DEF Settled, MeFits, From
    <3>3. CASE /\ table[n].kind = "spatch" /\ table[n].id \in toApply
               /\ \E B \in BlocksOf(table[n]) : Applies(B)
      <4>1. PICK B \in BlocksOf(table[n]) : Applies(B)
        BY <3>3
      <4>2. /\ \A p \in B : file[p] \in {"old", "new"}
            /\ (\E p \in B : file[p] = "new") <=> reverse
        BY <4>1 DEF Applies, Valid, There
      <4>3. (\E p \in B : file[p] = "new") # reverse
        BY <2>2, <2>3, <3>3, <4>1, <4>2 DEF Settled
      <4>4. reverse \in BOOLEAN
        BY <1>1 DEF IInv, PatchTypeOK
      <4> QED BY <4>2, <4>3, <4>4
    <3> QED BY <2>3, <3>1, <3>2, <3>3 DEF Fits
  <2> QED BY <2>1, <2>3 DEF Good, ReportInv
<1>2. IInv /\ CallInv => SecondRunIdle
  BY <1>1 DEF SecondRunIdle
<1> QED BY <1>2, CallAlways, PTL
==============================================================================
