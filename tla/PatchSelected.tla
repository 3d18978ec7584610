---------------------------- MODULE PatchSelected ----------------------------
(***************************************************************************)
(* patch_selected (patch.c) with patch_select_me and spatch_apply: which   *)
(* patches of the table go into the copy of one file.  The searches read   *)
(* the file as it was given and the writes go to the copy, so a later row  *)
(* of the table does not see what an earlier one did and may write over    *)
(* it; what keeps that from happening are two rules about single rows.     *)
(* The function is called again and again on its own output (a second run  *)
(* of the program, an update, -reverse), which is why the file lives on.   *)
(*                                                                         *)
(* A file is what its places hold: windows the sieves look for, which may  *)
(* be anywhere, and blocks at fixed offsets of the objects in the file     *)
(* (the drivers of a W3 archive, or the file itself).  See PatchTable.     *)
(***************************************************************************)
EXTENDS Naturals, Sequences

CONSTANTS
  table,      \* the rows of ppathes a run is about
  Place,      \* places in the file, numbered as their offsets grow
  Windows,    \* those a cpatch may be found at
  MeA, MeB,   \* the windows of the patch of Windows Me
  Objects,    \* for each spatch the objects of its size: sets of blocks
  Files,      \* the files the program is first given
  Selections, \* what -select and -unselect may leave: sets of ids
  Faults,     \* "read": a read fails; "open": the copy cannot be opened
              \* again; "memory": malloc fails
  MaxRuns     \* bound: how many times the file is given to the program

Upgrades == {"VMM98_OLD", "VMM98_OLD_V2"}
Updated  == {"VMM98", "VMM98_V2"}
Simple   == {"VMM98_SIMPLE", "VMM98_SIMPLE_V2"}

Rows  == DOMAIN table
Ids   == {table[j].id : j \in Rows}
Pairs == UNION {table[j].pairs : j \in Rows}
Values == UNION {{pr[1], pr[2]} : pr \in Pairs} \cup UNION {{f[p] : p \in Place} : f \in Files}
File  == [Place -> Values]
PatchRow == [id : Ids, kind : {"cpatch", "spatch", "me"}, pairs : SUBSET (Values \X Values)]

ASSUME PatchAssumption ==
  /\ Place \subseteq Nat \ {0}
  /\ Windows \subseteq Place
  /\ {MeA, MeB} \subseteq Place
  /\ table \in Seq(PatchRow)
  /\ \A j \in Rows : table[j].kind # "cpatch" => table[j].pairs = {<<"old", "new">>}
  /\ Objects \in [Ids -> Seq(SUBSET Place)]
  /\ Files \subseteq File
  /\ Selections \subseteq SUBSET Ids
  /\ Faults \subseteq {"read", "open", "memory"}
  /\ MaxRuns \in Nat

VARIABLES
  file,       \* fp: the file as it was given, the same for the whole call
  copy,       \* dstfile, the file itself until there is one
  copied,     \* file_copied
  toApply,    \* the ids in to_apply
  reverse,    \* PATCH_REVERSE in to_apply
  i,          \* the row of ppathes
  at,         \* the place a cpatch is at, or the object a spatch is at
  applied, exists, status,
  pc,         \* "idle", "row", "sites", "objects" or "done"
  runs,       \* calls so far
  failed,     \* history: something of Faults happened in this call
  last        \* history: what that call was, if nothing failed in it

call == <<toApply, reverse, runs, last>>
vars == <<file, copy, copied, call, i, at, applied, exists, status, pc, failed>>

Nothing == [toApply |-> {}, reverse |-> FALSE]

Init ==
  /\ file \in Files
  /\ copy = file
  /\ copied = FALSE
  /\ toApply = {}
  /\ reverse = FALSE
  /\ i = 1
  /\ at = 0
  /\ applied = {}
  /\ exists = {}
  /\ status = "ok"
  /\ pc = "idle"
  /\ runs = 0
  /\ failed = FALSE
  /\ last = Nothing

\* The program is called on the file.
Start ==
  /\ pc = "idle"
  /\ runs < MaxRuns
  /\ runs' = runs + 1
  /\ toApply' \in Selections
  /\ reverse' \in BOOLEAN
  /\ copy' = file
  /\ copied' = FALSE
  /\ i' = 1
  /\ at' = 0
  /\ applied' = {}
  /\ exists' = {}
  /\ status' = "ok"
  /\ pc' = "row"
  /\ failed' = FALSE
  /\ UNCHANGED <<file, last>>

--------------------------------------------------------------------------
(* One row of the table                                                    *)

R == table[i]

InRow == pc = "row" /\ i \in Rows

\* What the row looks for and what it writes, swapped by -reverse.
Dir(r)   == IF reverse THEN {<<pr[2], pr[1]>> : pr \in r.pairs} ELSE r.pairs
Sought(r) == {pr[1] : pr \in Dir(r)}
Left(r)  == {pr[2] : pr \in Dir(r)}
New(r, v) == (CHOOSE pr \in Dir(r) : pr[1] = v)[2]
From     == IF reverse THEN "new" ELSE "old"
To       == IF reverse THEN "old" ELSE "new"

Sites(r) == {p \in Windows : file[p] \in Sought(r)}

\* The search stops at the first of the places S.
Found(S) == \E p \in S : (\A q \in S : p <= q) /\ at' = p

NextPatch == /\ pc' = "row"
             /\ i' = i + 1
             /\ at' = 0

Fault(f) == f \in Faults /\ failed' = TRUE
NoFault  == UNCHANGED failed

\* Mutant: the rule about updates is gone.
Ignored_NotUpgrade(r) ==
  r.id \notin toApply \/ (r.id \in Simple /\ applied \cap Updated # {})

\* Not selected; an update, which -reverse would turn into the old version;
\* or the simple version where the updated one has been applied.
Ignored(r) ==
  \/ r.id \notin toApply
  \/ reverse /\ r.id \in Upgrades
  \/ r.id \in Simple /\ applied \cap Updated # {}

SkipPatch ==
  /\ InRow
  /\ Ignored(R)
  /\ NextPatch
  /\ UNCHANGED <<file, copy, copied, call, applied, exists, status, failed>>

InKind(kind) == InRow /\ ~Ignored(R) /\ R.kind = kind

\* fopen_copy makes the copy when it is called first; until then copy is
\* the file, so only file_copied tells.
Opened == copied' = TRUE

\* The copy cannot be opened again (when it cannot be made at all the C
\* library is given a null stream), or there is no memory for a window.
Refused ==
  /\ \/ Fault("open") /\ copied /\ status' = "write"
     \/ Fault("memory") /\ status' = "memory"
  /\ Opened

--------------------------------------------------------------------------
(* Patches found by a sieve                                                *)

FindCpatch ==
  /\ InKind("cpatch")
  /\ Sites(R) # {}
  /\ applied' = applied \cup {R.id}
  /\ Opened
  /\ Found(Sites(R))
  /\ pc' = "sites"
  /\ NoFault
  /\ UNCHANGED <<file, copy, call, i, exists, status>>

\* The patch counts as applied all the same.
CpatchRefused ==
  /\ InKind("cpatch")
  /\ Sites(R) # {}
  /\ applied' = applied \cup {R.id}
  /\ Refused
  /\ NextPatch
  /\ UNCHANGED <<file, copy, call, exists>>

\* Mutant: only the first place is patched.
NextSite_One == NextPatch

\* The search goes on behind the place just patched.
NextSite ==
  LET later == {p \in Sites(R) : p > at}
  IN  IF later = {} THEN NextPatch
      ELSE Found(later) /\ UNCHANGED <<pc, i>>

\* Mutant: the neighbouring window is written.
WriteSite_Beside ==
  /\ pc = "sites"
  /\ copy' = [p \in Place |-> IF p = at + 1 THEN New(R, file[at]) ELSE copy[p]]
  /\ NextSite
  /\ UNCHANGED <<file, copied, call, applied, exists, status, failed>>

\* The window is read from the file, sieved and written to the copy.
WriteSite ==
  /\ pc = "sites"
  /\ copy' = [copy EXCEPT ![at] = New(R, file[at])]
  /\ NextSite
  /\ UNCHANGED <<file, copied, call, applied, exists, status, failed>>

ReadSiteFails ==
  /\ pc = "sites"
  /\ Fault("read")
  /\ status' = "read"
  /\ NextSite
  /\ UNCHANGED <<file, copy, copied, call, applied, exists>>

\* Not found: what the patch leaves is looked for.
CpatchAbsent ==
  /\ InKind("cpatch")
  /\ Sites(R) = {}
  /\ exists' = IF \E p \in Windows : file[p] \in Left(R)
               THEN exists \cup {R.id} ELSE exists
  /\ NextPatch
  /\ UNCHANGED <<file, copy, copied, call, applied, status, failed>>

--------------------------------------------------------------------------
(* patch_select_me                                                         *)

MeFits == file[MeA] = From /\ file[MeB] = From

PatchMe ==
  /\ InKind("me")
  /\ MeFits
  /\ applied' = applied \cup {R.id}
  /\ Opened
  /\ copy' = [copy EXCEPT ![MeA] = To, ![MeB] = To]
  /\ status' = "ok"
  /\ NextPatch
  /\ NoFault
  /\ UNCHANGED <<file, call, exists>>

\* A window that cannot be read is left; the other may be written.
ReadMeFails ==
  /\ InKind("me")
  /\ MeFits
  /\ Fault("read")
  /\ Opened
  /\ \E S \in {{}, {MeA}, {MeB}} :
       copy' = [p \in Place |-> IF p \in S THEN To ELSE copy[p]]
  /\ status' = "read"
  /\ NextPatch
  /\ UNCHANGED <<file, call, applied, exists>>

MeRefused ==
  /\ InKind("me")
  /\ MeFits
  /\ Refused
  /\ NextPatch
  /\ UNCHANGED <<file, copy, call, applied, exists>>

\* Only the first window is looked at, and only for the patch.
MeAbsent ==
  /\ InKind("me")
  /\ ~MeFits
  /\ exists' = IF file[MeA] = "new" THEN exists \cup {R.id} ELSE exists
  /\ status' = "ok"
  /\ NextPatch
  /\ UNCHANGED <<file, copy, copied, call, applied, failed>>

--------------------------------------------------------------------------
(* spatch_apply, on one object of the file after another                   *)

BeginObjects ==
  /\ InKind("spatch")
  /\ IF Objects[R.id] = << >>
     THEN NextPatch /\ status' = "ok"
     ELSE at' = 1 /\ pc' = "objects" /\ UNCHANGED <<i, status>>
  /\ UNCHANGED <<file, copy, copied, call, applied, exists, failed>>

Object == Objects[R.id][at]

NextObject ==
  IF at < Len(Objects[R.id]) THEN at' = at + 1 /\ UNCHANGED <<pc, i>>
  ELSE NextPatch

\* Mutant: a block that is neither is passed over.
Valid_Any(B) == \E p \in B : file[p] \in {"old", "new"}

\* valid: every block is the old or the new one; patch_exists: one is new.
Valid(B) == \A p \in B : file[p] \in {"old", "new"}
There(B) == \E p \in B : file[p] = "new"

Applies(B) == Valid(B) /\ (There(B) <=> reverse)

PatchObject ==
  /\ pc = "objects"
  /\ Applies(Object)
  /\ applied' = applied \cup {R.id}
  /\ Opened
  /\ copy' = [p \in Place |-> IF p \in Object THEN To ELSE copy[p]]
  /\ status' = "ok"
  /\ NextObject
  /\ UNCHANGED <<file, call, exists, failed>>

ObjectRefused ==
  /\ pc = "objects"
  /\ Applies(Object)
  /\ copied
  /\ Fault("open")
  /\ applied' = applied \cup {R.id}
  /\ status' = "write"
  /\ NextObject
  /\ UNCHANGED <<file, copy, copied, call, exists>>

LeaveObject ==
  /\ pc = "objects"
  /\ ~Applies(Object)
  /\ exists' = IF Valid(Object) /\ ~reverse THEN exists \cup {R.id} ELSE exists
  /\ status' = "ok"
  /\ NextObject
  /\ UNCHANGED <<file, copy, copied, call, applied, failed>>

\* There is no buffer, or a block cannot be read.
ReadObjectFails ==
  /\ pc = "objects"
  /\ \/ Fault("read") /\ status' = "read"
     \/ Fault("memory") /\ status' = "memory"
  /\ NextObject
  /\ UNCHANGED <<file, copy, copied, call, applied, exists>>

--------------------------------------------------------------------------
(* The end of the call, and what becomes of the copy                       *)

Finish ==
  /\ pc = "row"
  /\ i \notin Rows
  /\ pc' = "done"
  /\ UNCHANGED <<file, copy, copied, call, i, at, applied, exists, status, failed>>

\* The caller looks at applied alone, not at the result.
Accept ==
  /\ pc = "done"
  /\ applied # {}
  /\ file' = copy
  /\ last' = IF failed THEN Nothing ELSE [toApply |-> toApply, reverse |-> reverse]
  /\ pc' = "idle"
  /\ UNCHANGED <<copy, copied, toApply, reverse, runs, i, at, applied, exists, status, failed>>

\* The user says no, or there is nothing to do.
Discard ==
  /\ pc = "done"
  /\ pc' = "idle"
  /\ copy' = file
  /\ UNCHANGED <<file, copied, call, i, at, applied, exists, status, failed>>

CpatchStep == \/ FindCpatch \/ CpatchRefused \/ WriteSite \/ ReadSiteFails
              \/ CpatchAbsent
MeStep     == PatchMe \/ ReadMeFails \/ MeRefused \/ MeAbsent
SpatchStep == \/ BeginObjects \/ PatchObject \/ ObjectRefused \/ LeaveObject
              \/ ReadObjectFails
Next == \/ Start \/ SkipPatch \/ CpatchStep \/ MeStep \/ SpatchStep \/ Finish
        \/ Accept \/ Discard

PatchSpec == Init /\ [][Next]_vars

--------------------------------------------------------------------------
(* Properties                                                              *)

\* Types of the variables.
PatchTypeOK ==
  /\ file \in File /\ copy \in File
  /\ copied \in BOOLEAN /\ reverse \in BOOLEAN /\ failed \in BOOLEAN
  /\ toApply \subseteq Ids /\ applied \subseteq Ids /\ exists \subseteq Ids
  /\ i \in 1 .. Len(table) + 1
  /\ at \in Nat
  /\ status \in {"ok", "read", "write", "memory"}
  /\ pc \in {"idle", "row", "sites", "objects", "done"}
  /\ runs \in 0 .. MaxRuns
  /\ last \in [toApply : SUBSET Ids, reverse : BOOLEAN]

\* The places a row may write, with what it leaves there.
Writes(r, p, v) ==
  \/ r.kind = "cpatch" /\ p \in Windows /\ <<file[p], v>> \in Dir(r)
  \/ r.kind = "me" /\ p \in {MeA, MeB} /\ v = To
  \/ /\ r.kind = "spatch" /\ v = To
     /\ \E k \in DOMAIN Objects[r.id] : p \in Objects[r.id][k]

\* The copy differs from the file only where a patch that was selected and
\* is reported as applied belongs, whatever fails.  (The patch of Windows
\* Me is the one that is not reported when the half of it is written.)
OnlyReported ==
  \A p \in Place : copy[p] # file[p] =>
    \E j \in Rows :
      /\ Writes(table[j], p, copy[p])
      /\ table[j].id \in toApply
      /\ table[j].id \in applied \/ (table[j].kind = "me" /\ failed)

Chosen(kind) == {table[j] : j \in {n \in Rows : /\ table[n].kind = kind
                                                 /\ table[n].id \in toApply}}

\* What a window should hold: what the updated patches make of it, what the
\* simple version makes of it where there is none, or what it held.
Best(v) ==
  LET outcome(S) == {New(r, v) : r \in {q \in S : v \in Sought(q)}}
      plain  == {r \in Chosen("cpatch") : r.id \notin Simple}
      simple == Chosen("cpatch") \ plain
  IN  IF outcome(plain) # {} THEN outcome(plain)
      ELSE IF outcome(simple) # {} THEN outcome(simple) ELSE {v}

BlocksOf(r) == {Objects[r.id][k] : k \in DOMAIN Objects[r.id]}

\* Whether S was all From in the file and is all To in the copy, or was not
\* and is as it was.
Turned(S) == IF \A p \in S : file[p] = From
             THEN \A p \in S : copy[p] = To
             ELSE \A p \in S : copy[p] = file[p]

\* README.md:100: the program "automatically determine when needs to
\* replace patches with newer ones".  A call in which nothing fails leaves
\* every window as the best selected patch for it makes it, at every place
\* it is found, and applies a patch of several blocks whole or not at all.
ForwardExact ==
  pc = "done" /\ ~reverse /\ ~failed =>
    /\ \A p \in Windows : copy[p] \in Best(file[p])
    /\ \A r \in Chosen("spatch") : \A B \in BlocksOf(r) : Turned(B)
    /\ Chosen("me") # {} => Turned({MeA, MeB})

\* README.md:132: with -reverse no selected patch is left in the file, nor
\* the half of one.
ReverseClean ==
  pc = "done" /\ reverse /\ ~failed =>
    /\ \A r \in Chosen("cpatch") : \A p \in Windows : copy[p] \notin Sought(r)
    /\ \A r \in Chosen("spatch") : \A B \in BlocksOf(r) :
         Valid(B) => \A p \in B : copy[p] = "old"
    /\ Chosen("me") # {} => Turned({MeA, MeB})

\* To call the program again on what it made finds nothing to do: there is
\* no row that undoes or repeats what another did.
SecondRunIdle ==
  pc = "done" /\ ~failed
    /\ last = [toApply |-> toApply, reverse |-> reverse]
    => applied = {}


--------------------------------------------------------------------------
(* What theorems assume of the table                                       *)

Cpatches  == {n \in Rows : table[n].kind = "cpatch"}
OldOf(n)  == {pr[1] : pr \in table[n].pairs}
NewOf(n)  == {pr[2] : pr \in table[n].pairs}
IsSimple(n)  == table[n].id \in Simple
IsUpgrade(n) == table[n].id \in Upgrades

\* The rows of the TLB patches, and what their windows may hold.
Tlb       == {n \in Rows : table[n].id \in Upgrades \cup Updated \cup Simple}
TlbValues == UNION {OldOf(n) \cup NewOf(n) : n \in Tlb}

Blocks == UNION {BlocksOf(table[n]) : n \in {j \in Rows : table[j].kind = "spatch"}}

\* Windows, blocks and the places of Windows Me share nothing.
PlacesApart ==
  /\ Windows \cap {MeA, MeB} = {}
  /\ \A B \in Blocks : B # {} /\ B \cap (Windows \cup {MeA, MeB}) = {}
  /\ \A B, C \in Blocks : B = C \/ B \cap C = {}

\* A file has one window for the TLB patches, and no other row finds it.
OneTlb ==
  /\ Tlb \subseteq Cpatches
  /\ \A n \in Cpatches \ Tlb : (OldOf(n) \cup NewOf(n)) \cap TlbValues = {}
  /\ \A f \in Files : \A p, q \in Windows : {f[p], f[q]} \subseteq TlbValues => p = q

\* A simple version comes behind the updated one that finds its window.
SimpleLast ==
  \A s, n \in Cpatches :
    IsSimple(s) /\ ~IsSimple(n) /\ n < s /\ OldOf(s) \cap OldOf(n) # {} => table[n].id \in Updated

\* Only an update looks for what another row leaves, a simple version.
OneWay ==
  \A n, j \in Cpatches : NewOf(n) \cap OldOf(j) # {} => IsSimple(n) /\ IsUpgrade(j)

\* -select and -unselect take the TLB patches together: with an update there
\* are rows for what it is about, whole and in the other direction.
TogetherTlb ==
  \A S \in Selections : \A j \in Cpatches : table[j].id \in S /\ IsUpgrade(j) =>
    /\ \A w \in NewOf(j) : \E n \in Cpatches : table[n].id \in S /\ ~IsUpgrade(n) /\ w \in NewOf(n)
    /\ \A s \in Cpatches : \A pr \in table[s].pairs :
         table[s].id \in S /\ IsSimple(s) /\ pr[2] \in OldOf(j)
           => \E n \in Cpatches : table[n].id \in S /\ ~IsSimple(n) /\ pr[1] \in OldOf(n)

RowsApart == PlacesApart /\ OneTlb /\ SimpleLast /\ OneWay /\ TogetherTlb
==============================================================================
