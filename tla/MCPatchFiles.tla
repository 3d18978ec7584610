---------------------------- MODULE MCPatchFiles ----------------------------
(***************************************************************************)
(* PatchFiles over parts of the table of patchable files.  Used holds the  *)
(* indices (those of pfiles in PFiles.tla) of the rows a run looks at.     *)
(***************************************************************************)
EXTENDS PatchFiles, PFiles

CONSTANT Used

\* Windows 98: the SYSTEM directory.
System == {1, 5, 9}
\* VMM32.VXD, drivers taken out of it and a KWAJ archive.
Drivers == {1, 2, 13, 12}
\* The same in the directory of the user: VMM32.VXD, NDIS.VXD and the KWAJ
\* archive NDIS.38_, two files whose copy has one name, NDIS.p9x.
Together == {1, 10, 12}

\* Drivers are all in one directory where archives are unpacked, which gives
\* them other paths but no common ones.
MCTable == TableOf(Used, "cab" \in Lookups)

MCPath == PathsOf(MCTable)

NoOthers == {}

\* What the theorems of PatchFilesProofs assume is so of these tables; where two
\* files share a copy a crash, or a copy that fails, does leave what it should
\* not.
ASSUME TablesAssumption ==
  /\ OwnApart
  /\ Used # Together => Tidy /\ Surviving /\ Exact
==============================================================================
