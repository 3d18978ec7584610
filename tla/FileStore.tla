------------------------------ MODULE FileStore ------------------------------
(***************************************************************************)
(* The files patcher9x works on, and the primitives of system/filesystem.c *)
(* the workflow is built from.  A directory tree is a function from paths  *)
(* to what is stored there; bytes are abstracted to what the workflow can  *)
(* tell apart:                                                             *)
(*   file  the installed file the bytes belong to,                         *)
(*   ver   "old" (patchable), "new" (patched) or "other" (unknown to the   *)
(*         patch tables),                                                  *)
(*   form  the container: a plain driver, a W3 or W4 archive, a KWAJ       *)
(*         archive as shipped by Microsoft ("kwaj"), or the stored KWAJ    *)
(*         archive kwaj_pack writes ("stored", "stored2" when applied to   *)
(*         one of its own outputs).                                        *)
(* Torn is a file whose write was cut short, Absent no file.               *)
(***************************************************************************)
EXTENDS Naturals

CONSTANTS Path, Absent, Torn

Version == {"old", "new", "other"}
Form    == {"raw", "w3", "w4", "kwaj", "stored", "stored2"}
Content == [file : Path, ver : Version, form : Form]
Data    == Content \cup {Absent, Torn}

ASSUME DataAssumption ==
  /\ Absent \notin Content
  /\ Torn \notin Content
  /\ Absent # Torn

\* fs_file_exists
Exists(d, p) == d[p] # Absent

\* The bytes p holds from now on: a finished write, or Torn while it lasts.
Put(d, p, c) == [d EXCEPT ![p] = c]

\* fs_unlink; removing a file that is not there changes nothing.
Unlink(d, p) == [d EXCEPT ![p] = Absent]

\* The successful rename(2) inside fs_rename, newname already unlinked.
Move(d, from, to) == [d EXCEPT ![to] = d[from], ![from] = Absent]

\* wx_to_w4 and wx_to_w3, pe_w3_extract, kwaj_unpack and kwaj_pack change
\* the container and patch_selected the version; what is damaged stays so.
As(c, form)     == IF c \in Content THEN [c EXCEPT !.form = form] ELSE c
Patched(c, ver) == IF c \in Content THEN [c EXCEPT !.ver = ver] ELSE c
==============================================================================
