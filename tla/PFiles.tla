-------------------------------- MODULE PFiles --------------------------------
(***************************************************************************)
(* The table of patchable files (files.c: pfiles) and the paths each row   *)
(* works with.  A path is <<directory, stem, extension>>; the names that   *)
(* fs_path_get derives from a row differ from it in the extension alone,   *)
(* so two rows with the same directory and stem share their temporary and  *)
(* their backup: that is why the derivation is modelled, not assumed.      *)
(***************************************************************************)
EXTENDS Naturals, Sequences

\* A row of pfiles: its file, its directory below the path the user gave,
\* how files.c treats it, and ignore_in_cabscan.
Entry(stem, ext, dir, kind, ignore) ==
  [stem |-> stem, ext |-> ext, dir |-> dir, kind |-> kind, ignore |-> ignore]

pfiles ==
  << Entry("VMM32",    "VXD", "",         "pack",   FALSE),
     Entry("VMM",      "VXD", "VMM32",    "unpack", FALSE),
     Entry("NTKERN",   "VXD", "VMM32",    "unpack", FALSE),
     Entry("IOS",      "VXD", "VMM32",    "unpack", FALSE),
     Entry("ESDI_506", "PDR", "IOSUB",    "plain",  FALSE),
     Entry("SCSIPORT", "PDR", "IOSUB",    "plain",  FALSE),
     Entry("ESDI_506", "PDR", "IOSUBSYS", "plain",  TRUE),
     Entry("SCSIPORT", "PDR", "IOSUBSYS", "plain",  TRUE),
     Entry("NDIS",     "VXD", "VMM32",    "plain",  FALSE),
     Entry("NDIS",     "VXD", "",         "plain",  TRUE),
     Entry("NDIS",     "386", "",         "plain",  FALSE),
     Entry("NDIS",     "38_", "",         "kwaj",   FALSE),
     Entry("VCACHE",   "VXD", "VMM32",    "unpack", FALSE),
     Entry("win",      "cnf", "",         "plain",  FALSE),
     Entry("win",      "com", "..",       "plain",  FALSE) >>

\* fs_path_get with an extension: the one in the name is replaced.
PathGet(dir, stem, ext) == <<dir, stem, ext>>

\* CAB modes put every file in the directory of the archives; files_apply
\* derives the names from the path given (fs_path_get3).
DirOf(e, cabs) == IF cabs THEN "" ELSE e.dir

\* The row as files_lookup uses it: the file, the patched copy (tname), the
\* backup patch_backup_file makes and the file a KWAJ archive unpacks to.
RowOf(e, cabs) ==
  LET name(ext) == PathGet(DirOf(e, cabs), e.stem, ext)
  IN  [fname |-> name(e.ext), tname |-> name("p9x"), bname |-> name("bak"),
       kname |-> name("386"), kind |-> e.kind]

\* The rows a lookup goes through, in the order of the table, of those
\* whose index is in used.
TableOf(used, cabs) ==
  LET row[i \in 0 .. Len(pfiles)] ==
        IF i = 0 THEN << >>
        ELSE IF i \in used /\ ~(cabs /\ pfiles[i].ignore)
             THEN Append(row[i - 1], RowOf(pfiles[i], cabs))
             ELSE row[i - 1]
  IN  row[Len(pfiles)]

\* ename: the W3 form of VMM32.VXD; vname: VMM32.VXD itself.
EPath == PathGet("", "VMM32", "W3")
VPath == PathGet("", "VMM32", "VXD")

PathsOf(table) ==
  {EPath, VPath} \cup
  UNION { {table[i].fname, table[i].tname, table[i].bname, table[i].kname}
          : i \in DOMAIN table }
==============================================================================
