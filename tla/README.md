# patcher9x in TLA+

patcher9x patches the system files of Windows 3.11, 95, 98 and Me so that they run on fast and new
processors, with much memory. It works on an installed system or on installation media, and a wrong step
leaves a machine that does not boot. The program is sequential; what makes it hard is that its state is a
directory of files, that it can be stopped (by a power cut, from the boot floppy it usually runs on) between
any two file operations, that most of its file operations do not look at their own result, and that it packs
and unpacks three archive formats, one of them with a decompressor for each of three methods.

This directory has the specifications of the parts whose correctness matters most, the TLC models that check
them and TLAPS proofs of the main results.

## The system

| part | source | state | operations | in |
|---|---|---|---|---|
| patch workflow | `files.c` | the directory; `pmodfiles_t`, the list of files looked up; the loop indices | `files_lookup`, `files_apply`, `files_status`, `files_commit`, `files_cleanup` | `PatchFiles` |
| interactive program | `patcher9x.c`, `help.h` | the options, the mode, the list of patches to apply | `read_arg`, `main`, `ask_user`, `ask_user_patch`, `wait_enter` | `Program`; from the lookup on `PatchFiles` |
| batch commands | `batch.c`, `patch.c` 860-1036 | two temporary files | `--vxd-extract`, `--vxd-convert`, `--patch`, `--cabs-extract`... | `Batch` |
| table of files | `files.c` 38-56 | constant | | `PFiles` |
| backup | `patch.c` 1038-1091 | the `.bak` files | `patch_backup_file` | `PatchFiles`, promise in `SafeReplace` |
| file primitives | `system/filesystem.c` | the directory | exists, unlink, rename, copy, names | `FileStore` |
| DoubleSpace codec | `pe/ds_compress.c`, `pe/ds_decompress.c` | position in the block, hash lists, bit buffer | `ds_compress`, `ds_decompress` | `DoubleSpace`, `DsTokens`, `DsCode` |
| bit streams | `system/bitstream.h` | byte and bit position | read, write, flush, little endian | `DsCode` |
| W4 archives | `pe/pew.c` | table of chunk offsets, size of the file | `pe_w3_to_w4`, `pe_w4_to_w3` | `W4File` |
| W3 archives | `pe/pew.c` | headers, directory of drivers | `pe_read`, `pe_w3_extract` | as one step in `PatchFiles`, `Batch` |
| conversion | `unpacker.c` 640-1010 | temporary files | `wx_unpack`, `wx_to_w3`, `wx_to_w4` | steps of `PatchFiles`, `Batch` |
| sets of CAB archives | `unpacker.c` 140-640, `mspack/cabd.c` | the table of files, the chain of joined archives | `cab_search_unpack`, `cabd_append`, `cabd_prepend` | `CabSet` |
| CAB decompression | `mspack/cabd.c`, `mszipd.c`, `lzxd.c`, `qtmd.c` | the decompressor kept between requests: window, frame, input buffer, error | `cabd_extract`, `mszipd_decompress`... | `Decomp` over `Folder`, `Mszip`, `Lzx`, `Quantum` |
| KWAJ archives | `unpacker.c` 1012-1323, `mspack/kwajd.c`, `lzssd.c`, `readhuff.h` | headers, ring of 4096 bytes, code tables | `kwaj_pack`, `kwaj_unpack`, `kwaj_get_name` | `Kwaj`, `Huffman` |
| binary patches | `patch.c`, `system/bpatcher.c`, data headers | the copy, `applied`, `exists`, `status` | `patch_selected`, `patch_select_me`, `spatch_apply` | `PatchSelected`, `PatchTable`; as two steps in `PatchFiles` |
| patch of `win.com` | `patch.c` 623-850, `crfix/crfix.h` | the copy | `patch_select_wincom`, `wincom_writepatch`, `wincom_erasepatch` | `WinCom` |
| sieve search | `system/bpatcher.c` | a buffer of two parts of the file | `search_sieve_file`, `search_sieve` | `Sieve` |
| making of patches | `vmm/makepatch.c` | | `main` | `Sieve` |
| trace, processor test, console | `trace.c`, `cputest.c`, `pwin32.c` | | | not modelled |

How they interact: `run_interactive` asks for a directory and calls `files_lookup`. For every row of the
table whose file it finds (in the directory, inside `VMM32.VXD`, or in CAB archives) it unpacks the file if it
has to and calls `patch_selected`, which writes a patched copy (`.p9x`) next to it if some patch fits.
`files_status` shows the list; if the user agrees `files_commit` makes a backup (`.bak`) of each file and puts
the copy in its place, compressing `VMM32.VXD` (W4, chunks of 8 KB in DoubleSpace code) and KWAJ archives
again; otherwise `files_cleanup` removes what was made. A batch command does one such step on the files its
arguments name, over temporary files that always have the same names. All parts share one state, the
directory, and tell each other of failures by return values that are often not looked at.

### What makes each part correct

* Workflow: the user's bytes survive whatever happens; a backup is whole before the file is touched; a
  commit patches the files it announced and no other; a run that is not committed, and a run that is, leave
  nothing behind; the program ends.
* Codec: compression loses nothing, for any block and whatever strings the lookup finds; the decompressor
  stays in its buffer and ends for any input; what it gives out before damage is right.
* W4: chunks that are stored and chunks that are compressed are told apart by their size alone.
* Binary patches: the copy differs from the file only where a reported patch belongs; every window ends as the
  best selected patch makes it; a second call finds nothing to do; `-reverse` leaves no patch behind.
* `win.com`: with or without the fix the program goes on at the address it started at; nothing outside the fix
  changes; `-reverse` gives back the file; an old fix is replaced.
* Sieves: a patch is written where it fits, wherever the parts of the file are cut, and nowhere else; a patch
  fits the file it was made for at every address, and its reverse brings the file back.
* Program: a commit needs a yes; a command reports what it did, writes no file it was not told to, and leaves
  an archive it patches whole.
* CAB: a file that can be put together from the archives at hand is, whatever order they are met in, and what
  is written is that file; joining leaves no pointer to what it freed; the search ends.
* Decompression: what a request says is right is right, whatever was asked before; valid folders never fail;
  damaged ones end.
* KWAJ: what the program packs both readers unpack; every archive of the methods is unpacked as the format says.

## The modules

`FileStore` is the directory: a function from paths to contents. A content is the file it belongs to, its
version (`old` is patchable, `new` patched, `other` unknown) and its container. `Torn` is a file whose write
was cut short, `Absent` none. `PFiles` has the table of patchable files with the names derived from it:
`fs_path_get` replaces an extension, so `WIN.COM` and `WIN.CNF` share `WIN.p9x`.

`PatchFiles` is the workflow. `pc` is the next step; every write of a file takes two (`Put(.., Torn)` when it
is opened, the contents when it is closed), every unlink and rename one, so that a crash finds every state of
the directory the program can leave. `row`, `branch`, `made` are the locals of `files_lookup`, `list` is
`pmodfiles_t`, `k`, `after`, `cnt` those of `files_commit`. `orig` (the directory the user first had) and
`before` (when this run began) are history. Names of actions say the function and step: `BeginExtract` /
`EndExtract` are the four unpackers, `BeginPatch` / `EndPatch` `patch_selected`, `CommitFile`, `BeginBackup`,
`BeginPack`, `RenameUnlink`, `RenameMove`, `RenameCopies` the steps of a commit; a lookup of mode "file" is
`files_apply` on `Given`. What may go wrong in the environment is the constant `Faults`: crashes, restarts, unwritable backups and archives, unreadable archives,
`rename` that fails, a copy that fails, a full disk.

`SafeReplace` is what a commit promises of each file: it is saved while it is the original, damaged only once
it is saved, and finished. `PatchFiles` implements it; `live` and `saved` are read off the directory.

`DsTokens` and `DsCode` are the DoubleSpace code: tokens, and their bits as `ds_out_pos`, `ds_out_chr` and
`bs_write_bit_le` write and `ds_decompress`, `ds_count` and `bs_read_bit_le` read them, through a window of 32
bits. `DoubleSpace` is the codec of a block over tokens: the compressor's steps (a copy of a string found, a
run, a byte, the end of a segment, the end of the block), what may happen to the stream (nothing, or a cut
after which come a stray token and zeroes), and the decompressor byte by byte. Which strings `ds_lookup` finds
is left open among those it could find, so `-rle` mode and every state of the hash lists are covered.

`W4File` extends both: a file of chunks is compressed with `DoubleSpace`, chunk after chunk; each is stored by
`StoreChunk` as its stream or, if that is no shorter, as it is; `bits` is the length of the stream, counted token
by token as `bs_write_bit_le` writes it. The file is then read back, the size of a chunk taken from the table of offsets and for the last chunk from the end of the file,
as `pe_w4_read` does.

`PatchTable` is the table `ppathes` of `patch.c`. What matters of the window a sieve looks for is which rows find
it, so its values are the classes of bytes the rows tell apart, and a row is a set of pairs (found, left). That
one row leaves what another one finds (`simple`, `full`, `fast`) was read off the data headers.

`PatchSelected` is `patch_selected` with `patch_select_me` and `spatch_apply` on one file: a file is what its
places hold, the windows of the sieves and the blocks of the patches with fixed offsets. `file` is what `fp` reads,
`copy` what `dstfile` holds, `i` the row, `at` the window or the object in the archive. The rows are visited
in order, the reads go to `file` and the writes to `copy`, reads, allocations and the opening of the copy may
fail. `Accept` and `Discard` are what the workflow does with the copy, after which the program may be called on
the result, with another selection or `-reverse`. `last` is history: what the last call was.

`WinCom` is the patch of `win.com`, which is not a replacement: a block of code goes into one of five places if it
is all zeroes, the jump at the start of the program is turned to it, and the jump at the end of the block goes to
where the first one went. A file is the displacement of its first jump and the contents of the five places; the
arithmetic is that of the code, on 16 bits. There are two revisions of the block, of 144 and 224 bytes; taking
one out finds the address in its last bytes, so the length matters. A place is taken to be 224 zeroes or not to
be free, and the start of a program to be an address of 16 bits (`ComAssumption`). `orig` is history, as is
`misread`: a reverse has met an old block, from where on the program is lost (run `comreverse`).

`Sieve` is what the windows of `PatchTable` stand for: `makepatch` over four images of a routine, then
`patch_selected` with one such patch on a file of bytes. `ReadPart` is a turn of the loop of
`search_sieve_file`: the tail of the part before is moved down, a part is read, and the whole buffer searched,
though less of it may be new. `made` and `first` are history: the images the patch was made from, and the file
before the first call.

`Program` is `main`: a command line goes through `read_arg` option by option, then a command of `Batch` is
called, or the dialogue runs over lines of keys; `deed` is what that leads the workflow to do. `Batch` EXTENDS
`FileStore` as `PatchFiles` does, with the same two steps for a write (`w` is the write that goes on). `cmd` is the
command, `arg` the argument it has come to, `t` the status of the last step and `r` what the command returns;
`start` is history; `Holds` says which drivers an archive has.

`CabSet` is `cab_search_unpack` over a directory of archives: each may or may not open, names its neighbours, and
has folders whose first or last block goes on in the next archive. `left` are the names of the directory still to
come, `scanned` the list of archives already looked at; `prevlist` and `nextlist` are what `cab_analyze` finds before
and behind `search`, joined one by one (`at`, `item`). `cab` and `fold` are the objects of `cabd.c`: what is freed is
no longer in them, so that a pointer left to it shows.

`Decomp` is `cabd_extract`: it chooses the decompressor kept from the request before or makes a new one, lets it run
over what lies before the file without writing, then writes. `Folder` has what all methods share: the blocks,
their checksums, the input buffer and the two bytes made up at the end. `Mszip`, `Lzx` and `Quantum` are the three
loops; they work on items, the least the code reads at once, so that the window, the frames, the distances, the
translation of calls, the order of reads and errors are kept, and bits are not.

`Kwaj` has the packer, the two readers of a header (of this program and of libmspack) and the unpackers as functions
from a file to what they write; for the method LZH a file is bits. `Huffman` is `make_decode_table` and
`READ_HUFFSYM` with a reference: the canonical code. `KwajExpand` is what packed data stands for, without tables and
windows, which `UnpackedExact` compares with.

The models meet in `FileStore`: `Patched` there stands for a call of `PatchSelected` that ends with
`applied # {}`, or of `WinCom` that ends with `applied`; a window there is what `Sieve` finds; the archives `Batch`
and the mode "cab" of `PatchFiles` take files from are those of `CabSet`, and their contents what `Decomp` makes.

Modules that begin with `MC` give the constants their values for TLC. Definitions named `X_Y` next to a definition
`X`, marked as mutants, are plausible bugs of it; each property is known to fail for one of them.

## What the runs check

| run | constants | shows |
|---|---|---|
| `system` | VMM32.VXD, ESDI_506.PDR and NDIS.VXD in place; 2 starts; crash, failing rename | `AbortRestores`, `NoTempLeft`, `Recoverable`, `BackupBeforeModify`, `ImplementsSafeReplace`, `AgreedIsDone`: each file the user said yes to ends up whole and patched |
| `extract` | drivers in VMM32.VXD, both lookups that take them out, files in CAB archives, VMM32.VXD given by its path, `-force-w3`, and NDIS.38_ next to it; `-no-backup`, crash, failing rename | `CommitExact`, and `SomeVersionSurvives` although nothing is saved |
| `faults` | VMM32.VXD, and NDIS.VXD and NDIS.38_ which share a name for their copies; every fault and restarts, 2 starts | `OnlyAnnouncedChange` |
| `patches` | nine rows that meet in one VMM.VXD, three windows, two objects, the windows of Windows Me; three selections, `-reverse`, every fault, 2 calls | `OnlyReported`, `ForwardExact`, `ReverseClean`, `SecondRunIdle` |
| `sieve` | 60 patches made from images of 3 bytes, sought in every file of 0 to 5 bytes over 3 values, read in parts of 2; forward, reverse and dry, 2 calls | `PatchedAsWhole`, `MadeRight` |
| `wincom` | 128 programs: four start addresses, each of the five places free or not; new or with an old fix, patched, updated, reversed, with faults; 4 calls | `EntryKept`, `ProgramKept`, `Reversed`, `Updated` |
| `w4file` | W4 archives of up to three chunks, the last cut or not | codec: `RoundTrip`, `PrefixExact`, `InBounds`, `CodesExact`; archive: `ChunksSurvive`, `Ends` |
| `cabset` | a set of three archives in two makings, met in every order, each missing, damaged, unreadable or naming a wrong neighbour, and an alien one | `ExtractedExact`, `FoundIfThere`, `NoDangling`, `Ends` |
| `decomp` | 30 archives with folders of the four methods, right, damaged and malformed; five sizes of the buffer; 3 requests of any files | `FileExact`, `ValidExtracts`, `RequestsEnd` |
| `kwaj` | short files under names of 0 to 9 characters; archives of the methods none, xor, szdd and lzh with every combination of headers, cut anywhere | `PackedSame`, `UnpackedExact`, `NamesAgree` |
| `program` | 24 command lines, dialogues of up to 3 lines, then batch commands over two archives with a driver of one name, 2 of them in a row, each stopped at any step | `Consent`, `AllOrNothing`, `ReportedRight`, `OthersKept`, `TempsGone` |
| `comreverse` | `wincom` with revision 0 of the fix in the file | violated by the code, see below |

What the properties say is stated above each in the modules.

Bounds. Three or four rows of the table are enough for the interactions there are: a commit handles its items one
after another and two items interact only through a shared name or through VMM32.VXD. Two starts of the program
(`MaxRuns`) show what one run leaves to the next. Every initial directory is tried: each file absent or in one
of the versions in `Versions`, VMM32.VXD packed or not; what an archive has of a file the user has is never
looked at, so it has none. In `w4file` a chunk has 16 bytes in segments of 8, the smallest where the real
code makes a run and a repeated string pay and single bytes not; the streams of the files are shorter than, as
long as and longer than a chunk. `CodesExact` also asks the code of copies at the real limits (distance 63, 64,
319, 320, 4414, length 2 to 512), where the small blocks do not reach. The decompressor's damage is any prefix of
a stream, then one of the stray tokens, then end marks. In `patches` one window of the TLB patch and two of CPU
speed are enough: rows interact only where they find the same window or one finds what the other leaves, and
the second place of CPU speed is there for the loop over places. All mixtures of values are initial files, also
those only an earlier version of the program leaves. Two calls show what one makes of the output of the other. In
`wincom` the addresses are the real ones, the starts are that of a real program, one behind the places, and the
lowest and highest a jump can name; four calls are an update, a reverse, a patch and a reverse again.

In `sieve` a patch of two bytes at offset 1 of three, in parts of two bytes, can lie in one part, across two, at the
end of the file and in the buffer behind it; two places of one file may overlap. In `cabset` a folder goes through
all three archives, ends in the second or begins there, which are the cases of joining; blocks of two cells make a
file begin and end inside one. In `decomp` a frame has 6 cells and a window 12, or 4 for Quantum's that is smaller
than a frame; buffers of 1 to 9 items end behind a mark, a header, a code and a frame; three
requests are a decompressor made, kept, and kept or made again after an error. The plain contents are written out by
hand in `MCDecomp`. In `kwaj` the ring has 8 places and the codes up to 3 bits behind a direct table of 2, so that
both the direct table and the pairs behind it are used; names of 8 and 3 characters are at the real limits and 9 is
over them. In `program` two commands (`MaxRuns`) show what the temporary files of one are to the next, and the
dialogue only comes before them; three lines are enough to answer, take back and answer again.

Fairness. `PatchFiles` is weakly fair for `Step`, the program's own steps: it is one thread that waits only for
the user. The user's answer, a start and a crash are not fair, so `AgreedIsDone` begins at the answer and says nothing
of a run that crashes. Where both the rename and the copy fail (`copy`), or VMM32.VXD cannot be written (`pack`), the
code drops what was agreed to, and the run has neither fault. `DoubleSpace`, `W4File`, `CabSet` and `Decomp` are
weakly fair for their next-state relation: a conversion or an extraction runs by itself, and the choice of the next
request in `Decomp` is not needed for the one before to end. `Program` with `Batch`, `Kwaj`, `Sieve`,
`PatchSelected` and `WinCom` are checked for safety only. `CHECK_DEADLOCK FALSE` is set because every run of the
program ends.

## What is proved

TLAPS checks these for every value of the constants, under the named assumptions of the modules.

* `PatchFilesProofs`, what a commit does to each file: `TypeCorrect`, the type invariant; `OriginalsSurvive` (`Recoverable`), `BackupFirst`
  (`BackupBeforeModify`) and `CommitRefines` (`ImplementsSafeReplace`: every step of the workflow is a step of
  `SafeReplace` or changes none of its variables). `Recoverable` is not inductive: that the file may be torn
  relies on the backup being whole, and this on where the program is in the commit. `BackupInv` says it: a row
  that is being replaced is safe (`Safe`), a torn backup exists only in the step that writes it, an extracted
  driver has no original. The theorems assume `DistinctNames` (no two rows share a file or a backup; true of
  the rows of Windows 95, 98 and Me, false of `WIN.COM` and `WIN.CNF`) and that there are no restarts,
  unwritable backups or full disks, each of which breaks them: what a restart does is told below.
* `PatchFilesProofs`, what a whole run does to the directory: `OnlyAnnounced` (`OnlyAnnouncedChange`, under every
  fault and restart), `CancelRestores` (`AbortRestores`), `TemporariesGo` (`NoTempLeft`), `OneVersionSurvives`
  (`SomeVersionSurvives`) and `CommitsExactly` (`CommitExact`). `TidyInv` says that before the commit only
  temporary names differ from the directory the run began with, and which item each one there is belongs to;
  `SurviveInv` that the copy of each item the loop has not come to has the new version; `ExactInv` what the copy of
  each item must hold, and that a file with no item is not one the run should patch. The assumptions are named in
  `PatchFiles`: `OwnApart`, that nothing the user has is called like a temporary file; `Tidy`, that the temporary
  names are apart and no archive is unreadable, no copy fails and nothing is restarted; `Surviving`, that each row
  has a copy of its own and no write fails halfway unseen; `Exact`, both sets of names, and of the faults only
  crashes, unwritable backups and failing renames, which `files_commit` makes good. What each fault left out
  does is said with the assumption: it leaves a copy, spoils one, or takes away what was saved.
* `PatchSelectedProofs`: `PatchTyped` and `CopyIsReported` (`OnlyReported`), for every table, set of places,
  file, selection and fault, and any number of calls. The invariant adds where the loops are (`AtInv`): at a
  place the search has found, or an object of the row, with a row that was selected and, in the loop over
  places, is already in `applied`; before the copy is opened it is the file. `CopyWritten` carries the
  property over a write, `CopyStays` over every other step. `ForwardIsExact` (`ForwardExact`), `ReverseIsClean`
  (`ReverseClean`) and `SecondRunIsIdle` (`SecondRunIdle`) say what a call that nothing failed in has made, for
  tables that keep apart (`RowsApart`): windows and blocks share no place, a file has one window for the TLB
  patches, only an update finds what another row leaves, a simple version comes last, and `-select` and `-unselect`
  take the TLB patches together (`patch.c:1114`). This is so of the rows of `ppathes` with a file: one VMM has one
  routine that empties the TLB. The objects of W3 and of the W3 of 16 MB share nothing; those of the two builds of
  Windows 98 do, so a table has those of one. `CallInv` says what each window and block holds when some of
  the rows have been through it, and which rows are reported by then.
* `SieveProofs`: `PatchesAsWhole` (`PatchedAsWhole`) for every size of the parts, patch, file and number of calls:
  the places found part by part are those a search through the whole file takes from left to right. `SieveInv`
  says that the buffer holds the part of the file it should (`Reading`), that nothing is taken before it
  (`SoFar`), and where old bytes are left behind the end of the file (`Stale`). `MadePatchesRight` (`MadeRight`)
  needs the history of the first call as well.
* `WinComProofs`: `EntryStays` (`EntryKept`), `ProgramStays` (`ProgramKept`), `ReverseRestores` (`Reversed`),
  `UpdatesFix` (`Updated`) and `ComTyped`, for any addresses, originals and number of calls. The invariant `ComInv`
  says which files there are: the original, or the original with one fix in a place that was zeroes (`Known`),
  and where the copy has to be the original itself. `EraseRestores` and `FixReaches` are the arithmetic, from
  `WrapBack`: what is subtracted modulo 2^16 comes back when it is added. `UpdateInv` holds after a misread fix
  too, where `ComInv` says nothing: every file has at most one fix, and its first jump leads there.
* `DoubleSpaceProofs`, one block: `RoundTrips`, `StaysInBounds` and `PrefixIsExact`, for every block, segment size,
  distance limit and outcome of the lookup. The inductive invariant `DsInv` relates each token to the part of the
  block it stands for (`Says`, with `starts` as history) and the decompressor's position to the token it reads,
  within a copy as well; damage only shortens the part of the stream (`intact`) this is known of. A whole
  archive: `ChunksComeBack` (`ChunksSurvive`) and `CodecInArchive`, with `W4Inv`. Its parts: the chunks stored
  follow one another (`ChunksInv`); a stream takes less than two chunks, since a byte has at most 9 bits, a segment
  at most 15 more and the end 8 (`BitsInv`); so what an overlong stream leaves behind the chunk stored
  in its place ends less than a chunk further on, and is gone with the next full one (`EofInv`). `CodeAssumption`
  is what this needs of the constants, and the code's are so: 2 to 40 tries, runs of 3 and more, distances to
  4414, segments of 512 in chunks of 8192. The code itself: `CodesAreExact` (`CodesExact`). Each token has a code
  (`CodeInv`, with `Sayable`: a byte, or a distance and a length within the widths of their fields), the bits of
  a token say where it ends (`ReadsToken`: the prefix, then the fields of the distance, then the length in its
  unary-and-binary form), whatever the bits behind it, and none needs more than the 32 bits of the window; so a
  stream is read as it was written (`AllRead`).
* `ProgramProofs`: `KeepsOthers` (`OthersKept`), `RemovesTemps` (`TempsGone`), `MakesAllOrNothing` (`AllOrNothing`),
  `ReportsRight` (`ReportedRight`), `AsksFirst` (`Consent`) and `AlwaysTyped`, for every command line, directory
  and step a command is stopped at. `FewTemps` names the steps at which a temporary file may be there; `WholeInv`
  says of each argument that its output is untouched while the command is before it, and whole or being
  written else; `GoodInv` what the temporary W3 archive and the outputs hold while no step has failed.
  `MakesAllOrNothing` and `ReportsRight` assume `Apart` (`Batch`): no output is an input of the same command
  or a second output, no input is called like a temporary file. With such a command line the commands do
  read what they have just written.
* `CabSetProofs`: `NothingDangles` (`NoDangling`), for every directory, every order and every archive that cannot be
  opened or joined. What a joining frees must be in no list of an archive outside the two chains that are joined,
  which is a matter of all archives at once. `ChainInv` says that neighbours name each other and that a set of
  archives closed under them (`Linked`) has all that their lists name (`Held`); the chain behind the right archive
  and all others are two such sets because `cabd_merge` looks for circles; and a file kept for a later joining is in
  the folder that keeps it (`Own`). That needs a file that goes on in both directions to be in the only
  folder of its archive (`CabAssumption`), as the format has it; `cabd.c` does not look.
  `ExtractedIsExact` (`ExtractedExact`), for every number of archives, folders and pieces and every size of a block:
  `Way` says that the archives in the two lists are next to each other in their set and `at` is the last of them,
  `Ordered` that the archives joined are in that order with the lists of all, `DataAt` that a folder is made of parts
  each of which begins with the piece behind the last (`Chained`), and `EndInv` that the files the last folder keeps
  for the next joining, which `cabd_can_merge_folders` compares, go on in the next archive. `MergeSets` keeps all
  three; then `PiecesAre` and `ReadIs` say what a folder gives. It assumes of the archives that the pieces of a
  folder are in order and full but for the last block (`PiecesAssumption`), and that a file listed alike in two
  archives of a set is the same file (`SetsAssumption`): `cabd.c` goes by offset and length, and by nothing else.
  The property is about directories all archives of which can be read, and about enough memory. Without that it
  is false, as TLC shows: what was before and behind an archive passed over is joined nevertheless, and
  two blocks become one.
* `KwajProofs`: `PackedIsSame` (`PackedSame`), for every file, name and size of the input buffer, and `NamesAreOne`
  (`NamesAgree`), for every archive, whatever its bytes. `SrcInv` says where the data of the packed file is: behind
  the header (`PackedData`), then in part in the output and in part still in the input; that the readers take the
  header although they begin two characters late is `PackedGood`. `NameInv` ties the name libmspack sees to the
  header, and `NamesSame` compares the readers string by string: the first Nul in the part libmspack looks through is
  the first in the file, or the string has no end and there are fewer ends than strings.

The assumptions on tables, command lines and rows are definitions of the models, and TLC evaluates them on the
runs: `TablesAssumption` in `MCPatchFiles` (but for the table of `faults`, two rows of which share a copy), `RowsAssumption` in
`MCPatchSelected`, `CallsAssumption` in `MCProgram`, `CodeAssumption` in `W4File`, `CabAssumption`, `PiecesAssumption` and
`SetsAssumption` in `CabSet`, `KwajAssumption` in `Kwaj` (the sizes, and that a file is a sequence of numbers and a name has no Nul). The
inductive invariants were checked by TLC on the instances above before they were proved, and so were the type
invariants, which no run states by itself.

Where a proof needs a least or greatest number, or goes through a sequence (`KeptFiles`, `TakenExists`), it
does without induction, which no backend can instantiate: the numbers for which something holds up to `n` would,
if `n` was not one, fit into themselves less 0 (`UpTo`, `LeastNat`, `Greatest`).

Only model-checked: that `CabSet` finds a file that is there (`FoundIfThere`), which is about all archives of a
directory after the search has been through it, not about one joined chain; `Decomp` with its methods (`FileExact`, `ValidExtracts`); the decompressors of
`Kwaj` with `Huffman` (`UnpackedExact`). `Decomp` and the reference of `Kwaj` (`KwajExpand`) compute with recursive
operators over their input, which TLAPS does not take. Liveness (`AgreedIsDone`, `Ends`, `RequestsEnd`) rests on fairness and is out of
its reach as well. `FixRemoved` is false (run `comreverse`).

## Where the program differs from what it says

`comreverse` is a run whose property TLC finds violated: `-reverse` on a `win.com` with revision 0 of the fix takes it
out as if it were as long as the new one, reads the address to go on at from the zeroes behind it, and then installs
the new fix, which ends in a jump to that address (`patch.c:832`; `README.md:132`). This branch also ignores `dry_run`.

Met on the way, and left out of the properties by a condition that says so or by the tables of the runs:

* Workflow. On a KWAJ archive given by its path a cancelled run deletes the `.386` next to it (`files.c:639`;
  "Operation aborted by user"). A run stopped while it writes a `.bak` makes the next run keep the torn one and
  replace the original (`patch.c:1053`). A KWAJ archive (`NDIS.38_`) is replaced without a backup (`files.c:571`;
  `help.h:62`). `WIN.CNF` and `WIN.COM` unpacked into one directory share `WIN.p9x`, and one of two files
  announced is not patched (`files.c:209`; `README.md:208`); the same holds of NDIS.VXD, NDIS.386 and NDIS.38_ in one
  directory. `-force-w4` is looked for in the wrong flags (`files.c:553`), so it has no effect; `files_apply` lists
  `NDIS.VXD` twice (`files.c:393`), so it announces more files than it commits (`files.c:518`); an unselected KWAJ
  item keeps its unpacked `.386` (`files.c:594`). What `fs_rename` returns is not looked at, so that an item whose rename
  and copy both failed counts as done, with the file removed and its bytes left in the `.p9x` and the `.bak`
  (`files.c:589`; `filesystem.c:880`); where VMM32.VXD cannot be opened for writing `wx_to_w4` says `PATCH_OK` and the copy
  with the patch is removed (`unpacker.c:886`; `files.c:561`).
* `patch.c`. `-reverse` does not bring back the CPU speed code that was patched: the rows #1, #2 and #4 leave the same
  bytes, each finds them in the file as given, and the last to write (#4, rloew's driver) wins (`patch.c:205`;
  `README.md:132`); the same holds of #5 to #7 and of NDIS #1 and #3. The status of a patch is overwritten by that of
  a later one (303, 334, 355) and `applied` is set before the copy is opened or written (235, 590), so a patch can be
  reported that was not written; `OnlyReported` is the other direction, which holds but for the half of the patch of
  Windows Me. Where the copy cannot be created `fopen_copy` hands a null stream to `fs_file_copy` (152).
  `patch_select_me` takes the patch for present when the first window is (499). Taking an old fix out of `win.com`
  clears 224 bytes, where it had 144 (654).
* W4. An incompressible last chunk leaves the end of its longer stream behind it, is not recognised as raw and is
  decoded as if compressed (`pew.c:372`; `pew.c:233`).
* Sieves. A stale match past the end of the file makes the patch count as applied, with `PATCH_E_READ`
  (`bpatcher.c:186`, marked FIXME). `makepatch` writes its output before its test of addresses fails. Bytes that are
  patched and also differ between the dump and the assembled original are not restored by `-reverse`, and `makepatch`
  does not look for them. `bs_logic` pads by `to_read % 8` where it should by what is missing to 8; its callers have
  multiples of 8.
* Program. `-unselect` puts a new selection in place of the default one and so enables the patches for 16 MB
  that are "disabled by defautl" (`help.h:75`); an `-m` before `-select` or `-unselect` is lost. `-auto` for a path it
  has no default for asks anyway, and a path to nothing ends with success.
* Batch. A `_vxd.tmp` left by `--patch` with nothing to patch, by a failed conversion or a stopped run is read by the
  next `--vxd-extract` of another archive, which then says it succeeded. Within one command a first conversion that
  fails leaves a torn one for the next argument. `--patch` always returns `PATCH_OK`; a driver the archive does not
  have is `PATCH_OK` as well; `wx_to_w4` says so where it cannot open its output (`unpacker.c:886`). `--mz-strip` and
  `--kwaj` onto their own input empty it; `--patch` does not look at `-force-w3` and `-force-w4`.
* CAB sets. One archive that cannot be opened in the middle of a set hides the files of those behind it. Archives that
  are joined stand in the list of those already looked at under their path and are compared by their name, so the
  whole set is tried again for each of its archives. A failed extraction leaves what it wrote. Of two archives with
  one name in their lists the last one wins. Two archives that are joined without being neighbours could give a
  block put together of the wrong pieces.
* CAB decompression. `noned_decompress` keeps no error: files behind a bad block of a stored folder are extracted
  with the wrong content and `OK` (`cabd.c:1452`; "read_error lasts for the lifetime of a decompressor", `cabd.c:1110`):
  `PassedBad`. The size of a frame of LZX may be taken before the last block told the length (`lzxd.c:471`,
  `cabd.c:1270`), and a right file fails: `LateLength`. Quantum gives up a match over the end of a window smaller than
  a frame if less is wanted than must be written ("this should not happen", `qtmd.c:368`): `WrapTooSoon`. A damaged block
  read ahead fails the good file before it (`cabd.c:1259`). Matches before the start of the output give what the
  window held in MSZIP and Quantum; only LZX looks.
* KWAJ. `kwaj_pack` writes a length of 2 bytes where both readers skip 4 (`unpacker.c:1218`), so the stored name loses
  its first two characters, and short names with little data may not be unpacked. A name over 8 characters is
  stored as its first 3. A name without its end in a short file loses its last character in `kwajd.c`;
  `kwaj_get_name` does not skip the second unknown part. A table of LZH that short codes fill is accepted
  whatever the longer lengths say; what lies in the last bits of the input may be lost; a truncated header or table
  gives an empty file and sometimes `OK`; an unknown type of table leaves its lengths uninitialised (any outcome).
* `trace.c:78`: with a full ring `print_trace` does not come to an end. It is not modelled.

## Not modelled, and the plan

What is left to model:

1. W3: the directory of drivers (`pe_read`, `pe_w3_read`, `pe_w3_extract`, `pe_w4_check`), damage in the middle of a W4
   archive (`pew.c:275`).
2. The tables of codes of MSZIP, LZX and Quantum, and the method MSZIP in KWAJ.
3. A `win.com` whose old fix has only 144 free bytes; `rename` that fails under the batch commands.

What is left to prove, in this order:

1. `FoundIfThere`: that a complete set is joined to one chain whichever archive is met first; `Ordered` says that what is
   joined is in order, not that all is joined.
2. That a decompressor of `Decomp` writes within its window, whatever the input.

Left out inside modelled parts: texts, wording and colours; forms of a path (drive letters, separators, case); the
creation and listing of directories; `CAB_FOLDERMAX`, reserved fields and salvage in `cabd.c`, with the assumption
that a folder that goes on in an archive has there only the files that go on (`cabd.c:973`); `repair_mode`,
`reset_interval` and reference data of the decompressors, and bytes made up at the end of the input decoded as codes;
`--cab-list`; builds without `RUN_WITHOUT_ARGS`.

Left out for good: the machine code of the patches (data), `cputest.c` and `pwin32.c` (pure input and output),
`exact.c` (not called), `chmd.c` (a format the program does not open), `trace.c`, `makediff`, `bindiff` and the scripts
of the build.
