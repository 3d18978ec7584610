-------------------------------- MODULE Batch --------------------------------
(***************************************************************************)
(* The batch commands (batch.c) with patch_apply_wx of patch.c and the     *)
(* conversions and lists of unpacker.c, run one after another in one       *)
(* directory.  Every command keeps its temporary files there under the     *)
(* same two names, whatever its output is called, and the program may be   *)
(* stopped at any step.                                                    *)
(*                                                                         *)
(* Bytes are those of FileStore.  The drivers of an archive are files of   *)
(* their own: Holds[a] says which, by the name they have in the archive.   *)
(***************************************************************************)
EXTENDS FileStore, Sequences

CONSTANTS
  Dirs,    \* directories to begin with
  Calls,   \* command lines: func, src, args, and force (the target form)
  Holds,   \* file |-> (name of a driver in it |-> the driver)
  MaxRuns, \* commands run one after another
  WX, VXD  \* _wx.tmp and _vxd.tmp

Temps == {WX, VXD}

ASSUME BatchAssumption ==
  /\ Dirs \subseteq [Path -> Data]
  /\ Temps \subseteq Path /\ WX # VXD
  /\ MaxRuns \in Nat
  /\ \A a \in Path : \A n \in DOMAIN Holds[a] : Holds[a][n] \in Path
  /\ \A c \in Calls :
       /\ c.func \in {"extract", "all", "list", "convert", "patch", "cab", "strip"}
       /\ c.src \in Path
       /\ c.force \in Form
       /\ Len(c.args) \in Nat /\ DOMAIN c.args = 1 .. Len(c.args)
       /\ c.func \in {"convert", "strip"} => Len(c.args) = 1
       /\ \A i \in DOMAIN c.args :
            /\ c.args[i].out \in Path \ Temps
            /\ c.func \in {"convert", "patch", "strip"} => c.args[i].in \in Path
            /\ c.func = "cab" => c.args[i].in \in DOMAIN Holds[c.src]

--------------------------------------------------------------------------
VARIABLES
  dir,   \* the directory
  cmd,   \* the command that runs, or ran last
  arg,   \* i, the argument it is at
  pc,
  w,     \* the write that goes on: to, what it will hold, the pc after it
  temp,  \* the W3 file made for a list of drivers is to be removed (list->tmp)
  t,     \* status of the last step: PATCH_OK or not
  r,     \* what the command returns
  start, \* the directory when it began
  runs

vars == <<dir, cmd, arg, pc, w, temp, t, r, start, runs>>

Arg == cmd.args[arg]

--------------------------------------------------------------------------
(* Writing and renaming take two steps, between which the program may stop *)

\* What a file written from another holds; one written over itself is empty.
From(a, b, c) == IF a = b THEN Torn ELSE c

BeginWrite(p, c, then) ==
  /\ dir' = Put(dir, p, Torn)
  /\ w' = [to |-> p, holds |-> c, then |-> then]
  /\ pc' = "write"

EndWrite ==
  /\ pc = "write"
  /\ dir' = Put(dir, w.to, w.holds)
  /\ pc' = w.then
  /\ UNCHANGED <<cmd, arg, w, temp, t, r, start, runs>>

\* A conversion that gives up halfway: a damaged archive, no memory.
FailWrite ==
  /\ pc = "write" /\ w.then \in {"unpacked", "listed", "converted", "expanded", "packed"}
  /\ t' = "failed" /\ pc' = IF w.then = "listed" THEN "nolist" ELSE "result"
  /\ UNCHANGED <<dir, cmd, arg, w, temp, r, start, runs>>

\* fs_rename does nothing if there is no such file.
BeginMove(p, q, then) ==
  IF Exists(dir, p)
  THEN /\ dir' = Unlink(dir, q)
       /\ w' = [from |-> p, to |-> q, then |-> then]
       /\ pc' = "move"
  ELSE pc' = then /\ UNCHANGED <<dir, w>>

EndMove ==
  /\ pc = "move"
  /\ dir' = Move(dir, w.from, w.to)
  /\ pc' = w.then
  /\ UNCHANGED <<cmd, arg, w, temp, t, r, start, runs>>

\* pe_read; what was cut short may still begin like a W3 archive.
Kinds(c) == IF c = Torn THEN {"w3", "none"} ELSE IF c = Absent THEN {"none"} ELSE {c.form}

--------------------------------------------------------------------------
(* The program is started, ends, or is stopped                             *)

Call(c) ==
  /\ pc = "idle" /\ runs < MaxRuns
  /\ cmd' = c /\ arg' = 1 /\ pc' = c.func
  /\ t' = "ok" /\ r' = "ok" /\ temp' = FALSE
  /\ start' = dir /\ runs' = runs + 1
  /\ UNCHANGED <<dir, w>>

End ==
  /\ pc \in {"extract", "cab", "patch"} /\ arg > Len(cmd.args)
  /\ pc' = "idle"
  /\ UNCHANGED <<dir, cmd, arg, w, temp, t, r, start, runs>>

Stop ==
  /\ pc # "idle"
  /\ pc' = "idle" /\ r' = "stopped"
  /\ UNCHANGED <<dir, cmd, arg, w, temp, t, start, runs>>

\* Mutant: the status of the last argument is the result.
Result_Last ==
  /\ pc = "result"
  /\ r' = t /\ arg' = arg + 1
  /\ pc' = IF cmd.func \in {"extract", "cab", "patch"} THEN cmd.func
           ELSE IF cmd.func = "all" THEN "next" ELSE "idle"
  /\ UNCHANGED <<dir, cmd, w, temp, t, start, runs>>

\* The status of an argument is the result of the command if it is not
\* PATCH_OK; --patch reports it only.
Result ==
  /\ pc = "result"
  /\ r' = IF t = "ok" \/ cmd.func = "patch" THEN r ELSE t
  /\ arg' = arg + 1
  /\ pc' = IF cmd.func \in {"extract", "cab", "patch"} THEN cmd.func
           ELSE IF cmd.func = "all" THEN "next" ELSE "idle"
  /\ UNCHANGED <<dir, cmd, w, temp, t, start, runs>>

--------------------------------------------------------------------------
(* wx_unpack: a W3 file left under the temporary name is read instead of   *)
(* the archive                                                             *)

\* pe_w3_extract of the driver n to out.
Driver(c, n) ==
  IF c = Torn THEN Torn ELSE [file |-> Holds[c.file][n], ver |-> c.ver, form |-> "raw"]

ExtractW3(p, n, out, then) ==
  IF dir[p] = Torn \/ n \in DOMAIN Holds[dir[p].file]
  THEN BeginWrite(out, Driver(dir[p], n), then)
  ELSE pc' = then /\ UNCHANGED <<dir, w>> \* status stays PATCH_OK

Unpack ==
  /\ pc = "unpack" \/ (pc = "extract" /\ arg <= Len(cmd.args))
  /\ LET p == IF Exists(dir, VXD) THEN VXD ELSE cmd.src
     IN  \E k \in Kinds(dir[p]) :
           \/ k = "w3" /\ ExtractW3(p, Arg.in, Arg.out, "result") /\ t' = "ok"
           \/ k = "w4" /\ p = cmd.src
                /\ BeginWrite(VXD, As(dir[p], "w3"), "unpacked") /\ t' = "ok"
           \/ (k \notin {"w3", "w4"} \/ (k = "w4" /\ p = VXD))
                /\ t' = "failed" /\ pc' = "result" /\ UNCHANGED <<dir, w>>
  /\ UNCHANGED <<cmd, arg, temp, r, start, runs>>

UnpackMade ==
  /\ pc = "unpacked"
  /\ ExtractW3(VXD, Arg.in, Arg.out, "drop")
  /\ UNCHANGED <<cmd, arg, temp, t, r, start, runs>>

\* fs_unlink(tmpname)
Drop ==
  /\ pc = "drop"
  /\ dir' = Unlink(dir, VXD) /\ pc' = "result"
  /\ UNCHANGED <<cmd, arg, w, temp, t, r, start, runs>>

--------------------------------------------------------------------------
(* vxd_filelist_open, _get and _close: --vxd-list and --vxd-extract-all.   *)
(* The drivers of the archive are the arguments of such a call.            *)

ListOpen ==
  /\ pc \in {"list", "all"}
  /\ \E k \in Kinds(dir[cmd.src]) :
       \/ k = "w3" /\ pc' = "next" /\ UNCHANGED <<dir, w, temp>>
       \/ k = "w4" /\ BeginWrite(VXD, As(dir[cmd.src], "w3"), "listed") /\ temp' = TRUE
       \/ k \notin {"w3", "w4"} /\ pc' = "nolist" /\ UNCHANGED <<dir, w, temp>>
  /\ UNCHANGED <<cmd, arg, t, r, start, runs>>

Listed == pc = "listed" /\ pc' = "next" /\ UNCHANGED <<dir, cmd, arg, w, temp, t, r, start, runs>>

\* Failed to open VXD archive: the temporary file is left.
NoList ==
  /\ pc = "nolist"
  /\ r' = "failed" /\ pc' = "idle"
  /\ UNCHANGED <<dir, cmd, arg, w, temp, t, start, runs>>

\* Mutant: every driver is extracted.
ListGet_All ==
  /\ pc = "next" /\ arg <= Len(cmd.args)
  /\ IF cmd.func = "list" THEN arg' = arg + 1 /\ UNCHANGED pc
                           ELSE pc' = "unpack" /\ UNCHANGED arg
  /\ UNCHANGED <<dir, cmd, w, temp, t, r, start, runs>>

\* A driver is not extracted over a file there is.
ListGet ==
  /\ pc = "next" /\ arg <= Len(cmd.args)
  /\ IF cmd.func = "list" \/ Exists(dir, Arg.out)
     THEN arg' = arg + 1 /\ UNCHANGED pc
     ELSE pc' = "unpack" /\ UNCHANGED arg
  /\ UNCHANGED <<dir, cmd, w, temp, t, r, start, runs>>

ListClose ==
  /\ pc = "next" /\ arg > Len(cmd.args)
  /\ dir' = IF temp THEN Unlink(dir, VXD) ELSE dir
  /\ pc' = "idle"
  /\ UNCHANGED <<cmd, arg, w, temp, t, r, start, runs>>

--------------------------------------------------------------------------
(* --vxd-convert: wx_to_w3, wx_to_w4                                       *)

\* Mutant: converted straight into the output.
Convert_Direct ==
  /\ pc = "convert"
  /\ \E k \in Kinds(dir[Arg.in]) :
       IF k \in {"w3", "w4"}
       THEN BeginWrite(Arg.out, As(dir[Arg.in], cmd.force), "result") /\ t' = "ok"
       ELSE t' = "failed" /\ pc' = "result" /\ UNCHANGED <<dir, w>>
  /\ UNCHANGED <<cmd, arg, temp, r, start, runs>>

Convert ==
  /\ pc = "convert"
  /\ \E k \in Kinds(dir[Arg.in]) :
       IF k \in {"w3", "w4"}
       THEN BeginWrite(VXD, As(dir[Arg.in], cmd.force), "converted") /\ t' = "ok"
       ELSE t' = "failed" /\ pc' = "result" /\ UNCHANGED <<dir, w>>
  /\ UNCHANGED <<cmd, arg, temp, r, start, runs>>

Converted ==
  /\ pc = "converted"
  /\ BeginMove(VXD, Arg.out, "result")
  /\ UNCHANGED <<cmd, arg, temp, t, r, start, runs>>

--------------------------------------------------------------------------
(* --patch: batch_patch_sel, patch_apply_wx                                *)

\* patch_apply and patch_selected: the copy is made with the first patch.
Patchable(c) == c = Torn \/ (c \in Content /\ c.ver = "old")
Fresh(c)     == c # Torn /\ Patchable(c)

Apply(p, then, otherwise) ==
  \/ /\ Patchable(dir[p])
     /\ BeginWrite(WX, Patched(dir[p], "new"), then) /\ t' = "ok"
  \/ /\ ~Fresh(dir[p])
     /\ t' = "failed" /\ pc' = otherwise /\ UNCHANGED <<dir, w>>

PatchArg ==
  /\ pc = "patch" /\ arg <= Len(cmd.args)
  /\ \E k \in Kinds(dir[Arg.in]) :
       \/ k = "w4" /\ BeginWrite(VXD, As(dir[Arg.in], "w3"), "expanded") /\ t' = "ok"
       \/ k # "w4" /\ Apply(Arg.in, "patched", "result")
  /\ UNCHANGED <<cmd, arg, temp, r, start, runs>>

ApplyW3 ==
  /\ pc = "expanded"
  /\ Apply(VXD, "applied", "applied")
  /\ UNCHANGED <<cmd, arg, temp, r, start, runs>>

\* The patched W3 form takes the place of the other one; if nothing was
\* patched, so does whatever is under the first temporary name.
KeepW3 ==
  /\ pc = "applied"
  /\ BeginMove(WX, VXD, IF t = "ok" THEN "pack" ELSE "result")
  /\ UNCHANGED <<cmd, arg, temp, t, r, start, runs>>

Pack ==
  /\ pc = "pack"
  /\ BeginWrite(WX, As(dir[VXD], "w4"), "packed")
  /\ UNCHANGED <<cmd, arg, temp, t, r, start, runs>>

\* Mutant: the W3 form stays where the archive is loadable.
Check_Keeps ==
  /\ pc = "packed"
  /\ \/ pc' = "patched" /\ UNCHANGED dir
     \/ dir' = Unlink(dir, WX) /\ pc' = "unpackable"
  /\ UNCHANGED <<cmd, arg, w, temp, t, r, start, runs>>

\* pe_w4_check: an archive Windows could not load is left as W3.
Check ==
  /\ pc = "packed"
  /\ \/ dir' = Unlink(dir, VXD) /\ pc' = "patched"
     \/ dir' = Unlink(dir, WX) /\ pc' = "unpackable"
  /\ UNCHANGED <<cmd, arg, w, temp, t, r, start, runs>>

LeaveW3 ==
  /\ pc = "unpackable"
  /\ BeginMove(VXD, WX, "patched")
  /\ UNCHANGED <<cmd, arg, temp, t, r, start, runs>>

PatchDone ==
  /\ pc = "patched"
  /\ BeginMove(WX, Arg.out, "result")
  /\ UNCHANGED <<cmd, arg, temp, t, r, start, runs>>

--------------------------------------------------------------------------
(* --cab-extract, --cabs-extract (CabSet), --mz-strip, --kwaj              *)

CabArg ==
  /\ pc = "cab" /\ arg <= Len(cmd.args)
  /\ \/ /\ Exists(dir, cmd.src)
        /\ BeginWrite(Arg.out, [file |-> Holds[cmd.src][Arg.in], ver |-> "old", form |-> "raw"],
                      "result")
        /\ t' = "ok"
     \/ /\ t' = "failed" /\ pc' = "result"
        /\ dir' \in {dir, Put(dir, Arg.out, Torn)} /\ UNCHANGED w
  /\ UNCHANGED <<cmd, arg, temp, r, start, runs>>

\* The bytes in another form: without the header, unpacked, packed.
Strip ==
  /\ pc = "strip"
  /\ IF Exists(dir, Arg.in)
     THEN BeginWrite(Arg.out, From(Arg.in, Arg.out, As(dir[Arg.in], cmd.force)), "result") /\ t' = "ok"
     ELSE t' = "failed" /\ pc' = "result" /\ UNCHANGED <<dir, w>>
  /\ UNCHANGED <<cmd, arg, temp, r, start, runs>>

--------------------------------------------------------------------------
Init ==
  /\ dir \in Dirs /\ start = dir
  /\ cmd = [func |-> "", src |-> WX, args |-> << >>, force |-> "raw"] /\ arg = 1
  /\ pc = "idle" /\ w = Absent /\ temp = FALSE
  /\ t = "ok" /\ r = "ok" /\ runs = 0

\* What a command does after it was called.
Step ==
  \/ End \/ Stop \/ Result
  \/ EndWrite \/ FailWrite \/ EndMove
  \/ Unpack \/ UnpackMade \/ Drop
  \/ ListOpen \/ Listed \/ NoList \/ ListGet \/ ListClose
  \/ Convert \/ Converted
  \/ PatchArg \/ ApplyW3 \/ KeepW3 \/ Pack \/ Check \/ LeaveW3 \/ PatchDone
  \/ CabArg \/ Strip

Next == (\E c \in Calls : Call(c)) \/ Step

Spec == Init /\ [][Next]_vars

--------------------------------------------------------------------------
(* What a command promises, from the directory it began with               *)

\* What the output of argument i may hold when it was made as it should.
Made(i) ==
  LET a == cmd.args[i]
      c == IF cmd.func \in {"extract", "all", "list", "cab"} THEN start[cmd.src] ELSE start[a.in]
  IN  IF c = Absent THEN {}
      ELSE CASE cmd.func \in {"extract", "all", "list"} ->
                  IF c = Torn THEN {Torn}
                  ELSE IF a.in \in DOMAIN Holds[c.file] THEN {Driver(c, a.in)} ELSE {}
             [] cmd.func = "cab" -> {[file |-> Holds[cmd.src][a.in], ver |-> "old", form |-> "raw"]}
             [] cmd.func = "patch" ->
                  IF Patchable(c) THEN {Patched(c, "new"), As(Patched(c, "new"), "w3")} ELSE {}
             [] OTHER -> {As(c, cmd.force)}

\* A conversion or a patch, also of a file over itself, leaves its output as
\* it was or as it should be, at whatever step the program is stopped and
\* whatever earlier runs left behind; while the one is replaced by the other
\* the new bytes are under a temporary name (fs_rename).
AllOrNothing ==
  cmd.func \in {"convert", "patch"} =>
    \A i \in DOMAIN cmd.args :
      LET p == cmd.args[i].out
      IN  \/ dir[p] = start[p] \/ dir[p] \in Made(i)
          \/ dir[p] = Absent /\ \E q \in Temps : dir[q] \in Made(i)

\* A command that says it succeeded, in a directory without temporary files
\* of earlier runs, has not written a wrong output, though it may have
\* written none (wx_unpack, --patch).
ReportedRight ==
  (pc = "idle" /\ r = "ok" /\ \A q \in Temps : start[q] = Absent) =>
    \A i \in DOMAIN cmd.args :
      LET p == cmd.args[i].out IN dir[p] = start[p] \/ dir[p] \in Made(i)

\* No file but the outputs named is written or lost, inputs among them, and
\* a list of all drivers replaces no file that was there.
OthersKept ==
  \A p \in Path \ Temps :
    \/ dir[p] = start[p]
    \/ /\ cmd.func # "list" /\ (cmd.func = "all" => start[p] = Absent)
       /\ \E i \in DOMAIN cmd.args : cmd.args[i].out = p

\* Where every step succeeded both temporary files are gone, whichever way
\* the archive went (converted, patched as W3, compressed, left as W3).
TempsGone ==
  (pc = "idle" /\ r = "ok" /\ t = "ok" /\ Len(cmd.args) = 1
   /\ \A q \in Temps : start[q] = Absent) => \A q \in Temps : dir[q] = Absent

\* What is assumed of the command lines: an output is not the archive, the
\* input of a later argument, or the output of another, and no input has the
\* name of a temporary file.
Apart ==
  \A c \in Calls :
    /\ c.src \notin Temps
    /\ \A i \in DOMAIN c.args :
         /\ c.func \in {"convert", "patch", "strip"} => c.args[i].in \notin Temps
         /\ c.func \in {"extract", "cab"} => c.args[i].out # c.src
         /\ c.func = "strip" => c.args[i].out # c.args[i].in
         /\ \A j \in DOMAIN c.args \ {i} :
              /\ c.args[i].out # c.args[j].out
              /\ c.func = "patch" => c.args[i].out # c.args[j].in
=============================================================================
