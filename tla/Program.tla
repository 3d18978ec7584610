------------------------------- MODULE Program -------------------------------
(***************************************************************************)
(* patcher9x.c: the command line (read_arg), the choice between a batch    *)
(* command and the dialogue with the user (main), and that dialogue        *)
(* (run_interactive, ask_user, ask_user_patch).  A batch command is one of *)
(* Batch; what the dialogue leads to is PatchFiles, of which only the call *)
(* that is made is kept here.                                              *)
(*                                                                         *)
(* A line of input is a sequence of keys.  Input ends with Eof, which is   *)
(* read again and again.                                                   *)
(***************************************************************************)
EXTENDS Batch, Integers, FiniteSets

CONSTANTS
  CommandLines, \* sequences of arguments: opt, an option, function or "name", and val
  Lines,        \* what the user may type
  MaxLines,     \* lines typed before the input ends
  Eof

ASSUME LinesAssumption == Lines \subseteq Seq(STRING)

Eol == << >>

\* PATCHES_DEFAULT, PATCHES_ALL
Default == {"tlb", "speeddrv", "speedndis", "mem", "creg", "g4resfix"}
All     == Default \cup {"16m"}

\* --cab-list changes nothing and is left out.
Functions == {"--vxd-extract", "--vxd-extract-all", "--vxd-list", "--vxd-convert",
              "--patch", "--cab-extract", "--cabs-extract", "--mz-strip", "--kwaj"}

\* batch_action_t actions[]
Action ==
  [f \in Functions |->
     CASE f = "--vxd-extract" -> "extract" [] f = "--vxd-extract-all" -> "all"
       [] f = "--vxd-list" -> "list"       [] f = "--vxd-convert" -> "convert"
       [] f = "--patch" -> "patch"
       [] f \in {"--cab-extract", "--cabs-extract"} -> "cab"
       [] f \in {"--mz-strip", "--kwaj"} -> "strip"]

--------------------------------------------------------------------------
VARIABLES
  ph,      \* where the program is
  argv,    \* the arguments not yet read
  opts,    \* options_t
  id,      \* batch_id, or None
  names,   \* how many names were given
  place,   \* what the path leads to: default_ans and the number of answers
  input,   \* lines read
  answer,  \* the last line read
  deed     \* what was done to the files: "nothing", "commit", "cleanup"

batch == <<dir, cmd, arg, pc, w, temp, t, r, start, runs>>
pvars == <<ph, argv, opts, id, names, place, input, answer, deed>>
pall  == <<batch, pvars>>

NoOptions ==
  [show |-> "", mode |-> "interactive", unmask |-> All \ Default, path |-> FALSE,
   w3 |-> FALSE, w4 |-> FALSE, reverse |-> FALSE, backup |-> TRUE]

Nowhere == [dflt |-> 0, count |-> 2]

--------------------------------------------------------------------------
(* read_arg                                                                *)

\* patch_select; names it does not know are ignored.
Select(s) ==
  (s \cap All) \cup (IF "speed" \in s THEN {"speeddrv", "speedndis"} ELSE {})
  \cup (IF "all" \in s THEN All ELSE {}) \cup (IF "default" \in s THEN Default ELSE {})

\* What an option does; the last of -select and -unselect counts, and what
\* is not among them is patched.
Read(o, a) ==
  CASE a.opt \in {"-h", "-v", "-cputest"} ->
         \* main looks at cputest first, then at -v, then at -h
         [o EXCEPT !.show = IF "-cputest" \in {o.show, a.opt} THEN "-cputest"
                            ELSE IF "-v" \in {o.show, a.opt} THEN "-v" ELSE "-h"]
    [] a.opt = "-force-w3"  -> [o EXCEPT !.w3 = TRUE]
    [] a.opt = "-force-w4"  -> [o EXCEPT !.w4 = TRUE]
    [] a.opt = "-select"    -> [o EXCEPT !.unmask = All \ Select(a.val)]
    [] a.opt = "-unselect"  -> [o EXCEPT !.unmask = Select(a.val)]
    [] a.opt = "-reverse"   -> [o EXCEPT !.reverse = TRUE]
    [] a.opt = "-no-backup" -> [o EXCEPT !.backup = FALSE]
    [] a.opt = "-auto"      -> [o EXCEPT !.mode = IF @ = "interactive" THEN "auto" ELSE @]
    [] a.opt = "-m"         -> [o EXCEPT !.unmask = @ \ {"16m"}]
    [] a.opt \in Functions  -> [o EXCEPT !.mode = "batch"]
    [] a.opt = "name"       -> [o EXCEPT !.path = TRUE]
    [] OTHER                -> o \* -millennium

\* -select and -unselect (val = {}) without an argument, a second batch function.
Wrong(a) == (a.opt \in {"-select", "-unselect"} /\ a.val = {}) \/ (a.opt \in Functions /\ id # "")

\* Bounds: MaxRuns batch commands, and a dialogue, which Batch does not see,
\* only before the first of them.
Start(line) ==
  /\ ph = "shell" /\ pc = "idle" /\ runs < MaxRuns
  /\ runs = 0 \/ \E i \in DOMAIN line : line[i].opt \in Functions
  /\ ph' = "args" /\ argv' = line
  /\ opts' = NoOptions /\ id' = "" /\ names' = 0
  /\ input' = 0 /\ answer' = Eof /\ deed' = "nothing"
  /\ UNCHANGED <<batch, place>>

ReadArg ==
  /\ ph = "args" /\ argv # << >>
  /\ LET a == Head(argv)
     IN  /\ argv' = Tail(argv)
         /\ opts' = Read(opts, a)
         /\ ph' = IF Wrong(a) THEN "exit" ELSE ph
         /\ id' = IF a.opt \in Functions /\ id = "" THEN a.opt ELSE id
         /\ names' = IF a.opt = "name" THEN names + 1 ELSE names
  /\ UNCHANGED <<batch, place, input, answer, deed>>

\* More than one name without a batch function, both forms at once, -auto
\* without a path.
Refuse(o) ==
  \/ o.mode # "batch" /\ names > 1
  \/ o.w3 /\ o.w4
  \/ ~o.path /\ o.mode = "auto"

\* main, once the arguments are read.
Dispatch ==
  /\ ph = "args" /\ argv = << >>
  /\ ph' = CASE Refuse(opts) \/ opts.show # "" -> "exit"
             [] ~Refuse(opts) /\ opts.show = "" /\ opts.mode = "batch" -> "batch"
             [] OTHER -> "path"
  /\ UNCHANGED <<batch, argv, opts, id, names, place, input, answer, deed>>

--------------------------------------------------------------------------
(* batch_run                                                               *)

\* The files named are those of one of Calls; converting needs a target form.
RunBatch ==
  /\ ph = "batch"
  /\ \/ /\ names > 0
        /\ \E c \in Calls :
             /\ c.func = Action[id]
             /\ c.func = "convert" => c.force = IF opts.w3 THEN "w3" ELSE IF opts.w4 THEN "w4" ELSE ""
             /\ Call(c)
        /\ ph' = "running"
     \/ /\ names = 0 \/ (id = "--vxd-convert" /\ ~opts.w3 /\ ~opts.w4)
        /\ ph' = "exit" /\ UNCHANGED batch
  /\ UNCHANGED <<argv, opts, id, names, place, input, answer, deed>>

BatchStep ==
  /\ ph = "running" /\ pc # "idle"
  /\ Step
  /\ UNCHANGED pvars

BatchEnd ==
  /\ ph = "running" /\ pc = "idle"
  /\ ph' = "exit"
  /\ UNCHANGED <<batch, argv, opts, id, names, place, input, answer, deed>>

--------------------------------------------------------------------------
(* run_interactive                                                         *)

\* A line, or what there is before the input ends.
Line(l) ==
  /\ l \in IF input < MaxLines THEN Lines \cup {Eof} ELSE {Eof}
  /\ answer' = l
  /\ input' = IF l = Eof THEN MaxLines ELSE input + 1

\* The files by which a directory is known, and the answer they suggest.
Install == {"BASE4.CAB", "BASE2.CAB", "WIN95_02.CAB", "WIN9X30.CAB", "WINSETUP.EX_"}
Marks   == {"BASE4.CAB", "WINSETUP.EX_", "KERNEL32.DLL", "WIN386.EXE", "VMM32.VXD"}

DirDefault(there) ==
  IF there \cap Install # {} THEN 4
  ELSE IF "WIN386.EXE" \in there \/ {"KERNEL32.DLL", "VMM32.VXD"} \subseteq there THEN 2
  ELSE 0
FileDefault(type) == CASE type \in {"W3", "W4", "LE"} -> 1 [] type = "MSCAB" -> 2 [] OTHER -> 0

Places ==
  {[dflt |-> DirDefault(there), count |-> 4] : there \in SUBSET Marks}
  \cup {[dflt |-> FileDefault(type), count |-> 2] : type \in {"LE", "MSCAB", "other"}}

\* ask_user_path, and what the path leads to.  With -auto an answer that has
\* a default is not asked for.
AskPath ==
  /\ ph = "path"
  /\ IF opts.path THEN UNCHANGED <<input, answer>> ELSE \E l \in Lines \cup {Eof} : Line(l)
  /\ place' \in Places
  /\ ph' = IF opts.mode = "auto" /\ place'.dflt # 0 THEN "lookup" ELSE "mode"
  /\ UNCHANGED <<batch, argv, opts, id, names, deed>>

\* Neither a directory nor a file.
NoPlace ==
  /\ ph = "path"
  /\ ph' = "exit"
  /\ UNCHANGED <<batch, argv, opts, id, names, place, input, answer, deed>>

\* ask_user: 0 or a number up to count ends it, and so does an empty line,
\* which stands for the default; the end of the input is one.
Digits == <<"0", "1", "2", "3", "4", "5", "6", "7", "8", "9">>
Number(l) ==
  IF l = Eof \/ l = Eol THEN place.dflt
  ELSE LET numbers == {n \in 0 .. place.count : l = <<Digits[n + 1]>>}
       IN  IF numbers = {} THEN -1 ELSE CHOOSE n \in numbers : TRUE

AskMode ==
  /\ ph = "mode"
  /\ \E l \in Lines \cup {Eof} :
       /\ Line(l)
       /\ ph' = CASE Number(l) = -1 -> ph
                  [] Number(l) = 0  -> "exit"
                  [] OTHER          -> "lookup"
  /\ UNCHANGED <<batch, argv, opts, id, names, place, deed>>

\* files_lookup or files_apply, files_status: something to patch or not, or
\* no list at all (no memory, a directory that is not writable).
Lookup ==
  /\ ph = "lookup"
  /\ \/ ph' = "ask" /\ UNCHANGED deed
     \/ ph' = "enter" /\ deed' = "cleanup"
     \/ ph' = "enter" /\ UNCHANGED deed
  /\ UNCHANGED <<batch, argv, opts, id, names, place, input, answer>>

\* ask_user_patch: the last of the letters y, n and m in the line.
Letters(l) == IF l = Eof THEN {} ELSE {i \in DOMAIN l : l[i] \in {"y", "n", "m"}}
\* Mutant: the first of them.
Patch_First(l) ==
  IF opts.mode = "auto" THEN "y"
  ELSE IF Letters(l) = {} THEN "n"
  ELSE l[CHOOSE i \in Letters(l) : \A j \in Letters(l) : j >= i]

Patch(l) ==
  IF opts.mode = "auto" THEN "y"
  ELSE IF Letters(l) = {} THEN "n"
  ELSE l[CHOOSE i \in Letters(l) : \A j \in Letters(l) : j <= i]

AskPatch ==
  /\ ph = "ask"
  /\ \E l \in Lines \cup {Eof} :
       /\ IF opts.mode = "auto" THEN UNCHANGED <<input, answer>> ELSE Line(l)
       /\ \/ Patch(l) = "y" /\ deed' = "commit" /\ ph' = "enter"
          \/ Patch(l) = "n" /\ deed' = "cleanup" /\ ph' = "exit"
          \/ Patch(l) = "m" /\ UNCHANGED <<deed, ph>> \* files_print
  /\ UNCHANGED <<batch, argv, opts, id, names, place>>

\* wait_enter
Enter ==
  /\ ph = "enter"
  /\ IF opts.mode = "interactive" THEN \E l \in Lines \cup {Eof} : Line(l) ELSE UNCHANGED <<input, answer>>
  /\ ph' = "exit"
  /\ UNCHANGED <<batch, argv, opts, id, names, place, deed>>

Exit ==
  /\ ph = "exit"
  /\ ph' = "shell" /\ argv' = << >>
  /\ opts' = NoOptions /\ id' = "" /\ names' = 0 /\ place' = Nowhere
  /\ input' = 0 /\ answer' = Eof /\ deed' = "nothing"
  /\ UNCHANGED batch

--------------------------------------------------------------------------
ProgramInit ==
  /\ Init
  /\ ph = "shell" /\ argv = << >>
  /\ opts = NoOptions /\ id = "" /\ names = 0
  /\ place = Nowhere
  /\ input = 0 /\ answer = Eof /\ deed = "nothing"

Running ==
  \/ ReadArg \/ Dispatch \/ RunBatch \/ BatchStep \/ BatchEnd
  \/ AskPath \/ NoPlace \/ AskMode \/ Lookup \/ AskPatch \/ Enter \/ Exit

ProgramNext == (\E line \in CommandLines : Start(line)) \/ Running

ProgramSpec == ProgramInit /\ [][ProgramNext]_pall
--------------------------------------------------------------------------
\* Files are replaced only if -auto was given, with a path, or if the user's
\* last word on the line was yes: an empty line, the end of the input, or an
\* answer taken back on the same line do not do it, nor does an earlier yes.
Consent ==
  deed = "commit" =>
    \/ opts.mode = "auto" /\ opts.path
    \/ ph = "exit" \* the line may be that of wait_enter
    \/ /\ answer # Eof
       /\ \E i \in DOMAIN answer :
            answer[i] = "y" /\ \A j \in i + 1 .. Len(answer) : answer[j] \notin {"n", "m"}

=============================================================================
