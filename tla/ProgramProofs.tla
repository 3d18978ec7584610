---------------------------- MODULE ProgramProofs ----------------------------
(***************************************************************************)
(* What a batch command does to the directory, for all command lines, all  *)
(* directories to begin with and whatever step it is stopped at; and that  *)
(* nothing is committed without consent.                                   *)
(***************************************************************************)
EXTENDS Program, FiniteSetTheorems, TLAPS

--------------------------------------------------------------------------
(* Where a command is                                                      *)

InPatch == {"expanded", "applied", "pack", "packed", "unpackable", "patched"}
InArg   == InPatch \cup {"unpack", "unpacked", "drop", "converted", "convert", "strip", "result"}
InAll   == {"all", "list", "listed", "next", "nolist"}

\* What is known of the command at pc = p.
At(p) ==
  /\ p \in InArg \cup InAll \cup {"idle", "extract", "cab", "patch"}
  /\ p \in {"extract", "cab", "patch"} => cmd.func = p
  /\ p \in {"convert", "strip", "list", "all"} => cmd.func = p /\ arg = 1
  /\ p \in InAll => cmd.func \in {"all", "list"}
  /\ p = "unpack" => cmd.func = "all"
  /\ p \in {"unpacked", "drop"} => cmd.func \in {"extract", "all"}
  /\ p = "converted" => cmd.func = "convert"
  /\ p \in InPatch => cmd.func = "patch"
  /\ p = "result" => cmd.func \notin {"", "list"}
  /\ p \in InArg => arg <= Len(cmd.args)
  /\ p \in {"unpack", "unpacked", "drop"} /\ cmd.func = "all" => start[Arg.out] = Absent

\* Where a write that is followed by the step x may go.
MayWrite(p, x) ==
  /\ x \in {"result", "drop", "unpacked", "listed", "converted", "expanded", "applied", "patched", "packed"}
  /\ x \in {"result", "drop"} =>
       /\ p = Arg.out /\ arg <= Len(cmd.args)
       /\ cmd.func \in {"extract", "all", "cab", "strip"}
       /\ cmd.func = "all" => start[Arg.out] = Absent
  /\ x \in {"unpacked", "listed", "converted", "expanded"} => p = VXD
  /\ x \in {"applied", "patched", "packed"} => p = WX

\* Files are moved to the output at last, or from one temporary name to the
\* other.
MayMove(p, q, x) ==
  /\ x \in {"result", "pack", "patched"}
  /\ x = "pack" => p = WX /\ q = VXD
  /\ x = "patched" => p = VXD /\ q = WX
  /\ x = "result" => \/ cmd.func = "convert" /\ p = VXD /\ q = Arg.out
                     \/ cmd.func = "patch" /\ p = WX /\ q = Arg.out
                     \/ cmd.func = "patch" /\ p = WX /\ q = VXD /\ t = "failed"

Writing == w = [to |-> w.to, holds |-> w.holds, then |-> w.then] /\ w.holds \in Data /\ MayWrite(w.to, w.then)
Moving  == w = [from |-> w.from, to |-> w.to, then |-> w.then] /\ MayMove(w.from, w.to, w.then)

NoCmd == [func |-> "", src |-> WX, args |-> << >>, force |-> "raw"]

Typed ==
  /\ dir \in [Path -> Data]
  /\ start \in [Path -> Data]
  /\ cmd \in Calls \cup {NoCmd}
  /\ arg \in Nat \ {0} /\ arg <= Len(cmd.args) + 1
  /\ temp \in BOOLEAN /\ (temp => cmd.func \in {"all", "list"})
  /\ t \in {"ok", "failed"}
  /\ r \in {"ok", "failed", "stopped"}
  /\ IF pc \in {"write", "move"} THEN At(w.then) ELSE At(pc)
  /\ pc = "write" => Writing /\ (w.then = "unpacked" => w.holds # Absent)
  /\ pc = "move" => Moving
  /\ pc = "unpacked" => dir[VXD] # Absent

--------------------------------------------------------------------------
(* What the files hold                                                     *)

Source   == start[Arg.in]
Expanded == As(Source, "w3")
Better   == Patched(Expanded, "new")
Packed   == Source \in Content /\ Source.form = "w4"

\* What --patch has made so far of the argument at pc = p.
Patching(p) ==
  /\ p \in InPatch \ {"patched"} => Packed
  /\ p = "expanded" => dir[VXD] = Expanded
  /\ p \in {"pack", "packed", "unpackable"} \/ (p = "applied" /\ t = "ok") => Source.ver = "old"
  /\ p = "applied" /\ t = "ok" => dir[WX] = Better
  /\ p \in {"pack", "packed", "unpackable"} => dir[VXD] = Better
  /\ p = "packed" => dir[WX] = As(Better, "w4")
  /\ p = "patched" => dir[WX] \in Made(arg)
  /\ p = "converted" => dir[VXD] \in Made(arg)

Held ==
  /\ pc \notin {"write", "move"} => Patching(pc)
  /\ pc = "write" =>
       /\ w.then = "expanded" => w.holds = Expanded /\ Packed
       /\ w.then = "applied" => w.holds = Better /\ Packed /\ Source.ver = "old" /\ t = "ok"
       /\ w.then = "packed" => w.holds = As(Better, "w4") /\ Packed /\ Source.ver = "old" /\ dir[VXD] = Better
       /\ w.then \in {"patched", "converted"} => w.holds \in Made(arg)
  /\ pc = "move" =>
       /\ w.then \in {"pack", "patched"} => dir[w.from] = Better /\ Packed /\ Source.ver = "old"
       /\ w.then = "result" /\ w.to \notin Temps => dir[w.from] \in Made(arg)

\* The arguments not yet reached are as they were.
Ahead ==
  cmd.func \in {"convert", "patch"} =>
    \A i \in DOMAIN cmd.args :
      i > arg \/ (i = arg /\ pc \in {"patch", "convert"}) => dir[cmd.args[i].in] = start[cmd.args[i].in]

\* Only while it is moved is an output missing.
WholeOutputs ==
  cmd.func \in {"convert", "patch"} =>
    \A i \in DOMAIN cmd.args :
      LET p == cmd.args[i].out
      IN  \/ dir[p] = start[p] \/ dir[p] \in Made(i)
          \/ /\ dir[p] = Absent /\ \E q \in Temps : dir[q] \in Made(i)
             /\ \/ pc = "move" /\ w.to = p /\ i = arg
                \/ pc = "idle" /\ r = "stopped"

--------------------------------------------------------------------------
(* A directory without the temporary files of earlier runs                 *)

Clean == \A q \in Temps : start[q] = Absent

\* How far the other commands are, from a directory that is still as it was.
Original == start[cmd.src]
Begun ==
  /\ pc \in {"all", "list", "strip"} => dir = start
  /\ cmd.func \in {"all", "list"} /\ pc \notin {"all", "list", "nolist", "idle"} => Original # Absent

\* The W3 form of the archive, made for some of its drivers.
OfSource(c) == c = As(Original, "w3") /\ Original \in Content
GoodTemp ==
  cmd.func \in {"extract", "all", "list"} =>
    /\ \/ dir[VXD] = Absent \/ OfSource(dir[VXD])
       \/ pc = "write" /\ w.to = VXD
       \/ pc = "nolist" \/ (pc = "result" /\ t = "failed")
    /\ pc = "write" /\ w.to = VXD => OfSource(w.holds)
    /\ pc = "unpacked" => OfSource(dir[VXD])

\* The outputs, while the command has not failed.
GoodOutputs ==
  /\ \A i \in DOMAIN cmd.args :
       \/ dir[cmd.args[i].out] = start[cmd.args[i].out] \/ dir[cmd.args[i].out] \in Made(i)
       \/ i = arg /\ pc = "write" /\ w.to = cmd.args[i].out
       \/ i = arg /\ pc = "result" /\ t = "failed"
  /\ pc = "write" /\ w.to \notin Temps => w.holds \in Made(arg)

Good == r = "ok" /\ Clean /\ cmd.func \notin {"convert", "patch"} => GoodTemp /\ GoodOutputs

\* The steps at which a temporary file may be there.
VXDMay ==
  \/ pc = "write" /\ (w.then \in {"unpacked", "converted", "expanded", "drop", "applied", "packed"}
                      \/ (w.then \in {"listed", "result"} /\ temp))
  \/ pc = "move" /\ VXD \in {w.from, w.to}
  \/ pc \in {"unpacked", "drop", "converted", "expanded", "applied", "pack", "packed", "unpackable"}
  \/ pc \in {"listed", "next", "unpack", "result"} /\ temp
WXMay ==
  \/ pc = "write" /\ w.to = WX
  \/ pc = "move" /\ WX \in {w.from, w.to}
  \/ pc \in {"applied", "patched", "packed"}

\* Nothing failed before the first argument.
NoneFailed ==
  arg = 1 =>
    /\ pc \in {"extract", "cab", "patch", "convert", "strip", "list", "all", "listed", "next", "unpack", "expanded"}
         => t = "ok"
    /\ pc = "write" /\ w.then \in {"listed", "expanded"} => t = "ok"

\* The W3 form of a W4 archive that is listed is to be removed.
ListTemp == pc = "listed" \/ (pc = "write" /\ w.then = "listed") => temp

FewTemps ==
  Clean /\ r = "ok" /\ t = "ok" /\ Len(cmd.args) = 1 =>
    /\ dir[VXD] = Absent \/ VXDMay
    /\ dir[WX] = Absent \/ WXMay

BatchInv == Typed /\ OthersKept
TempsInv == NoneFailed /\ ListTemp /\ FewTemps
WholeInv == Held /\ Ahead /\ WholeOutputs
GoodInv == Begun /\ Good

--------------------------------------------------------------------------
(* The command stays where it is                                           *)

LEMMA Names ==
  /\ Temps = {WX, VXD} /\ WX \in Path /\ VXD \in Path /\ WX # VXD
  /\ Absent \in Data /\ Torn \in Data /\ Absent # Torn
  /\ Absent \notin Content /\ Torn \notin Content
BY BatchAssumption, DataAssumption DEF Temps, Data

LEMMA ArgIs ==
  ASSUME Typed
  PROVE  /\ cmd = NoCmd => cmd.func = "" /\ Len(cmd.args) = 0 /\ DOMAIN cmd.args = {}
         /\ Len(cmd.args) \in Nat /\ DOMAIN cmd.args = 1 .. Len(cmd.args)
         /\ cmd.func # "" => cmd \in Calls
         /\ arg <= Len(cmd.args) => cmd \in Calls /\ arg \in DOMAIN cmd.args /\ Arg = cmd.args[arg]
         /\ \A i \in DOMAIN cmd.args :
              /\ cmd.args[i].out \in Path /\ cmd.args[i].out \notin Temps
              /\ cmd.func \in {"convert", "patch", "strip"} => cmd.args[i].in \in Path
              /\ cmd.func = "cab" => cmd.args[i].in \in DOMAIN Holds[cmd.src]
<1>1. cmd = NoCmd => cmd.func = "" /\ Len(cmd.args) = 0 /\ DOMAIN cmd.args = {}
  <2>1. Len(<< >>) = 0 /\ DOMAIN << >> = {}
    OBVIOUS
  <2>2. NoCmd.func = "" /\ NoCmd.args = << >>
    BY DEF NoCmd
  <2> QED BY <2>1, <2>2
<1>2. cmd \in Calls \cup {NoCmd} /\ arg \in Nat \ {0}
  BY DEF Typed
<1>3. cmd \in Calls =>
        /\ Len(cmd.args) \in Nat /\ DOMAIN cmd.args = 1 .. Len(cmd.args)
        /\ \A i \in DOMAIN cmd.args :
              /\ cmd.args[i].out \in Path /\ cmd.args[i].out \notin Temps
              /\ cmd.func \in {"convert", "patch", "strip"} => cmd.args[i].in \in Path
              /\ cmd.func = "cab" => cmd.args[i].in \in DOMAIN Holds[cmd.src]
  BY BatchAssumption
<1>4. ASSUME arg <= Len(cmd.args)
      PROVE  cmd \in Calls /\ arg \in DOMAIN cmd.args
  <2>1. cmd \in Calls
    <3>1. ~(arg <= 0)
      BY <1>2
    <3>2. cmd # NoCmd
      BY <1>1, <1>4, <3>1
    <3> QED BY <1>2, <3>2
  <2> QED BY <1>2, <1>3, <1>4, <2>1
<1>5. Len(cmd.args) \in Nat /\ DOMAIN cmd.args = 1 .. Len(cmd.args)
  <2>1. cmd = NoCmd => Len(cmd.args) \in Nat /\ DOMAIN cmd.args = 1 .. Len(cmd.args)
    <3>1. 1 .. 0 = {} /\ 0 \in Nat
      OBVIOUS
    <3> QED BY <1>1, <3>1
  <2> QED BY <1>2, <1>3, <2>1
<1>6. cmd.func # "" => cmd \in Calls
  BY <1>1, <1>2
<1>7. \A i \in DOMAIN cmd.args : cmd \in Calls
  BY <1>1, <1>2
<1> QED BY <1>1, <1>3, <1>4, <1>5, <1>6, <1>7 DEF Arg

LEMMA CallIs ==
  ASSUME Typed, cmd.func # ""
  PROVE  /\ cmd.func \in {"extract", "all", "list", "convert", "patch", "cab", "strip"}
         /\ cmd.src \in Path /\ cmd.force \in Form
         /\ cmd.func \in {"convert", "strip"} => Len(cmd.args) = 1
BY ArgIs, BatchAssumption

LEMMA DataIs ==
  ASSUME NEW c \in Data
  PROVE  /\ \A f \in Form : As(c, f) \in Data /\ (c # Absent => As(c, f) # Absent)
         /\ \A f \in Form : c \in Content => As(c, f) \in Content /\ As(c, f).form = f
                                             /\ As(c, f).file = c.file /\ As(c, f).ver = c.ver
         /\ Patched(c, "new") \in Data
         /\ c \in Content => Patched(c, "new") \in Content
         /\ c \in {Absent, Torn} \/ c \in Content
         /\ As(Absent, "w3") = Absent /\ As(Torn, "w3") = Torn /\ Patched(Torn, "new") = Torn
<1>1. c \in {Absent, Torn} \/ c \in Content
  BY DEF Data
<1>2. \A f \in Form : c \in Content => As(c, f) \in Content /\ As(c, f).form = f
                                       /\ As(c, f).file = c.file /\ As(c, f).ver = c.ver
  BY DEF As, Content
<1>3. c \in Content => Patched(c, "new") \in Content
  BY DEF Patched, Content, Version
<1>4. c \notin Content => (\A f : As(c, f) = c) /\ Patched(c, "new") = c
  BY DEF As, Patched
<1>5. As(Absent, "w3") = Absent /\ As(Torn, "w3") = Torn /\ Patched(Torn, "new") = Torn
  BY Names DEF As, Patched
<1> QED BY <1>1, <1>2, <1>3, <1>4, <1>5, Names DEF Data

\* The driver n of what may be read as a W3 archive.
LEMMA DriverIs ==
  ASSUME NEW c \in Data, NEW n, c # Absent, c = Torn \/ n \in DOMAIN Holds[c.file]
  PROVE  Driver(c, n) \in Data
<1>1. CASE c = Torn
  BY <1>1, Names DEF Driver
<1>2. CASE c # Torn
  <2>1. c \in Content /\ c.file \in Path /\ c.ver \in Version
    BY <1>2, DataIs DEF Content
  <2>2. Holds[c.file][n] \in Path
    BY <1>2, <2>1, BatchAssumption
  <2> QED BY <1>2, <2>1, <2>2 DEF Driver, Data, Content, Form
<1> QED BY <1>1, <1>2

LEMMA DirIs ==
  ASSUME NEW d \in [Path -> Data]
  PROVE  /\ \A p \in Path, c \in Data : Put(d, p, c) \in [Path -> Data]
         /\ \A p \in Path : Unlink(d, p) \in [Path -> Data]
         /\ \A p, q \in Path : Move(d, p, q) \in [Path -> Data]
BY Names DEF Put, Unlink, Move

LEMMA AtStays ==
  ASSUME UNCHANGED <<cmd, arg, start>>, NEW p
  PROVE  At(p)' <=> At(p)
BY DEF At, Arg

Steps == InArg \cup InAll \cup {"idle", "extract", "cab", "patch"}

LEMMA NotSteps == "write" \notin Steps /\ "move" \notin Steps
BY DEF Steps, InArg, InAll, InPatch

\* Three ways to go on.
LEMMA GoTyped ==
  ASSUME Typed, UNCHANGED <<cmd, arg, start>>, NEW x, pc' = x, At(x),
         dir' \in [Path -> Data], temp' \in BOOLEAN, temp' => cmd.func \in {"all", "list"},
         t' \in {"ok", "failed"}, r' \in {"ok", "failed", "stopped"},
         x = "unpacked" => dir'[VXD] # Absent
  PROVE  Typed'
<1>1. At(x)' /\ x \in Steps
  BY AtStays DEF At, Steps
<1>2. pc' \notin {"write", "move"}
  BY <1>1, NotSteps
<1>3. At(pc)'
  <2>1. At(pc)' <=> At(x)'
    BY DEF At
  <2> QED BY <1>1, <2>1
<1> QED BY <1>2, <1>3 DEF Typed

LEMMA WriteTyped ==
  ASSUME Typed, UNCHANGED <<cmd, arg, start>>, NEW p \in Path, NEW c \in Data, NEW x,
         BeginWrite(p, c, x), At(x), MayWrite(p, x),
         temp' \in BOOLEAN, temp' => cmd.func \in {"all", "list"},
         t' \in {"ok", "failed"}, r' \in {"ok", "failed", "stopped"},
         x = "unpacked" => c # Absent
  PROVE  Typed'
<1>1. /\ pc' = "write" /\ dir' = Put(dir, p, Torn) /\ w' = [to |-> p, holds |-> c, then |-> x]
      /\ w'.to = p /\ w'.holds = c /\ w'.then = x
  BY DEF BeginWrite
<1>2. dir' \in [Path -> Data]
  BY <1>1, DirIs, Names DEF Typed
<1>3. At(w.then)'
  <2>1. At(w.then)' <=> At(x)'
    BY <1>1 DEF At
  <2> QED BY <2>1, AtStays
<1>4. Writing'
  BY <1>1 DEF Writing, MayWrite, Arg
<1> QED BY <1>1, <1>2, <1>3, <1>4 DEF Typed

LEMMA MoveTyped ==
  ASSUME Typed, UNCHANGED <<cmd, arg, temp, t, r, start>>, NEW p \in Path, NEW q \in Path, NEW x,
         BeginMove(p, q, x), At(x), MayMove(p, q, x)
  PROVE  Typed'
<1>1. CASE Exists(dir, p)
  <2>1. /\ pc' = "move" /\ dir' = Unlink(dir, q) /\ w' = [from |-> p, to |-> q, then |-> x]
        /\ w'.from = p /\ w'.to = q /\ w'.then = x
    BY <1>1 DEF BeginMove
  <2>2. dir' \in [Path -> Data]
    BY <2>1, DirIs DEF Typed
  <2>3. At(w.then)'
    <3>1. At(w.then)' <=> At(x)'
      BY <2>1 DEF At
    <3> QED BY <3>1, AtStays
  <2>4. Moving'
    BY <2>1 DEF Moving, MayMove, Arg
  <2> QED BY <2>1, <2>2, <2>3, <2>4 DEF Typed
<1>2. CASE ~Exists(dir, p)
  <2>1. pc' = x /\ dir' = dir /\ x # "unpacked"
    BY <1>2 DEF BeginMove, MayMove
  <2> QED BY <2>1, GoTyped DEF Typed
<1> QED BY <1>1, <1>2

LEMMA KindIs ==
  ASSUME NEW c, NEW k \in Kinds(c)
  PROVE  /\ k \in {"w3", "w4"} => c # Absent
         /\ k = "w4" => c # Torn /\ c.form = "w4"
BY Names DEF Kinds

LEMMA CallTyped ==
  ASSUME Typed, NEW c \in Calls, Call(c)
  PROVE  Typed'
<1>1. /\ cmd' = c /\ arg' = 1 /\ pc' = c.func /\ t' = "ok" /\ r' = "ok" /\ temp' = FALSE
      /\ start' = dir /\ dir' = dir
  BY DEF Call
<1>2. /\ c.func \in {"extract", "all", "list", "convert", "patch", "cab", "strip"}
      /\ Len(c.args) \in Nat
      /\ c.func \in {"convert", "strip"} => Len(c.args) = 1
  BY BatchAssumption
<1>3. At(pc)'
  <2>1. arg' = 1 /\ cmd'.func = pc' /\ pc' = c.func
    BY <1>1
  <2>2. pc' \in {"convert", "strip"} => arg' <= Len(cmd'.args)
    <3>1. pc' \in {"convert", "strip"} => Len(c.args) = 1
      BY <1>1, <1>2
    <3>2. cmd'.args = c.args /\ arg' <= 1
      BY <1>1
    <3> QED BY <3>1, <3>2
  <2> QED BY <1>2, <2>1, <2>2 DEF At, InArg, InAll, InPatch
<1>4. pc' \notin {"write", "move", "unpacked"}
  BY <1>1, <1>2
<1>5. arg' \in Nat \ {0} /\ arg' <= Len(cmd'.args) + 1
  BY <1>1, <1>2
<1>6. temp' \in BOOLEAN /\ ~temp'
  BY <1>1
<1> QED BY <1>1, <1>3, <1>4, <1>5, <1>6 DEF Typed

LEMMA EndTyped ==
  ASSUME Typed, End \/ Stop \/ NoList \/ Listed \/ FailWrite \/ ListClose
  PROVE  Typed'
<1>1. UNCHANGED <<cmd, arg, start>> /\ At("idle") /\ dir \in [Path -> Data]
  BY DEF End, Stop, NoList, Listed, FailWrite, ListClose, Typed, At, InArg, InAll, InPatch
<1>2. CASE End \/ Stop \/ NoList
  <2>1. pc' = "idle" /\ dir' = dir /\ temp' = temp /\ t' = t /\ r' \in {r, "stopped", "failed"}
    BY <1>2 DEF End, Stop, NoList
  <2> QED BY <1>1, <2>1, GoTyped DEF Typed
<1>3. CASE Listed
  <2>1. pc' = "next" /\ dir' = dir /\ temp' = temp /\ t' = t /\ r' = r /\ At("next")
    BY <1>3 DEF Listed, Typed, At, InArg, InAll, InPatch
  <2> QED BY <1>1, <2>1, GoTyped DEF Typed
<1>4. CASE ListClose
  <2>1. pc' = "idle" /\ temp' = temp /\ t' = t /\ r' = r /\ dir' \in {dir, Unlink(dir, VXD)}
    BY <1>4 DEF ListClose
  <2>2. dir' \in [Path -> Data]
    BY <1>1, <2>1, DirIs, Names
  <2> QED BY <1>1, <2>1, <2>2, GoTyped DEF Typed
<1>5. CASE FailWrite
  <2>1. /\ dir' = dir /\ temp' = temp /\ t' = "failed" /\ r' = r /\ pc = "write"
        /\ w.then \in {"unpacked", "listed", "converted", "expanded", "packed"}
        /\ pc' = IF w.then = "listed" THEN "nolist" ELSE "result"
    BY <1>5 DEF FailWrite
  <2>2. At(w.then)
    BY <2>1 DEF Typed
  <2>3. w.then = "listed" => At("nolist")
    BY <2>2 DEF At, InArg, InAll, InPatch
  <2>4. w.then # "listed" => At("result")
    BY <2>1, <2>2 DEF At, InArg, InAll, InPatch
  <2> QED BY <1>1, <2>1, <2>3, <2>4, GoTyped DEF Typed
<1> QED BY <1>2, <1>3, <1>4, <1>5

LEMMA FinishTyped ==
  ASSUME Typed, EndWrite \/ EndMove
  PROVE  Typed'
<1>1. /\ UNCHANGED <<cmd, arg, start, w, temp, t, r>> /\ dir \in [Path -> Data]
      /\ pc \in {"write", "move"} /\ pc' = w.then /\ At(w.then)
  BY DEF EndWrite, EndMove, Typed
<1>2. CASE EndWrite
  <2>1. dir' = Put(dir, w.to, w.holds) /\ pc = "write" /\ Writing /\ (w.then = "unpacked" => w.holds # Absent)
    BY <1>2 DEF EndWrite, Typed
  <2>2. w.to \in Path /\ w.holds \in Data /\ (w.then = "unpacked" => w.to = VXD)
    BY <2>1, ArgIs, Names DEF Writing, MayWrite
  <2>3. dir' \in [Path -> Data]
    BY <1>1, <2>1, <2>2, DirIs
  <2>4. w.then = "unpacked" => dir'[VXD] # Absent
    BY <1>1, <2>1, <2>2 DEF Put
  <2> QED BY <1>1, <2>3, <2>4, GoTyped DEF Typed
<1>3. CASE EndMove
  <2>1. dir' = Move(dir, w.from, w.to) /\ pc = "move" /\ Moving /\ w.then # "unpacked"
    BY <1>3 DEF EndMove, Typed, Moving, MayMove
  <2>2. w.to \in Path /\ w.from \in Path
    <3>1. w.then = "result" => arg <= Len(cmd.args)
      BY <1>1 DEF At, InArg
    <3> QED BY <2>1, <3>1, ArgIs, Names DEF Moving, MayMove
  <2>3. dir' \in [Path -> Data]
    BY <1>1, <2>1, <2>2, DirIs
  <2> QED BY <1>1, <2>1, <2>3, GoTyped DEF Typed
<1> QED BY <1>2, <1>3

LEMMA ResultTyped ==
  ASSUME Typed, OthersKept, Result \/ ListGet
  PROVE  Typed'
<1>1. /\ UNCHANGED <<dir, cmd, temp, t, start>> /\ dir \in [Path -> Data] /\ arg \in Nat \ {0}
      /\ Len(cmd.args) \in Nat
  BY ArgIs DEF Result, ListGet, Typed
<1>2. CASE Result
  <2>1. /\ arg' = arg + 1 /\ arg <= Len(cmd.args) /\ cmd.func \notin {"", "list"}
        /\ r' \in {r, t}
        /\ pc' = IF cmd.func \in {"extract", "cab", "patch"} THEN cmd.func
                 ELSE IF cmd.func = "all" THEN "next" ELSE "idle"
    <3>1. pc = "result" /\ At("result")
      BY <1>2 DEF Result, Typed
    <3> QED BY <1>2, <3>1 DEF Result, At, InArg
  <2>2. At(pc)' /\ pc' \notin {"write", "move", "unpacked"}
    BY <1>1, <2>1, CallIs DEF At, InArg, InAll, InPatch
  <2>3. arg' \in Nat \ {0} /\ arg' <= Len(cmd.args) + 1
    <3>1. arg' = arg + 1 /\ arg <= Len(cmd.args)
      BY <2>1
    <3> QED BY <1>1, <3>1
  <2>4. r' \in {"ok", "failed", "stopped"}
    BY <2>1 DEF Typed
  <2> QED BY <1>1, <2>2, <2>3, <2>4 DEF Typed
<1>3. CASE ListGet
  <2>1. /\ arg <= Len(cmd.args) /\ r' = r /\ pc = "next" /\ cmd.func \in {"all", "list"}
        /\ \/ arg' = arg + 1 /\ pc' = "next"
           \/ cmd.func = "all" /\ dir[Arg.out] = Absent /\ pc' = "unpack" /\ arg' = arg
    <3>1. pc = "next" /\ At("next")
      BY <1>3 DEF ListGet, Typed
    <3> QED BY <1>3, <3>1 DEF ListGet, At, InAll, Exists
  <2>2. CASE arg' = arg + 1 /\ pc' = "next"
    <3>1. At(pc)'
      BY <1>1, <2>1, <2>2 DEF At, InArg, InAll, InPatch
    <3> QED BY <1>1, <2>1, <2>2, <3>1 DEF Typed
  <2>3. CASE cmd.func = "all" /\ dir[Arg.out] = Absent /\ pc' = "unpack" /\ arg' = arg
    <3>1. start[Arg.out] = Absent
      <4>1. Arg.out \in Path \ Temps
        BY <2>1, ArgIs
      <4> QED BY <2>3, <4>1 DEF OthersKept
    <3>2. At("unpack")
      BY <2>1, <2>3, <3>1 DEF At, InArg, InAll, InPatch
    <3> QED BY <1>1, <2>1, <2>3, <3>2, GoTyped DEF Typed
  <2> QED BY <2>1, <2>2, <2>3
<1> QED BY <1>2, <1>3

\* Batch commands that read an archive.
LEMMA UnpackTyped ==
  ASSUME Typed, Unpack
  PROVE  Typed'
<1> DEFINE p == IF Exists(dir, VXD) THEN VXD ELSE cmd.src
<1>1. /\ UNCHANGED <<cmd, arg, temp, r, start>> /\ dir \in [Path -> Data]
      /\ pc \in {"unpack", "extract"} /\ arg <= Len(cmd.args) /\ cmd.func \in {"extract", "all"}
      /\ cmd.func = "all" => start[Arg.out] = Absent
      /\ At("result") /\ At("unpacked")
  <2>1. pc \in {"unpack", "extract"} /\ At(pc) /\ arg <= Len(cmd.args)
    BY DEF Unpack, Typed, At, InArg
  <2>2. cmd.func \in {"extract", "all"} /\ (cmd.func = "all" => start[Arg.out] = Absent)
    BY <2>1 DEF At
  <2>3. At("result") /\ At("unpacked")
    BY <2>1, <2>2 DEF At, InArg, InAll, InPatch
  <2>4. UNCHANGED <<cmd, arg, temp, r, start>> /\ dir \in [Path -> Data]
    BY DEF Unpack, Typed
  <2> QED BY <2>1, <2>2, <2>3, <2>4
<1>2. p \in Path /\ Arg.out \in Path
  BY <1>1, CallIs, ArgIs, Names
<1> HIDE DEF p
<1>3. PICK k \in Kinds(dir[p]) :
         \/ k = "w3" /\ ExtractW3(p, Arg.in, Arg.out, "result") /\ t' = "ok"
         \/ k = "w4" /\ p = cmd.src
              /\ BeginWrite(VXD, As(dir[p], "w3"), "unpacked") /\ t' = "ok"
         \/ (k \notin {"w3", "w4"} \/ (k = "w4" /\ p = VXD))
              /\ t' = "failed" /\ pc' = "result" /\ UNCHANGED <<dir, w>>
  BY DEF Unpack, p
<1>4. dir[p] \in Data /\ (k \in {"w3", "w4"} => dir[p] # Absent)
  BY <1>1, <1>2, KindIs
<1>5. CASE k = "w3" /\ ExtractW3(p, Arg.in, Arg.out, "result") /\ t' = "ok"
  <2>1. CASE /\ dir[p] = Torn \/ Arg.in \in DOMAIN Holds[dir[p].file]
             /\ BeginWrite(Arg.out, Driver(dir[p], Arg.in), "result")
    <3>1. Driver(dir[p], Arg.in) \in Data
      BY <1>4, <1>5, <2>1, DriverIs
    <3>2. MayWrite(Arg.out, "result")
      BY <1>1 DEF MayWrite
    <3>3. temp' \in BOOLEAN /\ (temp' => cmd.func \in {"all", "list"}) /\ r' \in {"ok", "failed", "stopped"}
      BY <1>1 DEF Typed
    <3> QED BY <1>1, <1>2, <1>5, <2>1, <3>1, <3>2, <3>3, WriteTyped
  <2>2. CASE pc' = "result" /\ UNCHANGED <<dir, w>>
    BY <1>1, <1>5, <2>2, GoTyped DEF Typed
  <2> QED BY <1>5, <2>1, <2>2 DEF ExtractW3
<1>6. CASE k = "w4" /\ p = cmd.src /\ BeginWrite(VXD, As(dir[p], "w3"), "unpacked") /\ t' = "ok"
  <2>1. As(dir[p], "w3") \in Data /\ As(dir[p], "w3") # Absent
    BY <1>4, <1>6, DataIs DEF Form
  <2>2. MayWrite(VXD, "unpacked")
    BY DEF MayWrite
  <2>3. temp' \in BOOLEAN /\ (temp' => cmd.func \in {"all", "list"}) /\ r' \in {"ok", "failed", "stopped"}
    BY <1>1 DEF Typed
  <2> QED BY <1>1, <1>6, <2>1, <2>2, <2>3, Names, WriteTyped
<1>7. CASE t' = "failed" /\ pc' = "result" /\ UNCHANGED <<dir, w>>
  BY <1>1, <1>7, GoTyped DEF Typed
<1> QED BY <1>3, <1>5, <1>6, <1>7

LEMMA UnpackMadeTyped ==
  ASSUME Typed, UnpackMade \/ Drop
  PROVE  Typed'
<1>1. /\ UNCHANGED <<cmd, arg, temp, t, r, start>> /\ dir \in [Path -> Data] /\ At(pc)
      /\ pc \in {"unpacked", "drop"}
  BY DEF UnpackMade, Drop, Typed
<1>2. /\ arg <= Len(cmd.args) /\ cmd.func \in {"extract", "all"} /\ At("drop") /\ At("result")
      /\ cmd.func = "all" => start[Arg.out] = Absent
  BY <1>1 DEF At, InArg, InAll, InPatch
<1>3. CASE UnpackMade
  <2>0. dir[VXD] \in Data /\ dir[VXD] # Absent /\ Arg.out \in Path
    BY <1>1, <1>2, <1>3, ArgIs, Names DEF UnpackMade, Typed
  <2>1. CASE /\ dir[VXD] = Torn \/ Arg.in \in DOMAIN Holds[dir[VXD].file]
             /\ BeginWrite(Arg.out, Driver(dir[VXD], Arg.in), "drop")
    <3>1. Driver(dir[VXD], Arg.in) \in Data
      BY <2>0, <2>1, DriverIs
    <3>2. MayWrite(Arg.out, "drop")
      BY <1>2 DEF MayWrite
    <3>3. temp' \in BOOLEAN /\ (temp' => cmd.func \in {"all", "list"})
      BY <1>1 DEF Typed
    <3>4. t' \in {"ok", "failed"} /\ r' \in {"ok", "failed", "stopped"}
      BY <1>1 DEF Typed
    <3> QED BY <1>1, <1>2, <2>0, <2>1, <3>1, <3>2, <3>3, <3>4, WriteTyped
  <2>2. CASE pc' = "drop" /\ UNCHANGED <<dir, w>>
    BY <1>1, <1>2, <2>2, GoTyped DEF Typed
  <2> QED BY <1>3, <2>1, <2>2 DEF UnpackMade, ExtractW3
<1>4. CASE Drop
  <2>1. dir' = Unlink(dir, VXD) /\ pc' = "result"
    BY <1>4 DEF Drop
  <2>2. dir' \in [Path -> Data]
    BY <1>1, <2>1, DirIs, Names
  <2> QED BY <1>1, <1>2, <2>1, <2>2, GoTyped DEF Typed
<1> QED BY <1>3, <1>4

LEMMA ListOpenTyped ==
  ASSUME Typed, ListOpen
  PROVE  Typed'
<1>1. /\ UNCHANGED <<cmd, arg, t, r, start>> /\ dir \in [Path -> Data] /\ cmd.func \in {"all", "list"}
      /\ At("next") /\ At("nolist") /\ At("listed")
  <2>1. UNCHANGED <<cmd, arg, t, r, start>> /\ dir \in [Path -> Data] /\ pc \in {"list", "all"} /\ At(pc)
    BY DEF ListOpen, Typed
  <2>2. cmd.func \in {"all", "list"}
    BY <2>1 DEF At
  <2> QED BY <2>1, <2>2 DEF At, InArg, InAll, InPatch
<1>2. cmd.src \in Path /\ dir[cmd.src] \in Data
  BY <1>1, CallIs
<1>3. t' \in {"ok", "failed"} /\ r' \in {"ok", "failed", "stopped"}
  BY <1>1 DEF Typed
<1>4. CASE pc' \in {"next", "nolist"} /\ UNCHANGED <<dir, w, temp>>
  BY <1>1, <1>3, <1>4, GoTyped DEF Typed
<1>5. CASE BeginWrite(VXD, As(dir[cmd.src], "w3"), "listed") /\ temp' = TRUE
  <2>1. As(dir[cmd.src], "w3") \in Data
    BY <1>2, DataIs DEF Form
  <2>2. MayWrite(VXD, "listed") /\ temp' \in BOOLEAN
    BY <1>5 DEF MayWrite
  <2> QED BY <1>1, <1>3, <1>5, <2>1, <2>2, Names, WriteTyped
<1> QED BY <1>4, <1>5 DEF ListOpen

LEMMA ConvertTyped ==
  ASSUME Typed, Convert \/ Converted
  PROVE  Typed'
<1>1. /\ UNCHANGED <<cmd, arg, temp, r, start>> /\ dir \in [Path -> Data] /\ cmd.func = "convert"
      /\ arg <= Len(cmd.args) /\ At("result") /\ At("converted")
  <2>1. UNCHANGED <<cmd, arg, temp, r, start>> /\ dir \in [Path -> Data] /\ pc \in {"convert", "converted"} /\ At(pc)
    BY DEF Convert, Converted, Typed
  <2>2. cmd.func = "convert" /\ arg <= Len(cmd.args)
    BY <2>1 DEF At, InArg
  <2> QED BY <2>1, <2>2 DEF At, InArg, InAll, InPatch
<1>2. Arg.in \in Path /\ Arg.out \in Path /\ dir[Arg.in] \in Data /\ cmd.force \in Form
  BY <1>1, ArgIs, CallIs
<1>3. temp' \in BOOLEAN /\ (temp' => cmd.func \in {"all", "list"}) /\ r' \in {"ok", "failed", "stopped"}
  BY <1>1 DEF Typed
<1>4. CASE Convert
  <2>1. CASE t' = "failed" /\ pc' = "result" /\ UNCHANGED <<dir, w>>
    BY <1>1, <1>3, <2>1, GoTyped
  <2>2. CASE BeginWrite(VXD, As(dir[Arg.in], cmd.force), "converted") /\ t' = "ok"
    <3>1. As(dir[Arg.in], cmd.force) \in Data
      BY <1>2, DataIs
    <3>2. MayWrite(VXD, "converted")
      BY DEF MayWrite
    <3> QED BY <1>1, <1>3, <2>2, <3>1, <3>2, Names, WriteTyped
  <2> QED BY <1>4, <2>1, <2>2 DEF Convert
<1>5. CASE Converted
  <2>1. BeginMove(VXD, Arg.out, "result") /\ t' = t
    BY <1>5 DEF Converted
  <2>2. MayMove(VXD, Arg.out, "result")
    BY <1>1 DEF MayMove
  <2> QED BY <1>1, <1>2, <2>1, <2>2, Names, MoveTyped
<1> QED BY <1>4, <1>5

\* --patch
LEMMA ApplyTyped ==
  ASSUME Typed, NEW p \in Path, NEW x \in {"patched", "applied"}, NEW y \in {"result", "applied"},
         Apply(p, x, y), UNCHANGED <<cmd, arg, temp, r, start>>, At(x), At(y)
  PROVE  Typed'
<1>1. dir[p] \in Data /\ dir \in [Path -> Data]
  BY DEF Typed
<1>2. temp' \in BOOLEAN /\ (temp' => cmd.func \in {"all", "list"}) /\ r' \in {"ok", "failed", "stopped"}
  BY DEF Typed
<1>3. CASE BeginWrite(WX, Patched(dir[p], "new"), x) /\ t' = "ok"
  <2>1. Patched(dir[p], "new") \in Data
    BY <1>1, DataIs
  <2>2. MayWrite(WX, x) /\ x # "unpacked"
    BY DEF MayWrite
  <2> QED BY <1>2, <1>3, <2>1, <2>2, Names, WriteTyped
<1>4. CASE t' = "failed" /\ pc' = y /\ UNCHANGED <<dir, w>>
  BY <1>1, <1>2, <1>4, GoTyped
<1> QED BY <1>3, <1>4 DEF Apply

LEMMA PatchAt ==
  ASSUME Typed, cmd.func = "patch", arg <= Len(cmd.args)
  PROVE  At("result") /\ \A p \in InPatch : At(p)
BY DEF At, InArg, InAll, InPatch

LEMMA PatchTyped ==
  ASSUME Typed, PatchArg \/ ApplyW3 \/ KeepW3 \/ Pack \/ Check \/ LeaveW3 \/ PatchDone
  PROVE  Typed'
<1>1. /\ UNCHANGED <<cmd, arg, temp, r, start>> /\ dir \in [Path -> Data] /\ cmd.func = "patch"
      /\ arg <= Len(cmd.args) /\ At("result") /\ \A p \in InPatch : At(p)
  <2>1. /\ UNCHANGED <<cmd, arg, temp, r, start>> /\ dir \in [Path -> Data] /\ pc \in {"patch"} \cup InPatch
        /\ At(pc) /\ (pc = "patch" => arg <= Len(cmd.args))
    BY DEF PatchArg, ApplyW3, KeepW3, Pack, Check, LeaveW3, PatchDone, Typed, InPatch
  <2>2. cmd.func = "patch" /\ arg <= Len(cmd.args)
    BY <2>1 DEF At, InArg
  <2> QED BY <2>1, <2>2, PatchAt
<1>2. /\ Arg.in \in Path /\ Arg.out \in Path /\ dir[Arg.in] \in Data /\ dir[VXD] \in Data
      /\ WX \in Path /\ VXD \in Path
  BY <1>1, ArgIs, CallIs, Names
<1>3. temp' \in BOOLEAN /\ (temp' => cmd.func \in {"all", "list"}) /\ r' \in {"ok", "failed", "stopped"}
  BY <1>1 DEF Typed
<1>4. CASE PatchArg
  <2>1. CASE BeginWrite(VXD, As(dir[Arg.in], "w3"), "expanded") /\ t' = "ok"
    <3>1. As(dir[Arg.in], "w3") \in Data
      BY <1>2, DataIs DEF Form
    <3>2. MayWrite(VXD, "expanded") /\ At("expanded")
      BY <1>1 DEF MayWrite, InPatch
    <3> QED BY <1>1, <1>2, <1>3, <2>1, <3>1, <3>2, WriteTyped
  <2>2. CASE Apply(Arg.in, "patched", "result")
    <3>1. At("patched")
      BY <1>1 DEF InPatch
    <3> QED BY <1>1, <1>2, <2>2, <3>1, ApplyTyped
  <2> QED BY <1>4, <2>1, <2>2 DEF PatchArg
<1>5. CASE ApplyW3
  <2>1. Apply(VXD, "applied", "applied") /\ At("applied")
    BY <1>1, <1>5 DEF ApplyW3, InPatch
  <2> QED BY <1>1, <1>2, <2>1, ApplyTyped
<1>6. CASE KeepW3
  <2>1. CASE t = "ok"
    <3>1. BeginMove(WX, VXD, "pack") /\ MayMove(WX, VXD, "pack") /\ At("pack") /\ t' = t
      BY <1>1, <1>6, <2>1 DEF KeepW3, MayMove, InPatch
    <3> QED BY <1>1, <1>2, <3>1, MoveTyped
  <2>2. CASE t # "ok"
    <3>1. t = "failed"
      BY <2>2 DEF Typed
    <3>2. BeginMove(WX, VXD, "result") /\ MayMove(WX, VXD, "result") /\ t' = t
      BY <1>1, <1>6, <2>2, <3>1 DEF KeepW3, MayMove
    <3> QED BY <1>1, <1>2, <3>2, MoveTyped
  <2> QED BY <2>1, <2>2
<1>7. CASE Pack
  <2>1. BeginWrite(WX, As(dir[VXD], "w4"), "packed") /\ As(dir[VXD], "w4") \in Data /\ t' = t
    BY <1>2, <1>7, DataIs DEF Pack, Form
  <2>2. MayWrite(WX, "packed") /\ At("packed") /\ t' \in {"ok", "failed"}
    BY <1>1, <2>1 DEF MayWrite, InPatch, Typed
  <2> QED BY <1>1, <1>2, <1>3, <2>1, <2>2, WriteTyped
<1>8. CASE Check
  <2>1. dir' \in {Unlink(dir, VXD), Unlink(dir, WX)} /\ pc' \in {"patched", "unpackable"} /\ t' = t
    BY <1>8 DEF Check
  <2>2. dir' \in [Path -> Data] /\ At(pc') /\ t' \in {"ok", "failed"}
    BY <1>1, <1>2, <2>1, DirIs, ZenonT(60) DEF InPatch, Typed
  <2>3. PICK x : x = pc'
    OBVIOUS
  <2>4. At(x) /\ x # "unpacked" /\ pc' = x
    BY <1>1, <2>1, <2>3 DEF InPatch
  <2> QED BY <1>1, <1>3, <2>2, <2>4, GoTyped
<1>9. CASE LeaveW3
  <2>1. BeginMove(VXD, WX, "patched") /\ MayMove(VXD, WX, "patched") /\ At("patched") /\ t' = t
    BY <1>1, <1>9 DEF LeaveW3, MayMove, InPatch
  <2> QED BY <1>1, <1>2, <2>1, MoveTyped
<1>10. CASE PatchDone
  <2>1. BeginMove(WX, Arg.out, "result") /\ MayMove(WX, Arg.out, "result") /\ t' = t
    BY <1>1, <1>10 DEF PatchDone, MayMove
  <2> QED BY <1>1, <1>2, <2>1, MoveTyped
<1> QED BY <1>4, <1>5, <1>6, <1>7, <1>8, <1>9, <1>10

LEMMA OneFileTyped ==
  ASSUME Typed, CabArg \/ Strip
  PROVE  Typed'
<1>1. /\ UNCHANGED <<cmd, arg, temp, r, start>> /\ dir \in [Path -> Data] /\ cmd.func \in {"cab", "strip"}
      /\ arg <= Len(cmd.args) /\ At("result")
  <2>1. /\ UNCHANGED <<cmd, arg, temp, r, start>> /\ dir \in [Path -> Data] /\ pc \in {"cab", "strip"}
        /\ At(pc) /\ (pc = "cab" => arg <= Len(cmd.args))
    BY DEF CabArg, Strip, Typed
  <2>2. cmd.func = pc /\ arg <= Len(cmd.args)
    BY <2>1 DEF At, InArg
  <2> QED BY <2>1, <2>2 DEF At, InArg, InAll, InPatch
<1>2. Arg.out \in Path /\ MayWrite(Arg.out, "result")
  BY <1>1, ArgIs DEF MayWrite
<1>3. temp' \in BOOLEAN /\ (temp' => cmd.func \in {"all", "list"}) /\ r' \in {"ok", "failed", "stopped"}
  BY <1>1 DEF Typed
<1>4. CASE CabArg
  <2>1. CASE /\ BeginWrite(Arg.out, [file |-> Holds[cmd.src][Arg.in], ver |-> "old", form |-> "raw"], "result")
             /\ t' = "ok"
    <3>1. cmd.func = "cab"
      BY <1>4 DEF CabArg, Typed, At
    <3>2. Holds[cmd.src][Arg.in] \in Path
      BY <1>1, <3>1, ArgIs, CallIs, BatchAssumption
    <3>3. [file |-> Holds[cmd.src][Arg.in], ver |-> "old", form |-> "raw"] \in Data
      BY <3>2 DEF Data, Content, Version, Form
    <3> QED BY <1>1, <1>2, <1>3, <2>1, <3>3, WriteTyped
  <2>2. CASE t' = "failed" /\ pc' = "result" /\ dir' \in {dir, Put(dir, Arg.out, Torn)}
    <3>1. Put(dir, Arg.out, Torn) \in [Path -> Data]
      BY <1>1, <1>2, DirIs, Names
    <3>2. dir' \in [Path -> Data]
      BY <1>1, <2>2, <3>1
    <3> QED BY <1>1, <1>3, <2>2, <3>2, GoTyped
  <2> QED BY <1>4, <2>1, <2>2 DEF CabArg
<1>5. CASE Strip
  <2>1. CASE BeginWrite(Arg.out, From(Arg.in, Arg.out, As(dir[Arg.in], cmd.force)), "result") /\ t' = "ok"
    <3>1. cmd.func = "strip"
      BY <1>5 DEF Strip, Typed, At
    <3>2. As(dir[Arg.in], cmd.force) \in Data
      BY <1>1, <3>1, ArgIs, CallIs, DataIs
    <3>3. From(Arg.in, Arg.out, As(dir[Arg.in], cmd.force)) \in Data
      BY <3>2, Names DEF From
    <3> QED BY <1>1, <1>2, <1>3, <2>1, <3>3, WriteTyped
  <2>2. CASE t' = "failed" /\ pc' = "result" /\ UNCHANGED <<dir, w>>
    BY <1>1, <1>3, <2>2, GoTyped
  <2> QED BY <1>5, <2>1, <2>2 DEF Strip
<1> QED BY <1>4, <1>5

LEMMA StepTyped ==
  ASSUME Typed, OthersKept, Step
  PROVE  Typed'
BY EndTyped, FinishTyped, ResultTyped, UnpackTyped, UnpackMadeTyped, ListOpenTyped, ConvertTyped,
   PatchTyped, OneFileTyped DEF Step

--------------------------------------------------------------------------
(* No file but the outputs changes                                         *)

\* The files a step may write or remove.
Written(p) ==
  \/ p \in Temps
  \/ /\ arg <= Len(cmd.args) /\ p = Arg.out
     /\ cmd.func # "list" /\ (cmd.func = "all" => start[p] = Absent)

\* The file x after p was written, removed, or moved.
LEMMA FileIs ==
  ASSUME NEW d \in [Path -> Data], NEW p \in Path, NEW q \in Path, NEW x \in Path, NEW c
  PROVE  /\ Put(d, p, c)[x] = IF x = p THEN c ELSE d[x]
         /\ Unlink(d, p)[x] = IF x = p THEN Absent ELSE d[x]
         /\ p # q => Move(d, p, q)[x] = IF x = p THEN Absent ELSE IF x = q THEN d[p] ELSE d[x]
BY DEF Put, Unlink, Move

LEMMA BeginWritten ==
  ASSUME Typed, NEW p \in Path, NEW q \in Path, NEW c, NEW x, Written(p),
         BeginWrite(p, c, x) \/ BeginMove(q, p, x) \/ dir' = Unlink(dir, p) \/ dir' = Put(dir, p, Torn)
         \/ dir' = dir,
         NEW o \in Path
  PROVE  dir'[o] = dir[o] \/ Written(o)
<1>1. dir \in [Path -> Data]
  BY DEF Typed
<1>2. dir' \in {dir, Unlink(dir, p), Put(dir, p, Torn)}
  BY DEF BeginWrite, BeginMove
<1>3. o # p => dir'[o] = dir[o]
  BY <1>1, <1>2, FileIs
<1> QED BY <1>3

LEMMA OutputWritten ==
  ASSUME Typed, arg <= Len(cmd.args), cmd.func # "list", cmd.func = "all" => start[Arg.out] = Absent
  PROVE  Arg.out \in Path /\ Written(Arg.out) /\ VXD \in Path /\ Written(VXD) /\ WX \in Path /\ Written(WX)
BY ArgIs, Names DEF Written

LEMMA StepWrites ==
  ASSUME Typed, OthersKept, Step, NEW o \in Path
  PROVE  dir'[o] = dir[o] \/ Written(o)
<1> USE NotSteps DEF Typed
<1>0. VXD \in Path /\ Written(VXD) /\ WX \in Path /\ Written(WX)
  BY Names DEF Written
<1>1. CASE dir' = dir
  BY <1>1
<1>2. CASE EndWrite \/ EndMove
  <2>1. dir \in [Path -> Data] /\ pc \in {"write", "move"} /\ At(w.then)
    BY <1>2 DEF EndWrite, EndMove
  <2>2. CASE EndWrite
    <3>1. dir' = Put(dir, w.to, w.holds) /\ MayWrite(w.to, w.then)
      BY <2>2 DEF EndWrite, Writing
    <3>2. w.to \in Path /\ Written(w.to)
      BY <2>1, <3>1, ArgIs, Names DEF MayWrite, Written
    <3>3. o # w.to => dir'[o] = dir[o]
      BY <2>1, <3>1, <3>2, FileIs
    <3> QED BY <3>2, <3>3
  <2>3. CASE EndMove
    <3>1. dir' = Move(dir, w.from, w.to) /\ MayMove(w.from, w.to, w.then)
      BY <2>3 DEF EndMove, Moving
    <3>2. w.then = "result" => arg <= Len(cmd.args)
      BY <2>1 DEF At, InArg
    <3>3. CASE w.then # "result"
      <4>1. w.from \in Temps /\ w.to \in Temps /\ w.from # w.to
        BY <3>1, <3>3, Names DEF MayMove
      <4> QED BY <4>1, <3>1, <2>1, Names DEF Written, Move
    <3>4. CASE w.then = "result"
      <4>1. Arg.out \in Path \ Temps /\ cmd.func \in {"convert", "patch"} /\ arg <= Len(cmd.args)
        BY <3>1, <3>2, <3>4, ArgIs DEF MayMove
      <4>2. w.from \in Temps /\ w.to \in {Arg.out, VXD} /\ w.from # w.to
        BY <3>1, <3>4, <4>1, Names DEF MayMove
      <4>3. w.to \in Path /\ Written(w.to) /\ w.from \in Path /\ Written(w.from)
        BY <4>1, <4>2, Names DEF Written
      <4>4. o \notin {w.to, w.from} => dir'[o] = dir[o]
        BY <2>1, <3>1, <4>2, <4>3 DEF Move
      <4> QED BY <4>3, <4>4
    <3> QED BY <3>3, <3>4
  <2> QED BY <1>2, <2>2, <2>3
<1>3. CASE Drop \/ ListClose \/ Check
  <2>1. dir' \in {dir, Unlink(dir, VXD), Unlink(dir, WX)}
    BY <1>3 DEF Drop, ListClose, Check
  <2> QED BY <1>0, <2>1, BeginWritten
<1>4. CASE ListOpen \/ Convert \/ ApplyW3 \/ KeepW3 \/ Pack \/ LeaveW3
  <2>1. \E p, q \in Temps : \E c, x :
          BeginWrite(p, c, x) \/ BeginMove(q, p, x) \/ dir' = dir
    BY <1>4 DEF ListOpen, Convert, ApplyW3, Apply, KeepW3, Pack, LeaveW3, Temps
  <2> QED BY <1>0, <2>1, BeginWritten DEF Temps
<1>5. CASE Unpack \/ UnpackMade \/ CabArg \/ Strip \/ Converted \/ PatchDone \/ PatchArg
  <2>1. arg <= Len(cmd.args) /\ cmd.func # "list" /\ (cmd.func = "all" => start[Arg.out] = Absent)
    <3>1. CASE Unpack \/ UnpackMade
      <4>1. pc \in {"unpack", "extract", "unpacked"} /\ At(pc) /\ (pc = "extract" => arg <= Len(cmd.args))
        BY <3>1 DEF Unpack, UnpackMade
      <4> QED BY <4>1 DEF At, InArg
    <3>2. CASE CabArg \/ Strip \/ Converted \/ PatchDone \/ PatchArg
      <4>1. /\ pc \in {"cab", "strip", "converted", "patched", "patch"} /\ At(pc)
            /\ pc \in {"cab", "patch"} => arg <= Len(cmd.args)
        BY <3>2 DEF CabArg, Strip, Converted, PatchDone, PatchArg
      <4> QED BY <4>1 DEF At, InArg, InPatch
    <3> QED BY <1>5, <3>1, <3>2
  <2>2. Arg.out \in Path /\ Written(Arg.out)
    BY <2>1, OutputWritten
  <2>3. \E p \in {Arg.out, WX, VXD} : \E q \in Temps : \E c, x :
          BeginWrite(p, c, x) \/ BeginMove(q, p, x) \/ dir' = dir \/ dir' = Put(dir, p, Torn)
    BY <1>5 DEF Unpack, UnpackMade, ExtractW3, CabArg, Strip, Converted, PatchDone, PatchArg, Apply, Temps
  <2> QED BY <1>0, <2>2, <2>3, BeginWritten DEF Temps
<1>6. (End \/ Stop \/ Result \/ FailWrite \/ Listed \/ NoList \/ ListGet) => dir' = dir
  BY DEF End, Stop, Result, FailWrite, Listed, NoList, ListGet
<1> QED BY <1>1, <1>2, <1>3, <1>4, <1>5, <1>6 DEF Step

LEMMA StepStays ==
  ASSUME Step
  PROVE  cmd' = cmd /\ start' = start
BY DEF Step, End, Stop, Result, EndWrite, FailWrite, EndMove, Unpack, UnpackMade, Drop, ListOpen, Listed,
       NoList, ListGet, ListClose, Convert, Converted, PatchArg, ApplyW3, KeepW3, Pack, Check, LeaveW3,
       PatchDone, CabArg, Strip

LEMMA StepKeeps ==
  ASSUME Typed, OthersKept, Step
  PROVE  OthersKept'
<1>1. cmd' = cmd /\ start' = start
  BY StepStays
<1>2. \A o \in Path \ Temps : dir'[o] = dir[o] \/ Written(o)
  BY StepWrites
<1>3. \A o \in Path \ Temps : Written(o) =>
        /\ cmd.func # "list" /\ (cmd.func = "all" => start[o] = Absent)
        /\ \E i \in DOMAIN cmd.args : cmd.args[i].out = o
  BY ArgIs DEF Written
<1> QED BY <1>1, <1>2, <1>3 DEF OthersKept

LEMMA InitTyped ==
  ASSUME ProgramInit
  PROVE  Typed /\ OthersKept
<1>1. /\ dir \in [Path -> Data] /\ start = dir /\ cmd = NoCmd /\ arg = 1 /\ pc = "idle" /\ temp = FALSE
      /\ t = "ok" /\ r = "ok"
  BY BatchAssumption DEF ProgramInit, Init, NoCmd
<1>2. cmd.func = "" /\ Len(cmd.args) = 0
  BY <1>1 DEF NoCmd
<1>3. At(pc)
  BY <1>1, <1>2 DEF At, InArg, InAll, InPatch
<1>4. arg \in Nat \ {0} /\ arg <= Len(cmd.args) + 1
  <2>1. \A n, m : n = 1 /\ m = 0 => n \in Nat \ {0} /\ n <= m + 1
    OBVIOUS
  <2> QED BY <1>1, <1>2, <2>1
<1> QED BY <1>1, <1>3, <1>4 DEF Typed, OthersKept

\* What the dialogue does leaves the batch commands alone.
LEMMA NextIs ==
  ASSUME [ProgramNext]_pall
  PROVE  (\E c \in Calls : Call(c)) \/ Step \/ UNCHANGED batch
<1>1. CASE UNCHANGED pall
  BY <1>1 DEF pall
<1>2. CASE ProgramNext
  BY <1>2 DEF ProgramNext, Running, Start, ReadArg, Dispatch, RunBatch, BatchStep, BatchEnd, AskPath, NoPlace,
              AskMode, Lookup, AskPatch, Enter, Exit
<1> QED BY <1>1, <1>2

LEMMA SameTyped ==
  ASSUME Typed, UNCHANGED batch
  PROVE  Typed'
<1>1. UNCHANGED <<cmd, arg, start, w, pc, dir, temp, t, r>>
  BY DEF batch
<1>2. (IF pc \in {"write", "move"} THEN At(w.then) ELSE At(pc))'
  <2>1. At(w.then)' <=> At(w.then)
    BY <1>1 DEF At, Arg
  <2>2. At(pc)' <=> At(pc)
    BY <1>1 DEF At, Arg
  <2> QED BY <1>1, <2>1, <2>2 DEF Typed
<1>3. (Writing' <=> Writing) /\ (Moving' <=> Moving)
  BY <1>1 DEF Writing, Moving, MayWrite, MayMove, Arg
<1> QED BY <1>1, <1>2, <1>3 DEF Typed

LEMMA BatchTyped ==
  ASSUME Typed, OthersKept, [ProgramNext]_pall
  PROVE  Typed' /\ OthersKept'
<1>1. CASE \E c \in Calls : Call(c)
  BY <1>1, CallTyped DEF Call, OthersKept
<1>2. CASE Step
  BY <1>2, StepTyped, StepKeeps
<1>3. CASE UNCHANGED batch
  <2>1. OthersKept'
    BY <1>3 DEF OthersKept, batch
  <2> QED BY <1>3, <2>1, SameTyped
<1> QED BY <1>1, <1>2, <1>3, NextIs

\* The commands run one after another as the program allows, and whatever they
\* find in the directory.
THEOREM AlwaysTyped == ProgramSpec => []BatchInv
<1>1. ProgramInit => BatchInv
  BY InitTyped DEF BatchInv
<1>2. BatchInv /\ [ProgramNext]_pall => BatchInv'
  BY BatchTyped DEF BatchInv
<1> QED BY <1>1, <1>2, PTL DEF ProgramSpec

\* OthersKept: no command writes, removes or truncates a file that is not
\* one of its outputs, wherever it is stopped, and --vxd-extract-all no file
\* that was there (batch.c, unpacker.c).
THEOREM KeepsOthers == ProgramSpec => []OthersKept
<1>1. BatchInv => OthersKept
  BY DEF BatchInv
<1> QED BY <1>1, AlwaysTyped, PTL

--------------------------------------------------------------------------
(* The temporary files                                                     *)

LEMMA NoneFailedStep ==
  ASSUME Typed, NoneFailed, Step
  PROVE  NoneFailed'
<1> SUFFICES ASSUME arg' = 1
             PROVE  /\ pc' \in {"extract", "cab", "patch", "convert", "strip", "list", "all", "listed", "next",
                                "unpack", "expanded"} => t' = "ok"
                    /\ pc' = "write" /\ w'.then \in {"listed", "expanded"} => t' = "ok"
  BY DEF NoneFailed
<1>1. CASE End \/ Stop \/ FailWrite \/ Drop \/ NoList \/ ListClose \/ Check
  BY <1>1 DEF End, Stop, FailWrite, Drop, NoList, ListClose, Check
<1>2. CASE Result \/ ListGet
  <2>1. arg \in Nat \ {0} /\ (arg' = arg + 1 \/ (pc = "next" /\ arg' = arg /\ pc' = "unpack" /\ t' = t))
    BY <1>2 DEF Typed, Result, ListGet
  <2>2. arg' # arg + 1
    BY <2>1
  <2> QED BY <2>1, <2>2 DEF NoneFailed
<1>3. CASE EndWrite \/ EndMove
  <2>1. arg = 1 /\ t' = t /\ pc' = w.then /\ pc' # "write" /\ pc \in {"write", "move"} /\ At(w.then)
    BY <1>3, NotSteps DEF EndWrite, EndMove, Typed, At, Steps
  <2>2. pc = "write" => MayWrite(w.to, w.then)
    BY <2>1 DEF Typed, Writing
  <2>3. pc = "move" => MayMove(w.from, w.to, w.then)
    BY <2>1 DEF Typed, Moving
  <2> QED BY <2>1, <2>2, <2>3 DEF NoneFailed, MayWrite, MayMove
<1>4. CASE ListOpen \/ Listed
  <2>1. arg = 1 /\ t' = t /\ pc \in {"list", "all", "listed"}
    BY <1>4 DEF ListOpen, Listed
  <2> QED BY <2>1 DEF NoneFailed
<1>5. CASE Unpack \/ UnpackMade \/ Convert \/ Converted \/ CabArg \/ Strip
  <2>1. \/ t' = "ok"
        \/ pc' = "result"
        \/ pc' \in {"drop", "move"}
        \/ pc' = "write" /\ w'.then = "drop"
    BY <1>5 DEF Unpack, UnpackMade, ExtractW3, Convert, Converted, CabArg, Strip, BeginWrite, BeginMove
  <2> QED BY <2>1
<1>6. CASE PatchArg \/ ApplyW3 \/ KeepW3 \/ Pack \/ LeaveW3 \/ PatchDone
  <2>1. \/ t' = "ok"
        \/ pc' \in {"result", "move", "applied", "pack", "patched"}
        \/ pc' = "write" /\ w'.then = "packed"
    BY <1>6 DEF PatchArg, ApplyW3, Apply, KeepW3, Pack, LeaveW3, PatchDone, BeginWrite, BeginMove
  <2> QED BY <2>1
<1> QED BY <1>1, <1>2, <1>3, <1>4, <1>5, <1>6 DEF Step

LEMMA ListTempStep ==
  ASSUME Typed, ListTemp, Step
  PROVE  ListTemp'
<1>1. CASE ListOpen
  BY <1>1 DEF ListOpen, BeginWrite, ListTemp
<1>2. CASE EndWrite \/ EndMove
  <2>1. pc' = w.then /\ temp' = temp /\ pc' # "write" /\ (pc = "move" => w.then # "listed") /\ pc \in {"write", "move"}
    BY <1>2, NotSteps DEF EndWrite, EndMove, Typed, At, Steps, Moving, MayMove
  <2> QED BY <2>1 DEF ListTemp
<1>3. CASE pc' \notin {"write", "listed"}
  BY <1>3 DEF ListTemp
<1>4. CASE UnpackMade \/ Unpack \/ Convert \/ Converted \/ CabArg \/ Strip
  <2>1. pc' \in {"result", "drop", "move"} \/ (pc' = "write" /\ w'.then \in {"drop", "result", "unpacked", "converted"})
    BY <1>4 DEF Unpack, UnpackMade, ExtractW3, Convert, Converted, CabArg, Strip, BeginWrite, BeginMove
  <2> QED BY <2>1 DEF ListTemp
<1>5. CASE PatchArg \/ ApplyW3 \/ KeepW3 \/ Pack \/ LeaveW3 \/ PatchDone
  <2>1. \/ pc' \in {"result", "move", "applied", "pack", "patched"}
        \/ pc' = "write" /\ w'.then \in {"expanded", "patched", "applied", "packed"}
    BY <1>5 DEF PatchArg, ApplyW3, Apply, KeepW3, Pack, LeaveW3, PatchDone, BeginWrite, BeginMove
  <2> QED BY <2>1 DEF ListTemp
<1>6. (End \/ Stop \/ Result \/ FailWrite \/ Drop \/ Listed \/ NoList \/ ListGet \/ ListClose \/ Check)
        => pc' \notin {"write", "listed"}
  BY DEF End, Stop, Result, FailWrite, Drop, Listed, NoList, ListGet, ListClose, Check, Typed, At
<1> QED BY <1>1, <1>2, <1>3, <1>4, <1>5, <1>6 DEF Step

LEMMA SoFarGone ==
  ASSUME Typed, NoneFailed, FewTemps, Step, Clean, r' = "ok", t' = "ok", Len(cmd.args) = 1
  PROVE  /\ r = "ok" /\ t = "ok"
         /\ dir[VXD] = Absent \/ VXDMay
         /\ dir[WX] = Absent \/ WXMay
<1>1. CASE t' = t
  <2>1. r = "ok"
    BY <1>1 DEF Step, End, Stop, Result, EndWrite, FailWrite, EndMove, Unpack, UnpackMade, Drop, ListOpen, Listed,
       NoList, ListGet, ListClose, Convert, Converted, PatchArg, ApplyW3, KeepW3, Pack, Check, LeaveW3,
       PatchDone, CabArg, Strip
  <2> QED BY <1>1, <2>1 DEF FewTemps
<1>2. CASE t' # t
  <2>1. /\ r' = r /\ arg <= Len(cmd.args)
        /\ pc \in {"extract", "unpack", "convert", "patch", "expanded", "cab", "strip"}
    <3>1. r' = r /\ (Unpack \/ Convert \/ PatchArg \/ ApplyW3 \/ CabArg \/ Strip)
      BY <1>2 DEF Step, End, Stop, Result, EndWrite, FailWrite, EndMove, Unpack, UnpackMade, Drop, ListOpen, Listed,
         NoList, ListGet, ListClose, Convert, Converted, PatchArg, ApplyW3, KeepW3, Pack, Check, LeaveW3,
         PatchDone, CabArg, Strip
    <3>2. /\ pc \in {"extract", "unpack", "convert", "patch", "expanded", "cab", "strip"}
          /\ pc \in {"extract", "patch", "cab"} => arg <= Len(cmd.args)
      BY <3>1 DEF Unpack, Convert, PatchArg, ApplyW3, CabArg, Strip
    <3>3. At(pc)
      BY <3>2 DEF Typed
    <3>4. pc \in {"unpack", "convert", "expanded", "strip"} => arg <= Len(cmd.args)
      BY <3>3 DEF At, InArg, InPatch
    <3> QED BY <3>1, <3>2, <3>4
  <2>2. arg = 1
    BY <2>1 DEF Typed
  <2>3. t = "ok"
    BY <2>1, <2>2 DEF NoneFailed
  <2> QED BY <2>1, <2>3 DEF FewTemps
<1> QED BY <1>1, <1>2

LEMMA OutIs ==
  ASSUME Typed, arg <= Len(cmd.args), NEW c
  PROVE  Put(dir, Arg.out, c)[VXD] = dir[VXD] /\ Put(dir, Arg.out, c)[WX] = dir[WX]
<1>1. Arg.out \in Path \ Temps /\ dir \in [Path -> Data]
  BY ArgIs DEF Typed
<1> QED BY <1>1, Names DEF Put

LEMMA FewTempsStep ==
  ASSUME Typed, NoneFailed, ListTemp, FewTemps, Step
  PROVE  FewTemps'
<1> SUFFICES ASSUME Clean, r' = "ok", t' = "ok", Len(cmd.args) = 1
             PROVE  /\ dir'[VXD] = Absent \/ VXDMay'
                    /\ dir'[WX] = Absent \/ WXMay'
  BY StepStays DEF FewTemps, Clean
<1>1. /\ r = "ok" /\ t = "ok"
      /\ dir[VXD] = Absent \/ VXDMay
      /\ dir[WX] = Absent \/ WXMay
  BY SoFarGone
<1>2. /\ dir \in [Path -> Data] /\ VXD \in Path /\ WX \in Path /\ VXD # WX
      /\ temp => cmd.func \in {"all", "list"}
  BY Names DEF Typed
<1>3. CASE End \/ Listed \/ ListGet \/ ListClose
  <2>1. /\ dir' \in {dir, Unlink(dir, VXD)} /\ temp' = temp
        /\ \/ pc \in {"extract", "cab", "patch"}
           \/ pc \in {"listed", "next"} /\ (pc' \in {"next", "unpack"} \/ (pc' = "idle" /\ (temp => dir' = Unlink(dir, VXD))))
    BY <1>3 DEF End, Listed, ListGet, ListClose
  <2>2. dir'[WX] = Absent
    BY <1>1, <1>2, <2>1 DEF Unlink, WXMay
  <2>3. dir'[VXD] = Absent \/ VXDMay'
    BY <1>1, <1>2, <2>1 DEF Unlink, VXDMay
  <2> QED BY <2>2, <2>3
<1>4. CASE Result
  <2>1. pc = "result" /\ At("result") /\ dir' = dir /\ temp' = temp
    BY <1>4 DEF Result, Typed
  <2>2. temp => pc' = "next"
    <3>1. cmd.func \notin {"", "list"}
      BY <2>1 DEF At, InArg
    <3> QED BY <1>2, <1>4, <3>1 DEF Result
  <2> QED BY <1>1, <2>1, <2>2 DEF VXDMay, WXMay
<1>5. CASE Stop \/ NoList \/ FailWrite
  BY <1>5 DEF Stop, NoList, FailWrite
<1>6. CASE EndWrite
  <2>1. /\ dir' = Put(dir, w.to, w.holds) /\ pc = "write" /\ pc' = w.then /\ temp' = temp
        /\ MayWrite(w.to, w.then) /\ At(w.then)
    BY <1>6 DEF EndWrite, Typed, Writing
  <2>2. w.to \in Path
    BY <2>1, ArgIs, Names DEF MayWrite
  <2>3. w.then \in {"result", "drop"} => w.to \notin Temps
    BY <2>1, ArgIs DEF MayWrite
  <2>4. w.then = "listed" /\ w.to = VXD => VXDMay'
    BY <2>1 DEF ListTemp, VXDMay
  <2>5. dir'[VXD] = Absent \/ VXDMay'
    BY <1>1, <1>2, <2>1, <2>2, <2>3, <2>4, Names DEF VXDMay, MayWrite, Put
  <2>6. dir'[WX] = Absent \/ WXMay'
    BY <1>1, <1>2, <2>1, <2>2, <2>3, Names DEF WXMay, MayWrite, Put
  <2> QED BY <2>5, <2>6
<1>7. CASE EndMove
  <2>1. /\ dir' = Move(dir, w.from, w.to) /\ pc = "move" /\ pc' = w.then
        /\ MayMove(w.from, w.to, w.then) /\ At(w.then)
    BY <1>7 DEF EndMove, Typed, Moving
  <2>2. w.then = "result" => w.from \in Temps /\ w.to = Arg.out /\ Arg.out \in Path \ Temps
    <3>1. w.then = "result" => Arg.out \in Path \ Temps
      BY <2>1, ArgIs DEF At, InArg
    <3> QED BY <1>1, <2>1, <3>1, Names DEF MayMove
  <2>3. dir'[VXD] = Absent \/ VXDMay'
    BY <1>1, <1>2, <2>1, <2>2, Names DEF VXDMay, MayMove, Move
  <2>4. dir'[WX] = Absent \/ WXMay'
    BY <1>1, <1>2, <2>1, <2>2, Names DEF WXMay, MayMove, Move
  <2> QED BY <2>3, <2>4
<1>8. CASE Unpack
  <2>1. pc \in {"unpack", "extract"} /\ At(pc) /\ temp' = temp /\ arg <= Len(cmd.args)
    BY <1>8 DEF Unpack, Typed, At, InArg
  <2>2. dir[WX] = Absent
    BY <1>1, <2>1 DEF WXMay
  <2>3. dir[VXD] # Absent => temp
    BY <1>1, <2>1 DEF VXDMay
  <2>4. \/ \E c : BeginWrite(Arg.out, c, "result")
        \/ \E c : BeginWrite(VXD, c, "unpacked")
        \/ dir' = dir /\ pc' = "result"
    BY <1>8 DEF Unpack, ExtractW3
  <2>5. CASE \E c : BeginWrite(Arg.out, c, "result")
    <3>1. /\ pc' = "write" /\ w'.then = "result" /\ w'.to = Arg.out
          /\ dir'[VXD] = dir[VXD] /\ dir'[WX] = dir[WX]
      BY <2>1, <2>5, OutIs DEF BeginWrite
    <3> QED BY <2>1, <2>2, <2>3, <3>1 DEF VXDMay
  <2>6. CASE \E c : BeginWrite(VXD, c, "unpacked")
    <3>1. pc' = "write" /\ w'.then = "unpacked" /\ dir'[WX] = dir[WX]
      BY <1>2, <2>6 DEF BeginWrite, Put
    <3> QED BY <2>2, <3>1 DEF VXDMay
  <2>7. CASE dir' = dir /\ pc' = "result"
    BY <2>1, <2>2, <2>3, <2>7 DEF VXDMay
  <2> QED BY <2>4, <2>5, <2>6, <2>7
<1>9. CASE UnpackMade \/ Drop
  <2>1. pc \in {"unpacked", "drop"} /\ At(pc) /\ arg <= Len(cmd.args)
    BY <1>9 DEF UnpackMade, Drop, Typed, At, InArg
  <2>2. dir[WX] = Absent
    BY <1>1, <2>1 DEF WXMay
  <2>3. CASE Drop
    BY <1>2, <2>2, <2>3 DEF Drop, Unlink
  <2>4. CASE dir' = dir /\ pc' = "drop"
    BY <2>2, <2>4 DEF VXDMay
  <2>5. CASE \E c : BeginWrite(Arg.out, c, "drop")
    <3>1. pc' = "write" /\ w'.then = "drop" /\ dir'[WX] = dir[WX]
      BY <2>1, <2>5, OutIs DEF BeginWrite
    <3> QED BY <2>2, <3>1 DEF VXDMay
  <2> QED BY <1>9, <2>3, <2>4, <2>5 DEF UnpackMade, ExtractW3
<1>10. CASE ListOpen
  <2>1. dir[WX] = Absent /\ dir[VXD] = Absent
    BY <1>1, <1>10 DEF ListOpen, VXDMay, WXMay
  <2>2. CASE dir' = dir
    BY <2>1, <2>2
  <2>3. CASE \E c : BeginWrite(VXD, c, "listed") /\ temp' = TRUE
    BY <1>2, <2>1, <2>3 DEF BeginWrite, Put, VXDMay
  <2> QED BY <1>10, <2>2, <2>3 DEF ListOpen
<1>11. CASE Convert \/ Converted
  <2>1. /\ pc \in {"convert", "converted"} /\ dir[WX] = Absent /\ arg <= Len(cmd.args)
        /\ pc = "convert" => dir[VXD] = Absent
    <3>1. pc \in {"convert", "converted"} /\ At(pc)
      BY <1>11 DEF Convert, Converted, Typed
    <3> QED BY <1>1, <3>1 DEF VXDMay, WXMay, At, InArg
  <2>2. CASE Convert
    <3>1. CASE dir' = dir
      BY <2>1, <2>2, <3>1 DEF Convert
    <3>2. CASE \E c : BeginWrite(VXD, c, "converted")
      BY <1>2, <2>1, <3>2 DEF BeginWrite, Put, VXDMay
    <3> QED BY <2>2, <3>1, <3>2 DEF Convert
  <2>3. CASE Converted
    <3>1. Arg.out \in Path \ Temps
      BY <2>1, ArgIs
    <3>2. \/ dir[VXD] = Absent /\ dir' = dir
          \/ pc' = "move" /\ w'.from = VXD /\ dir' = Unlink(dir, Arg.out)
      BY <2>3 DEF Converted, BeginMove, Exists
    <3> QED BY <1>2, <2>1, <3>1, <3>2, Names DEF VXDMay, Unlink
  <2> QED BY <1>11, <2>2, <2>3
<1>12. CASE PatchArg \/ ApplyW3 \/ KeepW3
  <2>1. CASE PatchArg
    <3>1. dir[WX] = Absent /\ dir[VXD] = Absent
      BY <1>1, <2>1 DEF PatchArg, VXDMay, WXMay
    <3>2. \/ \E c : BeginWrite(VXD, c, "expanded")
          \/ \E c : BeginWrite(WX, c, "patched")
          \/ dir' = dir
      BY <2>1 DEF PatchArg, Apply
    <3> QED BY <1>2, <3>1, <3>2 DEF BeginWrite, Put, VXDMay, WXMay
  <2>2. CASE ApplyW3
    <3>1. \E c : BeginWrite(WX, c, "applied")
      BY <2>2 DEF ApplyW3, Apply
    <3> QED BY <3>1 DEF BeginWrite, VXDMay, WXMay
  <2>3. CASE KeepW3
    <3>1. BeginMove(WX, VXD, "pack")
      BY <1>1, <2>3 DEF KeepW3
    <3>2. \/ dir[WX] = Absent /\ dir' = dir /\ pc' = "pack"
          \/ pc' = "move" /\ w'.from = WX /\ w'.to = VXD
      BY <3>1 DEF BeginMove, Exists
    <3> QED BY <3>2 DEF VXDMay, WXMay
  <2> QED BY <1>12, <2>1, <2>2, <2>3
<1>13. CASE Pack \/ Check \/ LeaveW3 \/ PatchDone
  <2>1. CASE Pack
    BY <2>1 DEF Pack, BeginWrite, VXDMay, WXMay
  <2>2. CASE Check
    BY <1>2, <2>2 DEF Check, Unlink, VXDMay, WXMay
  <2>3. CASE LeaveW3
    <3>1. dir[WX] = Absent
      BY <1>1, <2>3 DEF LeaveW3, WXMay
    <3>2. \/ dir[VXD] = Absent /\ dir' = dir
          \/ pc' = "move" /\ w'.from = VXD /\ w'.to = WX
      BY <2>3 DEF LeaveW3, BeginMove, Exists
    <3> QED BY <3>1, <3>2 DEF VXDMay, WXMay
  <2>4. CASE PatchDone
    <3>1. dir[VXD] = Absent /\ Arg.out \in Path \ Temps
      <4>1. pc = "patched" /\ At("patched")
        BY <2>4 DEF PatchDone, Typed
      <4> QED BY <1>1, <4>1, ArgIs DEF VXDMay, At, InArg, InPatch
    <3>2. \/ dir[WX] = Absent /\ dir' = dir
          \/ pc' = "move" /\ w'.from = WX /\ dir' = Unlink(dir, Arg.out)
      BY <2>4 DEF PatchDone, BeginMove, Exists
    <3> QED BY <1>2, <3>1, <3>2, Names DEF Unlink, WXMay
  <2> QED BY <1>13, <2>1, <2>2, <2>3, <2>4
<1>14. CASE CabArg \/ Strip
  <2>1. /\ pc \in {"cab", "strip"} /\ dir[WX] = Absent /\ dir[VXD] = Absent
        /\ arg <= Len(cmd.args)
    <3>1. pc \in {"cab", "strip"} /\ At(pc) /\ (pc = "cab" => arg <= Len(cmd.args))
      BY <1>14 DEF CabArg, Strip, Typed
    <3> QED BY <1>1, <3>1 DEF VXDMay, WXMay, At
  <2>2. dir' = dir \/ \E c : dir' = Put(dir, Arg.out, c)
    BY <1>14 DEF CabArg, Strip, BeginWrite
  <2> QED BY <2>1, <2>2, OutIs
<1> QED BY <1>3, <1>4, <1>5, <1>6, <1>7, <1>8, <1>9, <1>10, <1>11, <1>12, <1>13, <1>14 DEF Step

\* TempsGone: where every step of a command with one argument succeeded, and
\* earlier runs left no temporary file, none is left (wx_unpack,
\* vxd_filelist_close, patch_apply_wx, the renames of batch.c).
THEOREM RemovesTemps == ProgramSpec => []TempsGone
<1>1. ProgramInit => TempsInv
  BY InitTyped DEF ProgramInit, Init, TempsInv, NoneFailed, ListTemp, FewTemps, Clean, Temps
<1>2. BatchInv /\ TempsInv /\ [ProgramNext]_pall => TempsInv'
  <2> SUFFICES ASSUME Typed, OthersKept, NoneFailed, ListTemp, FewTemps, [ProgramNext]_pall
               PROVE  TempsInv'
    BY DEF BatchInv, TempsInv
  <2>1. CASE \E c \in Calls : Call(c)
    <3>1. pc' \notin {"write", "listed"} /\ t' = "ok" /\ dir' = dir /\ start' = dir
      BY <2>1, BatchAssumption DEF Call
    <3> QED BY <3>1, Names DEF TempsInv, NoneFailed, ListTemp, FewTemps, Clean
  <2>2. CASE Step
    BY <2>2, NoneFailedStep, ListTempStep, FewTempsStep DEF TempsInv
  <2>3. CASE UNCHANGED batch
    BY <2>3 DEF batch, TempsInv, NoneFailed, ListTemp, FewTemps, Clean, VXDMay, WXMay
  <2> QED BY <2>1, <2>2, <2>3, NextIs
<1>3. TempsInv => TempsGone
  BY Names DEF TempsInv, FewTemps, TempsGone, Clean, VXDMay, WXMay
<1> QED BY <1>1, <1>2, <1>3, AlwaysTyped, PTL DEF ProgramSpec

--------------------------------------------------------------------------
(* Conversions and patches are made whole                                  *)

\* What was made of an archive is what Made says.
LEMMA MadeIs ==
  ASSUME Typed, arg <= Len(cmd.args)
  PROVE  /\ cmd.func = "convert" /\ Source # Absent => As(Source, cmd.force) \in Made(arg)
         /\ cmd.func = "patch" /\ Patchable(Source) => Patched(Source, "new") \in Made(arg)
         /\ Packed => Expanded \in Content /\ Expanded.ver = Source.ver /\ Better \in Content /\ Better # Absent
         /\ cmd.func = "patch" /\ Packed /\ Source.ver = "old" =>
              Better \in Made(arg) /\ As(Better, "w4") \in Made(arg)
<1>1. Arg = cmd.args[arg] /\ Source = start[cmd.args[arg].in]
  BY ArgIs DEF Source, Arg
<1>2. cmd.func = "convert" => Made(arg) = IF Source = Absent THEN {} ELSE {As(Source, cmd.force)}
  BY <1>1 DEF Made
<1>3. cmd.func = "patch" =>
        Made(arg) = IF Source = Absent \/ ~Patchable(Source) THEN {}
                    ELSE {Patched(Source, "new"), As(Patched(Source, "new"), "w3")}
  BY <1>1 DEF Made
<1>4. Patchable(Source) => Source # Absent
  BY Names DEF Patchable
<1>5. ASSUME Packed
      PROVE  /\ Expanded = [file |-> Source.file, ver |-> Source.ver, form |-> "w3"] /\ Expanded \in Content
             /\ Better = [file |-> Source.file, ver |-> "new", form |-> "w3"] /\ Better \in Content
             /\ Better = As(Patched(Source, "new"), "w3") /\ As(Better, "w4") = Patched(Source, "new")
  <2>1. PICK f \in Path, v \in Version : Source = [file |-> f, ver |-> v, form |-> "w4"]
    BY <1>5 DEF Packed, Content
  <2>2. Source \in Content
    BY <1>5 DEF Packed
  <2>3. Expanded = [file |-> f, ver |-> v, form |-> "w3"] /\ Expanded \in Content
    BY <2>1, <2>2 DEF Expanded, As, Content, Form
  <2>4. Better = [file |-> f, ver |-> "new", form |-> "w3"] /\ Better \in Content
    BY <2>1, <2>3 DEF Better, Patched, Content, Form, Version
  <2>5. Patched(Source, "new") = [file |-> f, ver |-> "new", form |-> "w4"] /\ Patched(Source, "new") \in Content
    BY <2>1, <2>2 DEF Patched, Content, Form, Version
  <2>6. As(Better, "w4") = [file |-> f, ver |-> "new", form |-> "w4"]
    BY <2>4 DEF As
  <2>7. As(Patched(Source, "new"), "w3") = [file |-> f, ver |-> "new", form |-> "w3"]
    BY <2>5 DEF As
  <2> QED BY <2>1, <2>3, <2>4, <2>5, <2>6, <2>7
<1>6. Packed /\ Source.ver = "old" => Patchable(Source) /\ Source # Absent
  BY <1>4 DEF Packed, Patchable
<1>7. Packed => Better # Absent
  BY <1>5, Names
<1> QED BY <1>2, <1>3, <1>4, <1>5, <1>6, <1>7

LEMMA MadeStays ==
  ASSUME cmd' = cmd, start' = start, NEW i
  PROVE  Made(i)' = Made(i)
BY DEF Made

\* What is written next holds, and where nothing is written what was.
LEMMA HeldGo ==
  ASSUME NEW x \in Steps, pc' = x, Patching(x)'
  PROVE  Held'
<1>1. pc' \notin {"write", "move"}
  BY NotSteps
<1>2. Patching(pc)' <=> Patching(x)'
  BY DEF Patching
<1> QED BY <1>1, <1>2 DEF Held

LEMMA NoPatching ==
  ASSUME NEW x, x \notin InPatch, x # "converted"
  PROVE  Patching(x)
BY DEF Patching, InPatch

LEMMA HeldElse ==
  ASSUME Typed', pc' \notin InPatch, pc' # "converted",
         pc' = "write" => w'.then \notin {"expanded", "applied", "packed", "patched", "converted"},
         pc' # "move"
  PROVE  Held'
<1>1. Patching(pc)'
  BY DEF Patching, InPatch
<1> QED BY <1>1 DEF Held

LEMMA HeldOther ==
  ASSUME Typed, Typed', Held,
         \/ End \/ Stop \/ Result \/ FailWrite \/ Unpack \/ UnpackMade \/ Drop
         \/ ListOpen \/ Listed \/ NoList \/ ListGet \/ ListClose \/ CabArg \/ Strip
  PROVE  Held'
<1>1. CASE End \/ Stop \/ Listed \/ NoList \/ ListGet \/ ListClose \/ FailWrite \/ Drop
  <2>1. pc' \in {"idle", "next", "unpack", "nolist", "result"}
    BY <1>1 DEF End, Stop, Listed, NoList, ListGet, ListClose, FailWrite, Drop
  <2> QED BY <2>1, HeldElse DEF InPatch
<1>2. CASE Result
  <2>1. pc' \in {"extract", "cab", "patch", "next", "idle"}
    BY <1>2 DEF Result
  <2> QED BY <2>1, HeldElse DEF InPatch
<1>3. CASE Unpack \/ UnpackMade \/ ListOpen \/ CabArg \/ Strip
  <2>1. \/ pc' \in {"result", "drop", "next", "nolist"}
        \/ pc' = "write" /\ w'.then \in {"result", "unpacked", "drop", "listed"}
    BY <1>3, SMTT(60) DEF Unpack, UnpackMade, ExtractW3, ListOpen, CabArg, Strip, BeginWrite
  <2> QED BY <2>1, HeldElse DEF InPatch
<1> QED BY <1>1, <1>2, <1>3

\* The argument is read before anything is written to it.
LEMMA InputIs ==
  ASSUME Apart, Typed, Ahead, pc \in {"patch", "convert"}, arg <= Len(cmd.args)
  PROVE  dir[Arg.in] = Source /\ Source \in Data
<1>1. At(pc)
  BY DEF Typed
<1>2. cmd.func \in {"patch", "convert"} /\ arg \in DOMAIN cmd.args /\ Arg = cmd.args[arg] /\ Arg.in \in Path
  BY <1>1, ArgIs DEF At
<1> QED BY <1>2 DEF Ahead, Source, Typed

LEMMA SourceStays ==
  ASSUME UNCHANGED <<cmd, arg, start>>
  PROVE  /\ Arg' = Arg /\ Source' = Source /\ Expanded' = Expanded /\ Better' = Better /\ Packed' = Packed
         /\ Made(arg)' = Made(arg)
BY DEF Arg, Source, Expanded, Better, Packed, Made

LEMMA HeldConvert ==
  ASSUME Apart, Typed, Typed', Held, Ahead, Convert \/ Converted
  PROVE  Held'
<1>1. UNCHANGED <<cmd, arg, start>> /\ pc \in {"convert", "converted"} /\ At(pc)
  BY DEF Convert, Converted, Typed
<1>2. cmd.func = "convert" /\ arg <= Len(cmd.args) /\ Made(arg)' = Made(arg)
  BY <1>1, SourceStays DEF At, InArg
<1>3. CASE pc' = "result"
  BY <1>3, HeldElse DEF InPatch
<1>4. CASE Convert
  <2>1. PICK k \in Kinds(dir[Arg.in]) :
          IF k \in {"w3", "w4"} THEN BeginWrite(VXD, As(dir[Arg.in], cmd.force), "converted") ELSE pc' = "result"
    BY <1>4 DEF Convert
  <2>2. CASE k \in {"w3", "w4"} /\ BeginWrite(VXD, As(dir[Arg.in], cmd.force), "converted")
    <3>1. dir[Arg.in] = Source /\ Source # Absent
      BY <1>1, <1>2, <1>4, <2>2, InputIs, KindIs DEF Convert
    <3>2. As(Source, cmd.force) \in Made(arg)
      BY <1>2, <3>1, MadeIs
    <3>3. pc' = "write" /\ w'.then = "converted" /\ w'.holds \in Made(arg)
      BY <2>2, <3>1, <3>2 DEF BeginWrite
    <3> QED BY <1>2, <3>3 DEF Held
  <2> QED BY <1>3, <2>1, <2>2
<1>5. CASE Converted
  <2>1. dir[VXD] \in Made(arg) /\ Arg.out \in Path \ Temps /\ dir \in [Path -> Data]
    BY <1>2, <1>5, ArgIs DEF Converted, Held, Patching, Typed
  <2>2. CASE pc' = "move" /\ w' = [from |-> VXD, to |-> Arg.out, then |-> "result"] /\ dir' = Unlink(dir, Arg.out)
    <3>1. dir'[VXD] = dir[VXD]
      BY <2>1, <2>2, Names DEF Unlink
    <3>2. w'.from = VXD /\ w'.then = "result"
      BY <2>2
    <3> QED BY <1>2, <2>1, <2>2, <3>1, <3>2 DEF Held
  <2> QED BY <1>3, <1>5, <2>2 DEF Converted, BeginMove
<1> QED BY <1>4, <1>5

LEMMA HeldApply ==
  ASSUME Typed, Typed', NEW p \in Path, NEW x, NEW y, Apply(p, x, y), UNCHANGED <<cmd, arg, start>>,
         arg <= Len(cmd.args), cmd.func = "patch",
         \/ x = "patched" /\ y = "result" /\ dir[p] = Source
         \/ x = "applied" /\ y = "applied" /\ dir[p] = Expanded /\ Packed
  PROVE  Held'
<1>1. Made(arg)' = Made(arg) /\ Expanded' = Expanded /\ Better' = Better /\ Packed' = Packed /\ Source' = Source
  BY SourceStays
<1>2. CASE t' = "failed" /\ pc' = y
  <2>1. y \in Steps /\ Patching(y)'
    BY <1>1, <1>2 DEF Patching, Steps, InArg, InPatch
  <2> QED BY <1>2, <2>1, HeldGo
<1>3. CASE Patchable(dir[p]) /\ BeginWrite(WX, Patched(dir[p], "new"), x) /\ t' = "ok"
  <2>1. pc' = "write" /\ w'.then = x /\ w'.holds = Patched(dir[p], "new") /\ t' = "ok"
    BY <1>3 DEF BeginWrite
  <2>2. CASE x = "patched" /\ dir[p] = Source
    <3>1. w'.holds \in Made(arg)
      BY <1>3, <2>1, <2>2, MadeIs
    <3> QED BY <1>1, <2>1, <2>2, <3>1 DEF Held
  <2>3. CASE x = "applied" /\ dir[p] = Expanded /\ Packed
    <3>1. w'.holds = Better
      BY <2>1, <2>3 DEF Better
    <3>2. Expanded \in Content /\ Expanded.ver = Source.ver
      BY <2>3, MadeIs
    <3>3. Source.ver = "old"
      BY <1>3, <2>3, <3>2, Names DEF Patchable
    <3> QED BY <1>1, <2>1, <2>3, <3>1, <3>3 DEF Held
  <2> QED BY <2>2, <2>3
<1> QED BY <1>2, <1>3 DEF Apply

LEMMA HeldPatch ==
  ASSUME Apart, Typed, Typed', Held, Ahead, PatchArg \/ ApplyW3 \/ KeepW3 \/ Pack \/ Check \/ LeaveW3 \/ PatchDone
  PROVE  Held'
<1>1. /\ UNCHANGED <<cmd, arg, start>> /\ pc \in {"patch"} \cup InPatch /\ At(pc)
      /\ pc = "patch" => arg <= Len(cmd.args)
  BY DEF PatchArg, ApplyW3, KeepW3, Pack, Check, LeaveW3, PatchDone, Typed, InPatch
<1>2. cmd.func = "patch" /\ arg <= Len(cmd.args)
  BY <1>1 DEF At, InArg
<1>3. Made(arg)' = Made(arg) /\ Expanded' = Expanded /\ Better' = Better /\ Packed' = Packed /\ Source' = Source
  BY <1>1, SourceStays
<1>4. /\ dir \in [Path -> Data] /\ WX \in Path /\ VXD \in Path /\ WX # VXD /\ Arg.in \in Path
      /\ Arg.out \in Path \ Temps
  BY <1>2, ArgIs, Names DEF Typed
<1>5. Packed => Better # Absent /\ (Source.ver = "old" => Better \in Made(arg) /\ As(Better, "w4") \in Made(arg))
  BY <1>2, MadeIs
<1>6. Patching(pc)
  <2>1. pc \notin {"write", "move"}
    BY <1>1 DEF InPatch
  <2> QED BY <2>1 DEF Held
<1>7. CASE pc' = "result"
  BY <1>7, HeldElse DEF InPatch
<1>8. CASE PatchArg
  <2>1. dir[Arg.in] = Source /\ Source \in Data
    BY <1>2, <1>8, InputIs DEF PatchArg
  <2>2. PICK k \in Kinds(Source) :
          \/ k = "w4" /\ BeginWrite(VXD, As(Source, "w3"), "expanded")
          \/ k # "w4" /\ Apply(Arg.in, "patched", "result")
    BY <1>8, <2>1 DEF PatchArg
  <2>3. CASE k = "w4" /\ BeginWrite(VXD, As(Source, "w3"), "expanded")
    <3>1. Packed
      BY <2>1, <2>2, <2>3, KindIs, DataIs DEF Packed
    <3>2. pc' = "write" /\ w'.then = "expanded" /\ w'.holds = Expanded
      BY <2>3 DEF BeginWrite, Expanded
    <3> QED BY <1>3, <3>1, <3>2 DEF Held
  <2>4. CASE Apply(Arg.in, "patched", "result")
    BY <1>1, <1>2, <1>4, <2>1, <2>4, HeldApply
  <2> QED BY <2>2, <2>3, <2>4
<1>9. CASE ApplyW3
  <2>1. Apply(VXD, "applied", "applied") /\ dir[VXD] = Expanded /\ Packed
    BY <1>6, <1>9 DEF ApplyW3, Patching, InPatch
  <2> QED BY <1>1, <1>2, <1>4, <2>1, HeldApply
<1>10. CASE KeepW3
  <2>1. CASE t = "ok"
    <3>1. dir[WX] = Better /\ Packed /\ Source.ver = "old"
      BY <1>6, <1>10, <2>1 DEF KeepW3, Patching, InPatch
    <3>2. /\ pc' = "move" /\ dir' = Unlink(dir, VXD)
          /\ w' = [from |-> WX, to |-> VXD, then |-> "pack"]
      BY <1>5, <1>10, <2>1, <3>1 DEF KeepW3, BeginMove, Exists
    <3>3. w'.from = WX /\ w'.then = "pack" /\ dir'[WX] = Better
      BY <1>4, <3>1, <3>2 DEF Unlink
    <3> QED BY <1>3, <3>1, <3>2, <3>3 DEF Held
  <2>2. CASE t # "ok"
    <3>1. CASE pc' = "move" /\ w' = [from |-> WX, to |-> VXD, then |-> "result"]
      <4>1. w'.to = VXD /\ w'.then = "result"
        BY <3>1
      <4> QED BY <3>1, <4>1, Names DEF Held
    <3> QED BY <1>7, <1>10, <2>2, <3>1 DEF KeepW3, BeginMove
  <2> QED BY <2>1, <2>2
<1>11. CASE Pack
  <2>1. dir[VXD] = Better /\ Packed /\ Source.ver = "old"
    BY <1>6, <1>11 DEF Pack, Patching, InPatch
  <2>2. pc' = "write" /\ w'.then = "packed" /\ w'.holds = As(Better, "w4") /\ dir'[VXD] = Better
    BY <1>4, <1>11, <2>1 DEF Pack, BeginWrite, Put
  <2> QED BY <1>3, <2>1, <2>2 DEF Held
<1>12. CASE Check
  <2>1. dir[VXD] = Better /\ dir[WX] = As(Better, "w4") /\ Packed /\ Source.ver = "old"
    BY <1>6, <1>12 DEF Check, Patching, InPatch
  <2>2. CASE dir' = Unlink(dir, VXD) /\ pc' = "patched"
    <3>1. dir'[WX] \in Made(arg)
      BY <1>4, <1>5, <2>1, <2>2 DEF Unlink
    <3>2. "patched" \in Steps /\ Patching("patched")'
      BY <1>3, <3>1 DEF Patching, Steps, InArg, InPatch
    <3> QED BY <2>2, <3>2, HeldGo
  <2>3. CASE dir' = Unlink(dir, WX) /\ pc' = "unpackable"
    <3>1. dir'[VXD] = Better
      BY <1>4, <2>1, <2>3 DEF Unlink
    <3>2. "unpackable" \in Steps /\ Patching("unpackable")'
      BY <1>3, <2>1, <3>1 DEF Patching, Steps, InArg, InPatch
    <3> QED BY <2>3, <3>2, HeldGo
  <2> QED BY <1>12, <2>2, <2>3 DEF Check
<1>13. CASE LeaveW3
  <2>1. dir[VXD] = Better /\ Packed /\ Source.ver = "old"
    BY <1>6, <1>13 DEF LeaveW3, Patching, InPatch
  <2>2. /\ pc' = "move" /\ dir' = Unlink(dir, WX)
        /\ w' = [from |-> VXD, to |-> WX, then |-> "patched"]
    BY <1>5, <1>13, <2>1 DEF LeaveW3, BeginMove, Exists
  <2>3. w'.from = VXD /\ w'.then = "patched" /\ dir'[VXD] = Better
    BY <1>4, <2>1, <2>2 DEF Unlink
  <2> QED BY <1>3, <2>1, <2>2, <2>3 DEF Held
<1>14. CASE PatchDone
  <2>1. dir[WX] \in Made(arg)
    BY <1>6, <1>14 DEF PatchDone, Patching, InPatch
  <2>2. CASE pc' = "move" /\ w' = [from |-> WX, to |-> Arg.out, then |-> "result"] /\ dir' = Unlink(dir, Arg.out)
    <3>1. dir'[WX] = dir[WX]
      BY <1>4, <2>2, Names DEF Unlink
    <3>2. w'.from = WX /\ w'.then = "result"
      BY <2>2
    <3> QED BY <1>3, <2>1, <2>2, <3>1, <3>2 DEF Held
  <2> QED BY <1>7, <1>14, <2>2 DEF PatchDone, BeginMove
<1> QED BY <1>8, <1>9, <1>10, <1>11, <1>12, <1>13, <1>14

LEMMA HeldFinish ==
  ASSUME Typed, Typed', Held, EndWrite \/ EndMove
  PROVE  Held'
<1>1. /\ UNCHANGED <<cmd, arg, start, t>> /\ dir \in [Path -> Data] /\ pc \in {"write", "move"} /\ pc' = w.then
      /\ At(w.then)
  BY DEF EndWrite, EndMove, Typed
<1>2. Made(arg)' = Made(arg) /\ Expanded' = Expanded /\ Better' = Better /\ Packed' = Packed /\ Source' = Source
  BY <1>1, SourceStays
<1>3. PICK x : x = w.then
  OBVIOUS
<1>4. x \in Steps
  BY <1>1, <1>3 DEF At, Steps
<1>5. CASE EndWrite
  <2>1. dir' = Put(dir, w.to, w.holds) /\ pc = "write" /\ MayWrite(w.to, w.then)
    BY <1>5 DEF EndWrite, Typed, Writing
  <2>2. x \in {"expanded", "converted"} => dir'[VXD] = w.holds
    BY <1>1, <1>3, <2>1, Names DEF MayWrite, Put
  <2>3. x \in {"applied", "patched", "packed"} => dir'[WX] = w.holds /\ dir'[VXD] = dir[VXD]
    BY <1>1, <1>3, <2>1, Names DEF MayWrite, Put
  <2>4. x \notin {"pack", "unpackable"}
    BY <1>3, <2>1 DEF MayWrite
  <2>5. Patching(x)'
    BY <1>1, <1>2, <1>3, <2>1, <2>2, <2>3, <2>4 DEF Patching, Held, InPatch
  <2> QED BY <1>1, <1>3, <1>4, <2>5, HeldGo
<1>6. CASE EndMove
  <2>1. dir' = Move(dir, w.from, w.to) /\ pc = "move" /\ MayMove(w.from, w.to, w.then)
    BY <1>6 DEF EndMove, Typed, Moving
  <2>2. CASE x = "result"
    BY <1>1, <1>3, <1>4, <2>2, HeldElse DEF InPatch
  <2>3. CASE x = "pack"
    <3>1. dir'[VXD] = Better /\ Packed /\ Source.ver = "old"
      BY <1>1, <1>3, <2>1, <2>3, Names DEF MayMove, Move, Held
    <3>2. Patching(x)'
      BY <1>2, <2>3, <3>1 DEF Patching, InPatch
    <3> QED BY <1>1, <1>3, <1>4, <3>2, HeldGo
  <2>4. CASE x = "patched"
    <3>1. dir'[WX] = Better /\ Packed /\ Source.ver = "old"
      BY <1>1, <1>3, <2>1, <2>4, Names DEF MayMove, Move, Held
    <3>2. cmd.func = "patch" /\ arg <= Len(cmd.args)
      BY <1>1, <1>3, <2>4 DEF At, InPatch, InArg
    <3>3. Better \in Made(arg)
      BY <3>1, <3>2, MadeIs
    <3>4. Patching(x)'
      BY <1>2, <2>4, <3>1, <3>3 DEF Patching, InPatch
    <3> QED BY <1>1, <1>3, <1>4, <3>4, HeldGo
  <2> QED BY <1>3, <2>1, <2>2, <2>3, <2>4 DEF MayMove
<1> QED BY <1>5, <1>6

LEMMA ArgStays ==
  ASSUME Typed, Step
  PROVE  /\ pc # "idle"
         /\ arg' = arg \/ (arg' = arg + 1 /\ dir' = dir /\ pc \in {"result", "next"})
         /\ cmd.func \in {"convert", "patch"} /\ pc' \in {"patch", "convert"} => arg' = arg + 1
<1>1. arg' = arg \/ (arg' = arg + 1 /\ dir' = dir /\ pc \in {"result", "next"})
  BY DEF Step, End, Stop, Result, EndWrite, FailWrite, EndMove, Unpack, UnpackMade, Drop, ListOpen, Listed,
         NoList, ListGet, ListClose, Convert, Converted, PatchArg, ApplyW3, KeepW3, Pack, Check, LeaveW3,
         PatchDone, CabArg, Strip
<1>2. CASE Result
  BY <1>2 DEF Result
<1>3. CASE EndWrite \/ EndMove
  <2>1. pc' = w.then /\ pc \in {"write", "move"}
    BY <1>3 DEF EndWrite, EndMove
  <2>2. pc' \notin {"patch", "convert"}
    BY <1>3, <2>1 DEF EndWrite, EndMove, Typed, Writing, Moving, MayWrite, MayMove
  <2> QED BY <1>1, <2>1, <2>2
<1>4. CASE End \/ Stop \/ FailWrite \/ Drop \/ ListOpen \/ Listed \/ NoList \/ ListGet \/ ListClose \/ Check
  <2>1. pc' \notin {"patch", "convert"} /\ pc # "idle"
    BY <1>4 DEF End, Stop, FailWrite, Drop, ListOpen, BeginWrite, Listed, NoList, ListGet, ListClose, Check, Typed, At
  <2> QED BY <1>1, <2>1
<1>5. CASE Unpack \/ UnpackMade \/ Convert \/ Converted \/ CabArg \/ Strip
  <2>1. pc' \in {"write", "move", "result", "drop"} /\ pc # "idle"
    BY <1>5 DEF Unpack, UnpackMade, ExtractW3, Convert, Converted, CabArg, Strip, BeginWrite, BeginMove
  <2> QED BY <1>1, <2>1
<1>6. CASE PatchArg \/ ApplyW3 \/ KeepW3 \/ Pack \/ LeaveW3 \/ PatchDone
  <2>1. pc' \in {"write", "move", "result", "applied", "pack", "patched"} /\ pc # "idle"
    BY <1>6 DEF PatchArg, ApplyW3, Apply, KeepW3, Pack, LeaveW3, PatchDone, BeginWrite, BeginMove
  <2> QED BY <1>1, <2>1
<1> QED BY <1>2, <1>3, <1>4, <1>5, <1>6 DEF Step

LEMMA AheadStep ==
  ASSUME Apart, Typed, OthersKept, Ahead, Step
  PROVE  Ahead'
<1> SUFFICES ASSUME cmd.func \in {"convert", "patch"}, NEW i \in DOMAIN cmd.args,
                    i > arg' \/ (i = arg' /\ pc' \in {"patch", "convert"})
             PROVE  dir'[cmd.args[i].in] = start[cmd.args[i].in]
  BY StepStays DEF Ahead
<1>1. arg \in Nat /\ i \in Nat /\ cmd \in Calls
  <2>1. arg \in Nat /\ cmd \in Calls
    BY ArgIs DEF Typed
  <2>2. DOMAIN cmd.args = 1 .. Len(cmd.args) /\ Len(cmd.args) \in Nat
    BY ArgIs
  <2> QED BY <2>1, <2>2
<1>2. i > arg
  BY <1>1, ArgStays
<1>3. dir[cmd.args[i].in] = start[cmd.args[i].in] /\ cmd.args[i].in \in Path \ Temps
  BY <1>1, <1>2, ArgIs DEF Ahead, Apart
<1>4. ~Written(cmd.args[i].in)
  <2> SUFFICES ASSUME arg <= Len(cmd.args), cmd.args[i].in = Arg.out
               PROVE  FALSE
    BY <1>3 DEF Written
  <2>0. arg # i
    BY <1>1, <1>2
  <2>1. arg \in DOMAIN cmd.args /\ Arg = cmd.args[arg] /\ arg # i
    BY <2>0, ArgIs
  <2>2. CASE cmd.func = "patch"
    BY <1>1, <2>1, <2>2 DEF Apart
  <2>3. CASE cmd.func = "convert"
    <3>1. Len(cmd.args) = 1 /\ DOMAIN cmd.args = 1 .. Len(cmd.args) /\ arg \in Nat
      BY <2>3, CallIs, ArgIs, <1>1
    <3> QED BY <1>1, <2>1, <3>1
  <2> QED BY <2>2, <2>3
<1> QED BY <1>3, <1>4, StepWrites

LEMMA WholeStep ==
  ASSUME Apart, Typed, Typed', OthersKept, Held, WholeOutputs, Step
  PROVE  WholeOutputs'
<1> SUFFICES ASSUME cmd.func \in {"convert", "patch"}, NEW i \in DOMAIN cmd.args, NEW p, p = cmd.args[i].out
             PROVE  \/ dir'[p] = start[p] \/ dir'[p] \in Made(i)
                    \/ /\ dir'[p] = Absent /\ \E q \in Temps : dir'[q] \in Made(i)
                       /\ \/ pc' = "move" /\ w'.to = p /\ i = arg'
                          \/ pc' = "idle" /\ r' = "stopped"
  BY StepStays, MadeStays DEF WholeOutputs
<1>1. cmd \in Calls /\ p \in Path \ Temps /\ arg \in Nat /\ dir \in [Path -> Data] /\ pc # "idle"
  BY ArgIs, ArgStays DEF Typed
<1>2. \/ dir[p] = start[p] \/ dir[p] \in Made(i)
      \/ dir[p] = Absent /\ (\E q \in Temps : dir[q] \in Made(i)) /\ pc = "move" /\ w.to = p /\ i = arg
  BY <1>1 DEF WholeOutputs
<1>3. CASE EndMove
  <2>1. dir' = Move(dir, w.from, w.to) /\ pc = "move" /\ MayMove(w.from, w.to, w.then) /\ At(w.then)
    BY <1>3 DEF EndMove, Typed, Moving
  <2>2. CASE w.to \in Temps
    <3>1. w.from \in Temps
      BY <2>1, Names DEF MayMove
    <3>2. dir'[p] = dir[p] /\ w.to # p
      BY <1>1, <2>1, <2>2, <3>1, Names DEF Move
    <3> QED BY <1>2, <3>2
  <2>3. CASE w.to \notin Temps
    <3>1. w.then = "result" /\ w.from \in Temps /\ w.to = Arg.out /\ arg <= Len(cmd.args)
      BY <2>1, <2>3, Names DEF MayMove, At, InArg
    <3>2. dir[w.from] \in Made(arg) /\ arg \in DOMAIN cmd.args /\ Arg = cmd.args[arg]
      BY <2>1, <2>3, <3>1, ArgIs DEF Held
    <3>3. CASE i = arg
      BY <1>1, <2>1, <3>1, <3>2, <3>3 DEF Move
    <3>4. CASE i # arg
      <4>1. w.to # p
        BY <1>1, <3>1, <3>2, <3>4 DEF Apart
      <4>2. dir'[p] = dir[p]
        BY <1>1, <2>1, <3>1, <4>1 DEF Move
      <4> QED BY <1>2, <4>1, <4>2
    <3> QED BY <3>3, <3>4
  <2> QED BY <2>2, <2>3
<1>4. CASE Stop
  <2>1. dir' = dir /\ pc' = "idle" /\ r' = "stopped"
    BY <1>4 DEF Stop
  <2> QED BY <1>2, <2>1
<1>5. CASE ~EndMove /\ ~Stop
  <2>1. pc # "move"
    BY <1>5 DEF Step, End, Result, EndWrite, FailWrite, Unpack, UnpackMade, Drop, ListOpen, Listed,
         NoList, ListGet, ListClose, Convert, Converted, PatchArg, ApplyW3, KeepW3, Pack, Check, LeaveW3,
         PatchDone, CabArg, Strip
  <2>2. CASE dir'[p] = dir[p]
    BY <1>2, <2>1, <2>2
  <2>3. CASE dir'[p] # dir[p]
    <3>1. Written(p)
      BY <1>1, <2>3, StepWrites
    <3>2. p = Arg.out /\ arg \in DOMAIN cmd.args /\ Arg = cmd.args[arg] /\ arg <= Len(cmd.args)
      BY <1>1, <3>1, ArgIs DEF Written
    <3>3. i = arg
      BY <1>1, <3>2 DEF Apart
    <3>4. arg' = arg
      BY <2>3, ArgStays
    <3>5. CASE EndWrite
      <4>1. dir' = Put(dir, w.to, w.holds) /\ pc = "write" /\ MayWrite(w.to, w.then)
        BY <3>5 DEF EndWrite, Typed, Writing
      <4>2. w.to \in Temps
        BY <4>1, Names DEF MayWrite
      <4> QED BY <1>1, <2>3, <4>1, <4>2, Names DEF Put
    <3>6. CASE Converted \/ PatchDone
      <4>1. PICK q \in Temps : BeginMove(q, Arg.out, "result") /\ dir[q] \in Made(arg)
        <5>1. CASE Converted
          BY <5>1, Names DEF Converted, Held, Patching
        <5>2. CASE PatchDone
          BY <5>2, Names DEF PatchDone, Held, Patching, InPatch
        <5> QED BY <3>6, <5>1, <5>2
      <4>2. /\ dir' = Unlink(dir, Arg.out) /\ pc' = "move"
            /\ w' = [from |-> q, to |-> Arg.out, then |-> "result"]
        BY <2>3, <4>1 DEF BeginMove
      <4>3. dir'[p] = Absent /\ dir'[q] = dir[q] /\ w'.to = p
        BY <1>1, <3>2, <4>1, <4>2, Names DEF Unlink
      <4> QED BY <3>3, <3>4, <4>1, <4>2, <4>3
    <3>7. CASE Convert \/ PatchArg \/ ApplyW3 \/ KeepW3 \/ Pack \/ Check \/ LeaveW3
      <4>1. \E q \in Temps, c \in {Torn, Absent} : dir' = [dir EXCEPT ![q] = c] \/ dir' = dir
        BY <3>7, Names DEF Convert, PatchArg, ApplyW3, Apply, KeepW3, Pack, Check, LeaveW3, BeginWrite, BeginMove,
                           Put, Unlink
      <4> QED BY <1>1, <2>3, <4>1
    <3>8. CASE Unpack \/ UnpackMade \/ Drop \/ ListOpen \/ ListClose \/ CabArg \/ Strip
      <4>1. /\ pc \in {"unpack", "extract", "unpacked", "drop", "list", "all", "next", "cab", "strip"}
            /\ At(pc)
        BY <3>8 DEF Unpack, UnpackMade, Drop, ListOpen, ListClose, CabArg, Strip, Typed
      <4> QED BY <4>1 DEF At, InAll
    <3>9. CASE End \/ Result \/ FailWrite \/ Listed \/ NoList \/ ListGet
      BY <2>3, <3>9 DEF End, Result, FailWrite, Listed, NoList, ListGet
    <3> QED BY <1>5, <3>5, <3>6, <3>7, <3>8, <3>9 DEF Step
  <2> QED BY <2>2, <2>3
<1> QED BY <1>3, <1>4, <1>5

LEMMA WholeCall ==
  ASSUME Typed, Typed', NEW c \in Calls, Call(c)
  PROVE  WholeInv'
<1>1. dir' = dir /\ start' = dir /\ pc' = c.func
  BY DEF Call
<1>2. pc' \notin InPatch \cup {"converted", "write", "move"}
  BY <1>1, BatchAssumption DEF InPatch
<1>3. Held'
  BY <1>2, HeldElse
<1> QED BY <1>1, <1>3 DEF WholeInv, Ahead, WholeOutputs

LEMMA WholeNext ==
  ASSUME Apart, Typed, Typed', OthersKept, Held, Ahead, WholeOutputs, [ProgramNext]_pall
  PROVE  WholeInv'
<1>1. CASE \E c \in Calls : Call(c)
  BY <1>1, WholeCall
<1>2. CASE Step
  BY <1>2, HeldOther, HeldFinish, HeldConvert, HeldPatch, AheadStep, WholeStep DEF WholeInv, Step
<1>3. CASE UNCHANGED batch
  <2>1. UNCHANGED <<cmd, arg, start, dir, pc, w, t, r>>
    BY <1>3 DEF batch
  <2>2. Held'
    <3>1. /\ Expanded' = Expanded /\ Better' = Better /\ Packed' = Packed /\ Source' = Source
          /\ Made(arg)' = Made(arg)
      BY <2>1, SourceStays
    <3>2. Patching(pc)' <=> Patching(pc)
      BY <2>1, <3>1 DEF Patching
    <3> QED BY <2>1, <3>1, <3>2 DEF Held
  <2>3. Ahead' /\ WholeOutputs'
    BY <2>1, MadeStays DEF Ahead, WholeOutputs
  <2> QED BY <2>2, <2>3 DEF WholeInv
<1> QED BY <1>1, <1>2, <1>3, NextIs

\* AllOrNothing: for command lines that do not write to what they read, a
\* conversion or patch (also of a file over itself) leaves at every step
\* either what was there, or all that should be, or that under a temporary
\* name (batch_vxd_convert, batch_patch, patch_apply_wx, fs_rename).
THEOREM MakesAllOrNothing ==
  ASSUME Apart
  PROVE  ProgramSpec => []AllOrNothing
<1>1. ProgramInit => WholeInv
  <2> SUFFICES ASSUME ProgramInit PROVE WholeInv
    OBVIOUS
  <2>1. pc = "idle" /\ cmd.func = ""
    BY DEF ProgramInit, Init
  <2>2. Patching(pc)
    BY <2>1, NoPatching DEF InPatch
  <2> QED BY <2>1, <2>2 DEF WholeInv, Held, Ahead, WholeOutputs
<1>2. BatchInv /\ BatchInv' /\ WholeInv /\ [ProgramNext]_pall => WholeInv'
  BY WholeNext DEF BatchInv, WholeInv
<1>3. WholeInv => AllOrNothing
  BY DEF WholeInv, WholeOutputs, AllOrNothing
<1> QED BY <1>1, <1>2, <1>3, AlwaysTyped, PTL DEF ProgramSpec

--------------------------------------------------------------------------
(* What succeeded has written no wrong output                              *)

LEMMA ROk ==
  ASSUME Typed, Step, r' = "ok", cmd.func # "patch"
  PROVE  r = "ok" /\ (pc = "result" => t = "ok") /\ ~Stop /\ ~NoList
<1>1. pc = "result" => Result \/ Stop
  BY DEF Step, End, Stop, Result, EndWrite, FailWrite, EndMove, Unpack, UnpackMade, Drop, ListOpen, Listed,
         NoList, ListGet, ListClose, Convert, Converted, PatchArg, ApplyW3, KeepW3, Pack, Check, LeaveW3,
         PatchDone, CabArg, Strip
<1>2. CASE Result
  BY <1>2 DEF Result, Stop, NoList
<1>3. CASE Stop \/ NoList
  BY <1>3 DEF Stop, NoList
<1>4. r' = r \/ Result \/ Stop \/ NoList
  BY DEF Step, End, EndWrite, FailWrite, EndMove, Unpack, UnpackMade, Drop, ListOpen, Listed,
         ListGet, ListClose, Convert, Converted, PatchArg, ApplyW3, KeepW3, Pack, Check, LeaveW3,
         PatchDone, CabArg, Strip
<1> QED BY <1>1, <1>2, <1>3, <1>4

\* An archive stays as it is while it is read.
LEMMA SourceIs ==
  ASSUME Apart, Typed, OthersKept, Begun, cmd.func \in {"extract", "cab", "all", "list"},
         pc \notin {"idle", "nolist"}
  PROVE  dir[cmd.src] = Original /\ Original \in Data /\ cmd.src \in Path \ Temps
<1>1. cmd \in Calls /\ cmd.src \in Path \ Temps
  BY ArgIs, BatchAssumption DEF Apart
<1>2. dir[cmd.src] = start[cmd.src]
  <2>1. CASE cmd.func \in {"extract", "cab"}
    <3>1. \A i \in DOMAIN cmd.args : cmd.args[i].out # cmd.src
      BY <1>1, <2>1 DEF Apart
    <3> QED BY <1>1, <2>1, <3>1 DEF OthersKept
  <2>2. CASE cmd.func = "list"
    BY <1>1, <2>2 DEF OthersKept
  <2>3. CASE cmd.func = "all"
    <3>1. CASE pc \in {"all", "list"}
      BY <3>1 DEF Begun
    <3>2. CASE pc \notin {"all", "list"}
      BY <1>1, <2>3, <3>2 DEF OthersKept, Begun, Original
    <3> QED BY <3>1, <3>2
  <2> QED BY <2>1, <2>2, <2>3
<1> QED BY <1>1, <1>2 DEF Original, Typed

LEMMA BegunStep ==
  ASSUME Apart, Typed, Typed', OthersKept, Begun, Step
  PROVE  Begun'
<1>1. UNCHANGED <<cmd, start>> /\ Original' = Original
  BY StepStays DEF Original
<1>2. pc' \notin {"all", "list", "strip"} /\ pc # "idle"
  <2>1. CASE EndWrite \/ EndMove
    <3>1. pc' = w.then /\ pc \in {"write", "move"}
      BY <2>1 DEF EndWrite, EndMove
    <3> QED BY <2>1, <3>1 DEF EndWrite, EndMove, Typed, Writing, Moving, MayWrite, MayMove
  <2>2. CASE End \/ Stop \/ Result \/ FailWrite \/ Drop \/ ListOpen \/ Listed \/ NoList \/ ListGet \/ ListClose \/ Check
    BY <2>2 DEF End, Stop, Result, FailWrite, Drop, ListOpen, BeginWrite, Listed, NoList, ListGet, ListClose, Check
  <2>3. CASE Unpack \/ UnpackMade \/ Convert \/ Converted \/ CabArg \/ Strip
    BY <2>3 DEF Unpack, UnpackMade, ExtractW3, Convert, Converted, CabArg, Strip, BeginWrite, BeginMove
  <2>4. CASE PatchArg \/ ApplyW3 \/ KeepW3 \/ Pack \/ LeaveW3 \/ PatchDone
    BY <2>4 DEF PatchArg, ApplyW3, Apply, KeepW3, Pack, LeaveW3, PatchDone, BeginWrite, BeginMove
  <2> QED BY <2>1, <2>2, <2>3, <2>4 DEF Step
<1>3. ASSUME cmd.func \in {"all", "list"}, pc' \notin {"nolist", "idle"}
      PROVE  Original # Absent
  <2>1. CASE pc \notin {"all", "list", "nolist"}
    BY <1>2, <1>3, <2>1 DEF Begun
  <2>2. CASE pc \in {"all", "list", "nolist"}
    <3>1. ListOpen
      <4>1. NoList \/ Stop \/ ListOpen
        BY <2>2 DEF Step, End, Result, EndWrite, FailWrite, EndMove, Unpack, UnpackMade, Drop, Listed,
           ListGet, ListClose, Convert, Converted, PatchArg, ApplyW3, KeepW3, Pack, Check, LeaveW3,
           PatchDone, CabArg, Strip
      <4> QED BY <1>3, <4>1 DEF NoList, Stop
    <3>2. dir[cmd.src] = Original
      BY <1>2, <1>3, <3>1, SourceIs DEF ListOpen
    <3>3. PICK k \in Kinds(Original) : k \in {"w3", "w4"}
      BY <1>3, <3>1, <3>2 DEF ListOpen
    <3> QED BY <3>3, KindIs
  <2> QED BY <2>1, <2>2
<1> QED BY <1>1, <1>2, <1>3 DEF Begun

\* What is made of a driver is what Made says.
LEMMA DriverMade ==
  ASSUME Typed, arg <= Len(cmd.args), cmd.func \in {"extract", "all"}, NEW c \in Data, c # Absent,
         c = Original \/ OfSource(c), Original \in Data,
         c = Torn \/ Arg.in \in DOMAIN Holds[c.file]
  PROVE  Driver(c, Arg.in) \in Made(arg)
<1>1. Arg = cmd.args[arg]
  BY DEF Arg
<1>2. CASE c = Torn
  <2>1. Original = Torn
    <3>1. ~OfSource(c)
      <4>1. Original \in Content => As(Original, "w3") \in Content
        BY <1>2, DataIs DEF Form
      <4> QED BY <1>2, <4>1, Names DEF OfSource
    <3> QED BY <1>2, <3>1
  <2>2. Made(arg) = {Torn}
    BY <2>1, Names DEF Made, Original
  <2> QED BY <1>2, <2>2 DEF Driver
<1>3. CASE c # Torn
  <2>1. c \in Content /\ Original \in Content /\ Original.file = c.file /\ Original.ver = c.ver
    <3>1. c \in Content
      BY <1>3 DEF Data
    <3>2. CASE c = Original
      BY <3>1, <3>2
    <3>3. CASE OfSource(c)
      BY <3>1, <3>3, DataIs DEF OfSource, Form
    <3> QED BY <3>1, <3>2, <3>3
  <2>2. Original # Absent /\ Original # Torn /\ Arg.in \in DOMAIN Holds[Original.file]
    BY <1>3, <2>1, Names
  <2>3. Made(arg) = {Driver(Original, Arg.in)}
    BY <1>1, <2>2 DEF Made, Original
  <2>4. Driver(c, Arg.in) = Driver(Original, Arg.in)
    BY <1>3, <2>1, <2>2 DEF Driver
  <2> QED BY <2>3, <2>4
<1> QED BY <1>2, <1>3

\* The other outputs are as they were before the step.
LEMMA OtherOutputs ==
  ASSUME Apart, Typed, OthersKept, Step, NEW i \in DOMAIN cmd.args, i # arg
  PROVE  dir'[cmd.args[i].out] = dir[cmd.args[i].out]
<1>1. cmd \in Calls /\ cmd.args[i].out \in Path \ Temps
  <2>1. cmd \in Calls
    BY ArgIs DEF Typed
  <2> QED BY <2>1, ArgIs
<1>2. ~Written(cmd.args[i].out)
  <2> SUFFICES ASSUME arg <= Len(cmd.args), cmd.args[i].out = Arg.out
               PROVE  FALSE
    BY <1>1 DEF Written
  <2>1. arg \in DOMAIN cmd.args /\ Arg = cmd.args[arg]
    BY ArgIs
  <2> QED BY <1>1, <2>1 DEF Apart
<1> QED BY <1>1, <1>2, StepWrites

\* Where the output does not change but in a temporary file.
LEMMA SameOutputs ==
  ASSUME Apart, Typed, OthersKept, Step, GoodOutputs,
         arg <= Len(cmd.args) => dir'[Arg.out] = dir[Arg.out],
         pc = "write" => w.to \in Temps,
         pc = "result" => t = "ok",
         pc' = "write" => w'.to \in Temps
  PROVE  GoodOutputs'
<1> SUFFICES ASSUME NEW i \in DOMAIN cmd.args
             PROVE  dir'[cmd.args[i].out] = start[cmd.args[i].out] \/ dir'[cmd.args[i].out] \in Made(i)
  <2>1. Temps' = Temps
    BY DEF Temps
  <2> QED BY StepStays, MadeStays, <2>1 DEF GoodOutputs
<1>1. cmd.args[i].out \in Path \ Temps
  BY ArgIs
<1>2. dir[cmd.args[i].out] = start[cmd.args[i].out] \/ dir[cmd.args[i].out] \in Made(i)
  BY <1>1 DEF GoodOutputs
<1>3. dir'[cmd.args[i].out] = dir[cmd.args[i].out]
  <2>1. CASE i = arg
    <3>1. Arg = cmd.args[i] /\ arg \in DOMAIN cmd.args
      BY <2>1 DEF Arg
    <3>2. arg <= Len(cmd.args)
      <4>1. Len(cmd.args) \in Nat /\ DOMAIN cmd.args = 1 .. Len(cmd.args)
        BY ArgIs
      <4> QED BY <3>1, <4>1
    <3> QED BY <3>1, <3>2
  <2>2. CASE i # arg
    BY <2>2, OtherOutputs
  <2> QED BY <2>1, <2>2
<1> QED BY <1>2, <1>3

\* Where it begins to be written.
LEMMA NewOutput ==
  ASSUME Apart, Typed, OthersKept, Step, GoodOutputs, UNCHANGED arg, arg <= Len(cmd.args),
         pc' = "write", w'.to = Arg.out, w'.holds \in Made(arg), pc \notin {"write", "result"}
  PROVE  GoodOutputs'
<1> SUFFICES ASSUME NEW i \in DOMAIN cmd.args, i # arg
             PROVE  dir'[cmd.args[i].out] = start[cmd.args[i].out] \/ dir'[cmd.args[i].out] \in Made(i)
  <2>1. Made(arg)' = Made(arg)
    BY StepStays DEF Made
  <2> QED BY StepStays, MadeStays, <2>1 DEF GoodOutputs, Arg
<1> QED BY OtherOutputs DEF GoodOutputs

\* Unpacking: from the W3 form, or through it.
LEMMA GoodUnpack ==
  ASSUME Apart, Typed, Typed', OthersKept, Begun, Step, GoodTemp, GoodOutputs, Unpack
  PROVE  GoodTemp' /\ GoodOutputs'
<1> DEFINE p == IF Exists(dir, VXD) THEN VXD ELSE cmd.src
<1>1. /\ UNCHANGED <<cmd, arg, start>> /\ dir \in [Path -> Data] /\ pc \in {"unpack", "extract"}
      /\ arg <= Len(cmd.args) /\ cmd.func \in {"extract", "all"} /\ Original' = Original
  <2>1. pc \in {"unpack", "extract"} /\ At(pc) /\ UNCHANGED <<cmd, arg, start>>
    BY DEF Unpack, Typed
  <2> QED BY <2>1 DEF Unpack, Typed, At, InArg, Original
<1>2. /\ dir[cmd.src] = Original /\ Original \in Data /\ cmd.src \in Path \ Temps
      /\ Arg.out \in Path \ Temps /\ VXD \in Path /\ VXD \in Temps
  BY <1>1, SourceIs, ArgIs, Names
<1>3. dir[VXD] = Absent \/ OfSource(dir[VXD])
  BY <1>1 DEF GoodTemp
<1>4. p \in Path /\ dir[p] \in Data /\ (dir[p] = Original \/ (dir[p] # Absent /\ OfSource(dir[p])))
      /\ (p = cmd.src => dir[p] = Original /\ dir[VXD] = Absent)
  BY <1>1, <1>2, <1>3 DEF Exists
<1> HIDE DEF p
<1>5. PICK k \in Kinds(dir[p]) :
         \/ k = "w3" /\ ExtractW3(p, Arg.in, Arg.out, "result") /\ t' = "ok"
         \/ k = "w4" /\ p = cmd.src /\ BeginWrite(VXD, As(dir[p], "w3"), "unpacked")
         \/ pc' = "result" /\ dir' = dir
  BY DEF Unpack, p
<1>6. k \in {"w3", "w4"} => dir[p] # Absent
  BY KindIs
<1>7. CASE /\ dir[p] = Torn \/ Arg.in \in DOMAIN Holds[dir[p].file]
           /\ k = "w3" /\ BeginWrite(Arg.out, Driver(dir[p], Arg.in), "result")
  <2>1. Driver(dir[p], Arg.in) \in Made(arg)
    BY <1>1, <1>2, <1>4, <1>6, <1>7, DriverMade
  <2>2. pc' = "write" /\ w'.to = Arg.out /\ w'.holds \in Made(arg) /\ dir' = Put(dir, Arg.out, Torn)
    BY <1>7, <2>1 DEF BeginWrite
  <2>3. GoodOutputs'
    BY <1>1, <2>2, NewOutput
  <2>4. dir'[VXD] = dir[VXD]
    BY <1>1, <1>2, <2>2 DEF Put
  <2>5. GoodTemp'
    BY <1>1, <1>2, <1>3, <2>2, <2>4 DEF GoodTemp, OfSource
  <2> QED BY <2>3, <2>5
<1>8. CASE k = "w4" /\ p = cmd.src /\ BeginWrite(VXD, As(dir[p], "w3"), "unpacked")
  <2>1. OfSource(As(dir[p], "w3"))
    <3>1. dir[p] = Original /\ Original \in Content
      BY <1>4, <1>6, <1>8, KindIs DEF Data
    <3> QED BY <3>1 DEF OfSource
  <2>2. pc' = "write" /\ w'.to = VXD /\ w'.holds = As(dir[p], "w3") /\ dir' = Put(dir, VXD, Torn)
    BY <1>8 DEF BeginWrite
  <2>3. dir'[Arg.out] = dir[Arg.out]
    BY <1>1, <1>2, <2>2 DEF Put
  <2>4. GoodOutputs'
    BY <1>1, <1>2, <2>2, <2>3, SameOutputs
  <2>5. GoodTemp'
    BY <1>1, <2>1, <2>2 DEF GoodTemp, OfSource
  <2> QED BY <2>4, <2>5
<1>9. CASE pc' = "result" /\ dir' = dir
  <2>1. GoodOutputs'
    BY <1>1, <1>9, SameOutputs
  <2>2. GoodTemp'
    BY <1>1, <1>3, <1>9 DEF GoodTemp, OfSource
  <2> QED BY <2>1, <2>2
<1> QED BY <1>5, <1>7, <1>8, <1>9 DEF ExtractW3

LEMMA GoodUnpackMade ==
  ASSUME Apart, Typed, Typed', OthersKept, Begun, Step, GoodTemp, GoodOutputs, UnpackMade \/ Drop
  PROVE  GoodTemp' /\ GoodOutputs'
<1>1. /\ UNCHANGED <<cmd, arg, start>> /\ dir \in [Path -> Data] /\ pc \in {"unpacked", "drop"}
      /\ arg <= Len(cmd.args) /\ cmd.func \in {"extract", "all"} /\ Original' = Original
  <2>1. pc \in {"unpacked", "drop"} /\ At(pc) /\ UNCHANGED <<cmd, arg, start>>
    BY DEF UnpackMade, Drop, Typed
  <2> QED BY <2>1 DEF Typed, At, InArg, Original
<1>2. Original \in Data /\ Arg.out \in Path \ Temps /\ VXD \in Path /\ VXD \in Temps
  BY <1>1, SourceIs, ArgIs, Names
<1>3. dir[VXD] = Absent \/ OfSource(dir[VXD])
  BY <1>1 DEF GoodTemp
<1>4. CASE Drop
  <2>1. dir' = Unlink(dir, VXD) /\ pc' = "result"
    BY <1>4 DEF Drop
  <2>2. dir'[VXD] = Absent /\ dir'[Arg.out] = dir[Arg.out]
    BY <1>1, <1>2, <2>1 DEF Unlink
  <2>3. GoodOutputs'
    BY <1>1, <2>1, <2>2, SameOutputs
  <2> QED BY <2>1, <2>2, <2>3 DEF GoodTemp
<1>5. CASE dir' = dir /\ pc' = "drop"
  <2>1. GoodOutputs'
    BY <1>1, <1>5, SameOutputs
  <2> QED BY <1>1, <1>3, <1>5, <2>1 DEF GoodTemp, OfSource
<1>6. CASE /\ UnpackMade
           /\ dir[VXD] = Torn \/ Arg.in \in DOMAIN Holds[dir[VXD].file]
           /\ BeginWrite(Arg.out, Driver(dir[VXD], Arg.in), "drop")
  <2>1. OfSource(dir[VXD]) /\ dir[VXD] \in Data /\ dir[VXD] # Absent
    BY <1>1, <1>2, <1>6 DEF GoodTemp, UnpackMade, Typed
  <2>2. Driver(dir[VXD], Arg.in) \in Made(arg)
    BY <1>1, <1>2, <1>6, <2>1, DriverMade
  <2>3. pc' = "write" /\ w'.to = Arg.out /\ w'.holds \in Made(arg) /\ dir' = Put(dir, Arg.out, Torn)
    BY <1>6, <2>2 DEF BeginWrite
  <2>4. GoodOutputs'
    BY <1>1, <2>3, NewOutput
  <2>5. dir'[VXD] = dir[VXD]
    BY <1>1, <1>2, <2>3 DEF Put
  <2>6. GoodTemp'
    BY <1>1, <1>2, <1>3, <2>3, <2>5 DEF GoodTemp, OfSource
  <2> QED BY <2>4, <2>6
<1> QED BY <1>4, <1>5, <1>6 DEF UnpackMade, ExtractW3

\* Lists of drivers.
LEMMA GoodList ==
  ASSUME Apart, Typed, Typed', OthersKept, Begun, Step, GoodTemp, GoodOutputs,
         ListOpen \/ Listed \/ ListGet \/ ListClose
  PROVE  GoodTemp' /\ GoodOutputs'
<1>1. /\ UNCHANGED <<cmd, start>> /\ dir \in [Path -> Data] /\ pc \in {"list", "all", "listed", "next"} /\ At(pc)
      /\ Original' = Original
  BY DEF ListOpen, Listed, ListGet, ListClose, Typed, Original
<1>2. cmd.func \in {"all", "list"} /\ VXD \in Path /\ VXD \in Temps
  BY <1>1, Names DEF At, InAll
<1>3. dir[cmd.src] = Original /\ Original \in Data
  BY <1>1, <1>2, SourceIs
<1>4. dir[VXD] = Absent \/ OfSource(dir[VXD])
  BY <1>1, <1>2 DEF GoodTemp
<1>5. arg <= Len(cmd.args) => Arg.out \in Path \ Temps
  BY ArgIs
<1>6. CASE dir' \in {dir, Unlink(dir, VXD)} /\ pc' \in {"next", "nolist", "unpack", "idle"}
  <2>1. arg <= Len(cmd.args) => dir'[Arg.out] = dir[Arg.out]
    BY <1>1, <1>2, <1>5, <1>6 DEF Unlink
  <2>2. GoodOutputs'
    BY <1>1, <1>6, <2>1, SameOutputs
  <2>3. dir'[VXD] = Absent \/ dir'[VXD] = dir[VXD]
    BY <1>1, <1>2, <1>6 DEF Unlink
  <2> QED BY <1>1, <1>4, <1>6, <2>2, <2>3 DEF GoodTemp, OfSource
<1>7. CASE ListOpen
  <2>1. PICK k \in Kinds(Original) :
          \/ dir' = dir /\ pc' \in {"next", "nolist"}
          \/ k = "w4" /\ BeginWrite(VXD, As(Original, "w3"), "listed")
    BY <1>3, <1>7 DEF ListOpen
  <2>2. CASE k = "w4" /\ BeginWrite(VXD, As(Original, "w3"), "listed")
    <3>1. OfSource(As(Original, "w3"))
      BY <1>3, <2>2, KindIs DEF OfSource, Data
    <3>2. pc' = "write" /\ w'.to = VXD /\ w'.holds = As(Original, "w3") /\ dir' = Put(dir, VXD, Torn)
      BY <2>2 DEF BeginWrite
    <3>3. arg <= Len(cmd.args) => dir'[Arg.out] = dir[Arg.out]
      BY <1>1, <1>2, <1>5, <3>2 DEF Put
    <3>4. GoodOutputs'
      BY <1>1, <1>2, <3>2, <3>3, SameOutputs
    <3> QED BY <1>1, <3>1, <3>2, <3>4 DEF GoodTemp, OfSource
  <2> QED BY <1>6, <2>1, <2>2
<1> QED BY <1>6, <1>7 DEF Listed, ListGet, ListClose

\* Writes that end, or fail.
LEMMA GoodWrite ==
  ASSUME Apart, Typed, Typed', OthersKept, Begun, Step, GoodTemp, GoodOutputs,
         cmd.func \notin {"convert", "patch"}, EndWrite \/ FailWrite
  PROVE  GoodTemp' /\ GoodOutputs'
<1>1. /\ UNCHANGED <<cmd, start, arg>> /\ dir \in [Path -> Data] /\ pc = "write" /\ MayWrite(w.to, w.then) /\ At(w.then)
      /\ Original' = Original
  BY DEF EndWrite, FailWrite, Typed, Writing, Original
<1>2. VXD \in Path /\ VXD \in Temps /\ w.to \in Path
  BY <1>1, ArgIs, Names DEF MayWrite
<1>3. arg <= Len(cmd.args) => Arg.out \in Path \ Temps
  BY ArgIs
<1>4. CASE FailWrite
  <2>1. dir' = dir /\ (pc' = "nolist" \/ (pc' = "result" /\ t' = "failed"))
    BY <1>4 DEF FailWrite
  <2>2. w.to \in Temps
    BY <1>1, <1>4, Names DEF FailWrite, MayWrite
  <2>3. GoodOutputs'
    BY <1>1, <2>1, <2>2, SameOutputs
  <2> QED BY <2>1, <2>3 DEF GoodTemp
<1>5. CASE EndWrite
  <2>1. dir' = Put(dir, w.to, w.holds) /\ pc' = w.then
    BY <1>5 DEF EndWrite
  <2>2. pc' # "write"
    BY <1>1, <2>1, NotSteps DEF At, Steps
  <2>3. CASE w.to \in Temps
    <3>1. arg <= Len(cmd.args) => dir'[Arg.out] = dir[Arg.out]
      BY <1>1, <1>2, <1>3, <2>1, <2>3 DEF Put
    <3>2. GoodOutputs'
      BY <1>1, <2>2, <2>3, <3>1, SameOutputs
    <3>3. w.to = VXD
      <4>1. w.to = WX => w.then \in InPatch
        BY <1>1, Names, ArgIs DEF MayWrite, InPatch
      <4>2. w.then \in InPatch => cmd.func = "patch"
        BY <1>1 DEF At
      <4> QED BY <2>3, <4>1, <4>2, Names
    <3>4. dir'[VXD] = w.holds
      BY <1>1, <1>2, <2>1, <3>3 DEF Put
    <3>5. GoodTemp'
      BY <1>1, <2>2, <3>3, <3>4 DEF GoodTemp, OfSource
    <3> QED BY <3>2, <3>5
  <2>4. CASE w.to \notin Temps
    <3>1. w.to = Arg.out /\ arg <= Len(cmd.args) /\ w.then \in {"result", "drop"}
      BY <1>1, <2>4, Names DEF MayWrite
    <3>2. w.holds \in Made(arg)
      BY <1>1, <2>4 DEF GoodOutputs
    <3>3. dir'[Arg.out] = w.holds /\ dir'[VXD] = dir[VXD]
      BY <1>1, <1>2, <1>3, <2>1, <3>1 DEF Put
    <3>4. \A i \in DOMAIN cmd.args :
            dir'[cmd.args[i].out] = start[cmd.args[i].out] \/ dir'[cmd.args[i].out] \in Made(i)
      <4> SUFFICES ASSUME NEW i \in DOMAIN cmd.args
                   PROVE  dir'[cmd.args[i].out] = start[cmd.args[i].out] \/ dir'[cmd.args[i].out] \in Made(i)
        OBVIOUS
      <4>1. CASE i = arg
        BY <3>2, <3>3, <4>1 DEF Arg
      <4>2. CASE i # arg
        BY <1>1, <4>2, OtherOutputs DEF GoodOutputs
      <4> QED BY <4>1, <4>2
    <3>5. GoodOutputs'
      BY <1>1, <2>2, <3>4, MadeStays DEF GoodOutputs
    <3>6. GoodTemp'
      <4>1. w.to # VXD
        BY <1>2, <2>4
      <4>2. pc' # "unpacked"
        BY <2>1, <3>1
      <4> QED BY <1>1, <2>2, <3>3, <4>1, <4>2 DEF GoodTemp, OfSource
    <3> QED BY <3>5, <3>6
  <2> QED BY <2>3, <2>4
<1> QED BY <1>4, <1>5

\* Files out of a CAB archive, and single files.
LEMMA GoodFiles ==
  ASSUME Apart, Typed, Typed', OthersKept, Begun, Step, GoodTemp, GoodOutputs, CabArg \/ Strip
  PROVE  GoodTemp' /\ GoodOutputs'
<1>1. /\ UNCHANGED <<cmd, start, arg>> /\ dir \in [Path -> Data] /\ pc \in {"cab", "strip"} /\ At(pc)
      /\ pc = "cab" => arg <= Len(cmd.args)
  BY DEF CabArg, Strip, Typed
<1>2. /\ cmd.func = pc /\ arg <= Len(cmd.args) /\ cmd \in Calls /\ arg \in DOMAIN cmd.args
      /\ Arg = cmd.args[arg] /\ Arg.out \in Path \ Temps
  BY <1>1, ArgIs DEF At
<1>3. GoodTemp'
  BY <1>1, <1>2 DEF GoodTemp
<1>4. CASE dir' = dir /\ pc' = "result"
  <2>1. GoodOutputs'
    BY <1>1, <1>4, SameOutputs
  <2> QED BY <1>3, <2>1
<1>5. CASE CabArg
  <2> DEFINE f == [file |-> Holds[cmd.src][Arg.in], ver |-> "old", form |-> "raw"]
  <2>0. cmd.func = "cab"
    BY <1>2, <1>5 DEF CabArg
  <2>1. CASE Exists(dir, cmd.src) /\ BeginWrite(Arg.out, f, "result")
    <3>1. Original # Absent
      BY <1>1, <2>0, <2>1, SourceIs DEF Exists
    <3>2. Made(arg) = {f}
      BY <1>2, <2>0, <3>1 DEF Made, Original
    <3>3. pc' = "write" /\ w'.to = Arg.out /\ w'.holds \in Made(arg)
      BY <2>1, <3>2 DEF BeginWrite
    <3>4. GoodOutputs'
      BY <1>1, <1>2, <3>3, NewOutput
    <3> QED BY <1>3, <3>4
  <2>2. CASE pc' = "result" /\ t' = "failed"
    <3>1. \A i \in DOMAIN cmd.args : i # arg =>
            dir'[cmd.args[i].out] = start[cmd.args[i].out] \/ dir'[cmd.args[i].out] \in Made(i)
      BY OtherOutputs DEF GoodOutputs
    <3>2. GoodOutputs'
      BY <1>1, <2>2, <3>1, MadeStays DEF GoodOutputs
    <3> QED BY <1>3, <3>2
  <2> QED BY <1>5, <2>1, <2>2 DEF CabArg
<1>6. CASE Strip
  <2>0. cmd.func = "strip" /\ dir = start /\ Arg.out # Arg.in
    BY <1>2, <1>6 DEF Strip, Begun, Apart
  <2>1. CASE Exists(dir, Arg.in) /\ BeginWrite(Arg.out, From(Arg.in, Arg.out, As(dir[Arg.in], cmd.force)), "result")
    <3>1. start[Arg.in] # Absent
      BY <2>0, <2>1 DEF Exists
    <3>2. Made(arg) = {As(start[Arg.in], cmd.force)}
      BY <1>2, <2>0, <3>1 DEF Made
    <3>3. pc' = "write" /\ w'.to = Arg.out /\ w'.holds \in Made(arg)
      BY <2>0, <2>1, <3>2 DEF BeginWrite, From
    <3>4. GoodOutputs'
      BY <1>1, <1>2, <3>3, NewOutput
    <3> QED BY <1>3, <3>4
  <2> QED BY <1>4, <1>6, <2>1 DEF Strip
<1> QED BY <1>5, <1>6

LEMMA GoodStep ==
  ASSUME Apart, Typed, Typed', OthersKept, Begun, Good, Step
  PROVE  Good'
<1> SUFFICES ASSUME r' = "ok", Clean, cmd.func \notin {"convert", "patch"}
             PROVE  GoodTemp' /\ GoodOutputs'
  BY StepStays DEF Good, Clean, Temps
<1>1. r = "ok" /\ (pc = "result" => t = "ok") /\ ~Stop /\ ~NoList /\ GoodTemp /\ GoodOutputs
  BY ROk DEF Good
<1>2. CASE Unpack \/ UnpackMade \/ Drop \/ ListOpen \/ Listed \/ ListGet \/ ListClose \/ EndWrite \/ FailWrite
           \/ CabArg \/ Strip
  BY <1>1, <1>2, GoodUnpack, GoodUnpackMade, GoodList, GoodWrite, GoodFiles
<1>3. CASE End \/ Result
  <2>1. /\ dir' = dir /\ UNCHANGED <<cmd, start>> /\ pc \in {"extract", "cab", "patch", "result"}
        /\ pc' \in {"extract", "cab", "patch", "next", "idle"}
    BY <1>3 DEF End, Result
  <2>2. GoodOutputs'
    BY <1>1, <2>1, SameOutputs
  <2>3. GoodTemp'
    BY <1>1, <2>1 DEF GoodTemp, OfSource, Original
  <2> QED BY <2>2, <2>3
<1>4. ~(Convert \/ Converted \/ PatchArg \/ ApplyW3 \/ KeepW3 \/ Pack \/ Check \/ LeaveW3 \/ PatchDone)
  <2> SUFFICES ASSUME Convert \/ Converted \/ PatchArg \/ ApplyW3 \/ KeepW3 \/ Pack \/ Check \/ LeaveW3 \/ PatchDone
               PROVE  FALSE
    OBVIOUS
  <2>1. pc \in {"convert", "converted", "patch"} \cup InPatch /\ At(pc)
    BY DEF Convert, Converted, PatchArg, ApplyW3, KeepW3, Pack, Check, LeaveW3, PatchDone, InPatch, Typed
  <2> QED BY <2>1 DEF At
<1>5. ~EndMove
  <2> SUFFICES ASSUME EndMove PROVE FALSE
    OBVIOUS
  <2>1. MayMove(w.from, w.to, w.then) /\ At(w.then)
    BY DEF EndMove, Typed, Moving
  <2> QED BY <2>1 DEF MayMove, At, InPatch
<1> QED BY <1>1, <1>2, <1>3, <1>4, <1>5 DEF Step

\* ReportedRight: for command lines that do not write to what they read, in
\* a directory without temporary files of earlier runs, a command that says
\* it succeeded has left every output as it was or as it should be
\* (batch_run, wx_unpack, cab_extract, pe_strip and the conversions).
THEOREM ReportsRight ==
  ASSUME Apart
  PROVE  ProgramSpec => []ReportedRight
<1>1. ProgramInit => WholeInv /\ GoodInv
  <2> SUFFICES ASSUME ProgramInit PROVE WholeInv /\ GoodInv
    OBVIOUS
  <2>1. pc = "idle" /\ cmd = NoCmd /\ start = dir /\ cmd.func = ""
    BY DEF ProgramInit, Init, NoCmd
  <2>2. DOMAIN cmd.args = {}
    BY <2>1, InitTyped, ArgIs
  <2>3. Patching(pc)
    BY <2>1, NoPatching DEF InPatch
  <2> QED BY <2>1, <2>2, <2>3 DEF WholeInv, Held, Ahead, WholeOutputs, GoodInv, Begun, Good, GoodTemp, GoodOutputs
<1>2. BatchInv /\ BatchInv' /\ GoodInv /\ [ProgramNext]_pall => GoodInv'
  <2> SUFFICES ASSUME Typed, Typed', OthersKept, Begun, Good, [ProgramNext]_pall
               PROVE  GoodInv'
    BY DEF BatchInv, GoodInv
  <2>1. CASE \E c \in Calls : Call(c)
    <3>1. PICK c \in Calls : Call(c)
      BY <2>1
    <3>2. dir' = dir /\ start' = dir /\ cmd' = c /\ pc' = c.func
      BY <3>1 DEF Call
    <3>3. pc' \notin {"write", "result", "unpacked"}
      BY <3>2, BatchAssumption
    <3>4. Clean' => dir'[VXD] = Absent
      BY <3>2 DEF Clean, Temps
    <3>5. Begun'
      BY <3>2 DEF Begun
    <3> QED BY <3>2, <3>3, <3>4, <3>5 DEF GoodInv, Good, GoodTemp, GoodOutputs
  <2>2. CASE Step
    BY <2>2, BegunStep, GoodStep DEF GoodInv
  <2>3. CASE UNCHANGED batch
    <3>1. UNCHANGED <<cmd, arg, start, dir, pc, w, t, r>>
      BY <2>3 DEF batch
    <3>2. Made(arg)' = Made(arg) /\ \A i : Made(i)' = Made(i)
      BY <3>1 DEF Made
    <3>3. Begun' <=> Begun
      BY <3>1 DEF Begun, Original
    <3>4. GoodTemp' <=> GoodTemp
      BY <3>1 DEF GoodTemp, OfSource, Original
    <3>5. GoodOutputs' <=> GoodOutputs
      BY <3>1, <3>2 DEF GoodOutputs, Temps
    <3> QED BY <3>1, <3>3, <3>4, <3>5 DEF GoodInv, Good, Clean, Temps
  <2> QED BY <2>1, <2>2, <2>3, NextIs
<1>3. BatchInv /\ BatchInv' /\ WholeInv /\ [ProgramNext]_pall => WholeInv'
  BY WholeNext DEF BatchInv, WholeInv
<1>4. WholeInv /\ GoodInv => ReportedRight
  <2> SUFFICES ASSUME WholeInv, GoodInv, pc = "idle", r = "ok", Clean, NEW i \in DOMAIN cmd.args
               PROVE  dir[cmd.args[i].out] = start[cmd.args[i].out] \/ dir[cmd.args[i].out] \in Made(i)
    BY DEF ReportedRight, Clean
  <2>1. CASE cmd.func \in {"convert", "patch"}
    BY <2>1 DEF WholeInv, WholeOutputs
  <2>2. CASE cmd.func \notin {"convert", "patch"}
    BY <2>2 DEF GoodInv, Good, GoodOutputs
  <2> QED BY <2>1, <2>2
<1> QED BY <1>1, <1>2, <1>3, <1>4, AlwaysTyped, PTL DEF ProgramSpec

--------------------------------------------------------------------------
(* Consent                                                                 *)

\* A set of numbers from 1 to n has a greatest one: the numbers below one of
\* its members would else be as many as those without 0.
LEMMA Greatest ==
  ASSUME NEW n \in Nat, NEW S, S \subseteq 1 .. n, S # {}
  PROVE  \E i \in S : \A j \in S : j <= i
<1> SUFFICES ASSUME \A i \in S : \E j \in S : i < j
             PROVE  FALSE
  OBVIOUS
<1> DEFINE P == {x \in 0 .. n : \E y \in S : x < y}
<1>1. P \subseteq 0 .. n /\ 0 \in P
  <2>1. \E y \in S : 0 < y
    <3>1. PICK y : y \in S
      OBVIOUS
    <3>2. y \in 1 .. n
      BY <3>1
    <3> QED BY <3>1, <3>2
  <2>2. 0 \in 0 .. n
    OBVIOUS
  <2> QED BY <2>1, <2>2
<1>2. \A x \in P : x + 1 \in P
  <2> TAKE x \in P
  <2>1. PICK y \in S : x < y
    OBVIOUS
  <2>2. PICK z \in S : y < z
    OBVIOUS
  <2> QED BY <2>1, <2>2
<1> HIDE DEF P
<1>3. IsFiniteSet(P)
  <2>1. P \in SUBSET Nat /\ \A x \in P : x <= n
    BY <1>1
  <2> QED BY <2>1, FS_BoundedSetOfNaturals
<1>4. IsFiniteSet(P \ {0}) /\ Cardinality(P \ {0}) < Cardinality(P)
  <2>1. IsFiniteSet(P \ {0}) /\ Cardinality(P \ {0}) = Cardinality(P) - 1
    BY <1>1, <1>3, FS_RemoveElement
  <2>2. Cardinality(P) \in Nat
    BY <1>3, FS_CardinalityType
  <2> QED BY <2>1, <2>2
<1> DEFINE f == [x \in P |-> x + 1]
<1>5. f \in [P -> P \ {0}] /\ \A x \in P : f[x] = x + 1
  BY <1>1, <1>2
<1> HIDE DEF f
<1>6. \E x, y \in P : x # y /\ f[x] = f[y]
  BY <1>3, <1>4, <1>5, FS_PigeonHole
<1> QED BY <1>1, <1>5, <1>6

\* Where a path must have been named, and where files may have been replaced.
ConsentInv ==
  /\ ph \in {"path", "mode", "lookup", "ask", "enter"} /\ opts.mode = "auto" => opts.path
  /\ deed = "commit" => ph \in {"enter", "exit"}
  /\ Consent

\* A yes is the last of the letters that count.
LEMMA LastWord ==
  ASSUME NEW l \in Lines \cup {Eof}, Patch(l) = "y", opts.mode # "auto"
  PROVE  l # Eof /\ \E i \in DOMAIN l : l[i] = "y" /\ \A j \in i + 1 .. Len(l) : l[j] \notin {"n", "m"}
<1>1. Letters(l) # {} /\ l[CHOOSE i \in Letters(l) : \A j \in Letters(l) : j <= i] = "y"
  BY DEF Patch
<1>2. l # Eof /\ l \in Seq(STRING)
  BY <1>1, LinesAssumption DEF Letters
<1>3. Len(l) \in Nat /\ DOMAIN l = 1 .. Len(l)
  BY <1>2
<1>4. Letters(l) = {i \in 1 .. Len(l) : l[i] \in {"y", "n", "m"}}
  BY <1>2, <1>3 DEF Letters
<1>5. PICK i \in Letters(l) : i = CHOOSE k \in Letters(l) : \A j \in Letters(l) : j <= k
  <2>1. \E k \in Letters(l) : \A j \in Letters(l) : j <= k
    <3>1. Letters(l) \subseteq 1 .. Len(l)
      BY <1>4
    <3> QED BY <1>1, <1>3, <3>1, Greatest
  <2> QED BY <2>1
<1>6. \A j \in Letters(l) : j <= i
  <2>1. \E k \in Letters(l) : \A j \in Letters(l) : j <= k
    <3>1. Letters(l) \subseteq 1 .. Len(l)
      BY <1>4
    <3> QED BY <1>1, <1>3, <3>1, Greatest
  <2> QED BY <1>5, <2>1
<1>7. l[i] = "y" /\ i \in 1 .. Len(l)
  BY <1>1, <1>4, <1>5
<1>8. \A j \in i + 1 .. Len(l) : l[j] \notin {"n", "m"}
  <2> SUFFICES ASSUME NEW j \in i + 1 .. Len(l), l[j] \in {"n", "m"}
               PROVE  FALSE
    OBVIOUS
  <2>1. j \in 1 .. Len(l) /\ ~(j <= i)
    BY <1>3, <1>7
  <2>2. j \in Letters(l)
    BY <1>4, <2>1
  <2> QED BY <1>6, <2>1, <2>2
<1> QED BY <1>2, <1>3, <1>7, <1>8

\* Consent: nothing is replaced but with -auto and a path, or after a yes
\* that is the last word of its line (ask_user_patch, run_interactive, main).
THEOREM AsksFirst == ProgramSpec => []Consent
<1>1. ProgramInit => ConsentInv
  BY DEF ProgramInit, ConsentInv, Consent
<1>2. ConsentInv /\ [ProgramNext]_pall => ConsentInv'
  <2> SUFFICES ASSUME ConsentInv, [ProgramNext]_pall PROVE ConsentInv'
    OBVIOUS
  <2>1. CASE AskPatch
    <3>1. PICK l \in Lines \cup {Eof} :
            /\ IF opts.mode = "auto" THEN UNCHANGED answer ELSE answer' = l
            /\ \/ Patch(l) = "y" /\ deed' = "commit" /\ ph' = "enter"
               \/ Patch(l) = "n" /\ deed' = "cleanup" /\ ph' = "exit"
               \/ Patch(l) = "m" /\ UNCHANGED <<deed, ph>>
      BY <2>1 DEF AskPatch, Line
    <3>2. ph = "ask" /\ opts' = opts /\ deed # "commit" /\ (opts.mode = "auto" => opts.path)
      BY <2>1 DEF AskPatch, ConsentInv
    <3>3. CASE Patch(l) = "y" /\ deed' = "commit" /\ ph' = "enter"
      <4>1. CASE opts.mode = "auto"
        BY <3>2, <3>3, <4>1 DEF ConsentInv, Consent
      <4>2. CASE opts.mode # "auto"
        <5>1. answer' = l /\ answer' # Eof
              /\ \E i \in DOMAIN answer' : answer'[i] = "y" /\ \A j \in i + 1 .. Len(answer') : answer'[j] \notin {"n", "m"}
          BY <3>1, <3>3, <4>2, LastWord
        <5> QED BY <3>2, <3>3, <4>2, <5>1 DEF ConsentInv, Consent
      <4> QED BY <4>1, <4>2
    <3>4. CASE deed' # "commit" /\ ph' \in {"exit", "ask"}
      BY <3>2, <3>4 DEF ConsentInv, Consent
    <3> QED BY <3>1, <3>2, <3>3, <3>4
  <2>2. CASE (\E line \in CommandLines : Start(line)) \/ Exit
    BY <2>2 DEF Start, Exit, ConsentInv, Consent
  <2>3. CASE ReadArg \/ RunBatch \/ BatchStep \/ BatchEnd \/ NoPlace
    <3>1. deed' = deed /\ ph \in {"args", "batch", "running", "path"} /\ ph' \in {"args", "batch", "running", "exit"}
      BY <2>3 DEF ReadArg, RunBatch, BatchStep, BatchEnd, NoPlace, pvars
    <3> QED BY <3>1 DEF ConsentInv, Consent
  <2>4. CASE Dispatch
    <3>1. deed' = deed /\ ph = "args" /\ opts' = opts /\ (ph' \in {"exit", "batch"} \/ ~Refuse(opts))
      BY <2>4 DEF Dispatch
    <3> QED BY <3>1 DEF ConsentInv, Consent, Refuse
  <2>5. CASE AskPath \/ AskMode \/ Lookup
    <3>1. /\ ph \in {"path", "mode", "lookup"} /\ opts' = opts /\ deed' \in {deed, "cleanup"}
      BY <2>5 DEF AskPath, AskMode, Lookup
    <3> QED BY <3>1 DEF ConsentInv, Consent
  <2>6. CASE Enter
    <3>1. ph' = "exit" /\ deed' = deed
      BY <2>6 DEF Enter
    <3> QED BY <3>1 DEF ConsentInv, Consent
  <2>7. CASE UNCHANGED pall
    BY <2>7 DEF pall, pvars, ConsentInv, Consent
  <2> QED BY <2>1, <2>2, <2>3, <2>4, <2>5, <2>6, <2>7 DEF ProgramNext, Running
<1>3. ConsentInv => Consent
  BY DEF ConsentInv
<1> QED BY <1>1, <1>2, <1>3, PTL DEF ProgramSpec
==============================================================================
