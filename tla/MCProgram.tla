------------------------------ MODULE MCProgram ---------------------------
(* Two archives with a driver of the same name, a driver, an installation  *)
(* archive, a name for outputs, and two commands one after another.        *)
EXTENDS Program, TLC

MCPath  == {"A", "B", "CAB", "S", "d", "e", "wx", "vxd", "A-d", "A-e", "B-d", "CAB-d", "CAB-e"}
MCHolds ==
  [a \in MCPath |-> CASE a = "A"   -> ("d" :> "A-d" @@ "e" :> "A-e")
                      [] a = "B"   -> ("d" :> "B-d")
                      [] a = "CAB" -> ("d" :> "CAB-d" @@ "e" :> "CAB-e")
                      [] OTHER     -> << >>]

It(file, ver, form) == [file |-> file, ver |-> ver, form |-> form]
MCDirs ==
  {[p \in MCPath |-> CASE p = "A" -> a [] p = "B" -> b [] p = "S" -> s
                       [] p = "CAB" -> It("CAB", "other", "raw")
                       [] p = "d" -> d [] OTHER -> Absent] :
     a \in {It("A", "old", "w4"), It("A", "new", "w4"), It("A", "old", "w3"), Torn},
     b \in {It("B", "other", "w3")},
     s \in {It("S", "old", "raw")},
     d \in {Absent, It("d", "other", "raw")}}

To(in, out) == [in |-> in, out |-> out]
Cmd(func, src, args, force) == [func |-> func, src |-> src, args |-> args, force |-> force]
MCCalls ==
  {Cmd("extract", "A", <<To("d", "d"), To("e", "e")>>, "raw"),
   Cmd("extract", "B", <<To("d", "d")>>, "raw"),
   Cmd("extract", "A", <<To("x", "e")>>, "raw"),
   Cmd("all", "A", <<To("d", "d"), To("e", "e")>>, "raw"),
   Cmd("list", "A", <<To("d", "d"), To("e", "e")>>, "raw"),
   Cmd("convert", "A", <<To("A", "A")>>, "w3"),
   Cmd("convert", "B", <<To("B", "e")>>, "w4"),
   Cmd("patch", "A", <<To("A", "A")>>, "raw"),
   Cmd("patch", "A", <<To("A", "e"), To("S", "S")>>, "raw"),
   Cmd("cab", "CAB", <<To("d", "d"), To("e", "e")>>, "raw"),
   Cmd("strip", "S", <<To("S", "e")>>, "stored")}

Opt(o)     == [opt |-> o, val |-> {}]
Sel(o, s)  == [opt |-> o, val |-> s]
Name       == [opt |-> "name", val |-> {}]
MCLines    == {<<>>, <<"2">>, <<"0">>, <<"7">>, <<"y">>, <<"y", "n">>, <<"n", "m">>, <<"m">>}
MCCommandLines ==
  {<<>>, <<Name>>, <<Opt("-auto"), Name>>, <<Opt("-auto")>>, <<Name, Name>>,
   <<Opt("-select")>>, <<Sel("-select", {"tlb"}), Opt("-m"), Name>>,
   <<Opt("-m"), Sel("-unselect", {"tlb"}), Name>>, <<Sel("-select", {"all"}), Opt("-auto"), Name>>,
   <<Sel("-select", {"speed", "default"}), Name>>,
   <<Opt("-force-w3"), Opt("-force-w4"), Name>>,
   <<Opt("-h"), Opt("-v"), Opt("--patch"), Name>>,
   <<Opt("-reverse"), Opt("-no-backup"), Opt("-millennium"), Name>>,
   <<Opt("--vxd-extract"), Opt("--patch"), Name>>,
   <<Opt("-force-w3"), Opt("--vxd-convert"), Name>>,
   <<Opt("--vxd-convert"), Name, Opt("-force-w4")>>,
   <<Opt("--vxd-convert"), Name>>, <<Opt("--patch")>>,
   <<Opt("-auto"), Opt("--patch"), Name, Name>>}
  \cup {<<Opt(f), Name, Name>> : f \in Functions \ {"--vxd-convert", "--patch", "--cabs-extract", "--mz-strip"}}

ASSUME CallsAssumption == Apart
=============================================================================
