------------------------------ MODULE PatchTable ------------------------------
(***************************************************************************)
(* The table of patches (patch.c: ppathes) and the data headers behind it. *)
(* A patch of the first kind ("cpatch") is searched for with a sieve: only *)
(* some bytes of its window are compared, and only some are replaced.  So  *)
(* what matters of a window is which searches find it, and its values here *)
(* are the classes of bytes that the searches of all rows tell apart.  A   *)
(* row turns the first value of each of its pairs into the second.         *)
(*   TLB: the rows for one build of VMM.VXD share a window.  "simple" is   *)
(* both what the simple version leaves and what the UPGRADE row looks for, *)
(* "full" what the updated and the UPGRADE row leave.  The simple version  *)
(* compares fewer bytes: "near" is a window it alone finds.                *)
(*   CPU speed: patched, the windows of #1, #2 and #4 are the same, as are *)
(* those of #5, #6 and #7, and those of NDIS.VXD #1 and #3.                *)
(***************************************************************************)
EXTENDS Naturals, Sequences

Cpatch(id, pairs) == [id |-> id, kind |-> "cpatch", pairs |-> pairs]

\* A spatch_t: blocks at fixed offsets, each with old and new bytes.
Spatch(id) == [id |-> id, kind |-> "spatch", pairs |-> {<<"old", "new">>}]

\* The patch of Windows Me: two windows at a fixed distance.
MePatch(id) == [id |-> id, kind |-> "me", pairs |-> {<<"old", "new">>}]

\* WIN_COM, between MEM_W3_95 and G4RESFIX_98, has a module of its own, WinCom.
ppathes ==
  << Cpatch("VMM98",        {<<"stock", "full">>}),
     Cpatch("VMM98_V2",     {<<"stock2", "full2">>}),
     MePatch("VMMME"),
     Cpatch("CPU_SPEED_V1", {<<"1M", "fast">>}),
     Cpatch("CPU_SPEED_V2", {<<"2M", "fast">>}),
     Cpatch("CPU_SPEED_V3", {<<"fix95", "fast3">>}),
     Cpatch("CPU_SPEED_V4", {<<"rloew", "fast">>}),
     Cpatch("CPU_SPEED_V5", {<<"1M drv", "fast drv">>}),
     Cpatch("CPU_SPEED_V6", {<<"2M drv", "fast drv">>}),
     Cpatch("CPU_SPEED_V7", {<<"fix95 drv", "fast drv">>}),
     Cpatch("CPU_SPEED_V8", {<<"rloew drv", "fast8">>}),
     Cpatch("CPU_SPEED_NDIS_V1", {<<"ndis", "fast ndis">>}),
     Cpatch("CPU_SPEED_NDIS_V2", {<<"ndis SE", "fast ndis SE">>}),
     Cpatch("CPU_SPEED_NDIS_V3", {<<"rloew ndis", "fast ndis">>}),
     Cpatch("CPU_SPEED_NDIS_V4", {<<"ndis 386", "fast ndis 386">>}),
     Cpatch("VMM98_OLD",       {<<"simple", "full">>}),
     Cpatch("VMM98_OLD_V2",    {<<"simple2", "full2">>}),
     Cpatch("VMM98_SIMPLE",    {<<"stock", "simple">>, <<"near", "near simple">>}),
     Cpatch("VMM98_SIMPLE_V2", {<<"stock2", "simple2">>, <<"near2", "near simple2">>}),
     Spatch("MEM_VCACHE98"), Spatch("MEM_VCACHE95"), Spatch("MEM_VCACHEME"),
     Spatch("MEM98SE_PATCHMEM"), Spatch("MEM98FE_PATCHMEM"),
     Spatch("MEMME_PATCHMEM"), Spatch("MEMME_PATCHMEM_V2"),
     Spatch("MEM95_PATCHMEM"), Spatch("MEM95B_PATCHMEM"),
     Spatch("MEM_W3_98"), Spatch("MEM_W3_95"),
     Cpatch("G4RESFIX_98", {<<"e820", "e820 fixed">>}),
     Cpatch("G4RESFIX_ME", {<<"e820 me", "e820 me fixed">>}),
     Spatch("MEM_W3_16M_98"), Spatch("MEM_W3_16M_95"),
     Spatch("MEM_W3_16M_ME"), Spatch("MEM_W3_16M_95B") >>

\* The groups -select and -unselect name (patcher9x.h: PATCHES_TLB, ...).
PATCHES_TLB == {"VMM98", "VMMME", "VMM98_V2", "VMM98_OLD", "VMM98_OLD_V2",
                "VMM98_SIMPLE", "VMM98_SIMPLE_V2"}
PATCHES_CPU_SPEED_DRV == {"CPU_SPEED_V1", "CPU_SPEED_V2", "CPU_SPEED_V3",
                          "CPU_SPEED_V4", "CPU_SPEED_V5", "CPU_SPEED_V6",
                          "CPU_SPEED_V7", "CPU_SPEED_V8"}
PATCHES_CPU_SPEED_NDIS == {"CPU_SPEED_NDIS_V1", "CPU_SPEED_NDIS_V2",
                           "CPU_SPEED_NDIS_V3", "CPU_SPEED_NDIS_V4"}
PATCHES_G4RESFIX == {"G4RESFIX_98", "G4RESFIX_ME"}
PATCHES_MEM_16M == {"MEM_W3_16M_98", "MEM_W3_16M_95", "MEM_W3_16M_ME",
                    "MEM_W3_16M_95B"}
PATCHES_MEMPATCH ==
  {ppathes[i].id : i \in {j \in DOMAIN ppathes : ppathes[j].kind = "spatch"}}
    \ PATCHES_MEM_16M
PATCHES_DEFAULT == PATCHES_CPU_SPEED_DRV \cup PATCHES_CPU_SPEED_NDIS
                     \cup PATCHES_TLB \cup PATCHES_MEMPATCH \cup PATCHES_G4RESFIX
==============================================================================
