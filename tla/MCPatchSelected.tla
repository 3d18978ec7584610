--------------------------- MODULE MCPatchSelected ---------------------------
(***************************************************************************)
(* PatchSelected over the rows of the table that meet in a VMM.VXD, alone  *)
(* or in a W3 archive with other drivers: both kinds of windows, two       *)
(* places for the CPU speed patches, a driver of the size of VMM.VXD that  *)
(* is another (6) before the two blocks of a memory patch (4 and 5), and   *)
(* the windows of Windows Me (7 and 8).                                    *)
(***************************************************************************)
EXTENDS PatchSelected, PatchTable

CONSTANT Used

\* The rows of one VMM.VXD, and with them the second place of CPU speed.
Vmm == {"VMM98", "VMMME", "CPU_SPEED_V1", "CPU_SPEED_V2", "CPU_SPEED_V4",
        "VMM98_OLD", "VMM98_SIMPLE", "MEM98SE_PATCHMEM", "MEM98FE_PATCHMEM"}

MCTable == SelectSeq(ppathes, LAMBDA r : r.id \in Used)
MCPlace == 1 .. 8
MCWindows == 1 .. 3
MCObjects == [id \in {MCTable[n].id : n \in DOMAIN MCTable} |->
                IF id = "MEM98SE_PATCHMEM" THEN << {6}, {4, 5} >> ELSE << >>]

Cpu  == {"1M", "rloew", "fast"}
Half == {"old", "new", "none"}

\* A VMM.VXD of Windows 98, and one of Windows Me.
Win98 == {[p \in MCPlace |-> CASE p = 1 -> a [] p = 2 -> b [] p = 3 -> c
                               [] p = 4 -> d [] p = 5 -> e [] OTHER -> "none"]
          : a \in {"stock", "near", "simple", "full"}, b \in Cpu, c \in {"1M", "fast"},
            d \in Half, e \in {"old", "new"}}
WinMe == {[p \in MCPlace |-> CASE p = 2 -> b [] p = 7 -> m [] p = 8 -> n
                               [] OTHER -> "none"]
          : b \in {"1M", "none"}, m, n \in Half}
MCFiles == Win98 \cup WinMe

\* -select tlb, -unselect tlb, and neither.
MCSelections == {PATCHES_TLB \cap Used, (PATCHES_DEFAULT \ PATCHES_TLB) \cap Used,
                 PATCHES_DEFAULT \cap Used}

\* What the theorems assume of the table holds of these rows.
ASSUME RowsAssumption == RowsApart
==============================================================================
