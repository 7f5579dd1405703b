---------------------------- MODULE LinkerScript ----------------------------
(***************************************************************************)
(* What build-vitis.py does to the linker script of an application: a      *)
(* script is the sequence of its memories and the memory of each output    *)
(* section. Setting the sizes of the stack and the heap is a call of the   *)
(* Vitis API, which may place these two sections anew.                     *)
(***************************************************************************)
EXTENDS Naturals, Sequences

CONSTANTS
    LocalMems,  \* the memories with "local_memory" in their name
    DdrMems     \* the memories with "ddr" in their name

Sections == {".text", ".bss", ".heap", ".stack"}
CODE_LOCAL_DDR_SECTIONS == {".bss", ".heap"}

\* Modifications made after the sizes are set; the others go before.
LINKER_MODS_AFTER_SIZES == {"code_local_bss_ddr"}

InScript(ld, S) == {i \in DOMAIN ld.mems : ld.mems[i] \in S}

\* next(m for m in memories if ...)
FirstOf(ld, S) == ld.mems[CHOOSE i \in InScript(ld, S) : \A j \in InScript(ld, S) : i <= j]

Relocated(ld, target) ==
    [ld EXCEPT !.at = [s \in Sections |-> target]]

\* A modification that does not find its memories, or that nobody knows,
\* leaves the script as it is.
modify_linker_script(ld, mod) ==
    CASE mod = "relocate_to_local_mem" /\ InScript(ld, LocalMems) # {} ->
            Relocated(ld, FirstOf(ld, LocalMems))
      [] mod = "relocate_to_ddr" /\ InScript(ld, DdrMems) # {} ->
            Relocated(ld, FirstOf(ld, DdrMems))
      [] mod = "code_local_bss_ddr" /\ InScript(ld, LocalMems) # {} /\ InScript(ld, DdrMems) # {} ->
            [ld EXCEPT !.at = [s \in Sections |->
                IF s \in CODE_LOCAL_DDR_SECTIONS THEN FirstOf(ld, DdrMems)
                ELSE FirstOf(ld, LocalMems)]]
      [] OTHER -> ld

\* ld.set_stack_size, ld.set_heap_size: the tool's own placement of a section.
Sized(ld, S, mem) == [ld EXCEPT !.at = [s \in Sections |-> IF s \in S THEN mem ELSE @[s]]]
=============================================================================
