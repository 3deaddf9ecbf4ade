-------------------------------- MODULE MCPaging --------------------------------
(***************************************************************************)
(* A small machine with the layout of a PC: low memory that starts with    *)
(* the kernel, a hole with the video memory in it, and high memory that    *)
(* the boot page tables lie in, beyond the last frame that gets an entry.  *)
(***************************************************************************)
EXTENDS Paging

Entry(base, length, type) == [Base |-> base, Length |-> length, Type |-> type]

\* Much high memory, little of it, and a high region in two parts.
PcMaps == {<<Entry(0, 10, 1), Entry(10, 8, 2), Entry(18, 26, 1)>>,
           <<Entry(0, 10, 1), Entry(10, 8, 2), Entry(18, 4, 1)>>,
           <<Entry(0, 10, 1), Entry(18, 3, 1), Entry(21, 1, 2), Entry(22, 5, 1)>>}

ZeroWord == {0}

ASSUME InstanceLayout == Layout
===============================================================================
