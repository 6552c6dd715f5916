-------------------------------- MODULE MCPmm --------------------------------
(* Sixteen frames of four bytes: two below "1 MiB", four up to "4 MiB", the  *)
(* kernel image in the next two, and memory up to the end of the address     *)
(* space.  The copies that pmm_init makes just fit behind the image.         *)
EXTENDS Pmm

Ram(base, end) == [base |-> base, len |-> end - base, available |-> TRUE]
Hole(base, end) == [base |-> base, len |-> end - base, available |-> FALSE]

\* The second map has borders inside of frames 1 and 15.
MCMemoryMaps ==
  {<<Ram(0, 8), Ram(8, 64)>>,
   <<Ram(0, 6), Hole(6, 8), Ram(8, 62), Hole(62, 64)>>}

MCModules == <<[len |-> 6, string |-> 2], [len |-> 3, string |-> 1]>>

\* The boot loader puts the modules below 4 MiB, or anywhere in memory.
MCLowerPages == 2 .. 5
MCAllPages == 2 .. 14
=============================================================================
