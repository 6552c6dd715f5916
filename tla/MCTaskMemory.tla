----------------------------- MODULE MCTaskMemory ----------------------------
(* Directories of six entries: table 0, two for the kernel, two for the      *)
(* user, and the last.  Six times six pages of four bytes; three pages below *)
(* "1 MiB", of which the last is the video memory.                           *)
EXTENDS TaskMemory

Segment(vaddr, memsz) == [vaddr |-> vaddr, memsz |-> memsz]

\* One segment, one page and a half long; segments with a gap, in two tables; with the
\* stack, all but the last page of a table, or all; a segment that starts inside of a page;
\* a file that is not for this machine.
MCSegments ==
  [template  |-> <<Segment(72, 6)>>,
   two       |-> <<Segment(76, 4), Segment(96, 4)>>,
   table     |-> <<Segment(72, 20)>>,
   unaligned |-> <<Segment(74, 4)>>,
   foreign   |-> <<Segment(72, 6)>>]

ASSUME Proper
=============================================================================
