------------------------------- MODULE Cpu8086 -------------------------------
(***************************************************************************)
(* What an 8086 does with the instructions that trap in virtual 8086 mode  *)
(* and with those that a BIOS routine executes around them: the promise    *)
(* the monitor of vm86.c has to keep.  Nothing here is code of the kernel. *)
(*                                                                         *)
(* Addresses, registers and instruction lengths are the real ones.  Flags  *)
(* are one word, FLAGS, whatever they are; the program never touches the   *)
(* border of a segment, so that no offset wraps.                           *)
(***************************************************************************)
EXTENDS Integers

CONSTANTS
  Program,    \* for each address that may hold code, the instructions it may hold
  Segments,   \* the segments it runs in
  StackArea,  \* the addresses of the words that make up the stack
  Ivt,        \* the interrupt vector table: vector to [segment, offset]
  Start,      \* the registers at the start
  FLAGS,
  Data        \* the contents of a part of eax

W == 65536

Offset == 0 .. W - 1
Word == Offset
Linear(segment, offset) == segment * 16 + offset

\* What an IN or OUT of a width moves.
Parts(width) ==
  CASE width = 8 -> {"al"}
    [] width = 16 -> {"al", "ah"}
    [] width = 32 -> {"al", "ah", "upper"}

\* The length of IN and OUT: an opcode, behind a prefix if 32 bits are moved, before a
\* byte if the port is not in DX.
IOLength(i) == 1 + (IF i.width = 32 THEN 1 ELSE 0) + (IF i.immediate THEN 1 ELSE 0)

VARIABLES cs, ip, ss, sp, eax, memory,
          last    \* the instruction that was executed last, with the data it moved

registers == <<cs, ip, ss, sp>>
vars == <<registers, eax, memory, last>>

Init ==
  /\ cs = Start.cs /\ ip = Start.ip /\ ss = Start.ss /\ sp = Start.sp
  /\ eax \in [Parts(32) -> Data]
  /\ memory = [a \in StackArea |-> 0]
  /\ last = [op |-> "none"]

\* i is the next instruction, and not at the very end of the segment.
Fetch(i) ==
  /\ last.op # "int3"
  /\ cs \in Segments
  /\ Linear(cs, ip) \in DOMAIN Program
  /\ i \in Program[Linear(cs, ip)]
  /\ ip < W - 4

Top == Linear(ss, sp)
RoomFor(words) == sp >= 2 * words /\ \A k \in 1 .. words : Top - 2 * k \in StackArea
Holds(words) == sp + 2 * words < W /\ \A k \in 1 .. words : Top + 2 * (k - 1) \in StackArea

GoOn(length) == ip' = ip + length /\ UNCHANGED cs
Drop(words) == sp' = sp + 2 * words /\ UNCHANGED <<ss, memory>>
PushWord(word) ==
  /\ sp' = sp - 2
  /\ memory' = [memory EXCEPT ![Top - 2] = word]
  /\ UNCHANGED ss

-----------------------------------------------------------------------------
(* Instructions that do not trap.                                          *)

Push(i) == RoomFor(1) /\ PushWord(i.word) /\ GoOn(1)
Pop(i) == Holds(1) /\ Drop(1) /\ GoOn(1)
NearCall(i) == RoomFor(1) /\ PushWord(ip + 3) /\ ip' = i.to /\ UNCHANGED cs
NearReturn(i) == Holds(1) /\ Drop(1) /\ ip' = memory[Top] /\ UNCHANGED cs

Native(i) ==
  /\ Fetch(i)
  /\ \/ i.op = "push" /\ Push(i)
     \/ i.op = "pop" /\ Pop(i)
     \/ i.op = "call" /\ NearCall(i)
     \/ i.op = "ret" /\ NearReturn(i)
  /\ last' = i
  /\ UNCHANGED eax

-----------------------------------------------------------------------------
(* Instructions that trap.                                                 *)

Pushf == RoomFor(1) /\ PushWord(FLAGS) /\ GoOn(1)
Popf == Holds(1) /\ Drop(1) /\ GoOn(1)
CliSti == GoOn(1) /\ UNCHANGED <<ss, sp, memory>>

IntN(i) ==
  /\ RoomFor(3)
  /\ sp' = sp - 6
  /\ memory' = [memory EXCEPT ![Top - 2] = FLAGS, ![Top - 4] = cs, ![Top - 6] = ip + 2]
  /\ cs' = Ivt[i.vector].segment
  /\ ip' = Ivt[i.vector].offset
  /\ UNCHANGED ss

Iret == Holds(3) /\ Drop(3) /\ ip' = memory[Top] /\ cs' = memory[Top + 2]

Sensitive(i) ==
  /\ Fetch(i)
  /\ \/ i.op = "pushf" /\ Pushf
     \/ i.op = "popf" /\ Popf
     \/ i.op \in {"cli", "sti"} /\ CliSti
     \/ i.op = "int" /\ IntN(i)
     \/ i.op = "iret" /\ Iret
  /\ last' = i
  /\ UNCHANGED eax

\* Whatever the device sends fills the parts of eax that the width covers.
In(i) ==
  /\ Fetch(i) /\ i.op = "in"
  /\ \E data \in [Parts(i.width) -> Data] :
       /\ eax' = [p \in Parts(32) |-> IF p \in Parts(i.width) THEN data[p] ELSE eax[p]]
       /\ last' = [instruction |-> i, op |-> "in", data |-> data]
  /\ GoOn(IOLength(i))
  /\ UNCHANGED <<ss, sp, memory>>

Out(i) ==
  /\ Fetch(i) /\ i.op = "out"
  /\ last' = [instruction |-> i, op |-> "out", data |-> [p \in Parts(i.width) |-> eax[p]]]
  /\ GoOn(IOLength(i))
  /\ UNCHANGED <<ss, sp, memory, eax>>

\* The end of the program.
Breakpoint(i) ==
  /\ Fetch(i) /\ i.op = "int3"
  /\ last' = i
  /\ UNCHANGED <<registers, eax, memory>>

Next ==
  \E a \in DOMAIN Program : \E i \in Program[a] :
    Native(i) \/ Sensitive(i) \/ In(i) \/ Out(i) \/ Breakpoint(i)

Spec == Init /\ [][Next]_vars

=============================================================================
