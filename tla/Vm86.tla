-------------------------------- MODULE Vm86 ---------------------------------
(***************************************************************************)
(* The virtual 8086 monitor: vm86_monitor of vm86.c, called from the       *)
(* handler of general protection faults, emulates what a BIOS routine may  *)
(* not execute itself.  The other instructions the processor executes in   *)
(* virtual 8086 mode as an 8086 does (Cpu8086!Native).                     *)
(*                                                                         *)
(* The monitor computes with linear addresses and translates them back to  *)
(* far pointers of its own choice, for the code and for the stack.         *)
(***************************************************************************)
EXTENDS Integers

CONSTANTS
  Program, Segments, StackArea, Ivt, FLAGS, Data,
  CodeLength    \* bytes of the program that calls the BIOS, INT 3 included

CODE_ADDRESS == 1280                \* 0x500
MULTIBOOT_LOWER_MEMORY == 1048576   \* 1 MiB
UserStackLen == 4096

W == 65536
Word == 0 .. W - 1

\* Code runs in segments that are multiples of 64 KiB, as the routines of the BIOS do
\* that main2 calls: only of those does the monitor return the far pointer it was given.
ASSUME SegmentsAssumption == \A s \in Segments : s % 4096 = 0

ASSUME MemoryAssumption ==
  /\ CodeLength \in 1 .. 1024
  /\ StackArea \subseteq Nat
  /\ FLAGS \in Word

ASSUME ProgramAssumption ==
  \A a \in DOMAIN Program : \A i \in Program[a] :
    /\ i.op = "push" => i.word \in Word
    /\ i.op = "call" => i.to \in Word
    /\ i.op = "int" => Ivt[i.vector].segment \in Word /\ Ivt[i.vector].offset \in Word
    /\ i.op \in {"in", "out"} => i.width \in {8, 16, 32} /\ i.immediate \in BOOLEAN

VARIABLES cs, ip, ss, sp,   \* of the CPU state on the kernel stack
          eax, memory, last

vm86_vars == <<cs, ip, ss, sp, eax, memory, last>>

-----------------------------------------------------------------------------
(* Far pointers.                                                           *)

vm86_get_farptr(addr) ==
  IF addr >= MULTIBOOT_LOWER_MEMORY
  THEN [segment |-> 0, offset |-> 0]
  ELSE [segment |-> (addr - (addr % W)) \div 16, offset |-> addr % W]

vm86_get_address(segment, offset) == segment * 16 + offset

-----------------------------------------------------------------------------
(* vm86_create_task: code and stack lie in segment 0.                      *)

Entry == vm86_get_farptr(CODE_ADDRESS)
UserStack == vm86_get_farptr(CODE_ADDRESS + CodeLength + UserStackLen - 1)

Cpu == INSTANCE Cpu8086 WITH
  Start <- [cs |-> Entry.segment, ip |-> Entry.offset,
            ss |-> UserStack.segment, sp |-> UserStack.offset]

Vm86Init ==
  /\ cs = Entry.segment /\ ip = Entry.offset
  /\ ss = UserStack.segment /\ sp = UserStack.offset
  /\ eax \in [Cpu!Parts(32) -> Data]
  /\ memory = [a \in StackArea |-> 0]
  /\ last = [op |-> "none"]

-----------------------------------------------------------------------------
(* The emulation, on the task's CPU state and memory.                      *)

State(code, instruction, stack, top, contents) ==
  [cs |-> code, ip |-> instruction, ss |-> stack, sp |-> top, memory |-> contents]

Task == State(cs, ip, ss, sp, memory)

Become(task) ==
  /\ cs' = task.cs /\ ip' = task.ip
  /\ ss' = task.ss /\ sp' = task.sp
  /\ memory' = task.memory

StackTop(task) == vm86_get_address(task.ss, task.sp)
WithStack(task, farptr, contents) ==
  State(task.cs, task.ip, farptr.segment, farptr.offset, contents)
WithCode(task, farptr) ==
  State(farptr.segment, farptr.offset, task.ss, task.sp, task.memory)

vm86_push(task, value) ==
  WithStack(task, vm86_get_farptr(StackTop(task) - 2),
            [task.memory EXCEPT ![StackTop(task) - 2] = value])

\* The value vm86_pop returns, and what it leaves behind.
Popped(task) == task.memory[StackTop(task)]
vm86_pop(task) == WithStack(task, vm86_get_farptr(StackTop(task) + 2), task.memory)

vm86_increment_eip(task, inc) ==
  WithCode(task, vm86_get_farptr(vm86_get_address(task.cs, task.ip) + inc))

Pushf == Become(vm86_increment_eip(vm86_push(Task, FLAGS), 1))
Popf == Become(vm86_increment_eip(vm86_pop(Task), 1))
CliSti == Become(vm86_increment_eip(Task, 1))

\* A plausible slip: the instruction that trapped is saved and not the one behind it.
SameInstructionMutant(i) ==
  Become(WithCode(vm86_push(vm86_push(vm86_push(Task, FLAGS), cs), ip), Ivt[i.vector]))

IntN(i) ==
  LET next == vm86_get_farptr(vm86_get_address(cs, ip) + 2)
  IN  Become(WithCode(
        vm86_push(vm86_push(vm86_push(Task, FLAGS), next.segment), next.offset),
        Ivt[i.vector]))

Iret ==
  LET behindIp == vm86_pop(Task)
      behindCs == vm86_pop(behindIp)
  IN  Become(WithCode(vm86_pop(behindCs),
                      [segment |-> Popped(behindIp), offset |-> Popped(Task)]))

\* The instruction lengths of CASE_IN and CASE_OUT.
Length(i) ==
  CASE i.width # 32 /\ i.immediate -> 2
    [] i.width = 32 /\ i.immediate -> 3
    [] i.width # 32 /\ ~ i.immediate -> 1
    [] i.width = 32 /\ ~ i.immediate -> 2

\* The monitor runs when the instruction at CS:IP has trapped.
vm86_monitor(i) ==
  /\ Cpu!Fetch(i)
  /\ \/ i.op = "pushf" /\ Cpu!RoomFor(1) /\ Pushf
     \/ i.op = "popf" /\ Cpu!Holds(1) /\ Popf
     \/ i.op \in {"cli", "sti"} /\ CliSti
     \/ i.op = "int" /\ Cpu!RoomFor(3) /\ IntN(i)
     \/ i.op = "iret" /\ Cpu!Holds(3) /\ Iret
  /\ last' = i
  /\ UNCHANGED eax

CASE_IN(i) ==
  /\ Cpu!Fetch(i) /\ i.op = "in"
  /\ \E data \in [Cpu!Parts(i.width) -> Data] :
       /\ eax' = [p \in Cpu!Parts(32) |-> IF p \in Cpu!Parts(i.width) THEN data[p] ELSE eax[p]]
       /\ last' = [instruction |-> i, op |-> "in", data |-> data]
  /\ Become(vm86_increment_eip(Task, Length(i)))

CASE_OUT(i) ==
  /\ Cpu!Fetch(i) /\ i.op = "out"
  /\ last' = [instruction |-> i, op |-> "out",
              data |-> [p \in Cpu!Parts(i.width) |-> eax[p]]]
  /\ Become(vm86_increment_eip(Task, Length(i)))
  /\ UNCHANGED eax

\* INT 3 ends the task: sys_exit.
Breakpoint(i) ==
  /\ Cpu!Fetch(i) /\ i.op = "int3"
  /\ last' = i
  /\ UNCHANGED <<cs, ip, ss, sp, eax, memory>>

Vm86Next ==
  \E a \in DOMAIN Program : \E i \in Program[a] :
    Cpu!Native(i) \/ vm86_monitor(i) \/ CASE_IN(i) \/ CASE_OUT(i) \/ Breakpoint(i)

Vm86Spec == Vm86Init /\ [][Vm86Next]_vm86_vars

-----------------------------------------------------------------------------
(* Properties.                                                             *)

(* The registers are 16 bits wide, whatever the monitor computes.          *)
Vm86TypeOK ==
  /\ cs \in Cpu!Offset /\ ip \in Cpu!Offset
  /\ ss \in Cpu!Offset /\ sp \in Cpu!Offset
  /\ eax \in [Cpu!Parts(32) -> Data]
  /\ memory \in [StackArea -> Cpu!Word]

(* A BIOS routine cannot tell the monitor from an 8086: every instruction  *)
(* that is emulated leaves the registers and the stack as the processor    *)
(* would, so that nested calls come back behind their INT, near returns    *)
(* find the segment of their call, and the stack stays balanced.           *)
ImplementsCpu8086 == Cpu!Spec

=============================================================================
