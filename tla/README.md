# A verification development of UnnamedOS

TLA+ models of the UnnamedOS kernel (`src/src/kernel`), checked with TLC on
small instances and, where this file says so, proved with TLAPS for all
instances. Paths below are relative to `src/src/kernel` unless they begin with
`src/`.

## 1. The system

UnnamedOS is a small 32-bit x86 kernel. GRUB loads it at 4 MiB; `main` brings
up memory, tables and interrupts and hands over to `main2`, the first task;
`main2` starts a PS/2 driver task, a virtual 8086 task and ten ELF tasks, shows
the time, collects tasks that exited, and halts when ESC is pressed. There is
one processor. All concurrency comes from interrupts: handlers run with
interrupts off, threads run with interrupts on except between
`isr_enable_interrupts(0)` and its counterpart.

| Component | State | Operations | Talks to | Correct when |
|---|---|---|---|---|
| Task list (`tasks/task.c`) | `tasks[]`, a fixed array of pointers; per task: state, saved CPU state, remaining ticks, stacks, page directory | add, remove, stop, next task, next task with a state | scheduler, system calls | the lookups find the cyclically next task and nothing else; a pid is reused only when its slot is empty |
| Scheduler (`tasks/schedule.c`, `interrupts/syscall.c`) | `current_task`, `ticks_per_time_slice` | `schedule` (from IRQ 0), `schedule_switch_task`, `syscall_exit`, `schedule_finalize_tasks` | task list, timer, VMM | only running tasks are executed; a switch is transparent; nobody starves; what exited is collected |
| Boot and main task (`boot/main.c`, `boot/main_asm.S`) | position of the two threads | creation of all tasks, main loop, halt | all | the hand-over happens; interrupts stay on |
| Timer (`hardware/pit.c`) | `ticks` (32 bits), clock, `freq` | IRQ 0, `pit_sleep`, timeouts | scheduler, PS/2 driver | no wait is short, none is missed |
| Physical memory (`mem/pmm.c`, `boot/multiboot.c`) | bitmap of frames, `highest_kernel_page` | `pmm_init`, `pmm_use`, alloc, free | VMM, boot loader's structures | no frame is handed out twice; only memory is handed out; boot modules survive |
| Virtual memory (`mem/vmm.c`, `mem/mmu.c`) | page directories and tables, the directory that is being modified | map, unmap, alloc, free, create/destroy/load a directory | PMM, task creation and destruction | a virtual page maps to one frame that belongs to it; kernel mappings agree in all directories; nothing leaks |
| ELF loader (`tasks/elf.c`) | none | load, unload, create and destroy an ELF task | VMM, task list | unload gives back what load took |
| Virtual 8086 mode (`tasks/vm86.c`) | the code at its fixed address, the registers and the stack of the task | create a task, call the BIOS, monitor | VMM, exceptions | emulated instructions behave as on an 8086 |
| Interrupt dispatch (`interrupts/isr.c`, `isr_asm.S`, `idt.c`, `pic.c`) | handlers, frames on the kernel stacks, the interrupt flag, the lines in service | enter, dispatch, acknowledge, return; sections with interrupts off | everybody | no line stays blocked, results reach their callers, sections stay whole |
| PS/2 controller (`hardware/io/ps2.c`) | configuration, `init_done` | polled commands with timeouts, IRQ 1 and 12 | timer, keyboard, mouse | every command ends; bytes reach the right driver |
| Keyboard, mouse | state machines over byte streams | handle a byte, call a handler | PS/2 | every sequence of bytes is recognised and leaves the machine ready |
| Screen (`hardware/io/output.c`, `src/src/lib/io.c`) | cursor, attribute | print | everybody | what is printed has its place and colour; numbers can be read again |
| Lists and queues (`lib/`) | linked lists | add, remove, look up | VMM; nobody uses them yet | they are sequences |
| Descriptor tables, TSS, CPUID (`hardware/cpu/`), `pic_init` | registers | set-up | hardware | not modelled: see section 5 |
| Speaker, user library and template | none | | hardware, system calls | not modelled: see section 5 |

The hard behaviour: the timer may cut in between any two steps of a thread;
`schedule_finalize_tasks` walks the task list with interrupts on while tasks
exit; `syscall_exit` runs on the stack that will be freed; 32-bit counters wrap
(`ticks` of the timer and of each task); a thread that waits sees the counter
only when it is scheduled; `pmm_init` overwrites memory that the boot loader
filled; page directories are modified through a single global pointer; the
keyboard interrupt polls a device with interrupts off. `PROJECT.json` lists
each hazard at its line.

## 2. The modules

    TaskTable ── Schedule ── ScheduleHistory ── (refines) RoundRobin
        │                          │
        │                      MCSchedule
        │
    MCAlgorithms ──┬─ Format, Mouse
                   └─ PmmFindFree ── Frames ─┬─ Pmm ── MCPmm
                                             └─ Paging ── TaskMemory ── MCTaskMemory
                                                              │
                                                    (refines) AddressSpaces
    Keyboard ── Ps2 ── MCPs2                 Pit ── MCPit,          (refines) WallClock
    Screen ── Interrupts ── MCInterrupts     Vm86 ── MCVm86,        (refines) Cpu8086
                                             LinkedList ── MCLinkedList, (refines) DataLists

A line is EXTENDS. The proofs are in Tasks_proofs (those of Schedule, ScheduleHistory
and Vm86), Algorithms_proofs (those of MCAlgorithms, TaskTable, Mouse and
PmmFindFree), Pmm_proofs, Memory_proofs (those of Frames and Paging),
TaskMemory_proofs, Interrupts_proofs (those of Interrupts and Pit), LinkedList_proofs
and Ps2_proofs. Pit and Vm86 share a module of proofs with others; what each module has
(`Init`, `Next`, `Spec`, `TypeOK`) has its name in front there (`PitInit`, `Vm86Spec`).

How the modules fit together: each takes from the others only what is said
here. Schedule decides which task is next and leaves open what a task does;
TaskMemory does what a switch, a creation or an exit do to memory, for any
order of tasks; Interrupts does what surrounds both: how the processor gets
into a handler and out of it, on whose stack, with which page directory. Pit
is told by a bound how long the scheduler may take (NoBypass gives one), and
Ps2 is told that a timeout ends.

**TaskTable** is the array `tasks[]` with its lookups, twice: as definitions
(`NextTask`, `NextTaskWithState`, `LowestFreePid`) on which the scheduler is
built, and as the loops of `task.c` (`NextTaskLoop` ...).

**MCAlgorithms** puts the algorithms side by side that depend on nothing else.
It produces every table and compares the two kinds of lookups, runs the search
of `PmmFindFree` on every bitmap, prints every number, and moves the mouse
pointer to every place.

**Format** is how `vprint` prints a number (`src/src/lib/io.c:14-100`): a text is
the sequence of characters that are put, a digit stands for its value. **Mouse**
is what `mouse_process_packet` makes of a packet: sign extension, limits,
scaling to the screen.

**Schedule** composes `task.c`, `schedule.c`, `syscall_exit`, the timer
interrupt and the two kernel threads. One action is one handler, one call made
under `cli`, or one step of a thread between which the timer may cut in:

| Action | Code |
|---|---|
| `Tick` = `KeepRunning`, `RunAlone`, `Preempt` or `InitialSwitch` | IRQ 0: `schedule` and its four ways out |
| `CreateMain`, `WaitForTick`, `OtherInterrupt` | the end of `main`, and what follows it in `main_asm.S` |
| `CreateTask`, `EnterLoop`, `Shutdown`, `WakeUp` | `main2` |
| `StartFinalize`, `VisitTask`, `DestroyTask` | `schedule_finalize_tasks`, one visit of its lookup at a time, and `task_destroy` |
| `RunTask`, `ExitTask` | instructions of another task; `syscall_exit` |

A task's own progress is its position `pos`; `cpu` is the position its saved
CPU state would resume. The number of ticks a new task starts with is
arbitrary: the code never initialises it. `CreateInLoop` lets the main task
create further tasks between two rounds of its loop, which `main2` does not do
but `task_create_kernel` allows at any time; it makes freed pids come back. The
memory a task owns is left to the virtual memory manager.

**ScheduleHistory** adds two history variables and with them `NoBypass`, the
refinement mapping to **RoundRobin** (the abstract promise: the processor goes
around the circle of those that can run), and what `task.h` says about slices.

**Pit** is the counter, the clock and any number of threads that wait, by
`pit_sleep` or by a timeout. What matters about the scheduler is only how long
it keeps a thread from looking at the counter: `MaxGap`. History variables keep
for each wait how long it still has to go, measured independently of the
counter. **WallClock** is the promise of the clock: it counts seconds of so many
ticks. Hours, minutes and seconds together refine it.

**Frames** is the arithmetic of addresses and frames and the operations on the
bitmap. **PmmFindFree** is the loop of `pmm_find_free`. **Pmm** is the memory
manager from the boot loader's hand-over on: one action per step of `pmm_init`
(the loops over the memory map and over the modules take one action per entry),
then allocations and frees. Memory contents are modelled as far as a module's
file is concerned: a byte of memory is a byte of some module, or something
else. `memcpy` is what its loop leaves in memory, overlapping operands
included.

**Paging** is `vmm.c` as operators on a record, the state of the memory: the
bitmap, the contents of every frame as a page table, the current and the saved
directory, the two switches `domain_check_enabled` and paging, and two
observations: `fault` (the kernel panicked with a page fault) and `short` (a
search for frames or pages once failed). Every function of `vmm.c` with an
effect is an operator of its name; a function that returns a pointer yields the
state and the pointer. A directory is a page table, as on the processor; an
access to memory goes through `Access`, which faults when the address is not
mapped in the current directory. The loops over pages and tables are recursive functions
of the number of rounds (`MapLoop`, `UnmapLoop`, `FreeUserTables`, `IdentityMapLoop`).

**TaskMemory** runs `Paging` the way `task.c`, `elf.c`, `vm86.c` and
`schedule.c` do. Creation and destruction of a task are one step each, since
they run between `isr_enable_interrupts(0)` and its counterpart; so is a switch.
Which task is switched to is left open: any running one (module Schedule has
the order). The state after `pmm_init` is written down (`BootBitmap`), `vmm_init`
is run. A task that is switched to must find its structure, its stacks and its
segments mapped. `elf` of a VM86 task is what the frame of its structure happened
to hold: `vm86.c` does not assign it (`Leftover`). A file that `elf_check` refuses (`Suitable` has the others) is not loaded, but
`elf_create_task` makes a task of it all the same, which starts at address 0.

**AddressSpaces** is the promise: owners (the kernel and each task) have pages
that stand for frames; creation adds a disjoint owner, destruction removes it,
nothing else changes. `TaskMemory` refines it with the mapping `Space`, read from
the page tables as the processor would read them.

**Vm86** is the monitor (`vm86_monitor`): what a task's registers and its stack
look like after an instruction was emulated. The code computes with linear
addresses and turns them back into far pointers (`vm86_get_farptr`) of its own
choice; the model does the same, with the real widths.
**Cpu8086** is what an 8086 does with the same instructions, offset by offset
within its segments; the refinement mapping is the identity on the registers.
`Program` says what instructions there may be at an address, so that TLC
runs all programs of that shape.

| Action | Code |
|---|---|
| `vm86_monitor` with `Pushf`, `Popf`, `CliSti`, `IntN`, `Iret` | the cases of its switch; `vm86_push`, `vm86_pop`, `vm86_increment_eip` are operators of their names |
| `CASE_IN`, `CASE_OUT` | the macros of these names, for the six opcodes each |
| `Breakpoint` | INT 3, at which the task exits |
| `Cpu8086!Native` | what the processor executes without the monitor (`PUSH`, `POP`, near `CALL` and `RET`) |

**Screen** is the attribute and the cursor, which all who print share.
**Interrupts** is the way into the kernel and out of it. One piece of code runs
at a time (`context`); it is a sequence of operations, taken from the code, and
when interrupts are on it may be cut off between any two of them. What was cut
off is kept in a frame on the kernel stack, as `isr_common` does, and a handler
returns whichever frame its task switch left on top.

| Action | Code |
|---|---|
| `Interrupt`, `SpuriousInterrupt`, `SystemCall`, with `EnterKernel` and `INTR_32` | the PICs and the processor; `isr_asm.S`; the gates of `idt.c` |
| `Schedule`, `Exit`, `isr_handle_syscall` | the handler of IRQ 0; `isr_handle_syscall` with the system calls of `syscall.c` |
| `Acknowledge`, `SendEoi`, `iret` | the end of `isr_handle_interrupt`, `pic_send_eoi`, the second half of `isr_common` |
| `DisableInterrupts`, `RestoreInterrupts`, `vmm_modify_page_directory`, `vmm_modified_page_directory` | the nested sections of task creation and destruction |
| `TaskAdd`, `TaskRemove`, `isr_register_handler`, `Output` | the effects of these functions on what the module keeps |
| `MainStep` | the next thing `main2` does: show the time, create or destroy a task |

**LinkedList** is `lib/list.c` with its nodes, links and headers in memory that is
handed out and taken back; each function is one action, and `call` keeps what it
returned. `lib/queue.c` calls one of them in each function. **DataLists** is the
promise: lists are sequences.

**Keyboard** has the state machines of `keyboard.c` and `mouse.c` as operators:
driver state and byte yield the next state. The table of scancodes is a
constant; a key has a make and a break code.

**Ps2** is `ps2.c` (without `ps2_reboot`) with everything it talks to: a user
who presses and releases keys and moves the mouse, the two devices, and the
controller with its one output buffer. The devices and the controller are
external; they are modelled by what the code has to expect of them.
`Program` is the set-up as a sequence of commands and waits, over which the task
steps:

| Action | Code |
|---|---|
| `Command`, `AwaitAnswer`, `AwaitTimesOut` | `ps2_write_device`, `ps2_read` with its two ways out |
| `AwaitReset`, `LookAfterTimeout` | the loop of `ps2_reset_device`, whose own timeout (`reset_timeout`) is looked at when the `ps2_read` within it has returned, with a byte or by its timeout |
| `SwitchPort` | `ENABLE_PORT_1` to `DISABLE_PORT_2` |
| `DetectPort2`, `TurnOn`, `TurnTranslationOff` | `ps2_read_config` with what is done with the result: the two tests for port 2, the end of `ps2_init_controller`, the end of `keyboard_scancode_set` |
| `AwaitAny` | the answer to `TEST_PORT_2` |
| `ps2_flush`, `FlushByte` | the test and the read of the loop of `ps2_flush` |
| `SetInitDone` | `init_done = 1` |
| `ps2_handle_interrupt`, `AwaitLeds` | IRQ 1 and 12; `keyboard_leds`, called in the handler |
| `Press`, `Release`, `Move`, `Answer`, `Input` | the world outside |

History variables keep which ports lost a byte to polling (`lost`), and whether
a driver ever got what was not meant for it (`astray`).

## 3. Runs

| Run | Module, cfg | Shows | Bounds |
|---|---|---|---|
| `algorithms` | MCAlgorithms | `ReturnsFirstFit`, `LookupsAgree`, `NumbersReadBack`, `PointerFollowsMouse` | all tables of 5 slots; all bitmaps of 6 frames of 2 bytes, lengths of 0 to 8 bytes; all arguments of 6 bits in widths of 0 to 9; a mouse with movement bytes of 3 bits, a pad of 10 by 7 points and a screen of 5 by 3 |
| `schedule` | MCSchedule | `CurrentTaskRuns`, `ResumesWhereLeft`, `FinalizeTargetStopped`, `StaysPreemptible`, `NoBypass`, `ImplementsRoundRobin`; under fairness `EveryTaskRuns`, `StoppedTasksFinalized` | main task and two others, one-tick slice as in the code, counter of three values |
| `timer` | MCPit | `NeverEarly`, `NoticedInTime`, `ImplementsWallClock` | one thread (threads share only `ticks`), 4-bit counter, seconds of three ticks, minutes and hours of two, waits of 0, 1, 3 and 5 ticks, looks at most 3 ticks apart |
| `frames` | MCPmm | `HandedOutOnce`, `OnlyMemoryIsFree`, `HighestKernelPageBounds`, `ModulesIntact` | 16 frames of 4 bytes, two memory maps (one with borders inside of frames), two modules anywhere below "4 MiB" |
| `task_memory` | MCTaskMemory | `TablesKept`, `NothingShared`, `NothingLeaks`, `KernelTablesAgree`, `FaultsOnlyWhenShort`, `ImplementsAddressSpaces` | 36 frames and 36 pages of 4 bytes, directories of 6 entries (2 for the kernel, 2 for the user), main task and three others, ELF files of one and of two segments |
| `ps2` | MCPs2 | `TypeOK`, `RightDriver`, `KeysRecognised`, `PacketsAligned`, `Port2Detected`, `ConfigKept`; under fairness `NothingStuck`, `InitEnds` | with and without port 2, whose bit reads 0 or 1 if there is none; keys with one-byte, extended and eight-byte scancodes and a lock key (two keys, no lock key, if there is a mouse); three strokes, one movement with bytes that do and do not look like the first of a packet |
| `vm86` | MCVm86 | `ImplementsCpu8086` | the program of `vm86_call_bios`, INT 10h, and routines of a few bytes in segments C000h and F000h with one to twelve instructions to choose from at each address; a stack of 7 words |
| `interrupts` | MCInterrupts | `NoLineBlocked`, `ResultsReachCallers`, `SectionsWhole`, `HandlersPrintWhole` | the main task, the PS/2 task and one ELF task that comes and goes; the lines 0, 1, 6 (without a handler) and 12, spurious interrupts of both PICs; a screen of two characters |
| `lists` | MCLinkedList | `WellLinked`, `ImplementsSequences` | two lists, four nodes, two data |
| `module_overwritten` | MCPmm, ModuleOverwritten | **violated**: `ModulesIntact` | modules anywhere in memory |
| `null_frame` | MCTaskMemory, NullFrame | **violated**: `NullFrameReserved` | as `task_memory` |
| `led_hang` | MCPs2, LedHang | **violated**: `PollingEnds` | one stroke of a lock key, one movement |

Why the bounds are enough to be interesting. In `schedule` three slots let a task exit, be
collected and be replaced under its pid while another waits and the main task
is in the middle of its lookup. (`NoBypass` and `ImplementsRoundRobin` also hold
with `MAX_TASKS = 5`, where two tasks wait while a third is replaced; with the
liveness properties this takes more than a quarter of an hour and is no run.) The counters wrap several times within each run. In `timer`
the last second before a wrap has one tick, the hours wrap, the counter wraps during waits and between them and a wait can be both shorter
and longer than the gap between two looks. In `frames` the copies of `pmm_init`
fill memory to the last frame but one, and run time allocations exhaust it. In
`task_memory` the structures and stacks of the tasks need a second kernel page
table, which is made while another directory is loaded than the one that later
relies on it; ELF segments lie in one table or two; all three kinds of task are
created, run, exit and are destroyed in every order until frames run out. Once
a task was destroyed frame 0 is free (see `null_frame`), every later allocation
of a single frame fails and creation ends in a panic, so that no run goes on
creating after a destruction: that is the code, not the bound.
In `ps2` strokes and movements come at any point of the set-up, so that bytes
are typed ahead, block answers until a timeout, are flushed, or arrive around
`init_done`; three strokes hold two keys down at once and interleave the bytes of
different scancodes with those of the mouse.
In `algorithms` 6-bit numbers have up to six binary digits, so that every width
from 0 to 9 is too small for some and leaves room for others, and the least
negative number is among them; movements of the mouse go beyond the pad on every
side and beyond the limit for a packet.
In `vm86` routines call each other by INT and by near CALL, move between all
three segments, and come back by IRET, RET and by pushing an address.
In `interrupts` ticks fall between any two steps of the sections of task creation
and destruction, with and without a switch; a tick is acknowledged on the stack
of one task and returns to another, one that has run before or has just been
created; lines 1 and 12 interrupt each other's printers, the shown time and the
system calls of a task; 0 precedes and 6 follows the slave's line.
In `lists` four nodes let the middle one of three be removed, then leaked while
the list goes on, and let nodes that one list freed be handed out to the other;
two data let a list hold the same one twice.

Deadlock checking is off where the system stops by design: a machine that is
halted or has panicked takes no step, the algorithms of `algorithms` and the
program of `vm86` end, and users may stop typing. In `interrupts` something may
always happen; the check is off because no deadlock could be the kernel's: its
operations have no condition to wait for. In `lists` it is off because a push is
disabled when no node is free.

Fairness (`schedule`): weak fairness of `Tick`, as the timer
interrupt recurs while interrupts are on; weak fairness of the boot thread's
two steps; strong fairness of the main task's steps, as a task that is given
the processor again and again executes its instructions between two ticks,
although each single step is disabled whenever another task has the processor.
Nothing is assumed of other tasks: they may run for ever, nothing may be
created, ESC may never be pressed. `WakeUp` is fair because `pit_sleep` returns
(module Pit says when it may be late). `EveryTaskRuns` and
`StoppedTasksFinalized` except a machine that was halted.
In `ps2`: weak fairness of the controller with the devices, of the task and of
the handlers. Devices send what they have once the output buffer is free,
interrupts are handled, the task is scheduled (`EveryTaskRuns`), and so a timeout that
is looked at in time ends (`NoticedInTime`). Nothing is
assumed of the user but by `InitEnds`: its antecedent is that no byte of the keyboard
has the output buffer while the mouse has still to acknowledge its reset. In that
case the set-up may hang (`ResetEnds`, below); any other answer may be kept out until its
timeout, the rest of the mouse's reset included. `NothingStuck` is about the time from
`init_done` on; before, a byte that nobody reads is the matter of `InitEnds`.

In all other modules nothing is promised to happen, so nothing is fair.

Every property of a passing run has a mutant in its module (`...Mutant`): an
operator that changes one definition as a plausible bug would and that makes
TLC report the property violated.

### What the violated runs show

* `module_overwritten`: the frames that hold the boot modules are not marked
  before the first `pmm_alloc`. Modules below 4 MiB are safe (`frames`), modules
  behind the kernel are overwritten while they are copied.
* `null_frame`: `vmm_destroy_page_directory` frees page table 0 without looking
  whether there is one (`mem/vmm.c:98`). Only VM86 tasks have one; for all
  others the entry is 0 and frame 0 is marked as unused, against
  `mem/pmm.c:95`. First fit then finds frame 0 for every single frame wanted,
  and 0 means failure to the callers.
* `led_hang`: a lock key makes the keyboard interrupt set the LEDs, by
  polling with interrupts off (`hardware/io/keyboard.c:262`). The timeout never
  comes, since `pit_timed_out` compares with a counter that stands still. If a
  byte of the mouse gets into the output buffer first, the keyboard's
  acknowledgement cannot follow, and the kernel hangs.

### Further properties and configurations that fail

These are not among the runs. Five are stated as properties:

* `MissedMomentNoticed` of module Pit, with MCPit.cfg: `pit_sleep` and the timeouts
  take a moment that has passed for one behind the wrap (`hardware/pit.c:103`),
  so a thread that looks late for the first time waits for 2^32 ticks, against
  the comment (`hardware/pit.c:84-86`). `ResetEnds` is where it happens.
* `ResetEnds` of module Ps2, with MCPs2.cfg: `ps2_reset_device` looks at its timeout
  only after the `ps2_read` within its loop (`hardware/io/ps2.c:179`). Normally the device acknowledges the
  reset, and the first look is in time. If a key is typed just after the mouse was told
  to reset, the key's byte has the output buffer, is not the one the task waits for and
  is left alone by the interrupt, since `init_done` is not set. `ps2_read` times out,
  and so has the other timeout, which is as long and a little older. At the very tick it
  ends with the next look; a tick later it is missed (`hardware/pit.c:103`) and the loop
  goes on until `ticks` overflows, 994 days at 50 Hz, while every `ps2_read` in
  it times out. The comment (`hardware/pit.c:84-86`) has it that the comparison with < and >
  is robust when a moment is missed "when doing "heavier" tasks like I/O polling".
* `TimeInPlace` of module Interrupts, with MCInterrupts.cfg: `pit_dump_time` moves
  the cursor that all share (`boot/main.c:68`), with interrupts on. What is
  printed by another task or a handler before the cursor is moved back lands next
  to the time, and the time where the other one left the cursor. Handlers
  themselves are safe from this (`HandlersPrintWhole`). In the same way a user's
  colour, set with `sys_io_attr`, is lost when a handler prints: `%a` resets it.
* `MainTaskIsCalled` of module Schedule, under `FairSpec` with the constants of
  MCSchedule.cfg: `main` waits for the scheduler with a single `hlt`
  (`boot/main.c:54`, "stop execution until the scheduler calls main2"). Any other
  interrupt ends it; `main` returns to `start`, which falls through into `halt`,
  and the machine stands still before `main2` has run.
* `SliceRespected` of module ScheduleHistory, under `HSpec` with `MAX_TASKS = 4`,
  `TickModulus = 4`: `schedule` decrements `ticks` of the current task on every
  tick but refills it only on a switch (`tasks/schedule.c:32`). A task that is
  alone for two ticks takes its counter from 1 to 0 and from 0 to 2^32 - 1, and
  then keeps the processor for that many ticks although others are ready. In the
  shipped system this needs `main2` to spend two ticks (40 ms at 50 Hz) in its
  logging and in the creation of the PS/2 task.

The others are changes of one constant. (`MCTaskMemory` assumes `Proper`, section 4;
the files `"foreign"`, `"unaligned"` and `"garbage"` are what it rules out, so that the
assumption has to go when one of them is tried.)

* MCPs2 with `EarlyKeys = TRUE` and one stroke, `ConfigKept`: `ps2_init_controller`
  disables the ports ("start by disabling devices, preventing interference",
  `hardware/io/ps2.c:187-188`), but the keyboard behind port 1 still scans. It
  enables the ports again before its last `ps2_read_config`
  (`hardware/io/ps2.c:212-218`), which takes a byte from any port: the scancode of a
  key that was pressed meanwhile becomes the configuration.
* MCTaskMemory with `Elfs = {"foreign"}`, `FaultsOnlyWhenShort`: a file that
  `elf_check` refuses becomes a task all the same (`tasks/elf.c:156`), whose first
  instruction, at address 0, is a page fault and so the end of the system.
* Vm86 without `SegmentsAssumption`, `ImplementsCpu8086`: `vm86_get_farptr` answers
  with a segment that is a multiple of 64 KiB (`tasks/vm86.c:106`). Code that runs at
  C800:0150 goes on at C000:8151 after its first STI: the same byte, but near
  jumps, returns and everything addressed through CS are now in another segment.
  The comment (`tasks/vm86.c:97-99`) has it that this choice is the easier one.
* MCTaskMemory with `Elfs = {"table"}`, `NothingLeaks`: `vmm_unmap` frees a page
  table if its only present entry is the last one, and keeps an empty one
  (`mem/vmm.c:300`, off by one). An ELF file that with its stack fills a table
  loses the frame of the last page when it is unloaded. `TablesKept` says that nothing
  of the kind happens with the files of the run. The slip also hides
  another: a page table of the kernel domain that is freed leaves entries behind
  in the other directories, which the mutant of `NothingShared` shows: it is
  `vmm_unmap` with the intended test.
* MCTaskMemory with `Elfs = {"unaligned"}`, `NothingShared`:
  `vmm_use_virtual_memory` allocates for a length, but maps the pages it touches
  (`mem/vmm.c:498`).
* MCTaskMemory with `Leftover = {"garbage"}`, `FaultsOnlyWhenShort`:
  `schedule_finalize_tasks` takes the unassigned `elf` of a VM86 task for a file
  (`tasks/vm86.c:168`).
* MCTaskMemory with `MemoryEnd = 100`, `NothingShared`: `vmm_map` makes a page table
  in frame 0 when `pmm_alloc` found none (`mem/vmm.c:262`).
* MCPs2 with `Prompt = FALSE`, `ConfigKept`: the reset of the mouse is over with
  0xAA, its ID follows. If it comes after `ps2_flush` has found the buffer empty
  (`hardware/io/ps2.c:224`, "clear output buffer (most likely mouse ID)"), it is
  read where another answer is awaited; that answer stays in the buffer, all of
  the keyboard's commands time out behind it, and `ps2_read_config` reads 0xFA,
  which `keyboard_scancode_set` writes back: keyboard interrupt off, both clocks
  off.
* MCPs2 with `KeyTable <- MCPrintScreen`, `KeysRecognised`: `IS_PR_BR_MK` never
  holds, because the byte 0xF0 is overwritten by the one that follows it
  (`hardware/io/keyboard.c:296`). Print screen stays pressed, and the rest of its
  break code is taken for the beginning of a make code that swallows the bytes
  of the next key.
* MCPs2 with `Movements = {250}`, `PacketsAligned`: the interrupt handler takes
  every byte 0xFA for an acknowledgement, also within a packet of the mouse
  (`hardware/io/ps2.c:244`).
* MCPs2 with a lock key in `KeysWithMouse`, `RightDriver`: while the handler polls
  for the LEDs, bytes are read whose interrupt is still requested; the handler
  that follows reads the buffer once more and finds what is there, an old byte or
  one of the other device.

Some smaller deviations came up while modelling, which no property states:
`%5d` of a negative number prints the sign before the blanks, and the sign is not
counted in what `vprint` returns (`src/src/lib/io.c:65-70`); `list_remove` takes a
node out of its list but does not free it (`lib/list.c:104-118`), which is why
LinkedList leaks nodes there; `list_front`, `list_back` and the pops print that a
list is empty and then follow the null pointer; `vm86_pop` of FLAGS and the
monitor's CLI and STI leave the real flags alone.

## 4. Proofs

All are for every value of the constants that satisfies the named assumptions
of the modules (`MaxTasksAssumption`, `ScheduleAssumption`, `PitAssumption`,
`FramesAssumption`, `LengthsAssumption`, `PmmAssumption`, `MemoryMapAssumption`,
`PagingAssumption`, `TaskMemoryAssumption`,
`ScreenAssumption`, `InterruptsAssumption`, `SegmentsAssumption`, `MemoryAssumption`,
`ProgramAssumption`, `MouseAssumption`, `AddressAssumption`, `KeyTableAssumption`,
`Ps2Assumption`), which TLC evaluates in the runs.

* **Tasks_proofs**, of the scheduler: first what the lookups return. The first task behind `c`
  exists, belongs to the set, and is not `c` if there is another
  (`FirstAfterIsFirst`, `FirstAfterMoves`); it stays first when others leave
  (`FirstAfterOfSubset`). They rest on the existence of a least distance
  (`LeastMember`, from the library's well-foundedness of `<`). Then `TypeOK` and
  the four safety properties. None is inductive alone. `IInv` adds that the main
  task, once created, can always run (`MainNeverLeaves`): this is what makes the
  lookup of `syscall_exit` return another task although the caller is not stopped
  yet; and that the finalizer's pid is a slot of the table. One lemma per action; those of the
  main task that only move its position share `MainStepIInv`. Then, for the
  history of ScheduleHistory, `NoBypass` and the refinement of RoundRobin. The
  invariant `NotYetAround` says that those served since `p` had the processor lie,
  seen from `p`, not behind the current task; a switch only moves the current task
  further away from `p` (`GoingAround`). In the refinement `Tick` maps to `Pass`
  or a stutter, creation to `Join`, exit to `Leave`.
* **Tasks_proofs**, of the monitor: `Vm86TypeOK` and the refinement of Cpu8086, for every program,
  interrupt vector table and stack that satisfy the assumptions. The processor's
  side never looks at the monitor's choice of far pointers, so everything rests on
  one fact: a far pointer in *normal form*, its segment a multiple of 64 KiB, comes
  back unchanged from `vm86_get_farptr(vm86_get_address(...))` as long as the offset
  stays inside of the segment (`FarptrOfAddress`, `FarptrMoved`). For the code that is `SegmentsAssumption`; for the stack it is the invariant
  `StackNormal`, which the inductive invariant adds to `Vm86TypeOK`. Then each emulated
  instruction has a lemma that its three or fewer pushes or pops are the
  processor's.
* **Algorithms_proofs**: `LookupsAgree`, from the loops of `task.c`: a probe
  that goes up by one stops at the first slot it looks for (`ProbeStops`), and each
  visit of `task_get_next_task_with_state` comes strictly closer to where it began,
  so that `MAX_TASKS` visits suffice (`VisitsApproach`, `VisitsEnd`). So the loops
  return what the definitions say (`AddLoopFinds`, `NextTaskLoopFinds`,
  `NextTaskWithStateLoopFinds`); the lemmas up to `FirstAfterIsFirst` are stated here,
  too, since Schedule and MCAlgorithms have no module in common but TaskTable.
  `PointerFollowsMouse`, with the invariant that the point lies on the pad: a
  packet's nine bits are the distance the mouse moved (`DeltaIsCount`), the sum
  after both limits is the nearest point of the pad (`SumIsNearest`), and scaling it
  stays on the screen (`MapRange`); `ReturnsFirstFit`, with the loop invariant
  `Searching`: the run before `i` is unused and maximal, and no fit ends before `i`.
* **Pmm_proofs**: `TypeOK`, `HandedOutOnce`, `HighestKernelPageBounds` and
  `OnlyMemoryIsFree`, for any memory map and modules that satisfy the assumptions.
  `HandedOutOnce` rests on what a successful search returns, frames that are unused
  and adjacent (`FoundFrames`), and on the conversion between the length that was
  asked for and the frames it takes (`FramesOfRange`): an allocation and its free
  touch the same ones. `FreesOnlyMemory` follows the loop over the map: the last
  entry that touches a frame decides on it (`FreeMemoryFree`), and whatever is freed
  later was free before or lies between 1 MiB and 4 MiB. `ModulesIntact` is false
  in general (`module_overwritten`). `LowModulesStayIntact` says what it takes, two
  things on which `pmm_init` relies unchecked: the files were loaded below 4 MiB
  (`LoadedLow`, of the initial state), and memory is found for each copy
  (`CopiesFit`; otherwise the copy goes to address 0). With the constants of `frames`
  both always hold. A file is not overwritten since it lies where no frame is free:
  below 4 MiB until it is copied (`Low`), in frames of the kernel afterwards (`Held`).
* **Memory_proofs**: what the operators of Paging do, as Hoare triples about two things
  that the state determines but does not contain: the label `use[f]` of each frame,
  which says what it is used for, and the mapping `mp[h][p]`, which says for each page
  of a *home* (a directory, or the kernel's domain, which all directories share) what
  frame it stands for. `Con(m, use, mp)` says that the bitmap, the directories and the
  tables of `m` are as these two have it. The labels hold what no local condition could:
  that a frame is a table in one place only, so that a write to one table changes what
  one home maps and nothing else. The loops are shown round by round with `Induction`: a
  set of numbers that contains 0, and with each number the next, contains all. (The
  library's induction theorems are out of reach, but this needs no operator as a
  parameter. So the loops of Paging are recursive functions on Nat and not folds.) A
  directory is written while it is mapped into another one, and the mapping is taken
  away afterwards: that leaves no trace, unless the page used was the last of its table
  (`Weak`: first fit never takes the last page of a kernel table while it would be the
  only one left). `Layout` adds which blocks have been allocated: they lie in the domain
  of their home, apart from each other, are mapped to frames in a row with their label,
  and nothing else is mapped.
* **TaskMemory_proofs**: `FaultsOnlyWhenShort` and, until an allocation fails,
  `NothingShared`, `NothingLeaks` and `KernelTablesAgree`; the refinement of
  AddressSpaces while none fails; `TypeOK` without any condition. None of the four is inductive: they do not say what the tables hold. The
  inductive invariant `Inv` says that memory ran short or that it is as the tasks need
  it (`Safe`): there are labels and a mapping with the directories, the low memory and
  the blocks of just the tasks that exist (`Settles`), the kernel's image and the video
  memory are where they were, and the directory of the current task is loaded (`Loads`).
  A lemma per step: creation adds one directory and the blocks of one task
  (`AddSettles`), destruction takes exactly these away (`SettlesRemove`), a switch
  changes only the directory that is loaded. The four properties are read from the
  labels: two uses of a frame would be two labels (`SafeShared`), a used frame has a
  label, and for each label there is a use (`SafeLeaks`).

  The refinement (`SpacesRefined`) needs more than an invariant: that a frame behind a
  page of a task is the *same* before and after a step, while labels and mapping are
  behind a quantifier in each state. So the invariant is stated for a record `V` that
  does not change: the frames of the kernel's own pages (`own`) and, for any set of blocks
  one likes to follow, their first frames (`pins`). Each operation keeps them, the ones
  that free a block if that block is not among them. For a step, `V` is taken to pin the
  blocks of all tasks that the step does not destroy (`Staying`); since both states agree
  with this `V` (`StepPlaced`), the memory of these tasks is the same in both
  (`SpaceKept`). That a new task gets what nobody has is read from the labels once
  more (`SpaceParted`).

  After an allocation has failed nothing is claimed but `TypeOK` and that a fault is now
  possible: the code goes on with address 0 (section 3, `MemoryEnd = 100`), and the
  properties are false then. Two hypotheses remain. `Proper` is of the constants, and is
  what the kernel expects of files without checking it: segments lie in the user domain,
  begin with a page, do not overlap, and what `vm86_create_task` leaves unassigned is no
  stray pointer. TLC evaluates it (`MCTaskMemory`); section 3 shows what happens without
  it. `TablesKept` is of the states: `vmm_unmap`, which frees a table when the last page
  is the only one left, meets no such table. That depends on how many tasks there are
  and how large they are: a table of the kernel has 1024 pages, of which each task takes
  a few, so the system as shipped, with about a dozen tasks, never fills the first one.
  With enough tasks (`MAX_TASKS` is 1024) it would, and a table could be freed that
  holds the last page of another task. It is an invariant of the run `task_memory`.
* **Interrupts_proofs**, of the timer: `PitTypeOK`, `NeverEarly`, `NoticedInTime`, and the refinement of
  WallClock, from how a remainder counts (`RemainderCounts`) and how a digit is
  carried (`LastDigit`, once for minutes in hours and once for seconds in minutes). `Countdown` relates
  the remaining time to the counter modulo its range; `OnTime` says why a long
  wait that ends clear of the wrap is never due in its first phase.
* **Interrupts_proofs**, of the way into the kernel: `TypeOK` and the four invariants of
  the run. The inductive one says for each
  piece of code that is running or cut off where it may be: the operations it has
  still to do are a *rest* of the code it began with (`Left`), and which code that
  can be is told by its kind. `PhaseNow` tells the state of the processor: a thread
  with interrupts on (`Running`), one within a section (`InSection`), or a handler
  (`Handling`), which is asking the kernel for something, switching, printing or
  at its end (`Asking`, `Switching`, `Printing`, `Ending`). `Frames`, `Saved` and
  `Suspended` tell what lies on the kernel stacks: each frame belongs to a task
  that can go on from it, with interrupts on, and the answer of its system call in
  EAX. A lemma per action. `NoLineBlocked` follows since what is in service is
  exactly what the running handler has not acknowledged yet.
* **LinkedList_proofs**: `WellLinked` and the refinement of DataLists. The
  invariant names for each list the sequence of its nodes (`Shape`); it is a
  sequence of nodes that exist, threaded both ways, and no node is in two of them.
  Walks find that sequence (`WalksFind`, by a least visit at which they would not).
  Each function is shown to leave a memory of that shape: the sequence of its list
  changed as the function says, all others as they were (`Rethread`). Both pops and
  `list_remove` are one lemma, `Bypass`: what they have in common is that two
  neighbours are linked with each other, whether the node between is freed or leaked.
* **Ps2_proofs**: `Port2Detected` and `ConfigKept`, for every hardware, key table and
  number of strokes. First where the 53 operations of `Program` are and where the task
  goes from each (`Positions`, `AfterIs`). Neither property is inductive. Both rest on a
  byte that the task reads being the answer to its latest command, which it cannot see;
  so the invariants say for each operation what is on its way. `SetUpInv` does so until
  `ps2_init_controller` is over (`EarlyTraffic`), with the configuration that has
  been written by then (`EarlyConfig`), what is known of port 2 (`Detected`) and which
  devices are disabled (`Disabled`). `KeyboardInv` adds the same for the time the
  keyboard is set up (`KeyboardTraffic`) and that the configuration is the last one
  (`LateConfig`): `keyboard_scancode_set` reads it again and writes it back. Two
  constants are hypotheses because the properties are false otherwise (section 3): that
  nobody types during `ps2_init_controller` (`~ EarlyKeys`, both), and that devices are
  `Prompt` (`ConfigKept`). The run has the same values.

  What the drivers are given comes after that: `RightDriver`, `PacketsAligned` and
  `TypeOK`. `Delivery` is the invariant. From the end of the keyboard's set-up on,
  devices answer nothing but acknowledgements (`LateTraffic`), and each interrupt that
  is requested finds its byte in the output buffer (`Requested`). A handler that polls
  for the LEDs is the exception: it takes that byte away, and the handler after it reads
  an old one. That is harmless if the old byte is an acknowledgement, which is ignored,
  and so it is if all bytes are the keyboard's; with a mouse the buffer may hold a byte
  of the mouse by then. Hence the hypothesis `[]NoLedsWithMouse`, that no handler polls
  while there is a mouse: without it `RightDriver` is false (section 3). It is not
  about the constants since which byte sequences set an LED depends on the key table
  and on what was lost. `PacketInv` adds that the driver, the output buffer and the
  mouse together hold whole packets; it needs that no byte of a packet looks like an
  acknowledgement (`DEVICE_ACK \notin Movements`), for the same reason. `Typed` is the
  types of all variables with `DriverInv`: what is in `scancode_buf` in each state of
  the keyboard driver. Therefore it never holds `SCANCODE_LEN` bytes when the next one
  is saved, even if bytes were lost; that the driver was given no 0, which only an
  answer can be, is `Delivery` once more.

Only model-checked: liveness (fairness is out of the prover's reach); `NumbersReadBack`
(the digits are a recursive function of the number, and what is to be shown of them is
about sequences that grow with it); `TablesKept`, which is a question of sizes;
of Ps2, `KeysRecognised`, which depends on the keys of the table: it is false
for print screen (section 3), and for which tables it holds is a question of how their
codes overlap.

## 5. Assumptions and omissions

* `Pmm`: the boot loader's memory map is in ascending order and a border inside
  of a frame is followed by the entry of what lies behind it, as BIOS maps are;
  there is memory from 1 MiB to 4 MiB (`MemoryMapAssumption`). The kernel is linked
  behind the first page table, and memory goes on behind the last byte of a module
  (`PmmAssumption`). Callers free what they allocated, with
  the same length, and neither twice. Copies made by `pmm_init` are never freed.
* `Pit`: durations do not overflow `MS_TO_TICKS`. A timeout that was created is
  also looked at.
* `Paging`, `TaskMemory`: the translation buffer is flushed where it has to be
  (the code does so with `mmu_flush_tlb` and by loading CR3); nothing is written
  to a page that is mapped read-only. In the
  runs `elf_check` accepts all files. One VM86 task at a time, as its code has a
  fixed address. A task's structure and stack, and not each access to them, are taken
  to be read at a switch.
* `Schedule`: the handler of an exception or of another interrupt does not
  touch the scheduler's state. The main task never exits (it halts).
* `Ps2`: a device answers its latest command before it sends input, and drops
  what is left to answer when it gets another command; it answers within the
  timeout unless the output buffer is taken. An interrupt is handled before the
  task polls the same byte. The timeout of `ps2_read` ends when it is due, as it is looked
  at without a pause; that of `ps2_reset_device` is modelled (`ResetTimeouts`), but its end
  after an overflow of `ticks`, which a behaviour of the model does not live to see, is not:
  "missed" is for ever. In the runs devices are `Prompt`: when `ps2_flush` finds
  the buffer empty no answer is still to come; and nobody types while the
  controller is set up. The layout of the keyboard and the modifiers other than
  shift are left out: they are tables and the same code once more.
* `Vm86`: FLAGS are one value: the monitor pushes the task's flags and ignores
  those that are popped. Offsets do not wrap within an instruction and routines run
  in segments that are multiples of 64 KiB. There is one VM86 task
  (`tasks/vm86.c` has one address for the code). Instructions that need the
  monitor but are unknown to it, and faults outside of a VM86 task, are a panic.
* `Interrupts`: any line may have a request at any time, and which task is next on
  a tick is open; so nothing is said of liveness. Exceptions are left out: all but
  those of module Vm86 end in a panic. The early returns of
  `vmm_modify_page_directory` and its counterpart are never taken by the code of the
  kernel, which does not nest modifications. Register EAX stands for all of a
  task's registers. The screen's contents are left out. A line feed on the last line
  takes the cursor behind the screen; a second one, which would take it further,
  is not issued.
* `Format`: a width has one digit in the run, as in all formats of the kernel; the
  radix is one of the five that have a letter.
* `Mouse`: the packet's button bits are one.
* `LinkedList`: one caller, since nobody uses lists yet and none of the functions
  turns interrupts off. It asks no empty list for an element; `vmm_alloc` finds a
  page.

Not modelled: the descriptor tables, the TSS and the programming of the PICs and
the timer's channels are written once, before interrupts are on, from constants;
what matters of them, gates that turn interrupts off and vectors that begin at
32, is in Interrupts. CPUID is read and printed. The speaker is programmed with a
frequency and turned off after a sleep. The user library wraps the system calls
(`src/src/lib/syscall.c`, in Interrupts) and has string functions, of which
`memcpy` matters to Pmm. The log prints.

## 6. Plan

1. *(done)* Task list, scheduler, timer, physical memory; page directories and
   the memory of tasks with the abstract specification AddressSpaces.
2. *(done)* The PS/2 driver with keyboard and mouse.
3. *(done)* The virtual 8086 monitor against Cpu8086; interrupts, system calls and
   sections of the kernel, with the shared cursor; lists against sequences; the
   printing of numbers and the mouse pointer; the clock over the wrap of `ticks`.
4. *(done)* Proofs of the safety properties of all modules; of the refinements of
   RoundRobin, WallClock, Cpu8086, DataLists and AddressSpaces.
5. Proofs left: bounds on the tasks' sizes under which `TablesKept`
   holds; a condition on the key table under which `KeysRecognised` holds.
