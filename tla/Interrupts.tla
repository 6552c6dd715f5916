------------------------------ MODULE Interrupts ------------------------------
(***************************************************************************)
(* The processor's way through interrupts: what isr_asm.S, isr.c and pic.c *)
(* do around every handler, with the system calls, the switch of tasks and *)
(* the sections of the kernel that run with interrupts off.  What schedule *)
(* and the drivers decide is the subject of other modules: here a tick may *)
(* or may not switch, to any task that can run.                            *)
(*                                                                         *)
(* The processor executes one piece of code at a time, the remaining       *)
(* operations of which are in context.  When interrupts are on it may be   *)
(* cut off between any two of them.  Its frames lie on the kernel stacks.  *)
(***************************************************************************)
EXTENDS Screen

CONSTANTS
  MAIN, PS2,   \* the tasks of main2 and of ps2
  Users,       \* the ELF tasks that main2 may create, one after the other
  Irqs         \* the lines that devices use

Tasks == {MAIN, PS2} \union Users
NONE == 0

ISR_IRQ(n) == 32 + n
ISR_SYSCALL == 48
IS_IRQ(intr) == intr \in ISR_IRQ(0) .. ISR_IRQ(15)
Vectors == {NONE, ISR_SYSCALL} \union (ISR_IRQ(0) .. ISR_IRQ(15))

ASSUME InterruptsAssumption ==
  /\ Irqs \subseteq (0 .. 15) \ {2} /\ 0 \in Irqs
  /\ MAIN # PS2 /\ {MAIN, PS2} \intersect Users = {}
  /\ NONE \notin Tasks

VARIABLES
  interrupts,       \* EFLAGS.IF
  eax,              \* of a task's own code; the kernel's is not tracked
  context,          \* what runs: the task on whose kernel stack, the interrupt it
                    \* handles (NONE in a task's own code), the operations it has left,
                    \* and its local variables old_interrupts and old_cursor
  stack,            \* the frames on each kernel stack, the top of it first
  handlers,         \* handlers[]: the vectors with a registered handler
  tasks,            \* state of each task
  current_task,
  loaded,           \* the page directory in CR3, by the task it belongs to
  old_directory,    \* the one vmm_modified_page_directory will load, or NONE
  old_interrupts,   \* the flag it will restore
  master, slave,    \* the lines in service at either PIC
  expected          \* history: what each task has to find in EAX

processor == <<interrupts, eax, context, stack>>
kernel == <<handlers, tasks, current_task, expected>>
memory == <<loaded, old_directory, old_interrupts>>
pic == <<master, slave>>
screen == <<attr, cursor>>
vars == <<processor, kernel, memory, pic, screen>>

Code(owner, intr, ops) ==
  [owner |-> owner, intr |-> intr, ops |-> ops, old_interrupts |-> <<>>, old_cursor |-> 0]

Frame(intr, flag, register, code) ==
  [intr |-> intr, interrupts |-> flag, eax |-> register, code |-> code]

\* main2 has just been switched to: isr_init is done, the timer has its handler.
Init ==
  /\ interrupts = 1 /\ eax = 0
  /\ context = Code(MAIN, NONE, <<>>)
  /\ stack = [t \in Tasks |-> <<>>]
  /\ handlers = {ISR_IRQ(0), ISR_SYSCALL}
  /\ tasks = [t \in Tasks |-> IF t = MAIN THEN "running" ELSE "none"]
  /\ current_task = MAIN
  /\ loaded = MAIN /\ old_directory = NONE /\ old_interrupts = 0
  /\ master = {} /\ slave = {}
  /\ attr = IO_DEFAULT /\ cursor = 0
  /\ expected = [t \in Tasks |-> 0]

-----------------------------------------------------------------------------
(* The code: sequences of operations.                                      *)

Do(name) == [op |-> name]
Of(name, task) == [op |-> name, task |-> task]

\* vmm_modify_page_directory up to vmm_modified_page_directory.
Modification(task) == <<Of("vmm_modify", task), Do("vmm_modified")>>

task_create(task) ==
  <<Do("cli")>> \o Modification(task) \o <<Of("task_add", task), Do("restore")>>
elf_create_task(task) ==
  <<Do("cli")>> \o Modification(task) \o task_create(task) \o <<Do("restore")>>

task_destroy(task) ==
  <<Do("cli")>> \o Modification(task) \o <<Of("task_remove", task), Do("restore")>>
elf_destroy_task(task) ==
  <<Do("cli")>> \o Modification(task) \o task_destroy(task) \o <<Do("restore")>>

\* The time, at the end of the last line, one character wide.
ClockPlace == IO_COORD(IO_COLS - 1, IO_ROWS - 1)
pit_dump_time ==
  <<Cursor(ClockPlace), Char("letter", IO_DEFAULT, -1), CursorBack>>

\* What main2 does next.
MainOps ==
  {pit_dump_time}
  \union {task_create(t) : t \in {p \in {PS2} : tasks[p] = "none"}}
  \union {elf_create_task(t) : t \in {u \in Users : tasks[u] = "none"}}
  \union {task_destroy(t) : t \in {p \in {PS2} : tasks[p] = "stopped"}}
  \union {elf_destroy_task(t) : t \in {u \in Users : tasks[u] = "stopped"}}

\* ps2 registers the handlers of its lines and prints that all is well, then exits.
ps2_init == <<[op |-> "isr_register_handler", intr |-> ISR_IRQ(1)],
              [op |-> "isr_register_handler", intr |-> ISR_IRQ(12)]>> \o PrintIn(2, -1)

handle_keyboard_event == PrintIn(9, -1)
handle_mouse_event(place, colour) ==
  <<Cursor(place)>> \o PrintIn(colour, place) \o <<CursorBack>>

\* The handlers of the interrupts, up to where they return to isr_handle_interrupt.
\* Not every byte from a device is the end of an event with a handler.
HandlerOps(intr) ==
  CASE intr \notin handlers -> {PrintIn(2, -1)}
    [] intr = ISR_IRQ(0) -> {<<Do("schedule")>>}
    [] intr = ISR_IRQ(1) -> {<<>>, handle_keyboard_event}
    [] intr = ISR_IRQ(12) ->
         {<<>>} \union {handle_mouse_event(p, c) : p \in Places, c \in {6, 9}}

\* What a task asks of the kernel: ps2 only exits; an ELF task prints a line feed only
\* while the cursor is on the screen.
Exits == {[op |-> "exit", id |-> 0]}
SystemCalls ==
  {[op |-> "getpid", id |-> 1]}
  \union {[op |-> "sys_io_putchar", id |-> 2, c |-> c] :
            c \in {"letter"} \union (IF cursor < IO_CHARS THEN {"line_feed"} ELSE {})}
  \union {[op |-> "sys_io_attr", id |-> 3, colour |-> c] : c \in {3, IO_DEFAULT}}

-----------------------------------------------------------------------------
(* Operations of the code that runs.                                       *)

At(name) == context.ops # <<>> /\ Head(context.ops).op = name
This == Head(context.ops)
Rest == Tail(context.ops)
GoOn == context' = [context EXCEPT !.ops = Rest]

\* cli, sti and what is there already.
isr_enable_interrupts(enable) == interrupts' = enable

\* old_interrupts = isr_enable_interrupts(0), and its counterpart.
DisableInterrupts ==
  /\ At("cli")
  /\ isr_enable_interrupts(0)
  /\ context' = [context EXCEPT !.ops = Rest,
                                !.old_interrupts = <<interrupts>> \o context.old_interrupts]
  /\ UNCHANGED <<eax, stack, kernel, memory, pic, screen>>

RestoreInterrupts ==
  /\ At("restore")
  /\ isr_enable_interrupts(Head(context.old_interrupts))
  /\ context' = [context EXCEPT !.ops = Rest, !.old_interrupts = Tail(context.old_interrupts)]
  /\ UNCHANGED <<eax, stack, kernel, memory, pic, screen>>

\* Does nothing when a directory is being modified already.
vmm_modify_page_directory ==
  /\ At("vmm_modify")
  /\ IF old_directory # NONE
     THEN UNCHANGED <<interrupts, memory>>
     ELSE /\ old_interrupts' = interrupts
          /\ isr_enable_interrupts(0)
          /\ old_directory' = loaded
          /\ loaded' = This.task
  /\ GoOn
  /\ UNCHANGED <<eax, stack, kernel, pic, screen>>

\* A plausible slip: interrupts are turned on, whether they were on or not.
AlwaysEnableMutant ==
  /\ At("vmm_modified")
  /\ loaded' = old_directory /\ old_directory' = NONE
  /\ isr_enable_interrupts(1)
  /\ GoOn
  /\ UNCHANGED <<eax, stack, kernel, old_interrupts, pic, screen>>

vmm_modified_page_directory ==
  /\ At("vmm_modified")
  /\ IF old_directory = NONE
     THEN UNCHANGED <<interrupts, memory>>
     ELSE /\ loaded' = old_directory
          /\ old_directory' = NONE
          /\ isr_enable_interrupts(old_interrupts)
          /\ UNCHANGED old_interrupts
  /\ GoOn
  /\ UNCHANGED <<eax, stack, kernel, pic, screen>>

\* The frame of a new task lies at the top of its kernel stack; intr is whatever the
\* memory held.
TaskAdd ==
  /\ At("task_add")
  /\ tasks' = [tasks EXCEPT ![This.task] = "running"]
  /\ \E garbage \in {NONE, ISR_IRQ(12)} :
       stack' = [stack EXCEPT ![This.task] =
         << Frame(garbage, 1, 0,
                  Code(This.task, NONE, IF This.task = PS2 THEN ps2_init ELSE <<>>)) >>]
  /\ expected' = [expected EXCEPT ![This.task] = 0]
  /\ GoOn
  /\ UNCHANGED <<interrupts, eax, handlers, current_task, memory, pic, screen>>

TaskRemove ==
  /\ At("task_remove")
  /\ tasks' = [tasks EXCEPT ![This.task] = "none"]
  /\ stack' = [stack EXCEPT ![This.task] = <<>>]
  /\ GoOn
  /\ UNCHANGED <<interrupts, eax, handlers, current_task, memory, pic, screen, expected>>

isr_register_handler ==
  /\ At("isr_register_handler")
  /\ handlers' = handlers \union {This.intr}
  /\ GoOn
  /\ UNCHANGED <<interrupts, eax, stack, tasks, current_task, memory, pic, screen, expected>>

\* Output: by a kernel thread or by a handler.
Output ==
  /\ \/ At("io_attr") /\ io_attr(This.colour) /\ GoOn
     \/ At("io_putchar") /\ io_putchar(This.c) /\ GoOn
     \/ /\ At("io_cursor") /\ io_cursor(This.place)
        /\ context' = [context EXCEPT !.ops = Rest, !.old_cursor = cursor]
     \/ /\ At("io_cursor_back") /\ io_cursor(context.old_cursor)
        /\ context' = [context EXCEPT !.ops = Rest, !.old_cursor = 0]
  /\ UNCHANGED <<interrupts, eax, stack, kernel, memory, pic>>

\* What main2 does next.
MainStep ==
  /\ context.owner = MAIN /\ context.intr = NONE /\ context.ops = <<>>
  /\ \E ops \in MainOps : context' = [context EXCEPT !.ops = ops]
  /\ UNCHANGED <<interrupts, eax, stack, kernel, memory, pic, screen>>

-----------------------------------------------------------------------------
(* Entering and leaving the kernel.                                        *)

\* A plausible slip in idt_init: trap gates, through which interrupts stay on.
TrapGateMutant == UNCHANGED interrupts

\* idt_init gives every vector an interrupt gate, which turns interrupts off.
INTR_32 == interrupts' = 0

\* The processor, the stub of the vector and isr_common push a frame.
EnterKernel(intr, register, ops) ==
  /\ stack' = [stack EXCEPT ![context.owner] =
                 <<Frame(intr, interrupts, register, context)>> \o @]
  /\ context' = Code(context.owner, intr, ops \o <<Do("end")>>)
  /\ eax' = 0
  /\ INTR_32

\* pops everything: the frame that the handler's return value points to.
iret ==
  /\ At("iret")
  /\ LET frame == Head(stack[current_task])
     IN  /\ interrupts' = frame.interrupts
         /\ eax' = frame.eax
         /\ context' = frame.code
  /\ stack' = [stack EXCEPT ![current_task] = Tail(@)]
  /\ UNCHANGED <<kernel, memory, pic, screen>>

MasterLine(n) == IF n >= 8 THEN 2 ELSE n

\* A PIC passes a request on unless it or something that precedes it is in service.
\* Any line may have a request at any time.
Passed(n) ==
  /\ \A m \in master : MasterLine(n) < m
  /\ \A m \in slave : n < m

Interrupt(n) ==
  /\ interrupts = 1
  /\ Passed(n)
  /\ master' = master \union {MasterLine(n)}
  /\ slave' = IF n >= 8 THEN slave \union {n} ELSE slave
  /\ \E ops \in HandlerOps(ISR_IRQ(n)) : EnterKernel(ISR_IRQ(n), eax, ops)
  /\ UNCHANGED <<kernel, memory, screen>>

\* The request was withdrawn before the processor asked for its vector: the PIC gives
\* that of its last line, and nothing is in service there.
SpuriousInterrupt(n) ==
  /\ interrupts = 1
  /\ Passed(n)
  /\ master' = IF n >= 8 THEN master \union {2} ELSE master
  /\ LET intr == ISR_IRQ(IF n >= 8 THEN 15 ELSE 7)
     IN  \E ops \in HandlerOps(intr) : EnterKernel(intr, eax, ops)
  /\ UNCHANGED <<kernel, memory, slave, screen>>

\* INT 30h: a task's own code has nothing left to do but that.
SystemCall ==
  /\ context.owner # MAIN /\ context.intr = NONE /\ context.ops = <<>>
  /\ \E call \in Exits \union (IF context.owner = PS2 THEN {} ELSE SystemCalls) :
       EnterKernel(ISR_SYSCALL, call.id, <<call>>)
  /\ UNCHANGED <<kernel, memory, pic, screen>>

-----------------------------------------------------------------------------
(* What the kernel does for a task, and on a tick.                         *)

schedule_switch_task(next) == loaded' = next /\ current_task' = next

Others == {t \in Tasks : tasks[t] = "running"} \ {current_task}

Schedule ==
  /\ At("schedule")
  /\ \/ UNCHANGED <<loaded, current_task>>
     \/ \E next \in Others : schedule_switch_task(next)
  /\ GoOn
  /\ UNCHANGED <<interrupts, eax, stack, handlers, tasks, expected,
                 old_directory, old_interrupts, pic, screen>>

WithEax(frames, ret) == <<[Head(frames) EXCEPT !.eax = ret]>> \o Tail(frames)

\* A plausible slip: the result goes to whoever runs next.
NextTaskMutant(ret) ==
  stack' = [stack EXCEPT ![current_task'] = WithEax(@, ret)]

\* EAX is left alone if another frame is returned.
SetResult(ret) ==
  stack' = IF current_task' = context.owner
           THEN [stack EXCEPT ![context.owner] = WithEax(@, ret)]
           ELSE stack

\* isr_handle_syscall with syscall_exit, which returns nothing.
Exit ==
  /\ At("exit")
  /\ tasks' = [tasks EXCEPT ![current_task] = "stopped"]
  /\ \E next \in Others : schedule_switch_task(next)
  /\ SetResult(-1)
  /\ GoOn
  /\ UNCHANGED <<interrupts, eax, handlers, expected,
                 old_directory, old_interrupts, pic, screen>>

\* isr_handle_syscall with a system call that returns ret.
Answer(ret) ==
  /\ UNCHANGED <<loaded, current_task>>
  /\ SetResult(ret)
  /\ expected' = [expected EXCEPT ![context.owner] = ret]
  /\ GoOn
  /\ UNCHANGED <<interrupts, eax, handlers, tasks, old_directory, old_interrupts, pic>>

isr_handle_syscall ==
  \/ At("getpid") /\ Answer(current_task) /\ UNCHANGED screen
  \/ At("sys_io_attr") /\ Answer(attr) /\ io_attr(This.colour)
  \/ At("sys_io_putchar") /\ Answer(1) /\ io_putchar(This.c)

\* pic_send_eoi: the slave is told first.
pic_send_eoi(intr) ==
  (IF intr - ISR_IRQ(0) >= 8 THEN <<Do("eoi_slave")>> ELSE <<>>) \o <<Do("eoi_master")>>

EndOf(intr) == (IF IS_IRQ(intr) THEN pic_send_eoi(intr) ELSE <<>>) \o <<Do("iret")>>

\* A plausible slip: the vector is read from the frame that is returned.
ReturnedFrameMutant ==
  /\ At("end")
  /\ LET intr == Head(stack[current_task]).intr
     IN  context' = [context EXCEPT !.ops = EndOf(intr)]
  /\ UNCHANGED <<interrupts, eax, stack, kernel, memory, pic, screen>>

\* The end of isr_handle_interrupt.
Acknowledge ==
  /\ At("end")
  /\ context' = [context EXCEPT !.ops = EndOf(context.intr)]
  /\ UNCHANGED <<interrupts, eax, stack, kernel, memory, pic, screen>>

\* An EOI ends what precedes everything else in service.
Ended(lines) == lines \ {m \in lines : \A l \in lines : m <= l}

SendEoi ==
  /\ \/ At("eoi_slave") /\ slave' = Ended(slave) /\ UNCHANGED master
     \/ At("eoi_master") /\ master' = Ended(master) /\ UNCHANGED slave
  /\ GoOn
  /\ UNCHANGED <<interrupts, eax, stack, kernel, memory, screen>>

-----------------------------------------------------------------------------
Execute ==
  \/ DisableInterrupts \/ RestoreInterrupts
  \/ vmm_modify_page_directory \/ vmm_modified_page_directory
  \/ TaskAdd \/ TaskRemove \/ isr_register_handler \/ Output
  \/ MainStep \/ SystemCall \/ Schedule \/ Exit \/ isr_handle_syscall
  \/ Acknowledge \/ SendEoi \/ iret

Next ==
  \/ Execute
  \/ \E n \in Irqs : Interrupt(n) \/ SpuriousInterrupt(n)

Spec == Init /\ [][Next]_vars

-----------------------------------------------------------------------------
(* Properties.                                                             *)

(* A kernel stack never holds more than one frame, which is all the room   *)
(* the code counts on: a handler is not interrupted.                       *)
TypeOK ==
  /\ interrupts \in {0, 1} /\ old_interrupts \in {0, 1}
  /\ context.owner \in Tasks /\ context.intr \in Vectors
  /\ \A t \in Tasks : Len(stack[t]) <= 1
  /\ tasks \in [Tasks -> {"none", "running", "stopped"}]
  /\ current_task \in Tasks
  /\ loaded \in Tasks /\ old_directory \in Tasks \union {NONE}
  /\ master \subseteq 0 .. 7 /\ slave \subseteq 8 .. 15
  /\ cursor \in 0 .. IO_CHARS

(* No line stays blocked: whenever an interrupt may be accepted, every     *)
(* interrupt before it was acknowledged at its own PIC, although the tick  *)
(* returns another frame than the one it was called with and the vector of *)
(* a new task's frame was never set.                                       *)
NoLineBlocked == interrupts = 1 => master = {} /\ slave = {}

(* A system call's result reaches its caller and nobody else: a task finds *)
(* in EAX what it left there or what it asked for, whatever interrupts and *)
(* switches came between, "otherwise tasks might run havoc".               *)
ResultsReachCallers ==
  context.intr = NONE /\ context.owner # MAIN => eax = expected[context.owner]

(* Interrupts are on exactly when the running thread is in no section of   *)
(* the kernel: the nested sections of task creation and destruction do not *)
(* end early, none of them leaves interrupts off, and a thread that may be *)
(* preempted has its own page directory loaded.                            *)
SectionsWhole ==
  context.intr = NONE =>
    /\ interrupts = 1 <=> old_directory = NONE /\ context.old_interrupts = <<>>
    /\ interrupts = 1 => loaded = current_task /\ context.owner = current_task

(* What a handler prints is not mixed up with what anybody else prints: it *)
(* has its colour, and the mouse pointer stands where the mouse is.        *)
HandlersPrintWhole ==
  context.intr \notin {NONE, ISR_SYSCALL} /\ At("io_putchar") =>
    attr = This.colour /\ This.place \in {-1, cursor}

(* The time stands at the end of the last line, whatever else is printed.  *)
TimeInPlace == context.intr = NONE /\ At("io_putchar") => cursor = ClockPlace

=============================================================================
