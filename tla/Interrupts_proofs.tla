-------------------------- MODULE Interrupts_proofs --------------------------
(***************************************************************************)
(* Interrupts, system calls and sections of the kernel do not get into     *)
(* each other's way, for any number of ELF tasks, any lines and any size   *)
(* of the screen.  The timer, whose interrupt is one of them, is in the    *)
(* second part: waiting for a moment of a counter that wraps, for every    *)
(* width and every rate of the counter, every number of threads and every  *)
(* duration that MS_TO_TICKS can express.                                  *)
(***************************************************************************)
EXTENDS Interrupts, Pit, SequenceTheorems, TLAPS

-----------------------------------------------------------------------------
(* Types.                                                                  *)

Colours == {2, 3, 6, 9, IO_DEFAULT}
Register == Tasks \union Int
Created == Tasks \ {MAIN}

\* Operations of a thread with interrupts on: they touch the screen and the handlers.
PlainOp ==
  [op : {"isr_register_handler"}, intr : {ISR_IRQ(1), ISR_IRQ(12)}]
  \union [op : {"io_attr"}, colour : Colours]
  \union [op : {"io_putchar"}, c : {"letter"}, colour : Colours, place : {-1}]
  \union [op : {"io_cursor"}, place : {ClockPlace}]
  \union [op : {"io_cursor_back"}]

ControlOp ==
  {Do(name) : name \in {"cli", "restore", "vmm_modified", "schedule", "end",
                        "eoi_slave", "eoi_master", "iret"}}
TaskOp == [op : {"vmm_modify", "task_add", "task_remove"}, task : Tasks]

\* What handlers do besides.
PointerOp ==
  [op : {"io_putchar"}, c : {"letter"}, colour : Colours, place : Places]
  \union [op : {"io_cursor"}, place : Places]

Call ==
  [op : {"exit"}, id : {0}] \union [op : {"getpid"}, id : {1}]
  \union [op : {"sys_io_putchar"}, id : {2}, c : {"letter", "line_feed"}]
  \union [op : {"sys_io_attr"}, id : {3}, colour : {3, IO_DEFAULT}]

Op == PlainOp \union ControlOp \union TaskOp \union PointerOp \union Call

CodeType ==
  [owner : Tasks, intr : Vectors, ops : Seq(Op), old_interrupts : Seq({0, 1}),
   old_cursor : 0 .. IO_CHARS]
FrameType == [intr : Vectors, interrupts : {0, 1}, eax : Register, code : CodeType]

Types ==
  /\ interrupts \in {0, 1} /\ old_interrupts \in {0, 1}
  /\ eax \in Register
  /\ context \in CodeType
  /\ stack \in [Tasks -> Seq(FrameType)]
  /\ handlers \subseteq {ISR_IRQ(0), ISR_IRQ(1), ISR_IRQ(12), ISR_SYSCALL}
  /\ tasks \in [Tasks -> {"none", "running", "stopped"}]
  /\ current_task \in Tasks
  /\ loaded \in Tasks /\ old_directory \in Tasks \union {NONE}
  /\ master \subseteq 0 .. 7 /\ slave \subseteq 8 .. 15
  /\ attr \in Colours /\ cursor \in 0 .. IO_CHARS
  /\ expected \in [Tasks -> Register]

-----------------------------------------------------------------------------
(* The invariant: what is left to do, and what holds meanwhile.            *)

\* What is left of a piece of code when k of its operations are done.
Left(prog, k) == SubSeq(prog, k + 1, Len(prog))

\* The creation and the destruction of a task: the section of a kernel task, and the one
\* around it of an ELF task.
Work == {"task_add", "task_remove"}
Section(work, t) ==
  <<Do("cli")>> \o Modification(t) \o <<Of(work, t), Do("restore")>>
Nested(work, t) ==
  <<Do("cli")>> \o Modification(t) \o Section(work, t) \o <<Do("restore")>>

\* Code of task t that an interrupt may cut off.
Preemptible(t, code) ==
  /\ code.owner = t /\ code.intr = NONE /\ code.old_interrupts = <<>>
  /\ \/ code.ops \in Seq(PlainOp)
     \/ t = MAIN /\ \E work \in Work, u \in Created :
          code.ops \in {Section(work, u), Nested(work, u)}

\* A thread runs and may be interrupted.
Running ==
  /\ interrupts = 1
  /\ Preemptible(current_task, context)
  /\ stack[current_task] = <<>>
  /\ loaded = current_task /\ old_directory = NONE
  /\ master = {} /\ slave = {}
  /\ current_task # MAIN => eax = expected[current_task]

\* The main task is in a section, at the given depth, with a modification going on or not.
At1(prog, k) == context.ops = Left(prog, k) /\ context.old_interrupts = <<1>>
At2(prog, k) == context.ops = Left(prog, k) /\ context.old_interrupts = <<0>> \o <<1>>
Modifying == old_directory = MAIN /\ old_interrupts = 0
NotModifying == old_directory = NONE /\ loaded = MAIN

Position(work, u) ==
  \/ NotModifying /\ \E k \in {1, 3, 4} : At1(Section(work, u), k)
  \/ Modifying /\ At1(Section(work, u), 2)
  \/ NotModifying /\ \E k \in {1, 3, 8} : At1(Nested(work, u), k)
  \/ Modifying /\ At1(Nested(work, u), 2)
  \/ NotModifying /\ \E k \in {4, 6, 7} : At2(Nested(work, u), k)
  \/ Modifying /\ At2(Nested(work, u), 5)

InSection ==
  /\ interrupts = 0
  /\ context.owner = MAIN /\ context.intr = NONE
  /\ current_task = MAIN /\ stack[MAIN] = <<>>
  /\ master = {} /\ slave = {}
  /\ \E work \in Work, u \in Created : Position(work, u)

\* What handlers print, with the end of every interrupt.
Message(colour) == PrintIn(colour, -1) \o <<Do("end")>>
Pointer(place, colour) == handle_mouse_event(place, colour) \o <<Do("end")>>

\* Of what a system call asks nothing is done yet.
Asking ==
  /\ context.intr = ISR_SYSCALL
  /\ current_task = context.owner /\ context.owner # MAIN
  /\ \E call \in Call :
       /\ context.ops = <<call>> \o <<Do("end")>>
       /\ call.op = "sys_io_putchar" /\ call.c = "line_feed" => cursor < IO_CHARS

Switching == current_task = context.owner /\ context.ops = <<Do("schedule")>> \o <<Do("end")>>

Printing ==
  \/ \E colour \in Colours, k \in 0 .. 3 :
       /\ context.ops = Left(Message(colour), k)
       /\ k = 1 => attr = colour
  \/ \E place \in Places, colour \in Colours, k \in 0 .. 5 :
       /\ context.ops = Left(Pointer(place, colour), k)
       /\ k \in {1, 2} => cursor = place
       /\ k = 2 => attr = colour

\* Not more than the interrupt that is handled is in service.
Single(lines) == \A l, m \in lines : l = m
InService ==
  /\ Single(master) /\ Single(slave)
  /\ ~ IS_IRQ(context.intr) => master = {} /\ slave = {}
  /\ slave # {} => context.intr >= ISR_IRQ(8)

Ending ==
  \/ context.ops = <<Do("eoi_slave")>> \o (<<Do("eoi_master")>> \o <<Do("iret")>>)
  \/ context.ops = <<Do("eoi_master")>> \o <<Do("iret")>> /\ slave = {}
  \/ context.ops = <<Do("iret")>> /\ slave = {} /\ master = {}

Handling ==
  /\ interrupts = 0
  /\ context.intr # NONE
  /\ loaded = current_task /\ old_directory = NONE
  /\ InService
  /\ Asking \/ Switching \/ Printing \/ Ending

\* The frames of those that do not run.
Suspended(t, frame) ==
  /\ frame.interrupts = 1
  /\ Preemptible(t, frame.code)
  /\ tasks[t] = "running" /\ t # MAIN /\ ~ (Asking /\ context.owner = t) =>
       frame.eax = expected[t]

Saved(t) ==
  /\ Len(stack[t]) <= 1
  /\ stack[t] # <<>> => Suspended(t, stack[t][1])
  /\ tasks[t] = "running" /\ (context.intr = NONE => t # current_task) => stack[t] # <<>>
Frames == \A t \in Tasks : Saved(t)
CurrentRuns == tasks[current_task] = "running"

IInv ==
  /\ Types
  /\ Frames
  /\ CurrentRuns
  /\ Running \/ InSection \/ Handling

-----------------------------------------------------------------------------
(* Sequences of operations.                                                *)

LEMMA Cons ==
  ASSUME NEW S, NEW x \in S, NEW s \in Seq(S)
  PROVE  /\ <<x>> \o s \in Seq(S)
         /\ <<x>> \o s # <<>>
         /\ Head(<<x>> \o s) = x
         /\ Tail(<<x>> \o s) = s
<1>1. <<x>> \in Seq(S) /\ Len(<<x>>) = 1 /\ <<x>>[1] = x
  OBVIOUS
<1>2. /\ <<x>> \o s \in Seq(S) /\ Len(<<x>> \o s) = 1 + Len(s)
      /\ \A i \in 1 .. 1 + Len(s) : (<<x>> \o s)[i] = IF i <= 1 THEN <<x>>[i] ELSE s[i - 1]
  BY <1>1, ConcatProperties
<1> DEFINE c == <<x>> \o s
<1> HIDE DEF c
<1>3. c \in Seq(S) /\ Len(c) = 1 + Len(s) /\ c[1] = x
      /\ \A i \in 1 .. Len(s) : c[i + 1] = s[i]
  BY <1>1, <1>2 DEF c
<1>4. c # <<>> /\ Head(c) = x /\ Tail(c) \in Seq(S) /\ Len(Tail(c)) = Len(s)
      /\ \A i \in 1 .. Len(s) : Tail(c)[i] = s[i]
  BY <1>3
<1>5. Tail(c) = s
  BY <1>4, SeqEqual
<1> QED
  BY <1>3, <1>4, <1>5 DEF c

LEMMA One ==
  ASSUME NEW S, NEW x \in S
  PROVE  <<x>> \in Seq(S) /\ Len(<<x>>) = 1 /\ <<x>>[1] = x
OBVIOUS

LEMMA LeftWhole ==
  ASSUME NEW S, NEW prog \in Seq(S)
  PROVE  Left(prog, 0) = prog /\ Left(prog, Len(prog)) = <<>>
<1>1. Left(prog, 0) = prog
  BY SeqEqual DEF Left
<1> QED
  BY <1>1 DEF Left

LEMMA LeftStep ==
  ASSUME NEW S, NEW prog \in Seq(S), NEW k \in 0 .. Len(prog) - 1
  PROVE  /\ Left(prog, k) \in Seq(S)
         /\ Left(prog, k) # <<>>
         /\ Head(Left(prog, k)) = prog[k + 1]
         /\ Tail(Left(prog, k)) = Left(prog, k + 1)
<1>1. k + 1 \in 1 .. Len(prog) /\ Len(prog) \in 1 .. Len(prog) /\ k + 1 <= Len(prog)
  OBVIOUS
<1>2. /\ Left(prog, k) \in Seq(S) /\ Len(Left(prog, k)) = Len(prog) - k
  BY DEF Left
<1>3. Left(prog, k) # <<>>
  BY <1>2
<1> QED
  BY <1>1, <1>2, <1>3, HeadTailOfSubSeq DEF Left

LEMMA Operations ==
  /\ \A name \in {"cli", "restore", "vmm_modified", "schedule", "end", "eoi_slave",
                  "eoi_master", "iret"} : Do(name) \in Op
  /\ \A name \in {"vmm_modify", "task_add", "task_remove"}, t \in Tasks : Of(name, t) \in Op
  /\ PlainOp \subseteq Op
  /\ \A colour \in Colours : Char("letter", colour, -1) \in Op /\ Attr(colour) \in Op
  /\ \A colour \in Colours, place \in Places : Char("letter", colour, place) \in Op
  /\ \A place \in Places : Cursor(place) \in Op
  /\ CursorBack \in Op
  /\ Call \subseteq Op
<1>1. /\ PlainOp \subseteq Op /\ ControlOp \subseteq Op /\ TaskOp \subseteq Op
      /\ PointerOp \subseteq Op /\ Call \subseteq Op
  BY Zenon DEF Op
<1>2. CursorBack \in PlainOp
      /\ \A colour \in Colours : Char("letter", colour, -1) \in PlainOp /\ Attr(colour) \in PlainOp
  BY DEF PlainOp, Attr, Char, CursorBack
<1>3. \A name \in {"cli", "restore", "vmm_modified", "schedule", "end", "eoi_slave",
                   "eoi_master", "iret"} : Do(name) \in ControlOp
  BY Zenon DEF ControlOp
<1>4. \A name \in {"vmm_modify", "task_add", "task_remove"}, t \in Tasks : Of(name, t) \in TaskOp
  BY DEF TaskOp, Of
<1>5. /\ \A colour \in Colours, place \in Places : Char("letter", colour, place) \in PointerOp
      /\ \A place \in Places : Cursor(place) \in PointerOp
  BY DEF PointerOp, Char, Cursor
<1> QED
  BY <1>1, <1>2, <1>3, <1>4, <1>5, Zenon

LEMMA LeftAll ==
  ASSUME NEW S, NEW prog \in Seq(S)
  PROVE  /\ Left(prog, 0) = prog
         /\ Left(prog, Len(prog)) = <<>>
         /\ \A k \in 0 .. Len(prog) - 1 :
              /\ Left(prog, k) # <<>>
              /\ Head(Left(prog, k)) = prog[k + 1]
              /\ Tail(Left(prog, k)) = Left(prog, k + 1)
BY LeftWhole, LeftStep, Zenon

LEMMA SectionCode ==
  ASSUME NEW work \in Work, NEW u \in Created
  PROVE  /\ Section(work, u) \in Seq(Op)
         /\ Len(Section(work, u)) = 5
         /\ Section(work, u)[1] = Do("cli")
         /\ Section(work, u)[2] = Of("vmm_modify", u)
         /\ Section(work, u)[3] = Do("vmm_modified")
         /\ Section(work, u)[4] = Of(work, u)
         /\ Section(work, u)[5] = Do("restore")
<1>1. /\ Do("cli") \in Op /\ Do("vmm_modified") \in Op /\ Do("restore") \in Op
      /\ Of("vmm_modify", u) \in Op /\ Of(work, u) \in Op
  BY Operations, Zenon DEF Work, Created
<1>2. /\ <<Do("cli")>> \in Seq(Op) /\ Modification(u) \in Seq(Op)
      /\ <<Of(work, u), Do("restore")>> \in Seq(Op)
  BY <1>1 DEF Modification
<1> QED
  BY <1>1, <1>2 DEF Section, Modification

LEMMA NestedCode ==
  ASSUME NEW work \in Work, NEW u \in Created
  PROVE  /\ Nested(work, u) \in Seq(Op)
         /\ Len(Nested(work, u)) = 9
         /\ Nested(work, u)[1] = Do("cli")
         /\ Nested(work, u)[2] = Of("vmm_modify", u)
         /\ Nested(work, u)[3] = Do("vmm_modified")
         /\ Nested(work, u)[4] = Do("cli")
         /\ Nested(work, u)[5] = Of("vmm_modify", u)
         /\ Nested(work, u)[6] = Do("vmm_modified")
         /\ Nested(work, u)[7] = Of(work, u)
         /\ Nested(work, u)[8] = Do("restore")
         /\ Nested(work, u)[9] = Do("restore")
<1>1. /\ Do("cli") \in Op /\ Do("vmm_modified") \in Op /\ Do("restore") \in Op
      /\ Of("vmm_modify", u) \in Op /\ Of(work, u) \in Op
  BY Operations, Zenon DEF Work, Created
<1>2. <<Do("cli")>> \in Seq(Op) /\ Modification(u) \in Seq(Op) /\ <<Do("restore")>> \in Seq(Op)
  BY <1>1 DEF Modification
<1> DEFINE a == <<Do("cli")>> \o Modification(u)
<1>3. /\ a \in Seq(Op) /\ Len(a) = 3 /\ a[1] = Do("cli")
      /\ a[2] = Of("vmm_modify", u) /\ a[3] = Do("vmm_modified")
  BY <1>1, <1>2 DEF Modification
<1> DEFINE b == Section(work, u) \o <<Do("restore")>>
<1>4. /\ b \in Seq(Op) /\ Len(b) = 6 /\ b[1] = Do("cli") /\ b[2] = Of("vmm_modify", u)
      /\ b[3] = Do("vmm_modified") /\ b[4] = Of(work, u)
      /\ b[5] = Do("restore") /\ b[6] = Do("restore")
  <2> DEFINE c == Section(work, u)
             r == <<Do("restore")>>
  <2>1. r \in Seq(Op) /\ Len(r) = 1 /\ r[1] = Do("restore")
    BY <1>1
  <2>2. c \in Seq(Op) /\ Len(c) = 5
    BY SectionCode
  <2> HIDE DEF r, c
  <2>3. /\ c \o r \in Seq(Op) /\ Len(c \o r) = Len(c) + Len(r)
        /\ \A i \in 1 .. Len(c) + Len(r) :
             (c \o r)[i] = IF i <= Len(c) THEN c[i] ELSE r[i - Len(c)]
    <3>1. c \in Seq(Op) /\ r \in Seq(Op)
      BY <2>1, <2>2
    <3> QED
      BY <3>1, ConcatProperties, Zenon
  <2>5. b = c \o r
    BY DEF c, r
  <2> HIDE DEF b
  <2>4. /\ b \in Seq(Op) /\ Len(b) = 6 /\ b[1] = c[1] /\ b[2] = c[2] /\ b[3] = c[3]
        /\ b[4] = c[4] /\ b[5] = c[5] /\ b[6] = r[1]
    BY <2>1, <2>2, <2>3, <2>5
  <2> QED
    BY <2>1, <2>4, SectionCode DEF c
<1>5. Nested(work, u) = a \o b
  <2> DEFINE c == Section(work, u)
             r == <<Do("restore")>>
  <2>1. Nested(work, u) = (a \o c) \o r
    BY DEF Nested
  <2>2. a \in Seq(Op) /\ c \in Seq(Op) /\ r \in Seq(Op)
    BY <1>2, <1>3, SectionCode
  <2>3. b = c \o r
    OBVIOUS
  <2> HIDE DEF a, b, c, r
  <2> QED
    BY <2>1, <2>2, <2>3, ConcatAssociative
<1>6. /\ a \o b \in Seq(Op) /\ Len(a \o b) = Len(a) + Len(b)
      /\ \A i \in 1 .. Len(a) + Len(b) :
           (a \o b)[i] = IF i <= Len(a) THEN a[i] ELSE b[i - Len(a)]
  BY <1>3, <1>4, ConcatProperties
<1> DEFINE n == a \o b
<1> HIDE DEF a, b, n
<1>7. /\ n \in Seq(Op) /\ Len(n) = 9 /\ n[1] = a[1] /\ n[2] = a[2] /\ n[3] = a[3]
      /\ n[4] = b[1] /\ n[5] = b[2] /\ n[6] = b[3] /\ n[7] = b[4] /\ n[8] = b[5] /\ n[9] = b[6]
  BY <1>3, <1>4, <1>6 DEF n
<1> QED
  BY <1>3, <1>4, <1>5, <1>7 DEF n

LEMMA SectionLeft ==
  ASSUME NEW work \in Work, NEW u \in Created
  PROVE  /\ Left(Section(work, u), 0) = Section(work, u)
         /\ Left(Section(work, u), 5) = <<>>
         /\ \A k \in 0 .. 4 :
              /\ Left(Section(work, u), k) # <<>>
              /\ Head(Left(Section(work, u), k)) = Section(work, u)[k + 1]
              /\ Tail(Left(Section(work, u), k)) = Left(Section(work, u), k + 1)
<1> DEFINE p == Section(work, u)
<1>1. p \in Seq(Op) /\ Len(p) = 5
  BY SectionCode
<1> HIDE DEF p
<1>2. /\ Left(p, 0) = p /\ Left(p, Len(p)) = <<>>
      /\ \A k \in 0 .. Len(p) - 1 :
           /\ Left(p, k) # <<>>
           /\ Head(Left(p, k)) = p[k + 1]
           /\ Tail(Left(p, k)) = Left(p, k + 1)
  BY <1>1, LeftAll, Zenon
<1>3. \A k \in 0 .. 4 : k \in 0 .. Len(p) - 1
  BY <1>1
<1>4. /\ Left(p, 0) = p /\ Left(p, 5) = <<>>
      /\ \A k \in 0 .. 4 :
           /\ Left(p, k) # <<>>
           /\ Head(Left(p, k)) = p[k + 1]
           /\ Tail(Left(p, k)) = Left(p, k + 1)
  BY <1>1, <1>2, <1>3, Zenon
<1> QED
  BY <1>4 DEF p

LEMMA NestedLeft ==
  ASSUME NEW work \in Work, NEW u \in Created
  PROVE  /\ Left(Nested(work, u), 0) = Nested(work, u)
         /\ Left(Nested(work, u), 9) = <<>>
         /\ \A k \in 0 .. 8 :
              /\ Left(Nested(work, u), k) # <<>>
              /\ Head(Left(Nested(work, u), k)) = Nested(work, u)[k + 1]
              /\ Tail(Left(Nested(work, u), k)) = Left(Nested(work, u), k + 1)
<1> DEFINE p == Nested(work, u)
<1>1. p \in Seq(Op) /\ Len(p) = 9
  BY NestedCode
<1> HIDE DEF p
<1>2. /\ Left(p, 0) = p /\ Left(p, Len(p)) = <<>>
      /\ \A k \in 0 .. Len(p) - 1 :
           /\ Left(p, k) # <<>>
           /\ Head(Left(p, k)) = p[k + 1]
           /\ Tail(Left(p, k)) = Left(p, k + 1)
  BY <1>1, LeftAll, Zenon
<1>3. \A k \in 0 .. 8 : k \in 0 .. Len(p) - 1
  BY <1>1
<1>4. /\ Left(p, 0) = p /\ Left(p, 9) = <<>>
      /\ \A k \in 0 .. 8 :
           /\ Left(p, k) # <<>>
           /\ Head(Left(p, k)) = p[k + 1]
           /\ Tail(Left(p, k)) = Left(p, k + 1)
  BY <1>1, <1>2, <1>3, Zenon
<1> QED
  BY <1>4 DEF p

LEMMA MessageCode ==
  ASSUME NEW colour \in Colours
  PROVE  LET m == Message(colour) IN
         /\ m \in Seq(Op) /\ Len(m) = 4
         /\ m[1] = Attr(colour) /\ m[2] = Char("letter", colour, -1)
         /\ m[3] = Attr(IO_DEFAULT) /\ m[4] = Do("end")
<1>1. /\ Attr(colour) \in Op /\ Char("letter", colour, -1) \in Op
      /\ Attr(IO_DEFAULT) \in Op /\ Do("end") \in Op
  BY Operations, Zenon DEF Colours
<1> DEFINE a == <<Attr(colour), Char("letter", colour, -1), Attr(IO_DEFAULT)>>
           e == <<Do("end")>>
<1>2. a \in Seq(Op) /\ Len(a) = 3 /\ e \in Seq(Op) /\ Len(e) = 1
  BY <1>1
<1>3. /\ a[1] = Attr(colour) /\ a[2] = Char("letter", colour, -1)
      /\ a[3] = Attr(IO_DEFAULT) /\ e[1] = Do("end")
  OBVIOUS
<1>4. Message(colour) = a \o e
  BY DEF Message, PrintIn
<1> HIDE DEF a, e
<1>5. a \o e \in Seq(Op) /\ Len(a \o e) = Len(a) + Len(e)
      /\ \A i \in 1 .. Len(a) + Len(e) :
           (a \o e)[i] = IF i <= Len(a) THEN a[i] ELSE e[i - Len(a)]
  <2>1. a \in Seq(Op) /\ e \in Seq(Op)
    BY <1>2
  <2> QED
    BY <2>1, ConcatProperties, Zenon
<1> DEFINE m == a \o e
<1> HIDE DEF m
<1>6. m \in Seq(Op) /\ Len(m) = 4 /\ m[1] = a[1] /\ m[2] = a[2] /\ m[3] = a[3] /\ m[4] = e[1]
  BY <1>2, <1>5 DEF m
<1> QED
  BY <1>3, <1>4, <1>6 DEF m

LEMMA PointerCode ==
  ASSUME NEW place \in Places, NEW colour \in Colours
  PROVE  LET m == Pointer(place, colour) IN
         /\ m \in Seq(Op) /\ Len(m) = 6
         /\ m[1] = Cursor(place) /\ m[2] = Attr(colour)
         /\ m[3] = Char("letter", colour, place) /\ m[4] = Attr(IO_DEFAULT)
         /\ m[5] = CursorBack /\ m[6] = Do("end")
<1>1. /\ Cursor(place) \in Op /\ Attr(colour) \in Op /\ Char("letter", colour, place) \in Op
      /\ Attr(IO_DEFAULT) \in Op /\ CursorBack \in Op /\ Do("end") \in Op
  BY Operations, Zenon DEF Colours
<1> DEFINE c == <<Cursor(place)>>
           a == <<Attr(colour), Char("letter", colour, place), Attr(IO_DEFAULT)>>
           b == <<CursorBack>>
           e == <<Do("end")>>
<1>2. /\ c \in Seq(Op) /\ Len(c) = 1 /\ a \in Seq(Op) /\ Len(a) = 3
      /\ b \in Seq(Op) /\ Len(b) = 1 /\ e \in Seq(Op) /\ Len(e) = 1
  BY <1>1
<1>3. /\ c[1] = Cursor(place) /\ a[1] = Attr(colour) /\ a[2] = Char("letter", colour, place)
      /\ a[3] = Attr(IO_DEFAULT) /\ b[1] = CursorBack /\ e[1] = Do("end")
  OBVIOUS
<1> DEFINE x == c \o a
           y == b \o e
<1>4. Pointer(place, colour) = (c \o a \o b) \o e
  BY DEF Pointer, handle_mouse_event, PrintIn
<1> HIDE DEF c, a, b, e
<1>0. c \in Seq(Op) /\ a \in Seq(Op) /\ b \in Seq(Op) /\ e \in Seq(Op)
  BY <1>2
<1>5. /\ x \in Seq(Op) /\ Len(x) = Len(c) + Len(a)
      /\ \A i \in 1 .. Len(c) + Len(a) : x[i] = IF i <= Len(c) THEN c[i] ELSE a[i - Len(c)]
      /\ y \in Seq(Op) /\ Len(y) = Len(b) + Len(e)
      /\ \A i \in 1 .. Len(b) + Len(e) : y[i] = IF i <= Len(b) THEN b[i] ELSE e[i - Len(b)]
  <2>1. /\ c \o a \in Seq(Op) /\ Len(c \o a) = Len(c) + Len(a)
        /\ \A i \in 1 .. Len(c) + Len(a) :
             (c \o a)[i] = IF i <= Len(c) THEN c[i] ELSE a[i - Len(c)]
    BY <1>0, ConcatProperties, Zenon
  <2>2. /\ b \o e \in Seq(Op) /\ Len(b \o e) = Len(b) + Len(e)
        /\ \A i \in 1 .. Len(b) + Len(e) :
             (b \o e)[i] = IF i <= Len(b) THEN b[i] ELSE e[i - Len(b)]
    BY <1>0, ConcatProperties, Zenon
  <2> QED
    BY <2>1, <2>2
<1>6. (c \o a \o b) \o e = x \o y
  <2>1. x \in Seq(Op)
    BY <1>5
  <2> HIDE DEF x
  <2>2. (x \o b) \o e = x \o (b \o e)
    BY <1>0, <2>1, ConcatAssociative
  <2> QED
    BY <2>2 DEF x
<1> HIDE DEF x, y
<1>7. /\ Len(x) = 4 /\ x[1] = c[1] /\ x[2] = a[1] /\ x[3] = a[2] /\ x[4] = a[3]
      /\ Len(y) = 2 /\ y[1] = b[1] /\ y[2] = e[1]
  BY <1>2, <1>5
<1>8. /\ x \o y \in Seq(Op) /\ Len(x \o y) = Len(x) + Len(y)
      /\ \A i \in 1 .. Len(x) + Len(y) :
           (x \o y)[i] = IF i <= Len(x) THEN x[i] ELSE y[i - Len(x)]
  <2>1. x \in Seq(Op) /\ y \in Seq(Op)
    BY <1>5
  <2> QED
    BY <2>1, ConcatProperties, Zenon
<1> DEFINE p == x \o y
<1> HIDE DEF p
<1>9. /\ p \in Seq(Op) /\ Len(p) = 6 /\ p[1] = x[1] /\ p[2] = x[2] /\ p[3] = x[3]
      /\ p[4] = x[4] /\ p[5] = y[1] /\ p[6] = y[2]
  BY <1>7, <1>8 DEF p
<1> QED
  BY <1>3, <1>4, <1>6, <1>7, <1>9 DEF p

LEMMA MessageLeft ==
  ASSUME NEW colour \in Colours
  PROVE  /\ Left(Message(colour), 0) = Message(colour)
         /\ Left(Message(colour), 4) = <<>>
         /\ \A k \in 0 .. 3 :
              /\ Left(Message(colour), k) # <<>>
              /\ Head(Left(Message(colour), k)) = Message(colour)[k + 1]
              /\ Tail(Left(Message(colour), k)) = Left(Message(colour), k + 1)
<1> DEFINE p == Message(colour)
<1>1. p \in Seq(Op) /\ Len(p) = 4
  BY MessageCode
<1> HIDE DEF p
<1>2. /\ Left(p, 0) = p /\ Left(p, Len(p)) = <<>>
      /\ \A k \in 0 .. Len(p) - 1 :
           /\ Left(p, k) # <<>>
           /\ Head(Left(p, k)) = p[k + 1]
           /\ Tail(Left(p, k)) = Left(p, k + 1)
  BY <1>1, LeftAll, Zenon
<1>3. \A k \in 0 .. 3 : k \in 0 .. Len(p) - 1
  BY <1>1
<1>4. /\ Left(p, 0) = p /\ Left(p, 4) = <<>>
      /\ \A k \in 0 .. 3 :
           /\ Left(p, k) # <<>>
           /\ Head(Left(p, k)) = p[k + 1]
           /\ Tail(Left(p, k)) = Left(p, k + 1)
  BY <1>1, <1>2, <1>3, Zenon
<1> QED
  BY <1>4 DEF p

LEMMA PointerLeft ==
  ASSUME NEW place \in Places, NEW colour \in Colours
  PROVE  /\ Left(Pointer(place, colour), 0) = Pointer(place, colour)
         /\ Left(Pointer(place, colour), 6) = <<>>
         /\ \A k \in 0 .. 5 :
              /\ Left(Pointer(place, colour), k) # <<>>
              /\ Head(Left(Pointer(place, colour), k)) = Pointer(place, colour)[k + 1]
              /\ Tail(Left(Pointer(place, colour), k)) = Left(Pointer(place, colour), k + 1)
<1> DEFINE p == Pointer(place, colour)
<1>1. p \in Seq(Op) /\ Len(p) = 6
  BY PointerCode
<1> HIDE DEF p
<1>2. /\ Left(p, 0) = p /\ Left(p, Len(p)) = <<>>
      /\ \A k \in 0 .. Len(p) - 1 :
           /\ Left(p, k) # <<>>
           /\ Head(Left(p, k)) = p[k + 1]
           /\ Tail(Left(p, k)) = Left(p, k + 1)
  BY <1>1, LeftAll, Zenon
<1>3. \A k \in 0 .. 5 : k \in 0 .. Len(p) - 1
  BY <1>1
<1>4. /\ Left(p, 0) = p /\ Left(p, 6) = <<>>
      /\ \A k \in 0 .. 5 :
           /\ Left(p, k) # <<>>
           /\ Head(Left(p, k)) = p[k + 1]
           /\ Tail(Left(p, k)) = Left(p, k + 1)
  BY <1>1, <1>2, <1>3, Zenon
<1> QED
  BY <1>4 DEF p

(* The end of a message is the end of the handler.                         *)
LEMMA MessageEnd ==
  ASSUME NEW colour \in Colours
  PROVE  Left(Message(colour), 3) = <<Do("end")>>
<1> DEFINE l == Left(Message(colour), 3)
           x == Do("end")
<1>1. x \in Op
  BY Operations, Zenon
<1>2. l \in Seq(Op) /\ Len(l) = 1 /\ l[1] = x
  BY MessageCode DEF Left
<1> HIDE DEF l, x
<1>3. l = <<x>>
  BY <1>1, <1>2, SeqEqual
<1> QED
  BY <1>3 DEF l, x

LEMMA EndOfForms ==
  ASSUME NEW intr \in Vectors
  PROVE  EndOf(intr) =
           IF ~ IS_IRQ(intr) THEN <<Do("iret")>>
           ELSE IF intr < ISR_IRQ(8) THEN <<Do("eoi_master")>> \o <<Do("iret")>>
           ELSE <<Do("eoi_slave")>> \o (<<Do("eoi_master")>> \o <<Do("iret")>>)
<1> DEFINE s == <<Do("eoi_slave")>>
           m == <<Do("eoi_master")>>
           r == <<Do("iret")>>
<1>1. s \in Seq(Op) /\ m \in Seq(Op) /\ r \in Seq(Op)
  <2>1. Do("eoi_slave") \in Op /\ Do("eoi_master") \in Op /\ Do("iret") \in Op
    BY Operations, Zenon
  <2> QED
    BY <2>1, One, Zenon
<1>2. EndOf(intr) = (IF IS_IRQ(intr) THEN (IF intr - ISR_IRQ(0) >= 8 THEN s ELSE <<>>) \o m
                     ELSE <<>>) \o r
  BY DEF EndOf, pic_send_eoi
<1> HIDE DEF s, m, r
<1>3. (s \o m) \o r = s \o (m \o r)
  BY <1>1, ConcatAssociative
<1>4. <<>> \o m = m /\ <<>> \o r = r
  BY <1>1, ConcatEmptySeq, Zenon
<1>5. IS_IRQ(intr) => (intr - ISR_IRQ(0) >= 8 <=> ~ (intr < ISR_IRQ(8)))
  BY DEF IS_IRQ, ISR_IRQ
<1>6. EndOf(intr) = IF ~ IS_IRQ(intr) THEN r
                    ELSE IF intr < ISR_IRQ(8) THEN m \o r ELSE s \o (m \o r)
  BY <1>2, <1>3, <1>4, <1>5, Zenon
<1> QED
  BY <1>6 DEF s, m, r

-----------------------------------------------------------------------------
(* The screen.                                                             *)

LEMMA ScreenSize == IO_CHARS \in Nat \ {0} /\ ClockPlace \in Places
<1>1. IO_COLS * IO_ROWS \in Nat /\ IO_COLS * IO_ROWS > 0
  BY ScreenAssumption
<1>2. (IO_ROWS - 1) * IO_COLS + IO_COLS = IO_COLS * IO_ROWS
  BY ScreenAssumption
<1>3. (IO_ROWS - 1) * IO_COLS \in Nat
  BY ScreenAssumption
<1> QED
  BY <1>1, <1>2, <1>3, ScreenAssumption DEF ClockPlace, IO_COORD, IO_CHARS, Places

LEMMA NextLine ==
  ASSUME NEW n \in Nat, NEW cols \in Nat \ {0}, NEW rows \in Nat \ {0}, n < cols * rows
  PROVE  n + cols - (n % cols) \in 0 .. cols * rows
<1> DEFINE q == n \div cols
           r == n % cols
<1>1. q \in Nat /\ r \in 0 .. cols - 1 /\ n = cols * q + r
  OBVIOUS
<1> HIDE DEF q, r
<1>2. ~ (rows <= q)
  <2> SUFFICES ASSUME rows <= q PROVE FALSE
    OBVIOUS
  <2>1. cols * rows <= cols * q
    BY <1>1
  <2>2. cols * q \in Nat /\ cols * rows \in Nat
    BY <1>1
  <2> QED
    BY <1>1, <2>1, <2>2
<1>3. cols * (q + 1) <= cols * rows
  BY <1>1, <1>2
<1>4. cols * (q + 1) = cols * q + cols /\ cols * q \in Nat /\ cols * rows \in Nat
  BY <1>1
<1>5. n + cols - r \in 0 .. cols * rows
  BY <1>1, <1>3, <1>4
<1> QED
  BY <1>5 DEF r

LEMMA CursorStays ==
  ASSUME cursor \in 0 .. IO_CHARS, NEW c \in {"letter", "line_feed"}, io_putchar(c),
         c = "line_feed" => cursor < IO_CHARS
  PROVE  cursor' \in 0 .. IO_CHARS
<1>1. CASE c = "letter"
  BY <1>1, ScreenSize DEF io_putchar
<1>2. CASE c = "line_feed"
  <2>1. cursor \in Nat /\ cursor < IO_CHARS
    BY <1>2, ScreenSize
  <2>2. cursor + IO_COLS - (cursor % IO_COLS) \in 0 .. IO_COLS * IO_ROWS
    BY <2>1, NextLine, ScreenAssumption DEF IO_CHARS
  <2> QED
    BY <1>2, <2>2 DEF io_putchar, IO_CHARS
<1> QED
  BY <1>1, <1>2

-----------------------------------------------------------------------------
(* The next operation.                                                     *)

LEMMA PlainNow ==
  ASSUME NEW x \in PlainOp
  PROVE  /\ x.op \in {"isr_register_handler", "io_attr", "io_putchar", "io_cursor",
                      "io_cursor_back"}
         /\ x.op = "isr_register_handler" => x.intr \in {ISR_IRQ(1), ISR_IRQ(12)}
         /\ x.op = "io_attr" => x.colour \in Colours
         /\ x.op = "io_putchar" => x.c = "letter"
         /\ x.op = "io_cursor" => x.place \in Places
BY ScreenSize DEF PlainOp

LEMMA CallNow ==
  ASSUME NEW x \in Call
  PROVE  /\ x.op \in {"exit", "getpid", "sys_io_putchar", "sys_io_attr"}
         /\ x.id \in Int
         /\ x.op = "sys_io_putchar" => x.c \in {"letter", "line_feed"}
         /\ x.op = "sys_io_attr" => x.colour \in Colours
BY DEF Call, Colours

LEMMA EndIsOp == Do("end") \in Op /\ <<Do("end")>> \in Seq(Op)
<1>1. Do("end") \in Op
  BY Operations, Zenon
<1> QED
  BY <1>1, One, Zenon

(* Which operations belong to which phase.                                 *)
LEMMA RunningNow ==
  ASSUME Types, Running, context.ops # <<>>
  PROVE  \/ /\ context.ops \in Seq(PlainOp) /\ This \in PlainOp /\ Rest \in Seq(PlainOp)
         \/ /\ current_task = MAIN /\ This = Do("cli")
            /\ \E work \in Work, u \in Created :
                 Rest \in {Left(Section(work, u), 1), Left(Nested(work, u), 1)}
<1>1. CASE context.ops \in Seq(PlainOp)
  BY <1>1, HeadTailProperties DEF This, Rest
<1>2. ASSUME current_task = MAIN, NEW work \in Work, NEW u \in Created,
             context.ops \in {Section(work, u), Nested(work, u)}
      PROVE  This = Do("cli") /\ Rest \in {Left(Section(work, u), 1), Left(Nested(work, u), 1)}
  <2>1. Head(Section(work, u)) = Do("cli") /\ Tail(Section(work, u)) = Left(Section(work, u), 1)
    BY SectionLeft, SectionCode
  <2>2. Head(Nested(work, u)) = Do("cli") /\ Tail(Nested(work, u)) = Left(Nested(work, u), 1)
    <3>1. 0 \in 0 .. 8 /\ 0 + 1 = 1
      OBVIOUS
    <3>2. Head(Left(Nested(work, u), 0)) = Nested(work, u)[0 + 1]
          /\ Tail(Left(Nested(work, u), 0)) = Left(Nested(work, u), 0 + 1)
      BY <3>1, NestedLeft, Zenon
    <3> QED
      BY <3>1, <3>2, NestedLeft, NestedCode, Zenon
  <2> QED
    BY <1>2, <2>1, <2>2 DEF This, Rest
<1> QED
  BY <1>1, <1>2 DEF Running, Preemptible

LEMMA AskingNow ==
  ASSUME Asking
  PROVE  /\ context.ops # <<>> /\ This \in Call /\ Rest = <<Do("end")>>
         /\ This.op = "sys_io_putchar" /\ This.c = "line_feed" => cursor < IO_CHARS
<1>1. PICK call \in Call :
        /\ context.ops = <<call>> \o <<Do("end")>>
        /\ call.op = "sys_io_putchar" /\ call.c = "line_feed" => cursor < IO_CHARS
  BY DEF Asking
<1>2. call \in Op
  BY Operations
<1>3. context.ops # <<>> /\ This = call /\ Rest = <<Do("end")>>
  <2>1. <<Do("end")>> \in Seq(Op)
    BY EndIsOp
  <2>2. /\ <<call>> \o <<Do("end")>> # <<>>
        /\ Head(<<call>> \o <<Do("end")>>) = call
        /\ Tail(<<call>> \o <<Do("end")>>) = <<Do("end")>>
    BY <1>2, <2>1, Cons, Zenon
  <2> QED
    BY <1>1, <2>2, Zenon DEF This, Rest
<1> QED
  BY <1>1, <1>3

LEMMA SwitchingNow ==
  ASSUME Switching
  PROVE  context.ops # <<>> /\ This = Do("schedule") /\ Rest = <<Do("end")>>
<1>1. Do("schedule") \in Op
  BY Operations, Zenon
<1>2. <<Do("end")>> \in Seq(Op)
  BY EndIsOp
<1>3. /\ <<Do("schedule")>> \o <<Do("end")>> # <<>>
      /\ Head(<<Do("schedule")>> \o <<Do("end")>>) = Do("schedule")
      /\ Tail(<<Do("schedule")>> \o <<Do("end")>>) = <<Do("end")>>
  BY <1>1, <1>2, Cons, Zenon
<1> QED
  BY <1>3, Zenon DEF Switching, This, Rest

LEMMA EndingNow ==
  ASSUME Ending
  PROVE  /\ context.ops # <<>>
         /\ \/ This = Do("eoi_slave") /\ Rest = <<Do("eoi_master")>> \o <<Do("iret")>>
            \/ This = Do("eoi_master") /\ Rest = <<Do("iret")>> /\ slave = {}
            \/ This = Do("iret") /\ Rest = <<>> /\ slave = {} /\ master = {}
<1> DEFINE s == Do("eoi_slave")
           m == Do("eoi_master")
           r == Do("iret")
<1>1. s \in Op /\ m \in Op /\ r \in Op
  BY Operations, Zenon
<1>2. <<r>> \in Seq(Op)
  BY <1>1, One, Zenon
<1>3. /\ <<m>> \o <<r>> \in Seq(Op) /\ <<m>> \o <<r>> # <<>>
      /\ Head(<<m>> \o <<r>>) = m /\ Tail(<<m>> \o <<r>>) = <<r>>
  BY <1>1, <1>2, Cons, Zenon
<1>4. /\ <<s>> \o (<<m>> \o <<r>>) # <<>>
      /\ Head(<<s>> \o (<<m>> \o <<r>>)) = s /\ Tail(<<s>> \o (<<m>> \o <<r>>)) = <<m>> \o <<r>>
  <2> DEFINE t == <<m>> \o <<r>>
  <2>1. s \in Op /\ t \in Seq(Op)
    BY <1>1, <1>3
  <2> HIDE DEF t
  <2>2. <<s>> \o t # <<>> /\ Head(<<s>> \o t) = s /\ Tail(<<s>> \o t) = t
    BY <2>1, Cons, Zenon
  <2> QED
    BY <2>2 DEF t
<1> HIDE DEF s, m, r
<1>5. <<r>> # <<>> /\ Head(<<r>>) = r /\ Tail(<<r>>) = <<>>
  OBVIOUS
<1>6. \/ context.ops = <<s>> \o (<<m>> \o <<r>>)
      \/ context.ops = <<m>> \o <<r>> /\ slave = {}
      \/ context.ops = <<r>> /\ slave = {} /\ master = {}
  BY DEF Ending, s, m, r
<1>7. /\ context.ops # <<>>
      /\ \/ This = s /\ Rest = <<m>> \o <<r>>
         \/ This = m /\ Rest = <<r>> /\ slave = {}
         \/ This = r /\ Rest = <<>> /\ slave = {} /\ master = {}
  BY <1>3, <1>4, <1>5, <1>6 DEF This, Rest
<1> QED
  BY <1>7 DEF s, m, r

LEMMA MessageNow ==
  ASSUME NEW colour \in Colours, NEW k \in 0 .. 3,
         context.ops = Left(Message(colour), k), k = 1 => attr = colour
  PROVE  /\ context.ops # <<>>
         /\ Rest = Left(Message(colour), k + 1)
         /\ k = 0 => This = Attr(colour)
         /\ k = 1 => This = Char("letter", colour, -1) /\ attr = colour
         /\ k = 2 => This = Attr(IO_DEFAULT)
         /\ k = 3 => This = Do("end")
<1>1. /\ context.ops # <<>>
      /\ This = Message(colour)[k + 1]
      /\ Rest = Left(Message(colour), k + 1)
  BY MessageLeft DEF This, Rest
<1> QED
  BY <1>1, MessageCode

LEMMA PointerNow ==
  ASSUME NEW place \in Places, NEW colour \in Colours, NEW k \in 0 .. 5,
         context.ops = Left(Pointer(place, colour), k)
  PROVE  /\ context.ops # <<>>
         /\ Rest = Left(Pointer(place, colour), k + 1)
         /\ k = 0 => This = Cursor(place)
         /\ k = 1 => This = Attr(colour)
         /\ k = 2 => This = Char("letter", colour, place)
         /\ k = 3 => This = Attr(IO_DEFAULT)
         /\ k = 4 => This = CursorBack
         /\ k = 5 => This = Do("end")
<1>1. /\ context.ops # <<>>
      /\ This = Pointer(place, colour)[k + 1]
      /\ Rest = Left(Pointer(place, colour), k + 1)
  BY PointerLeft DEF This, Rest
<1> QED
  BY <1>1, PointerCode

(* What printing handlers do next.                                         *)
PrintsNext ==
  /\ context.ops # <<>>
  /\ This.op \in {"io_attr", "io_putchar", "io_cursor", "io_cursor_back", "end"}
  /\ This.op = "end" => This = Do("end")
  /\ This.op = "io_attr" => This.colour \in Colours
  /\ This.op = "io_putchar" =>
       This.c = "letter" /\ attr = This.colour /\ This.place \in {-1, cursor}
  /\ This.op = "io_cursor" => This.place \in Places

LEMMA PrintingNow == Printing => PrintsNext
<1>1. ASSUME NEW colour \in Colours, NEW k \in 0 .. 3,
             context.ops = Left(Message(colour), k), k = 1 => attr = colour
      PROVE  PrintsNext
  BY <1>1, MessageNow DEF PrintsNext, Attr, Char, Do, Colours
<1>2. ASSUME NEW place \in Places, NEW colour \in Colours, NEW k \in 0 .. 5,
             context.ops = Left(Pointer(place, colour), k),
             k \in {1, 2} => cursor = place, k = 2 => attr = colour
      PROVE  PrintsNext
  BY <1>2, PointerNow DEF PrintsNext, Attr, Char, Cursor, CursorBack, Do, Colours
<1> QED
  BY <1>1, <1>2 DEF Printing

LEMMA GoOnKeeps ==
  ASSUME context \in CodeType, context.ops # <<>>, GoOn
  PROVE  /\ context' \in CodeType
         /\ context'.ops = Rest /\ Rest \in Seq(Op) /\ This \in Op
         /\ context'.owner = context.owner /\ context'.intr = context.intr
         /\ context'.old_interrupts = context.old_interrupts
         /\ context'.old_cursor = context.old_cursor
<1>1. context.ops \in Seq(Op)
  BY DEF CodeType
<1>2. Rest \in Seq(Op) /\ This \in Op
  BY <1>1, HeadTailProperties DEF Rest, This
<1> QED
  BY <1>2 DEF GoOn, CodeType

LEMMA SuspendedKept ==
  ASSUME NEW t, NEW frame, Suspended(t, frame), ~ Asking \/ context.owner # t,
         tasks'[t] = tasks[t], expected'[t] = expected[t]
  PROVE  Suspended(t, frame)'
<1>1. frame.interrupts = 1 /\ Preemptible(t, frame.code)
  BY DEF Suspended
<1>2. tasks'[t] = "running" /\ t # MAIN => frame.eax = expected'[t]
  BY DEF Suspended
<1> QED
  BY <1>1, <1>2 DEF Suspended, Preemptible

LEMMA SavedKept ==
  ASSUME NEW t \in Tasks, Saved(t), ~ Asking \/ context.owner # t,
         stack'[t] = stack[t], tasks'[t] = tasks[t], expected'[t] = expected[t],
         context.intr = NONE => context'.intr = NONE /\ current_task' = current_task
  PROVE  Saved(t)'
BY SuspendedKept DEF Saved

LEMMA FramesKept ==
  ASSUME Frames, UNCHANGED <<stack, tasks, expected>>, ~ Asking,
         context.intr = NONE => context'.intr = NONE /\ current_task' = current_task
  PROVE  Frames'
BY SavedKept DEF Frames

(* What the main task does next in a section.                              *)
SectionNext(work, u) ==
  \/ /\ This = Of("vmm_modify", u) /\ NotModifying
     /\ \/ context.old_interrupts = <<1>> /\ Rest = Left(Section(work, u), 2)
        \/ context.old_interrupts = <<1>> /\ Rest = Left(Nested(work, u), 2)
        \/ context.old_interrupts = <<0>> \o <<1>> /\ Rest = Left(Nested(work, u), 5)
  \/ /\ This = Do("vmm_modified") /\ Modifying
     /\ \/ context.old_interrupts = <<1>> /\ Rest = Left(Section(work, u), 3)
        \/ context.old_interrupts = <<1>> /\ Rest = Left(Nested(work, u), 3)
        \/ context.old_interrupts = <<0>> \o <<1>> /\ Rest = Left(Nested(work, u), 6)
  \/ /\ This = Of(work, u) /\ NotModifying
     /\ \/ context.old_interrupts = <<1>> /\ Rest = Left(Section(work, u), 4)
        \/ context.old_interrupts = <<0>> \o <<1>> /\ Rest = Left(Nested(work, u), 7)
  \/ /\ This = Do("restore") /\ NotModifying
     /\ \/ context.old_interrupts = <<1>> /\ Rest = <<>>
        \/ context.old_interrupts = <<0>> \o <<1>> /\ Rest = Left(Nested(work, u), 8)
  \/ /\ This = Do("cli") /\ NotModifying
     /\ context.old_interrupts = <<1>> /\ Rest = Left(Nested(work, u), 4)

LEMMA SectionNow ==
  ASSUME NEW work \in Work, NEW u \in Created, Position(work, u)
  PROVE  context.ops # <<>> /\ SectionNext(work, u)
<1>1. ASSUME NEW k \in 0 .. 4, context.ops = Left(Section(work, u), k)
      PROVE  /\ context.ops # <<>> /\ This = Section(work, u)[k + 1]
             /\ Rest = Left(Section(work, u), k + 1)
  BY <1>1, SectionLeft DEF This, Rest
<1>2. ASSUME NEW k \in 0 .. 8, context.ops = Left(Nested(work, u), k)
      PROVE  /\ context.ops # <<>> /\ This = Nested(work, u)[k + 1]
             /\ Rest = Left(Nested(work, u), k + 1)
  BY <1>2, NestedLeft DEF This, Rest
<1>3. CASE NotModifying /\ \E k \in {1, 3, 4} : At1(Section(work, u), k)
  BY <1>1, <1>3, SectionCode, SectionLeft DEF At1, SectionNext
<1>4. CASE Modifying /\ At1(Section(work, u), 2)
  BY <1>1, <1>4, SectionCode DEF At1, SectionNext
<1>5. CASE NotModifying /\ \E k \in {1, 3, 8} : At1(Nested(work, u), k)
  <2>1. CASE At1(Nested(work, u), 1)
    BY <1>2, <1>5, <2>1, NestedCode DEF At1, SectionNext
  <2>2. CASE At1(Nested(work, u), 3)
    BY <1>2, <1>5, <2>2, NestedCode DEF At1, SectionNext
  <2>3. CASE At1(Nested(work, u), 8)
    <3>1. /\ context.ops # <<>> /\ This = Nested(work, u)[9]
          /\ Rest = Left(Nested(work, u), 9) /\ context.old_interrupts = <<1>>
      BY <1>2, <2>3 DEF At1
    <3>2. Left(Nested(work, u), 9) = <<>> /\ Nested(work, u)[9] = Do("restore")
      BY NestedLeft, NestedCode, Zenon
    <3> QED
      BY <1>5, <3>1, <3>2 DEF SectionNext
  <2> QED
    BY <1>5, <2>1, <2>2, <2>3
<1>6. CASE Modifying /\ At1(Nested(work, u), 2)
  BY <1>2, <1>6, NestedCode DEF At1, SectionNext
<1>7. CASE NotModifying /\ \E k \in {4, 6, 7} : At2(Nested(work, u), k)
  <2>1. CASE At2(Nested(work, u), 4)
    BY <1>2, <1>7, <2>1, NestedCode DEF At2, SectionNext
  <2>2. CASE At2(Nested(work, u), 6)
    BY <1>2, <1>7, <2>2, NestedCode DEF At2, SectionNext
  <2>3. CASE At2(Nested(work, u), 7)
    BY <1>2, <1>7, <2>3, NestedCode DEF At2, SectionNext
  <2> QED
    BY <1>7, <2>1, <2>2, <2>3
<1>8. CASE Modifying /\ At2(Nested(work, u), 5)
  BY <1>2, <1>8, NestedCode DEF At2, SectionNext
<1> QED
  BY <1>3, <1>4, <1>5, <1>6, <1>7, <1>8 DEF Position

(* Every phase has operations of its own.                                  *)
Screening == {"io_attr", "io_putchar", "io_cursor", "io_cursor_back"}
Sectioning == {"vmm_modify", "vmm_modified", "task_add", "task_remove", "restore"}

LEMMA PhaseNow ==
  ASSUME IInv, context.ops # <<>>
  PROVE  /\ This.op \in Screening =>
              \/ Running /\ This \in PlainOp /\ Rest \in Seq(PlainOp)
              \/ Handling /\ Printing
         /\ This.op = "isr_register_handler" =>
              Running /\ This \in PlainOp /\ Rest \in Seq(PlainOp)
         /\ This.op \in Sectioning => InSection
         /\ This.op = "cli" =>
              \/ InSection
              \/ /\ Running /\ current_task = MAIN
                 /\ \E work \in Work, u \in Created :
                      Rest \in {Left(Section(work, u), 1), Left(Nested(work, u), 1)}
         /\ This.op = "schedule" => Handling /\ Switching
         /\ This.op \in {"exit", "getpid", "sys_io_putchar", "sys_io_attr"} => Handling /\ Asking
         /\ This.op = "end" => Handling /\ Printing
         /\ This.op \in {"eoi_slave", "eoi_master", "iret"} => Handling /\ Ending
<1>1. CASE Running
  <2>1. CASE This \in PlainOp /\ Rest \in Seq(PlainOp)
    BY <1>1, <2>1, PlainNow DEF Screening, Sectioning
  <2>2. CASE /\ current_task = MAIN /\ This = Do("cli")
             /\ \E work \in Work, u \in Created :
                  Rest \in {Left(Section(work, u), 1), Left(Nested(work, u), 1)}
    <3>1. This.op = "cli"
      BY <2>2 DEF Do
    <3> QED
      BY <1>1, <2>2, <3>1 DEF Screening, Sectioning
  <2> QED
    BY <1>1, <2>1, <2>2, RunningNow DEF IInv
<1>2. CASE InSection
  <2>1. PICK work \in Work, u \in Created : SectionNext(work, u)
    BY <1>2, SectionNow DEF InSection
  <2>2. This.op \in Sectioning \union {"cli"}
    BY <2>1 DEF SectionNext, Do, Of, Work, Sectioning
  <2> QED
    BY <1>2, <2>2 DEF Screening, Sectioning
<1>3. CASE Handling
  <2>1. CASE Asking
    BY <1>3, <2>1, AskingNow, CallNow DEF Screening, Sectioning
  <2>2. CASE Switching
    BY <1>3, <2>2, SwitchingNow DEF Do, Screening, Sectioning
  <2>3. CASE Printing
    BY <1>3, <2>3, PrintingNow DEF PrintsNext, Screening, Sectioning
  <2>4. CASE Ending
    BY <1>3, <2>4, EndingNow DEF Do, Screening, Sectioning
  <2> QED
    BY <1>3, <2>1, <2>2, <2>3, <2>4 DEF Handling
<1> QED
  BY <1>1, <1>2, <1>3 DEF IInv

(* The phase of the next operation excludes a system call.                 *)
LEMMA NotAsking ==
  ASSUME context.ops # <<>>,
         This.op \notin {"exit", "getpid", "sys_io_putchar", "sys_io_attr"}
  PROVE  ~ Asking
BY AskingNow, CallNow

LEMMA OwnCode == ASSUME Running \/ InSection PROVE ~ Asking
BY InterruptsAssumption DEF Running, InSection, Preemptible, Asking, ISR_SYSCALL, NONE

-----------------------------------------------------------------------------
(* The steps.                                                              *)

LEMMA InitIInv == Init => IInv
<1> SUFFICES ASSUME Init PROVE IInv
  OBVIOUS
<1>1. Types
  BY ScreenSize DEF Init, Types, CodeType, Code, Tasks, Register, Colours, Vectors
<1>2. Frames
  BY DEF Init, Frames, Saved, Code
<1>3. CurrentRuns
  BY DEF Init, CurrentRuns, Tasks
<1>4. Running
  BY DEF Init, Running, Preemptible, Code, Tasks
<1> QED
  BY <1>1, <1>2, <1>3, <1>4 DEF IInv

LEMMA OutputKeeps == IInv /\ Output => IInv'
<1> SUFFICES ASSUME IInv, Output PROVE IInv'
  OBVIOUS
<1>0. /\ context.ops # <<>> /\ This.op \in Screening
      /\ UNCHANGED <<interrupts, eax, stack, handlers, tasks, current_task, expected,
                     loaded, old_directory, old_interrupts, master, slave>>
  BY DEF Output, At, This, Screening, kernel, memory, pic
<1>1. Types
  BY DEF IInv
<1>2. ~ Asking
  BY <1>0, NotAsking DEF Screening
<1>3. /\ This.op = "io_attr" => This.colour \in Colours
      /\ This.op = "io_putchar" => This.c = "letter"
      /\ This.op = "io_cursor" => This.place \in Places
  BY <1>0, PhaseNow, PlainNow, PrintingNow DEF PrintsNext
<1>4. attr' \in Colours /\ cursor' \in 0 .. IO_CHARS
  BY <1>0, <1>1, <1>3, CursorStays, ScreenSize
    DEF Output, At, This, io_attr, io_cursor, Types, CodeType, Places, io_putchar
<1>5. /\ context' \in CodeType /\ context'.ops = Rest
      /\ context'.owner = context.owner /\ context'.intr = context.intr
      /\ context'.old_interrupts = context.old_interrupts
  <2>1. CASE GoOn
    BY <1>0, <1>1, <2>1, GoOnKeeps DEF Types
  <2>2. CASE \E n \in 0 .. IO_CHARS : context' = [context EXCEPT !.ops = Rest, !.old_cursor = n]
    <3>1. context \in CodeType /\ context.ops \in Seq(Op)
      BY <1>1 DEF Types, CodeType
    <3>2. Rest \in Seq(Op)
      BY <1>0, <3>1, HeadTailProperties DEF Rest
    <3> QED
      BY <2>2, <3>1, <3>2 DEF CodeType
  <2>3. cursor \in 0 .. IO_CHARS /\ 0 \in 0 .. IO_CHARS
    BY <1>1, ScreenSize DEF Types
  <2> QED
    BY <2>1, <2>2, <2>3 DEF Output
<1>6. Types'
  BY <1>0, <1>1, <1>4, <1>5 DEF Types
<1>7. Frames'
  BY <1>0, <1>2, <1>5, FramesKept DEF IInv
<1>8. CurrentRuns'
  BY <1>0 DEF IInv, CurrentRuns
<1>9. CASE Running /\ Rest \in Seq(PlainOp)
  <2>1. Running'
    BY <1>0, <1>5, <1>9 DEF Running, Preemptible
  <2> QED
    BY <1>6, <1>7, <1>8, <2>1 DEF IInv
<1>10. CASE Handling /\ Printing
  <2>1. Printing'
    <3>1. ASSUME NEW colour \in Colours, NEW k \in 0 .. 3,
                 context.ops = Left(Message(colour), k), k = 1 => attr = colour
          PROVE  Printing'
      <4>1. /\ k \in 0 .. 2 /\ context'.ops = Left(Message(colour), k + 1)
            /\ k = 0 => attr' = colour
        BY <1>0, <1>5, <3>1, MessageNow
          DEF Output, At, This, Screening, Do, Attr, Char, io_attr
      <4>2. k + 1 \in 0 .. 3 /\ (k + 1 = 1 => attr' = colour)
        BY <4>1
      <4> QED
        BY <4>1, <4>2 DEF Printing
    <3>2. ASSUME NEW place \in Places, NEW colour \in Colours, NEW k \in 0 .. 5,
                 context.ops = Left(Pointer(place, colour), k),
                 k \in {1, 2} => cursor = place, k = 2 => attr = colour
          PROVE  Printing'
      <4>1. /\ k \in 0 .. 4 /\ context'.ops = Left(Pointer(place, colour), k + 1)
            /\ k = 0 => cursor' = place
            /\ k = 1 => cursor' = place /\ attr' = colour
        BY <1>0, <1>5, <3>2, PointerNow
          DEF Output, At, This, Screening, Do, Attr, Char, Cursor, CursorBack, io_attr, io_cursor
      <4>2. /\ k + 1 \in 0 .. 5
            /\ k + 1 \in {1, 2} => cursor' = place
            /\ k + 1 = 2 => attr' = colour
        BY <4>1
      <4> QED
        BY <4>1, <4>2 DEF Printing
    <3> QED
      BY <1>10, <3>1, <3>2 DEF Printing
  <2>2. Handling'
    BY <1>0, <1>5, <1>10, <2>1 DEF Handling, InService
  <2> QED
    BY <1>6, <1>7, <1>8, <2>2 DEF IInv
<1> QED
  BY <1>0, <1>9, <1>10, PhaseNow

LEMMA RegisterKeeps == IInv /\ isr_register_handler => IInv'
<1> SUFFICES ASSUME IInv, isr_register_handler PROVE IInv'
  OBVIOUS
<1>0. /\ context.ops # <<>> /\ This.op = "isr_register_handler" /\ GoOn
      /\ handlers' = handlers \union {This.intr}
      /\ UNCHANGED <<interrupts, eax, stack, tasks, current_task, expected, attr, cursor,
                     loaded, old_directory, old_interrupts, master, slave>>
  BY DEF isr_register_handler, At, This, memory, pic, screen
<1>1. Running /\ This \in PlainOp /\ Rest \in Seq(PlainOp)
  BY <1>0, PhaseNow
<1>2. /\ context' \in CodeType /\ context'.ops = Rest
      /\ context'.owner = context.owner /\ context'.intr = context.intr
      /\ context'.old_interrupts = context.old_interrupts
  BY <1>0, GoOnKeeps DEF IInv, Types
<1>3. This.intr \in {ISR_IRQ(1), ISR_IRQ(12)}
  BY <1>0, <1>1, PlainNow
<1>4. Types'
  BY <1>0, <1>2, <1>3 DEF IInv, Types
<1>5. Frames'
  BY <1>0, <1>1, <1>2, OwnCode, FramesKept DEF IInv
<1>6. CurrentRuns'
  BY <1>0 DEF IInv, CurrentRuns
<1>7. Running'
  BY <1>0, <1>1, <1>2 DEF Running, Preemptible
<1> QED
  BY <1>4, <1>5, <1>6, <1>7 DEF IInv

(* What the main task starts is one of the pieces of code above.           *)
LEMMA MainCode ==
  ASSUME NEW ops \in MainOps
  PROVE  \/ ops \in Seq(PlainOp)
         \/ \E work \in Work, u \in Created : ops \in {Section(work, u), Nested(work, u)}
<1>1. CASE ops = pit_dump_time
  <2>1. /\ Cursor(ClockPlace) \in PlainOp /\ CursorBack \in PlainOp
        /\ Char("letter", IO_DEFAULT, -1) \in PlainOp
    BY DEF Cursor, CursorBack, Char, PlainOp, Colours
  <2> QED
    BY <1>1, <2>1 DEF pit_dump_time
<1>2. ASSUME NEW t \in Created,
             ops \in {task_create(t), elf_create_task(t), task_destroy(t), elf_destroy_task(t)}
      PROVE  \E work \in Work, u \in Created : ops \in {Section(work, u), Nested(work, u)}
  <2>1. task_create(t) = Section("task_add", t) /\ task_destroy(t) = Section("task_remove", t)
    BY Zenon DEF task_create, task_destroy, Section
  <2>2. /\ elf_create_task(t) = Nested("task_add", t)
        /\ elf_destroy_task(t) = Nested("task_remove", t)
    BY <2>1, Zenon DEF elf_create_task, elf_destroy_task, Nested
  <2>3. "task_add" \in Work /\ "task_remove" \in Work
    BY DEF Work
  <2> QED
    BY <1>2, <2>1, <2>2, <2>3, Zenon
<1>3. PS2 \in Created /\ Users \subseteq Created
  BY InterruptsAssumption DEF Created, Tasks
<1> QED
  BY <1>1, <1>2, <1>3 DEF MainOps

LEMMA MainStepKeeps == IInv /\ MainStep => IInv'
<1> SUFFICES ASSUME IInv, MainStep PROVE IInv'
  OBVIOUS
<1>0. /\ context.owner = MAIN /\ context.intr = NONE /\ context.ops = <<>>
      /\ UNCHANGED <<interrupts, eax, stack, handlers, tasks, current_task, expected, attr,
                     cursor, loaded, old_directory, old_interrupts, master, slave>>
  BY DEF MainStep, kernel, memory, pic, screen
<1>1. PICK ops \in MainOps : context' = [context EXCEPT !.ops = ops]
  BY DEF MainStep
<1>2. Running /\ current_task = MAIN
  BY <1>0, SectionNow DEF IInv, Running, InSection, Handling, Preemptible
<1>3. ops \in Seq(Op)
  BY MainCode, SectionCode, NestedCode, Operations
<1>4. /\ context' \in CodeType /\ context'.ops = ops
      /\ context'.owner = context.owner /\ context'.intr = context.intr
      /\ context'.old_interrupts = context.old_interrupts
  BY <1>1, <1>3 DEF IInv, Types, CodeType
<1>5. Types'
  BY <1>0, <1>4 DEF IInv, Types
<1>6. Frames'
  BY <1>0, <1>2, <1>4, OwnCode, FramesKept DEF IInv
<1>7. CurrentRuns'
  BY <1>0 DEF IInv, CurrentRuns
<1>8. Running'
  BY <1>0, <1>2, <1>4, MainCode DEF Running, Preemptible
<1> QED
  BY <1>5, <1>6, <1>7, <1>8 DEF IInv

(* A step of the main task in a section, or at its beginning.              *)
LEMMA SectionStep ==
  ASSUME IInv, Running \/ InSection, UNCHANGED <<stack, tasks, expected, current_task>>,
         context'.intr = NONE
  PROVE  Frames' /\ CurrentRuns'
BY OwnCode, FramesKept DEF IInv, CurrentRuns

LEMMA DisableKeeps == IInv /\ DisableInterrupts => IInv'
<1> SUFFICES ASSUME IInv, DisableInterrupts PROVE IInv'
  OBVIOUS
<1>0. /\ context.ops # <<>> /\ This.op = "cli" /\ interrupts' = 0
      /\ context' = [context EXCEPT !.ops = Rest,
                                    !.old_interrupts = <<interrupts>> \o context.old_interrupts]
      /\ UNCHANGED <<eax, stack, handlers, tasks, current_task, expected, attr, cursor,
                     loaded, old_directory, old_interrupts, master, slave>>
  BY DEF DisableInterrupts, At, This, isr_enable_interrupts, kernel, memory, pic, screen
<1>1. \/ InSection
      \/ /\ Running /\ current_task = MAIN
         /\ \E work \in Work, u \in Created :
              Rest \in {Left(Section(work, u), 1), Left(Nested(work, u), 1)}
  BY <1>0, PhaseNow
<1>2. /\ context' \in CodeType /\ context'.ops = Rest
      /\ context'.owner = context.owner /\ context'.intr = context.intr
      /\ context'.old_interrupts = <<interrupts>> \o context.old_interrupts
  <2>1. /\ context \in CodeType /\ context.ops \in Seq(Op) /\ interrupts \in {0, 1}
        /\ context.old_interrupts \in Seq({0, 1})
    BY DEF IInv, Types, CodeType
  <2>2. Rest \in Seq(Op)
    BY <1>0, <2>1, HeadTailProperties DEF Rest
  <2>3. <<interrupts>> \o context.old_interrupts \in Seq({0, 1})
    BY <2>1, Cons, Zenon
  <2> QED
    BY <1>0, <2>1, <2>2, <2>3 DEF CodeType
<1>3. Types'
  BY <1>0, <1>2 DEF IInv, Types
<1>4. context.intr = NONE /\ context.owner = MAIN /\ stack[MAIN] = <<>> /\ current_task = MAIN
      /\ master = {} /\ slave = {}
  BY <1>1 DEF Running, InSection, Preemptible
<1>5. Frames' /\ CurrentRuns'
  BY <1>0, <1>1, <1>2, <1>4, SectionStep
<1>6. \E work \in Work, u \in Created : Position(work, u)'
  <2>1. CASE InSection
    <3>1. PICK work \in Work, u \in Created : SectionNext(work, u)
      BY <2>1, SectionNow DEF InSection
    <3>2. /\ NotModifying /\ context.old_interrupts = <<1>>
          /\ Rest = Left(Nested(work, u), 4) /\ interrupts = 0
      BY <1>0, <2>1, <3>1 DEF SectionNext, Do, Of, Work, InSection
    <3>3. NotModifying' /\ At2(Nested(work, u), 4)'
      BY <1>0, <1>2, <3>2 DEF NotModifying, At2
    <3> QED
      BY <3>3 DEF Position
  <2>2. CASE Running /\ \E work \in Work, u \in Created :
                          Rest \in {Left(Section(work, u), 1), Left(Nested(work, u), 1)}
    <3>1. PICK work \in Work, u \in Created :
            Rest \in {Left(Section(work, u), 1), Left(Nested(work, u), 1)}
      BY <2>2
    <3>2. NotModifying /\ context'.old_interrupts = <<1>>
      BY <1>2, <1>4, <2>2 DEF NotModifying, Running, Preemptible
    <3>3. NotModifying' /\ (At1(Section(work, u), 1)' \/ At1(Nested(work, u), 1)')
      BY <1>0, <1>2, <3>1, <3>2 DEF NotModifying, At1
    <3> QED
      BY <3>3 DEF Position
  <2> QED
    BY <1>1, <2>1, <2>2
<1>7. InSection'
  BY <1>0, <1>2, <1>4, <1>6 DEF InSection
<1> QED
  BY <1>3, <1>5, <1>7 DEF IInv

LEMMA RestoreKeeps == IInv /\ RestoreInterrupts => IInv'
<1> SUFFICES ASSUME IInv, RestoreInterrupts PROVE IInv'
  OBVIOUS
<1>0. /\ context.ops # <<>> /\ This.op = "restore"
      /\ interrupts' = Head(context.old_interrupts)
      /\ context' = [context EXCEPT !.ops = Rest,
                                    !.old_interrupts = Tail(context.old_interrupts)]
      /\ UNCHANGED <<eax, stack, handlers, tasks, current_task, expected, attr, cursor,
                     loaded, old_directory, old_interrupts, master, slave>>
  BY DEF RestoreInterrupts, At, This, isr_enable_interrupts, kernel, memory, pic, screen
<1>1. InSection
  BY <1>0, PhaseNow DEF Sectioning
<1>2. PICK work \in Work, u \in Created : SectionNext(work, u)
  BY <1>1, SectionNow DEF InSection
<1>3. /\ NotModifying
      /\ \/ context.old_interrupts = <<1>> /\ Rest = <<>>
         \/ context.old_interrupts = <<0>> \o <<1>> /\ Rest = Left(Nested(work, u), 8)
  BY <1>0, <1>2 DEF SectionNext, Do, Of, Work
<1>4. \/ /\ interrupts' = 1 /\ Tail(context.old_interrupts) = <<>> /\ Rest = <<>>
      \/ /\ interrupts' = 0 /\ Tail(context.old_interrupts) = <<1>>
         /\ Rest = Left(Nested(work, u), 8)
  <2>1. /\ Head(<<1>>) = 1 /\ Tail(<<1>>) = <<>>
        /\ Head(<<0>> \o <<1>>) = 0 /\ Tail(<<0>> \o <<1>>) = <<1>>
    <3>1. 0 \in {0, 1} /\ <<1>> \in Seq({0, 1})
      OBVIOUS
    <3>2. Head(<<0>> \o <<1>>) = 0 /\ Tail(<<0>> \o <<1>>) = <<1>>
      BY <3>1, Cons, Zenon
    <3> QED
      BY <3>2
  <2> QED
    BY <1>0, <1>3, <2>1, Zenon
<1>5. /\ context' \in CodeType /\ context'.ops = Rest
      /\ context'.owner = context.owner /\ context'.intr = context.intr
      /\ context'.old_interrupts = Tail(context.old_interrupts)
  <2>1. context \in CodeType /\ context.ops \in Seq(Op)
    BY DEF IInv, Types, CodeType
  <2>2. Rest \in Seq(Op)
    BY <1>0, <2>1, HeadTailProperties DEF Rest
  <2>3. Tail(context.old_interrupts) \in Seq({0, 1})
    <3>1. <<1>> \in Seq({0, 1}) /\ <<>> \in Seq({0, 1})
      OBVIOUS
    <3> QED
      BY <1>4, <3>1, Zenon
  <2> QED
    BY <1>0, <2>1, <2>2, <2>3 DEF CodeType
<1>6. Types'
  BY <1>0, <1>4, <1>5 DEF IInv, Types
<1>7. Frames' /\ CurrentRuns'
  BY <1>0, <1>1, <1>5, SectionStep DEF InSection
<1>8. CASE interrupts' = 1 /\ Tail(context.old_interrupts) = <<>> /\ Rest = <<>>
  <2>1. Running'
    BY <1>0, <1>1, <1>3, <1>5, <1>8
      DEF Running, Preemptible, InSection, NotModifying
  <2> QED
    BY <1>6, <1>7, <2>1 DEF IInv
<1>9. CASE /\ interrupts' = 0 /\ Tail(context.old_interrupts) = <<1>>
           /\ Rest = Left(Nested(work, u), 8)
  <2>1. NotModifying' /\ At1(Nested(work, u), 8)'
    BY <1>0, <1>3, <1>5, <1>9 DEF NotModifying, At1
  <2>2. Position(work, u)'
    BY <2>1 DEF Position
  <2>3. InSection'
    BY <1>0, <1>1, <1>5, <1>9, <2>2 DEF InSection
  <2> QED
    BY <1>6, <1>7, <2>3 DEF IInv
<1> QED
  BY <1>4, <1>8, <1>9

LEMMA ModifyKeeps == IInv /\ vmm_modify_page_directory => IInv'
<1> SUFFICES ASSUME IInv, vmm_modify_page_directory PROVE IInv'
  OBVIOUS
<1>0. /\ context.ops # <<>> /\ This.op = "vmm_modify" /\ GoOn
      /\ UNCHANGED <<eax, stack, handlers, tasks, current_task, expected, attr, cursor,
                     master, slave>>
  BY DEF vmm_modify_page_directory, At, This, kernel, pic, screen
<1>1. InSection
  BY <1>0, PhaseNow DEF Sectioning
<1>2. PICK work \in Work, u \in Created : SectionNext(work, u)
  BY <1>1, SectionNow DEF InSection
<1>3. /\ NotModifying /\ This = Of("vmm_modify", u)
      /\ \/ context.old_interrupts = <<1>> /\ Rest = Left(Section(work, u), 2)
         \/ context.old_interrupts = <<1>> /\ Rest = Left(Nested(work, u), 2)
         \/ context.old_interrupts = <<0>> \o <<1>> /\ Rest = Left(Nested(work, u), 5)
  BY <1>0, <1>2 DEF SectionNext, Do, Of, Work
<1>4. /\ old_interrupts' = 0 /\ interrupts' = 0 /\ old_directory' = MAIN /\ loaded' = u
  BY <1>1, <1>3 DEF vmm_modify_page_directory, isr_enable_interrupts, NotModifying, InSection, Of
<1>5. /\ context' \in CodeType /\ context'.ops = Rest
      /\ context'.owner = context.owner /\ context'.intr = context.intr
      /\ context'.old_interrupts = context.old_interrupts
  BY <1>0, GoOnKeeps DEF IInv, Types
<1>6. Types'
  BY <1>0, <1>4, <1>5 DEF IInv, Types, Created, Tasks
<1>7. Frames' /\ CurrentRuns'
  BY <1>0, <1>1, <1>5, SectionStep DEF InSection
<1>8. Position(work, u)'
  <2>1. /\ Modifying'
        /\ At1(Section(work, u), 2)' \/ At1(Nested(work, u), 2)' \/ At2(Nested(work, u), 5)'
    BY <1>3, <1>4, <1>5 DEF Modifying, At1, At2
  <2> QED
    BY <2>1 DEF Position
<1>9. InSection'
  BY <1>0, <1>1, <1>4, <1>5, <1>8 DEF InSection
<1> QED
  BY <1>6, <1>7, <1>9 DEF IInv

LEMMA ModifiedKeeps == IInv /\ vmm_modified_page_directory => IInv'
<1> SUFFICES ASSUME IInv, vmm_modified_page_directory PROVE IInv'
  OBVIOUS
<1>0. /\ context.ops # <<>> /\ This.op = "vmm_modified" /\ GoOn
      /\ UNCHANGED <<eax, stack, handlers, tasks, current_task, expected, attr, cursor,
                     master, slave>>
  BY DEF vmm_modified_page_directory, At, This, kernel, pic, screen
<1>1. InSection
  BY <1>0, PhaseNow DEF Sectioning
<1>2. PICK work \in Work, u \in Created : SectionNext(work, u)
  BY <1>1, SectionNow DEF InSection
<1>3. /\ Modifying
      /\ \/ context.old_interrupts = <<1>> /\ Rest = Left(Section(work, u), 3)
         \/ context.old_interrupts = <<1>> /\ Rest = Left(Nested(work, u), 3)
         \/ context.old_interrupts = <<0>> \o <<1>> /\ Rest = Left(Nested(work, u), 6)
  BY <1>0, <1>2 DEF SectionNext, Do, Of, Work
<1>4. old_interrupts' = 0 /\ interrupts' = 0 /\ old_directory' = NONE /\ loaded' = MAIN
  BY <1>3, InterruptsAssumption
    DEF vmm_modified_page_directory, isr_enable_interrupts, Modifying, Tasks
<1>5. /\ context' \in CodeType /\ context'.ops = Rest
      /\ context'.owner = context.owner /\ context'.intr = context.intr
      /\ context'.old_interrupts = context.old_interrupts
  BY <1>0, GoOnKeeps DEF IInv, Types
<1>6. Types'
  BY <1>0, <1>4, <1>5 DEF IInv, Types, Tasks
<1>7. Frames' /\ CurrentRuns'
  BY <1>0, <1>1, <1>5, SectionStep DEF InSection
<1>8. Position(work, u)'
  <2>1. /\ NotModifying'
        /\ At1(Section(work, u), 3)' \/ At1(Nested(work, u), 3)' \/ At2(Nested(work, u), 6)'
    BY <1>3, <1>4, <1>5 DEF NotModifying, At1, At2
  <2> QED
    BY <2>1 DEF Position
<1>9. InSection'
  BY <1>0, <1>1, <1>4, <1>5, <1>8 DEF InSection
<1> QED
  BY <1>6, <1>7, <1>9 DEF IInv

(* The middle of a section, where the task is added or removed.            *)
LEMMA WorkStep ==
  ASSUME IInv, context.ops # <<>>, This.op \in Work, GoOn,
         UNCHANGED <<interrupts, current_task, loaded, old_directory, old_interrupts,
                     master, slave>>,
         UNCHANGED stack[MAIN]
  PROVE  /\ InSection /\ InSection' /\ This.task \in Created
         /\ context' \in CodeType
<1>1. InSection
  BY PhaseNow DEF Sectioning, Work
<1>2. PICK work \in Work, u \in Created : SectionNext(work, u)
  BY <1>1, SectionNow DEF InSection
<1>3. /\ NotModifying /\ This = Of(work, u)
      /\ \/ context.old_interrupts = <<1>> /\ Rest = Left(Section(work, u), 4)
         \/ context.old_interrupts = <<0>> \o <<1>> /\ Rest = Left(Nested(work, u), 7)
  BY <1>2 DEF SectionNext, Do, Of, Work
<1>4. /\ context' \in CodeType /\ context'.ops = Rest
      /\ context'.owner = context.owner /\ context'.intr = context.intr
      /\ context'.old_interrupts = context.old_interrupts
  BY GoOnKeeps DEF IInv, Types
<1>5. Position(work, u)'
  <2>1. NotModifying' /\ (At1(Section(work, u), 4)' \/ At2(Nested(work, u), 7)')
    BY <1>3, <1>4 DEF NotModifying, At1, At2
  <2> QED
    BY <2>1 DEF Position
<1>6. InSection'
  BY <1>1, <1>4, <1>5 DEF InSection
<1> QED
  BY <1>1, <1>3, <1>4, <1>6 DEF Of

LEMMA DriverCode == ps2_init \in Seq(PlainOp)
<1> DEFINE a == [op |-> "isr_register_handler", intr |-> ISR_IRQ(1)]
           b == [op |-> "isr_register_handler", intr |-> ISR_IRQ(12)]
           c == Attr(2)
           d == Char("letter", 2, -1)
           e == Attr(IO_DEFAULT)
<1>1. a \in PlainOp /\ b \in PlainOp /\ c \in PlainOp /\ d \in PlainOp /\ e \in PlainOp
  BY DEF PlainOp, Attr, Char, Colours
<1>2. ps2_init = <<a, b>> \o <<c, d, e>>
  BY DEF ps2_init, PrintIn
<1> HIDE DEF a, b, c, d, e
<1>3. <<a, b>> \in Seq(PlainOp) /\ <<c, d, e>> \in Seq(PlainOp)
  BY <1>1
<1> QED
  BY <1>2, <1>3, ConcatProperties, Zenon

LEMMA TaskAddKeeps == IInv /\ TaskAdd => IInv'
<1> SUFFICES ASSUME IInv, TaskAdd PROVE IInv'
  OBVIOUS
<1> PICK t : t = This.task
  OBVIOUS
<1>0. /\ context.ops # <<>> /\ This.op \in Work /\ GoOn
      /\ tasks' = [tasks EXCEPT ![t] = "running"]
      /\ expected' = [expected EXCEPT ![t] = 0]
      /\ UNCHANGED <<interrupts, eax, handlers, current_task, attr, cursor, loaded,
                     old_directory, old_interrupts, master, slave>>
  BY DEF TaskAdd, At, This, Work, memory, pic, screen
<1> DEFINE code == Code(t, NONE, IF t = PS2 THEN ps2_init ELSE <<>>)
<1>1. PICK garbage \in {NONE, ISR_IRQ(12)} :
        stack' = [stack EXCEPT ![t] = <<Frame(garbage, 1, 0, code)>>]
  BY DEF TaskAdd
<1>2. /\ Types /\ Frames /\ CurrentRuns
      /\ stack \in [Tasks -> Seq(FrameType)] /\ context.ops \in Seq(Op) /\ MAIN \in Tasks
  BY DEF IInv, Types, CodeType, Tasks
<1>3. t \in Created
  <2>1. InSection
    BY <1>0, PhaseNow DEF Sectioning, Work
  <2>2. PICK work \in Work, u \in Created : SectionNext(work, u)
    BY <2>1, SectionNow DEF InSection
  <2> QED
    BY <1>0, <2>2 DEF SectionNext, Do, Of, Work
<1>4. /\ InSection /\ InSection' /\ context' \in CodeType
  <2>1. UNCHANGED stack[MAIN]
    BY <1>1, <1>2, <1>3 DEF Created
  <2> QED
    BY <1>0, <2>1, WorkStep
<1> PICK frame : frame = Frame(garbage, 1, 0, code)
  OBVIOUS
<1>5. code \in CodeType /\ code.owner = t /\ code.intr = NONE /\ code.old_interrupts = <<>>
      /\ code.ops \in Seq(PlainOp)
  <2>1. ps2_init \in Seq(PlainOp) /\ ps2_init \in Seq(Op)
    BY DriverCode, Operations
  <2>2. <<>> \in Seq(Op) /\ <<>> \in Seq(PlainOp) /\ <<>> \in Seq({0, 1})
    OBVIOUS
  <2>3. t \in Tasks /\ NONE \in Vectors /\ 0 \in 0 .. IO_CHARS
    BY <1>3, ScreenSize DEF Created, Vectors
  <2> QED
    BY <2>1, <2>2, <2>3 DEF Code, CodeType
<1> HIDE DEF code
<1>6. frame \in FrameType /\ frame.interrupts = 1 /\ frame.eax = 0 /\ frame.code = code
  BY <1>5 DEF Frame, FrameType, Register, Vectors, NONE, ISR_IRQ
<1>7. /\ stack' = [stack EXCEPT ![t] = <<frame>>]
      /\ <<frame>> \in Seq(FrameType) /\ Len(<<frame>>) = 1 /\ <<frame>>[1] = frame
      /\ <<frame>> # <<>>
  BY <1>1, <1>6
<1>8. Types'
  BY <1>0, <1>2, <1>3, <1>4, <1>7 DEF Types, Created, Register
<1>9. Frames'
  <2>1. ASSUME NEW p \in Tasks, p # t PROVE Saved(p)'
    <3>1. stack'[p] = stack[p] /\ tasks'[p] = tasks[p] /\ expected'[p] = expected[p]
      BY <1>0, <1>2, <1>3, <1>7, <2>1 DEF Types, Created
    <3>2. ~ Asking /\ context.intr = NONE /\ context'.intr = NONE /\ current_task' = current_task
      BY <1>0, <1>4, OwnCode DEF InSection
    <3> QED
      BY <1>2, <3>1, <3>2, SavedKept DEF Frames
  <2>2. /\ stack'[t] = <<frame>> /\ expected'[t] = 0
    BY <1>0, <1>2, <1>3, <1>7 DEF Types, Created
  <2>3. Preemptible(t, frame.code)
    BY <1>5, <1>6 DEF Preemptible
  <2>4. Suspended(t, frame)'
    BY <1>6, <2>2, <2>3 DEF Suspended, Preemptible
  <2>5. Saved(t)'
    <3>1. Len(stack'[t]) = 1 /\ stack'[t] # <<>> /\ stack'[t][1] = frame
      BY <1>7, <2>2, Zenon
    <3>2. stack'[t][1].interrupts = 1 /\ stack'[t][1].eax = 0 /\ Preemptible(t, stack'[t][1].code)
      BY <1>6, <2>3, <3>1, Zenon
    <3> QED
      BY <2>2, <3>1, <3>2 DEF Saved, Suspended, Preemptible
  <2> QED
    BY <2>1, <2>5 DEF Frames
<1>10. CurrentRuns'
  BY <1>0, <1>2, <1>3 DEF CurrentRuns, Types, Created
<1> QED
  BY <1>4, <1>8, <1>9, <1>10 DEF IInv

LEMMA TaskRemoveKeeps == IInv /\ TaskRemove => IInv'
<1> SUFFICES ASSUME IInv, TaskRemove PROVE IInv'
  OBVIOUS
<1> PICK t : t = This.task
  OBVIOUS
<1>0. /\ context.ops # <<>> /\ This.op \in Work /\ GoOn
      /\ tasks' = [tasks EXCEPT ![t] = "none"]
      /\ stack' = [stack EXCEPT ![t] = <<>>]
      /\ UNCHANGED <<interrupts, eax, handlers, current_task, attr, cursor, loaded, expected,
                     old_directory, old_interrupts, master, slave>>
  BY DEF TaskRemove, At, This, Work, memory, pic, screen
<1>1. /\ Types /\ Frames /\ CurrentRuns /\ stack \in [Tasks -> Seq(FrameType)] /\ MAIN \in Tasks
  BY DEF IInv, Types, Tasks
<1>2. InSection
  BY <1>0, PhaseNow DEF Sectioning, Work
<1>3. t \in Created
  <2>1. PICK work \in Work, u \in Created : SectionNext(work, u)
    BY <1>2, SectionNow DEF InSection
  <2> QED
    BY <1>0, <2>1 DEF SectionNext, Do, Of, Work
<1>4. InSection' /\ context' \in CodeType
  <2>1. UNCHANGED stack[MAIN]
    BY <1>0, <1>1, <1>3 DEF Created
  <2> QED
    BY <1>0, <2>1, WorkStep
<1>5. Types'
  BY <1>0, <1>1, <1>3, <1>4 DEF Types, Created
<1>6. Frames'
  <2>1. ASSUME NEW p \in Tasks, p # t PROVE Saved(p)'
    <3>1. stack'[p] = stack[p] /\ tasks'[p] = tasks[p] /\ expected'[p] = expected[p]
      BY <1>0, <1>1, <1>3, <2>1 DEF Types, Created
    <3>2. ~ Asking /\ context.intr = NONE /\ context'.intr = NONE /\ current_task' = current_task
      BY <1>0, <1>2, <1>4, OwnCode DEF InSection
    <3> QED
      BY <1>1, <3>1, <3>2, SavedKept DEF Frames
  <2>2. stack'[t] = <<>> /\ tasks'[t] = "none" /\ Len(<<>>) = 0
    BY <1>0, <1>1, <1>3 DEF Types, Created
  <2>3. Saved(t)'
    BY <2>2 DEF Saved
  <2> QED
    BY <2>1, <2>3 DEF Frames
<1>7. CurrentRuns'
  BY <1>0, <1>1, <1>2, <1>3 DEF CurrentRuns, Types, Created, InSection
<1> QED
  BY <1>4, <1>5, <1>6, <1>7 DEF IInv

-----------------------------------------------------------------------------
(* Entering the kernel.                                                    *)

LEMMA EnterKeeps ==
  ASSUME IInv, Running, NEW intr \in Vectors, NEW register \in Register, NEW ops \in Seq(Op),
         EnterKernel(intr, register, ops), intr # NONE,
         UNCHANGED <<kernel, memory, screen>>, master' \subseteq 0 .. 7, slave' \subseteq 8 .. 15,
         register = eax \/ Asking'
  PROVE  /\ Types' /\ Frames' /\ CurrentRuns'
         /\ interrupts' = 0 /\ loaded' = current_task' /\ old_directory' = NONE
         /\ current_task' = current_task
         /\ context'.intr = intr /\ context'.owner = current_task
         /\ context'.ops = ops \o <<Do("end")>>
<1> PICK t : t = current_task
  OBVIOUS
<1>1. /\ Types /\ Frames /\ CurrentRuns /\ t \in Tasks /\ context \in CodeType
      /\ stack \in [Tasks -> Seq(FrameType)]
  BY DEF IInv, Types
<1>2. /\ context.owner = t /\ context.intr = NONE /\ stack[t] = <<>> /\ interrupts = 1
      /\ Preemptible(t, context) /\ ~ Asking
  BY OwnCode DEF Running, Preemptible
<1> PICK frame : frame = Frame(intr, 1, register, context)
  OBVIOUS
<1>3. /\ frame \in FrameType /\ frame.interrupts = 1 /\ frame.eax = register
      /\ Preemptible(t, frame.code)
  BY <1>1, <1>2 DEF Frame, FrameType
<1>4. /\ <<frame>> \o <<>> = <<frame>> /\ <<frame>> \in Seq(FrameType)
      /\ Len(<<frame>>) = 1 /\ <<frame>> # <<>> /\ <<frame>>[1] = frame
  BY <1>3
<1>5. stack' = [stack EXCEPT ![t] = <<frame>>]
  <2>1. stack' = [stack EXCEPT ![t] = <<frame>> \o stack[t]]
    BY <1>1, <1>2 DEF EnterKernel
  <2> QED
    BY <1>2, <1>4, <2>1
<1>6. context' = Code(t, intr, ops \o <<Do("end")>>)
  BY <1>2 DEF EnterKernel
<1>7. /\ context' \in CodeType /\ context'.intr = intr /\ context'.owner = t
      /\ context'.ops = ops \o <<Do("end")>>
  <2>1. ops \o <<Do("end")>> \in Seq(Op)
    BY EndIsOp, ConcatProperties, Zenon
  <2>2. <<>> \in Seq({0, 1}) /\ 0 \in 0 .. IO_CHARS
    BY ScreenSize
  <2> QED
    BY <1>1, <1>6, <2>1, <2>2 DEF Code, CodeType
<1>8. interrupts' = 0 /\ eax' = 0
  BY DEF EnterKernel, INTR_32
<1>9. UNCHANGED <<handlers, tasks, current_task, expected, loaded, old_directory,
                  old_interrupts, attr, cursor>>
  BY DEF kernel, memory, screen
<1>10. Types'
  BY <1>1, <1>4, <1>5, <1>7, <1>8, <1>9 DEF Types, Register
<1>11. Frames'
  <2>1. ASSUME NEW p \in Tasks, p # t PROVE Saved(p)'
    <3>1. stack'[p] = stack[p] /\ tasks'[p] = tasks[p] /\ expected'[p] = expected[p]
      BY <1>1, <1>5, <1>9, <2>1
    <3>2. Saved(p)
      BY <1>1 DEF Frames
    <3>3. stack[p] # <<>> => Suspended(p, stack[p][1])'
      BY <1>2, <3>1, <3>2, SuspendedKept DEF Saved
    <3>4. tasks[p] = "running" => stack[p] # <<>>
      BY <2>1, <3>2 DEF Saved
    <3> QED
      BY <3>1, <3>2, <3>3, <3>4 DEF Saved
  <2>2. stack'[t] = <<frame>> /\ expected'[t] = expected[t]
    BY <1>1, <1>5, <1>9
  <2>3. t # MAIN /\ ~ (Asking' /\ context'.owner = t) => frame.eax = expected'[t]
    BY <1>3, <1>7, <2>2 DEF Running
  <2>4. Len(stack'[t]) = 1 /\ stack'[t] # <<>> /\ stack'[t][1] = frame
    BY <1>4, <2>2, Zenon
  <2>5. Suspended(t, stack[t][1])'
    <3>1. /\ stack'[t][1].interrupts = 1 /\ Preemptible(t, stack'[t][1].code)
          /\ t # MAIN /\ ~ (Asking' /\ context'.owner = t) => stack'[t][1].eax = expected'[t]
      BY <1>3, <2>3, <2>4, Zenon
    <3> QED
      BY <3>1 DEF Suspended, Preemptible
  <2>6. Saved(t)'
    BY <2>4, <2>5 DEF Saved
  <2> QED
    BY <2>1, <2>6 DEF Frames
<1>12. CurrentRuns'
  BY <1>1, <1>9 DEF CurrentRuns
<1>13. loaded' = current_task' /\ old_directory' = NONE
  BY <1>9 DEF Running
<1> QED
  BY <1>7, <1>8, <1>9, <1>10, <1>11, <1>12, <1>13

(* What the handlers do, with the end of every interrupt.                  *)
LEMMA HandlerCode ==
  ASSUME NEW n \in 0 .. 15, handlers \subseteq {ISR_IRQ(0), ISR_IRQ(1), ISR_IRQ(12), ISR_SYSCALL},
         NEW ops \in HandlerOps(ISR_IRQ(n))
  PROVE  /\ ops \in Seq(Op)
         /\ \/ ops = <<Do("schedule")>>
            \/ \E colour \in Colours, k \in {0, 3} : ops \o <<Do("end")>> = Left(Message(colour), k)
            \/ \E place \in Places, colour \in Colours :
                 ops \o <<Do("end")>> = Left(Pointer(place, colour), 0)
<1>1. ASSUME NEW colour \in Colours, ops = PrintIn(colour, -1)
      PROVE  ops \in Seq(Op) /\ ops \o <<Do("end")>> = Left(Message(colour), 0)
  <2>1. Attr(colour) \in Op /\ Char("letter", colour, -1) \in Op /\ Attr(IO_DEFAULT) \in Op
    BY Operations DEF Colours
  <2>2. PrintIn(colour, -1) \in Seq(Op)
    BY <2>1 DEF PrintIn
  <2> QED
    BY <1>1, <2>2, MessageLeft, Zenon DEF Message
<1>2. ASSUME ops = <<>>
      PROVE  ops \in Seq(Op) /\ ops \o <<Do("end")>> = Left(Message(2), 3)
  <2>1. <<>> \o <<Do("end")>> = <<Do("end")>>
    BY EndIsOp, ConcatEmptySeq, Zenon
  <2>2. 2 \in Colours /\ <<>> \in Seq(Op)
    BY DEF Colours
  <2> QED
    BY <1>2, <2>1, <2>2, MessageEnd, Zenon
<1>3. ASSUME NEW place \in Places, NEW colour \in Colours, ops = handle_mouse_event(place, colour)
      PROVE  ops \in Seq(Op) /\ ops \o <<Do("end")>> = Left(Pointer(place, colour), 0)
  <2>1. /\ Cursor(place) \in Op /\ Attr(colour) \in Op /\ Char("letter", colour, place) \in Op
        /\ Attr(IO_DEFAULT) \in Op /\ CursorBack \in Op
    BY Operations DEF Colours
  <2>2. /\ <<Cursor(place)>> \in Seq(Op) /\ PrintIn(colour, place) \in Seq(Op)
        /\ <<CursorBack>> \in Seq(Op)
    BY <2>1 DEF PrintIn
  <2>3. handle_mouse_event(place, colour) \in Seq(Op)
    BY <2>2, ConcatProperties, Zenon DEF handle_mouse_event
  <2> QED
    BY <1>3, <2>3, PointerLeft, Zenon DEF Pointer
<1>4. ASSUME ops = <<Do("schedule")>> PROVE ops \in Seq(Op)
  BY <1>4, Operations, One, Zenon
<1>5. \/ ops \in {PrintIn(2, -1)} \/ ops \in {<<Do("schedule")>>}
      \/ ops \in {<<>>, handle_keyboard_event}
      \/ ops \in {<<>>} \union {handle_mouse_event(p, c) : p \in Places, c \in {6, 9}}
  <2>1. \/ ISR_IRQ(n) \notin handlers \/ ISR_IRQ(n) = ISR_IRQ(0)
        \/ ISR_IRQ(n) = ISR_IRQ(1) \/ ISR_IRQ(n) = ISR_IRQ(12)
    BY DEF ISR_IRQ, ISR_SYSCALL
  <2> HIDE DEF ISR_IRQ
  <2> QED
    BY <2>1 DEF HandlerOps
<1>6. {2, 6, 9} \subseteq Colours /\ 0 \in {0, 3} /\ 3 \in {0, 3}
  BY DEF Colours
<1>7. \/ ops = PrintIn(2, -1) \/ ops = <<Do("schedule")>> \/ ops = <<>> \/ ops = PrintIn(9, -1)
      \/ \E place \in Places, colour \in {6, 9} : ops = handle_mouse_event(place, colour)
  BY <1>5 DEF handle_keyboard_event
<1> QED
  BY <1>1, <1>2, <1>3, <1>4, <1>6, <1>7

(* A handler begins.                                                       *)
LEMMA HandlerBegins ==
  ASSUME IInv, Running, NEW n \in 0 .. 15, NEW ops \in HandlerOps(ISR_IRQ(n)),
         EnterKernel(ISR_IRQ(n), eax, ops), UNCHANGED <<kernel, memory, screen>>,
         master' \subseteq 0 .. 7, slave' \subseteq 8 .. 15, Single(master'), Single(slave'),
         slave' # {} => n >= 8
  PROVE  IInv'
<1>1. Types /\ eax \in Register
  BY DEF IInv, Types
<1>2. /\ ops \in Seq(Op)
      /\ \/ ops = <<Do("schedule")>>
         \/ \E colour \in Colours, k \in {0, 3} : ops \o <<Do("end")>> = Left(Message(colour), k)
         \/ \E place \in Places, colour \in Colours :
              ops \o <<Do("end")>> = Left(Pointer(place, colour), 0)
  BY <1>1, HandlerCode DEF Types
<1>3. ISR_IRQ(n) \in Vectors /\ ISR_IRQ(n) # NONE /\ IS_IRQ(ISR_IRQ(n))
  BY DEF ISR_IRQ, Vectors, NONE, IS_IRQ
<1>4. /\ Types' /\ Frames' /\ CurrentRuns'
      /\ interrupts' = 0 /\ loaded' = current_task' /\ old_directory' = NONE
      /\ current_task' = current_task
      /\ context'.intr = ISR_IRQ(n) /\ context'.owner = current_task
      /\ context'.ops = ops \o <<Do("end")>>
  BY <1>1, <1>2, <1>3, EnterKeeps
<1>5. InService'
  BY <1>3, <1>4 DEF InService, Single, ISR_IRQ
<1>6. Switching' \/ Printing'
  <2>1. CASE ops = <<Do("schedule")>>
    BY <1>4, <2>1 DEF Switching
  <2>2. ASSUME NEW colour \in Colours, NEW k \in {0, 3},
               ops \o <<Do("end")>> = Left(Message(colour), k)
        PROVE  Printing'
    BY <1>4, <2>2 DEF Printing
  <2>3. ASSUME NEW place \in Places, NEW colour \in Colours,
               ops \o <<Do("end")>> = Left(Pointer(place, colour), 0)
        PROVE  Printing'
    BY <1>4, <2>3 DEF Printing
  <2> QED
    BY <1>2, <2>1, <2>2, <2>3
<1>7. Handling'
  BY <1>3, <1>4, <1>5, <1>6 DEF Handling
<1> QED
  BY <1>4, <1>7 DEF IInv

LEMMA OnlyRunning == ASSUME IInv, interrupts = 1 PROVE Running
BY DEF IInv, InSection, Handling

LEMMA InterruptKeeps ==
  ASSUME NEW n \in Irqs, IInv, Interrupt(n) \/ SpuriousInterrupt(n)
  PROVE  IInv'
<1>1. n \in 0 .. 15
  BY InterruptsAssumption
<1>2. Running /\ master = {} /\ slave = {}
  BY OnlyRunning DEF Interrupt, SpuriousInterrupt, Running
<1>3. CASE Interrupt(n)
  <2>1. /\ UNCHANGED <<kernel, memory, screen>>
        /\ master' = {MasterLine(n)} /\ slave' = IF n >= 8 THEN {n} ELSE {}
        /\ \E ops \in HandlerOps(ISR_IRQ(n)) : EnterKernel(ISR_IRQ(n), eax, ops)
    BY <1>2, <1>3 DEF Interrupt
  <2>2. /\ master' \subseteq 0 .. 7 /\ slave' \subseteq 8 .. 15
        /\ Single(master') /\ Single(slave')
        /\ slave' # {} => n >= 8
    BY <1>1, <2>1 DEF MasterLine, Single
  <2>3. PICK ops \in HandlerOps(ISR_IRQ(n)) : EnterKernel(ISR_IRQ(n), eax, ops)
    BY <2>1
  <2> QED
    BY <1>1, <1>2, <2>1, <2>2, <2>3, HandlerBegins
<1>4. CASE SpuriousInterrupt(n)
  <2> PICK m : m = IF n >= 8 THEN 15 ELSE 7
    OBVIOUS
  <2>1. /\ UNCHANGED <<kernel, memory, screen>>
        /\ master' = (IF n >= 8 THEN {2} ELSE {}) /\ slave' = {}
        /\ \E ops \in HandlerOps(ISR_IRQ(m)) : EnterKernel(ISR_IRQ(m), eax, ops)
    BY <1>2, <1>4, Zenon DEF SpuriousInterrupt
  <2>2. /\ m \in 0 .. 15 /\ master' \subseteq 0 .. 7 /\ slave' \subseteq 8 .. 15
        /\ Single(master') /\ Single(slave')
    BY <2>1 DEF Single
  <2> QED
    BY <1>2, <2>1, <2>2, HandlerBegins
<1> QED
  BY <1>3, <1>4

LEMMA SystemCallKeeps == IInv /\ SystemCall => IInv'
<1> SUFFICES ASSUME IInv, SystemCall PROVE IInv'
  OBVIOUS
<1>0. /\ context.owner # MAIN /\ context.intr = NONE
      /\ UNCHANGED <<kernel, memory, pic, screen>>
  BY DEF SystemCall
<1>1. PICK call \in Exits \union SystemCalls : EnterKernel(ISR_SYSCALL, call.id, <<call>>)
  BY DEF SystemCall
<1>2. Running
  BY <1>0 DEF IInv, InSection, Handling
<1>3. /\ call \in Call
      /\ call.op = "sys_io_putchar" /\ call.c = "line_feed" => cursor < IO_CHARS
  BY DEF Exits, SystemCalls, Call
<1>4. call \in Op /\ <<call>> \in Seq(Op) /\ call.id \in Register
  BY <1>3, Operations, CallNow DEF Register
<1>5. ISR_SYSCALL \in Vectors /\ ISR_SYSCALL # NONE /\ ~ IS_IRQ(ISR_SYSCALL)
  BY DEF ISR_SYSCALL, Vectors, NONE, IS_IRQ, ISR_IRQ
<1>6. Asking'
  <2>1. /\ context' = Code(context.owner, ISR_SYSCALL, <<call>> \o <<Do("end")>>)
        /\ current_task' = current_task /\ cursor' = cursor
    BY <1>0, <1>1 DEF EnterKernel, kernel, screen
  <2>2. /\ context'.intr = ISR_SYSCALL /\ context'.owner = context.owner
        /\ context'.ops = <<call>> \o <<Do("end")>>
    BY <2>1 DEF Code
  <2>3. context.owner = current_task
    BY <1>2 DEF Running, Preemptible
  <2> QED
    BY <1>0, <1>3, <2>1, <2>2, <2>3 DEF Asking
<1>7. /\ master' = {} /\ slave' = {}
  BY <1>0, <1>2 DEF pic, Running
<1>8. /\ Types' /\ Frames' /\ CurrentRuns'
      /\ interrupts' = 0 /\ loaded' = current_task' /\ old_directory' = NONE
      /\ context'.intr = ISR_SYSCALL
  <2>1. master' \subseteq 0 .. 7 /\ slave' \subseteq 8 .. 15
    BY <1>7
  <2> QED
    BY <1>0, <1>1, <1>2, <1>4, <1>5, <1>6, <2>1, EnterKeeps
<1>9. Handling'
  BY <1>5, <1>6, <1>7, <1>8 DEF Handling, InService, Single
<1> QED
  BY <1>8, <1>9 DEF IInv

-----------------------------------------------------------------------------
(* In the kernel, and out of it.                                           *)

(* What Handling says of everything but the phase.                         *)
LEMMA HandlingGoesOn ==
  ASSUME Handling, UNCHANGED <<interrupts, old_directory, master, slave>>,
         loaded' = current_task', context'.intr = context.intr,
         Asking' \/ Switching' \/ Printing' \/ Ending'
  PROVE  Handling'
BY DEF Handling, InService

LEMMA ReturnsNext ==
  ASSUME context'.ops = <<Do("end")>> PROVE Printing'
<1>1. 2 \in Colours /\ 3 \in 0 .. 3
  BY DEF Colours
<1>2. context'.ops = Left(Message(2), 3)
  BY <1>1, MessageEnd
<1> QED
  BY <1>1, <1>2 DEF Printing

LEMMA ScheduleKeeps == IInv /\ Schedule => IInv'
<1> SUFFICES ASSUME IInv, Schedule PROVE IInv'
  OBVIOUS
<1>0. /\ context.ops # <<>> /\ This.op = "schedule" /\ GoOn
      /\ UNCHANGED <<interrupts, eax, stack, handlers, tasks, expected, old_directory,
                     old_interrupts, master, slave, attr, cursor>>
  BY DEF Schedule, At, This, pic, screen
<1>1. Handling /\ Switching
  BY <1>0, PhaseNow
<1>2. Rest = <<Do("end")>> /\ context.intr # NONE /\ loaded = current_task
  BY <1>1, SwitchingNow DEF Handling
<1>3. /\ current_task' \in Tasks /\ tasks[current_task'] = "running" /\ loaded' = current_task'
  <2>1. CASE UNCHANGED <<loaded, current_task>>
    BY <1>2, <2>1 DEF IInv, Types, CurrentRuns
  <2>2. CASE \E next \in Others : schedule_switch_task(next)
    BY <2>2 DEF Others, schedule_switch_task
  <2> QED
    BY <2>1, <2>2 DEF Schedule
<1>4. /\ context' \in CodeType /\ context'.ops = Rest
      /\ context'.owner = context.owner /\ context'.intr = context.intr
  BY <1>0, GoOnKeeps DEF IInv, Types
<1>5. Types'
  BY <1>0, <1>3, <1>4 DEF IInv, Types
<1>6. Frames'
  <2>1. ~ Asking
    BY <1>0, NotAsking
  <2> QED
    BY <1>0, <1>2, <2>1, FramesKept DEF IInv
<1>7. CurrentRuns'
  BY <1>0, <1>3 DEF CurrentRuns
<1>8. Handling'
  BY <1>0, <1>1, <1>2, <1>3, <1>4, ReturnsNext, HandlingGoesOn
<1> QED
  BY <1>5, <1>6, <1>7, <1>8 DEF IInv

LEMMA ExitKeeps == IInv /\ Exit => IInv'
<1> SUFFICES ASSUME IInv, Exit PROVE IInv'
  OBVIOUS
<1>0. /\ context.ops # <<>> /\ This.op = "exit" /\ GoOn
      /\ tasks' = [tasks EXCEPT ![current_task] = "stopped"]
      /\ UNCHANGED <<interrupts, eax, handlers, expected, old_directory, old_interrupts,
                     master, slave, attr, cursor>>
  BY DEF Exit, At, This, pic, screen
<1>1. Handling /\ Asking
  BY <1>0, PhaseNow
<1>2. Rest = <<Do("end")>> /\ context.intr # NONE /\ current_task = context.owner
  BY <1>1, AskingNow DEF Handling, Asking
<1>3. /\ current_task' \in Tasks /\ tasks[current_task'] = "running"
      /\ current_task' # current_task /\ loaded' = current_task'
  BY DEF Exit, Others, schedule_switch_task
<1>4. stack' = stack
  BY <1>2, <1>3 DEF Exit, SetResult
<1>5. /\ context' \in CodeType /\ context'.ops = Rest
      /\ context'.owner = context.owner /\ context'.intr = context.intr
  BY <1>0, GoOnKeeps DEF IInv, Types
<1>6. Types'
  BY <1>0, <1>3, <1>4, <1>5 DEF IInv, Types
<1>7. Frames'
  <2>1. ASSUME NEW t \in Tasks, t # current_task PROVE Saved(t)'
    BY <1>0, <1>2, <1>4, <2>1, SavedKept DEF IInv, Types, Frames
  <2>2. ASSUME NEW t \in Tasks, t = current_task PROVE Saved(t)'
    <3>1. Saved(t) /\ tasks'[t] = "stopped" /\ stack'[t] = stack[t]
      BY <1>0, <1>4, <2>2 DEF IInv, Types, Frames
    <3> QED
      BY <3>1 DEF Saved, Suspended, Preemptible
  <2> QED
    BY <2>1, <2>2 DEF Frames
<1>8. CurrentRuns'
  BY <1>0, <1>3 DEF IInv, Types, CurrentRuns
<1>9. Handling'
  BY <1>0, <1>1, <1>2, <1>3, <1>5, ReturnsNext, HandlingGoesOn
<1> QED
  BY <1>6, <1>7, <1>8, <1>9 DEF IInv

(* A system call that returns ret to its caller.                           *)
LEMMA AnswerKeeps ==
  ASSUME IInv, Handling, Asking, NEW ret \in Register, Answer(ret),
         attr' \in Colours, cursor' \in 0 .. IO_CHARS
  PROVE  IInv'
<1> PICK t : t = current_task
  OBVIOUS
<1>0. /\ GoOn /\ stack' = [stack EXCEPT ![t] = WithEax(stack[t], ret)]
      /\ expected' = [expected EXCEPT ![t] = ret]
      /\ context.owner = t /\ context.ops # <<>> /\ Rest = <<Do("end")>> /\ context.intr # NONE
      /\ UNCHANGED <<interrupts, eax, handlers, tasks, current_task, loaded, old_directory,
                     old_interrupts, master, slave>>
  BY AskingNow DEF Answer, SetResult, pic, Asking, Handling
<1>1. /\ Types /\ Frames /\ CurrentRuns /\ t \in Tasks /\ stack \in [Tasks -> Seq(FrameType)]
      /\ expected \in [Tasks -> Register]
  BY DEF IInv, Types
<1>2. /\ context' \in CodeType /\ context'.ops = Rest
      /\ context'.owner = context.owner /\ context'.intr = context.intr
  BY <1>0, <1>1, GoOnKeeps DEF Types
<1> PICK old : old = stack[t][1]
  OBVIOUS
<1>3. stack[t] \in Seq(FrameType) /\ stack[t] # <<>> /\ Len(stack[t]) <= 1 /\ Suspended(t, old)
  BY <1>0, <1>1 DEF Frames, Saved, CurrentRuns
<1> PICK frame : frame = [old EXCEPT !.eax = ret]
  OBVIOUS
<1>4. /\ old \in FrameType /\ Head(stack[t]) = old /\ Tail(stack[t]) = <<>>
  BY <1>3
<1>5. /\ frame \in FrameType /\ frame.interrupts = old.interrupts /\ frame.code = old.code
      /\ frame.eax = ret
  BY <1>4 DEF FrameType
<1>6. /\ <<frame>> \o <<>> = <<frame>> /\ <<frame>> \in Seq(FrameType)
      /\ Len(<<frame>>) = 1 /\ <<frame>> # <<>> /\ <<frame>>[1] = frame
  BY <1>5
<1>7. stack' = [stack EXCEPT ![t] = <<frame>>]
  BY <1>0, <1>4, <1>6, Zenon DEF WithEax
<1>8. Types'
  BY <1>0, <1>1, <1>2, <1>6, <1>7 DEF Types
<1>9. Frames'
  <2>1. ASSUME NEW p \in Tasks, p # t PROVE Saved(p)'
    BY <1>0, <1>1, <1>7, <2>1, SavedKept DEF Frames
  <2>2. stack'[t] = <<frame>> /\ expected'[t] = ret
    BY <1>0, <1>1, <1>7
  <2>3. Len(stack'[t]) = 1 /\ stack'[t] # <<>> /\ stack'[t][1] = frame
    BY <1>6, <2>2, Zenon
  <2>4. Suspended(t, stack[t][1])'
    <3>1. /\ stack'[t][1].interrupts = 1 /\ Preemptible(t, stack'[t][1].code)
          /\ stack'[t][1].eax = expected'[t]
      BY <1>3, <1>5, <2>2, <2>3, Zenon DEF Suspended
    <3> QED
      BY <3>1 DEF Suspended, Preemptible
  <2>5. Saved(t)'
    BY <2>3, <2>4 DEF Saved
  <2> QED
    BY <2>1, <2>5 DEF Frames
<1>10. CurrentRuns'
  BY <1>0, <1>1 DEF CurrentRuns
<1>11. Handling'
  <2>1. loaded' = current_task'
    BY <1>0 DEF Handling
  <2> QED
    BY <1>0, <1>2, <2>1, ReturnsNext, HandlingGoesOn
<1> QED
  BY <1>8, <1>9, <1>10, <1>11 DEF IInv

LEMMA SyscallKeeps == IInv /\ isr_handle_syscall => IInv'
<1> SUFFICES ASSUME IInv, isr_handle_syscall PROVE IInv'
  OBVIOUS
<1>0. context.ops # <<>> /\ This.op \in {"getpid", "sys_io_putchar", "sys_io_attr"}
  BY DEF isr_handle_syscall, At, This
<1>1. Handling /\ Asking
  BY <1>0, PhaseNow
<1>2. /\ attr \in Colours /\ cursor \in 0 .. IO_CHARS /\ current_task \in Tasks
  BY DEF IInv, Types
<1>3. /\ This \in Call
      /\ This.op = "sys_io_putchar" /\ This.c = "line_feed" => cursor < IO_CHARS
  BY <1>1, AskingNow
<1>4. CASE At("getpid") /\ Answer(current_task) /\ UNCHANGED screen
  BY <1>1, <1>2, <1>4, AnswerKeeps DEF screen, Register
<1>5. CASE At("sys_io_attr") /\ Answer(attr) /\ io_attr(This.colour)
  <2>1. attr \in Register /\ attr' \in Colours /\ cursor' = cursor
    BY <1>2, <1>3, <1>5, CallNow DEF At, This, io_attr, Colours, IO_DEFAULT, Register
  <2> QED
    BY <1>1, <1>2, <1>5, <2>1, AnswerKeeps
<1>6. CASE At("sys_io_putchar") /\ Answer(1) /\ io_putchar(This.c)
  <2>1. This.op = "sys_io_putchar" /\ This.c \in {"letter", "line_feed"}
    BY <1>3, <1>6, CallNow DEF At, This
  <2>2. cursor' \in 0 .. IO_CHARS
    BY <1>2, <1>3, <1>6, <2>1, CursorStays
  <2>3. attr' \in Colours /\ 1 \in Register
    BY <1>2, <1>6 DEF io_putchar, Register
  <2> QED
    BY <1>1, <1>6, <2>2, <2>3, AnswerKeeps
<1> QED
  BY <1>4, <1>5, <1>6 DEF isr_handle_syscall

LEMMA AcknowledgeKeeps == IInv /\ Acknowledge => IInv'
<1> SUFFICES ASSUME IInv, Acknowledge PROVE IInv'
  OBVIOUS
<1>0. /\ context.ops # <<>> /\ This.op = "end"
      /\ context' = [context EXCEPT !.ops = EndOf(context.intr)]
      /\ UNCHANGED <<interrupts, eax, stack, handlers, tasks, current_task, expected, attr,
                     cursor, loaded, old_directory, old_interrupts, master, slave>>
  BY DEF Acknowledge, At, This, kernel, memory, pic, screen
<1>1. Handling
  BY <1>0, PhaseNow
<1>2. context \in CodeType /\ context.intr \in Vectors
  BY DEF IInv, Types, CodeType
<1>3. EndOf(context.intr) \in Seq(Op)
  <2>1. /\ Do("eoi_slave") \in Op /\ Do("eoi_master") \in Op /\ Do("iret") \in Op
    BY Operations, Zenon
  <2>2. <<Do("iret")>> \in Seq(Op)
    BY <2>1, One, Zenon
  <2>3. <<Do("eoi_master")>> \o <<Do("iret")>> \in Seq(Op)
    BY <2>1, <2>2, Cons, Zenon
  <2>4. <<Do("eoi_slave")>> \o (<<Do("eoi_master")>> \o <<Do("iret")>>) \in Seq(Op)
    BY <2>1, <2>3, Cons, Zenon
  <2> QED
    BY <1>2, <2>2, <2>3, <2>4, EndOfForms, Zenon
<1>4. /\ context' \in CodeType /\ context'.ops = EndOf(context.intr)
      /\ context'.owner = context.owner /\ context'.intr = context.intr
  BY <1>0, <1>2, <1>3 DEF CodeType
<1>5. Types'
  BY <1>0, <1>4 DEF IInv, Types
<1>6. Frames'
  <2>1. ~ Asking
    BY <1>0, NotAsking
  <2> QED
    BY <1>0, <1>4, <2>1, FramesKept DEF IInv
<1>7. CurrentRuns'
  BY <1>0 DEF IInv, CurrentRuns
<1>8. Ending'
  <2>1. CASE ~ IS_IRQ(context.intr)
    <3>1. context'.ops = <<Do("iret")>> /\ slave' = {} /\ master' = {}
      BY <1>0, <1>1, <1>2, <1>4, <2>1, EndOfForms DEF Handling, InService
    <3> QED
      BY <3>1 DEF Ending
  <2>2. CASE IS_IRQ(context.intr) /\ context.intr < ISR_IRQ(8)
    <3>1. slave' = {}
      BY <1>0, <1>1, <2>2 DEF Handling, InService, IS_IRQ, ISR_IRQ
    <3>2. context'.ops = <<Do("eoi_master")>> \o <<Do("iret")>>
      BY <1>2, <1>4, <2>2, EndOfForms, Zenon
    <3> QED
      BY <3>1, <3>2 DEF Ending
  <2>3. CASE IS_IRQ(context.intr) /\ ~ (context.intr < ISR_IRQ(8))
    <3>1. context'.ops = <<Do("eoi_slave")>> \o (<<Do("eoi_master")>> \o <<Do("iret")>>)
      BY <1>2, <1>4, <2>3, EndOfForms, Zenon
    <3> QED
      BY <3>1 DEF Ending
  <2> QED
    BY <2>1, <2>2, <2>3
<1>9. Handling'
  BY <1>0, <1>1, <1>4, <1>8, HandlingGoesOn DEF Handling
<1> QED
  BY <1>5, <1>6, <1>7, <1>9 DEF IInv

LEMMA EndedAll == ASSUME NEW lines, Single(lines), lines \subseteq Int PROVE Ended(lines) = {}
<1> SUFFICES ASSUME NEW x \in Ended(lines) PROVE FALSE
  OBVIOUS
<1>1. x \in lines /\ \A l \in lines : x <= l
  BY DEF Ended, Single
<1> QED
  BY <1>1 DEF Ended

LEMMA EoiKeeps == IInv /\ SendEoi => IInv'
<1> SUFFICES ASSUME IInv, SendEoi PROVE IInv'
  OBVIOUS
<1>0. /\ context.ops # <<>> /\ This.op \in {"eoi_slave", "eoi_master"} /\ GoOn
      /\ UNCHANGED <<interrupts, eax, stack, handlers, tasks, current_task, expected, attr,
                     cursor, loaded, old_directory, old_interrupts>>
  BY DEF SendEoi, At, This, kernel, memory, screen
<1>1. Handling /\ Ending
  BY <1>0, PhaseNow
<1>2. /\ context' \in CodeType /\ context'.ops = Rest
      /\ context'.owner = context.owner /\ context'.intr = context.intr
  BY <1>0, GoOnKeeps DEF IInv, Types
<1>3. Ended(master) = {} /\ Ended(slave) = {}
  <2>1. Single(master) /\ Single(slave) /\ master \subseteq Int /\ slave \subseteq Int
    BY <1>1 DEF IInv, Types, Handling, InService
  <2> QED
    BY <2>1, EndedAll
<1>4. \/ /\ This = Do("eoi_slave") /\ Rest = <<Do("eoi_master")>> \o <<Do("iret")>>
         /\ slave' = {} /\ master' = master
      \/ /\ This = Do("eoi_master") /\ Rest = <<Do("iret")>> /\ slave = {}
         /\ master' = {} /\ slave' = slave
  BY <1>0, <1>1, <1>3, EndingNow DEF SendEoi, At, This, Do
<1>5. Types'
  BY <1>0, <1>2, <1>4 DEF IInv, Types
<1>6. Frames'
  <2>1. ~ Asking
    BY <1>0, NotAsking
  <2>2. context.intr # NONE
    BY <1>1 DEF Handling
  <2> QED
    BY <1>0, <1>2, <2>1, <2>2, FramesKept DEF IInv
<1>7. CurrentRuns'
  BY <1>0 DEF IInv, CurrentRuns
<1>8. Ending'
  BY <1>2, <1>4 DEF Ending
<1>9. Handling'
  <2>1. InService'
    BY <1>1, <1>2, <1>4 DEF Handling, InService, Single
  <2> QED
    BY <1>0, <1>1, <1>2, <1>8, <2>1 DEF Handling
<1> QED
  BY <1>5, <1>6, <1>7, <1>9 DEF IInv

LEMMA IretKeeps == IInv /\ iret => IInv'
<1> SUFFICES ASSUME IInv, iret PROVE IInv'
  OBVIOUS
<1> PICK t : t = current_task
  OBVIOUS
<1> PICK frame : frame = Head(stack[t])
  OBVIOUS
<1>0. /\ context.ops # <<>> /\ This.op = "iret"
      /\ interrupts' = frame.interrupts /\ eax' = frame.eax /\ context' = frame.code
      /\ stack' = [stack EXCEPT ![t] = Tail(stack[t])]
      /\ UNCHANGED <<handlers, tasks, current_task, expected, attr, cursor, loaded,
                     old_directory, old_interrupts, master, slave>>
  BY DEF iret, At, This, kernel, memory, pic, screen
<1>1. /\ Types /\ Frames /\ CurrentRuns /\ t \in Tasks /\ stack \in [Tasks -> Seq(FrameType)]
  BY DEF IInv, Types
<1>2. Handling /\ Ending
  BY <1>0, PhaseNow
<1>3. slave = {} /\ master = {} /\ ~ Asking /\ context.intr # NONE
  BY <1>0, <1>2, EndingNow, NotAsking DEF Do, Handling
<1>4. /\ stack[t] \in Seq(FrameType) /\ stack[t] # <<>> /\ Len(stack[t]) <= 1
      /\ Suspended(t, stack[t][1]) /\ tasks[t] = "running"
  BY <1>1, <1>3 DEF Frames, Saved, CurrentRuns
<1>5. frame = stack[t][1] /\ frame \in FrameType /\ Tail(stack[t]) = <<>>
  BY <1>4
<1>6. /\ frame.interrupts = 1 /\ Preemptible(t, frame.code)
      /\ t # MAIN => frame.eax = expected[t]
  BY <1>3, <1>4, <1>5 DEF Suspended
<1>7. stack' = [stack EXCEPT ![t] = <<>>]
  BY <1>0, <1>5
<1>8. context' \in CodeType /\ context'.intr = NONE /\ eax' \in Register
  BY <1>0, <1>5, <1>6 DEF FrameType, Preemptible
<1>9. Types'
  <2>1. <<>> \in Seq(FrameType)
    OBVIOUS
  <2>2. stack' \in [Tasks -> Seq(FrameType)]
    BY <1>1, <1>7, <2>1
  <2> QED
    BY <1>0, <1>1, <1>6, <1>8, <2>2 DEF Types
<1>10. Frames'
  <2>1. ASSUME NEW p \in Tasks, p # t PROVE Saved(p)'
    <3>1. stack'[p] = stack[p] /\ tasks'[p] = tasks[p] /\ expected'[p] = expected[p]
      BY <1>0, <1>1, <1>7, <2>1
    <3> QED
      BY <1>1, <1>3, <3>1, SavedKept DEF Frames
  <2>2. stack'[t] = <<>> /\ context'.intr = NONE /\ current_task' = t /\ Len(<<>>) = 0
    BY <1>0, <1>1, <1>7, <1>8
  <2>3. Saved(t)'
    BY <2>2 DEF Saved
  <2> QED
    BY <2>1, <2>3 DEF Frames
<1>11. CurrentRuns'
  BY <1>0, <1>1 DEF CurrentRuns
<1>12. Running'
  <2>1. Preemptible(current_task', context')
    BY <1>0, <1>6
  <2>2. stack'[current_task'] = <<>> /\ loaded' = current_task' /\ old_directory' = NONE
    BY <1>0, <1>1, <1>2, <1>7 DEF Handling
  <2>3. /\ interrupts' = 1 /\ master' = {} /\ slave' = {}
        /\ current_task' # MAIN => eax' = expected'[current_task']
    BY <1>0, <1>3, <1>6
  <2> QED
    BY <2>1, <2>2, <2>3 DEF Running, Preemptible
<1> QED
  BY <1>9, <1>10, <1>11, <1>12 DEF IInv

-----------------------------------------------------------------------------
(* The theorems.                                                           *)

LEMMA NextIInv == IInv /\ [Next]_vars => IInv'
<1> SUFFICES ASSUME IInv, [Next]_vars PROVE IInv'
  OBVIOUS
<1>1. CASE Execute
  BY <1>1, DisableKeeps, RestoreKeeps, ModifyKeeps, ModifiedKeeps, TaskAddKeeps,
     TaskRemoveKeeps, RegisterKeeps, OutputKeeps, MainStepKeeps, SystemCallKeeps,
     ScheduleKeeps, ExitKeeps, SyscallKeeps, AcknowledgeKeeps, EoiKeeps, IretKeeps
    DEF Execute
<1>2. ASSUME NEW n \in Irqs, Interrupt(n) \/ SpuriousInterrupt(n) PROVE IInv'
  BY <1>2, InterruptKeeps
<1>3. CASE UNCHANGED vars
  <2>1. UNCHANGED <<interrupts, eax, context, stack, handlers, tasks, current_task, expected,
                    loaded, old_directory, old_interrupts, master, slave, attr, cursor>>
    BY <1>3 DEF vars, processor, kernel, memory, pic, screen
  <2>2. Types'
    BY <2>1 DEF IInv, Types
  <2>3. Asking' <=> Asking
    BY <2>1 DEF Asking
  <2>4. Frames'
    <3>1. ASSUME NEW t \in Tasks, NEW frame, Suspended(t, frame) PROVE Suspended(t, frame)'
      BY <2>1, <2>3, <3>1 DEF Suspended, Preemptible
    <3>2. ASSUME NEW t \in Tasks, Saved(t) PROVE Saved(t)'
      BY <2>1, <3>1, <3>2 DEF Saved
    <3> QED
      BY <3>2 DEF IInv, Frames
  <2>5. CurrentRuns'
    BY <2>1 DEF IInv, CurrentRuns
  <2>6. Running => Running'
    BY <2>1 DEF Running, Preemptible
  <2>7. InSection => InSection'
    BY <2>1 DEF InSection, Position, At1, At2, NotModifying, Modifying
  <2>8. Handling => Handling'
    BY <2>1, <2>3 DEF Handling, InService, Switching, Printing, Ending
  <2> QED
    BY <2>2, <2>4, <2>5, <2>6, <2>7, <2>8 DEF IInv
<1> QED
  BY <1>1, <1>2, <1>3 DEF Next

(* Whatever runs is in one of three phases, thread, section or handler, and *)
(* whatever does not run lies in a frame from which it can go on.           *)
THEOREM Invariant == Spec => []IInv
BY InitIInv, NextIInv, PTL DEF Spec

(* A kernel stack holds at most one frame: a handler is not interrupted.   *)
THEOREM TypeCorrect == Spec => []TypeOK
<1>1. IInv => TypeOK
  BY DEF IInv, Types, Frames, Saved, TypeOK, CodeType
<1> QED
  BY <1>1, Invariant, PTL

(* Interrupts are never on while a PIC waits for the end of an interrupt.  *)
THEOREM LinesStayFree == Spec => []NoLineBlocked
<1>1. IInv => NoLineBlocked
  BY OnlyRunning DEF NoLineBlocked, Running
<1> QED
  BY <1>1, Invariant, PTL

(* A system call's result reaches the task that called, and no other.      *)
THEOREM ResultsReach == Spec => []ResultsReachCallers
<1>1. IInv => ResultsReachCallers
  BY DEF IInv, Running, Preemptible, InSection, Handling, ResultsReachCallers
<1> QED
  BY <1>1, Invariant, PTL

(* Nested sections keep interrupts off until the last of them ends.        *)
THEOREM SectionsStayWhole == Spec => []SectionsWhole
<1>1. IInv => SectionsWhole
  <2> SUFFICES ASSUME IInv, context.intr = NONE PROVE SectionsWhole
    BY DEF SectionsWhole
  <2>1. CASE Running
    BY <2>1 DEF Running, Preemptible, SectionsWhole
  <2>2. CASE InSection
    <3>1. PICK work \in Work, u \in Created : SectionNext(work, u)
      BY <2>2, SectionNow DEF InSection
    <3>2. context.old_interrupts \in {<<1>>, <<0>> \o <<1>>}
      BY <3>1 DEF SectionNext
    <3>3. <<0>> \o <<1>> # <<>> /\ <<1>> # <<>>
      <4>1. 0 \in {0, 1} /\ <<1>> \in Seq({0, 1})
        OBVIOUS
      <4> QED
        BY <4>1, Cons
    <3> QED
      BY <2>2, <3>2, <3>3 DEF InSection, SectionsWhole
  <2> QED
    BY <2>1, <2>2 DEF IInv, Handling
<1> QED
  BY <1>1, Invariant, PTL

(* What a handler prints is not mixed up with what anybody else prints.    *)
THEOREM HandlersPrint == Spec => []HandlersPrintWhole
<1>1. IInv => HandlersPrintWhole
  <2> SUFFICES ASSUME IInv, context.intr # NONE, At("io_putchar") PROVE Printing
    BY PrintingNow DEF HandlersPrintWhole, PrintsNext, At, This
  <2>1. context.ops # <<>> /\ This.op \in Screening
    BY DEF At, This, Screening
  <2> QED
    BY <2>1, PhaseNow DEF Running, Preemptible
<1> QED
  BY <1>1, Invariant, PTL

-----------------------------------------------------------------------------
(* The timer.                                                              *)

(* How long a wait has to go on, told by the counter.                      *)
Countdown(w) ==
  /\ remaining[w] <= duration[w]
  /\ remaining[w] > 0 =>
       /\ late[w] = 0
       /\ ticks + remaining[w] \in {wait_until[w], wait_until[w] + Modulus}
  /\ remaining[w] > 0 /\ state[w] \in AwaitsMoment =>
       ticks + remaining[w] = wait_until[w]
  /\ state[w] \in Done => remaining[w] = 0

(* A wait that is long enough and ends clear of the counter's wrap.  In    *)
(* its first phase it is never due: if its moment lies behind the wrap,    *)
(* the thread looks at least once between the wrap and the moment, and     *)
(* otherwise its first look ends the phase.  In its second phase the       *)
(* counter tells how late it is.                                           *)
Long(w) == Waiting(w) /\ duration[w] >= MaxGap /\ ClearOfWrap(w)

OnTime(w) ==
  /\ state[w] \in AwaitsOverflow /\ wait_until[w] < duration[w] =>
       /\ remaining[w] > 0
       /\ ticks + remaining[w] = wait_until[w] => gap[w] >= ticks + 1
  /\ state[w] \in AwaitsOverflow /\ wait_until[w] >= duration[w] =>
       /\ ticks + remaining[w] = wait_until[w]
       /\ gap[w] + remaining[w] = duration[w]
       /\ late[w] = 0
  /\ state[w] \in AwaitsMoment /\ remaining[w] = 0 =>
       ticks = wait_until[w] + late[w] /\ late[w] <= gap[w]

PitIInv ==
  /\ PitTypeOK
  /\ \A w \in Waiters : Countdown(w)
  /\ \A w \in Waiters : Long(w) => OnTime(w)

-----------------------------------------------------------------------------
USE DEF AwaitsOverflow, AwaitsMoment, Done

LEMMA PlusType ==
  ASSUME NEW a \in Word, NEW b \in Word \union {1}
  PROVE  /\ Plus(a, b) \in Word
         /\ Plus(a, b) = a + b \/ Plus(a, b) = a + b - Modulus
BY PitAssumption DEF Plus, Word

(* Counting up to Sixty, exclusively.                                      *)
LEMMA CountToSixty ==
  ASSUME NEW n \in 0 .. Sixty - 1, (n + 1) % Sixty # 0
  PROVE  n + 1 \in 0 .. Sixty - 1
<1>1. n + 1 = Sixty => (n + 1) % Sixty = 0
  BY PitAssumption
<1> QED
  BY <1>1, PitAssumption

LEMMA PitInitIInv == PitInit => PitIInv
<1> SUFFICES ASSUME PitInit PROVE PitIInv
  OBVIOUS
<1>1. PitTypeOK
  BY PitAssumption DEF PitInit, PitTypeOK, Word
<1>2. \A w \in Waiters : Countdown(w) /\ ~ Long(w)
  BY DEF PitInit, Countdown, Long, Waiting
<1> QED
  BY <1>1, <1>2 DEF PitIInv

-----------------------------------------------------------------------------
LEMMA TickIInv == PitIInv /\ Tick => PitIInv'
<1> SUFFICES ASSUME PitIInv, Tick PROVE PitIInv'
  OBVIOUS
<1>0. PitTypeOK /\ Modulus \in Nat /\ Modulus > 1 /\ MaxGap \in Nat /\ MaxGap > 0
  BY PitAssumption DEF PitIInv
<1>1. ticks' = Plus(ticks, 1) /\ UNCHANGED <<state, wait_until, duration>>
  BY DEF Tick
<1>2. PitTypeOK'
  <2>1. ticks' \in Word
    BY <1>0, <1>1, PlusType DEF PitTypeOK
  <2>2. seconds' \in 0 .. Sixty - 1
    BY <1>0, CountToSixty, PitAssumption DEF Tick, AdvanceClock, PitTypeOK
  <2>3. minutes' \in 0 .. Sixty - 1
    BY <1>0, CountToSixty, PitAssumption DEF Tick, AdvanceClock, PitTypeOK
  <2>4. hours' \in Word
    BY <1>0, PlusType DEF Tick, AdvanceClock, PitTypeOK
  <2>5. remaining' \in [Waiters -> Word]
    BY <1>0 DEF Tick, PitTypeOK, Word
  <2>6. late' \in [Waiters -> 0 .. MaxGap + 1]
    BY <1>0 DEF Tick, PitTypeOK
  <2>7. gap' \in [Waiters -> 0 .. MaxGap]
    BY <1>0 DEF Tick, PitTypeOK
  <2> QED
    BY <1>0, <1>1, <2>1, <2>2, <2>3, <2>4, <2>5, <2>6, <2>7 DEF PitTypeOK
<1>3. ASSUME NEW w \in Waiters
      PROVE  Countdown(w)' /\ (Long(w)' => OnTime(w)')
  <2>t. /\ ticks \in Word /\ wait_until[w] \in Word /\ duration[w] \in Word
        /\ remaining[w] \in Word /\ late[w] \in 0 .. MaxGap + 1 /\ gap[w] \in 0 .. MaxGap
        /\ state[w] \in AwaitsOverflow \union AwaitsMoment \union Done
    BY <1>0 DEF PitTypeOK
  <2>u. /\ state'[w] = state[w] /\ wait_until'[w] = wait_until[w]
        /\ duration'[w] = duration[w]
        /\ ticks' = IF ticks + 1 < Modulus THEN ticks + 1 ELSE ticks + 1 - Modulus
    BY <1>1 DEF Plus
  <2>r. remaining'[w] = IF remaining[w] > 0 THEN remaining[w] - 1 ELSE 0
    BY DEF Tick
  <2>l. late'[w] = IF Waiting(w) /\ remaining[w] = 0 /\ late[w] <= MaxGap
                   THEN late[w] + 1 ELSE late[w]
    BY DEF Tick
  <2>g. Waiting(w) => gap'[w] = gap[w] + 1 /\ gap[w] < MaxGap
    BY DEF Tick
  <2>c. Countdown(w)
    BY DEF PitIInv
  <2>1. Countdown(w)'
    BY <1>0, <2>t, <2>u, <2>r, <2>l, <2>c DEF Countdown, Word
  <2>2. ASSUME Long(w)' PROVE OnTime(w)'
    <3>1. Long(w) /\ OnTime(w) /\ Waiting(w)
      BY <2>2, <2>u DEF Long, Waiting, ClearOfWrap, PitIInv
    <3>2. wait_until[w] >= MaxGap /\ wait_until[w] + MaxGap < Modulus
          /\ duration[w] >= MaxGap
      BY <3>1 DEF Long, ClearOfWrap
    <3>3. CASE state[w] \in AwaitsOverflow /\ wait_until[w] < duration[w]
      BY <1>0, <2>t, <2>u, <2>r, <2>g, <2>c, <3>1, <3>2, <3>3 DEF OnTime, Countdown, Word
    <3>4. CASE state[w] \in AwaitsOverflow /\ wait_until[w] >= duration[w]
      BY <1>0, <2>t, <2>u, <2>r, <2>l, <2>g, <2>c, <3>1, <3>2, <3>4
      DEF OnTime, Countdown, Word
    <3>5. CASE state[w] \in AwaitsMoment
      BY <1>0, <2>t, <2>u, <2>r, <2>l, <2>g, <2>c, <3>1, <3>2, <3>5
      DEF OnTime, Countdown, Word
    <3> QED
      BY <2>t, <3>1, <3>3, <3>4, <3>5 DEF Waiting, Word
  <2> QED
    BY <2>1, <2>2
<1> QED
  BY <1>2, <1>3 DEF PitIInv

LEMMA BeginIInv ==
  ASSUME PitIInv, NEW w \in Waiters, NEW ms \in Milliseconds,
         NEW first \in AwaitsOverflow, Begin(w, ms, first)
  PROVE  PitIInv'
<1> DEFINE d == MS_TO_TICKS(ms)
<1>0. PitTypeOK /\ Modulus \in Nat /\ Modulus > 1 /\ MaxGap \in Nat /\ MaxGap > 0
  BY PitAssumption DEF PitIInv
<1>1. d \in Word
  BY PitAssumption DEF Durations
<1>2. Plus(ticks, d) \in Word
  BY <1>0, <1>1, PlusType DEF PitTypeOK
<1>3. PitTypeOK'
  BY <1>0, <1>1, <1>2 DEF Begin, PitTypeOK, clock, Word
<1>4. /\ state'[w] = first /\ wait_until'[w] = Plus(ticks, d) /\ duration'[w] = d
      /\ remaining'[w] = d /\ late'[w] = 0 /\ gap'[w] = 0 /\ ticks' = ticks
  BY <1>0 DEF Begin, PitTypeOK
<1>5. Countdown(w)'
  BY <1>0, <1>1, <1>2, <1>4 DEF Countdown, Plus, Word, PitTypeOK
<1>6. OnTime(w)'
  BY <1>0, <1>1, <1>2, <1>4 DEF OnTime, Plus, Word, PitTypeOK
<1>7. \A v \in Waiters \ {w} : Countdown(v)' /\ (Long(v)' => OnTime(v)')
  BY <1>0 DEF PitIInv, Begin, Countdown, Long, OnTime, Waiting, ClearOfWrap, PitTypeOK
<1> QED
  BY <1>3, <1>5, <1>6, <1>7 DEF PitIInv

LEMMA LookIInv ==
  ASSUME PitIInv, NEW w \in Waiters, NEW from, NEW next,
         \/ /\ from \in AwaitsOverflow /\ next \in AwaitsMoment
            /\ Look(w, from, BeforeOverflow(w), next)
         \/ /\ from \in AwaitsMoment /\ next \in Done
            /\ Look(w, from, BeforeMoment(w), next)
  PROVE  PitIInv'
<1>0. PitTypeOK /\ Modulus \in Nat /\ Modulus > 1 /\ MaxGap \in Nat /\ MaxGap > 0
  BY PitAssumption DEF PitIInv
<1>1. UNCHANGED <<ticks, clock, wait_until, duration, remaining, late>>
      /\ gap' = [gap EXCEPT ![w] = 0] /\ state[w] = from
  BY DEF Look
<1>2. \/ /\ from \in AwaitsOverflow /\ next \in AwaitsMoment
         /\ state' = [state EXCEPT ![w] = IF wait_until[w] < ticks THEN from ELSE next]
      \/ /\ from \in AwaitsMoment /\ next \in Done
         /\ state' = [state EXCEPT ![w] = IF ticks < wait_until[w] THEN from ELSE next]
  BY DEF Look, BeforeOverflow, BeforeMoment
<1>3. PitTypeOK'
  BY <1>0, <1>1, <1>2 DEF PitTypeOK, clock
<1>t. /\ ticks \in Word /\ wait_until[w] \in Word /\ duration[w] \in Word
      /\ remaining[w] \in Word /\ late[w] \in 0 .. MaxGap + 1 /\ gap[w] \in 0 .. MaxGap
      /\ gap'[w] = 0
  BY <1>0, <1>1 DEF PitTypeOK
<1>s. \/ /\ from \in AwaitsOverflow /\ next \in AwaitsMoment
         /\ state'[w] = IF wait_until[w] < ticks THEN from ELSE next
      \/ /\ from \in AwaitsMoment /\ next \in Done
         /\ state'[w] = IF ticks < wait_until[w] THEN from ELSE next
  BY <1>0, <1>2 DEF PitTypeOK
<1>c. Countdown(w) /\ (Long(w) => OnTime(w))
  BY DEF PitIInv
<1>4. Countdown(w)'
  BY <1>0, <1>1, <1>t, <1>s, <1>c DEF Countdown, Word
<1>5. ASSUME Long(w)' PROVE OnTime(w)'
  <2>1. Waiting(w) /\ Long(w) /\ OnTime(w)
    BY <1>1, <1>2, <1>5, <1>c DEF Long, Waiting, ClearOfWrap
  <2>2. wait_until[w] >= MaxGap /\ wait_until[w] + MaxGap < Modulus
        /\ duration[w] >= MaxGap
    BY <2>1 DEF Long, ClearOfWrap
  <2>3. CASE from \in AwaitsOverflow /\ wait_until[w] < duration[w]
    BY <1>0, <1>1, <1>t, <1>s, <1>c, <2>1, <2>2, <2>3 DEF OnTime, Countdown, Word
  <2>4. CASE from \in AwaitsOverflow /\ wait_until[w] >= duration[w]
    BY <1>0, <1>1, <1>t, <1>s, <1>c, <2>1, <2>2, <2>4 DEF OnTime, Countdown, Word
  <2>5. CASE from \in AwaitsMoment
    BY <1>0, <1>1, <1>5, <1>t, <1>s, <1>c, <2>1, <2>2, <2>5
    DEF OnTime, Countdown, Word, Long, Waiting
  <2> QED
    BY <1>s, <1>t, <2>3, <2>4, <2>5 DEF Word
<1>6. \A v \in Waiters \ {w} : Countdown(v)' /\ (Long(v)' => OnTime(v)')
  BY <1>0, <1>1, <1>2
  DEF PitIInv, Countdown, Long, OnTime, Waiting, ClearOfWrap, PitTypeOK
<1> QED
  BY <1>3, <1>4, <1>5, <1>6 DEF PitIInv

LEMMA PitNextIInv == PitIInv /\ [PitNext]_pit_vars => PitIInv'
<1> SUFFICES ASSUME PitIInv, [PitNext]_pit_vars PROVE PitIInv'
  OBVIOUS
<1>1. CASE Tick
  BY <1>1, TickIInv
<1>2. ASSUME NEW w \in Waiters, pit_sleep(w) PROVE PitIInv'
  BY <1>2, BeginIInv, LookIInv DEF pit_sleep
<1>3. ASSUME NEW w \in Waiters, pit_make_timeout(w) \/ pit_timed_out(w) PROVE PitIInv'
  BY <1>3, BeginIInv, LookIInv DEF pit_make_timeout, pit_timed_out
<1>4. CASE UNCHANGED pit_vars
  BY <1>4 DEF pit_vars, clock, history, PitIInv, PitTypeOK, Countdown, Long, OnTime, Waiting,
    ClearOfWrap
<1> QED
  BY <1>1, <1>2, <1>3, <1>4 DEF PitNext

THEOREM PitInvariant == PitSpec => []PitIInv
BY PitInitIInv, PitNextIInv, PTL DEF PitSpec

-----------------------------------------------------------------------------
(* Types, for every instance.                                              *)
THEOREM PitTypeCorrect == PitSpec => []PitTypeOK
<1>1. PitIInv => PitTypeOK
  BY DEF PitIInv
<1> QED
  BY PitInvariant, <1>1, PTL

(* No wait ends early, however often the counter wraps.                    *)
THEOREM WaitsAreNeverShort == PitSpec => []NeverEarly
<1>1. PitIInv => NeverEarly
  BY DEF PitIInv, Countdown, NeverEarly
<1> QED
  BY PitInvariant, <1>1, PTL

(* A long wait clear of the wrap ends at the first look after it is due.   *)
THEOREM WaitsAreNoticed == PitSpec => []NoticedInTime
<1>1. PitIInv => NoticedInTime
  <2> SUFFICES ASSUME PitIInv, NEW w \in Waiters, Long(w) PROVE late[w] <= gap[w]
    BY DEF NoticedInTime, Long
  <2>1. OnTime(w) /\ Countdown(w) /\ Waiting(w)
    BY DEF PitIInv, Long
  <2>2. /\ wait_until[w] \in Nat /\ duration[w] \in Nat /\ remaining[w] \in Nat
        /\ late[w] \in Nat /\ gap[w] \in Nat
    BY PitAssumption DEF PitIInv, PitTypeOK, Word
  <2> QED
    BY <2>1, <2>2 DEF OnTime, Countdown, Waiting
<1> QED
  BY PitInvariant, <1>1, PTL

-----------------------------------------------------------------------------
(* The clock.                                                              *)

(* Counting in units of f: the remainder goes up by one, or back to zero.  *)
LEMMA RemainderCounts ==
  ASSUME NEW t \in Nat, NEW f \in Nat \ {0}
  PROVE  /\ t % f \in 0 .. f - 1
         /\ (t + 1) % f = IF (t % f) + 1 = f THEN 0 ELSE (t % f) + 1
<1> DEFINE q == t \div f
           r == t % f
<1>1. q \in Nat /\ r \in 0 .. f - 1 /\ t = f * q + r
  OBVIOUS
<1>2. CASE r + 1 = f
  <2>1. t + 1 = f * (q + 1)
    BY <1>1, <1>2
  <2>2. (f * (q + 1)) % f = 0
    BY <1>1
  <2> QED
    BY <1>1, <1>2, <2>1, <2>2
<1>3. CASE r + 1 < f
  <2>1. t + 1 = f * q + (r + 1)
    BY <1>1
  <2>2. (f * q + (r + 1)) % f = r + 1
    BY <1>1, <1>3
  <2> QED
    BY <1>1, <1>3, <2>1, <2>2
<1> QED
  BY <1>1, <1>2, <1>3

(* A number and its last digit in base k: the digit is carried once both   *)
(* are at their greatest.                                                  *)
LEMMA LastDigit ==
  ASSUME NEW k \in Nat \ {0}, NEW n \in Nat, NEW x \in 0 .. n - 1, NEW d \in 0 .. k - 1
  PROVE  /\ x * k + d \in 0 .. n * k - 1
         /\ x * k + d + 1 = n * k <=> x + 1 = n /\ d + 1 = k
         /\ d + 1 = k => x * k + d + 1 = (x + 1) * k
<1>1. (x + 1) * k = x * k + k
  OBVIOUS
<1>2. CASE x + 1 = n
  <2>1. n * k = x * k + k /\ x * k \in Nat
    BY <1>1, <1>2
  <2> QED
    BY <1>1, <1>2, <2>1
<1>3. CASE x + 1 < n
  <2>1. PICK m \in Nat : n = x + 1 + (m + 1)
    <3>1. n - x - 2 \in Nat /\ n = x + 1 + ((n - x - 2) + 1)
      BY <1>3
    <3> QED
      BY <3>1
  <2>2. n * k = (x + 1) * k + m * k + k /\ m * k \in Nat /\ x * k \in Nat
    BY <2>1
  <2> QED
    BY <1>1, <1>3, <2>2
<1> QED
  BY <1>2, <1>3

(* The time of day after a tick.                                           *)
LEMMA SecondCounts ==
  ASSUME PitTypeOK, NEW now \in Nat, AdvanceClock(now)
  PROVE  LET time == (hours * Sixty + minutes) * Sixty + seconds
             next == IF time + 1 = Modulus * Sixty * Sixty THEN 0 ELSE time + 1
         IN  /\ now % freq # 0 => time' = time
             /\ now % freq = 0 => time' = next
<1> DEFINE y == hours * Sixty + minutes
           N == Modulus * Sixty
<1>t. /\ Sixty \in Nat \ {0} /\ Modulus \in Nat /\ Modulus > 1 /\ freq \in Nat \ {0}
      /\ hours \in 0 .. Modulus - 1 /\ minutes \in 0 .. Sixty - 1 /\ seconds \in 0 .. Sixty - 1
  BY PitAssumption DEF PitTypeOK, Word
<1>h. /\ y \in 0 .. N - 1
      /\ y + 1 = N <=> hours + 1 = Modulus /\ minutes + 1 = Sixty
      /\ minutes + 1 = Sixty => y + 1 = (hours + 1) * Sixty
  BY <1>t, LastDigit
<1>n. N \in Nat
  BY <1>t
<1>m. /\ y * Sixty + seconds \in 0 .. N * Sixty - 1
      /\ y * Sixty + seconds + 1 = N * Sixty <=> y + 1 = N /\ seconds + 1 = Sixty
      /\ seconds + 1 = Sixty => y * Sixty + seconds + 1 = (y + 1) * Sixty
  BY <1>t, <1>h, <1>n, LastDigit
<1>s. ((seconds + 1) % Sixty = 0 <=> seconds + 1 = Sixty)
      /\ ((minutes + 1) % Sixty = 0 <=> minutes + 1 = Sixty)
  BY <1>t, RemainderCounts
<1>1. CASE now % freq # 0
  BY <1>1 DEF AdvanceClock
<1>2. CASE now % freq = 0 /\ seconds + 1 # Sixty
  <2>1. seconds' = seconds + 1 /\ minutes' = minutes /\ hours' = hours
    BY <1>2, <1>s DEF AdvanceClock
  <2> QED
    BY <1>2, <1>t, <1>h, <1>m, <2>1
<1>3. CASE now % freq = 0 /\ seconds + 1 = Sixty /\ minutes + 1 # Sixty
  <2>1. seconds' = 0 /\ minutes' = minutes + 1 /\ hours' = hours
    BY <1>3, <1>s DEF AdvanceClock
  <2>2. hours' * Sixty + minutes' = y + 1
    BY <2>1, <1>t
  <2> QED
    BY <1>3, <1>t, <1>h, <1>m, <2>1, <2>2
<1>4. CASE now % freq = 0 /\ seconds + 1 = Sixty /\ minutes + 1 = Sixty
  <2>1. seconds' = 0 /\ minutes' = 0 /\ hours' = Plus(hours, 1)
    BY <1>4, <1>s DEF AdvanceClock
  <2>2. CASE hours + 1 = Modulus
    BY <1>4, <1>t, <1>h, <1>m, <2>1, <2>2 DEF Plus
  <2>3. CASE hours + 1 # Modulus
    <3>1. hours' = hours + 1
      BY <1>t, <2>1, <2>3 DEF Plus
    <3>2. hours' * Sixty + minutes' = y + 1
      BY <1>4, <1>t, <1>h, <2>1, <3>1
    <3>3. (hours' * Sixty + minutes') * Sixty + seconds' = (y + 1) * Sixty
      BY <1>t, <1>h, <1>n, <2>1, <3>2
    <3>4. y * Sixty + seconds + 1 = (y + 1) * Sixty /\ y * Sixty + seconds + 1 # N * Sixty
      BY <1>4, <1>h, <1>m, <2>3
    <3> QED
      BY <1>4, <3>3, <3>4
  <2> QED
    BY <2>2, <2>3
<1> QED
  BY <1>1, <1>2, <1>3, <1>4

(* The clock of hours, minutes and seconds is one that counts seconds of   *)
(* freq ticks, for every rate and width of the counter.                    *)
THEOREM ClockKeepsTime == PitSpec => ImplementsWallClock
<1>1. PitInit => Clock!CInit
  BY PitAssumption, RemainderCounts DEF PitInit, Clock!CInit
<1>2. PitTypeOK /\ [PitNext]_pit_vars => [Clock!CTick]_(Clock!cvars)
  <2> SUFFICES ASSUME PitTypeOK, [PitNext]_pit_vars PROVE [Clock!CTick]_(Clock!cvars)
    OBVIOUS
  <2>1. CASE Tick
    <3>1. Plus(ticks, 1) \in Nat /\ ticks' = Plus(ticks, 1)
          /\ Plus(ticks, 1) = IF ticks + 1 = Modulus THEN 0 ELSE ticks + 1
      BY <2>1, PitAssumption DEF Tick, Plus, PitTypeOK, Word
    <3>2. AdvanceClock(Plus(ticks, 1))
      BY <2>1 DEF Tick
    <3>3. /\ ticks % freq \in 0 .. freq - 1
          /\ (ticks + 1) % freq = IF (ticks % freq) + 1 = freq THEN 0 ELSE (ticks % freq) + 1
      <4>1. ticks \in Nat /\ freq \in Nat \ {0}
        BY PitAssumption DEF PitTypeOK, Word
      <4> QED
        BY <4>1, RemainderCounts
    <3>4. 0 % freq = 0
      BY PitAssumption
    <3>5. /\ Clock!SecondEnds <=> ticks' % freq = 0
          /\ ticks' % freq = IF Clock!SecondEnds THEN 0 ELSE (ticks % freq) + 1
      BY <3>1, <3>3, <3>4, PitAssumption DEF Clock!SecondEnds, PitTypeOK, Word
    <3> QED
      BY <3>1, <3>2, <3>5, SecondCounts DEF Clock!CTick
  <2>2. CASE UNCHANGED <<ticks, clock>>
    BY <2>2 DEF clock, Clock!cvars
  <2>3. [PitNext]_pit_vars => Tick \/ UNCHANGED <<ticks, clock>>
    BY DEF PitNext, pit_sleep, pit_make_timeout, pit_timed_out, Begin, Look, pit_vars, clock
  <2> QED
    BY <2>1, <2>2, <2>3
<1> QED
  BY <1>1, <1>2, PitTypeCorrect, PTL DEF PitSpec, ImplementsWallClock, Clock!CSpec

=============================================================================
