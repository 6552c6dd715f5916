------------------------------ MODULE TaskMemory -----------------------------
(***************************************************************************)
(* The memory of tasks: what task.c, elf.c and vm86.c do to the memory     *)
(* when a task is created and destroyed, and what schedule.c does when it  *)
(* switches, on top of the virtual memory manager of module Paging.        *)
(*                                                                         *)
(* Tasks are created and destroyed with interrupts off, a switch happens   *)
(* in an interrupt handler: each is one step.  The order of switches is    *)
(* the subject of module Schedule; here any running task may be next.      *)
(***************************************************************************)
EXTENDS Paging, SequencesExt

CONSTANTS
  LowerMemory,   \* MULTIBOOT_LOWER_MEMORY: the address 1 MiB, mapped into VM86 tasks
  KernelEnd,     \* the first address behind the kernel and the multiboot structures
  MemoryEnd,     \* the first address behind the memory
  Video,         \* IO_MEM, the video memory,
  VideoLength,   \* and IO_LEN
  MAX_TASKS,     \* pids are 1 .. MAX_TASKS - 1
  TaskLength,    \* sizeof(task_t)
  StackLength,   \* _4KB, the length of the stacks of all tasks but the main task,
  STACK_SIZE,    \* and the length of its stack
  Elfs,          \* the ELF files,
  Suitable,      \* those that elf_check accepts,
  Segments,      \* and the segments of each: a sequence of records with vaddr and memsz
  CODE_ADDRESS,  \* where the code of a VM86 task is copied,
  CodeLength,    \* and its length
  Leftover       \* what a frame that is handed out may hold where task_t has its elf

NoElf == "none"
Garbage == "garbage"
MainPid == 1
Pids == 1 .. MAX_TASKS - 1

\* kind is not stored in the kernel: the code segment, vm86 and elf tell it.
Task == [kind : {"kernel", "elf", "vm86"}, running : BOOLEAN, at : Address,
         page_directory : Address, kernel_stack : Address, user_stack : Address,
         kernel_stack_len : {STACK_SIZE, StackLength}, user_stack_len : {0, StackLength},
         elf : Elfs \union {NoElf, Garbage}]

\* The lengths and the places that are fixed in the source; the video memory begins with
\* a page, and the code and the stack of a VM86 task lie below it.
ASSUME TaskMemoryAssumption ==
  /\ LowerMemory \in 1 .. (ENTRIES - 1) * PageSize
  /\ KernelEnd \in ENTRIES * PageSize + 1 .. MemoryEnd - 1
  /\ KernelEnd <= UserStart
  /\ MemoryEnd \in 1 .. MemorySize
  /\ Video \in Nat /\ Video % PageSize = 0 /\ Video >= PageSize
  /\ VideoLength \in Nat \ {0} /\ Video + VideoLength <= LowerMemory
  /\ MAX_TASKS \in Nat \ {0, 1}
  /\ {TaskLength, StackLength, STACK_SIZE, CodeLength} \subseteq Nat \ {0}
  /\ CODE_ADDRESS \in Nat /\ CODE_ADDRESS + CodeLength < PageSize
  /\ CODE_ADDRESS + CodeLength + StackLength <= Video
  /\ Elfs \intersect {NoElf, Garbage} = {}
  /\ \A elf \in Elfs : Segments[elf] \in Seq([vaddr : Address, memsz : Nat])
  /\ Leftover \subseteq Elfs \union {NoElf, Garbage}
  /\ Leftover # {}

\* What is expected of the files, which the kernel does not check: their segments lie in
\* the user domain, each in pages of its own; a file that a VM86 task may be taken to
\* have has no segment that is longer than the memory below the video memory.
Proper ==
  /\ Elfs \subseteq Suitable /\ Garbage \notin Leftover
  /\ \A elf \in Elfs : \A i \in 1 .. Len(Segments[elf]) :
       LET s == Segments[elf][i]
       IN  /\ s.memsz # 0 /\ s.vaddr % PageSize = 0
           /\ pmm_get_page(s.vaddr, 0) + PagesFor(s.memsz) <= PageNumber
           /\ FramesOf(s.vaddr, s.memsz) \subseteq DomainPages("USER")
           /\ elf \in Leftover => s.memsz <= Video
           /\ \A j \in 1 .. i - 1 :
                FramesOf(s.vaddr, s.memsz) \intersect
                FramesOf(Segments[elf][j].vaddr, Segments[elf][j].memsz) = {}

VARIABLES
  vm,              \* the state of the memory
  tasks,           \* tasks[]: a function on the pids in use
  current_task,    \* the pid of the current task, 0 before the first switch
  boot_directory   \* history: the directory of vmm_init

vars == <<vm, tasks, current_task, boot_directory>>

TypeOK ==
  /\ vm \in MemoryState
  /\ DOMAIN tasks \subseteq Pids
  /\ \A p \in DOMAIN tasks : tasks[p] \in Task
  /\ current_task \in DOMAIN tasks \union {0}
  /\ boot_directory \in Page

-----------------------------------------------------------------------------
(* What pmm_init leaves behind, and vmm_init.                              *)

BootBitmap ==
  [p \in Page |->
    CASE pmm_get_address(p) < LowerMemory -> "RESERVED"
      [] pmm_get_address(p) \in LowerMemory .. ENTRIES * PageSize - 1 -> "UNUSED"
      [] pmm_get_address(p) \in ENTRIES * PageSize .. KernelEnd - 1 -> "KERNEL"
      [] pmm_get_address(p) \in KernelEnd .. MemoryEnd - PageSize -> "UNUSED"
      [] OTHER -> "RESERVED"]

BootMemory ==
  [bitmap |-> BootBitmap, tables |-> [p \in Page |-> EmptyTable], page_directory |-> 0,
   old_directory |-> 0, domain_check_enabled |-> FALSE, paging |-> FALSE,
   fault |-> FALSE, short |-> FALSE]

Init ==
  /\ vm = vmm_init(BootMemory, Video, VideoLength).m
  /\ tasks = <<>>
  /\ current_task = 0
  /\ boot_directory = vm.page_directory

-----------------------------------------------------------------------------
(* Creation and destruction.                                               *)

LastByte(ptr, len) == ptr + len - 1
AccessAll(m, ptr, len) ==
  IF \E p \in FramesOf(ptr, len) : Access(m, pmm_get_address(p)).fault
  THEN [m EXCEPT !.fault = TRUE] ELSE m

\* What task_create_detailed and vm86_create_task begin with: a is what vmm_alloc came to
\* for the structure, d the directory, which is loaded for modification.
NewTask(a, d) ==
  [m |-> Access(vmm_modify_page_directory(Access(d.m, a.ptr), d.ptr), a.ptr),
   at |-> a.ptr, dir |-> d.ptr]

\* A directory is created unless one is given.
NewTaskAt(a, dir) ==
  NewTask(a, IF dir = 0 THEN vmm_create_page_directory(a.m) ELSE Result(a.m, dir))

\* The stacks are written to when they are both there.
Finish(new, ks, us, kind, kernel_stack_len, user_stack_len, elf) ==
  [m    |-> vmm_modified_page_directory(Access(us.m, LastByte(ks.ptr, kernel_stack_len))),
   task |-> [kind |-> kind, running |-> TRUE, at |-> new.at, page_directory |-> new.dir,
             kernel_stack |-> ks.ptr, user_stack |-> us.ptr,
             kernel_stack_len |-> kernel_stack_len, user_stack_len |-> user_stack_len,
             elf |-> elf]]

task_create_detailed(m, kind, dir, kernel_stack_len, user_stack_len, elf) ==
  LET new == NewTaskAt(vmm_alloc(m, TaskLength, "KERNEL"), dir)
      ks  == vmm_alloc(new.m, kernel_stack_len, "KERNEL")
  IN  Finish(new, ks, vmm_alloc(ks.m, user_stack_len, "USER"), kind,
             kernel_stack_len, user_stack_len, elf)

elf_check(elf) == elf \in Suitable

\* The first n segments get memory, which is written to.
LoadSegments(m, elf, n) ==
  LET loaded[k \in 0 .. Len(Segments[elf])] ==
        IF k = 0 THEN m
        ELSE LET s == Segments[elf][k]
             IN  AccessAll(vmm_use_virtual_memory(loaded[k - 1], s.vaddr, s.memsz, "USER").m,
                           s.vaddr, s.memsz)
  IN  loaded[n]

\* A file that is not suitable is not loaded, and the entry point of the task is 0.
elf_load(m, elf, dir) ==
  IF ~ elf_check(elf) THEN m
  ELSE vmm_modified_page_directory(
         LoadSegments(vmm_modify_page_directory(m, dir), elf, Len(Segments[elf])))

elf_create_task(m, elf) ==
  LET dir == vmm_create_page_directory(m)
  IN  task_create_detailed(elf_load(dir.m, elf, dir.ptr), "elf", dir.ptr, StackLength, StackLength,
                           elf)

\* The elf of the structure is not assigned.
vm86_create_task(m, elf) ==
  LET new == NewTaskAt(vmm_alloc(m, TaskLength, "KERNEL"), 0)
      low == [vmm_map_range([new.m EXCEPT !.domain_check_enabled = FALSE],
                            0, 0, LowerMemory, "USER") EXCEPT !.domain_check_enabled = TRUE]
      ks  == vmm_alloc(AccessAll(low, CODE_ADDRESS, CodeLength), StackLength, "KERNEL")
  IN  Finish(new, ks, Result(ks.m, CODE_ADDRESS + CodeLength), "vm86",
             StackLength, StackLength, elf)

FreeSegments(m, elf, n) ==
  LET freed[k \in 0 .. Len(Segments[elf])] ==
        IF k = 0 THEN m
        ELSE vmm_free(freed[k - 1], Segments[elf][k].vaddr, Segments[elf][k].memsz)
  IN  freed[n]

\* To look at a file that is none is to follow a stray pointer.
elf_unload(m, elf, dir) ==
  IF elf = Garbage THEN [m EXCEPT !.fault = TRUE]
  ELSE IF ~ elf_check(elf) THEN m
  ELSE vmm_modified_page_directory(
         FreeSegments(vmm_modify_page_directory(m, dir), elf, Len(Segments[elf])))

task_destroy(m, t) ==
  LET at  == Access(vmm_modify_page_directory(Access(m, t.at), t.page_directory), t.at)
      ks  == vmm_free(at, t.kernel_stack, t.kernel_stack_len)
      us  == vmm_free(ks, t.user_stack, t.user_stack_len)
      dir == vmm_destroy_page_directory(vmm_modified_page_directory(us), t.page_directory)
  IN  vmm_free(dir, t.at, TaskLength)

\* A switch to task t reads its structure, and t goes on with all of its memory.
schedule_switch_task(m, t) ==
  LET n     == vmm_load_page_directory(Access(m, t.at), t.page_directory).m
      stack == AccessAll(n, t.kernel_stack, t.kernel_stack_len)
      user  == IF t.user_stack_len = 0 THEN stack
               ELSE AccessAll(stack, t.user_stack, t.user_stack_len)
  IN  IF t.kind # "elf" THEN user
      ELSE IF ~ elf_check(t.elf) THEN Access(user, 0)
      ELSE IF \E s \in Range(Segments[t.elf]) : AccessAll(user, s.vaddr, s.memsz).fault
      THEN [user EXCEPT !.fault = TRUE] ELSE user

-----------------------------------------------------------------------------
(* Steps.  A kernel that has panicked does nothing any more.               *)

\* The kernel carries on in state m, or has panicked on the way there.
Commit(m) ==
  vm' = IF m.fault THEN [vm EXCEPT !.fault = TRUE, !.short = m.short] ELSE m

\* The lowest pid that is not in use.
FreePid == CHOOSE p \in Pids \ DOMAIN tasks : \A q \in Pids \ DOMAIN tasks : p <= q

task_add(c) ==
  /\ DOMAIN tasks # Pids
  /\ Commit(c.m)
  /\ tasks' = IF c.m.fault THEN tasks
              ELSE [p \in DOMAIN tasks \union {FreePid} |-> IF p = FreePid THEN c.task ELSE tasks[p]]
  /\ UNCHANGED <<current_task, boot_directory>>

\* main creates the main task, which creates all others.
Creating == ~ vm.fault /\ (current_task = MainPid \/ DOMAIN tasks = {})

CreateKernelTask ==
  /\ Creating
  /\ task_add(task_create_detailed(vm, "kernel", 0, IF DOMAIN tasks = {} THEN STACK_SIZE
                                                   ELSE StackLength, 0, NoElf))

CreateElfTask(elf) ==
  /\ Creating /\ DOMAIN tasks # {}
  /\ task_add(elf_create_task(vm, elf))

\* Only one VM86 task can be run at a time.
CreateVm86Task(elf) ==
  /\ Creating /\ DOMAIN tasks # {}
  /\ \A p \in DOMAIN tasks : tasks[p].kind # "vm86"
  /\ task_add(vm86_create_task(vm, elf))

\* The timer switches to another task.
Switch(pid) ==
  /\ ~ vm.fault
  /\ pid # current_task /\ tasks[pid].running
  /\ LET m == schedule_switch_task(vm, tasks[pid])
     IN  /\ Commit(m)
         /\ current_task' = IF m.fault THEN current_task ELSE pid
  /\ UNCHANGED <<tasks, boot_directory>>

\* syscall_exit.
Exit(pid) ==
  /\ ~ vm.fault
  /\ current_task \notin {0, MainPid}
  /\ pid # current_task /\ tasks[pid].running
  /\ LET m == schedule_switch_task(vm, tasks[pid])
     IN  /\ Commit(m)
         /\ current_task' = IF m.fault THEN current_task ELSE pid
         /\ tasks' = IF m.fault THEN tasks ELSE [tasks EXCEPT ![current_task].running = FALSE]
  /\ UNCHANGED boot_directory

\* schedule_finalize_tasks, run by the main task, at one task.
Destroy(pid) ==
  /\ ~ vm.fault
  /\ current_task = MainPid
  /\ ~ tasks[pid].running
  /\ LET t == tasks[pid]
         m == task_destroy(IF t.elf = NoElf THEN vm
                           ELSE elf_unload(vm, t.elf, t.page_directory), t)
     IN  /\ Commit(m)
         /\ tasks' = IF m.fault THEN tasks
                     ELSE [p \in DOMAIN tasks \ {pid} |-> tasks[p]]
  /\ UNCHANGED <<current_task, boot_directory>>

Next ==
  \/ CreateKernelTask
  \/ \E elf \in Elfs : CreateElfTask(elf)
  \/ \E elf \in Leftover : CreateVm86Task(elf)
  \/ \E pid \in DOMAIN tasks : Switch(pid) \/ Exit(pid) \/ Destroy(pid)

Spec == Init /\ [][Next]_vars

-----------------------------------------------------------------------------
(* What memory is used for.                                                *)

\* The frame behind a virtual address in a directory.
FrameIn(dir, vaddr) ==
  FrameAt([vm EXCEPT !.page_directory = dir], vaddr)

DirOf(t) == pmm_get_page(t.page_directory, 0)
PageSet(ptr, len) == IF len = 0 THEN {} ELSE FramesOf(ptr, len)

\* What a task has allocated, as pages: in the kernel domain and in its own.
KernelPagesOf(t) == PageSet(t.at, TaskLength) \union PageSet(t.kernel_stack, t.kernel_stack_len)
UserPagesOf(t) ==
  IF t.kind # "elf" THEN {}
  ELSE PageSet(t.user_stack, t.user_stack_len) \union
       UNION {PageSet(s.vaddr, s.memsz) : s \in IF elf_check(t.elf) THEN Range(Segments[t.elf]) ELSE {}}

Tables(dir, indices) == {<<i, vm.tables[dir][i].page>> : i \in {j \in indices : vm.tables[dir][j].pr}}

\* Every use of a frame: who uses it for what.
KernelUses ==
  {<<"image", p, p>> : p \in PageSet(ENTRIES * PageSize, KernelEnd - ENTRIES * PageSize)}
  \union {<<"video", p, p>> : p \in PageSet(Video, VideoLength)}
  \union {<<"directory", 0, boot_directory>>}
  \union {<<"low table", 0, e[2]>> : e \in Tables(boot_directory, {0})}
  \union {<<"kernel table", e[1], e[2]>> : e \in Tables(vm.page_directory, KernelTables)}

TaskUses(pid) ==
  LET t == tasks[pid]
  IN  {<<"directory", pid, DirOf(t)>>}
      \union {<<"table", <<pid, e[1]>>, e[2]>> : e \in Tables(DirOf(t), {0} \union UserTables)}
      \union {<<"page", <<pid, p>>, FrameIn(DirOf(t), pmm_get_address(p))>> : p \in UserPagesOf(t)}
      \union {<<"page", <<pid, p>>, FrameIn(vm.page_directory, pmm_get_address(p))>> :
                p \in KernelPagesOf(t)}

Uses == KernelUses \union UNION {TaskUses(pid) : pid \in DOMAIN tasks}

-----------------------------------------------------------------------------
(* Properties.                                                             *)

(* Every frame the kernel or a task relies on (image, directories, tables, *)
(* structures, stacks, segments) serves one purpose only and is marked as  *)
(* used, so that pmm_alloc will not hand it out while it is relied on.     *)
NothingShared ==
  /\ \A u, w \in Uses : u[3] = w[3] => u = w
  /\ \A u \in Uses : vm.bitmap[u[3]] \in {"KERNEL", "USER"}

(* The converse: a frame marked as used serves a purpose; task_destroy and *)
(* elf_unload give back all that was allocated for a task.                 *)
NothingLeaks ==
  \A f \in Page : vm.bitmap[f] \in {"KERNEL", "USER"} => \E u \in Uses : u[3] = f

(* The kernel's tables are shared by reference: whatever directory is      *)
(* loaded, no other directory refers to a kernel table that is gone or was *)
(* replaced.                                                               *)
KernelTablesAgree ==
  \A pid \in DOMAIN tasks : \A i \in KernelTables :
    LET e == vm.tables[DirOf(tasks[pid])][i]
    IN  e.pr => e = vm.tables[vm.page_directory][i]

(* The kernel panics with a page fault only when it ran out of memory: the *)
(* structures and stacks of every task can be reached from whatever        *)
(* directory is loaded, and a task finds all of its memory mapped.         *)
FaultsOnlyWhenShort == vm.fault => vm.short

\* The pages of the kernel domain that are mapped, and those no task has allocated.
MappedKernelPages == {p \in DomainPages("KERNEL") : Mapped(vm, pmm_get_address(p))}
OwnKernelPages == MappedKernelPages \ UNION {KernelPagesOf(tasks[pid]) : pid \in DOMAIN tasks}

\* No page is the last of a table that vmm_unmap could find to be the only one left: a
\* kernel table with its last page in use also holds another page that stays, and no task
\* uses the last page of a table.
LastPagesKept ==
  /\ \A p \in MappedKernelPages : p % ENTRIES = ENTRIES - 1 =>
       \E q \in OwnKernelPages : q \div ENTRIES = p \div ENTRIES /\ q % ENTRIES # ENTRIES - 1
  /\ \A pid \in DOMAIN tasks : \A p \in UserPagesOf(tasks[pid]) : p % ENTRIES # ENTRIES - 1

(* vmm_unmap frees a table whose last entry is the only present one (it is *)
(* meant to free an empty one).  As pages are taken from the lowest on, it *)
(* never meets such a table while there is memory, and takes no table from *)
(* under the pages that are still mapped by it.                            *)
TablesKept == vm.short \/ LastPagesKept

\* The memory of the kernel and of each task, as the processor would find it.
Space ==
  [o \in DOMAIN tasks \union {0} |->
    IF o = 0 THEN [p \in OwnKernelPages |-> FrameIn(vm.page_directory, pmm_get_address(p))]
    ELSE [p \in KernelPagesOf(tasks[o]) \union UserPagesOf(tasks[o]) |->
           FrameIn(IF p \in KernelPagesOf(tasks[o]) THEN vm.page_directory ELSE DirOf(tasks[o]),
                   pmm_get_address(p))]]

Abstract == INSTANCE AddressSpaces WITH SharedPages <- DomainPages("KERNEL"), space <- Space

(* Creating and destroying tasks, switching between their directories and  *)
(* modifying a directory that is not loaded never change the memory of the *)
(* kernel or of another task, and leave no mapping behind.                 *)
ImplementsAddressSpaces == Abstract!Spec

(* pmm_init reserves the first page table to prevent "that we allocate or  *)
(* dereference the null pointer".                                          *)
NullFrameReserved == vm.bitmap[0] = "RESERVED"

=============================================================================
