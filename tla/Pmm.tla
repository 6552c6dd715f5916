--------------------------------- MODULE Pmm ---------------------------------
(***************************************************************************)
(* The physical memory manager, src/src/kernel/mem/pmm.c, together with    *)
(* the part of multiboot.c that feeds it: the memory map of the boot       *)
(* loader is entered in the bitmap, the first page table and the kernel    *)
(* image are claimed, the multiboot structures and the boot modules are    *)
(* copied into memory of the kernel, and the memory below 4 MiB is freed.  *)
(* Afterwards the rest of the kernel allocates and frees frames.           *)
(*                                                                         *)
(* pmm_init runs before interrupts are on, and each later call runs under  *)
(* cli, so a call is one step.                                             *)
(***************************************************************************)
EXTENDS Frames, Sequences

CONSTANTS
  LowerMemory,     \* MULTIBOOT_LOWER_MEMORY: the address 1 MiB
  FirstPageTable,  \* MULTIBOOT_FIRST_PAGE_TABLE: the address 4 MiB
  kernel_start,    \* address of the kernel image, and
  kernel_end,      \* of the first byte behind it
  MemoryMaps,      \* the memory maps a boot loader may pass: sequences of records with
                   \* base, len and available
  InfoLength,      \* bytes of the multiboot structures that are copied en bloc
  Modules,         \* the boot modules: a sequence of records with the lengths of the
                   \* file (len) and of its name (string)
  ModulePages,     \* the frames at which the boot loader may put a module
  Lengths          \* the lengths in bytes that are allocated at run time

\* The boot loader passed no memory map; one that it passes has entries.
NoMap == <<>>

Entry == [base : Address, len : Nat, available : BOOLEAN]
Module == [len : Nat, string : Nat \ {0}]

\* The kernel is linked behind the first page table.  Memory goes on behind the last byte
\* of a module, which is copied, too.
ASSUME PmmAssumption ==
  /\ {LowerMemory, FirstPageTable} \subseteq {pmm_get_address(p) : p \in Page}
  /\ LowerMemory <= FirstPageTable
  /\ {kernel_start, kernel_end} \subseteq Address
  /\ FirstPageTable <= kernel_start /\ kernel_start < kernel_end
  /\ MemoryMaps \subseteq Seq(Entry) \ {NoMap}
  /\ InfoLength \in Nat
  /\ Modules \in Seq(Module)
  /\ ModulePages \subseteq Page
  /\ \A p \in ModulePages, i \in DOMAIN Modules :
       pmm_get_address(p) + Modules[i].len \in Address
  /\ Lengths \subseteq Nat

EntryFrames(e) == IF e.len = 0 THEN {} ELSE FramesOf(e.base, e.len)
AvailableAt(map, a) ==
  \E e \in DOMAIN map : map[e].available /\ a \in map[e].base .. map[e].base + map[e].len - 1

\* What a BIOS passes: a border inside of a frame is followed by the entry of what lies
\* behind it, which has the last word on the frame; the first 4 MiB are memory but for
\* the first of them.
ASSUME MemoryMapAssumption ==
  \A map \in MemoryMaps :
    /\ \A e \in DOMAIN map : \A i \in EntryFrames(map[e]) :
         map[e].available /\ (\A f \in DOMAIN map : f > e => i \notin EntryFrames(map[f]))
         => \A a \in pmm_get_address(i) .. pmm_get_address(i) + PageSize - 1 :
              AvailableAt(map, a)
    /\ \A a \in LowerMemory .. FirstPageTable - 1 : AvailableAt(map, a)

FirstPageTablePages == FirstPageTable \div PageSize

VARIABLES
  bitmap,               \* who uses which frame
  highest_kernel_page,  \* the highest frame ever claimed for the kernel
  mmap,                 \* the memory map, or NoMap
  mod_start,            \* where each module is, its copy once it is made
  contents,             \* what each byte of memory holds: <<i, k>> is byte k of module i
  blocks,               \* history: the memory that is allocated; the copies made by
                        \* pmm_init are permanent
  pc, index             \* the next step of pmm_init, and the entry or module it is at

vars == <<bitmap, highest_kernel_page, mmap, mod_start, contents, blocks, pc, index>>

Other == <<0, 0>>
ModuleIds == DOMAIN Modules
FileBytes == UNION {{i} \X (0 .. Modules[i].len - 1) : i \in ModuleIds}
Steps == {"mmap", "low", "kernel", "copy_info", "copy_modules", "free_lower", "run"}
Block == [ptr : Address, len : Nat \ {0}, flags : {"KERNEL", "USER"}, permanent : BOOLEAN]

TypeOK ==
  /\ bitmap \in Bitmap
  /\ highest_kernel_page \in Page
  /\ mmap \in MemoryMaps \union {NoMap}
  /\ mod_start \in [ModuleIds -> Address]
  /\ contents \in [Address -> FileBytes \union {Other}]
  /\ blocks \subseteq Block
  /\ pc \in Steps
  /\ index \in Nat

-----------------------------------------------------------------------------
(* The state in which the boot loader starts the kernel.                   *)

KernelBytes == kernel_start .. kernel_end - 1
ModuleBytes(i, start) == start .. start + Modules[i].len - 1

LoadedContents(starts) ==
  [a \in Address |->
    IF \E i \in ModuleIds : a \in ModuleBytes(i, starts[i])
    THEN LET i == CHOOSE i \in ModuleIds : a \in ModuleBytes(i, starts[i])
         IN  <<i, a - starts[i]>>
    ELSE Other]

\* Modules are page aligned and overlap neither the kernel image nor each other.
Placements ==
  {starts \in [ModuleIds -> {pmm_get_address(p) : p \in ModulePages}] :
     /\ \A i \in ModuleIds : ModuleBytes(i, starts[i]) \intersect KernelBytes = {}
     /\ \A i, j \in ModuleIds : i # j =>
          ModuleBytes(i, starts[i]) \intersect ModuleBytes(j, starts[j]) = {}}

\* The memset at the start of pmm_init reserves all frames.
Init ==
  /\ bitmap = [i \in Page |-> "RESERVED"]
  /\ highest_kernel_page = 0
  /\ mmap \in MemoryMaps \union {NoMap}
  /\ mod_start \in Placements
  /\ contents = LoadedContents(mod_start)
  /\ blocks = {}
  /\ pc = "mmap"
  /\ index = 1

-----------------------------------------------------------------------------
(* pmm_use and pmm_alloc on the state.                                     *)

\* A plausible slip in the update of highest_kernel_page below: it follows the last
\* page instead of the highest one.
LastPageMutant(ptr, len, flags) ==
  /\ bitmap' = pmm_use(bitmap, ptr, len, flags)
  /\ highest_kernel_page' =
       IF len # 0 /\ flags = "KERNEL" THEN pmm_get_page(ptr, len - 1)
       ELSE highest_kernel_page

Claim(ptr, len, flags) ==
  /\ bitmap' = pmm_use(bitmap, ptr, len, flags)
  /\ LET last == pmm_get_page(ptr, len - 1)
     IN  highest_kernel_page' =
           IF len # 0 /\ flags = "KERNEL" /\ last > highest_kernel_page
           THEN last ELSE highest_kernel_page

pmm_alloc(len, flags) ==
  LET ptr == pmm_find_free(bitmap, len)
  IN  IF ptr = 0
      THEN UNCHANGED <<bitmap, highest_kernel_page, blocks>>
      ELSE /\ Claim(ptr, len, flags)
           /\ blocks' = blocks \union
                {[ptr |-> ptr, len |-> len, flags |-> flags, permanent |-> pc # "run"]}

-----------------------------------------------------------------------------
(* The steps of pmm_init.                                                  *)

\* Without a memory map pmm_init gives up, and main goes on.
NoMemoryMap ==
  /\ pc = "mmap"
  /\ mmap = NoMap
  /\ pc' = "run"
  /\ UNCHANGED <<bitmap, highest_kernel_page, mmap, mod_start, contents, blocks, index>>

\* The loop of multiboot_free_memory.
FreeMemory ==
  /\ pc = "mmap"
  /\ mmap # NoMap
  /\ index <= Len(mmap)
  /\ Claim(mmap[index].base, mmap[index].len,
           IF mmap[index].available THEN "UNUSED" ELSE "RESERVED")
  /\ index' = index + 1
  /\ pc' = IF index = Len(mmap) THEN "low" ELSE "mmap"
  /\ UNCHANGED <<mmap, mod_start, contents, blocks>>

\* A plausible slip in the next action: only the memory below 1 MiB is reserved.
LowerMemoryMutant ==
  /\ pc = "low"
  /\ bitmap' = [i \in Page |->
       IF i < LowerMemory \div PageSize THEN "RESERVED" ELSE bitmap[i]]
  /\ pc' = "kernel"
  /\ UNCHANGED <<highest_kernel_page, mmap, mod_start, contents, blocks, index>>

\* The first page table is reserved for VM86 tasks: BITMAP_INIT again.
ReserveFirstPageTable ==
  /\ pc = "low"
  /\ bitmap' = [i \in Page |-> IF i < FirstPageTablePages THEN "RESERVED" ELSE bitmap[i]]
  /\ pc' = "kernel"
  /\ UNCHANGED <<highest_kernel_page, mmap, mod_start, contents, blocks, index>>

\* The byte at kernel_end is claimed with the image.
pmm_use_kernel_memory ==
  /\ pc = "kernel"
  /\ Claim(kernel_start, kernel_end - kernel_start + 1, "KERNEL")
  /\ pc' = "copy_info"
  /\ index' = 1
  /\ UNCHANGED <<mmap, mod_start, contents, blocks>>

\* What memcpy leaves in memory when it copies n bytes upwards, one by one.
memcpy(mem, dst, src, n) ==
  [a \in Address |->
    IF a \notin dst .. dst + n - 1 THEN mem[a]
    ELSE IF dst > src /\ dst < src + n THEN mem[src + ((a - dst) % (dst - src))]
    ELSE mem[src + (a - dst)]]

Overwrite(mem, dst, n) == [a \in Address |-> IF a \in dst .. dst + n - 1 THEN Other ELSE mem[a]]

\* The multiboot info, the memory map and the module list, from lower memory.
CopyInfo ==
  /\ pc = "copy_info"
  /\ pmm_alloc(InfoLength, "KERNEL")
  /\ contents' = Overwrite(contents, pmm_find_free(bitmap, InfoLength), InfoLength)
  /\ pc' = IF Modules = <<>> THEN "free_lower" ELSE "copy_modules"
  /\ UNCHANGED <<mmap, mod_start, index>>

\* One module: mod_end is the byte behind the file, and it is copied too.
CopyModule ==
  /\ pc = "copy_modules"
  /\ LET length == Modules[index].len + 1
         string == Modules[index].string
         dst    == pmm_find_free(bitmap, length + string)
     IN  /\ pmm_alloc(length + string, "KERNEL")
         /\ contents' = Overwrite(memcpy(contents, dst, mod_start[index], length),
                                  dst + length, string)
         /\ mod_start' = [mod_start EXCEPT ![index] = dst]
  /\ index' = index + 1
  /\ pc' = IF index = Len(Modules) THEN "free_lower" ELSE "copy_modules"
  /\ UNCHANGED mmap

\* A plausible slip in the next action: all memory below 4 MiB is freed.
FreeAllMutant ==
  /\ pc = "free_lower"
  /\ Claim(0, FirstPageTable, "UNUSED")
  /\ pc' = "run"
  /\ UNCHANGED <<mmap, mod_start, contents, blocks, index>>

FreeLowerMemory ==
  /\ pc = "free_lower"
  /\ Claim(LowerMemory, FirstPageTable - LowerMemory, "UNUSED")
  /\ pc' = "run"
  /\ UNCHANGED <<mmap, mod_start, contents, blocks, index>>

-----------------------------------------------------------------------------
(* Run time: the callers free what they allocated, with the same length.   *)

Alloc(len, flags) ==
  /\ pc = "run"
  /\ pmm_alloc(len, flags)
  /\ UNCHANGED <<mmap, mod_start, contents, pc, index>>

pmm_free(b) ==
  /\ pc = "run"
  /\ Claim(b.ptr, b.len, "UNUSED")
  /\ blocks' = blocks \ {b}
  /\ UNCHANGED <<mmap, mod_start, contents, pc, index>>

Next ==
  \/ NoMemoryMap \/ FreeMemory \/ ReserveFirstPageTable \/ pmm_use_kernel_memory
  \/ CopyInfo \/ CopyModule \/ FreeLowerMemory
  \/ \E len \in Lengths, flags \in {"KERNEL", "USER"} : Alloc(len, flags)
  \/ \E b \in blocks : ~ b.permanent /\ pmm_free(b)

Spec == Init /\ [][Next]_vars

-----------------------------------------------------------------------------
(* Properties.                                                             *)

BlockFrames(b) == FramesOf(b.ptr, b.len)
LowFrames == {i \in Page : pmm_get_address(i) < LowerMemory}
KernelFrames == FramesOf(kernel_start, kernel_end - kernel_start + 1)

(* No frame is handed out twice, none of the kernel image or of the memory  *)
(* below 1 MiB (the null page, the BIOS data) is handed out at all, and    *)
(* what is handed out is marked as such until it is freed.                 *)
HandedOutOnce ==
  \A b \in blocks :
    /\ \A i \in BlockFrames(b) : bitmap[i] = b.flags
    /\ BlockFrames(b) \intersect (LowFrames \union KernelFrames) = {}
    /\ \A c \in blocks : b # c => BlockFrames(b) \intersect BlockFrames(c) = {}

(* Once pmm_init is done, frames are free only where the boot loader found *)
(* memory, although it enters frames that are partly outside, and although  *)
(* pmm_init itself frees all memory from 1 MiB to 4 MiB.                   *)
OnlyMemoryIsFree ==
  pc = "run" =>
    \A i \in Page : bitmap[i] = "UNUSED" =>
      \A a \in pmm_get_address(i) .. pmm_get_address(i) + PageSize - 1 : AvailableAt(mmap, a)

(* vmm_init maps the frames that are in use up to highest_kernel_page and   *)
(* turns paging on: no frame of the kernel may lie above.                  *)
HighestKernelPageBounds ==
  \A i \in Page : bitmap[i] = "KERNEL" => i <= highest_kernel_page

\* Module i has been copied.
Copied(i) ==
  \/ pc \in {"free_lower", "run"} /\ mmap # NoMap
  \/ pc = "copy_modules" /\ i < index

(* multiboot_copy_memory copies "some data we don't want to overwrite": the *)
(* copy of every module holds the file the boot loader loaded.             *)
ModulesIntact ==
  \A i \in ModuleIds : Copied(i) =>
    \A k \in 0 .. Modules[i].len - 1 : contents[mod_start[i] + k] = <<i, k>>

=============================================================================
