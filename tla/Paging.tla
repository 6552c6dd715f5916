-------------------------------- MODULE Paging -------------------------------
(***************************************************************************)
(* The virtual memory manager, src/src/kernel/mem/vmm.c, as operators on   *)
(* the state of the memory.  A function of vmm.c that returns nothing is   *)
(* an operator from state to state; one that returns a pointer yields a    *)
(* record of the new state m and the pointer ptr.                          *)
(*                                                                         *)
(* An access through an address that is not mapped is a page fault, which  *)
(* the kernel answers with a panic.                                        *)
(***************************************************************************)
EXTENDS Frames, Integers

CONSTANTS
  ENTRIES,    \* entries of a page directory, and of a page table
  UserStart   \* user_domain.start: the address 1 GiB

\* A page directory entry is 4 bytes, so that a directory fills a page; the kernel
\* domain starts at the second page table and ends where the user domain starts.
ASSUME PagingAssumption ==
  /\ ENTRIES \in Nat \ (0 .. 3)
  /\ PageNumber = ENTRIES * ENTRIES
  /\ UserStart % (ENTRIES * PageSize) = 0
  /\ UserStart \in 2 * ENTRIES * PageSize .. (ENTRIES - 2) * ENTRIES * PageSize

Index == 0 .. ENTRIES - 1
Entry == [pr : BOOLEAN, user : BOOLEAN, page : Page]
Absent == [pr |-> FALSE, user |-> FALSE, page |-> 0]
EmptyTable == [i \in Index |-> Absent]

\* page_directory and old_directory are frames; all frames are kept as if they held
\* tables.  fault tells whether the kernel has panicked with a page fault, short whether
\* a search for free frames or pages has ever failed.
MemoryState ==
  [bitmap : Bitmap, tables : [Page -> [Index -> Entry]], page_directory : Page,
   old_directory : Page, domain_check_enabled : BOOLEAN, paging : BOOLEAN,
   fault : BOOLEAN, short : BOOLEAN]

Result(m, ptr) == [m |-> m, ptr |-> ptr]

-----------------------------------------------------------------------------
(* Addresses and domains.                                                  *)

TableOf(vaddr) == pmm_get_page(vaddr, 0) \div ENTRIES
PageIndexOf(vaddr) == pmm_get_page(vaddr, 0) % ENTRIES

KernelTables == TableOf(ENTRIES * PageSize) .. TableOf(UserStart - 1)
UserTables == TableOf(UserStart) .. ENTRIES - 2

DomainPages(domain) ==
  {p \in Page : p \div ENTRIES \in IF domain = "USER" THEN UserTables ELSE KernelTables}

vmm_domain_check(m, vaddr, flags) ==
  m.domain_check_enabled => pmm_get_page(vaddr, 0) \in DomainPages(flags)

Dir(m) == m.tables[m.page_directory]
Mapped(m, vaddr) ==
  /\ Dir(m)[TableOf(vaddr)].pr
  /\ m.tables[Dir(m)[TableOf(vaddr)].page][PageIndexOf(vaddr)].pr

\* The frame behind a mapped address.
FrameAt(m, vaddr) == m.tables[Dir(m)[TableOf(vaddr)].page][PageIndexOf(vaddr)].page

\* The kernel reads or writes at vaddr.
Access(m, vaddr) ==
  IF m.paging /\ ~ Mapped(m, vaddr) THEN [m EXCEPT !.fault = TRUE] ELSE m

vmm_get_physical_address(m, vaddr) ==
  IF ~ m.paging THEN vaddr
  ELSE IF Mapped(m, vaddr) THEN pmm_get_address(FrameAt(m, vaddr)) + (vaddr % PageSize)
  ELSE 0

-----------------------------------------------------------------------------
(* Frames.                                                                 *)

Short(m) == [m EXCEPT !.short = TRUE]

\* What follows the search of pmm_alloc, which came to ptr.
AllocAt(m, ptr, len, flags) ==
  Result(IF len = 0 THEN m
         ELSE IF ptr = 0 THEN Short(m)
         ELSE [m EXCEPT !.bitmap = pmm_use(@, ptr, len, flags)], ptr)

pmm_alloc(m, len, flags) == AllocAt(m, pmm_find_free(m.bitmap, len), len, flags)

pmm_free(m, ptr, len) == [m EXCEPT !.bitmap = pmm_use(@, ptr, len, "UNUSED")]

vmm_destroy_page_table(m, t) ==
  [pmm_free(m, pmm_get_address(Dir(m)[t].page), PageSize) EXCEPT
     !.tables[m.page_directory][t] = Absent]

-----------------------------------------------------------------------------
(* Mapping.                                                                *)

\* Table t in the frame that a page was allocated at; pmm_alloc is taken to have succeeded.
AddTable(a, t) ==
  LET f == pmm_get_page(a.ptr, 0)
  IN  [a.m EXCEPT !.tables =
         [@ EXCEPT ![a.m.page_directory][t] = [pr |-> TRUE, user |-> TRUE, page |-> f],
                   ![f] = EmptyTable]]

WithTable(m, t) == IF Dir(m)[t].pr THEN m ELSE AddTable(pmm_alloc(m, PageSize, "KERNEL"), t)

\* The entry of vaddr, in a table that is there.
SetEntry(m, vaddr, entry) ==
  [m EXCEPT !.tables[Dir(m)[TableOf(vaddr)].page][PageIndexOf(vaddr)] = entry]

\* A page that is mapped already stays as it is.
Enter(m, vaddr, entry) == IF Mapped(m, vaddr) THEN m ELSE SetEntry(m, vaddr, entry)

vmm_map(m, vaddr, paddr, flags) ==
  IF ~ vmm_domain_check(m, vaddr, flags) THEN m
  ELSE Enter(WithTable(m, TableOf(vaddr)), vaddr,
             [pr |-> TRUE, user |-> flags = "USER", page |-> pmm_get_page(paddr, 0)])

Present(m, t) == {i \in Index : m.tables[Dir(m)[t].page][i].pr}

\* The test of the next operator as it is meant: an empty page table is freed.
EmptyTableMutant(m, vaddr) ==
  LET n == SetEntry(m, vaddr, Absent)
  IN  IF ~ Mapped(m, vaddr) THEN m
      ELSE IF Present(n, TableOf(vaddr)) = {} THEN vmm_destroy_page_table(n, TableOf(vaddr))
      ELSE n

\* A page table whose only present entry is the last one is freed; one without present
\* entries is kept.
vmm_unmap(m, vaddr) ==
  LET n == SetEntry(m, vaddr, Absent)
  IN  IF ~ Mapped(m, vaddr) THEN m
      ELSE IF Present(n, TableOf(vaddr)) = {ENTRIES - 1}
      THEN vmm_destroy_page_table(n, TableOf(vaddr))
      ELSE n

\* How many pages len > 0 bytes from vaddr on lie in.
PageCount(vaddr, len) ==
  LET first == pmm_get_page(vaddr, 0)
      last  == pmm_get_page(vaddr, len - 1)
  IN  IF first <= last THEN last - first + 1 ELSE 0

\* The first n rounds of the loop: page after page is mapped to frame after frame.
MapLoop(m, page, frame, flags, n) ==
  LET mapped[k \in Nat] ==
        IF k = 0 THEN m
        ELSE vmm_map(mapped[k - 1], pmm_get_address(page + k - 1), pmm_get_address(frame + k - 1),
                     flags)
  IN  mapped[n]

vmm_map_range(m, vaddr, paddr, len, flags) ==
  IF len = 0 \/ ~ vmm_domain_check(m, vaddr, flags) THEN m
  ELSE MapLoop(m, pmm_get_page(vaddr, 0), pmm_get_page(paddr, 0), flags, PageCount(vaddr, len))

UnmapLoop(m, page, n) ==
  LET unmapped[k \in Nat] ==
        IF k = 0 THEN m ELSE vmm_unmap(unmapped[k - 1], pmm_get_address(page + k - 1))
  IN  unmapped[n]

vmm_unmap_range(m, vaddr, len) ==
  IF len = 0 THEN m ELSE UnmapLoop(m, pmm_get_page(vaddr, 0), PageCount(vaddr, len))

\* A plausible slip in the next operator: the last place that fits.
LastFitMutant(m, len, domain) ==
  LET free == {p \in DomainPages(domain) :
                 vmm_get_physical_address(m, pmm_get_address(p)) = 0}
      fits == {p \in free : p .. p + PagesFor(len) - 1 \subseteq free}
  IN  IF len = 0 \/ fits = {} THEN 0
      ELSE pmm_get_address(CHOOSE p \in fits : \A q \in fits : q <= p)

\* First fit, as in the physical memory manager; 0 stands for no room.
vmm_find_free(m, len, domain) ==
  LET free == {p \in DomainPages(domain) :
                 vmm_get_physical_address(m, pmm_get_address(p)) = 0}
      fits == {p \in free : p .. p + PagesFor(len) - 1 \subseteq free}
  IN  IF len = 0 \/ fits = {} THEN 0
      ELSE pmm_get_address(CHOOSE p \in fits : \A q \in fits : p <= q)

\* What follows a call of vmm_find_free, which came to vaddr.
MapAt(m, vaddr, paddr, len, flags) ==
  IF vaddr = 0 THEN Result(Short(m), 0)
  ELSE Result(vmm_map_range(m, vaddr, paddr, len, flags), vaddr)

vmm_map_physical_memory(m, paddr, len, flags) ==
  IF ~ m.paging THEN Result(m, paddr)
  ELSE MapAt(m, vmm_find_free(m, len, flags), paddr, len, flags)

vmm_unmap_physical_memory(m, vaddr, len) ==
  IF m.paging THEN vmm_unmap_range(m, vaddr, len) ELSE m

-----------------------------------------------------------------------------
(* Allocation.                                                             *)

\* Marks the memory at paddr as used and maps it somewhere.
vmm_use_physical_memory(m, paddr, len, flags) ==
  LET vaddr == vmm_find_free(m, len, flags)
  IN  IF vaddr = 0 THEN Result(Short(m), 0)
      ELSE Result(vmm_map_range([m EXCEPT !.bitmap = pmm_use(@, paddr, len, flags)],
                                vaddr, paddr, len, flags), vaddr)

vmm_use_virtual_memory(m, vaddr, len, flags) ==
  LET a == pmm_alloc(m, len, flags)
  IN  IF ~ vmm_domain_check(m, vaddr, flags) THEN Result(m, 0)
      ELSE IF a.ptr = 0 THEN a
      ELSE Result(vmm_map_range(a.m, vaddr, a.ptr, len, flags), a.ptr)

MapAllocated(a, len, flags) ==
  IF a.ptr = 0 THEN a ELSE MapAt(a.m, vmm_find_free(a.m, len, flags), a.ptr, len, flags)

vmm_alloc(m, len, flags) ==
  IF len = 0 THEN Result(m, 0) ELSE MapAllocated(pmm_alloc(m, len, flags), len, flags)

\* A plausible slip in the next operator: the address is looked up after the unmapping.
LateLookupMutant(m, vaddr, len) ==
  LET n == vmm_unmap_range(m, vaddr, len)
  IN  IF len = 0 THEN m ELSE pmm_free(n, vmm_get_physical_address(n, vaddr), len)

vmm_free(m, vaddr, len) ==
  IF len = 0 THEN m
  ELSE pmm_free(vmm_unmap_range(m, vaddr, len), vmm_get_physical_address(m, vaddr), len)

-----------------------------------------------------------------------------
(* Page directories.                                                       *)

\* The page that the kernel sees at vaddr, physical until paging is on.
SeenAt(m, vaddr) == IF m.paging THEN FrameAt(m, vaddr) ELSE pmm_get_page(vaddr, 0)

\* Entries of the directory mapped as d are written; then its mapping is given up.
WriteDirectory(d, indices, entries) ==
  IF Access(d.m, d.ptr).fault THEN Access(d.m, d.ptr)
  ELSE vmm_unmap_physical_memory(
         [d.m EXCEPT !.tables[SeenAt(d.m, d.ptr)] =
            [i \in Index |-> IF i \in indices THEN entries[i] ELSE @[i]]],
         d.ptr, PageSize)

\* The last entry of a directory refers to the directory itself.
CreatedIn(a) ==
  Result(WriteDirectory(vmm_map_physical_memory(a.m, a.ptr, PageSize, "KERNEL"), Index,
                        [EmptyTable EXCEPT ![ENTRIES - 1] =
                           [pr |-> TRUE, user |-> FALSE, page |-> pmm_get_page(a.ptr, 0)]]),
         a.ptr)

vmm_create_page_directory(m) == CreatedIn(pmm_alloc(m, PageSize, "KERNEL"))

\* Table 0, the tables of the user domain that are there, and the directory are freed.
FreeUserTables(m, n) ==
  LET freed[k \in Nat] ==
        IF k = 0 THEN m
        ELSE LET t == TableOf(UserStart) + k - 1
             IN  IF Dir(freed[k - 1])[t].pr THEN vmm_destroy_page_table(freed[k - 1], t)
                 ELSE freed[k - 1]
  IN  freed[n]

FreeTables(m) ==
  vmm_destroy_page_table(
    FreeUserTables(vmm_destroy_page_table(m, 0), ENTRIES - 1 - TableOf(UserStart)), ENTRIES - 1)

\* Only what page_directory points to changes meanwhile, not what the processor uses.
DestroyMapped(d) ==
  IF Access(d.m, d.ptr).fault THEN Access(d.m, d.ptr)
  ELSE vmm_unmap_physical_memory(
         [FreeTables([d.m EXCEPT !.page_directory = SeenAt(d.m, d.ptr)]) EXCEPT
            !.page_directory = d.m.page_directory],
         d.ptr, PageSize)

vmm_destroy_page_directory(m, dir_phys) ==
  DestroyMapped(vmm_map_physical_memory(m, dir_phys, PageSize, "KERNEL"))

\* Plausible slips in the next two operators: the temporary mapping stays, and the
\* directory is loaded as it is.
StillMappedMutant(m, dir_phys) ==
  LET d == vmm_map_physical_memory(m, dir_phys, PageSize, "KERNEL")
  IN  [d.m EXCEPT !.tables[SeenAt(d.m, d.ptr)] =
         [i \in Index |-> IF i \in KernelTables THEN Dir(d.m)[i] ELSE @[i]]]

NotRefreshedMutant(m, new_directory) ==
  Result([m EXCEPT !.paging = TRUE, !.page_directory = pmm_get_page(new_directory, 0)],
         pmm_get_address(m.page_directory))

\* Copies the entries of the kernel's tables from the current directory.
\* A plausible slip in the next operator: one table too few.
OneTooFewMutant(d) == WriteDirectory(d, KernelTables \ {TableOf(UserStart - 1)}, Dir(d.m))

CopyKernelTables(d) == WriteDirectory(d, KernelTables, Dir(d.m))

vmm_refresh_page_directory(m, dir_phys) ==
  CopyKernelTables(vmm_map_physical_memory(m, dir_phys, PageSize, "KERNEL"))

\* Yields the directory that was loaded before.
vmm_load_page_directory(m, new_directory) ==
  LET n == IF m.paging THEN vmm_refresh_page_directory(m, new_directory)
           ELSE [m EXCEPT !.paging = TRUE]
  IN  Result([n EXCEPT !.page_directory = pmm_get_page(new_directory, 0)],
             pmm_get_address(m.page_directory))

Remember(l) == [l.m EXCEPT !.old_directory = pmm_get_page(l.ptr, 0)]

vmm_modify_page_directory(m, new_directory) ==
  IF m.old_directory # 0 THEN m ELSE Remember(vmm_load_page_directory(m, new_directory))

vmm_modified_page_directory(m) ==
  IF m.old_directory = 0 THEN m
  ELSE [vmm_load_page_directory(m, pmm_get_address(m.old_directory)).m EXCEPT
          !.old_directory = 0]

-----------------------------------------------------------------------------
(* The start.                                                              *)

\* Nothing of the kernel has been freed yet, so the highest frame ever claimed for it is
\* the highest one in use.
HighestKernelPage(m) ==
  CHOOSE p \in Page : m.bitmap[p] = "KERNEL" /\ \A q \in Page : m.bitmap[q] = "KERNEL" => q <= p

IdentityMap(m, p) ==
  IF m.bitmap[p] \in {"UNUSED", "RESERVED"} THEN m
  ELSE vmm_map(m, pmm_get_address(p), pmm_get_address(p), "KERNEL")

\* The frames 0 .. n - 1.
IdentityMapLoop(m, n) ==
  LET mapped[k \in Nat] == IF k = 0 THEN m ELSE IdentityMap(mapped[k - 1], k - 1)
  IN  mapped[n]

\* Paging is off: the directory is created and filled at its physical address.
vmm_init(m, video, video_len) ==
  LET dir == vmm_create_page_directory(m)
      cur == [dir.m EXCEPT !.page_directory = pmm_get_page(dir.ptr, 0)]
      map == IdentityMapLoop(cur, HighestKernelPage(cur) + 1)
      on  == vmm_load_page_directory([map EXCEPT !.domain_check_enabled = TRUE], dir.ptr)
  IN  vmm_use_physical_memory(on.m, video, video_len, "KERNEL")

=============================================================================
