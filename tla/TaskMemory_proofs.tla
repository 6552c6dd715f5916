------------------------- MODULE TaskMemory_proofs -------------------------
(***************************************************************************)
(* The memory of tasks is safe, for every size of the memory and of the    *)
(* tables, every number of tasks and all files that are as they should be: *)
(* no frame is used twice, none is lost, all directories agree on the      *)
(* kernel's tables and there is no page fault, as long as memory does not  *)
(* run short.                                                              *)
(*                                                                         *)
(* The inductive invariant says that the memory is laid out as the tasks   *)
(* need it (Settles): there are labels and a mapping of which module       *)
(* Memory_proofs speaks, with the directories and the blocks of just the   *)
(* tasks that there are, and the directory of the current task is loaded.  *)
(* The four properties follow from that layout; none of them is inductive, *)
(* as none says what the tables hold.                                      *)
(***************************************************************************)
EXTENDS Memory_proofs

USE FramesAssumption

-----------------------------------------------------------------------------
(* The memory while tasks run, are created and destroyed.                  *)
Running(m) == m.paging /\ m.domain_check_enabled /\ ~ m.fault
Memory(m, D, L, R, V, boot) ==
  Running(m) /\ \E use, mp : Con(m, use, mp) /\ Layout(use, mp, D, L, R, V, boot)

LEMMA MemoryTyped ==
  ASSUME NEW m, NEW D, NEW L, NEW R, NEW V, NEW boot, Memory(m, D, L, R, V, boot)
  PROVE  /\ m \in MemoryState /\ m.page_directory \in D \union {boot}
         /\ \A d \in D \union {boot} : d \in Page /\ d # 0 /\ d \in Home /\ d # Kernel
         /\ boot \notin D
<1>1. PICK use, mp : Con(m, use, mp) /\ Layout(use, mp, D, L, R, V, boot)
  BY DEF Memory
<1>2. m \in MemoryState /\ m.page_directory \in Page /\ use[m.page_directory] \in {Directory, Boot}
  BY <1>1, ConTyped
<1>3. D \subseteq Page /\ boot \in Page
  BY <1>1 DEF Layout
<1>4. \A d \in Page : (use[d] = Directory <=> d \in D) /\ (use[d] = Boot <=> d = boot)
  BY <1>1 DEF Layout, Labelled
<1>5. 0 \in Page /\ use[0] = Free
  BY <1>1, ConLow, VideoPlace DEF Page
<1>6. \A d \in Page : d \in Home /\ d # Kernel
  BY DEF Page, Home, Kernel
<1> QED
  BY <1>2, <1>3, <1>4, <1>5, <1>6, Labels

(* What changes only other homes leaves the kernel's tables as they are.   *)
LEMMA WeakSame ==
  ASSUME NEW mp, Weak(mp), NEW mp2, \A p \in Page : mp2[Kernel][p] = mp[Kernel][p]
  PROVE  Weak(mp2)
<1>1. \A t \in KernelTables : \A i \in Index : PageAt(t, i) \in Page
  BY Indices, PageOfPlace
<1> QED
  BY <1>1, Indices DEF Weak, Anchored

LEMMA QuietRunning ==
  ASSUME NEW m, Running(m), NEW n \in Quiet(m)
  PROVE  Running(n)
BY DEF Running, Quiet

(* Memory is allocated in the kernel's domain.                             *)
LEMMA MemoryAlloc ==
  ASSUME NEW m, NEW D, NEW L, NEW R, NEW V, NEW boot, Memory(m, D, L, R, V, boot),
         NEW len \in Nat \ {0}, NEW key
  PROVE  LET r == vmm_alloc(m, len, "KERNEL")
         IN  \/ r.m.short
             \/ \E p \in Page :
                  /\ r.ptr = pmm_get_address(p) /\ r.m \in Quiet(m)
                  /\ Block(key, Kernel, p, PagesFor(len)) \notin R
                  /\ Memory(r.m, D, L, R \union {Block(key, Kernel, p, PagesFor(len))}, V, boot)
<1> DEFINE r == vmm_alloc(m, len, "KERNEL")
           n == PagesFor(len)
<1>1. PICK use, mp : Con(m, use, mp) /\ Layout(use, mp, D, L, R, V, boot)
  BY DEF Memory
<1>2. Running(m) /\ m.paging /\ m \in MemoryState
  BY MemoryTyped DEF Memory, Running
<1>3. r.m \in Quiet(m)
  BY <1>2, AllocateTyped DEF ResultTyped, Flags
<1>4. n \in Nat \ {0}
  BY PagesForType
<1>5. DomainHome(m, "KERNEL") = Kernel
  BY DEF DomainHome
<1>6. \/ r.m.short
      \/ \E p \in Page, s \in Page :
           /\ r.ptr = pmm_get_address(p) /\ p # 0 /\ p + n <= PageNumber
           /\ Unused(use, s, n) /\ FirstRoom(mp, Kernel, "KERNEL", p, n)
           /\ Con(r.m, Tagged(use, Kernel, p, s, n), PutRun(mp, Kernel, p, s, n))
  BY <1>1, <1>2, <1>5, ConAllocate
<1> HIDE DEF r, n
<1>7. CASE \E p \in Page, s \in Page :
             /\ r.ptr = pmm_get_address(p) /\ p # 0 /\ p + n <= PageNumber
             /\ Unused(use, s, n) /\ FirstRoom(mp, Kernel, "KERNEL", p, n)
             /\ Con(r.m, Tagged(use, Kernel, p, s, n), PutRun(mp, Kernel, p, s, n))
  <2>1. PICK p \in Page, s \in Page :
             /\ r.ptr = pmm_get_address(p) /\ p # 0 /\ p + n <= PageNumber
             /\ Unused(use, s, n) /\ FirstRoom(mp, Kernel, "KERNEL", p, n)
             /\ Con(r.m, Tagged(use, Kernel, p, s, n), PutRun(mp, Kernel, p, s, n))
    BY <1>7
  <2>2. Weak(mp) /\ s + n <= PageNumber /\ "KERNEL" # "USER"
    BY <1>1, <2>1 DEF Layout, Unused
  <2>3. Weak(PutRun(mp, Kernel, p, s, n))
    BY <1>4, <2>1, <2>2, WeakPut
  <2>4. \A q \in p .. p + n - 1 : q \in HomeDomain(Kernel) /\ mp[Kernel][q] = Hole
    BY <2>1 DEF FirstRoom, HomeDomain
  <2>5. Kernel \in D \union {Kernel}
    OBVIOUS
  <2>6. /\ Layout(Tagged(use, Kernel, p, s, n), PutRun(mp, Kernel, p, s, n), D, L,
                  R \union {Block(key, Kernel, p, n)}, V, boot)
        /\ Block(key, Kernel, p, n) \notin R
    BY <1>1, <1>4, <2>1, <2>3, <2>4, <2>5, LayoutAdd
  <2>7. Running(r.m)
    BY <1>2, <1>3, QuietRunning
  <2>8. Memory(r.m, D, L, R \union {Block(key, Kernel, p, n)}, V, boot)
    BY <2>1, <2>6, <2>7 DEF Memory
  <2> QED
    BY <1>3, <2>1, <2>6, <2>8 DEF r, n
<1> QED
  BY <1>6, <1>7 DEF r

(* Memory is allocated in the domain of a task.                            *)
LEMMA MemoryAllocUser ==
  ASSUME NEW m, NEW D, NEW L, NEW R, NEW V, NEW boot, Memory(m, D, L, R, V, boot),
         NEW len \in Nat \ {0}, NEW key, m.page_directory \in D
  PROVE  LET r == vmm_alloc(m, len, "USER")
             h == m.page_directory
         IN  \/ r.m.short
             \/ \E p \in Page :
                  /\ r.ptr = pmm_get_address(p) /\ r.m \in Quiet(m)
                  /\ Block(key, h, p, PagesFor(len)) \notin R
                  /\ Memory(r.m, D, L, R \union {Block(key, h, p, PagesFor(len))}, V, boot)
<1> DEFINE r == vmm_alloc(m, len, "USER")
           n == PagesFor(len)
           h == m.page_directory
<1>1. PICK use, mp : Con(m, use, mp) /\ Layout(use, mp, D, L, R, V, boot)
  BY DEF Memory
<1>2. Running(m) /\ m.paging /\ m \in MemoryState /\ h \in Home /\ h # Kernel /\ h \in Page
  BY MemoryTyped DEF Memory, Running
<1>3. r.m \in Quiet(m)
  BY <1>2, AllocateTyped DEF ResultTyped, Flags
<1>4. n \in Nat \ {0}
  BY PagesForType
<1>5. DomainHome(m, "USER") = h /\ use[h] # Boot
  <2>1. use[h] = Directory
    BY <1>1, <1>2 DEF Layout, Labelled
  <2> QED
    BY <2>1, Labels DEF DomainHome
<1>6. \/ r.m.short
      \/ \E p \in Page, s \in Page :
           /\ r.ptr = pmm_get_address(p) /\ p # 0 /\ p + n <= PageNumber
           /\ Unused(use, s, n) /\ FirstRoom(mp, h, "USER", p, n)
           /\ Con(r.m, Tagged(use, h, p, s, n), PutRun(mp, h, p, s, n))
  BY <1>1, <1>2, <1>5, ConAllocate
<1> HIDE DEF r, n
<1>7. CASE \E p \in Page, s \in Page :
             /\ r.ptr = pmm_get_address(p) /\ p # 0 /\ p + n <= PageNumber
             /\ Unused(use, s, n) /\ FirstRoom(mp, h, "USER", p, n)
             /\ Con(r.m, Tagged(use, h, p, s, n), PutRun(mp, h, p, s, n))
  <2>1. PICK p \in Page, s \in Page :
             /\ r.ptr = pmm_get_address(p) /\ p # 0 /\ p + n <= PageNumber
             /\ Unused(use, s, n) /\ FirstRoom(mp, h, "USER", p, n)
             /\ Con(r.m, Tagged(use, h, p, s, n), PutRun(mp, h, p, s, n))
    BY <1>7
  <2>2. Weak(mp)
    BY <1>1 DEF Layout
  <2>3. Weak(PutRun(mp, h, p, s, n))
    <3>1. \A q \in Page : PutRun(mp, h, p, s, n)[Kernel][q] = mp[Kernel][q]
      BY <1>2, RunAt, KernelHome
    <3> QED
      BY <2>2, <3>1, WeakSame
  <2>4. \A q \in p .. p + n - 1 : q \in HomeDomain(h) /\ mp[h][q] = Hole
    BY <1>2, <2>1 DEF FirstRoom, HomeDomain
  <2>5. h \in D \union {Kernel}
    OBVIOUS
  <2> HIDE DEF h
  <2>6. /\ Layout(Tagged(use, h, p, s, n), PutRun(mp, h, p, s, n), D, L,
                  R \union {Block(key, h, p, n)}, V, boot)
        /\ Block(key, h, p, n) \notin R
    BY <1>1, <1>4, <2>1, <2>3, <2>4, <2>5, LayoutAdd
  <2>7. Running(r.m)
    BY <1>2, <1>3, QuietRunning
  <2>8. Memory(r.m, D, L, R \union {Block(key, h, p, n)}, V, boot)
    BY <2>1, <2>6, <2>7 DEF Memory
  <2> QED
    BY <1>3, <2>1, <2>6, <2>8 DEF r, n, h
<1> QED
  BY <1>6, <1>7 DEF r

(* Memory is allocated for pages of a task that are given.                 *)
LEMMA MemoryUse ==
  ASSUME NEW m, NEW D, NEW L, NEW R, NEW V, NEW boot, Memory(m, D, L, R, V, boot),
         NEW len \in Nat \ {0}, NEW key, m.page_directory \in D, NEW p \in Page,
         p + PagesFor(len) <= PageNumber,
         \A q \in p .. p + PagesFor(len) - 1 : q \in DomainPages("USER"),
         \A b \in R, q \in p .. p + PagesFor(len) - 1 : b.home = m.page_directory => q \notin PagesIn(b)
  PROVE  LET r == vmm_use_virtual_memory(m, pmm_get_address(p), len, "USER")
             b == Block(key, m.page_directory, p, PagesFor(len))
         IN  \/ r.m.short
             \/ r.m \in Quiet(m) /\ b \notin R /\ Memory(r.m, D, L, R \union {b}, V, boot)
<1> DEFINE r == vmm_use_virtual_memory(m, pmm_get_address(p), len, "USER")
           n == PagesFor(len)
           h == m.page_directory
<1>1. PICK use, mp : Con(m, use, mp) /\ Layout(use, mp, D, L, R, V, boot)
  BY DEF Memory
<1>2. Running(m) /\ m.paging /\ m \in MemoryState /\ h \in Home /\ h # Kernel /\ h \in Page
  BY MemoryTyped DEF Memory, Running
<1>3. r.m \in Quiet(m)
  <2>1. pmm_get_address(p) \in Nat
    BY AddressOfPage
  <2> QED
    BY <1>2, <2>1, UseVirtualTyped DEF ResultTyped, Flags
<1>4. n \in Nat \ {0}
  BY PagesForType
<1>5. use[h] # Boot
  <2>1. use[h] = Directory
    BY <1>1, <1>2 DEF Layout, Labelled
  <2> QED
    BY <2>1, Labels
<1>6. \A q \in p .. p + n - 1 : q \in HomeDomain(h) /\ mp[h][q] = Hole
  <2> SUFFICES ASSUME NEW q \in p .. p + n - 1 PROVE q \in HomeDomain(h) /\ mp[h][q] = Hole
    OBVIOUS
  <2>1. q \in HomeDomain(h)
    BY <1>2 DEF HomeDomain
  <2>2. q \in Page /\ T(q) # 0
    BY <2>1, HomePlace
  <2>3. ~ \E b \in R : b.home = h /\ q \in PagesIn(b)
    OBVIOUS
  <2> QED
    BY <1>1, <1>2, <2>1, <2>2, <2>3 DEF Layout, NoMore
<1>7. \/ r.m.short
      \/ \E s \in Page : /\ Unused(use, s, n)
                         /\ Con(r.m, Tagged(use, h, p, s, n), PutRun(mp, h, p, s, n))
  BY <1>1, <1>2, <1>5, <1>6, ConUseVirtual
<1> HIDE DEF r, n
<1>8. CASE \E s \in Page : /\ Unused(use, s, n)
                           /\ Con(r.m, Tagged(use, h, p, s, n), PutRun(mp, h, p, s, n))
  <2>1. PICK s \in Page : /\ Unused(use, s, n)
                          /\ Con(r.m, Tagged(use, h, p, s, n), PutRun(mp, h, p, s, n))
    BY <1>8
  <2>2. Weak(mp)
    BY <1>1 DEF Layout
  <2>3. Weak(PutRun(mp, h, p, s, n))
    <3>1. \A q \in Page : PutRun(mp, h, p, s, n)[Kernel][q] = mp[Kernel][q]
      BY <1>2, RunAt, KernelHome
    <3> QED
      BY <2>2, <3>1, WeakSame
  <2>4. h \in D \union {Kernel} /\ p + n <= PageNumber
    BY DEF n
  <2> HIDE DEF h
  <2>6. /\ Layout(Tagged(use, h, p, s, n), PutRun(mp, h, p, s, n), D, L,
                  R \union {Block(key, h, p, n)}, V, boot)
        /\ Block(key, h, p, n) \notin R
    BY <1>1, <1>4, <1>6, <2>1, <2>3, <2>4, LayoutAdd
  <2>7. Running(r.m)
    BY <1>2, <1>3, QuietRunning
  <2>8. Memory(r.m, D, L, R \union {Block(key, h, p, n)}, V, boot)
    BY <2>1, <2>6, <2>7 DEF Memory
  <2> QED
    BY <1>3, <2>6, <2>8 DEF r, n, h
<1> QED
  BY <1>7, <1>8 DEF r

(* The last page of a table is used only in a table where the kernel keeps *)
(* a page of its own: vmm_unmap frees a table whose last page is left.     *)
OwnIn(V, h) == IF h = Kernel THEN DOMAIN V.own ELSE {}
LastKept(R, V, h) ==
  \A p \in Page : I(p) = LastEntry /\ (p \in OwnIn(V, h) \/ \E b \in R : b.home = h /\ p \in PagesIn(b)) =>
    \E v \in OwnIn(V, h) : T(v) = T(p) /\ I(v) # LastEntry

(* What else is mapped in the table of a page that is the last one.        *)
LEMMA LastNeighbour ==
  ASSUME NEW use, NEW mp, NEW D, NEW L, NEW R, NEW V, NEW boot,
         Layout(use, mp, D, L, R, V, boot), NEW h \in D \union {Kernel}, LastKept(R, V, h),
         NEW t \in Index, t # 0, mp[h][PageAt(t, LastEntry)] # Hole
  PROVE  \E v \in DOMAIN V.own, i \in Index :
           h = Kernel /\ i # LastEntry /\ v = PageAt(t, i) /\ v \in Page
<1> DEFINE l == PageAt(t, LastEntry)
<1>1. l \in Page /\ T(l) = t /\ I(l) = LastEntry
  BY Indices, PageOfPlace
<1>2. h \in Home
  BY LayoutHomes
<1>3. (h = Kernel /\ l \in DOMAIN V.own) \/ \E b \in R : b.home = h /\ l \in PagesIn(b)
  <2>1. mp[h][l] # Hole /\ T(l) # 0
    BY <1>1
  <2> HIDE DEF l
  <2> QED
    BY <1>1, <1>2, <2>1 DEF Layout, NoMore
<1> HIDE DEF l
<1>4. PICK v \in OwnIn(V, h) : T(v) = t /\ I(v) # LastEntry
  BY <1>1, <1>3 DEF LastKept, OwnIn
<1>5. h = Kernel /\ v \in DOMAIN V.own
  BY <1>4 DEF OwnIn
<1>6. v \in Page
  BY <1>5 DEF Layout, OwnMapped, DomainPages
<1>7. I(v) \in Index /\ v = PageAt(t, I(v))
  BY <1>4, <1>6, PlaceOfPage
<1> QED
  BY <1>4, <1>5, <1>6, <1>7

(* The kernel's own pages lie in no block.                                 *)
LEMMA OwnApart ==
  ASSUME NEW use, NEW mp, NEW D, NEW L, NEW R, NEW V, NEW boot,
         Layout(use, mp, D, L, R, V, boot), NEW b \in R, NEW v \in DOMAIN V.own, v \in PagesIn(b)
  PROVE  b.home # Kernel /\ mp[Kernel][v] # Hole
<1>1. v \in Page /\ V.own[v] \in Page /\ mp[Kernel][v] = V.own[v] /\ use[V.own[v]] = Fixed
  BY DEF Layout, OwnMapped, DomainPages, Labelled
<1>2. mp[b.home][v] = FrameOf(mp, b) + (v - b.page) /\ use[FrameOf(mp, b) + (v - b.page)] = Pag(b.home, v)
  BY DEF Layout, Placed
<1> QED
  BY <1>1, <1>2, Labels, KernelHome

(* A block is freed.                                                       *)
LEMMA MemoryFree ==
  ASSUME NEW m, NEW D, NEW L, NEW R, NEW V, NEW boot, Memory(m, D, L, R, V, boot),
         NEW b \in R, b.home \in {Kernel, m.page_directory}, LastKept(R, V, b.home),
         b \notin DOMAIN V.pins,
         NEW len \in Nat \ {0}, b.count = PagesFor(len)
  PROVE  LET r == vmm_free(m, pmm_get_address(b.page), len)
         IN  r \in Quiet(m) /\ Memory(r, D, L, R \ {b}, V, boot)
<1> DEFINE h == b.home
           p == b.page
           n == b.count
           r == vmm_free(m, pmm_get_address(p), len)
<1>1. PICK use, mp : Con(m, use, mp) /\ Layout(use, mp, D, L, R, V, boot)
  BY DEF Memory
<1> DEFINE s == FrameOf(mp, b)
           P == p .. p + n - 1
<1>2. Running(m) /\ m.paging /\ m \in MemoryState
  BY MemoryTyped DEF Memory, Running
<1>3. /\ h \in D \union {Kernel} /\ p \in Page /\ n \in Nat \ {0} /\ p + n <= PageNumber
      /\ s \in Page /\ s + n <= PageNumber /\ h \in Home /\ PagesIn(b) = P
  <2>1. h \in D \union {Kernel} /\ p \in Page /\ n \in Nat \ {0} /\ p + n <= PageNumber
    BY <1>1 DEF Layout, BlocksTyped
  <2>2. s \in Page /\ s + n <= PageNumber
    BY <1>1 DEF Layout, Placed
  <2>3. D \subseteq Home /\ Kernel \in Home
    BY <1>1, KernelHome DEF Layout, Home, Page
  <2> QED
    BY <2>1, <2>2, <2>3 DEF PagesIn
<1>4. \A q \in P : /\ q \in HomeDomain(h) /\ mp[h][q] = s + (q - p)
                   /\ use[s + (q - p)] = Pag(h, q) /\ s + (q - p) >= VideoPage
  BY <1>1, <1>3 DEF Layout, BlocksTyped, Placed
<1>5. h = Kernel \/ h = m.page_directory
  OBVIOUS
<1>6. \A q \in P : T(q) # LastEntry /\ T(q) # 0 /\ T(q) \in Index /\ HomeOf(m.page_directory, T(q)) = h
  BY <1>3, <1>4, <1>5, HomePlace DEF HomeOf
<1>7. \A v \in DOMAIN V.own : h = Kernel => v \notin P /\ mp[Kernel][v] # Hole
  <2> SUFFICES ASSUME NEW v \in DOMAIN V.own, h = Kernel PROVE v \notin P /\ mp[Kernel][v] # Hole
    OBVIOUS
  <2>1. mp[Kernel][v] # Hole
    BY <1>1, KernelHome DEF Layout, OwnMapped
  <2> QED
    BY <1>1, <1>3, <2>1, OwnApart
<1>8. Kept(mp, h, p, n)
  <2> SUFFICES ASSUME NEW q \in P, mp[h][PageAt(T(q), LastEntry)] # Hole
               PROVE  \E i \in Index : /\ i # LastEntry /\ mp[h][PageAt(T(q), i)] # Hole
                                       /\ PageAt(T(q), i) \notin P
    BY DEF Kept
  <2>1. T(q) \in Index /\ T(q) # 0
    BY <1>6
  <2>2. \E v \in DOMAIN V.own, i \in Index :
          h = Kernel /\ i # LastEntry /\ v = PageAt(T(q), i) /\ v \in Page
    BY <1>1, <1>3, <2>1, LastNeighbour
  <2> QED
    BY <1>7, <2>2
<1>9. \A f \in s .. s + n - 1 : use[f] \notin {Free, Directory, Boot} /\ f >= VideoPage
  <2> SUFFICES ASSUME NEW f \in s .. s + n - 1
               PROVE  use[f] \notin {Free, Directory, Boot} /\ f >= VideoPage
    OBVIOUS
  <2>1. p + (f - s) \in P /\ s + ((p + (f - s)) - p) = f
    BY <1>3 DEF Page
  <2>2. use[f] = Pag(h, p + (f - s)) /\ f >= VideoPage
    BY <1>4, <2>1
  <2> QED
    BY <2>2, Labels
<1>10. mp[h][p] = s /\ n = PagesFor(len)
  BY DEF FrameOf
<1> HIDE DEF s
<1>11. Con(r, Mark(use, s .. s + n - 1, Free), HoleRun(mp, h, p, n))
  BY <1>1, <1>2, <1>3, <1>6, <1>8, <1>9, <1>10, ConRelease
<1>12. Weak(HoleRun(mp, h, p, n))
  <2>1. \A g \in Home, q \in Page :
          HoleRun(mp, h, p, n)[g][q] = IF g = h /\ q \in P THEN Hole ELSE mp[g][q]
    BY HoleAt
  <2>2. CASE h # Kernel
    <3>1. \A q \in Page : HoleRun(mp, h, p, n)[Kernel][q] = mp[Kernel][q]
      BY <2>1, <2>2, KernelHome
    <3>2. Weak(mp)
      BY <1>1 DEF Layout
    <3> HIDE DEF h, p, n
    <3> QED
      BY <3>1, <3>2, WeakSame
  <2>3. CASE h = Kernel
    <3> DEFINE hole == HoleRun(mp, h, p, n)
    <3> SUFFICES ASSUME NEW t \in KernelTables, hole[Kernel][PageAt(t, LastEntry)] # Hole
                 PROVE  \E i \in Index : i # LastEntry /\ hole[Kernel][PageAt(t, i)] # Hole
      BY DEF Weak, Anchored
    <3>1. t \in Index /\ t # 0 /\ PageAt(t, LastEntry) \in Page
      BY Indices, PageOfPlace
    <3>2. mp[Kernel][PageAt(t, LastEntry)] # Hole
      BY <2>1, <3>1, KernelHome
    <3>3. \E v \in DOMAIN V.own, i \in Index :
            Kernel = Kernel /\ i # LastEntry /\ v = PageAt(t, i) /\ v \in Page
      BY <1>1, <2>3, <3>1, <3>2, LastNeighbour
    <3> HIDE DEF hole
    <3> QED
      BY <1>7, <2>1, <2>3, <3>3, KernelHome DEF hole
  <2> QED
    BY <2>2, <2>3
<1>13. Layout(Mark(use, s .. s + n - 1, Free), HoleRun(mp, h, p, n), D, L, R \ {b}, V, boot)
  BY <1>1, <1>12, LayoutRemove DEF s
<1>14. r \in Quiet(m)
  BY <1>2, <1>3, AddressOfPage, ReleaseTyped
<1>15. Running(r)
  BY <1>2, <1>14, QuietRunning
<1>16. Memory(r, D, L, R \ {b}, V, boot)
  <2> HIDE DEF h, p, n, r
  <2> QED
    BY <1>11, <1>13, <1>15 DEF Memory
<1> QED
  BY <1>14, <1>16

LEMMA QuotientBound ==
  ASSUME NEW a \in Nat, NEW q \in Nat, a < q * PageSize
  PROVE  a \div PageSize \in Nat /\ a \div PageSize < q
<1> DEFINE x == a \div PageSize
<1>1. x \in Nat /\ a % PageSize \in 0 .. PageSize - 1 /\ a = x * PageSize + (a % PageSize)
  BY Quotients
<1> HIDE DEF x
<1> SUFFICES ASSUME q <= x PROVE FALSE
  BY <1>1 DEF x
<1>2. q * PageSize <= x * PageSize
  BY <1>1
<1>3. q * PageSize \in Nat /\ x * PageSize \in Nat
  BY <1>1
<1> QED
  BY <1>1, <1>2, <1>3

(* The low memory lies in the first table.                                 *)
LEMMA LowSizes ==
  /\ VideoPage <= ENTRIES - 1
  /\ PagesFor(LowerMemory) \in Nat \ {0} /\ PagesFor(LowerMemory) <= ENTRIES - 1
  /\ LowerMemory \in Nat \ {0}
<1>0. ENTRIES \in Nat /\ ENTRIES > 3 /\ PageNumber = ENTRIES * ENTRIES
  BY Entries
<1>1. ENTRIES - 1 \in Nat /\ (ENTRIES - 1) * PageSize \in Nat
  BY <1>0
<1>2. LowerMemory \in 1 .. (ENTRIES - 1) * PageSize /\ Video \in Nat /\ Video < LowerMemory
  BY <1>1, TaskMemoryAssumption
<1>3. Video < (ENTRIES - 1) * PageSize /\ LowerMemory - 1 \in Nat
      /\ LowerMemory - 1 < (ENTRIES - 1) * PageSize /\ LowerMemory \in Nat \ {0}
  BY <1>1, <1>2
<1>4. Video < MemorySize /\ MemorySize \in Nat
  <2>1. (ENTRIES - 1) * PageSize <= ENTRIES * PageSize
        /\ ENTRIES * PageSize <= ENTRIES * (ENTRIES * PageSize)
        /\ ENTRIES * (ENTRIES * PageSize) = (ENTRIES * ENTRIES) * PageSize
        /\ (ENTRIES - 1) * PageSize \in Nat /\ ENTRIES * PageSize \in Nat
    <3>1. ENTRIES * PageSize \in Nat
      BY <1>0
    <3> QED
      BY <3>1, <1>0
  <2> QED
    BY <1>0, <1>2, <1>3, <2>1 DEF MemorySize, FramesAssumption
<1>5. VideoPage = Video \div PageSize
  <2>1. (Video + 0) % MemorySize = Video
    BY <1>2, <1>4
  <2> QED
    BY <2>1 DEF VideoPage, pmm_get_page
<1>6. Video \div PageSize \in Nat /\ Video \div PageSize < ENTRIES - 1
  BY <1>1, <1>2, <1>3, QuotientBound
<1>7. (LowerMemory - 1) \div PageSize \in Nat /\ (LowerMemory - 1) \div PageSize < ENTRIES - 1
  BY <1>1, <1>3, QuotientBound
<1>8. (LowerMemory - 1) \div PageSize = PagesFor(LowerMemory) - 1
  BY <1>3, RoundUp
<1>9. PagesFor(LowerMemory) \in Nat \ {0}
  BY <1>3, PagesForType
<1> QED
  BY <1>0, <1>3, <1>5, <1>6, <1>7, <1>8, <1>9

(* Pages of a task that are not mapped are freed: this gives the beginning *)
(* of the low memory to the frames that are not used.                      *)
LEMMA MemoryFreeAbsent ==
  ASSUME NEW m, NEW D, NEW L, NEW R, NEW V, NEW boot, Memory(m, D, L, R, V, boot),
         m.page_directory \in D, \A b \in R : b.home # m.page_directory,
         NEW p \in Page, NEW len \in Nat \ {0}, p + PagesFor(len) <= PageNumber,
         \A q \in p .. p + PagesFor(len) - 1 : q \in DomainPages("USER"), len <= Video
  PROVE  LET r == vmm_free(m, pmm_get_address(p), len)
         IN  r \in Quiet(m) /\ Memory(r, D, L, R, V, boot)
<1> DEFINE n == PagesFor(len)
           v == pmm_get_address(p)
           u == vmm_unmap_range(m, v, len)
           h == m.page_directory
           r == vmm_free(m, v, len)
<1>1. PICK use, mp : Con(m, use, mp) /\ Layout(use, mp, D, L, R, V, boot)
  BY DEF Memory
<1>2. Running(m) /\ m.paging /\ m \in MemoryState /\ h \in Home /\ h # Kernel /\ h \in Page
  BY MemoryTyped DEF Memory, Running
<1>3. n \in Nat \ {0} /\ p \in p .. p + n - 1 /\ p \in Nat
  BY PagesForType DEF Page
<1>4. \A q \in Page : q \in DomainPages("USER") =>
        /\ T(q) # LastEntry /\ T(q) \in Index /\ HomeOf(h, T(q)) = h
        /\ mp[h][q] = Hole /\ mp[h][PageAt(T(q), LastEntry)] = Hole
  <2> SUFFICES ASSUME NEW q \in Page, q \in DomainPages("USER")
               PROVE  /\ T(q) # LastEntry /\ T(q) \in Index /\ HomeOf(h, T(q)) = h
                      /\ mp[h][q] = Hole /\ mp[h][PageAt(T(q), LastEntry)] = Hole
    OBVIOUS
  <2>1. q \in HomeDomain(h)
    BY <1>2 DEF HomeDomain
  <2>2. T(q) # LastEntry /\ T(q) \in Index /\ T(q) # 0 /\ T(q) \notin KernelTables
    BY <1>2, <2>1, HomePlace
  <2>3. HomeOf(h, T(q)) = h
    BY <2>2 DEF HomeOf
  <2>4. \A x \in Page : T(x) # 0 => mp[h][x] = Hole
    BY <1>1, <1>2 DEF Layout, NoMore
  <2>5. PageAt(T(q), LastEntry) \in Page /\ T(PageAt(T(q), LastEntry)) = T(q)
    BY <2>2, Indices, PageOfPlace
  <2> QED
    BY <2>2, <2>3, <2>4, <2>5
<1>5. \A q \in p .. p + n - 1 : q \in Page /\ q \in DomainPages("USER")
  BY DEF DomainPages
<1>6. vmm_get_physical_address(m, v) = 0
  <2>1. p \in Page /\ p \in DomainPages("USER")
    BY <1>3, <1>5
  <2>2. ~ Mapped(m, v)
    <3>1. HomeOf(h, T(p)) = h /\ T(p) # LastEntry /\ mp[h][p] = Hole
      BY <1>4, <2>1
    <3> QED
      BY <1>1, <3>1, ConMapped
  <2> QED
    BY <1>2, <2>2 DEF vmm_get_physical_address
<1>7. u = UnmapLoop(m, p, n)
  <2>1. PageCount(v, len) = n /\ pmm_get_page(v, 0) = p
    BY AlignedRange, AddressOfPage
  <2> QED
    BY <2>1 DEF vmm_unmap_range
<1>8. Kept(mp, h, p, n)
  BY <1>4, <1>5 DEF Kept
<1>9. \A q \in p .. p + n - 1 : T(q) # LastEntry /\ HomeOf(m.page_directory, T(q)) = h
  BY <1>4, <1>5
<1>10. r = pmm_free(u, 0, len)
  BY <1>6 DEF vmm_free
<1>11. r \in Quiet(m)
  BY <1>2, AddressOfPage, ReleaseTyped
<1>12. \A g \in Home, q \in Page : mp[g][q] = HoleRun(mp, h, p, n)[g][q]
  BY <1>4, <1>5, HoleAt
<1> HIDE DEF u, n, v, r
<1>13. Con(u, use, HoleRun(mp, h, p, n))
  BY <1>1, <1>2, <1>3, <1>7, <1>8, <1>9, ConUnmapLoop DEF n
<1>14. Con(u, use, mp)
  <2> DEFINE hole == HoleRun(mp, h, p, n)
  <2> HIDE DEF hole
  <2>1. \A g \in Home, q \in Page : mp[g][q] = hole[g][q]
    BY <1>12 DEF hole
  <2>2. Con(u, use, hole)
    BY <1>13 DEF hole
  <2> QED
    BY <2>1, <2>2, ConEqual
<1>15. Con(r, use, mp)
  BY <1>10, <1>14, ConFreeLow
<1>16. Running(r)
  BY <1>2, <1>11, QuietRunning
<1>17. Memory(r, D, L, R, V, boot)
  BY <1>1, <1>15, <1>16 DEF Memory
<1> QED
  BY <1>11, <1>17 DEF r, v

\* The pages of the low memory that len bytes from a lie in: they begin with the first.
LowCount(a, len) == pmm_get_page(a, len - 1) + 1

(* The stack of a VM86 task is freed.                                      *)
LEMMA MemoryFreeLow ==
  ASSUME NEW m, NEW D, NEW L, NEW R, NEW V, NEW boot, Memory(m, D, L, R, V, boot),
         m.page_directory \in D, NEW a \in Nat, NEW len \in Nat \ {0}, a < PageSize, a + len <= Video
  PROVE  LET r == vmm_free(m, a, len)
         IN  /\ r \in Quiet(m)
             /\ Memory(r, D, L \ Lows(m.page_directory, LowCount(a, len)), R, V, boot)
<1> DEFINE n == LowCount(a, len)
           u == vmm_unmap_range(m, a, len)
           h == m.page_directory
           r == vmm_free(m, a, len)
           ptr == vmm_get_physical_address(m, a)
<1>1. PICK use, mp : Con(m, use, mp) /\ Layout(use, mp, D, L, R, V, boot)
  BY DEF Memory
<1>2. Running(m) /\ m.paging /\ m \in MemoryState /\ h \in Home /\ h # Kernel /\ h \in Page
  BY MemoryTyped DEF Memory, Running
<1>3. /\ pmm_get_page(a, len - 1) \in Page /\ pmm_get_page(a, len - 1) < VideoPage
      /\ pmm_get_page(a, 0) = 0
  BY LowRange
<1>4. n \in Nat \ {0} /\ n <= ENTRIES - 1 /\ n <= PageNumber /\ PageCount(a, len) = n
  BY <1>3, LowSizes, VideoPlace, Entries DEF Page, PageCount, LowCount
<1>5. \A q \in 0 .. n - 1 : q \in Page /\ T(q) = 0
  BY <1>4, LowPlace
<1>20. 0 .. 0 + n - 1 = 0 .. n - 1
  BY <1>4
<1>6. 0 \in Page /\ T(0) = 0 /\ 0 \in Index
  <2>1. 0 \in 0 .. n - 1
    BY <1>4
  <2> QED
    BY <1>5, <2>1, Indices
<1>7. HomeOf(h, 0) = h /\ 0 # LastEntry
  BY Indices DEF HomeOf
<1>8. \A q \in Page : T(q) = 0 => (mp[h][q] # Hole => mp[h][q] = q /\ I(q) # LastEntry)
  BY <1>1 DEF Layout, LowMapped
<1>9. ptr \in {0, a}
  <2>1. Mapped(m, a) <=> Mapped(m, pmm_get_address(0))
    BY <1>3, <1>6, PlaceOfAddress, AddressOfPage DEF Mapped
  <2>2. FrameAt(m, a) = FrameAt(m, pmm_get_address(0))
    BY <1>3, <1>6, PlaceOfAddress, AddressOfPage DEF FrameAt
  <2>3. Mapped(m, a) => FrameAt(m, a) = 0
    BY <1>1, <1>6, <1>7, <1>8, <2>1, <2>2, ConMapped
  <2>4. a % PageSize = a
    OBVIOUS
  <2>5. Mapped(m, a) => pmm_get_address(FrameAt(m, a)) + (a % PageSize) = a
    BY <2>3, <2>4 DEF pmm_get_address
  <2> QED
    BY <1>2, <2>5 DEF vmm_get_physical_address
<1>10. u = UnmapLoop(m, 0, n)
  BY <1>3, <1>4 DEF vmm_unmap_range
<1>11. Kept(mp, h, 0, n)
  <2> SUFFICES ASSUME NEW q \in 0 .. 0 + n - 1, mp[h][PageAt(T(q), LastEntry)] # Hole PROVE FALSE
    BY DEF Kept
  <2>1. T(q) = 0 /\ 0 \in Index /\ LastEntry \in Index
    BY <1>5, <1>20, Indices
  <2>2. PageAt(0, LastEntry) \in Page /\ T(PageAt(0, LastEntry)) = 0 /\ I(PageAt(0, LastEntry)) = LastEntry
    BY <2>1, PageOfPlace
  <2> QED
    BY <1>8, <2>1, <2>2
<1>12. \A q \in 0 .. 0 + n - 1 : T(q) # LastEntry /\ HomeOf(m.page_directory, T(q)) = h
  BY <1>5, <1>7, <1>20
<1>13. r = pmm_free(u, ptr, len)
  BY DEF vmm_free
<1>14. r \in Quiet(m)
  BY <1>2, ReleaseTyped
<1> HIDE DEF u, n, r, ptr
<1>15. Con(u, use, HoleRun(mp, h, 0, n))
  <2>1. 0 \in Nat /\ n \in Nat /\ 0 + n <= PageNumber
    BY <1>4
  <2> QED
    BY <1>1, <1>2, <1>10, <1>11, <1>12, <2>1, ConUnmapLoop
<1>16. Con(r, use, HoleRun(mp, h, 0, n))
  <2>1. ptr \in Nat /\ ptr < PageSize /\ ptr + len <= Video
    BY <1>9, TaskMemoryAssumption
  <2> QED
    BY <1>13, <1>15, <2>1, ConFreeLow
<1>17. Layout(use, HoleRun(mp, h, 0, n), D, L \ Lows(h, n), R, V, boot)
  <2> HIDE DEF h
  <2> QED
    BY <1>1, <1>4, LayoutLowUnmap DEF h
<1>18. Running(r)
  BY <1>2, <1>14, QuietRunning
<1>19. Memory(r, D, L \ Lows(h, n), R, V, boot)
  BY <1>16, <1>17, <1>18 DEF Memory
<1> QED
  BY <1>14, <1>19 DEF r, n

(* The low memory is mapped into the directory of a VM86 task.             *)
LowMapping(m) ==
  [vmm_map_range([m EXCEPT !.domain_check_enabled = FALSE], 0, 0, LowerMemory, "USER") EXCEPT
     !.domain_check_enabled = TRUE]

LEMMA LowTyped ==
  ASSUME NEW m \in MemoryState
  PROVE  /\ LowMapping(m) \in Later(m)
         /\ m.domain_check_enabled => LowMapping(m) \in Quiet(m)
<1> DEFINE m1 == [m EXCEPT !.domain_check_enabled = FALSE]
           r == vmm_map_range(m1, 0, 0, LowerMemory, "USER")
<1>1. /\ m1 \in MemoryState /\ m1.short = m.short
      /\ m1.page_directory = m.page_directory /\ m1.old_directory = m.old_directory
      /\ m1.paging = m.paging /\ m1.fault = m.fault
  BY DEF MemoryState
<1> HIDE DEF m1
<1>2. r \in Quiet(m1) /\ r \in MemoryState
  <2>1. r \in Quiet(m1)
    BY <1>1, LowSizes, MapRangeTyped
  <2> QED
    BY <1>1, <2>1, QuietLater
<1> HIDE DEF r
<1>3. LowMapping(m) = [r EXCEPT !.domain_check_enabled = TRUE]
  BY DEF LowMapping, r, m1
<1>4. /\ LowMapping(m) \in MemoryState /\ LowMapping(m).short = r.short
      /\ LowMapping(m).page_directory = r.page_directory
      /\ LowMapping(m).old_directory = r.old_directory
      /\ LowMapping(m).paging = r.paging /\ LowMapping(m).fault = r.fault
      /\ LowMapping(m).domain_check_enabled = TRUE
  BY <1>2, <1>3 DEF MemoryState
<1>5. m.domain_check_enabled \in BOOLEAN
  BY StateFields
<1> QED
  BY <1>1, <1>2, <1>4, <1>5 DEF Quiet, Later

LEMMA MemoryLow ==
  ASSUME NEW m, NEW D, NEW L, NEW R, NEW V, NEW boot, Memory(m, D, L, R, V, boot),
         m.page_directory \in D, \A x \in L : x[1] # m.page_directory
  PROVE  LET r == LowMapping(m)
         IN  \/ r.short
             \/ /\ r \in Quiet(m)
                /\ Memory(r, D, L \union Lows(m.page_directory, PagesFor(LowerMemory)), R, V, boot)
<1> DEFINE m1 == [m EXCEPT !.domain_check_enabled = FALSE]
           r == vmm_map_range(m1, 0, 0, LowerMemory, "USER")
           h == m.page_directory
           n == PagesFor(LowerMemory)
<1>1. PICK use, mp : Con(m, use, mp) /\ Layout(use, mp, D, L, R, V, boot)
  BY DEF Memory
<1>2. Running(m) /\ m \in MemoryState /\ h \in Home /\ h # Kernel /\ h \in Page
  BY MemoryTyped DEF Memory
<1>3. /\ m1 \in MemoryState /\ m1.tables = m.tables /\ m1.bitmap = m.bitmap
      /\ m1.page_directory = m.page_directory /\ ~ m1.domain_check_enabled
  BY <1>2 DEF MemoryState
<1> HIDE DEF m1
<1>4. Con(m1, use, mp)
  BY <1>1, <1>3, ConSame
<1>5. n \in Nat \ {0} /\ n <= ENTRIES - 1 /\ LowerMemory \in Nat \ {0}
  BY LowSizes
<1> HIDE DEF n
<1>6. \A q \in 0 .. n - 1 : q \in Page /\ T(q) = 0
  BY <1>5, LowPlace
<1>7. 0 \in Page /\ T(0) = 0 /\ 0 \in Index /\ 0 # LastEntry /\ 0 \notin KernelTables
      /\ 0 .. 0 + n - 1 = 0 .. n - 1 /\ 0 + n <= PageNumber
  <2>1. 0 \in 0 .. n - 1 /\ n - 1 \in 0 .. n - 1
    BY <1>5
  <2>2. n - 1 \in Page
    BY <1>6, <2>1
  <2> QED
    BY <1>5, <1>6, <2>1, <2>2, Indices DEF Page
<1>8. \A q \in 0 .. n - 1 : mp[h][q] = Hole
  <2> SUFFICES ASSUME NEW q \in 0 .. n - 1 PROVE mp[h][q] = Hole
    OBVIOUS
  <2>1. <<h, q>> \notin L
    <3>1. <<h, q>>[1] = h
      OBVIOUS
    <3> QED
      BY <3>1
  <2> QED
    BY <1>1, <1>6, <2>1 DEF Layout, LowMapped
<1>9. Room(m1, use, mp, h, 0, 0, n, "USER")
  BY <1>2, <1>3, <1>5, <1>6, <1>7, <1>8 DEF Room, HomeOf
<1>10. r.short \/ Con(r, use, PutRun(mp, h, 0, 0, n))
  <2>1. pmm_get_address(0) = 0
    BY DEF pmm_get_address
  <2>2. LET x == vmm_map_range(m1, pmm_get_address(0), pmm_get_address(0), LowerMemory, "USER")
        IN  x.short \/ Con(x, use, PutRun(mp, h, 0, 0, n))
    BY <1>4, <1>5, <1>7, <1>9, ConMapRange DEF n
  <2> QED
    BY <2>1, <2>2
<1>11. r \in MemoryState
  <2>1. r \in Quiet(m1)
    BY <1>3, <1>5, MapRangeTyped
  <2> QED
    BY <1>3, <2>1, QuietLater
<1> HIDE DEF r
<1>12. LowMapping(m) = [r EXCEPT !.domain_check_enabled = TRUE]
  BY DEF LowMapping, r, m1
<1>13. /\ LowMapping(m) \in MemoryState /\ LowMapping(m).short = r.short
       /\ LowMapping(m).tables = r.tables /\ LowMapping(m).bitmap = r.bitmap
       /\ LowMapping(m).page_directory = r.page_directory
  BY <1>11, <1>12 DEF MemoryState
<1>14. LowMapping(m) \in Quiet(m)
  BY <1>2, LowTyped DEF Running
<1>15. ASSUME Con(r, use, PutRun(mp, h, 0, 0, n))
       PROVE  Memory(LowMapping(m), D, L \union Lows(h, n), R, V, boot)
  <2>1. Con(LowMapping(m), use, PutRun(mp, h, 0, 0, n))
    BY <1>13, <1>15, ConSame
  <2>2. Layout(use, PutRun(mp, h, 0, 0, n), D, L \union Lows(h, n), R, V, boot)
    <3> HIDE DEF h
    <3> QED
      BY <1>1, <1>5, LayoutLowMap DEF h
  <2>3. Running(LowMapping(m))
    BY <1>2, <1>14, QuietRunning
  <2> QED
    BY <2>1, <2>2, <2>3 DEF Memory
<1> QED
  BY <1>10, <1>13, <1>14, <1>15 DEF n

(* A directory is created.                                                 *)
LEMMA MemoryCreate ==
  ASSUME NEW m, NEW D, NEW L, NEW R, NEW V, NEW boot, Memory(m, D, L, R, V, boot)
  PROVE  LET a == vmm_create_page_directory(m)
         IN  \/ a.m.short
             \/ \E f \in Page : /\ a.ptr = pmm_get_address(f) /\ f # 0 /\ f \notin D
                                /\ a.m \in Quiet(m)
                                /\ Memory(a.m, D \union {f}, L, R, V, boot)
<1> DEFINE a == vmm_create_page_directory(m)
<1>1. PICK use, mp : Con(m, use, mp) /\ Layout(use, mp, D, L, R, V, boot)
  BY DEF Memory
<1>2. Running(m) /\ m.paging /\ ~ m.fault /\ Weak(mp)
  BY <1>1 DEF Memory, Running, Layout
<1>3. \/ a.m.short
      \/ \E f \in Page : /\ a.ptr = pmm_get_address(f) /\ f # 0 /\ use[f] = Free
                         /\ Con(a.m, Mark(use, {f}, Directory), mp)
                         /\ a.m \in Quiet(m)
  BY <1>1, <1>2, ConCreate
<1> HIDE DEF a
<1>4. ASSUME NEW f \in Page, a.ptr = pmm_get_address(f), f # 0, use[f] = Free,
             Con(a.m, Mark(use, {f}, Directory), mp), a.m \in Quiet(m)
      PROVE  f \notin D /\ Memory(a.m, D \union {f}, L, R, V, boot)
  <2>1. \A p \in Page : mp[f][p] = Hole
    BY <1>1, <1>4, Labels, ConNoHome
  <2>2. Layout(Mark(use, {f}, Directory), mp, D \union {f}, L, R, V, boot) /\ f \notin D
    BY <1>1, <1>4, <2>1, LayoutNewDir
  <2>3. Running(a.m)
    BY <1>2, <1>4, QuietRunning
  <2> QED
    BY <1>4, <2>2, <2>3 DEF Memory
<1> QED
  BY <1>3, <1>4 DEF a

(* A directory is loaded.                                                  *)
LEMMA MemoryLoad ==
  ASSUME NEW m, NEW D, NEW L, NEW R, NEW V, NEW boot, Memory(m, D, L, R, V, boot),
         NEW d \in D \union {boot}
  PROVE  LET r == vmm_load_page_directory(m, pmm_get_address(d)).m
         IN  \/ r.short
             \/ /\ Memory(r, D, L, R, V, boot) /\ r.page_directory = d
                /\ r.old_directory = m.old_directory
<1> DEFINE r == vmm_load_page_directory(m, pmm_get_address(d)).m
<1>1. PICK use, mp : Con(m, use, mp) /\ Layout(use, mp, D, L, R, V, boot)
  BY DEF Memory
<1>2. Running(m) /\ m.paging /\ ~ m.fault /\ Weak(mp)
  BY <1>1 DEF Memory, Running, Layout
<1>3. d \in Page /\ d # 0
  BY MemoryTyped
<1>4. use[d] \in {Directory, Boot}
  BY <1>1, <1>3 DEF Layout, Labelled
<1>5. r.short \/ (/\ Con(r, use, mp) /\ r.page_directory = d
                  /\ r.old_directory = m.old_directory /\ Stays(m, r))
  BY <1>1, <1>2, <1>3, <1>4, ConLoadDir
<1> HIDE DEF r
<1>6. ASSUME Con(r, use, mp), Stays(m, r) PROVE Memory(r, D, L, R, V, boot)
  BY <1>1, <1>2, <1>6 DEF Memory, Stays, Running
<1> QED
  BY <1>5, <1>6 DEF r

LEMMA MemorySame ==
  ASSUME NEW m, NEW D, NEW L, NEW R, NEW V, NEW boot, Memory(m, D, L, R, V, boot),
         NEW d \in Page
  PROVE  LET n == [m EXCEPT !.old_directory = d]
         IN  /\ Memory(n, D, L, R, V, boot) /\ n.page_directory = m.page_directory
             /\ n.old_directory = d /\ n.short = m.short
<1> DEFINE n == [m EXCEPT !.old_directory = d]
<1>1. m \in MemoryState
  BY MemoryTyped
<1>2. /\ n \in MemoryState /\ n.tables = m.tables /\ n.bitmap = m.bitmap
      /\ n.page_directory = m.page_directory /\ n.paging = m.paging /\ n.fault = m.fault
      /\ n.domain_check_enabled = m.domain_check_enabled /\ n.short = m.short /\ n.old_directory = d
  BY <1>1 DEF MemoryState
<1> HIDE DEF n
<1>3. Running(n)
  BY <1>2 DEF Memory, Running
<1>4. \A use, mp : Con(m, use, mp) => Con(n, use, mp)
  BY <1>2, ConSame
<1>5. Memory(n, D, L, R, V, boot)
  BY <1>3, <1>4 DEF Memory
<1> QED
  BY <1>2, <1>5 DEF n

(* A directory is loaded to be modified, and the one before again.         *)
LEMMA MemoryModify ==
  ASSUME NEW m, NEW D, NEW L, NEW R, NEW V, NEW boot, Memory(m, D, L, R, V, boot),
         NEW d \in D \union {boot}, m.old_directory = 0
  PROVE  LET r == vmm_modify_page_directory(m, pmm_get_address(d))
         IN  \/ r.short
             \/ /\ Memory(r, D, L, R, V, boot) /\ r.page_directory = d
                /\ r.old_directory = m.page_directory
<1> DEFINE l == vmm_load_page_directory(m, pmm_get_address(d))
           old == m.page_directory
           r == [l.m EXCEPT !.old_directory = old]
<1>1. m \in MemoryState /\ old \in Page /\ d \in Page
  BY MemoryTyped
<1>2. l.m \in Later(m) /\ l.ptr = pmm_get_address(old)
  BY <1>1, AddressOfPage, LoadTyped
<1>3. vmm_modify_page_directory(m, pmm_get_address(d)) = r
  BY <1>1, <1>2, AddressOfPage DEF vmm_modify_page_directory, Remember
<1>4. l.m.short \/ (/\ Memory(l.m, D, L, R, V, boot) /\ l.m.page_directory = d
                    /\ l.m.old_directory = m.old_directory)
  BY MemoryLoad
<1>5. r.short = l.m.short
  BY <1>2 DEF Later, MemoryState
<1> HIDE DEF l, old
<1>6. ASSUME Memory(l.m, D, L, R, V, boot), l.m.page_directory = d
      PROVE  Memory(r, D, L, R, V, boot) /\ r.page_directory = d /\ r.old_directory = old
  BY <1>1, <1>6, MemorySame
<1> QED
  BY <1>3, <1>4, <1>5, <1>6 DEF old

LEMMA MemoryModified ==
  ASSUME NEW m, NEW D, NEW L, NEW R, NEW V, NEW boot, Memory(m, D, L, R, V, boot),
         m.old_directory \in D \union {boot}
  PROVE  LET r == vmm_modified_page_directory(m)
         IN  \/ r.short
             \/ /\ Memory(r, D, L, R, V, boot) /\ r.page_directory = m.old_directory
                /\ r.old_directory = 0
<1> DEFINE d == m.old_directory
           n == vmm_load_page_directory(m, pmm_get_address(d)).m
           r == [n EXCEPT !.old_directory = 0]
<1>1. m \in MemoryState /\ d \in Page /\ d # 0 /\ 0 \in Page
  BY MemoryTyped DEF Page
<1>2. vmm_modified_page_directory(m) = r
  BY <1>1 DEF vmm_modified_page_directory
<1>3. n \in Later(m)
  BY <1>1, AddressOfPage, LoadTyped
<1>4. n.short \/ (/\ Memory(n, D, L, R, V, boot) /\ n.page_directory = d
                  /\ n.old_directory = m.old_directory)
  BY MemoryLoad
<1>5. r.short = n.short
  BY <1>3 DEF Later, MemoryState
<1> HIDE DEF n, d
<1>6. ASSUME Memory(n, D, L, R, V, boot), n.page_directory = d
      PROVE  Memory(r, D, L, R, V, boot) /\ r.page_directory = d /\ r.old_directory = 0
  BY <1>1, <1>6, MemorySame
<1> QED
  BY <1>2, <1>4, <1>5, <1>6 DEF d

(* A directory that is not loaded is destroyed.                            *)
LEMMA MemoryDestroy ==
  ASSUME NEW m, NEW D, NEW L, NEW R, NEW V, NEW boot, Memory(m, D, L, R, V, boot),
         NEW d \in D, d # m.page_directory, \A b \in R : b.home # d
  PROVE  LET r == vmm_destroy_page_directory(m, pmm_get_address(d))
         IN  \/ r.short
             \/ r \in Quiet(m) /\ Memory(r, D \ {d}, {x \in L : x[1] # d}, R, V, boot)
<1> DEFINE r == vmm_destroy_page_directory(m, pmm_get_address(d))
<1>1. PICK use, mp : Con(m, use, mp) /\ Layout(use, mp, D, L, R, V, boot)
  BY DEF Memory
<1>2. Running(m) /\ m.paging /\ ~ m.fault /\ Weak(mp) /\ d \in Page /\ d # 0
  BY <1>1, MemoryTyped DEF Memory, Running, Layout
<1>3. use[d] = Directory
  BY <1>1, <1>2 DEF Layout, Labelled
<1>4. r.short \/ (Con(r, Mark(use, {d}, Free), Emptied(mp, d)) /\ r \in Quiet(m))
  BY <1>1, <1>2, <1>3, ConDestroy
<1> HIDE DEF r
<1>5. Layout(Mark(use, {d}, Free), Emptied(mp, d), D \ {d}, {x \in L : x[1] # d}, R, V, boot)
  BY <1>1, LayoutDrop
<1>6. ASSUME Con(r, Mark(use, {d}, Free), Emptied(mp, d)), r \in Quiet(m)
      PROVE  Memory(r, D \ {d}, {x \in L : x[1] # d}, R, V, boot)
  <2>1. Running(r)
    BY <1>2, <1>6, QuietRunning
  <2> QED
    BY <1>5, <1>6, <2>1 DEF Memory
<1> QED
  BY <1>4, <1>6 DEF r

(* What a block or the low memory holds is mapped.                         *)
LEMMA MemoryMapped ==
  ASSUME NEW m, NEW D, NEW L, NEW R, NEW V, NEW boot, Memory(m, D, L, R, V, boot),
         NEW b \in R, b.home \in {Kernel, m.page_directory}, NEW q \in PagesIn(b)
  PROVE  q \in Page /\ Mapped(m, pmm_get_address(q))
<1>1. PICK use, mp : Con(m, use, mp) /\ Layout(use, mp, D, L, R, V, boot)
  BY DEF Memory
<1>2. /\ q \in HomeDomain(b.home) /\ FrameOf(mp, b) \in Page
      /\ FrameOf(mp, b) + b.count <= PageNumber /\ b.page \in Page /\ b.count \in Nat
      /\ mp[b.home][q] = FrameOf(mp, b) + (q - b.page)
  BY <1>1 DEF Layout, BlocksTyped, Placed
<1>3. FrameOf(mp, b) + (q - b.page) \in Page
  BY <1>2 DEF PagesIn, Page
<1>4. q \in Page /\ T(q) # LastEntry /\ HomeOf(m.page_directory, T(q)) = b.home
  BY <1>2, HomePlace DEF HomeOf
<1> QED
  BY <1>1, <1>2, <1>3, <1>4, ConMapped, KernelHome

LEMMA MappedPage ==
  ASSUME NEW m, NEW a \in Nat
  PROVE  Mapped(m, a) <=> Mapped(m, pmm_get_address(pmm_get_page(a, 0)))
<1>1. pmm_get_page(a, 0) \in Page
  BY PlaceOfAddress
<1> QED
  BY <1>1, PlaceOfAddress, AddressOfPage DEF Mapped

LEMMA MemoryAccess ==
  ASSUME NEW m, NEW D, NEW L, NEW R, NEW V, NEW boot, Memory(m, D, L, R, V, boot),
         NEW b \in R, b.home \in {Kernel, m.page_directory}, NEW a \in Nat,
         pmm_get_page(a, 0) \in PagesIn(b)
  PROVE  Access(m, a) = m
BY MemoryMapped, MappedPage DEF Access

(* The first and the last byte of a block.                                 *)
LEMMA BlockBytes ==
  ASSUME NEW p \in Page, NEW len \in Nat \ {0}, p + PagesFor(len) <= PageNumber,
         NEW b, b.page = p, b.count = PagesFor(len)
  PROVE  /\ pmm_get_address(p) \in Nat /\ pmm_get_page(pmm_get_address(p), 0) \in PagesIn(b)
         /\ LastByte(pmm_get_address(p), len) \in Nat
         /\ pmm_get_page(LastByte(pmm_get_address(p), len), 0) \in PagesIn(b)
         /\ FramesOf(pmm_get_address(p), len) = PagesIn(b)
<1> DEFINE a == pmm_get_address(p)
           n == PagesFor(len)
           x == pmm_get_page(a, len - 1)
<1>1. n \in Nat \ {0} /\ p \in Nat /\ a \in Nat /\ pmm_get_page(a, 0) = p
  BY PagesForType, AddressOfPage DEF Page
<1>2. FramesOf(a, len) = p .. p + n - 1
  BY AlignedRange
<1>3. FramesOf(a, len) = p .. x
  BY <1>1 DEF FramesOf
<1>4. x \in Page
  BY <1>1, PageType
<1> HIDE DEF a, n, x
<1>5. x \in p .. p + n - 1
  <2>0. p \in p .. p + n - 1
    BY <1>1
  <2>1. p .. x = p .. p + n - 1 /\ p \in p .. x
    BY <1>2, <1>3, <2>0
  <2>2. p <= x
    BY <1>4, <2>1 DEF Page
  <2>3. x \in p .. x
    BY <1>1, <1>4, <2>2 DEF Page
  <2> QED
    BY <2>1, <2>3
<1>6. PagesIn(b) = p .. p + n - 1
  BY DEF PagesIn, n
<1>7. LastByte(a, len) \in Nat /\ pmm_get_page(LastByte(a, len), 0) = x
  <2>1. LastByte(a, len) = a + (len - 1) /\ a + (len - 1) + 0 = a + (len - 1)
    BY <1>1 DEF LastByte
  <2> QED
    BY <1>1, <2>1 DEF pmm_get_page, x
<1> QED
  BY <1>1, <1>2, <1>5, <1>6, <1>7 DEF a

LEMMA MemoryAccessAll ==
  ASSUME NEW m, NEW D, NEW L, NEW R, NEW V, NEW boot, Memory(m, D, L, R, V, boot),
         NEW b \in R, b.home \in {Kernel, m.page_directory}, NEW len \in Nat \ {0},
         b.count = PagesFor(len)
  PROVE  AccessAll(m, pmm_get_address(b.page), len) = m
<1>1. b.page \in Page /\ b.page + b.count <= PageNumber
  BY DEF Memory, Layout, BlocksTyped
<1>2. FramesOf(pmm_get_address(b.page), len) = PagesIn(b)
  BY <1>1, BlockBytes
<1>3. \A q \in PagesIn(b) : Access(m, pmm_get_address(q)) = m
  BY MemoryMapped DEF Access
<1>4. ~ m.fault
  BY DEF Memory, Running
<1> QED
  BY <1>2, <1>3, <1>4 DEF AccessAll

LEMMA VideoBelow == VideoPage < PagesFor(LowerMemory)
<1>1. /\ Video \in Nat /\ Video + VideoLength <= LowerMemory /\ VideoLength \in Nat \ {0}
      /\ LowerMemory \in Nat \ {0}
  BY LowSizes, TaskMemoryAssumption
<1> DEFINE n == PagesFor(LowerMemory)
<1>2. n \in Nat \ {0}
  BY LowSizes
<1>3. (LowerMemory - 1) \div PageSize = n - 1
  BY <1>1, RoundUp
<1> DEFINE r == (LowerMemory - 1) % PageSize
<1>4. r \in 0 .. PageSize - 1 /\ LowerMemory - 1 = (n - 1) * PageSize + r
  <2>1. LowerMemory - 1 \in Nat
    BY <1>1
  <2> QED
    BY <1>3, <2>1, Quotients
<1> HIDE DEF n, r
<1>5. Video < n * PageSize
  <2>1. (n - 1) * PageSize = n * PageSize - PageSize /\ n * PageSize \in Nat
    BY <1>2
  <2> QED
    BY <1>1, <1>4, <2>1
<1>6. Video \div PageSize < n
  BY <1>1, <1>2, <1>5, QuotientBound
<1>7. VideoPage = Video \div PageSize
  <2>1. VideoPage \in Page
    BY VideoPlace
  <2>2. Video < MemorySize /\ MemorySize \in Nat
    <3>0. ENTRIES \in Nat /\ ENTRIES > 3 /\ PageNumber = ENTRIES * ENTRIES
      BY Entries
    <3>1. (ENTRIES - 1) * PageSize <= ENTRIES * PageSize
          /\ ENTRIES * PageSize <= ENTRIES * (ENTRIES * PageSize)
          /\ ENTRIES * (ENTRIES * PageSize) = (ENTRIES * ENTRIES) * PageSize
          /\ (ENTRIES - 1) * PageSize \in Nat /\ ENTRIES * PageSize \in Nat
      <4>1. ENTRIES * PageSize \in Nat
        BY <3>0
      <4> QED
        BY <4>1, <3>0
    <3>2. Video < (ENTRIES - 1) * PageSize
      BY <1>1, <3>1, TaskMemoryAssumption
    <3> QED
      BY <1>1, <3>0, <3>1, <3>2 DEF MemorySize, FramesAssumption
  <2>3. (Video + 0) % MemorySize = Video
    BY <1>1, <2>2
  <2> QED
    BY <2>3 DEF VideoPage, pmm_get_page
<1> QED
  BY <1>6, <1>7 DEF n

LEMMA MemoryAccessLow ==
  ASSUME NEW m, NEW D, NEW L, NEW R, NEW V, NEW boot, Memory(m, D, L, R, V, boot),
         m.page_directory \in D, Lows(m.page_directory, PagesFor(LowerMemory)) \subseteq L,
         NEW a \in Nat, NEW len \in Nat \ {0}, a < PageSize, a + len <= Video
  PROVE  AccessAll(m, a, len) = m
<1> DEFINE h == m.page_directory
<1>1. PICK use, mp : Con(m, use, mp) /\ Layout(use, mp, D, L, R, V, boot)
  BY DEF Memory
<1>2. FramesOf(a, len) = 0 .. pmm_get_page(a, len - 1)
      /\ pmm_get_page(a, len - 1) \in Page /\ pmm_get_page(a, len - 1) < VideoPage
  BY LowRange
<1>3. \A q \in FramesOf(a, len) : q \in 0 .. PagesFor(LowerMemory) - 1
  BY <1>2, VideoBelow, VideoPlace, LowSizes DEF Page
<1>4. \A q \in FramesOf(a, len) : q \in Page /\ T(q) = 0 /\ <<h, q>> \in L
  BY <1>3, LowSizes, LowPlace DEF Lows
<1>5. 0 # LastEntry /\ HomeOf(h, 0) = h
  BY Indices DEF HomeOf
<1>6. \A q \in FramesOf(a, len) : mp[h][q] # Hole
  BY <1>1, <1>4 DEF Layout, LowMapped
<1>7. \A q \in FramesOf(a, len) : Mapped(m, pmm_get_address(q))
  <2> SUFFICES ASSUME NEW q \in FramesOf(a, len) PROVE Mapped(m, pmm_get_address(q))
    OBVIOUS
  <2>1. q \in Page /\ T(q) = 0 /\ mp[h][q] # Hole
    BY <1>4, <1>6
  <2>2. HomeOf(h, T(q)) = h /\ T(q) # LastEntry
    BY <1>5, <2>1
  <2> QED
    BY <1>1, <2>1, <2>2, ConMapped
<1>8. ~ m.fault
  BY DEF Memory, Running
<1> QED
  BY <1>7, <1>8 DEF AccessAll, Access

(* The segments of a file.                                                 *)
LEMMA SegmentTyped ==
  ASSUME NEW elf \in Elfs
  PROVE  /\ Len(Segments[elf]) \in Nat
         /\ \A k \in 1 .. Len(Segments[elf]) :
              /\ Segments[elf][k].vaddr \in Nat /\ Segments[elf][k].vaddr \in Address
              /\ Segments[elf][k].memsz \in Nat
         /\ \A s \in Range(Segments[elf]) : \E k \in 1 .. Len(Segments[elf]) : s = Segments[elf][k]
         /\ \A k \in 1 .. Len(Segments[elf]) : Segments[elf][k] \in Range(Segments[elf])
<1> DEFINE Segment == [vaddr : Address, memsz : Nat]
<1>1. Segments[elf] \in Seq(Segment)
  BY TaskMemoryAssumption
<1> HIDE DEF Segment
<1>2. Len(Segments[elf]) \in Nat /\ DOMAIN Segments[elf] = 1 .. Len(Segments[elf])
      /\ \A k \in 1 .. Len(Segments[elf]) : Segments[elf][k] \in Segment
  BY <1>1
<1>3. Range(Segments[elf]) = {Segments[elf][k] : k \in DOMAIN Segments[elf]}
  BY DEF Range
<1>4. \A k \in 1 .. Len(Segments[elf]) :
        /\ Segments[elf][k].vaddr \in Nat /\ Segments[elf][k].vaddr \in Address
        /\ Segments[elf][k].memsz \in Nat
  BY <1>2, Pointers DEF Segment
<1> QED
  BY <1>2, <1>3, <1>4

(* A loop with a number of rounds that is given.                           *)
FiniteLoops(S, base, N, step) ==
  {g \in [0 .. N -> S] : g = [k \in 0 .. N |-> IF k = 0 THEN base ELSE step[<<g[k - 1], k>>]]}

LEMMA FiniteLoop ==
  ASSUME NEW S, NEW base \in S, NEW N \in Nat, NEW step,
         \A s \in S, k \in 1 .. N : step[<<s, k>>] \in S
  PROVE  FiniteLoops(S, base, N, step) # {}
<1> DEFINE all == [x \in S \X Nat |-> IF x[2] \in 1 .. N THEN step[x] ELSE x[1]]
<1>1. all \in Steps(S)
  <2>1. ASSUME NEW x \in S \X Nat
        PROVE  (IF x[2] \in 1 .. N THEN step[x] ELSE x[1]) \in S
    <3>1. x[1] \in S /\ x = <<x[1], x[2]>>
      OBVIOUS
    <3> QED
      BY <3>1
  <2> QED
    BY <2>1 DEF Steps
<1>2. \A s \in S, k \in 1 .. N : all[<<s, k>>] = step[<<s, k>>]
  <2> SUFFICES ASSUME NEW s \in S, NEW k \in 1 .. N PROVE all[<<s, k>>] = step[<<s, k>>]
    OBVIOUS
  <2>1. <<s, k>> \in S \X Nat /\ <<s, k>>[2] = k
    OBVIOUS
  <2> QED
    BY <2>1
<1> HIDE DEF all
<1>3. Loops(S, base, all) # {}
  BY <1>1, LoopExists
<1>4. PICK h \in [Nat -> S] : h[0] = base /\ \A k \in Nat : h[k + 1] = all[<<h[k], k + 1>>]
  BY <1>3 DEF Loops
<1> DEFINE g == [k \in 0 .. N |-> h[k]]
<1>5. g \in [0 .. N -> S]
  BY <1>4
<1>6. ASSUME NEW k \in 0 .. N PROVE g[k] = IF k = 0 THEN base ELSE step[<<g[k - 1], k>>]
  <2>1. CASE k = 0
    BY <1>4, <2>1
  <2>2. CASE k # 0
    <3>1. k - 1 \in Nat /\ k - 1 \in 0 .. N /\ (k - 1) + 1 = k /\ k \in 1 .. N
      BY <2>2
    <3>2. h[(k - 1) + 1] = all[<<h[k - 1], (k - 1) + 1>>] /\ h[k - 1] \in S
      BY <1>4, <3>1
    <3>3. h[k] = step[<<h[k - 1], k>>]
      BY <1>2, <3>1, <3>2
    <3> QED
      BY <2>2, <3>1, <3>3
  <2> QED
    BY <2>1, <2>2
<1>7. g = [k \in 0 .. N |-> IF k = 0 THEN base ELSE step[<<g[k - 1], k>>]]
  BY <1>5, <1>6
<1> HIDE DEF g
<1> QED
  BY <1>5, <1>7 DEF FiniteLoops

(* The accesses to a range.                                                *)
LEMMA AccessAllTyped ==
  ASSUME NEW m \in MemoryState, NEW ptr, NEW len
  PROVE  /\ AccessAll(m, ptr, len) \in Later(m)
         /\ ~ AccessAll(m, ptr, len).fault => AccessAll(m, ptr, len) = m
<1>1. [m EXCEPT !.fault = TRUE] \in Later(m) /\ m \in Later(m) /\ [m EXCEPT !.fault = TRUE].fault
  BY Updates, QuietLater DEF MemoryState
<1> QED
  BY <1>1 DEF AccessAll

SegmentLoaded(m, elf, k) ==
  AccessAll(vmm_use_virtual_memory(m, Segments[elf][k].vaddr, Segments[elf][k].memsz, "USER").m,
            Segments[elf][k].vaddr, Segments[elf][k].memsz)

LEMMA SegmentLoadedTyped ==
  ASSUME NEW m \in MemoryState, NEW elf \in Elfs, NEW k \in 1 .. Len(Segments[elf])
  PROVE  SegmentLoaded(m, elf, k) \in Later(m) /\ SegmentLoaded(m, elf, k) \in MemoryState
<1> DEFINE a == Segments[elf][k].vaddr
           len == Segments[elf][k].memsz
           u == vmm_use_virtual_memory(m, a, len, "USER").m
<1>1. a \in Nat /\ len \in Nat
  BY SegmentTyped
<1>2. u \in Quiet(m)
  BY <1>1, UseVirtualTyped DEF ResultTyped, Flags
<1>3. u \in MemoryState /\ u \in Later(m)
  BY <1>2, QuietLater
<1> HIDE DEF u
<1>4. AccessAll(u, a, len) \in Later(u)
  BY <1>3, AccessAllTyped
<1>5. AccessAll(u, a, len) \in Later(m) /\ AccessAll(u, a, len) \in MemoryState
  BY <1>3, <1>4, QuietLater
<1> QED
  BY <1>5 DEF SegmentLoaded, u

LEMMA LoadSegmentsRuns ==
  ASSUME NEW m \in MemoryState, NEW elf \in Elfs
  PROVE  LET N == Len(Segments[elf])
         IN  /\ LoadSegments(m, elf, 0) = m
             /\ \A k \in 0 .. N : LoadSegments(m, elf, k) \in Later(m)
             /\ \A k \in 1 .. N : LoadSegments(m, elf, k)
                                  = SegmentLoaded(LoadSegments(m, elf, k - 1), elf, k)
<1> DEFINE N == Len(Segments[elf])
           S == MemoryState
           Round(n, k) == SegmentLoaded(n, elf, k)
           step == [x \in S \X Nat |-> Round(x[1], x[2])]
           Body(f) == [k \in 0 .. N |-> IF k = 0 THEN m ELSE Round(f[k - 1], k)]
           loop == CHOOSE f : f = Body(f)
<1>0. N \in Nat
  BY SegmentTyped
<1>1. \A n \in S, k \in 1 .. N : Round(n, k) \in Later(n) /\ Round(n, k) \in S
  BY SegmentLoadedTyped
<1>10. \A k : LoadSegments(m, elf, k) = loop[k]
  BY Zenon DEF LoadSegments, loop, SegmentLoaded
<1> HIDE DEF Round, loop
<1>2. \A n \in S, k \in 1 .. N : step[<<n, k>>] = Round(n, k)
  OBVIOUS
<1> HIDE DEF step, N, S
<1>3. \A n \in S, k \in 1 .. N : step[<<n, k>>] \in S
  BY <1>1, <1>2
<1>b. m \in S
  BY DEF S
<1>4. PICK g \in [0 .. N -> S] :
        g = [k \in 0 .. N |-> IF k = 0 THEN m ELSE step[<<g[k - 1], k>>]]
  <2>1. FiniteLoops(S, m, N, step) # {}
    BY <1>0, <1>3, <1>b, FiniteLoop
  <2> QED
    BY <2>1 DEF FiniteLoops
<1>5. g = Body(g)
  <2>1. ASSUME NEW k \in 0 .. N PROVE g[k] = Body(g)[k]
    <3>1. g[k] = IF k = 0 THEN m ELSE step[<<g[k - 1], k>>]
      BY <1>4
    <3>2. CASE k # 0
      <4>1. k - 1 \in 0 .. N /\ k \in 1 .. N
        BY <1>0, <3>2
      <4>2. step[<<g[k - 1], k>>] = Round(g[k - 1], k)
        BY <1>2, <1>4, <4>1
      <4> QED
        BY <3>1, <3>2, <4>2
    <3> QED
      BY <3>1, <3>2
  <2> QED
    BY <2>1, <1>4
<1>6. loop = Body(loop)
  BY <1>5 DEF loop
<1>7. loop[0] = m
  BY <1>0, <1>6
<1>8. ASSUME NEW k \in 1 .. N PROVE loop[k] = Round(loop[k - 1], k)
  BY <1>0, <1>6
<1>9. \A k \in Nat : k \in 0 .. N => loop[k] \in Later(m)
  <2> DEFINE U == {k \in Nat : k \in 0 .. N => loop[k] \in Later(m)}
  <2>1. 0 \in U
    BY <1>7, QuietLater
  <2>2. ASSUME NEW k \in Nat, k \in U PROVE k + 1 \in U
    <3> SUFFICES ASSUME k + 1 \in 0 .. N PROVE loop[k + 1] \in Later(m)
      OBVIOUS
    <3>0. k \in 0 .. N /\ k + 1 \in 1 .. N /\ (k + 1) - 1 = k
      BY <1>0
    <3>1. loop[k] \in Later(m) /\ loop[k] \in MemoryState
      BY <2>2, <3>0, QuietLater
    <3>2. Round(loop[k], k + 1) \in Later(loop[k])
      BY <1>1, <3>0, <3>1 DEF S
    <3>3. loop[k + 1] = Round(loop[k], k + 1)
      BY <1>8, <3>0
    <3> QED
      BY <3>1, <3>2, <3>3, QuietLater
  <2> HIDE DEF U
  <2>3. \A k \in Nat : k \in U
    BY <2>1, <2>2, Induction
  <2> QED
    BY <2>3 DEF U
<1> QED
  BY <1>0, <1>7, <1>8, <1>9, <1>10 DEF Round, N

SegmentFreed(m, elf, k) == vmm_free(m, Segments[elf][k].vaddr, Segments[elf][k].memsz)

LEMMA SegmentFreedTyped ==
  ASSUME NEW m \in MemoryState, NEW elf \in Elfs, NEW k \in 1 .. Len(Segments[elf])
  PROVE  SegmentFreed(m, elf, k) \in Quiet(m) /\ SegmentFreed(m, elf, k) \in MemoryState
<1>1. SegmentFreed(m, elf, k) \in Quiet(m)
  BY SegmentTyped, ReleaseTyped DEF SegmentFreed
<1> QED
  BY <1>1, QuietLater

LEMMA FreeSegmentsRuns ==
  ASSUME NEW m \in MemoryState, NEW elf \in Elfs
  PROVE  LET N == Len(Segments[elf])
         IN  /\ FreeSegments(m, elf, 0) = m
             /\ \A k \in 0 .. N : FreeSegments(m, elf, k) \in Quiet(m)
             /\ \A k \in 1 .. N : FreeSegments(m, elf, k)
                                  = SegmentFreed(FreeSegments(m, elf, k - 1), elf, k)
<1> DEFINE N == Len(Segments[elf])
           S == MemoryState
           Round(n, k) == SegmentFreed(n, elf, k)
           step == [x \in S \X Nat |-> Round(x[1], x[2])]
           Body(f) == [k \in 0 .. N |-> IF k = 0 THEN m ELSE Round(f[k - 1], k)]
           loop == CHOOSE f : f = Body(f)
<1>0. N \in Nat
  BY SegmentTyped
<1>1. \A n \in S, k \in 1 .. N : Round(n, k) \in Quiet(n) /\ Round(n, k) \in S
  BY SegmentFreedTyped
<1>10. \A k : FreeSegments(m, elf, k) = loop[k]
  BY Zenon DEF FreeSegments, loop, SegmentFreed
<1> HIDE DEF Round, loop
<1>2. \A n \in S, k \in 1 .. N : step[<<n, k>>] = Round(n, k)
  OBVIOUS
<1> HIDE DEF step, N, S
<1>3. \A n \in S, k \in 1 .. N : step[<<n, k>>] \in S
  BY <1>1, <1>2
<1>b. m \in S
  BY DEF S
<1>4. PICK g \in [0 .. N -> S] :
        g = [k \in 0 .. N |-> IF k = 0 THEN m ELSE step[<<g[k - 1], k>>]]
  <2>1. FiniteLoops(S, m, N, step) # {}
    BY <1>0, <1>3, <1>b, FiniteLoop
  <2> QED
    BY <2>1 DEF FiniteLoops
<1>5. g = Body(g)
  <2>1. ASSUME NEW k \in 0 .. N PROVE g[k] = Body(g)[k]
    <3>1. g[k] = IF k = 0 THEN m ELSE step[<<g[k - 1], k>>]
      BY <1>4
    <3>2. CASE k # 0
      <4>1. k - 1 \in 0 .. N /\ k \in 1 .. N
        BY <1>0, <3>2
      <4>2. step[<<g[k - 1], k>>] = Round(g[k - 1], k)
        BY <1>2, <1>4, <4>1
      <4> QED
        BY <3>1, <3>2, <4>2
    <3> QED
      BY <3>1, <3>2
  <2> QED
    BY <2>1, <1>4
<1>6. loop = Body(loop)
  BY <1>5 DEF loop
<1>7. loop[0] = m
  BY <1>0, <1>6
<1>8. ASSUME NEW k \in 1 .. N PROVE loop[k] = Round(loop[k - 1], k)
  BY <1>0, <1>6
<1>9. \A k \in Nat : k \in 0 .. N => loop[k] \in Quiet(m)
  <2> DEFINE U == {k \in Nat : k \in 0 .. N => loop[k] \in Quiet(m)}
  <2>1. 0 \in U
    BY <1>7, QuietLater
  <2>2. ASSUME NEW k \in Nat, k \in U PROVE k + 1 \in U
    <3> SUFFICES ASSUME k + 1 \in 0 .. N PROVE loop[k + 1] \in Quiet(m)
      OBVIOUS
    <3>0. k \in 0 .. N /\ k + 1 \in 1 .. N /\ (k + 1) - 1 = k
      BY <1>0
    <3>1. loop[k] \in Quiet(m) /\ loop[k] \in MemoryState
      BY <2>2, <3>0, QuietLater
    <3>2. Round(loop[k], k + 1) \in Quiet(loop[k])
      BY <1>1, <3>0, <3>1 DEF S
    <3>3. loop[k + 1] = Round(loop[k], k + 1)
      BY <1>8, <3>0
    <3> QED
      BY <3>1, <3>2, <3>3, QuietLater
  <2> HIDE DEF U
  <2>3. \A k \in Nat : k \in U
    BY <2>1, <2>2, Induction
  <2> QED
    BY <2>3 DEF U
<1> QED
  BY <1>0, <1>7, <1>8, <1>9, <1>10 DEF Round, N

-----------------------------------------------------------------------------
(* What the operators of TaskMemory keep.                                  *)

LEMMA LaterSteps ==
  ASSUME NEW m \in MemoryState, NEW n \in Later(m)
  PROVE  /\ n \in MemoryState /\ (m.short => n.short)
         /\ \A k \in Later(n) : k \in Later(m)
         /\ \A k \in Quiet(n) : k \in Later(m) /\ k \in MemoryState
BY QuietLater DEF Later, Quiet

LEMMA Lengths ==
  /\ TaskLength \in Nat \ {0} /\ StackLength \in Nat \ {0} /\ STACK_SIZE \in Nat \ {0}
  /\ CodeLength \in Nat \ {0} /\ CODE_ADDRESS \in Nat /\ "KERNEL" \in Flags /\ "USER" \in Flags
  /\ CODE_ADDRESS + CodeLength \in Nat \ {0} /\ CODE_ADDRESS + CodeLength \in Address
<1>1. /\ TaskLength \in Nat \ {0} /\ StackLength \in Nat \ {0} /\ STACK_SIZE \in Nat \ {0}
      /\ CodeLength \in Nat \ {0} /\ CODE_ADDRESS \in Nat /\ CODE_ADDRESS + CodeLength < PageSize
  BY TaskMemoryAssumption
<1>2. PageSize <= MemorySize
  <2>1. 1 * PageSize <= PageNumber * PageSize
    BY DEF FramesAssumption
  <2> QED
    BY <2>1 DEF MemorySize, FramesAssumption
<1> QED
  BY <1>1, <1>2 DEF Flags, Address, MemorySize, FramesAssumption

LEMMA NewTaskTyped ==
  ASSUME NEW m \in MemoryState, NEW a, a.m \in Later(m), a.ptr \in Address, NEW dir \in Address
  PROVE  /\ NewTaskAt(a, dir).m \in Later(m) /\ NewTaskAt(a, dir).at = a.ptr
         /\ NewTaskAt(a, dir).dir \in Address
<1> DEFINE d == IF dir = 0 THEN vmm_create_page_directory(a.m) ELSE Result(a.m, dir)
           m1 == Access(d.m, a.ptr)
           m2 == vmm_modify_page_directory(m1, d.ptr)
           m3 == Access(m2, a.ptr)
<1>0. a.m \in MemoryState
  BY LaterSteps
<1>1. d.m \in Later(a.m) /\ d.ptr \in Address
  BY <1>0, CreateTyped, QuietLater DEF Result
<1> HIDE DEF d
<1>2. d.m \in Later(m) /\ d.m \in MemoryState
  BY <1>0, <1>1, LaterSteps
<1>3. m1 \in Later(m) /\ m1 \in MemoryState
  BY <1>2, AccessTyped, LaterSteps
<1> HIDE DEF m1
<1>4. m2 \in Later(m) /\ m2 \in MemoryState
  BY <1>1, <1>3, ModifyTyped, LaterSteps
<1> HIDE DEF m2
<1>5. m3 \in Later(m)
  BY <1>4, AccessTyped, LaterSteps
<1> QED
  BY <1>1, <1>5 DEF NewTaskAt, NewTask, m3, m2, m1, d

LEMMA FinishTyped ==
  ASSUME NEW m \in MemoryState, NEW new, new.at \in Address, new.dir \in Address,
         NEW ks, ks.ptr \in Address, NEW us, us.m \in Later(m), us.ptr \in Address,
         NEW kind \in {"kernel", "elf", "vm86"}, NEW ksl \in {STACK_SIZE, StackLength},
         NEW usl \in {0, StackLength}, NEW elf \in Elfs \union {NoElf, Garbage}
  PROVE  LET c == Finish(new, ks, us, kind, ksl, usl, elf)
         IN  c.m \in Later(m) /\ c.task \in Task
<1> DEFINE c == Finish(new, ks, us, kind, ksl, usl, elf)
           m1 == Access(us.m, LastByte(ks.ptr, ksl))
<1>1. m1 \in Later(m) /\ m1 \in MemoryState
  BY AccessTyped, LaterSteps
<1> HIDE DEF m1
<1>2. vmm_modified_page_directory(m1) \in Later(m)
  BY <1>1, ModifiedTyped, LaterSteps
<1>3. c.m \in Later(m)
  BY <1>2 DEF Finish, m1
<1>4. c.task \in Task
  BY DEF Finish, Task
<1> QED
  BY <1>3, <1>4

LEMMA DetailedTyped ==
  ASSUME NEW m \in MemoryState, NEW kind \in {"kernel", "elf", "vm86"}, NEW dir \in Address,
         NEW ksl \in {STACK_SIZE, StackLength}, NEW usl \in {0, StackLength},
         NEW elf \in Elfs \union {NoElf, Garbage}
  PROVE  LET c == task_create_detailed(m, kind, dir, ksl, usl, elf)
         IN  c.m \in Later(m) /\ c.task \in Task
<1> DEFINE a == vmm_alloc(m, TaskLength, "KERNEL")
           new == NewTaskAt(a, dir)
           ks == vmm_alloc(new.m, ksl, "KERNEL")
           us == vmm_alloc(ks.m, usl, "USER")
<1>1. ksl \in Nat /\ usl \in Nat /\ TaskLength \in Nat
  BY Lengths
<1>2. a.m \in Later(m) /\ a.ptr \in Address
  BY <1>1, Lengths, AllocateTyped, QuietLater DEF ResultTyped
<1> HIDE DEF a
<1>3. new.m \in Later(m) /\ new.at \in Address /\ new.dir \in Address
  BY <1>2, NewTaskTyped
<1> HIDE DEF new
<1>4. ks.m \in Later(m) /\ ks.m \in MemoryState /\ ks.ptr \in Address
  <2>1. new.m \in MemoryState
    BY <1>3, LaterSteps
  <2>2. ks.m \in Quiet(new.m) /\ ks.ptr \in Address
    BY <1>1, <2>1, Lengths, AllocateTyped DEF ResultTyped
  <2> QED
    BY <1>3, <2>2, LaterSteps
<1> HIDE DEF ks
<1>5. us.m \in Later(m) /\ us.ptr \in Address
  <2>1. us.m \in Quiet(ks.m) /\ us.ptr \in Address
    BY <1>1, <1>4, Lengths, AllocateTyped DEF ResultTyped
  <2> QED
    BY <1>4, <2>1, LaterSteps
<1> HIDE DEF us
<1>6. LET c == Finish(new, ks, us, kind, ksl, usl, elf) IN c.m \in Later(m) /\ c.task \in Task
  BY <1>3, <1>4, <1>5, FinishTyped
<1> QED
  BY <1>6 DEF task_create_detailed, a, new, ks, us

LEMMA ElfLoadTyped ==
  ASSUME NEW m \in MemoryState, NEW elf \in Elfs, NEW dir \in Address
  PROVE  elf_load(m, elf, dir) \in Later(m)
<1> DEFINE m1 == vmm_modify_page_directory(m, dir)
           N == Len(Segments[elf])
           m2 == LoadSegments(m1, elf, N)
<1>1. m1 \in Later(m) /\ m1 \in MemoryState
  BY ModifyTyped, LaterSteps
<1> HIDE DEF m1
<1>2. N \in 0 .. N
  BY SegmentTyped
<1>3. m2 \in Later(m1)
  BY <1>1, <1>2, LoadSegmentsRuns
<1> HIDE DEF m2
<1>4. m2 \in Later(m) /\ m2 \in MemoryState
  BY <1>1, <1>3, LaterSteps
<1>5. vmm_modified_page_directory(m2) \in Later(m)
  BY <1>4, ModifiedTyped, LaterSteps
<1> QED
  BY <1>5, QuietLater DEF elf_load, m1, m2

LEMMA ElfUnloadTyped ==
  ASSUME NEW m \in MemoryState, NEW elf \in Elfs \union {NoElf, Garbage}, NEW dir \in Address,
         elf # NoElf
  PROVE  elf_unload(m, elf, dir) \in Later(m)
<1>1. CASE elf = Garbage
  BY <1>1, Updates DEF elf_unload
<1>2. CASE elf # Garbage
  <2>0. elf \in Elfs
    BY <1>2
  <2> DEFINE m1 == vmm_modify_page_directory(m, dir)
             N == Len(Segments[elf])
             m2 == FreeSegments(m1, elf, N)
  <2>1. m1 \in Later(m) /\ m1 \in MemoryState
    BY ModifyTyped, LaterSteps
  <2> HIDE DEF m1
  <2>2. N \in 0 .. N
    BY <2>0, SegmentTyped
  <2>3. m2 \in Quiet(m1)
    BY <2>0, <2>1, <2>2, FreeSegmentsRuns
  <2> HIDE DEF m2
  <2>4. m2 \in Later(m) /\ m2 \in MemoryState
    BY <2>1, <2>3, LaterSteps
  <2>5. vmm_modified_page_directory(m2) \in Later(m)
    BY <2>4, ModifiedTyped, LaterSteps
  <2> QED
    BY <1>2, <2>5, QuietLater DEF elf_unload, m1, m2
<1> QED
  BY <1>1, <1>2

LEMMA ElfCreateTyped ==
  ASSUME NEW m \in MemoryState, NEW elf \in Elfs
  PROVE  LET c == elf_create_task(m, elf)
         IN  c.m \in Later(m) /\ c.task \in Task
<1> DEFINE dir == vmm_create_page_directory(m)
           l == elf_load(dir.m, elf, dir.ptr)
           c == task_create_detailed(l, "elf", dir.ptr, StackLength, StackLength, elf)
<1>1. dir.m \in Later(m) /\ dir.m \in MemoryState /\ dir.ptr \in Address
  BY CreateTyped, LaterSteps
<1> HIDE DEF dir
<1>2. l \in Later(m) /\ l \in MemoryState
  BY <1>1, ElfLoadTyped, LaterSteps
<1> HIDE DEF l
<1>3. c.m \in Later(l) /\ c.task \in Task
  <2>1. elf \in Elfs \union {NoElf, Garbage}
    OBVIOUS
  <2> QED
    BY <1>1, <1>2, <2>1, DetailedTyped
<1>4. c.m \in Later(m)
  <2> HIDE DEF c
  <2> QED
    BY <1>2, <1>3, LaterSteps
<1> QED
  BY <1>3, <1>4 DEF elf_create_task, c, l, dir

LEMMA Vm86CreateTyped ==
  ASSUME NEW m \in MemoryState, NEW elf \in Elfs \union {NoElf, Garbage}
  PROVE  LET c == vm86_create_task(m, elf)
         IN  c.m \in Later(m) /\ c.task \in Task
<1> DEFINE a == vmm_alloc(m, TaskLength, "KERNEL")
           new == NewTaskAt(a, 0)
           low == LowMapping(new.m)
           acc == AccessAll(low, CODE_ADDRESS, CodeLength)
           ks == vmm_alloc(acc, StackLength, "KERNEL")
           us == Result(ks.m, CODE_ADDRESS + CodeLength)
           c == Finish(new, ks, us, "vm86", StackLength, StackLength, elf)
<1>1. vm86_create_task(m, elf) = c
  BY DEF vm86_create_task, LowMapping
<1>2. a.m \in Later(m) /\ a.ptr \in Address
  BY Lengths, AllocateTyped, QuietLater DEF ResultTyped
<1> HIDE DEF a
<1>3. new.m \in Later(m) /\ new.at \in Address /\ new.dir \in Address
  BY <1>2, NewTaskTyped, Pointers
<1> HIDE DEF new
<1>4. low \in Later(m) /\ low \in MemoryState
  BY <1>3, LowTyped, LaterSteps
<1> HIDE DEF low
<1>5. acc \in Later(m) /\ acc \in MemoryState
  BY <1>4, AccessAllTyped, LaterSteps
<1> HIDE DEF acc
<1>6. ks.m \in Later(m) /\ ks.m \in MemoryState /\ ks.ptr \in Address
  <2>2. ks.m \in Quiet(acc) /\ ks.ptr \in Address
    BY <1>5, Lengths, AllocateTyped DEF ResultTyped
  <2> QED
    BY <1>5, <2>2, LaterSteps
<1> HIDE DEF ks
<1>7. us.m \in Later(m) /\ us.ptr \in Address
  BY <1>6, Lengths DEF Result
<1> HIDE DEF us
<1>8. c.m \in Later(m) /\ c.task \in Task
  BY <1>3, <1>6, <1>7, FinishTyped
<1> QED
  BY <1>1, <1>8

LEMMA DestroyTaskTyped ==
  ASSUME NEW m \in MemoryState, NEW t \in Task
  PROVE  task_destroy(m, t) \in Later(m)
<1> DEFINE m1 == Access(m, t.at)
           m2 == vmm_modify_page_directory(m1, t.page_directory)
           at == Access(m2, t.at)
           ks == vmm_free(at, t.kernel_stack, t.kernel_stack_len)
           us == vmm_free(ks, t.user_stack, t.user_stack_len)
           m3 == vmm_modified_page_directory(us)
           dir == vmm_destroy_page_directory(m3, t.page_directory)
<1>1. /\ t.at \in Nat /\ t.page_directory \in Address /\ t.kernel_stack \in Nat /\ t.user_stack \in Nat
      /\ t.kernel_stack_len \in Nat /\ t.user_stack_len \in Nat /\ TaskLength \in Nat
  BY Lengths, Pointers DEF Task
<1>2. m1 \in Later(m) /\ m1 \in MemoryState
  BY AccessTyped, LaterSteps
<1> HIDE DEF m1
<1>3. m2 \in Later(m) /\ m2 \in MemoryState
  BY <1>1, <1>2, ModifyTyped, LaterSteps
<1> HIDE DEF m2
<1>4. at \in Later(m) /\ at \in MemoryState
  BY <1>3, AccessTyped, LaterSteps
<1> HIDE DEF at
<1>5. ks \in Later(m) /\ ks \in MemoryState
  BY <1>1, <1>4, ReleaseTyped, LaterSteps
<1> HIDE DEF ks
<1>6. us \in Later(m) /\ us \in MemoryState
  BY <1>1, <1>5, ReleaseTyped, LaterSteps
<1> HIDE DEF us
<1>7. m3 \in Later(m) /\ m3 \in MemoryState
  BY <1>6, ModifiedTyped, LaterSteps
<1> HIDE DEF m3
<1>8. dir \in Later(m) /\ dir \in MemoryState
  BY <1>1, <1>7, DestroyTyped, LaterSteps
<1> HIDE DEF dir
<1>9. vmm_free(dir, t.at, TaskLength) \in Later(m)
  BY <1>1, <1>8, ReleaseTyped, LaterSteps
<1> QED
  BY <1>9 DEF task_destroy, m1, m2, at, ks, us, m3, dir

LEMMA SwitchTaskTyped ==
  ASSUME NEW m \in MemoryState, NEW t \in Task
  PROVE  schedule_switch_task(m, t) \in Later(m)
<1> DEFINE m1 == Access(m, t.at)
           n == vmm_load_page_directory(m1, t.page_directory).m
           stack == AccessAll(n, t.kernel_stack, t.kernel_stack_len)
           user == IF t.user_stack_len = 0 THEN stack
                   ELSE AccessAll(stack, t.user_stack, t.user_stack_len)
<1>1. t.page_directory \in Address
  BY DEF Task
<1>2. m1 \in Later(m) /\ m1 \in MemoryState
  BY AccessTyped, LaterSteps
<1> HIDE DEF m1
<1>3. n \in Later(m) /\ n \in MemoryState
  BY <1>1, <1>2, LoadTyped, LaterSteps
<1> HIDE DEF n
<1>4. stack \in Later(m) /\ stack \in MemoryState
  BY <1>3, AccessAllTyped, LaterSteps
<1> HIDE DEF stack
<1>5. user \in Later(m) /\ user \in MemoryState
  BY <1>4, AccessAllTyped, LaterSteps
<1> HIDE DEF user
<1>6. Access(user, 0) \in Later(m) /\ [user EXCEPT !.fault = TRUE] \in Later(m)
  BY <1>5, AccessTyped, Updates, LaterSteps
<1> QED
  BY <1>5, <1>6 DEF schedule_switch_task, m1, n, stack, user

(* The steps.                                                              *)
LEMMA CommitTyped ==
  ASSUME TypeOK, NEW m \in Later(vm), Commit(m)
  PROVE  vm' \in Later(vm)
<1>1. vm \in MemoryState /\ m \in MemoryState /\ m.short \in BOOLEAN
  BY StateFields DEF TypeOK, Later
<1>2. [vm EXCEPT !.fault = TRUE, !.short = m.short] \in MemoryState
      /\ [vm EXCEPT !.fault = TRUE, !.short = m.short].short = m.short
  BY <1>1 DEF MemoryState
<1> QED
  BY <1>1, <1>2 DEF Commit, Later

\* The main task does not end.
Alive == MainPid \in DOMAIN tasks => tasks[MainPid].running

LEMMA NewPid ==
  ASSUME TypeOK, DOMAIN tasks # Pids
  PROVE  FreePid \in Pids /\ FreePid \notin DOMAIN tasks
<1>1. Pids \subseteq Nat /\ DOMAIN tasks \subseteq Pids
  BY TaskMemoryAssumption DEF TypeOK, Pids
<1>2. Pids \ DOMAIN tasks # {} /\ Pids \ DOMAIN tasks \subseteq Nat
  BY <1>1
<1>3. \E p \in Pids \ DOMAIN tasks : \A q \in Pids \ DOMAIN tasks : p <= q
  BY <1>2, LeastMember
<1> QED
  BY <1>3 DEF FreePid

LEMMA AddTyped ==
  ASSUME TypeOK, Alive, NEW c, c.m \in Later(vm), c.task \in Task, c.task.running, task_add(c)
  PROVE  TypeOK' /\ Alive' /\ vm' \in Later(vm)
<1>1. vm' \in Later(vm) /\ FreePid \in Pids
  BY CommitTyped, NewPid DEF task_add
<1>2. tasks' = tasks \/
      tasks' = [p \in DOMAIN tasks \union {FreePid} |-> IF p = FreePid THEN c.task ELSE tasks[p]]
  BY DEF task_add
<1>3. /\ DOMAIN tasks' \subseteq Pids /\ DOMAIN tasks \subseteq DOMAIN tasks'
      /\ \A p \in DOMAIN tasks' : tasks'[p] \in Task
      /\ Alive'
  BY <1>1, <1>2 DEF TypeOK, Alive
<1>4. vm' \in MemoryState
  BY <1>1 DEF Later
<1> QED
  BY <1>1, <1>3, <1>4 DEF TypeOK, task_add

LEMMA StartsRunning ==
  /\ \A m, kind, dir, ksl, usl, elf : task_create_detailed(m, kind, dir, ksl, usl, elf).task.running
  /\ \A m, elf : elf_create_task(m, elf).task.running /\ vm86_create_task(m, elf).task.running
<1>1. \A new, ks, us, kind, ksl, usl, elf : Finish(new, ks, us, kind, ksl, usl, elf).task.running
  BY DEF Finish
<1>2. \A m, kind, dir, ksl, usl, elf : task_create_detailed(m, kind, dir, ksl, usl, elf).task.running
  BY <1>1 DEF task_create_detailed
<1> QED
  BY <1>1, <1>2 DEF elf_create_task, vm86_create_task

LEMMA NextTyped ==
  ASSUME TypeOK, Alive, Next
  PROVE  TypeOK' /\ Alive' /\ vm' \in Later(vm)
<1>0. vm \in MemoryState /\ \A pid \in DOMAIN tasks : tasks[pid] \in Task
  BY DEF TypeOK
<1>1. CASE CreateKernelTask
  <2> DEFINE l == IF DOMAIN tasks = {} THEN STACK_SIZE ELSE StackLength
             c == task_create_detailed(vm, "kernel", 0, l, 0, NoElf)
  <2>1. task_add(c) /\ l \in {STACK_SIZE, StackLength}
    BY <1>1 DEF CreateKernelTask
  <2>2. c.m \in Later(vm) /\ c.task \in Task
    <3> HIDE DEF l
    <3>1. NoElf \in Elfs \union {NoElf, Garbage}
      OBVIOUS
    <3> QED
      BY <1>0, <2>1, <3>1, DetailedTyped, Pointers
  <2>3. c.task.running
    BY StartsRunning
  <2> HIDE DEF c
  <2> QED
    BY <2>1, <2>2, <2>3, AddTyped
<1>2. CASE \E elf \in Elfs : CreateElfTask(elf)
  <2>1. PICK elf \in Elfs : CreateElfTask(elf)
    BY <1>2
  <2> DEFINE c == elf_create_task(vm, elf)
  <2>2. task_add(c)
    BY <2>1 DEF CreateElfTask
  <2>3. c.m \in Later(vm) /\ c.task \in Task /\ c.task.running
    BY <1>0, ElfCreateTyped, StartsRunning
  <2> HIDE DEF c
  <2> QED
    BY <2>2, <2>3, AddTyped
<1>3. CASE \E elf \in Leftover : CreateVm86Task(elf)
  <2>1. PICK elf \in Leftover : CreateVm86Task(elf)
    BY <1>3
  <2>2. elf \in Elfs \union {NoElf, Garbage}
    BY TaskMemoryAssumption
  <2> DEFINE c == vm86_create_task(vm, elf)
  <2>3. task_add(c)
    BY <2>1 DEF CreateVm86Task
  <2>4. c.m \in Later(vm) /\ c.task \in Task /\ c.task.running
    BY <1>0, <2>2, Vm86CreateTyped, StartsRunning
  <2> HIDE DEF c
  <2> QED
    BY <2>3, <2>4, AddTyped
<1>4. ASSUME NEW pid \in DOMAIN tasks, Switch(pid) PROVE TypeOK' /\ Alive' /\ vm' \in Later(vm)
  <2>1. schedule_switch_task(vm, tasks[pid]) \in Later(vm)
    BY <1>0, SwitchTaskTyped
  <2>2. vm' \in Later(vm)
    BY <1>4, <2>1, CommitTyped DEF Switch
  <2>3. tasks' = tasks /\ boot_directory' = boot_directory /\ current_task' \in {current_task, pid}
    BY <1>4 DEF Switch
  <2> QED
    BY <2>2, <2>3 DEF TypeOK, Alive, Later
<1>5. ASSUME NEW pid \in DOMAIN tasks, Exit(pid) PROVE TypeOK' /\ Alive' /\ vm' \in Later(vm)
  <2>1. schedule_switch_task(vm, tasks[pid]) \in Later(vm)
    BY <1>0, SwitchTaskTyped
  <2>2. vm' \in Later(vm)
    BY <1>5, <2>1, CommitTyped DEF Exit
  <2>3. current_task \in DOMAIN tasks
    BY <1>5 DEF Exit, TypeOK
  <2>4. tasks[current_task] \in Task
        /\ \A b \in BOOLEAN : [tasks[current_task] EXCEPT !.running = b] \in Task
    BY <2>3 DEF TypeOK, Task
  <2>5. tasks' = tasks \/ tasks' = [tasks EXCEPT ![current_task].running = FALSE]
    BY <1>5 DEF Exit
  <2>6. DOMAIN tasks' = DOMAIN tasks /\ \A p \in DOMAIN tasks : tasks'[p] \in Task
    BY <2>3, <2>4, <2>5 DEF TypeOK
  <2>7. current_task # MainPid
    BY <1>5 DEF Exit
  <2>8. Alive'
    BY <2>5, <2>6, <2>7 DEF Alive
  <2>9. boot_directory' = boot_directory /\ current_task' \in {current_task, pid}
    BY <1>5 DEF Exit
  <2> QED
    BY <2>2, <2>6, <2>8, <2>9 DEF TypeOK, Later
<1>6. ASSUME NEW pid \in DOMAIN tasks, Destroy(pid) PROVE TypeOK' /\ Alive' /\ vm' \in Later(vm)
  <2> DEFINE t == tasks[pid]
             n == IF t.elf = NoElf THEN vm ELSE elf_unload(vm, t.elf, t.page_directory)
  <2>1. t \in Task
    BY <1>0
  <2>2. t.elf \in Elfs \union {NoElf, Garbage} /\ t.page_directory \in Address
    BY <2>1 DEF Task
  <2>3. n \in Later(vm) /\ n \in MemoryState
    BY <1>0, <2>2, ElfUnloadTyped, QuietLater
  <2> HIDE DEF n
  <2>4. task_destroy(n, t) \in Later(vm)
    BY <1>0, <2>1, <2>3, DestroyTaskTyped, LaterSteps
  <2>5. Commit(task_destroy(n, t))
    BY <1>6 DEF Destroy, n
  <2>6. vm' \in Later(vm)
    BY <2>4, <2>5, CommitTyped
  <2>7. pid # MainPid /\ pid # current_task
    BY <1>6 DEF Destroy, Alive
  <2>8. /\ tasks' = tasks \/ tasks' = [p \in DOMAIN tasks \ {pid} |-> tasks[p]]
        /\ boot_directory' = boot_directory /\ current_task' = current_task
    BY <1>6 DEF Destroy
  <2> QED
    BY <2>6, <2>7, <2>8 DEF TypeOK, Alive, Later
<1> QED
  BY <1>1, <1>2, <1>3, <1>4, <1>5, <1>6 DEF Next

(* What tasks have allocated, as blocks, and how their structures look.    *)
PageOf(a) == pmm_get_page(a, 0)
Aligned(a) == a = pmm_get_address(PageOf(a))

SegmentBlock(pid, d, elf, i) ==
  Block(<<pid, 3 + i>>, d, PageOf(Segments[elf][i].vaddr), PagesFor(Segments[elf][i].memsz))
SegmentBlocks(pid, d, elf, n) == {SegmentBlock(pid, d, elf, i) : i \in 1 .. n}
StructureBlock(pid, t) == Block(<<pid, 1>>, Kernel, PageOf(t.at), PagesFor(TaskLength))
KernelStackBlock(pid, t) ==
  Block(<<pid, 2>>, Kernel, PageOf(t.kernel_stack), PagesFor(t.kernel_stack_len))
UserStackBlock(pid, t) == Block(<<pid, 3>>, DirOf(t), PageOf(t.user_stack), PagesFor(StackLength))
UserBlocks(pid, t) ==
  IF t.kind # "elf" THEN {}
  ELSE {UserStackBlock(pid, t)} \union SegmentBlocks(pid, DirOf(t), t.elf, Len(Segments[t.elf]))
TaskBlocks(pid, t) == {StructureBlock(pid, t), KernelStackBlock(pid, t)} \union UserBlocks(pid, t)
TaskLows(t) == IF t.kind = "vm86" THEN Lows(DirOf(t), PagesFor(LowerMemory)) ELSE {}

Shape(t) ==
  /\ t \in Task /\ Aligned(t.at) /\ Aligned(t.kernel_stack) /\ Aligned(t.page_directory)
  /\ t.kind = "kernel" => t.user_stack_len = 0 /\ t.elf = NoElf
  /\ t.kind = "elf" => t.user_stack_len = StackLength /\ Aligned(t.user_stack) /\ t.elf \in Elfs
  /\ t.kind = "vm86" => /\ t.user_stack = CODE_ADDRESS + CodeLength
                        /\ t.user_stack_len = StackLength /\ t.elf \in Leftover

DirsOf(ts) == {DirOf(ts[p]) : p \in DOMAIN ts}
BlocksOf(ts) == UNION {TaskBlocks(p, ts[p]) : p \in DOMAIN ts}
LowsOf(ts) == UNION {TaskLows(ts[p]) : p \in DOMAIN ts}

\* The frames of the kernel's image and of the video memory.
OwnFrames ==
  PageSet(ENTRIES * PageSize, KernelEnd - ENTRIES * PageSize) \union PageSet(Video, VideoLength)

OwnAt(V) ==
  /\ \A f : f \in OwnFrames <=> \E p \in DOMAIN V.own : V.own[p] = f
  /\ \A p, q \in DOMAIN V.own : V.own[p] = V.own[q] => p = q

\* The memory m is as the tasks ts need it; V tells the kernel's own pages and their frames.
Settles(m, ts, boot, V) ==
  /\ m.old_directory = 0
  /\ \A p \in DOMAIN ts : Shape(ts[p])
  /\ \A p, q \in DOMAIN ts : DirOf(ts[p]) = DirOf(ts[q]) => p = q
  /\ OwnAt(V) /\ Memory(m, DirsOf(ts), LowsOf(ts), BlocksOf(ts), V, boot)

\* Task t, with number pid, has been given its memory: m is what has become of it.
TaskPlaced(m, t, pid, pd, D, L, R, V, boot) ==
  /\ m.page_directory = pd /\ m.old_directory = 0 /\ Shape(t) /\ DirOf(t) \notin D
  /\ Memory(m, D \union {DirOf(t)}, L \union TaskLows(t), R \union TaskBlocks(pid, t), V, boot)

LEMMA SettlesWith ==
  ASSUME NEW m, NEW ts, NEW boot, NEW V, Settles(m, ts, boot, V)
  PROVE  /\ m.old_directory = 0
         /\ \A p \in DOMAIN ts : Shape(ts[p])
         /\ \A p, q \in DOMAIN ts : DirOf(ts[p]) = DirOf(ts[q]) => p = q
         /\ OwnAt(V) /\ Memory(m, DirsOf(ts), LowsOf(ts), BlocksOf(ts), V, boot)
BY DEF Settles

(* A task is added.                                                        *)
With(us, ts, pid, t) ==
  /\ pid \notin DOMAIN ts /\ DOMAIN us = DOMAIN ts \union {pid} /\ us[pid] = t
  /\ \A p \in DOMAIN ts : us[p] = ts[p]

LEMMA SettlesAdd ==
  ASSUME NEW m, NEW ts, NEW boot, NEW n, NEW V, Settles(m, ts, boot, V), NEW pid, NEW t, NEW pd,
         TaskPlaced(n, t, pid, pd, DirsOf(ts), LowsOf(ts), BlocksOf(ts), V, boot),
         NEW us, With(us, ts, pid, t)
  PROVE  Settles(n, us, boot, V)
<1> USE DEF With
<1>1. /\ DirsOf(us) = DirsOf(ts) \union {DirOf(t)}
      /\ BlocksOf(us) = BlocksOf(ts) \union TaskBlocks(pid, t)
      /\ LowsOf(us) = LowsOf(ts) \union TaskLows(t)
  <2>1. DirsOf(us) = DirsOf(ts) \union {DirOf(t)}
    BY DEF DirsOf
  <2>2. BlocksOf(us) = BlocksOf(ts) \union TaskBlocks(pid, t)
    <3> HIDE DEF TaskBlocks
    <3> QED
      BY DEF BlocksOf
  <2>3. LowsOf(us) = LowsOf(ts) \union TaskLows(t)
    <3> HIDE DEF TaskLows
    <3> QED
      BY DEF LowsOf
  <2> QED
    BY <2>1, <2>2, <2>3
<1>2. \A p \in DOMAIN us : Shape(us[p])
  BY DEF Settles, TaskPlaced
<1>3. \A p, q \in DOMAIN us : DirOf(us[p]) = DirOf(us[q]) => p = q
  <2>1. DirOf(t) \notin DirsOf(ts)
    BY DEF TaskPlaced
  <2>2. \A p \in DOMAIN ts : DirOf(us[p]) \in DirsOf(ts)
    BY DEF DirsOf
  <2>3. \A p, q \in DOMAIN ts : DirOf(us[p]) = DirOf(us[q]) => p = q
    BY DEF Settles
  <2> QED
    BY <2>1, <2>2, <2>3
<1> QED
  BY <1>1, <1>2, <1>3 DEF Settles, TaskPlaced

(* A task is removed.                                                      *)
LEMMA BlockKeys ==
  ASSUME NEW p, NEW t, NEW b \in TaskBlocks(p, t)
  PROVE  b.key[1] = p
BY DEF TaskBlocks, UserBlocks, SegmentBlocks, SegmentBlock, StructureBlock, KernelStackBlock,
       UserStackBlock, Block

LEMMA BlocksApart ==
  ASSUME NEW p, NEW q, p # q, NEW t, NEW u, NEW b \in TaskBlocks(p, t)
  PROVE  b \notin TaskBlocks(q, u)
<1>1. b.key[1] = p
  BY BlockKeys
<1>2. \A c \in TaskBlocks(q, u) : c.key[1] = q
  BY BlockKeys
<1> HIDE DEF TaskBlocks
<1> QED
  BY <1>1, <1>2

LEMMA SettlesRemove ==
  ASSUME NEW m, NEW ts, NEW boot, NEW n, NEW V, Settles(m, ts, boot, V), NEW pid \in DOMAIN ts,
         n.old_directory = 0,
         Memory(n, DirsOf(ts) \ {DirOf(ts[pid])}, LowsOf(ts) \ TaskLows(ts[pid]),
                BlocksOf(ts) \ TaskBlocks(pid, ts[pid]), V, boot)
  PROVE  Settles(n, [p \in DOMAIN ts \ {pid} |-> ts[p]], boot, V)
<1> DEFINE us == [p \in DOMAIN ts \ {pid} |-> ts[p]]
           t == ts[pid]
<1>0. DOMAIN us = DOMAIN ts \ {pid} /\ \A p \in DOMAIN us : us[p] = ts[p]
  OBVIOUS
<1> HIDE DEF us
<1>1. DirsOf(us) = DirsOf(ts) \ {DirOf(t)}
  BY <1>0 DEF DirsOf, Settles
<1>2. BlocksOf(us) = BlocksOf(ts) \ TaskBlocks(pid, t)
  <2>1. \A p \in DOMAIN us : \A b \in TaskBlocks(p, ts[p]) : b \notin TaskBlocks(pid, t)
    BY <1>0, BlocksApart
  <2> HIDE DEF TaskBlocks
  <2> QED
    BY <1>0, <2>1 DEF BlocksOf
<1>3. LowsOf(us) = LowsOf(ts) \ TaskLows(t)
  <2>1. \A p \in DOMAIN ts : \A x \in TaskLows(ts[p]) : x[1] = DirOf(ts[p])
    BY DEF TaskLows, Lows
  <2>2. \A p \in DOMAIN us : \A x \in TaskLows(ts[p]) : x \notin TaskLows(t)
    BY <1>0, <2>1 DEF Settles
  <2> HIDE DEF TaskLows
  <2> QED
    BY <1>0, <2>2 DEF LowsOf
<1> QED
  BY <1>0, <1>1, <1>2, <1>3 DEF Settles, us

(* The blocks of a task, and what they hold.                               *)
LEMMA MemoryBlocks ==
  ASSUME NEW m, NEW D, NEW L, NEW R, NEW V, NEW boot, Memory(m, D, L, R, V, boot), NEW b \in R
  PROVE  /\ b.home \in D \union {Kernel} /\ b.page \in Page /\ b.count \in Nat \ {0}
         /\ b.page + b.count <= PageNumber /\ PagesIn(b) \subseteq HomeDomain(b.home)
BY DEF Memory, Layout, BlocksTyped

LEMMA TaskOwns ==
  ASSUME NEW ts, NEW pid \in DOMAIN ts
  PROVE  /\ TaskBlocks(pid, ts[pid]) \subseteq BlocksOf(ts)
         /\ TaskLows(ts[pid]) \subseteq LowsOf(ts) /\ DirOf(ts[pid]) \in DirsOf(ts)
<1>1. TaskBlocks(pid, ts[pid]) \subseteq BlocksOf(ts)
  BY DEF BlocksOf
<1>2. TaskLows(ts[pid]) \subseteq LowsOf(ts)
  BY DEF LowsOf
<1>3. DirOf(ts[pid]) \in DirsOf(ts)
  BY DEF DirsOf
<1> QED
  BY <1>1, <1>2, <1>3

LEMMA ShapeParts ==
  ASSUME NEW t, Shape(t)
  PROVE  /\ t.at = pmm_get_address(PageOf(t.at)) /\ PageOf(t.at) \in Page
         /\ t.kernel_stack = pmm_get_address(PageOf(t.kernel_stack)) /\ PageOf(t.kernel_stack) \in Page
         /\ t.page_directory = pmm_get_address(DirOf(t)) /\ DirOf(t) \in Page
         /\ t.kernel_stack_len \in Nat \ {0} /\ t.user_stack_len \in Nat
         /\ t.kind \in {"kernel", "elf", "vm86"}
         /\ t.user_stack \in Nat /\ PageOf(t.user_stack) \in Page
<1>1. t.at \in Nat /\ t.kernel_stack \in Nat /\ t.user_stack \in Nat /\ t.page_directory \in Nat
  BY Pointers DEF Shape, Task
<1>2. /\ PageOf(t.at) \in Page /\ PageOf(t.kernel_stack) \in Page /\ PageOf(t.user_stack) \in Page
      /\ PageOf(t.page_directory) \in Page
  BY <1>1, PlaceOfAddress DEF PageOf
<1>3. t.kernel_stack_len \in Nat \ {0} /\ t.user_stack_len \in Nat /\ t.kind \in {"kernel", "elf", "vm86"}
  BY Lengths DEF Shape, Task
<1>4. DirOf(t) = PageOf(t.page_directory)
  BY DEF DirOf, PageOf
<1> QED
  BY <1>1, <1>2, <1>3, <1>4 DEF Shape, Aligned

LEMMA AddressAligned ==
  ASSUME NEW p \in Page
  PROVE  PageOf(pmm_get_address(p)) = p /\ Aligned(pmm_get_address(p))
BY AddressOfPage DEF PageOf, Aligned

(* The creation of a task, step by step.                                   *)
LEMMA MemoryNewTask ==
  ASSUME NEW D, NEW L, NEW R, NEW V, NEW boot, NEW a, NEW d, Memory(d.m, D, L, R, V, boot),
         d.m.old_directory = 0, NEW f \in D, NEW b \in R, b.home = Kernel,
         b.count = PagesFor(TaskLength), a.ptr = pmm_get_address(b.page), d.ptr = pmm_get_address(f)
  PROVE  LET new == NewTask(a, d)
         IN  /\ new.at = a.ptr /\ new.dir = d.ptr
             /\ \/ new.m.short
                \/ /\ Memory(new.m, D, L, R, V, boot) /\ new.m.page_directory = f
                   /\ new.m.old_directory = d.m.page_directory
<1> DEFINE n == d.m
           m2 == vmm_modify_page_directory(n, pmm_get_address(f))
<1>1. n \in MemoryState /\ pmm_get_address(f) \in Address
  BY MemoryTyped, AddressOfPage
<1>2. b.page \in Page /\ b.page + PagesFor(TaskLength) <= PageNumber
  BY MemoryBlocks
<1>3. a.ptr \in Nat /\ pmm_get_page(a.ptr, 0) \in PagesIn(b)
  BY <1>2, BlockBytes, Lengths
<1>4. Access(n, a.ptr) = n
  BY <1>3, MemoryAccess
<1>5. m2 \in MemoryState
  BY <1>1, ModifyTyped, QuietLater
<1>6. m2.short \/ (/\ Memory(m2, D, L, R, V, boot) /\ m2.page_directory = f
                   /\ m2.old_directory = n.page_directory)
  BY MemoryModify
<1>7. NewTask(a, d) = [m |-> Access(m2, a.ptr), at |-> a.ptr, dir |-> d.ptr]
  BY <1>4 DEF NewTask
<1> HIDE DEF m2
<1>8. CASE m2.short
  <2>1. Access(m2, a.ptr).short
    BY <1>5, <1>8, AccessTyped, LaterSteps
  <2> QED
    BY <1>7, <2>1
<1>9. CASE ~ m2.short
  <2>1. Access(m2, a.ptr) = m2
    BY <1>3, <1>6, <1>9, MemoryAccess
  <2> QED
    BY <1>6, <1>7, <1>9, <2>1
<1> QED
  BY <1>8, <1>9

LEMMA MemoryFinish ==
  ASSUME NEW D, NEW L, NEW R, NEW V, NEW boot, NEW us, Memory(us.m, D, L, R, V, boot),
         us.m.old_directory \in D \union {boot}, NEW b \in R, b.home = Kernel, NEW ks,
         ks.ptr = pmm_get_address(b.page), NEW ksl \in Nat \ {0}, b.count = PagesFor(ksl),
         NEW new, NEW kind, NEW usl, NEW elf
  PROVE  LET c == Finish(new, ks, us, kind, ksl, usl, elf)
         IN  \/ c.m.short
             \/ /\ Memory(c.m, D, L, R, V, boot) /\ c.m.page_directory = us.m.old_directory
                /\ c.m.old_directory = 0
<1>1. b.page \in Page /\ b.page + PagesFor(ksl) <= PageNumber
  BY MemoryBlocks
<1>2. LastByte(ks.ptr, ksl) \in Nat /\ pmm_get_page(LastByte(ks.ptr, ksl), 0) \in PagesIn(b)
  BY <1>1, BlockBytes
<1>3. Access(us.m, LastByte(ks.ptr, ksl)) = us.m
  BY <1>2, MemoryAccess
<1> DEFINE r == vmm_modified_page_directory(us.m)
<1>4. r.short \/ (/\ Memory(r, D, L, R, V, boot) /\ r.page_directory = us.m.old_directory
                  /\ r.old_directory = 0)
  BY MemoryModified
<1>5. Finish(new, ks, us, kind, ksl, usl, elf).m = r
  BY <1>3 DEF Finish
<1> HIDE DEF r
<1> QED
  BY <1>4, <1>5

LEMMA FinishTask ==
  ASSUME NEW new, NEW ks, NEW us, NEW kind, NEW ksl, NEW usl, NEW elf
  PROVE  LET t == Finish(new, ks, us, kind, ksl, usl, elf).task
         IN  /\ t.kind = kind /\ t.running /\ t.at = new.at /\ t.page_directory = new.dir
             /\ t.kernel_stack = ks.ptr /\ t.user_stack = us.ptr
             /\ t.kernel_stack_len = ksl /\ t.user_stack_len = usl /\ t.elf = elf
BY DEF Finish

\* The structure of a task has been allocated, and its directory is loaded.
Started(new, m, b, f, D, L, R, V, boot) ==
  /\ b \in R /\ b.home = Kernel /\ b.page \in Page /\ b.count = PagesFor(TaskLength)
  /\ new.at = pmm_get_address(b.page) /\ f \in D /\ new.dir = pmm_get_address(f)
  /\ Memory(new.m, D, L, R, V, boot) /\ new.m.page_directory = f
  /\ new.m.old_directory = m.page_directory

LEMMA MemoryStarted ==
  ASSUME NEW m, NEW D, NEW L, NEW R, NEW V, NEW boot, Memory(m, D, L, R, V, boot),
         m.old_directory = 0, NEW key
  PROVE  LET new == NewTaskAt(vmm_alloc(m, TaskLength, "KERNEL"), 0)
         IN  \/ new.m.short
             \/ \E p \in Page, f \in Page :
                  LET b == Block(key, Kernel, p, PagesFor(TaskLength))
                  IN  /\ Started(new, m, b, f, D \union {f}, L, R \union {b}, V, boot)
                      /\ f \notin D
<1> DEFINE a == vmm_alloc(m, TaskLength, "KERNEL")
           d == vmm_create_page_directory(a.m)
           new == NewTask(a, d)
           Len1 == PagesFor(TaskLength)
<1>0. m \in MemoryState
  BY MemoryTyped
<1>1. a.m \in MemoryState /\ a.ptr \in Address
  BY <1>0, Lengths, AllocateTyped, QuietLater DEF ResultTyped
<1>2. \/ a.m.short
      \/ \E p \in Page :
           /\ a.ptr = pmm_get_address(p) /\ a.m \in Quiet(m)
           /\ Memory(a.m, D, L, R \union {Block(key, Kernel, p, Len1)}, V, boot)
  BY Lengths, MemoryAlloc
<1>3. NewTaskAt(a, 0) = new
  BY DEF NewTaskAt
<1> HIDE DEF a
<1>4. NewTaskAt(a, 0).m \in Later(a.m)
  BY <1>1, NewTaskTyped, Pointers, QuietLater
<1>5. d.m \in Later(a.m) /\ d.ptr \in Address
  BY <1>1, CreateTyped
<1>6. CASE a.m.short
  <2>1. new.m.short
    BY <1>1, <1>3, <1>4, <1>6, LaterSteps
  <2> QED
    BY <1>3, <2>1 DEF a
<1>7. CASE ~ a.m.short
  <2>1. PICK p \in Page :
           /\ a.ptr = pmm_get_address(p) /\ a.m \in Quiet(m)
           /\ Memory(a.m, D, L, R \union {Block(key, Kernel, p, Len1)}, V, boot)
    BY <1>2, <1>7
  <2> DEFINE b == Block(key, Kernel, p, Len1)
             S == R \union {b}
  <2>2. \/ d.m.short
        \/ \E f \in Page : /\ d.ptr = pmm_get_address(f) /\ f \notin D
                           /\ d.m \in Quiet(a.m) /\ Memory(d.m, D \union {f}, L, S, V, boot)
    BY <2>1, MemoryCreate
  <2>3. CASE d.m.short
    <3>1. NewTask(a, d).m \in Later(d.m)
      <4>1. d.m \in MemoryState
        BY <1>1, <1>5, LaterSteps
      <4> DEFINE m2 == Access(d.m, a.ptr)
                 m3 == vmm_modify_page_directory(m2, d.ptr)
      <4>2. m2 \in Later(d.m) /\ m2 \in MemoryState
        BY <4>1, AccessTyped, LaterSteps
      <4> HIDE DEF m2
      <4>3. m3 \in Later(d.m) /\ m3 \in MemoryState
        BY <1>5, <4>1, <4>2, ModifyTyped, LaterSteps
      <4> HIDE DEF m3
      <4>4. Access(m3, a.ptr) \in Later(d.m)
        BY <4>1, <4>3, AccessTyped, LaterSteps
      <4> QED
        BY <4>4 DEF NewTask, m2, m3
    <3>2. new.m.short
      BY <2>3, <3>1 DEF Later
    <3> QED
      BY <1>3, <3>2 DEF a
  <2>4. CASE ~ d.m.short
    <3>1. PICK f \in Page : /\ d.ptr = pmm_get_address(f) /\ f \notin D
                            /\ d.m \in Quiet(a.m) /\ Memory(d.m, D \union {f}, L, S, V, boot)
      BY <2>2, <2>4
    <3>2. d.m.old_directory = 0 /\ d.m.page_directory = m.page_directory
      BY <2>1, <3>1 DEF Quiet
    <3>3. b \in S /\ b.home = Kernel /\ b.page = p /\ b.count = Len1 /\ f \in D \union {f}
      BY DEF Block
    <3> HIDE DEF b, S, d
    <3>4. /\ new.at = a.ptr /\ new.dir = d.ptr
          /\ \/ new.m.short
             \/ /\ Memory(new.m, D \union {f}, L, S, V, boot) /\ new.m.page_directory = f
                /\ new.m.old_directory = d.m.page_directory
      BY <2>1, <3>1, <3>2, <3>3, MemoryNewTask
    <3> HIDE DEF new
    <3>5. new.m.short \/ Started(new, m, b, f, D \union {f}, L, S, V, boot)
      BY <2>1, <3>1, <3>2, <3>3, <3>4 DEF Started
    <3> QED
      BY <1>3, <3>1, <3>5 DEF b, S, a
  <2> QED
    BY <2>3, <2>4
<1> QED
  BY <1>6, <1>7

LEMMA FinishLater ==
  ASSUME NEW us, us.m \in MemoryState, NEW new, NEW ks, NEW kind, NEW ksl, NEW usl, NEW elf
  PROVE  Finish(new, ks, us, kind, ksl, usl, elf).m \in Later(us.m)
<1> DEFINE m1 == Access(us.m, LastByte(ks.ptr, ksl))
<1>1. m1 \in Later(us.m) /\ m1 \in MemoryState
  BY AccessTyped, LaterSteps
<1> HIDE DEF m1
<1>2. vmm_modified_page_directory(m1) \in Later(us.m)
  BY <1>1, ModifiedTyped, LaterSteps
<1> QED
  BY <1>2 DEF Finish, m1

StackGiven(ks, m, f, D, L, R, V, boot, key, l) ==
  \E p \in Page :
    /\ ks.ptr = pmm_get_address(p) /\ ks.m.page_directory = f
    /\ ks.m.old_directory = m.page_directory /\ ks.m \in MemoryState
    /\ Memory(ks.m, D, L, R \union {Block(key, Kernel, p, PagesFor(l))}, V, boot)

LEMMA MemoryKernelStack ==
  ASSUME NEW new, NEW m, NEW b, NEW f, NEW D, NEW L, NEW R, NEW V, NEW boot,
         Started(new, m, b, f, D, L, R, V, boot), NEW l \in Nat \ {0}, NEW key
  PROVE  LET ks == vmm_alloc(new.m, l, "KERNEL")
         IN  ks.m.short \/ StackGiven(ks, m, f, D, L, R, V, boot, key, l)
<1> DEFINE ks == vmm_alloc(new.m, l, "KERNEL")
<1>1. Memory(new.m, D, L, R, V, boot)
  BY DEF Started
<1>2. \/ ks.m.short
      \/ \E p \in Page :
           /\ ks.ptr = pmm_get_address(p) /\ ks.m \in Quiet(new.m)
           /\ Memory(ks.m, D, L, R \union {Block(key, Kernel, p, PagesFor(l))}, V, boot)
  BY <1>1, MemoryAlloc
<1> HIDE DEF ks
<1>3. ks.m \in Quiet(new.m) => /\ ks.m.page_directory = f /\ ks.m.old_directory = m.page_directory
                               /\ ks.m \in MemoryState
  BY DEF Started, Quiet, Later
<1> QED
  BY <1>2, <1>3 DEF ks, StackGiven

LEMMA TaskOf ==
  ASSUME NEW t \in Task, NEW pid, NEW p \in Page, NEW q \in Page, NEW f \in Page,
         t.at = pmm_get_address(p), t.kernel_stack = pmm_get_address(q),
         t.page_directory = pmm_get_address(f)
  PROVE  /\ Aligned(t.at) /\ Aligned(t.kernel_stack) /\ Aligned(t.page_directory) /\ DirOf(t) = f
         /\ StructureBlock(pid, t) = Block(<<pid, 1>>, Kernel, p, PagesFor(TaskLength))
         /\ KernelStackBlock(pid, t) = Block(<<pid, 2>>, Kernel, q, PagesFor(t.kernel_stack_len))
<1>1. PageOf(t.at) = p /\ PageOf(t.kernel_stack) = q /\ PageOf(t.page_directory) = f
  BY AddressAligned
<1>2. Aligned(t.at) /\ Aligned(t.kernel_stack) /\ Aligned(t.page_directory)
  BY AddressAligned
<1>3. DirOf(t) = PageOf(t.page_directory)
  BY DEF DirOf, PageOf
<1> QED
  BY <1>1, <1>2, <1>3 DEF StructureBlock, KernelStackBlock

(* A task of the kernel is created.                                        *)
LEMMA MemoryKernelTask ==
  ASSUME NEW m, NEW D, NEW L, NEW R, NEW V, NEW boot, Memory(m, D, L, R, V, boot),
         m.old_directory = 0, NEW l \in {STACK_SIZE, StackLength}, NEW pid
  PROVE  LET c == task_create_detailed(m, "kernel", 0, l, 0, NoElf)
         IN  c.m.short \/ TaskPlaced(c.m, c.task, pid, m.page_directory, D, L, R, V, boot)
<1> DEFINE a == vmm_alloc(m, TaskLength, "KERNEL")
           new == NewTaskAt(a, 0)
           ks == vmm_alloc(new.m, l, "KERNEL")
           us == vmm_alloc(ks.m, 0, "USER")
           c == Finish(new, ks, us, "kernel", l, 0, NoElf)
<1>0. task_create_detailed(m, "kernel", 0, l, 0, NoElf) = c
  BY DEF task_create_detailed
<1>1. m \in MemoryState /\ l \in Nat \ {0} /\ m.page_directory \in D \union {boot}
  BY MemoryTyped, Lengths
<1>2. c.task \in Task
  <2>1. NoElf \in Elfs \union {NoElf, Garbage} /\ 0 \in Address
    BY Pointers
  <2> QED
    BY <1>0, <1>1, <2>1, DetailedTyped
<1>3. a.m \in MemoryState /\ a.ptr \in Address
  BY <1>1, Lengths, AllocateTyped, QuietLater DEF ResultTyped
<1>4. new.m \in MemoryState
  BY <1>3, NewTaskTyped, Pointers, QuietLater
<1>5. \/ new.m.short
      \/ \E p \in Page, f \in Page :
           LET b == Block(<<pid, 1>>, Kernel, p, PagesFor(TaskLength))
           IN  Started(new, m, b, f, D \union {f}, L, R \union {b}, V, boot) /\ f \notin D
  BY MemoryStarted
<1> HIDE DEF a, new
<1>6. ks.m \in Quiet(new.m) /\ ks.ptr \in Address
  BY <1>1, <1>4, Lengths, AllocateTyped DEF ResultTyped
<1>7. us = Result(ks.m, 0) /\ us.m = ks.m
  BY DEF vmm_alloc, Result
<1>8. ks.m \in MemoryState
  BY <1>4, <1>6, QuietLater
<1> HIDE DEF ks, us
<1>9. c.m \in Later(us.m)
  BY <1>7, <1>8, FinishLater
<1>10. CASE ks.m.short
  BY <1>0, <1>7, <1>9, <1>10 DEF Later
<1>11. CASE ~ ks.m.short
  <2>1. ~ new.m.short
    BY <1>4, <1>6, <1>11 DEF Quiet, Later
  <2>2. PICK p \in Page, f \in Page :
           LET b == Block(<<pid, 1>>, Kernel, p, PagesFor(TaskLength))
           IN  Started(new, m, b, f, D \union {f}, L, R \union {b}, V, boot) /\ f \notin D
    BY <1>5, <2>1
  <2> DEFINE b1 == Block(<<pid, 1>>, Kernel, p, PagesFor(TaskLength))
             E == D \union {f}
             R1 == R \union {b1}
  <2>3. Started(new, m, b1, f, E, L, R1, V, boot) /\ b1.page = p
    BY <2>2 DEF Block
  <2> HIDE DEF R1
  <2>4. PICK q \in Page :
            /\ ks.ptr = pmm_get_address(q) /\ ks.m.page_directory = f
            /\ ks.m.old_directory = m.page_directory /\ ks.m \in MemoryState
            /\ Memory(ks.m, E, L, R1 \union {Block(<<pid, 2>>, Kernel, q, PagesFor(l))}, V, boot)
    <3>1. StackGiven(ks, m, f, E, L, R1, V, boot, <<pid, 2>>, l)
      BY <1>1, <1>11, <2>3, MemoryKernelStack DEF ks
    <3> QED
      BY <3>1 DEF StackGiven
  <2> DEFINE b2 == Block(<<pid, 2>>, Kernel, q, PagesFor(l))
             R2 == R1 \union {b2}
  <2>5. b2 \in R2 /\ b2.home = Kernel /\ b2.page = q /\ b2.count = PagesFor(l)
    BY DEF Block
  <2>6. /\ Memory(us.m, E, L, R2, V, boot) /\ us.m.old_directory \in E \union {boot}
        /\ ks.ptr = pmm_get_address(b2.page) /\ l \in Nat \ {0}
    BY <1>1, <1>7, <2>4, <2>5
  <2> HIDE DEF R2, b1, b2, E
  <2>7. \/ c.m.short
        \/ /\ Memory(c.m, E, L, R2, V, boot) /\ c.m.old_directory = 0
           /\ c.m.page_directory = us.m.old_directory
    BY <2>5, <2>6, MemoryFinish
  <2>8. LET t == c.task
        IN  /\ t.kind = "kernel" /\ t.at = pmm_get_address(p) /\ t.page_directory = pmm_get_address(f)
            /\ t.kernel_stack = pmm_get_address(q) /\ t.kernel_stack_len = l
            /\ t.user_stack_len = 0 /\ t.elf = NoElf
    BY <2>3, <2>4, FinishTask DEF Started
  <2> HIDE DEF c
  <2>9. /\ Aligned(c.task.at) /\ Aligned(c.task.kernel_stack) /\ Aligned(c.task.page_directory)
        /\ DirOf(c.task) = f /\ StructureBlock(pid, c.task) = b1 /\ KernelStackBlock(pid, c.task) = b2
    BY <1>2, <2>8, TaskOf DEF b1, b2
  <2>10. Shape(c.task)
    BY <1>2, <2>8, <2>9 DEF Shape
  <2>11. /\ D \union {DirOf(c.task)} = E /\ L \union TaskLows(c.task) = L
         /\ R \union TaskBlocks(pid, c.task) = R2
    BY <2>8, <2>9 DEF E, TaskLows, TaskBlocks, UserBlocks, R2, R1
  <2> QED
    BY <1>0, <1>7, <2>2, <2>4, <2>7, <2>9, <2>10, <2>11 DEF TaskPlaced, c
<1> QED
  BY <1>10, <1>11

LEMMA MemoryLows ==
  ASSUME NEW m, NEW D, NEW L, NEW R, NEW V, NEW boot, Memory(m, D, L, R, V, boot)
  PROVE  \A x \in L : x[1] \in D
BY DEF Memory, Layout, LowMapped

LEMMA CodePlace ==
  /\ CODE_ADDRESS \in Nat /\ CodeLength \in Nat \ {0} /\ CODE_ADDRESS < PageSize
  /\ CODE_ADDRESS + CodeLength <= Video
  /\ CODE_ADDRESS + CodeLength \in Nat /\ CODE_ADDRESS + CodeLength < PageSize
  /\ StackLength \in Nat \ {0} /\ CODE_ADDRESS + CodeLength + StackLength <= Video
BY TaskMemoryAssumption DEF FramesAssumption

(* A VM86 task is created.                                                 *)
LEMMA MemoryVm86Task ==
  ASSUME NEW m, NEW D, NEW L, NEW R, NEW V, NEW boot, Memory(m, D, L, R, V, boot),
         m.old_directory = 0, NEW elf \in Leftover, NEW pid
  PROVE  LET c == vm86_create_task(m, elf)
         IN  c.m.short \/ TaskPlaced(c.m, c.task, pid, m.page_directory, D, L, R, V, boot)
<1> DEFINE a == vmm_alloc(m, TaskLength, "KERNEL")
           new == NewTaskAt(a, 0)
           low == LowMapping(new.m)
           acc == AccessAll(low, CODE_ADDRESS, CodeLength)
           ks == vmm_alloc(acc, StackLength, "KERNEL")
           us == Result(ks.m, CODE_ADDRESS + CodeLength)
           c == Finish(new, ks, us, "vm86", StackLength, StackLength, elf)
           LowLen == PagesFor(LowerMemory)
<1>0. vm86_create_task(m, elf) = c
  BY DEF vm86_create_task, LowMapping
<1>1. m \in MemoryState /\ StackLength \in Nat \ {0} /\ m.page_directory \in D \union {boot}
  BY MemoryTyped, Lengths
<1>2. c.task \in Task
  <2>1. elf \in Elfs \union {NoElf, Garbage}
    BY TaskMemoryAssumption
  <2> QED
    BY <1>0, <1>1, <2>1, Vm86CreateTyped
<1>3. a.m \in MemoryState /\ a.ptr \in Address
  BY <1>1, Lengths, AllocateTyped, QuietLater DEF ResultTyped
<1>4. new.m \in MemoryState
  BY <1>3, NewTaskTyped, Pointers, QuietLater
<1>5. \/ new.m.short
      \/ \E p \in Page, f \in Page :
           LET b == Block(<<pid, 1>>, Kernel, p, PagesFor(TaskLength))
           IN  Started(new, m, b, f, D \union {f}, L, R \union {b}, V, boot) /\ f \notin D
  BY MemoryStarted
<1> HIDE DEF a, new
<1>6. low \in Later(new.m) /\ low \in MemoryState
  BY <1>4, LowTyped, QuietLater
<1>7. acc \in Later(low) /\ acc \in MemoryState
  BY <1>6, AccessAllTyped, QuietLater
<1>8. ks.m \in Quiet(acc) /\ ks.m \in MemoryState
  BY <1>7, <1>1, Lengths, AllocateTyped, QuietLater DEF ResultTyped
<1>9. us.m = ks.m
  BY DEF Result
<1>10. /\ new.m.short => low.short
       /\ low.short => acc.short
       /\ acc.short => ks.m.short
  BY <1>6, <1>7, <1>8 DEF Quiet, Later
<1>11. \A p \in Page, f \in Page :
         /\ low \in Quiet(new.m) /\ acc = low /\ new.m.page_directory = f
         /\ new.m.old_directory = m.page_directory
         => /\ ks.m.page_directory = f /\ ks.m.old_directory = m.page_directory
  BY <1>8 DEF Quiet, Later
<1> HIDE DEF us
<1>12. c.m \in Later(us.m)
  BY <1>8, <1>9, FinishLater
<1>13. CASE ks.m.short
  BY <1>0, <1>9, <1>12, <1>13 DEF Later
<1>14. CASE ~ ks.m.short
  <2>1. ~ new.m.short /\ ~ low.short /\ ~ acc.short
    BY <1>10, <1>14
  <2>2. PICK p \in Page, f \in Page :
           LET b == Block(<<pid, 1>>, Kernel, p, PagesFor(TaskLength))
           IN  Started(new, m, b, f, D \union {f}, L, R \union {b}, V, boot) /\ f \notin D
    BY <1>5, <2>1
  <2> DEFINE b1 == Block(<<pid, 1>>, Kernel, p, PagesFor(TaskLength))
             E == D \union {f}
             R1 == R \union {b1}
             L1 == L \union Lows(f, LowLen)
  <2>3. Started(new, m, b1, f, E, L, R1, V, boot) /\ b1.page = p
    BY <2>2 DEF Block
  <2>4. /\ Memory(new.m, E, L, R1, V, boot) /\ new.m.page_directory = f /\ f \in E
        /\ new.m.old_directory = m.page_directory /\ new.at = pmm_get_address(p)
        /\ new.dir = pmm_get_address(f)
    BY <2>3 DEF Started
  <2>5. \A x \in L : x[1] # f
    BY <2>2, MemoryLows
  <2> HIDE DEF R1, E
  <2>6. low \in Quiet(new.m) /\ Memory(low, E, L1, R1, V, boot)
    BY <2>1, <2>4, <2>5, MemoryLow
  <2> HIDE DEF low
  <2>7. acc = low
    <3>1. low.page_directory = f
      BY <2>4, <2>6 DEF Quiet
    <3>2. Lows(f, LowLen) \subseteq L1
      OBVIOUS
    <3> HIDE DEF L1
    <3> QED
      BY <2>4, <2>6, <3>1, <3>2, CodePlace, MemoryAccessLow
  <2> HIDE DEF L1, acc
  <2>8. ks.m.page_directory = f /\ ks.m.old_directory = m.page_directory
    BY <1>11, <2>4, <2>6, <2>7
  <2>9. PICK q \in Page :
            /\ ks.ptr = pmm_get_address(q)
            /\ Memory(ks.m, E, L1, R1 \union {Block(<<pid, 2>>, Kernel, q, PagesFor(StackLength))}, V, boot)
    BY <1>1, <1>14, <2>6, <2>7, MemoryAlloc
  <2> DEFINE b2 == Block(<<pid, 2>>, Kernel, q, PagesFor(StackLength))
             R2 == R1 \union {b2}
  <2>10. b2 \in R2 /\ b2.home = Kernel /\ b2.page = q /\ b2.count = PagesFor(StackLength)
    BY DEF Block
  <2> HIDE DEF ks
  <2>11. /\ Memory(us.m, E, L1, R2, V, boot) /\ us.m.old_directory \in E \union {boot}
         /\ ks.ptr = pmm_get_address(b2.page)
    BY <1>1, <1>9, <2>8, <2>9, <2>10 DEF E
  <2> HIDE DEF R2, b1, b2
  <2>12. \/ c.m.short
         \/ /\ Memory(c.m, E, L1, R2, V, boot) /\ c.m.old_directory = 0
            /\ c.m.page_directory = us.m.old_directory
    BY <1>1, <2>10, <2>11, MemoryFinish
  <2>13. LET t == c.task
         IN  /\ t.kind = "vm86" /\ t.at = pmm_get_address(p) /\ t.page_directory = pmm_get_address(f)
             /\ t.kernel_stack = pmm_get_address(q) /\ t.kernel_stack_len = StackLength
             /\ t.user_stack_len = StackLength /\ t.elf = elf
             /\ t.user_stack = CODE_ADDRESS + CodeLength
    BY <2>4, <2>9, FinishTask DEF us, Result
  <2> HIDE DEF c
  <2>14. /\ Aligned(c.task.at) /\ Aligned(c.task.kernel_stack) /\ Aligned(c.task.page_directory)
         /\ DirOf(c.task) = f /\ StructureBlock(pid, c.task) = b1 /\ KernelStackBlock(pid, c.task) = b2
    BY <1>2, <2>13, TaskOf DEF b1, b2
  <2>15. Shape(c.task)
    BY <1>2, <2>13, <2>14 DEF Shape
  <2>16. /\ D \union {DirOf(c.task)} = E /\ L \union TaskLows(c.task) = L1
         /\ R \union TaskBlocks(pid, c.task) = R2
    BY <2>13, <2>14 DEF E, TaskLows, TaskBlocks, UserBlocks, R2, R1, L1
  <2> QED
    BY <1>0, <1>9, <2>2, <2>8, <2>12, <2>14, <2>15, <2>16 DEF TaskPlaced, c
<1> QED
  BY <1>13, <1>14

(* The segments of a file that is as it should be.                         *)
LEMMA AlignedAddress ==
  ASSUME NEW a \in Address, a % PageSize = 0
  PROVE  a = pmm_get_address(PageOf(a)) /\ PageOf(a) \in Page
<1>1. a \in Nat /\ a < MemorySize /\ MemorySize \in Nat \ {0} /\ PageSize \in Nat \ {0}
  BY DEF Address, MemorySize, FramesAssumption
<1>2. a % MemorySize = a
  BY <1>1
<1>3. PageOf(a) = a \div PageSize
  BY <1>1, <1>2 DEF PageOf, pmm_get_page
<1>4. a = (a \div PageSize) * PageSize + (a % PageSize) /\ a \div PageSize \in Nat
  BY <1>1, Quotients
<1>5. a = pmm_get_address(PageOf(a))
  BY <1>1, <1>3, <1>4 DEF pmm_get_address, FramesAssumption
<1> QED
  BY <1>1, <1>5, PlaceOfAddress DEF PageOf

LEMMA ProperSegment ==
  ASSUME Proper, NEW elf \in Elfs, NEW i \in 1 .. Len(Segments[elf]), NEW pid, NEW d
  PROVE  LET s == Segments[elf][i]
             p == PageOf(s.vaddr)
             b == SegmentBlock(pid, d, elf, i)
         IN  /\ s.memsz \in Nat \ {0} /\ p \in Page /\ s.vaddr = pmm_get_address(p)
             /\ p + PagesFor(s.memsz) <= PageNumber
             /\ b = Block(<<pid, 3 + i>>, d, p, PagesFor(s.memsz))
             /\ FramesOf(s.vaddr, s.memsz) = PagesIn(b)
             /\ PagesIn(b) = p .. p + PagesFor(s.memsz) - 1
             /\ \A q \in PagesIn(b) : q \in DomainPages("USER")
             /\ elf \in Leftover => s.memsz <= Video
<1> DEFINE s == Segments[elf][i]
           p == PageOf(s.vaddr)
           b == SegmentBlock(pid, d, elf, i)
<1>1. s.vaddr \in Address /\ s.memsz \in Nat
  BY SegmentTyped
<1>2. /\ s.memsz # 0 /\ s.vaddr % PageSize = 0
      /\ pmm_get_page(s.vaddr, 0) + PagesFor(s.memsz) <= PageNumber
      /\ FramesOf(s.vaddr, s.memsz) \subseteq DomainPages("USER")
      /\ elf \in Leftover => s.memsz <= Video
  BY DEF Proper
<1>3. b = Block(<<pid, 3 + i>>, d, p, PagesFor(s.memsz))
  BY DEF SegmentBlock
<1> HIDE DEF s
<1>4. p \in Page /\ s.vaddr = pmm_get_address(p)
  BY <1>1, <1>2, AlignedAddress
<1>5. p + PagesFor(s.memsz) <= PageNumber
  BY <1>2 DEF PageOf
<1>6. b.page = p /\ b.count = PagesFor(s.memsz)
  BY <1>3 DEF Block
<1> HIDE DEF p, b
<1>7. FramesOf(s.vaddr, s.memsz) = PagesIn(b)
  BY <1>1, <1>2, <1>4, <1>5, <1>6, BlockBytes
<1>8. PagesIn(b) = p .. p + PagesFor(s.memsz) - 1
  BY <1>6 DEF PagesIn
<1> QED
  BY <1>1, <1>2, <1>3, <1>4, <1>5, <1>7, <1>8 DEF s, p, b

LEMMA ProperApart ==
  ASSUME Proper, NEW elf \in Elfs, NEW i \in 1 .. Len(Segments[elf]),
         NEW j \in 1 .. Len(Segments[elf]), i # j, NEW pid, NEW d,
         NEW q \in PagesIn(SegmentBlock(pid, d, elf, i))
  PROVE  q \notin PagesIn(SegmentBlock(pid, d, elf, j))
<1>1. /\ FramesOf(Segments[elf][i].vaddr, Segments[elf][i].memsz) = PagesIn(SegmentBlock(pid, d, elf, i))
      /\ FramesOf(Segments[elf][j].vaddr, Segments[elf][j].memsz) = PagesIn(SegmentBlock(pid, d, elf, j))
  BY ProperSegment
<1>2. \A x, y \in 1 .. Len(Segments[elf]) : y < x =>
        FramesOf(Segments[elf][x].vaddr, Segments[elf][x].memsz) \intersect
        FramesOf(Segments[elf][y].vaddr, Segments[elf][y].memsz) = {}
  <2> SUFFICES ASSUME NEW x \in 1 .. Len(Segments[elf]), NEW y \in 1 .. Len(Segments[elf]), y < x
               PROVE  FramesOf(Segments[elf][x].vaddr, Segments[elf][x].memsz) \intersect
                      FramesOf(Segments[elf][y].vaddr, Segments[elf][y].memsz) = {}
    OBVIOUS
  <2>1. y \in 1 .. x - 1
    BY SegmentTyped
  <2> QED
    BY <2>1 DEF Proper
<1>3. i < j \/ j < i
  BY SegmentTyped
<1> QED
  BY <1>1, <1>2, <1>3

(* One segment gets memory.                                                *)
LEMMA MemorySegment ==
  ASSUME Proper, NEW m, NEW D, NEW L, NEW R, NEW V, NEW boot, Memory(m, D, L, R, V, boot),
         NEW f, m.page_directory = f, f \in D, NEW elf \in Elfs,
         NEW i \in 1 .. Len(Segments[elf]), NEW pid,
         \A b \in R : b.home = f => \E j \in 1 .. i - 1 : b = SegmentBlock(pid, f, elf, j)
  PROVE  LET r == SegmentLoaded(m, elf, i)
         IN  \/ r.short
             \/ r \in Quiet(m) /\ Memory(r, D, L, R \union {SegmentBlock(pid, f, elf, i)}, V, boot)
<1> DEFINE s == Segments[elf][i]
           p == PageOf(s.vaddr)
           b == SegmentBlock(pid, f, elf, i)
           u == vmm_use_virtual_memory(m, s.vaddr, s.memsz, "USER").m
<1>1. /\ s.memsz \in Nat \ {0} /\ p \in Page /\ s.vaddr = pmm_get_address(p)
      /\ p + PagesFor(s.memsz) <= PageNumber
      /\ b = Block(<<pid, 3 + i>>, f, p, PagesFor(s.memsz))
      /\ PagesIn(b) = p .. p + PagesFor(s.memsz) - 1
      /\ \A q \in PagesIn(b) : q \in DomainPages("USER")
  BY ProperSegment
<1>2. \A c \in R, q \in PagesIn(b) : c.home = f => q \notin PagesIn(c)
  <2> SUFFICES ASSUME NEW c \in R, NEW q \in PagesIn(b), c.home = f
               PROVE  q \notin PagesIn(c)
    OBVIOUS
  <2>1. PICK j \in 1 .. i - 1 : c = SegmentBlock(pid, f, elf, j)
    OBVIOUS
  <2>2. j \in 1 .. Len(Segments[elf]) /\ i # j
    BY <2>1, SegmentTyped
  <2> QED
    BY <2>1, <2>2, ProperApart
<1>3. m \in MemoryState
  BY MemoryTyped
<1>4. b.home = f /\ b.page = p /\ b.count = PagesFor(s.memsz)
  BY <1>1 DEF Block
<1>5. SegmentLoaded(m, elf, i) = AccessAll(u, s.vaddr, s.memsz)
  BY DEF SegmentLoaded
<1> HIDE DEF s, p, b
<1>6. u.short \/ (u \in Quiet(m) /\ Memory(u, D, L, R \union {b}, V, boot))
  <2>1. \A q \in p .. p + PagesFor(s.memsz) - 1 : q \in DomainPages("USER")
    BY <1>1
  <2>2. \A c \in R, q \in p .. p + PagesFor(s.memsz) - 1 : c.home = m.page_directory => q \notin PagesIn(c)
    BY <1>1, <1>2
  <2>3. m.page_directory \in D /\ b = Block(<<pid, 3 + i>>, m.page_directory, p, PagesFor(s.memsz))
    BY <1>1
  <2>4. u = vmm_use_virtual_memory(m, pmm_get_address(p), s.memsz, "USER").m
    BY <1>1
  <2> HIDE DEF u
  <2> QED
    BY <1>1, <2>1, <2>2, <2>3, <2>4, MemoryUse
<1>7. u \in MemoryState
  <2>1. s.vaddr \in Nat /\ "USER" \in Flags /\ s.memsz \in Nat
    BY <1>1, AddressOfPage, Lengths
  <2> QED
    BY <1>3, <2>1, UseVirtualTyped, QuietLater DEF ResultTyped
<1> HIDE DEF u
<1>8. CASE u.short
  <2>1. AccessAll(u, s.vaddr, s.memsz).short
    BY <1>7, <1>8, AccessAllTyped, LaterSteps
  <2> QED
    BY <1>5, <2>1
<1>9. CASE ~ u.short
  <2>1. u \in Quiet(m) /\ Memory(u, D, L, R \union {b}, V, boot) /\ b \in R \union {b}
    BY <1>6, <1>9
  <2>2. u.page_directory = f
    BY <2>1 DEF Quiet
  <2>3. AccessAll(u, pmm_get_address(b.page), s.memsz) = u
    BY <1>1, <1>4, <2>1, <2>2, MemoryAccessAll
  <2> QED
    BY <1>1, <1>4, <1>5, <2>1, <2>3 DEF b
<1> QED
  BY <1>8, <1>9

(* The segments of a file are loaded.                                      *)
Grown(m, r, D, L, R, V, boot) == r \in Quiet(m) /\ Memory(r, D, L, R, V, boot)

LEMMA MemorySegments ==
  ASSUME Proper, NEW m, NEW D, NEW L, NEW R, NEW V, NEW boot, Memory(m, D, L, R, V, boot),
         NEW f \in D, m.page_directory = f, NEW elf \in Elfs, NEW pid,
         \A b \in R : b.home # f
  PROVE  LET N == Len(Segments[elf])
             r == LoadSegments(m, elf, N)
         IN  r.short \/ Grown(m, r, D, L, R \union SegmentBlocks(pid, f, elf, N), V, boot)
<1> DEFINE N == Len(Segments[elf])
           r(k) == LoadSegments(m, elf, k)
           Good(k) == \/ r(k).short
                      \/ /\ r(k) \in Quiet(m)
                         /\ Memory(r(k), D, L, R \union SegmentBlocks(pid, f, elf, k), V, boot)
           K == {k \in Nat : k <= N => Good(k)}
<1>1. m \in MemoryState /\ N \in Nat
  BY MemoryTyped, SegmentTyped
<1>2. 0 \in K
  <2>1. SegmentBlocks(pid, f, elf, 0) = {}
    BY DEF SegmentBlocks
  <2>2. r(0) = m
    BY <1>1, LoadSegmentsRuns
  <2>3. R \union SegmentBlocks(pid, f, elf, 0) = R
    BY <2>1
  <2> HIDE DEF r
  <2> QED
    BY <1>1, <2>2, <2>3, QuietLater
<1>3. ASSUME NEW k \in Nat, k \in K
      PROVE  k + 1 \in K
  <2> SUFFICES ASSUME k + 1 <= N
               PROVE  Good(k + 1)
    OBVIOUS
  <2>1. k \in 0 .. N /\ k + 1 \in 1 .. N /\ (k + 1) - 1 = k /\ Good(k)
    BY <1>1, <1>3
  <2> DEFINE S == R \union SegmentBlocks(pid, f, elf, k)
             b == SegmentBlock(pid, f, elf, k + 1)
  <2>2. r(k + 1) = SegmentLoaded(r(k), elf, k + 1) /\ r(k) \in MemoryState
    BY <1>1, <2>1, LoadSegmentsRuns, QuietLater
  <2>3. r(k + 1) \in Later(r(k))
    BY <2>1, <2>2, SegmentLoadedTyped
  <2>4. S \union {b} = R \union SegmentBlocks(pid, f, elf, k + 1)
    <3>1. 1 .. k + 1 = (1 .. k) \union {k + 1}
      OBVIOUS
    <3> QED
      BY <3>1 DEF SegmentBlocks
  <2> HIDE DEF r
  <2>5. CASE r(k).short
    BY <2>3, <2>5 DEF Later
  <2>6. CASE ~ r(k).short
    <3>1. r(k) \in Quiet(m) /\ Memory(r(k), D, L, S, V, boot)
      BY <2>1, <2>6
    <3>2. r(k).page_directory = f
      BY <3>1 DEF Quiet
    <3>3. \A c \in S : c.home = f => \E j \in 1 .. (k + 1) - 1 : c = SegmentBlock(pid, f, elf, j)
      BY <2>1 DEF SegmentBlocks
    <3> HIDE DEF S
    <3>4. ASSUME NEW i \in 1 .. Len(Segments[elf]), i = k + 1, NEW x, x = r(k)
          PROVE  \/ SegmentLoaded(x, elf, i).short
                 \/ /\ SegmentLoaded(x, elf, i) \in Quiet(x)
                    /\ Memory(SegmentLoaded(x, elf, i), D, L, S \union {SegmentBlock(pid, f, elf, i)}, V, boot)
      <4>1. Memory(x, D, L, S, V, boot) /\ x.page_directory = f
        BY <3>1, <3>2, <3>4
      <4>2. \A c \in S : c.home = f => \E j \in 1 .. i - 1 : c = SegmentBlock(pid, f, elf, j)
        BY <3>3, <3>4
      <4> QED
        BY <4>1, <4>2, MemorySegment
    <3>6. \/ r(k + 1).short
          \/ r(k + 1) \in Quiet(r(k)) /\ Memory(r(k + 1), D, L, S \union {b}, V, boot)
      BY <2>1, <2>2, <3>4
    <3>5. r(k + 1) \in Quiet(r(k)) => r(k + 1) \in Quiet(m)
      BY <1>1, <3>1, QuietLater
    <3> HIDE DEF b
    <3> QED
      BY <2>4, <3>5, <3>6 DEF S
  <2> QED
    BY <2>5, <2>6
<1> HIDE DEF K
<1>4. \A k \in Nat : k \in K
  BY <1>2, <1>3, Induction
<1> QED
  BY <1>1, <1>4 DEF K, Grown

(* A file is loaded into a directory.                                      *)
Loaded(m, r, D, L, S, V, boot) ==
  /\ Memory(r, D, L, S, V, boot) /\ r.page_directory = m.page_directory
  /\ r.old_directory = 0

LEMMA MemoryElfLoad ==
  ASSUME Proper, NEW m, NEW D, NEW L, NEW R, NEW V, NEW boot, Memory(m, D, L, R, V, boot),
         m.old_directory = 0, NEW f \in D, \A b \in R : b.home # f, NEW elf \in Elfs, NEW pid
  PROVE  LET r == elf_load(m, elf, pmm_get_address(f))
             S == R \union SegmentBlocks(pid, f, elf, Len(Segments[elf]))
         IN  r.short \/ Loaded(m, r, D, L, S, V, boot)
<1> DEFINE N == Len(Segments[elf])
           S == R \union SegmentBlocks(pid, f, elf, N)
           m1 == vmm_modify_page_directory(m, pmm_get_address(f))
           m2 == LoadSegments(m1, elf, N)
           m3 == vmm_modified_page_directory(m2)
<1>0. m \in MemoryState /\ f \in Page /\ m.page_directory \in D \union {boot} /\ N \in 0 .. N
  BY MemoryTyped, SegmentTyped
<1>1. elf_load(m, elf, pmm_get_address(f)) = m3
  BY DEF Proper, elf_load, elf_check
<1>2. m1 \in MemoryState
  BY <1>0, AddressOfPage, ModifyTyped, QuietLater
<1>3. \/ m1.short
      \/ /\ Memory(m1, D, L, R, V, boot) /\ m1.page_directory = f
         /\ m1.old_directory = m.page_directory
  BY MemoryModify
<1> HIDE DEF m1
<1>4. m2 \in Later(m1) /\ m2 \in MemoryState
  BY <1>0, <1>2, LoadSegmentsRuns, QuietLater
<1>5. \/ m1.short \/ m2.short
      \/ /\ Memory(m2, D, L, S, V, boot) /\ m2.old_directory = m.page_directory
  <2> SUFFICES ASSUME ~ m1.short, ~ m2.short
               PROVE  Memory(m2, D, L, S, V, boot) /\ m2.old_directory = m.page_directory
    OBVIOUS
  <2>1. /\ Memory(m1, D, L, R, V, boot) /\ m1.page_directory = f
        /\ m1.old_directory = m.page_directory
    BY <1>3
  <2>2. m2 \in Quiet(m1) /\ Memory(m2, D, L, S, V, boot)
    <3>1. LoadSegments(m1, elf, Len(Segments[elf])).short
          \/ Grown(m1, LoadSegments(m1, elf, Len(Segments[elf])), D, L,
                   R \union SegmentBlocks(pid, f, elf, Len(Segments[elf])), V, boot)
      BY <2>1, MemorySegments
    <3> QED
      BY <3>1 DEF Grown
  <2> QED
    BY <2>1, <2>2 DEF Quiet
<1> HIDE DEF m2, S
<1>6. m3 \in Later(m2)
  BY <1>4, ModifiedTyped
<1>7. CASE m2.short
  BY <1>1, <1>6, <1>7 DEF Later
<1>8. CASE ~ m2.short
  <2>1. ~ m1.short
    BY <1>4, <1>8 DEF Later
  <2>2. Memory(m2, D, L, S, V, boot) /\ m2.old_directory = m.page_directory
    BY <1>5, <1>8, <2>1
  <2>3. \/ m3.short
        \/ /\ Memory(m3, D, L, S, V, boot) /\ m3.page_directory = m2.old_directory
           /\ m3.old_directory = 0
    BY <1>0, <2>2, MemoryModified
  <2> HIDE DEF m3
  <2> QED
    BY <1>1, <2>2, <2>3 DEF S, Loaded
<1> QED
  BY <1>7, <1>8

(* The structure of a task whose directory is given.                       *)
LEMMA MemoryStartedAt ==
  ASSUME NEW m, NEW D, NEW L, NEW R, NEW V, NEW boot, Memory(m, D, L, R, V, boot),
         m.old_directory = 0, NEW key, NEW f \in D
  PROVE  LET new == NewTaskAt(vmm_alloc(m, TaskLength, "KERNEL"), pmm_get_address(f))
         IN  \/ new.m.short
             \/ \E p \in Page :
                  LET b == Block(key, Kernel, p, PagesFor(TaskLength))
                  IN  Started(new, m, b, f, D, L, R \union {b}, V, boot)
<1> DEFINE a == vmm_alloc(m, TaskLength, "KERNEL")
           d == Result(a.m, pmm_get_address(f))
           new == NewTask(a, d)
           Len1 == PagesFor(TaskLength)
<1>0. m \in MemoryState /\ f \in Page /\ f # 0
  BY MemoryTyped
<1>1. a.m \in MemoryState /\ a.ptr \in Address /\ pmm_get_address(f) \in Address
  BY <1>0, Lengths, AllocateTyped, QuietLater, AddressOfPage DEF ResultTyped
<1>2. \/ a.m.short
      \/ \E p \in Page :
           /\ a.ptr = pmm_get_address(p) /\ a.m \in Quiet(m)
           /\ Memory(a.m, D, L, R \union {Block(key, Kernel, p, Len1)}, V, boot)
  BY Lengths, MemoryAlloc
<1>3. NewTaskAt(a, pmm_get_address(f)) = new
  BY <1>0, AddressOfPage DEF NewTaskAt
<1> HIDE DEF a
<1>4. new.m \in Later(a.m)
  BY <1>1, <1>3, NewTaskTyped, QuietLater
<1>5. d.m = a.m /\ d.ptr = pmm_get_address(f)
  BY DEF Result
<1>6. CASE a.m.short
  <2>1. new.m.short
    BY <1>1, <1>4, <1>6, LaterSteps
  <2> QED
    BY <1>3, <2>1 DEF a
<1>7. CASE ~ a.m.short
  <2>1. PICK p \in Page :
           /\ a.ptr = pmm_get_address(p) /\ a.m \in Quiet(m)
           /\ Memory(a.m, D, L, R \union {Block(key, Kernel, p, Len1)}, V, boot)
    BY <1>2, <1>7
  <2> DEFINE b == Block(key, Kernel, p, Len1)
             S == R \union {b}
  <2>2. d.m.old_directory = 0 /\ d.m.page_directory = m.page_directory
    BY <1>5, <2>1 DEF Quiet
  <2>3. b \in S /\ b.home = Kernel /\ b.page = p /\ b.count = Len1
    BY DEF Block
  <2> HIDE DEF b, S, d
  <2>4. /\ new.at = a.ptr /\ new.dir = d.ptr
        /\ \/ new.m.short
           \/ /\ Memory(new.m, D, L, S, V, boot) /\ new.m.page_directory = f
              /\ new.m.old_directory = d.m.page_directory
    <3>1. Memory(d.m, D, L, S, V, boot)
      BY <1>5, <2>1 DEF S, b
    <3> QED
      BY <1>5, <2>1, <2>2, <2>3, <3>1, MemoryNewTask
  <2> HIDE DEF new
  <2>5. new.m.short \/ Started(new, m, b, f, D, L, S, V, boot)
    BY <1>5, <2>1, <2>2, <2>3, <2>4 DEF Started
  <2> QED
    BY <1>3, <2>5 DEF b, S, a
<1> QED
  BY <1>6, <1>7

(* A task is created in a directory that holds its segments.               *)
ElfPlaced(m, t, pid, pd, f, elf, D, L, R, V, boot) ==
  /\ m.page_directory = pd /\ m.old_directory = 0 /\ Shape(t) /\ DirOf(t) = f /\ t.kind = "elf" /\ t.elf = elf
  /\ Memory(m, D, L, R \union {StructureBlock(pid, t), KernelStackBlock(pid, t), UserStackBlock(pid, t)},
            V, boot)

LEMMA MemoryElfDetailed ==
  ASSUME NEW m, NEW D, NEW L, NEW R, NEW V, NEW boot, Memory(m, D, L, R, V, boot),
         m.old_directory = 0, NEW f \in D, NEW elf \in Elfs, NEW pid
  PROVE  LET c == task_create_detailed(m, "elf", pmm_get_address(f), StackLength, StackLength, elf)
         IN  c.m.short \/ ElfPlaced(c.m, c.task, pid, m.page_directory, f, elf, D, L, R, V, boot)
<1> DEFINE a == vmm_alloc(m, TaskLength, "KERNEL")
           new == NewTaskAt(a, pmm_get_address(f))
           ks == vmm_alloc(new.m, StackLength, "KERNEL")
           us == vmm_alloc(ks.m, StackLength, "USER")
           c == Finish(new, ks, us, "elf", StackLength, StackLength, elf)
           l == StackLength
<1>0. task_create_detailed(m, "elf", pmm_get_address(f), StackLength, StackLength, elf) = c
  BY DEF task_create_detailed
<1>1. /\ m \in MemoryState /\ l \in Nat \ {0} /\ m.page_directory \in D \union {boot}
      /\ pmm_get_address(f) \in Address /\ f \in Page
  BY MemoryTyped, Lengths, AddressOfPage
<1>2. c.task \in Task
  <2>1. elf \in Elfs \union {NoElf, Garbage}
    OBVIOUS
  <2> QED
    BY <1>0, <1>1, <2>1, DetailedTyped
<1>3. a.m \in MemoryState /\ a.ptr \in Address
  BY <1>1, Lengths, AllocateTyped, QuietLater DEF ResultTyped
<1>4. new.m \in MemoryState
  BY <1>1, <1>3, NewTaskTyped, QuietLater
<1>5. \/ new.m.short
      \/ \E p \in Page :
           LET b == Block(<<pid, 1>>, Kernel, p, PagesFor(TaskLength))
           IN  Started(new, m, b, f, D, L, R \union {b}, V, boot)
  BY MemoryStartedAt
<1> HIDE DEF a, new
<1>6. ks.m \in Quiet(new.m) /\ ks.m \in MemoryState
  BY <1>1, <1>4, Lengths, AllocateTyped, QuietLater DEF ResultTyped
<1>7. us.m \in Quiet(ks.m) /\ us.m \in MemoryState
  BY <1>1, <1>6, Lengths, AllocateTyped, QuietLater DEF ResultTyped
<1>8. (new.m.short => ks.m.short) /\ (ks.m.short => us.m.short)
  BY <1>6, <1>7 DEF Quiet, Later
<1>9. c.m \in Later(us.m)
  BY <1>7, FinishLater
<1>10. CASE us.m.short
  BY <1>0, <1>9, <1>10 DEF Later
<1>11. CASE ~ us.m.short
  <2>1. ~ new.m.short /\ ~ ks.m.short
    BY <1>8, <1>11
  <2>2. PICK p \in Page :
           LET b == Block(<<pid, 1>>, Kernel, p, PagesFor(TaskLength))
           IN  Started(new, m, b, f, D, L, R \union {b}, V, boot)
    BY <1>5, <2>1
  <2> DEFINE b1 == Block(<<pid, 1>>, Kernel, p, PagesFor(TaskLength))
             R1 == R \union {b1}
  <2>3. Started(new, m, b1, f, D, L, R1, V, boot) /\ b1.page = p
    BY <2>2 DEF Block
  <2> HIDE DEF R1
  <2>4. PICK q \in Page :
            /\ ks.ptr = pmm_get_address(q) /\ ks.m.page_directory = f
            /\ ks.m.old_directory = m.page_directory /\ ks.m \in MemoryState
            /\ Memory(ks.m, D, L, R1 \union {Block(<<pid, 2>>, Kernel, q, PagesFor(l))}, V, boot)
    <3>1. StackGiven(ks, m, f, D, L, R1, V, boot, <<pid, 2>>, l)
      BY <1>1, <2>1, <2>3, MemoryKernelStack DEF ks
    <3> QED
      BY <3>1 DEF StackGiven
  <2> DEFINE b2 == Block(<<pid, 2>>, Kernel, q, PagesFor(l))
             R2 == R1 \union {b2}
  <2> HIDE DEF R2, ks
  <2>5. Memory(ks.m, D, L, R2, V, boot)
    BY <2>4 DEF R2
  <2>6. PICK w \in Page :
          /\ us.ptr = pmm_get_address(w) /\ us.m \in Quiet(ks.m)
          /\ Memory(us.m, D, L, R2 \union {Block(<<pid, 3>>, ks.m.page_directory, w, PagesFor(StackLength))}, V, boot)
    BY <1>1, <1>11, <2>4, <2>5, MemoryAllocUser
  <2> DEFINE b3 == Block(<<pid, 3>>, f, w, PagesFor(StackLength))
             R3 == R2 \union {b3}
  <2>7. b2 \in R3 /\ b2.home = Kernel /\ b2.page = q /\ b2.count = PagesFor(l)
    BY DEF Block, R2
  <2> HIDE DEF us
  <2>8. /\ Memory(us.m, D, L, R3, V, boot) /\ us.m.old_directory \in D \union {boot}
        /\ ks.ptr = pmm_get_address(b2.page) /\ us.m.old_directory = m.page_directory
    BY <1>1, <2>4, <2>6, <2>7 DEF Quiet
  <2> HIDE DEF R3, b1, b2, b3
  <2>9. \/ c.m.short
        \/ /\ Memory(c.m, D, L, R3, V, boot) /\ c.m.old_directory = 0
           /\ c.m.page_directory = us.m.old_directory
    BY <1>1, <2>7, <2>8, MemoryFinish
  <2>10. LET t == c.task
         IN  /\ t.kind = "elf" /\ t.at = pmm_get_address(p) /\ t.page_directory = pmm_get_address(f)
             /\ t.kernel_stack = pmm_get_address(q) /\ t.kernel_stack_len = l
             /\ t.user_stack_len = l /\ t.elf = elf /\ t.user_stack = pmm_get_address(w)
    BY <2>3, <2>4, <2>6, FinishTask DEF Started
  <2> HIDE DEF c
  <2>11. /\ Aligned(c.task.at) /\ Aligned(c.task.kernel_stack) /\ Aligned(c.task.page_directory)
         /\ DirOf(c.task) = f /\ StructureBlock(pid, c.task) = b1 /\ KernelStackBlock(pid, c.task) = b2
    BY <1>1, <1>2, <2>10, TaskOf DEF b1, b2
  <2>12. Aligned(c.task.user_stack) /\ UserStackBlock(pid, c.task) = b3
    BY <2>10, <2>11, AddressAligned DEF UserStackBlock, b3
  <2>13. Shape(c.task)
    BY <1>2, <2>10, <2>11, <2>12 DEF Shape
  <2>14. R3 = R \union {b1, b2, b3}
    BY DEF R3, R2, R1
  <2> QED
    BY <1>0, <2>8, <2>9, <2>10, <2>11, <2>12, <2>13, <2>14 DEF c, ElfPlaced
<1> QED
  BY <1>10, <1>11

(* A task that runs a file is created.                                     *)
LEMMA MemoryElfTask ==
  ASSUME Proper, NEW m, NEW D, NEW L, NEW R, NEW V, NEW boot, Memory(m, D, L, R, V, boot),
         m.old_directory = 0, NEW elf \in Elfs, NEW pid
  PROVE  LET c == elf_create_task(m, elf)
         IN  c.m.short \/ TaskPlaced(c.m, c.task, pid, m.page_directory, D, L, R, V, boot)
<1> DEFINE dir == vmm_create_page_directory(m)
           l == elf_load(dir.m, elf, dir.ptr)
           c == task_create_detailed(l, "elf", dir.ptr, StackLength, StackLength, elf)
           N == Len(Segments[elf])
<1>0. elf_create_task(m, elf) = c
  BY DEF elf_create_task
<1>1. m \in MemoryState
  BY MemoryTyped
<1>2. dir.m \in MemoryState /\ dir.ptr \in Address
  BY <1>1, CreateTyped, QuietLater
<1>3. \/ dir.m.short
      \/ \E f \in Page : /\ dir.ptr = pmm_get_address(f) /\ f # 0 /\ f \notin D
                         /\ dir.m \in Quiet(m)
                         /\ Memory(dir.m, D \union {f}, L, R, V, boot)
  BY MemoryCreate
<1> HIDE DEF dir
<1>4. l \in Later(dir.m) /\ l \in MemoryState
  BY <1>2, ElfLoadTyped, QuietLater
<1>5. c.m \in Later(l)
  <2>1. elf \in Elfs \union {NoElf, Garbage}
    OBVIOUS
  <2> HIDE DEF l
  <2> QED
    BY <1>2, <1>4, <2>1, DetailedTyped
<1>6. (dir.m.short => l.short) /\ (l.short => c.m.short)
  BY <1>4, <1>5 DEF Later
<1>7. CASE l.short
  BY <1>0, <1>6, <1>7
<1>8. CASE ~ l.short
  <2>1. PICK f \in Page : /\ dir.ptr = pmm_get_address(f) /\ f # 0 /\ f \notin D
                          /\ dir.m \in Quiet(m)
                          /\ Memory(dir.m, D \union {f}, L, R, V, boot)
    BY <1>3, <1>6, <1>8
  <2> DEFINE E == D \union {f}
             S == R \union SegmentBlocks(pid, f, elf, N)
  <2>2. \A b \in R : b.home # f
    <3>1. \A b \in R : b.home \in D \union {Kernel}
      BY MemoryBlocks
    <3> QED
      BY <2>1, <3>1, KernelHome
  <2>3. dir.m.old_directory = 0 /\ f \in E /\ Memory(dir.m, E, L, R, V, boot)
    BY <2>1 DEF Quiet
  <2> HIDE DEF E
  <2>4. Loaded(dir.m, l, E, L, S, V, boot)
    BY <1>8, <2>1, <2>2, <2>3, MemoryElfLoad
  <2> HIDE DEF l, S
  <2> DEFINE t == c.task
  <2>5. Memory(l, E, L, S, V, boot) /\ l.old_directory = 0 /\ l.page_directory = m.page_directory
    BY <2>1, <2>4 DEF Loaded, Quiet
  <2>6. c.m.short \/ ElfPlaced(c.m, t, pid, m.page_directory, f, elf, E, L, S, V, boot)
    BY <2>1, <2>3, <2>5, MemoryElfDetailed
  <2> HIDE DEF c
  <2>7. CASE ~ c.m.short
    <3>1. ElfPlaced(c.m, t, pid, m.page_directory, f, elf, E, L, S, V, boot)
      BY <2>6, <2>7
    <3>2. /\ D \union {DirOf(t)} = E /\ L \union TaskLows(t) = L
          /\ R \union TaskBlocks(pid, t)
             = S \union {StructureBlock(pid, t), KernelStackBlock(pid, t), UserStackBlock(pid, t)}
      BY <3>1 DEF ElfPlaced, E, TaskLows, TaskBlocks, UserBlocks, S
    <3> QED
      BY <1>0, <2>1, <3>1, <3>2 DEF TaskPlaced, ElfPlaced, c
  <2> QED
    BY <1>0, <2>7 DEF c
<1> QED
  BY <1>7, <1>8

(* A switch.                                                               *)
SwitchTo(n, t) ==
  LET stack == AccessAll(n, t.kernel_stack, t.kernel_stack_len)
      user  == IF t.user_stack_len = 0 THEN stack
               ELSE AccessAll(stack, t.user_stack, t.user_stack_len)
  IN  IF t.kind # "elf" THEN user
      ELSE IF ~ elf_check(t.elf) THEN Access(user, 0)
      ELSE IF \E s \in Range(Segments[t.elf]) : AccessAll(user, s.vaddr, s.memsz).fault
      THEN [user EXCEPT !.fault = TRUE] ELSE user

LEMMA SwitchToTyped ==
  ASSUME NEW n \in MemoryState, NEW t
  PROVE  SwitchTo(n, t) \in Later(n)
<1> DEFINE stack == AccessAll(n, t.kernel_stack, t.kernel_stack_len)
           user == IF t.user_stack_len = 0 THEN stack
                   ELSE AccessAll(stack, t.user_stack, t.user_stack_len)
<1>1. stack \in Later(n) /\ stack \in MemoryState
  BY AccessAllTyped, QuietLater
<1> HIDE DEF stack
<1>2. user \in Later(n) /\ user \in MemoryState
  BY <1>1, AccessAllTyped, LaterSteps
<1> HIDE DEF user
<1>3. Access(user, 0) \in Later(n) /\ [user EXCEPT !.fault = TRUE] \in Later(n)
  BY <1>2, AccessTyped, Updates, LaterSteps
<1> QED
  BY <1>2, <1>3 DEF SwitchTo, user, stack

LEMMA TaskBlocksKinds ==
  ASSUME NEW t, NEW pid
  PROVE  /\ StructureBlock(pid, t) \in TaskBlocks(pid, t)
         /\ KernelStackBlock(pid, t) \in TaskBlocks(pid, t)
         /\ t.kind = "elf" => /\ UserStackBlock(pid, t) \in TaskBlocks(pid, t)
                              /\ SegmentBlocks(pid, DirOf(t), t.elf, Len(Segments[t.elf]))
                                 \subseteq TaskBlocks(pid, t)
         /\ LET b == StructureBlock(pid, t)
            IN  b.home = Kernel /\ b.page = PageOf(t.at) /\ b.count = PagesFor(TaskLength)
         /\ LET b == KernelStackBlock(pid, t)
            IN  /\ b.home = Kernel /\ b.page = PageOf(t.kernel_stack)
                /\ b.count = PagesFor(t.kernel_stack_len)
         /\ LET b == UserStackBlock(pid, t)
            IN  b.home = DirOf(t) /\ b.page = PageOf(t.user_stack) /\ b.count = PagesFor(StackLength)
BY DEF TaskBlocks, UserBlocks, StructureBlock, KernelStackBlock, UserStackBlock, Block

LEMMA MemorySwitchTo ==
  ASSUME Proper, NEW n, NEW D, NEW L, NEW R, NEW V, NEW boot, Memory(n, D, L, R, V, boot),
         NEW t, Shape(t), NEW pid, TaskBlocks(pid, t) \subseteq R, TaskLows(t) \subseteq L,
         DirOf(t) \in D, n.page_directory = DirOf(t)
  PROVE  SwitchTo(n, t) = n
<1> DEFINE b1 == StructureBlock(pid, t)
           b2 == KernelStackBlock(pid, t)
           b3 == UserStackBlock(pid, t)
           d == DirOf(t)
<1>1. /\ t.at = pmm_get_address(PageOf(t.at)) /\ PageOf(t.at) \in Page
      /\ t.kernel_stack = pmm_get_address(PageOf(t.kernel_stack)) /\ PageOf(t.kernel_stack) \in Page
      /\ t.kernel_stack_len \in Nat \ {0} /\ t.user_stack_len \in Nat
      /\ t.kind \in {"kernel", "elf", "vm86"}
      /\ t.user_stack \in Nat /\ PageOf(t.user_stack) \in Page
  BY ShapeParts
<1>2. /\ b2 \in R /\ b2.home = Kernel /\ b2.page = PageOf(t.kernel_stack)
      /\ b2.count = PagesFor(t.kernel_stack_len)
  BY TaskBlocksKinds
<1>3. AccessAll(n, t.kernel_stack, t.kernel_stack_len) = n
  <2> HIDE DEF b2
  <2>1. AccessAll(n, pmm_get_address(b2.page), t.kernel_stack_len) = n
    BY <1>1, <1>2, MemoryAccessAll
  <2> QED
    BY <1>1, <1>2, <2>1
<1>4. CASE t.kind = "kernel"
  <2>1. t.user_stack_len = 0
    BY <1>4 DEF Shape
  <2> QED
    BY <1>3, <1>4, <2>1 DEF SwitchTo
<1>5. CASE t.kind = "vm86"
  <2>1. t.user_stack_len = StackLength /\ t.user_stack = CODE_ADDRESS + CodeLength /\ StackLength # 0
    BY <1>5, Lengths DEF Shape
  <2>2. Lows(d, PagesFor(LowerMemory)) \subseteq L
    BY <1>5 DEF TaskLows
  <2>3. AccessAll(n, t.user_stack, t.user_stack_len) = n
    BY <2>1, <2>2, CodePlace, MemoryAccessLow
  <2> QED
    BY <1>3, <1>5, <2>1, <2>3 DEF SwitchTo
<1>6. CASE t.kind = "elf"
  <2>1. /\ t.user_stack_len = StackLength /\ StackLength \in Nat \ {0} /\ t.elf \in Elfs
        /\ t.user_stack = pmm_get_address(PageOf(t.user_stack))
    BY <1>6, Lengths DEF Shape, Aligned
  <2>2. b3 \in R /\ b3.home = d /\ b3.page = PageOf(t.user_stack) /\ b3.count = PagesFor(StackLength)
    BY <1>6, TaskBlocksKinds
  <2>3. AccessAll(n, t.user_stack, t.user_stack_len) = n
    <3> HIDE DEF b3
    <3>1. AccessAll(n, pmm_get_address(b3.page), StackLength) = n
      BY <2>1, <2>2, MemoryAccessAll
    <3> QED
      BY <2>1, <2>2, <3>1
  <2>4. elf_check(t.elf)
    BY <2>1 DEF elf_check, Proper
  <2>5. ASSUME NEW s \in Range(Segments[t.elf])
        PROVE  AccessAll(n, s.vaddr, s.memsz) = n
    <3>1. PICK i \in 1 .. Len(Segments[t.elf]) : s = Segments[t.elf][i]
      BY <2>1, <2>5, SegmentTyped
    <3> DEFINE b == SegmentBlock(pid, d, t.elf, i)
    <3>2. /\ s.memsz \in Nat \ {0} /\ s.vaddr = pmm_get_address(PageOf(s.vaddr))
          /\ b = Block(<<pid, 3 + i>>, d, PageOf(s.vaddr), PagesFor(s.memsz))
      BY <2>1, <3>1, ProperSegment
    <3>3. b \in R
      BY <1>6, <3>1, TaskBlocksKinds DEF SegmentBlocks
    <3>4. b.home = d /\ b.page = PageOf(s.vaddr) /\ b.count = PagesFor(s.memsz)
      BY <3>2 DEF Block
    <3> HIDE DEF b
    <3>5. AccessAll(n, pmm_get_address(b.page), s.memsz) = n
      BY <3>2, <3>3, <3>4, MemoryAccessAll
    <3> QED
      BY <3>2, <3>4, <3>5
  <2>6. ~ n.fault
    BY DEF Memory, Running
  <2> QED
    BY <1>3, <1>6, <2>3, <2>4, <2>5, <2>6 DEF SwitchTo
<1> QED
  BY <1>1, <1>4, <1>5, <1>6

LEMMA MemorySwitch ==
  ASSUME Proper, NEW m, NEW ts, NEW boot, NEW V, Settles(m, ts, boot, V), NEW pid \in DOMAIN ts
  PROVE  LET r == schedule_switch_task(m, ts[pid])
         IN  r.short \/ (Settles(r, ts, boot, V) /\ r.page_directory = DirOf(ts[pid]))
<1> DEFINE t == ts[pid]
           b == StructureBlock(pid, t)
           D == DirsOf(ts)
           L == LowsOf(ts)
           R == BlocksOf(ts)
           n == vmm_load_page_directory(m, t.page_directory).m
<1>1. OwnAt(V) /\ Memory(m, D, L, R, V, boot)
  BY DEF Settles
<1>2. Shape(t) /\ m.old_directory = 0
  BY DEF Settles
<1>3. /\ TaskBlocks(pid, t) \subseteq R /\ TaskLows(t) \subseteq L /\ DirOf(t) \in D
  BY TaskOwns
<1>4. /\ t.at = pmm_get_address(PageOf(t.at)) /\ PageOf(t.at) \in Page
      /\ t.page_directory = pmm_get_address(DirOf(t)) /\ DirOf(t) \in Page
  BY <1>2, ShapeParts
<1>5. b \in R /\ b.home = Kernel /\ b.page = PageOf(t.at) /\ b.count = PagesFor(TaskLength)
  BY <1>3, TaskBlocksKinds
<1>6. m \in MemoryState
  BY <1>1, MemoryTyped
<1> HIDE DEF D, L, R, t
<1>7. Access(m, t.at) = m
  <2> HIDE DEF b
  <2>1. b.page + PagesFor(TaskLength) <= PageNumber
    BY <1>1, <1>5, MemoryBlocks
  <2>2. t.at \in Nat /\ pmm_get_page(t.at, 0) \in PagesIn(b)
    BY <1>4, <1>5, <2>1, BlockBytes, Lengths
  <2> QED
    BY <1>1, <1>5, <2>2, MemoryAccess
<1>8. schedule_switch_task(m, t) = SwitchTo(n, t)
  BY <1>7 DEF schedule_switch_task, SwitchTo
<1>9. n \in MemoryState
  BY <1>4, <1>6, AddressOfPage, LoadTyped, QuietLater
<1>10. n.short \/ (/\ Memory(n, D, L, R, V, boot) /\ n.page_directory = DirOf(t)
                   /\ n.old_directory = m.old_directory)
  BY <1>1, <1>3, <1>4, MemoryLoad
<1> HIDE DEF n
<1>11. CASE n.short
  <2>1. SwitchTo(n, t).short
    BY <1>9, <1>11, SwitchToTyped DEF Later
  <2> QED
    BY <1>8, <2>1 DEF t
<1>12. CASE ~ n.short
  <2>1. SwitchTo(n, t) = n
    BY <1>2, <1>3, <1>10, <1>12, MemorySwitchTo
  <2>2. Settles(n, ts, boot, V)
    BY <1>1, <1>2, <1>10, <1>12 DEF Settles, D, L, R
  <2> QED
    BY <1>8, <1>10, <1>12, <2>1, <2>2 DEF t
<1> QED
  BY <1>11, <1>12

(* A file is unloaded.                                                     *)
LEMMA LastKeptLess ==
  ASSUME NEW R, NEW V, NEW h, LastKept(R, V, h), NEW S, S \subseteq R
  PROVE  LastKept(S, V, h)
<1> SUFFICES ASSUME NEW p \in Page, I(p) = LastEntry,
                    p \in OwnIn(V, h) \/ \E b \in S : b.home = h /\ p \in PagesIn(b)
             PROVE  \E v \in OwnIn(V, h) : T(v) = T(p) /\ I(v) # LastEntry
  BY DEF LastKept
<1>1. p \in OwnIn(V, h) \/ \E b \in R : b.home = h /\ p \in PagesIn(b)
  OBVIOUS
<1> QED
  BY <1>1 DEF LastKept

LEMMA SegmentBlockNew ==
  ASSUME NEW pid, NEW f, NEW elf, NEW i \in Nat, NEW k \in Nat, k < i
  PROVE  SegmentBlock(pid, f, elf, i) \notin SegmentBlocks(pid, f, elf, k)
<1>1. SegmentBlock(pid, f, elf, i).key = <<pid, 3 + i>>
  BY DEF SegmentBlock, Block
<1>2. \A c \in SegmentBlocks(pid, f, elf, k) : \E j \in 1 .. k : c.key = <<pid, 3 + j>>
  BY DEF SegmentBlocks, SegmentBlock, Block
<1>3. \A j \in 1 .. k : <<pid, 3 + i>> # <<pid, 3 + j>>
  OBVIOUS
<1> QED
  BY <1>1, <1>2, <1>3

(* One segment is freed.                                                   *)
LEMMA MemorySegmentFreed ==
  ASSUME Proper, NEW m, NEW D, NEW L, NEW R, NEW V, NEW boot, Memory(m, D, L, R, V, boot),
         NEW f, m.page_directory = f, f \in D, NEW elf \in Elfs,
         NEW i \in 1 .. Len(Segments[elf]), NEW pid, LastKept(R, V, f),
         SegmentBlock(pid, f, elf, i) \in R, SegmentBlock(pid, f, elf, i) \notin DOMAIN V.pins
  PROVE  Grown(m, SegmentFreed(m, elf, i), D, L, R \ {SegmentBlock(pid, f, elf, i)}, V, boot)
<1> DEFINE s == Segments[elf][i]
           p == PageOf(s.vaddr)
           b == SegmentBlock(pid, f, elf, i)
<1>1. /\ s.memsz \in Nat \ {0} /\ p \in Page /\ s.vaddr = pmm_get_address(p)
      /\ b = Block(<<pid, 3 + i>>, f, p, PagesFor(s.memsz))
  BY ProperSegment
<1>2. b.home = f /\ b.page = p /\ b.count = PagesFor(s.memsz) /\ b \in R /\ b \notin DOMAIN V.pins
  BY <1>1 DEF Block
<1>3. SegmentFreed(m, elf, i) = vmm_free(m, pmm_get_address(b.page), s.memsz)
  BY <1>1, <1>2 DEF SegmentFreed
<1> HIDE DEF b, s, p
<1>4. LastKept(R, V, b.home) /\ b.home \in {Kernel, m.page_directory} /\ s.memsz \in Nat \ {0}
  BY <1>1, <1>2
<1>5. LET r == vmm_free(m, pmm_get_address(b.page), s.memsz)
      IN  r \in Quiet(m) /\ Memory(r, D, L, R \ {b}, V, boot)
  BY <1>2, <1>4, MemoryFree
<1> QED
  BY <1>3, <1>5 DEF Grown, b

(* A segment of a file that the task does not have is freed.               *)
LEMMA MemorySegmentAbsent ==
  ASSUME Proper, NEW m, NEW D, NEW L, NEW R, NEW V, NEW boot, Memory(m, D, L, R, V, boot),
         NEW f, m.page_directory = f, f \in D, NEW elf \in Elfs, elf \in Leftover,
         NEW i \in 1 .. Len(Segments[elf]), \A b \in R : b.home # f
  PROVE  Grown(m, SegmentFreed(m, elf, i), D, L, R, V, boot)
<1> DEFINE s == Segments[elf][i]
           p == PageOf(s.vaddr)
           b == SegmentBlock(0, f, elf, i)
<1>1. /\ s.memsz \in Nat \ {0} /\ p \in Page /\ s.vaddr = pmm_get_address(p)
      /\ p + PagesFor(s.memsz) <= PageNumber /\ PagesIn(b) = p .. p + PagesFor(s.memsz) - 1
      /\ \A q \in PagesIn(b) : q \in DomainPages("USER")
      /\ s.memsz <= Video
  BY ProperSegment
<1>2. \A q \in p .. p + PagesFor(s.memsz) - 1 : q \in DomainPages("USER")
  BY <1>1
<1>3. SegmentFreed(m, elf, i) = vmm_free(m, pmm_get_address(p), s.memsz)
  BY <1>1 DEF SegmentFreed
<1> HIDE DEF b, s, p
<1>4. LET r == vmm_free(m, pmm_get_address(p), s.memsz)
      IN  r \in Quiet(m) /\ Memory(r, D, L, R, V, boot)
  BY <1>1, <1>2, MemoryFreeAbsent
<1> QED
  BY <1>3, <1>4 DEF Grown

\* What stays of the blocks R when k segments have been freed.
Unloaded(R, S, pid, f, elf, k) == IF S THEN R \ SegmentBlocks(pid, f, elf, k) ELSE R

LEMMA MemorySegmentsFreed ==
  ASSUME Proper, NEW m, NEW D, NEW L, NEW R, NEW V, NEW boot, Memory(m, D, L, R, V, boot),
         NEW f \in D, m.page_directory = f, NEW elf \in Elfs, NEW pid, LastKept(R, V, f),
         NEW S \in BOOLEAN,
         S => \A b \in SegmentBlocks(pid, f, elf, Len(Segments[elf])) : b \in R /\ b \notin DOMAIN V.pins,
         ~ S => elf \in Leftover /\ \A b \in R : b.home # f
  PROVE  LET N == Len(Segments[elf])
         IN  Grown(m, FreeSegments(m, elf, N), D, L, Unloaded(R, S, pid, f, elf, N), V, boot)
<1> DEFINE N == Len(Segments[elf])
           r(k) == FreeSegments(m, elf, k)
           U(k) == Unloaded(R, S, pid, f, elf, k)
           Good(k) == Grown(m, r(k), D, L, U(k), V, boot)
           K == {k \in Nat : k <= N => Good(k)}
<1>1. m \in MemoryState /\ N \in Nat
  BY MemoryTyped, SegmentTyped
<1>2. 0 \in K
  <2>1. U(0) = R
    BY DEF SegmentBlocks, Unloaded
  <2>2. r(0) = m
    BY <1>1, FreeSegmentsRuns
  <2> HIDE DEF r, U
  <2> QED
    BY <1>1, <2>1, <2>2, QuietLater DEF Grown
<1>3. ASSUME NEW k \in Nat, k \in K
      PROVE  k + 1 \in K
  <2> SUFFICES ASSUME k + 1 <= N
               PROVE  Good(k + 1)
    OBVIOUS
  <2>1. k \in 0 .. N /\ k + 1 \in 1 .. N /\ (k + 1) - 1 = k /\ Good(k)
    BY <1>1, <1>3
  <2> DEFINE b == SegmentBlock(pid, f, elf, k + 1)
  <2>2. r(k + 1) = SegmentFreed(r(k), elf, k + 1) /\ r(k) \in MemoryState
    BY <1>1, <2>1, FreeSegmentsRuns, QuietLater
  <2>3. U(k + 1) = IF S THEN U(k) \ {b} ELSE U(k)
    <3>1. 1 .. k + 1 = (1 .. k) \union {k + 1}
      OBVIOUS
    <3>2. SegmentBlocks(pid, f, elf, k + 1) = SegmentBlocks(pid, f, elf, k) \union {b}
      BY <3>1 DEF SegmentBlocks
    <3> HIDE DEF b
    <3> QED
      BY <3>2 DEF Unloaded
  <2>4. S => b \in U(k) /\ b \notin DOMAIN V.pins
    <3>1. S => b \in R /\ b \notin DOMAIN V.pins
      BY <2>1 DEF SegmentBlocks
    <3>2. b \notin SegmentBlocks(pid, f, elf, k)
      BY SegmentBlockNew
    <3> HIDE DEF b
    <3> QED
      BY <3>1, <3>2 DEF Unloaded
  <2>5. U(k) \subseteq R
    BY DEF Unloaded
  <2>6. LastKept(U(k), V, f) /\ (~ S => \A c \in U(k) : c.home # f)
    BY <2>5, LastKeptLess
  <2>7. r(k) \in Quiet(m) /\ Memory(r(k), D, L, U(k), V, boot) /\ r(k).page_directory = f
    BY <2>1 DEF Grown, Quiet
  <2> HIDE DEF r, U, b
  <2>8. ASSUME NEW i \in 1 .. Len(Segments[elf]), i = k + 1
        PROVE  Grown(r(k), SegmentFreed(r(k), elf, i), D, L,
                     IF S THEN U(k) \ {SegmentBlock(pid, f, elf, i)} ELSE U(k), V, boot)
    <3>1. CASE S
      <4>1. SegmentBlock(pid, f, elf, i) \in U(k) /\ SegmentBlock(pid, f, elf, i) \notin DOMAIN V.pins
        BY <2>4, <2>8, <3>1 DEF b
      <4>2. Grown(r(k), SegmentFreed(r(k), elf, i), D, L, U(k) \ {SegmentBlock(pid, f, elf, i)}, V, boot)
        BY <2>6, <2>7, <4>1, MemorySegmentFreed
      <4> QED
        BY <3>1, <4>2
    <3>2. CASE ~ S
      <4>1. Grown(r(k), SegmentFreed(r(k), elf, i), D, L, U(k), V, boot)
        BY <2>6, <2>7, <3>2, MemorySegmentAbsent
      <4> QED
        BY <3>2, <4>1
    <3> QED
      BY <3>1, <3>2
  <2>9. Grown(r(k), r(k + 1), D, L, U(k + 1), V, boot)
    BY <2>1, <2>2, <2>3, <2>8 DEF b
  <2>10. r(k + 1) \in Quiet(r(k)) => r(k + 1) \in Quiet(m)
    BY <1>1, <2>7, QuietLater
  <2> QED
    BY <2>9, <2>10 DEF Grown
<1> HIDE DEF K
<1>4. \A k \in Nat : k \in K
  BY <1>2, <1>3, Induction
<1> QED
  BY <1>1, <1>4 DEF K

LEMMA MemoryElfUnload ==
  ASSUME Proper, NEW m, NEW D, NEW L, NEW R, NEW V, NEW boot, Memory(m, D, L, R, V, boot),
         m.old_directory = 0, NEW f \in D, NEW elf \in Elfs, NEW pid, LastKept(R, V, f),
         NEW S \in BOOLEAN,
         S => \A b \in SegmentBlocks(pid, f, elf, Len(Segments[elf])) : b \in R /\ b \notin DOMAIN V.pins,
         ~ S => elf \in Leftover /\ \A b \in R : b.home # f
  PROVE  LET r == elf_unload(m, elf, pmm_get_address(f))
         IN  \/ r.short
             \/ Loaded(m, r, D, L, Unloaded(R, S, pid, f, elf, Len(Segments[elf])), V, boot)
<1> DEFINE N == Len(Segments[elf])
           U == Unloaded(R, S, pid, f, elf, N)
           m1 == vmm_modify_page_directory(m, pmm_get_address(f))
           m2 == FreeSegments(m1, elf, N)
           m3 == vmm_modified_page_directory(m2)
<1>0. m \in MemoryState /\ f \in Page /\ m.page_directory \in D \union {boot} /\ N \in 0 .. N
  BY MemoryTyped, SegmentTyped
<1>1. elf_unload(m, elf, pmm_get_address(f)) = m3
  BY TaskMemoryAssumption DEF Proper, elf_unload, elf_check
<1>2. m1 \in MemoryState
  BY <1>0, AddressOfPage, ModifyTyped, QuietLater
<1>3. \/ m1.short
      \/ /\ Memory(m1, D, L, R, V, boot) /\ m1.page_directory = f
         /\ m1.old_directory = m.page_directory
  BY MemoryModify
<1> HIDE DEF m1
<1>4. m2 \in Quiet(m1) /\ m2 \in MemoryState
  BY <1>0, <1>2, FreeSegmentsRuns, QuietLater
<1>5. m1.short \/ Grown(m1, m2, D, L, U, V, boot)
  <2> SUFFICES ASSUME ~ m1.short
               PROVE  Grown(m1, m2, D, L, U, V, boot)
    OBVIOUS
  <2>1. /\ Memory(m1, D, L, R, V, boot) /\ m1.page_directory = f
        /\ m1.old_directory = m.page_directory
    BY <1>3
  <2>2. Grown(m1, FreeSegments(m1, elf, Len(Segments[elf])), D, L,
              Unloaded(R, S, pid, f, elf, Len(Segments[elf])), V, boot)
    BY <2>1, MemorySegmentsFreed
  <2> QED
    BY <2>2
<1> HIDE DEF m2, U
<1>6. m3 \in Later(m2)
  BY <1>4, ModifiedTyped
<1>7. CASE m1.short
  <2>1. m2.short
    BY <1>4, <1>7 DEF Quiet, Later
  <2> QED
    BY <1>1, <1>6, <2>1 DEF Later
<1>8. CASE ~ m1.short
  <2>1. Memory(m2, D, L, U, V, boot) /\ m2.old_directory = m.page_directory
    BY <1>3, <1>5, <1>8 DEF Grown, Quiet
  <2>2. \/ m3.short
        \/ /\ Memory(m3, D, L, U, V, boot) /\ m3.page_directory = m2.old_directory
           /\ m3.old_directory = 0
    BY <1>0, <2>1, MemoryModified
  <2> HIDE DEF m3
  <2> QED
    BY <1>1, <2>1, <2>2 DEF Loaded, U
<1> QED
  BY <1>7, <1>8

(* The structure, the stacks and the directory of a task are freed.        *)
RestBlocks(pid, t) ==
  {StructureBlock(pid, t), KernelStackBlock(pid, t)} \union
  (IF t.kind = "elf" THEN {UserStackBlock(pid, t)} ELSE {})

LEMMA RestKeys ==
  ASSUME NEW pid, NEW t
  PROVE  /\ StructureBlock(pid, t) # KernelStackBlock(pid, t)
         /\ StructureBlock(pid, t) # UserStackBlock(pid, t)
         /\ KernelStackBlock(pid, t) # UserStackBlock(pid, t)
<1>1. /\ StructureBlock(pid, t).key = <<pid, 1>>
      /\ KernelStackBlock(pid, t).key = <<pid, 2>>
      /\ UserStackBlock(pid, t).key = <<pid, 3>>
  BY DEF StructureBlock, KernelStackBlock, UserStackBlock, Block
<1>2. <<pid, 1>> # <<pid, 2>> /\ <<pid, 1>> # <<pid, 3>> /\ <<pid, 2>> # <<pid, 3>>
  OBVIOUS
<1> QED
  BY <1>1, <1>2

\* The blocks of a task that are left after its user stack has been freed.
LEMMA MemoryUserStack ==
  ASSUME NEW m, NEW D, NEW L, NEW R, NEW V, NEW boot, Memory(m, D, L, R, V, boot),
         NEW t, Shape(t), NEW pid, m.page_directory = DirOf(t), DirOf(t) \in D,
         LastKept(R, V, DirOf(t)), t.kind = "elf" => UserStackBlock(pid, t) \in R,
         UserStackBlock(pid, t) \notin DOMAIN V.pins
  PROVE  LET r == vmm_free(m, t.user_stack, t.user_stack_len)
             S == IF t.kind = "elf" THEN R \ {UserStackBlock(pid, t)} ELSE R
         IN  \E M : /\ r \in Quiet(m) /\ Memory(r, D, M, S, V, boot) /\ M \subseteq L
                    /\ \A x \in L : x[1] # DirOf(t) => x \in M
<1> DEFINE b == UserStackBlock(pid, t)
           d == DirOf(t)
<1>0. t.kind \in {"kernel", "elf", "vm86"} /\ m \in MemoryState
  BY ShapeParts, MemoryTyped
<1>1. CASE t.kind = "kernel"
  <2>1. t.user_stack_len = 0
    BY <1>1 DEF Shape
  <2>2. vmm_free(m, t.user_stack, t.user_stack_len) = m
    BY <2>1 DEF vmm_free
  <2> QED
    BY <1>0, <1>1, <2>2, QuietLater
<1>2. CASE t.kind = "elf"
  <2>1. /\ t.user_stack_len = StackLength /\ StackLength \in Nat \ {0}
        /\ t.user_stack = pmm_get_address(PageOf(t.user_stack))
    BY <1>2, Lengths DEF Shape, Aligned
  <2>2. b \in R /\ b.home = d /\ b.page = PageOf(t.user_stack) /\ b.count = PagesFor(StackLength)
        /\ b \notin DOMAIN V.pins
    BY <1>2, TaskBlocksKinds
  <2> HIDE DEF b
  <2>3. b.home \in {Kernel, m.page_directory} /\ LastKept(R, V, b.home)
    BY <2>2
  <2>4. LET r == vmm_free(m, pmm_get_address(b.page), StackLength)
        IN  r \in Quiet(m) /\ Memory(r, D, L, R \ {b}, V, boot)
    BY <2>1, <2>2, <2>3, MemoryFree
  <2> QED
    BY <1>2, <2>1, <2>2, <2>4 DEF b
<1>3. CASE t.kind = "vm86"
  <2> DEFINE a == CODE_ADDRESS + CodeLength
             Lost == Lows(d, LowCount(a, StackLength))
  <2>1. t.user_stack_len = StackLength /\ t.user_stack = a
    BY <1>3 DEF Shape
  <2>2. a \in Nat /\ a < PageSize /\ StackLength \in Nat \ {0} /\ a + StackLength <= Video
    BY CodePlace
  <2> HIDE DEF a
  <2>3. LET r == vmm_free(m, a, StackLength)
        IN  r \in Quiet(m) /\ Memory(r, D, L \ Lost, R, V, boot)
    BY <2>2, MemoryFreeLow
  <2>4. \A x \in L : x[1] # d => x \in L \ Lost
    BY DEF Lows
  <2> HIDE DEF Lost
  <2> QED
    BY <1>3, <2>1, <2>3, <2>4
<1> QED
  BY <1>0, <1>1, <1>2, <1>3

\* No frames of the task are known.
Unpinned(V, pid) == \A b \in DOMAIN V.pins : b.key[1] # pid

LEMMA MemoryTaskDestroy ==
  ASSUME NEW m, NEW D, NEW L, NEW R, NEW V, NEW boot, Memory(m, D, L, R, V, boot),
         m.old_directory = 0, NEW t, Shape(t), NEW pid, DirOf(t) \in D,
         m.page_directory # DirOf(t), LastKept(R, V, Kernel), LastKept(R, V, DirOf(t)),
         RestBlocks(pid, t) \subseteq R, \A b \in R : b.home = DirOf(t) => b \in RestBlocks(pid, t),
         Unpinned(V, pid)
  PROVE  LET r == task_destroy(m, t)
         IN  r.short \/ Loaded(m, r, D \ {DirOf(t)}, {x \in L : x[1] # DirOf(t)},
                               R \ RestBlocks(pid, t), V, boot)
<1> DEFINE d == DirOf(t)
           b1 == StructureBlock(pid, t)
           b2 == KernelStackBlock(pid, t)
           b3 == UserStackBlock(pid, t)
           m1 == vmm_modify_page_directory(m, t.page_directory)
           ks == vmm_free(m1, t.kernel_stack, t.kernel_stack_len)
           us == vmm_free(ks, t.user_stack, t.user_stack_len)
           m2 == vmm_modified_page_directory(us)
           dir == vmm_destroy_page_directory(m2, t.page_directory)
           r == vmm_free(dir, t.at, TaskLength)
           R2 == R \ {b2}
           R3 == IF t.kind = "elf" THEN R2 \ {b3} ELSE R2
<1>1. /\ t.at = pmm_get_address(PageOf(t.at)) /\ PageOf(t.at) \in Page
      /\ t.kernel_stack = pmm_get_address(PageOf(t.kernel_stack)) /\ PageOf(t.kernel_stack) \in Page
      /\ t.page_directory = pmm_get_address(d) /\ d \in Page
      /\ t.kernel_stack_len \in Nat \ {0} /\ t.user_stack_len \in Nat /\ t.user_stack \in Nat
      /\ TaskLength \in Nat \ {0}
  BY ShapeParts, Lengths
<1>2. /\ b1.home = Kernel /\ b1.page = PageOf(t.at) /\ b1.count = PagesFor(TaskLength)
      /\ b2.home = Kernel /\ b2.page = PageOf(t.kernel_stack) /\ b2.count = PagesFor(t.kernel_stack_len)
      /\ b3.home = d
  BY TaskBlocksKinds
<1>3. /\ b1 \in R /\ b2 \in R /\ (t.kind = "elf" => b3 \in R)
      /\ b1 # b2 /\ b1 # b3 /\ b2 # b3
      /\ b1 \notin DOMAIN V.pins /\ b2 \notin DOMAIN V.pins /\ b3 \notin DOMAIN V.pins
  <2>1. b1 # b2 /\ b1 # b3 /\ b2 # b3
    BY RestKeys
  <2>2. b1.key[1] = pid /\ b2.key[1] = pid /\ b3.key[1] = pid
    BY DEF StructureBlock, KernelStackBlock, UserStackBlock, Block
  <2>3. b1 \in R /\ b2 \in R /\ (t.kind = "elf" => b3 \in R)
    BY DEF RestBlocks
  <2> HIDE DEF b1, b2, b3
  <2> QED
    BY <2>1, <2>2, <2>3 DEF Unpinned
<1>4. m \in MemoryState /\ m.page_directory \in D \union {boot} /\ d # Kernel /\ d # 0
  BY MemoryTyped
<1> HIDE DEF b1, b2, b3
<1>5. t.at \in Nat /\ pmm_get_page(t.at, 0) \in PagesIn(b1)
  <2>1. b1.page + PagesFor(TaskLength) <= PageNumber
    BY <1>2, <1>3, MemoryBlocks
  <2> QED
    BY <1>1, <1>2, <2>1, BlockBytes
<1>6. Access(m, t.at) = m
  BY <1>2, <1>3, <1>5, MemoryAccess
<1>7. m1 \in MemoryState
  BY <1>1, <1>4, AddressOfPage, ModifyTyped, QuietLater
<1>8. m1.short \/ (/\ Memory(m1, D, L, R, V, boot) /\ m1.page_directory = d
                   /\ m1.old_directory = m.page_directory)
  BY <1>1, MemoryModify
<1> HIDE DEF m1
<1>9. Access(m1, t.at) \in Later(m1) /\ (~ m1.short => Access(m1, t.at) = m1)
  BY <1>2, <1>3, <1>5, <1>7, <1>8, MemoryAccess, AccessTyped
<1> DEFINE at == Access(m1, t.at)
           ksA == vmm_free(at, t.kernel_stack, t.kernel_stack_len)
           usA == vmm_free(ksA, t.user_stack, t.user_stack_len)
           m2A == vmm_modified_page_directory(usA)
           dirA == vmm_destroy_page_directory(m2A, t.page_directory)
           rA == vmm_free(dirA, t.at, TaskLength)
<1>10. task_destroy(m, t) = rA
  BY <1>6 DEF task_destroy, m1
<1>11. at \in MemoryState /\ (m1.short => at.short)
  BY <1>9 DEF Later
<1> HIDE DEF at
<1>12. ksA \in MemoryState /\ (at.short => ksA.short)
  <2>1. t.kernel_stack \in Nat /\ t.kernel_stack_len \in Nat
    BY <1>1, AddressOfPage
  <2>2. ksA \in Quiet(at)
    BY <1>11, <2>1, ReleaseTyped
  <2> QED
    BY <1>11, <2>2, QuietLater DEF Later
<1> HIDE DEF ksA
<1>13. usA \in MemoryState /\ (ksA.short => usA.short)
  BY <1>1, <1>12, ReleaseTyped DEF Quiet, Later
<1> HIDE DEF usA
<1>14. m2A \in MemoryState /\ (usA.short => m2A.short)
  BY <1>1, <1>13, ModifiedTyped DEF Later
<1> HIDE DEF m2A
<1>15. dirA \in MemoryState /\ (m2A.short => dirA.short)
  BY <1>1, <1>14, AddressOfPage, DestroyTyped DEF Later
<1> HIDE DEF dirA
<1>16. rA \in MemoryState /\ (dirA.short => rA.short)
  BY <1>1, <1>5, <1>15, ReleaseTyped DEF Quiet, Later
<1> HIDE DEF rA
<1> SUFFICES ASSUME ~ rA.short
             PROVE  Loaded(m, rA, D \ {d}, {x \in L : x[1] # d}, R \ RestBlocks(pid, t), V, boot)
  BY <1>10
<1>20. ~ m1.short /\ ~ at.short /\ ~ ksA.short /\ ~ usA.short /\ ~ m2A.short /\ ~ dirA.short
  BY <1>11, <1>12, <1>13, <1>14, <1>15, <1>16
<1>21. /\ Memory(at, D, L, R, V, boot) /\ at.page_directory = d /\ at.old_directory = m.page_directory
  BY <1>8, <1>9, <1>20 DEF at
<1>22. ksA \in Quiet(at) /\ Memory(ksA, D, L, R2, V, boot)
  <2>1. b2.home \in {Kernel, at.page_directory} /\ LastKept(R, V, b2.home)
    BY <1>2
  <2>2. LET x == vmm_free(at, pmm_get_address(b2.page), t.kernel_stack_len)
        IN  x \in Quiet(at) /\ Memory(x, D, L, R \ {b2}, V, boot)
    <3>1. b2 \in R /\ b2 \notin DOMAIN V.pins
      BY <1>3
    <3>2. t.kernel_stack_len \in Nat \ {0} /\ b2.count = PagesFor(t.kernel_stack_len)
      BY <1>1, <1>2
    <3>3. Memory(at, D, L, R, V, boot)
      BY <1>21
    <3> QED
      BY <2>1, <3>1, <3>2, <3>3, MemoryFree
  <2> QED
    BY <1>1, <1>2, <2>2 DEF ksA
<1>23. R2 \subseteq R /\ R3 \subseteq R
  OBVIOUS
<1>24. PICK M : /\ usA \in Quiet(ksA) /\ Memory(usA, D, M, R3, V, boot) /\ M \subseteq L
                /\ \A x \in L : x[1] # d => x \in M
  <2>1. ksA.page_directory = d
    BY <1>21, <1>22 DEF Quiet
  <2>2. t.kind = "elf" => b3 \in R2
    BY <1>3
  <2>3. LastKept(R2, V, d)
    BY <1>23, LastKeptLess
  <2>4. b3 \notin DOMAIN V.pins
    BY <1>3
  <2> HIDE DEF R2
  <2> QED
    BY <1>22, <2>1, <2>2, <2>3, <2>4, MemoryUserStack DEF b3, usA
<1>25. usA.old_directory = m.page_directory
  BY <1>21, <1>22, <1>24 DEF Quiet
<1> HIDE DEF R2, R3
<1>26. /\ Memory(m2A, D, M, R3, V, boot) /\ m2A.page_directory = m.page_directory
       /\ m2A.old_directory = 0
  BY <1>4, <1>20, <1>24, <1>25, MemoryModified DEF m2A
<1>27. \A b \in R3 : b.home # d
  BY <1>2, <1>4 DEF R3, R2, RestBlocks, b1, b2, b3
<1>28. /\ dirA \in Quiet(m2A)
       /\ Memory(dirA, D \ {d}, {x \in M : x[1] # d}, R3, V, boot)
  BY <1>1, <1>20, <1>26, <1>27, MemoryDestroy DEF dirA
<1>29. {x \in M : x[1] # d} = {x \in L : x[1] # d}
  BY <1>24
<1>30. rA \in Quiet(dirA) /\ Memory(rA, D \ {d}, {x \in L : x[1] # d}, R3 \ {b1}, V, boot)
  <2>1. b1 \in R3 /\ b1.home \in {Kernel, dirA.page_directory} /\ LastKept(R3, V, b1.home)
    <3>1. b1 \in R3
      BY <1>3 DEF R3, R2
    <3>2. LastKept(R3, V, Kernel)
      BY <1>23, LastKeptLess
    <3> QED
      BY <1>2, <3>1, <3>2
  <2> DEFINE M2 == {x \in L : x[1] # d}
             D2 == D \ {d}
  <2>2. Memory(dirA, D2, M2, R3, V, boot)
    BY <1>28, <1>29
  <2> HIDE DEF M2, D2
  <2>3. LET x == vmm_free(dirA, pmm_get_address(b1.page), TaskLength)
        IN  x \in Quiet(dirA) /\ Memory(x, D2, M2, R3 \ {b1}, V, boot)
    <3>1. b1 \notin DOMAIN V.pins
      BY <1>3
    <3>2. TaskLength \in Nat \ {0} /\ b1.count = PagesFor(TaskLength)
      BY <1>1, <1>2
    <3> QED
      BY <2>1, <2>2, <3>1, <3>2, MemoryFree
  <2> QED
    BY <1>1, <1>2, <2>3 DEF rA, M2, D2
<1>31. R3 \ {b1} = R \ RestBlocks(pid, t)
  BY DEF R3, R2, RestBlocks, b1, b2, b3
<1>32. rA.page_directory = m.page_directory /\ rA.old_directory = 0
  BY <1>26, <1>28, <1>30 DEF Quiet
<1> QED
  BY <1>30, <1>31, <1>32 DEF Loaded

(* What is left when a task is gone.                                       *)
LEMMA LowsLeft ==
  ASSUME NEW ts, NEW pid \in DOMAIN ts,
         \A p, q \in DOMAIN ts : DirOf(ts[p]) = DirOf(ts[q]) => p = q
  PROVE  {x \in LowsOf(ts) : x[1] # DirOf(ts[pid])} = LowsOf(ts) \ TaskLows(ts[pid])
<1>1. \A p : \A x \in TaskLows(ts[p]) : x[1] = DirOf(ts[p])
  BY DEF TaskLows, Lows
<1>2. \A x : x \in LowsOf(ts) <=> \E p \in DOMAIN ts : x \in TaskLows(ts[p])
  BY DEF LowsOf
<1> QED
  BY <1>1, <1>2

LEMMA UserHome ==
  ASSUME NEW pid, NEW t, NEW b \in UserBlocks(pid, t)
  PROVE  b.home = DirOf(t) /\ t.kind = "elf"
  BY DEF UserBlocks, UserStackBlock, SegmentBlocks, SegmentBlock, Block

LEMMA OwnHome ==
  ASSUME NEW ts, NEW pid \in DOMAIN ts, DirOf(ts[pid]) # Kernel,
         \A p, q \in DOMAIN ts : DirOf(ts[p]) = DirOf(ts[q]) => p = q,
         NEW b \in BlocksOf(ts), b.home = DirOf(ts[pid])
  PROVE  b \in UserBlocks(pid, ts[pid])
<1>1. PICK q \in DOMAIN ts : b \in TaskBlocks(q, ts[q])
  BY DEF BlocksOf
<1>2. b # StructureBlock(q, ts[q]) /\ b # KernelStackBlock(q, ts[q])
  BY TaskBlocksKinds
<1>3. b \in UserBlocks(q, ts[q])
  BY <1>1, <1>2 DEF TaskBlocks
<1> QED
  BY <1>3, UserHome

LEMMA SegmentKeys ==
  ASSUME NEW pid, NEW t, NEW d, NEW elf, NEW n \in Nat, NEW b \in SegmentBlocks(pid, d, elf, n)
  PROVE  b \notin RestBlocks(pid, t)
<1>1. PICK i \in 1 .. n : b = SegmentBlock(pid, d, elf, i)
  BY DEF SegmentBlocks
<1>2. b.key = <<pid, 3 + i>>
  BY <1>1 DEF SegmentBlock, Block
<1>3. /\ StructureBlock(pid, t).key = <<pid, 1>>
      /\ KernelStackBlock(pid, t).key = <<pid, 2>>
      /\ UserStackBlock(pid, t).key = <<pid, 3>>
  BY DEF StructureBlock, KernelStackBlock, UserStackBlock, Block
<1>4. <<pid, 3 + i>> # <<pid, 1>> /\ <<pid, 3 + i>> # <<pid, 2>> /\ <<pid, 3 + i>> # <<pid, 3>>
  BY 3 + i # 1, 3 + i # 2, 3 + i # 3
<1> QED
  BY <1>2, <1>3, <1>4 DEF RestBlocks

(* The segments of a task that has a file are freed.                       *)
OwnSegments(pid, t) ==
  IF t.kind = "elf" THEN SegmentBlocks(pid, DirOf(t), t.elf, Len(Segments[t.elf])) ELSE {}

LEMMA TaskParts ==
  ASSUME NEW pid, NEW t, Shape(t)
  PROVE  /\ TaskBlocks(pid, t) = RestBlocks(pid, t) \union OwnSegments(pid, t)
         /\ \A b \in OwnSegments(pid, t) : b \notin RestBlocks(pid, t)
<1>1. TaskBlocks(pid, t) = RestBlocks(pid, t) \union OwnSegments(pid, t)
  BY DEF TaskBlocks, UserBlocks, RestBlocks, OwnSegments
<1>2. ASSUME NEW b \in OwnSegments(pid, t)
      PROVE  b \notin RestBlocks(pid, t)
  <2>1. t.kind = "elf" /\ t.elf \in Elfs /\ b \in SegmentBlocks(pid, DirOf(t), t.elf, Len(Segments[t.elf]))
    BY DEF OwnSegments, Shape
  <2>2. Len(Segments[t.elf]) \in Nat
    BY <2>1, SegmentTyped
  <2> QED
    BY <2>1, <2>2, SegmentKeys
<1> QED
  BY <1>1, <1>2

TaskUnloaded(m, t) == IF t.elf = NoElf THEN m ELSE elf_unload(m, t.elf, t.page_directory)

LEMMA MemoryTaskUnload ==
  ASSUME Proper, NEW m, NEW D, NEW L, NEW R, NEW V, NEW boot, Memory(m, D, L, R, V, boot),
         m.old_directory = 0, NEW t, Shape(t), NEW pid, DirOf(t) \in D,
         LastKept(R, V, DirOf(t)), TaskBlocks(pid, t) \subseteq R,
         Unpinned(V, pid),
         \A b \in R : b.home = DirOf(t) => b \in UserBlocks(pid, t)
  PROVE  LET r == TaskUnloaded(m, t)
         IN  r.short \/ Loaded(m, r, D, L, R \ OwnSegments(pid, t), V, boot)
<1> DEFINE r == TaskUnloaded(m, t)
           d == DirOf(t)
           S == t.kind = "elf"
<1>1. CASE t.elf = NoElf
  <2>1. t.kind # "elf"
    BY <1>1, TaskMemoryAssumption DEF Shape
  <2>2. OwnSegments(pid, t) = {} /\ R \ {} = R
    BY <2>1 DEF OwnSegments
  <2>3. r = m
    BY <1>1 DEF TaskUnloaded
  <2>4. Loaded(m, m, D, L, R, V, boot)
    BY DEF Loaded
  <2> QED
    BY <2>2, <2>3, <2>4
<1>2. CASE t.elf # NoElf
  <2>1. t.elf \in Elfs /\ t.kind \in {"elf", "vm86"} /\ (t.kind = "vm86" => t.elf \in Leftover)
    <3>1. t.kind \in {"kernel", "elf", "vm86"}
      BY ShapeParts
    <3>2. Leftover \subseteq Elfs \union {NoElf, Garbage} /\ Garbage \notin Leftover
      BY TaskMemoryAssumption DEF Proper
    <3> QED
      BY <1>2, <3>1, <3>2 DEF Shape
  <2>2. r = elf_unload(m, t.elf, pmm_get_address(d))
    BY <1>2, ShapeParts DEF TaskUnloaded
  <2>3. S \in BOOLEAN
    OBVIOUS
  <2>4. S => \A b \in SegmentBlocks(pid, d, t.elf, Len(Segments[t.elf])) : b \in R /\ b \notin DOMAIN V.pins
    <3>1. S => SegmentBlocks(pid, d, t.elf, Len(Segments[t.elf])) \subseteq R
      BY TaskParts DEF OwnSegments
    <3>2. \A b \in SegmentBlocks(pid, d, t.elf, Len(Segments[t.elf])) : b.key[1] = pid
      BY DEF SegmentBlocks, SegmentBlock, Block
    <3> QED
      BY <3>1, <3>2 DEF Unpinned
  <2>5. ~ S => t.elf \in Leftover /\ \A b \in R : b.home # d
    BY <2>1, UserHome
  <2>6. Unloaded(R, S, pid, d, t.elf, Len(Segments[t.elf])) = R \ OwnSegments(pid, t)
    BY DEF Unloaded, OwnSegments
  <2> HIDE DEF S, r, d
  <2>7. d \in D /\ LastKept(R, V, d)
    BY DEF d
  <2>8. \/ elf_unload(m, t.elf, pmm_get_address(d)).short
        \/ Loaded(m, elf_unload(m, t.elf, pmm_get_address(d)), D, L,
                  Unloaded(R, S, pid, d, t.elf, Len(Segments[t.elf])), V, boot)
    BY <2>1, <2>3, <2>4, <2>5, <2>7, MemoryElfUnload
  <2> QED
    BY <2>2, <2>6, <2>8 DEF r
<1> QED
  BY <1>1, <1>2

(* A task is destroyed from another directory than its own.                *)
MemoryLessTask(m, r, ts, pid, V, boot) ==
  Loaded(m, r, DirsOf(ts) \ {DirOf(ts[pid])}, LowsOf(ts) \ TaskLows(ts[pid]),
         BlocksOf(ts) \ TaskBlocks(pid, ts[pid]), V, boot)

LEMMA MemoryTaskGone ==
  ASSUME Proper, NEW m, NEW ts, NEW boot, NEW V,
         Memory(m, DirsOf(ts), LowsOf(ts), BlocksOf(ts), V, boot), m.old_directory = 0,
         \A p \in DOMAIN ts : Shape(ts[p]),
         \A p, q \in DOMAIN ts : DirOf(ts[p]) = DirOf(ts[q]) => p = q,
         NEW pid \in DOMAIN ts, m.page_directory # DirOf(ts[pid]),
         LastKept(BlocksOf(ts), V, Kernel), LastKept(BlocksOf(ts), V, DirOf(ts[pid])),
         Unpinned(V, pid)
  PROVE  LET r == task_destroy(TaskUnloaded(m, ts[pid]), ts[pid])
         IN  r.short \/ MemoryLessTask(m, r, ts, pid, V, boot)
<1> DEFINE t == ts[pid]
           d == DirOf(t)
           D == DirsOf(ts)
           L == LowsOf(ts)
           R == BlocksOf(ts)
           R1 == R \ OwnSegments(pid, t)
           m1 == TaskUnloaded(m, t)
           r == task_destroy(m1, t)
<1>1. Shape(t) /\ t \in Task /\ d \in D /\ TaskBlocks(pid, t) \subseteq R
  BY TaskOwns DEF Shape
<1>2. d # Kernel /\ m \in MemoryState
  BY <1>1, MemoryTyped
<1>3. \A b \in R : b.home = d => b \in UserBlocks(pid, t)
  BY <1>2, OwnHome
<1>4. {x \in L : x[1] # d} = L \ TaskLows(t)
  BY LowsLeft
<1>5. R1 \subseteq R /\ RestBlocks(pid, t) \subseteq R1 /\ R1 \ RestBlocks(pid, t) = R \ TaskBlocks(pid, t)
  BY <1>1, TaskParts
<1>6. \A b \in R1 : b.home = d => b \in RestBlocks(pid, t)
  <2>1. UserBlocks(pid, t) \subseteq RestBlocks(pid, t) \union OwnSegments(pid, t)
    BY <1>1, TaskParts DEF TaskBlocks
  <2> QED
    BY <1>3, <2>1
<1> HIDE DEF D, L, R, R1
<1>7. Memory(m, D, L, R, V, boot) /\ LastKept(R, V, d) /\ LastKept(R, V, Kernel)
  BY DEF D, L, R
<1>8. LastKept(R1, V, d) /\ LastKept(R1, V, Kernel)
  BY <1>5, <1>7, LastKeptLess
<1> HIDE DEF t, d
<1>9. DirOf(t) = d
  BY DEF d
<1>10. m1.short \/ Loaded(m, m1, D, L, R1, V, boot)
  <2>1. DirOf(t) \in D /\ LastKept(R, V, DirOf(t)) /\ \A b \in R : b.home = DirOf(t) => b \in UserBlocks(pid, t)
    BY <1>1, <1>3, <1>7, <1>9
  <2> QED
    BY <1>1, <1>7, <2>1, MemoryTaskUnload DEF R1
<1>11. m1 \in Later(m) /\ m1 \in MemoryState
  <2>1. t.elf \in Elfs \union {NoElf, Garbage} /\ t.page_directory \in Address
    BY <1>1 DEF Task
  <2> QED
    BY <1>2, <2>1, ElfUnloadTyped, QuietLater DEF TaskUnloaded
<1> HIDE DEF m1
<1>12. r \in Later(m1)
  BY <1>1, <1>11, DestroyTaskTyped
<1>13. CASE m1.short
  BY <1>12, <1>13 DEF Later, m1, t
<1>14. CASE ~ m1.short
  <2>1. Memory(m1, D, L, R1, V, boot) /\ m1.page_directory = m.page_directory /\ m1.old_directory = 0
    BY <1>10, <1>14 DEF Loaded
  <2>2. m1.page_directory # DirOf(t)
    BY <2>1 DEF t
  <2>3. LastKept(R1, V, DirOf(t)) /\ DirOf(t) \in D /\ \A b \in R1 : b.home = DirOf(t) => b \in RestBlocks(pid, t)
    BY <1>1, <1>6, <1>8, <1>9
  <2>4. r.short \/ Loaded(m1, r, D \ {DirOf(t)}, {x \in L : x[1] # DirOf(t)},
                          R1 \ RestBlocks(pid, t), V, boot)
    BY <1>1, <1>5, <1>8, <2>1, <2>2, <2>3, MemoryTaskDestroy
  <2>5. r.short \/ Loaded(m1, r, D \ {d}, L \ TaskLows(t), R \ TaskBlocks(pid, t), V, boot)
    BY <1>4, <1>5, <1>9, <2>4
  <2>6. r.short \/ MemoryLessTask(m, r, ts, pid, V, boot)
    BY <2>1, <2>5 DEF Loaded, MemoryLessTask, D, L, R, t, d
  <2> QED
    BY <2>6 DEF m1, t
<1> QED
  BY <1>13, <1>14

LEMMA SettlesDestroy ==
  ASSUME Proper, NEW m, NEW ts, NEW boot, NEW V, Settles(m, ts, boot, V),
         NEW pid \in DOMAIN ts, m.page_directory # DirOf(ts[pid]), Unpinned(V, pid),
         LastKept(BlocksOf(ts), V, Kernel), LastKept(BlocksOf(ts), V, DirOf(ts[pid]))
  PROVE  LET r == task_destroy(TaskUnloaded(m, ts[pid]), ts[pid])
         IN  \/ r.short
             \/ /\ Settles(r, [p \in DOMAIN ts \ {pid} |-> ts[p]], boot, V)
                /\ r.page_directory = m.page_directory
<1> DEFINE r == task_destroy(TaskUnloaded(m, ts[pid]), ts[pid])
<1>1. /\ m.old_directory = 0
      /\ \A p \in DOMAIN ts : Shape(ts[p])
      /\ \A p, q \in DOMAIN ts : DirOf(ts[p]) = DirOf(ts[q]) => p = q
  BY SettlesWith
<1>2. Memory(m, DirsOf(ts), LowsOf(ts), BlocksOf(ts), V, boot)
  BY SettlesWith
<1>4. r.short \/ MemoryLessTask(m, r, ts, pid, V, boot)
  BY <1>1, <1>2, MemoryTaskGone
<1> HIDE DEF r
<1>5. ASSUME ~ r.short
      PROVE  Settles(r, [p \in DOMAIN ts \ {pid} |-> ts[p]], boot, V) /\ r.page_directory = m.page_directory
  <2>1. /\ Memory(r, DirsOf(ts) \ {DirOf(ts[pid])}, LowsOf(ts) \ TaskLows(ts[pid]),
                  BlocksOf(ts) \ TaskBlocks(pid, ts[pid]), V, boot)
        /\ r.page_directory = m.page_directory /\ r.old_directory = 0
    BY <1>4, <1>5 DEF MemoryLessTask, Loaded
  <2> QED
    BY <2>1, SettlesRemove
<1> QED
  BY <1>5 DEF r

(* The pages of a task are the pages of its blocks.                        *)
LEMMA KernelPagesBlocks ==
  ASSUME NEW m, NEW D, NEW L, NEW R, NEW V, NEW boot, Memory(m, D, L, R, V, boot),
         NEW t, Shape(t), NEW pid, TaskBlocks(pid, t) \subseteq R
  PROVE  /\ PageSet(t.at, TaskLength) = PagesIn(StructureBlock(pid, t))
         /\ PageSet(t.kernel_stack, t.kernel_stack_len) = PagesIn(KernelStackBlock(pid, t))
<1> DEFINE b == StructureBlock(pid, t)
           k == KernelStackBlock(pid, t)
<1>1. b \in R /\ b.page = PageOf(t.at) /\ b.count = PagesFor(TaskLength)
  BY TaskBlocksKinds
<1>2. k \in R /\ k.page = PageOf(t.kernel_stack) /\ k.count = PagesFor(t.kernel_stack_len)
  BY TaskBlocksKinds
<1> HIDE DEF b, k
<1>3. PageOf(t.at) + PagesFor(TaskLength) <= PageNumber
  BY <1>1, MemoryBlocks
<1>4. PageOf(t.kernel_stack) + PagesFor(t.kernel_stack_len) <= PageNumber
  BY <1>2, MemoryBlocks
<1>5. /\ t.at = pmm_get_address(PageOf(t.at)) /\ PageOf(t.at) \in Page
      /\ t.kernel_stack = pmm_get_address(PageOf(t.kernel_stack)) /\ PageOf(t.kernel_stack) \in Page
      /\ t.kernel_stack_len \in Nat \ {0} /\ TaskLength \in Nat \ {0}
  BY ShapeParts, Lengths
<1>6. FramesOf(pmm_get_address(PageOf(t.at)), TaskLength) = PagesIn(b)
  BY <1>1, <1>3, <1>5, BlockBytes
<1>7. FramesOf(pmm_get_address(PageOf(t.kernel_stack)), t.kernel_stack_len) = PagesIn(k)
  BY <1>2, <1>4, <1>5, BlockBytes
<1>8. PageSet(t.at, TaskLength) = PagesIn(b)
  BY <1>5, <1>6 DEF PageSet
<1>9. PageSet(t.kernel_stack, t.kernel_stack_len) = PagesIn(k)
  BY <1>5, <1>7 DEF PageSet
<1> QED
  BY <1>8, <1>9 DEF b, k

\* A segment is the pages of its block.
LEMMA SegmentPages ==
  ASSUME Proper, NEW elf \in Elfs, NEW i \in 1 .. Len(Segments[elf]), NEW pid, NEW d
  PROVE  PageSet(Segments[elf][i].vaddr, Segments[elf][i].memsz) = PagesIn(SegmentBlock(pid, d, elf, i))
<1> DEFINE s == Segments[elf][i]
           b == SegmentBlock(pid, d, elf, i)
<1>1. s.memsz # 0 /\ FramesOf(s.vaddr, s.memsz) = PagesIn(b)
  BY ProperSegment
<1> HIDE DEF s, b
<1>2. PageSet(s.vaddr, s.memsz) = PagesIn(b)
  BY <1>1 DEF PageSet
<1> QED
  BY <1>2 DEF s, b

LEMMA UserPagesBlocks ==
  ASSUME Proper, NEW m, NEW D, NEW L, NEW R, NEW V, NEW boot, Memory(m, D, L, R, V, boot),
         NEW t, Shape(t), NEW pid, TaskBlocks(pid, t) \subseteq R
  PROVE  \A p : p \in UserPagesOf(t) <=> \E b \in UserBlocks(pid, t) : p \in PagesIn(b)
<1>1. CASE t.kind # "elf"
  BY <1>1 DEF UserPagesOf, UserBlocks
<1>2. CASE t.kind = "elf"
  <2> DEFINE u == UserStackBlock(pid, t)
             N == Len(Segments[t.elf])
  <2>1. /\ t.elf \in Elfs /\ t.user_stack_len = StackLength /\ StackLength \in Nat \ {0}
        /\ t.user_stack = pmm_get_address(PageOf(t.user_stack)) /\ PageOf(t.user_stack) \in Page
    BY <1>2, Lengths, ShapeParts DEF Shape, Aligned
  <2>2. u \in R /\ u.page = PageOf(t.user_stack) /\ u.count = PagesFor(StackLength)
    BY <1>2, TaskBlocksKinds
  <2> HIDE DEF u
  <2>3. PageOf(t.user_stack) + PagesFor(StackLength) <= PageNumber
    BY <2>2, MemoryBlocks
  <2>4. FramesOf(pmm_get_address(PageOf(t.user_stack)), StackLength) = PagesIn(u)
    BY <2>1, <2>2, <2>3, BlockBytes
  <2>5. PageSet(t.user_stack, t.user_stack_len) = PagesIn(u)
    BY <2>1, <2>4 DEF PageSet
  <2>6. elf_check(t.elf)
    BY <2>1 DEF Proper, elf_check
  <2>7. UserPagesOf(t) = PagesIn(u) \union UNION {PageSet(s.vaddr, s.memsz) : s \in Range(Segments[t.elf])}
    BY <1>2, <2>5, <2>6 DEF UserPagesOf
  <2>8. \A i \in 1 .. N : PageSet(Segments[t.elf][i].vaddr, Segments[t.elf][i].memsz)
                          = PagesIn(SegmentBlock(pid, DirOf(t), t.elf, i))
    BY <2>1, SegmentPages
  <2>9. /\ \A s \in Range(Segments[t.elf]) : \E i \in 1 .. N : s = Segments[t.elf][i]
        /\ \A i \in 1 .. N : Segments[t.elf][i] \in Range(Segments[t.elf])
    BY <2>1, SegmentTyped
  <2>10. \A b : b \in UserBlocks(pid, t) <=>
                  b = u \/ \E i \in 1 .. N : b = SegmentBlock(pid, DirOf(t), t.elf, i)
    BY <1>2 DEF UserBlocks, SegmentBlocks, u
  <2> HIDE DEF N
  <2>11. \A p : p \in UserPagesOf(t) <=>
           p \in PagesIn(u) \/ \E s \in Range(Segments[t.elf]) : p \in PageSet(s.vaddr, s.memsz)
    BY <2>7
  <2>12. \A p : (\E s \in Range(Segments[t.elf]) : p \in PageSet(s.vaddr, s.memsz)) <=>
                (\E i \in 1 .. N : p \in PagesIn(SegmentBlock(pid, DirOf(t), t.elf, i)))
    BY <2>8, <2>9
  <2> QED
    BY <2>10, <2>11, <2>12
<1> QED
  BY <1>1, <1>2

(* The pages of the kernel's domain that are mapped.                       *)
LEMMA MemoryKernelPages ==
  ASSUME NEW m, NEW D, NEW L, NEW R, NEW V, NEW boot, Memory(m, D, L, R, V, boot)
  PROVE  /\ \A p \in DomainPages("KERNEL") :
              Mapped(m, pmm_get_address(p)) <=>
                p \in DOMAIN V.own \/ \E b \in R : b.home = Kernel /\ p \in PagesIn(b)
         /\ \A p \in DOMAIN V.own : /\ p \in DomainPages("KERNEL")
                                /\ FrameAt(m, pmm_get_address(p)) = V.own[p]
                                /\ \A b \in R : b.home = Kernel => p \notin PagesIn(b)
<1>1. PICK use, mp : Con(m, use, mp) /\ Layout(use, mp, D, L, R, V, boot)
  BY DEF Memory
<1>2. ASSUME NEW p \in DomainPages("KERNEL")
      PROVE  /\ p \in Page /\ T(p) # 0
             /\ Mapped(m, pmm_get_address(p)) <=> mp[Kernel][p] # Hole
             /\ Mapped(m, pmm_get_address(p)) => FrameAt(m, pmm_get_address(p)) = mp[Kernel][p]
  <2>1. /\ p \in Page /\ T(p) # 0 /\ T(p) # LastEntry
        /\ HomeOf(m.page_directory, T(p)) = DomainHome(m, "KERNEL")
    BY DomainPlace
  <2>2. DomainHome(m, "KERNEL") = Kernel
    BY DEF DomainHome
  <2> QED
    BY <1>1, <2>1, <2>2, ConMapped
<1>3. ASSUME NEW p \in DOMAIN V.own
      PROVE  p \in DomainPages("KERNEL") /\ mp[Kernel][p] = V.own[p] /\ mp[Kernel][p] # Hole
    BY <1>1, KernelHome DEF Layout, OwnMapped
<1>4. ASSUME NEW p \in Page, mp[Kernel][p] # Hole, T(p) # 0
      PROVE  p \in DOMAIN V.own \/ \E b \in R : b.home = Kernel /\ p \in PagesIn(b)
  BY <1>1, <1>4, KernelHome DEF Layout, NoMore
<1>5. ASSUME NEW b \in R, b.home = Kernel, NEW p \in PagesIn(b), p \in Page
      PROVE  mp[Kernel][p] # Hole
  <2>1. Placed(use, mp, R)
    BY <1>1 DEF Layout
  <2>2. /\ FrameOf(mp, b) \in Page /\ FrameOf(mp, b) + b.count <= PageNumber
        /\ mp[b.home][p] = FrameOf(mp, b) + (p - b.page)
    BY <2>1 DEF Placed
  <2>3. b.page \in Page /\ b.count \in Nat \ {0} /\ b.page + b.count <= PageNumber
    BY MemoryBlocks
  <2>4. FrameOf(mp, b) + (p - b.page) \in Page
    BY <2>2, <2>3 DEF PagesIn, Page
  <2> QED
    BY <1>5, <2>2, <2>4, KernelHome
<1>6. ASSUME NEW p \in DOMAIN V.own, NEW b \in R, b.home = Kernel
      PROVE  p \notin PagesIn(b)
  BY <1>1, <1>6, OwnApart
<1> QED
  BY <1>2, <1>3, <1>4, <1>5, <1>6

(* What is expected of the last pages of tables.                           *)
LEMMA LastPagesOwn ==
  ASSUME Proper, LastPagesKept, NEW V,
         Memory(vm, DirsOf(tasks), LowsOf(tasks), BlocksOf(tasks), V, boot_directory),
         \A p \in DOMAIN tasks : Shape(tasks[p]),
         \A p, q \in DOMAIN tasks : DirOf(tasks[p]) = DirOf(tasks[q]) => p = q,
         NEW pid \in DOMAIN tasks
  PROVE  LastKept(BlocksOf(tasks), V, Kernel) /\ LastKept(BlocksOf(tasks), V, DirOf(tasks[pid]))
<1> DEFINE R == BlocksOf(tasks)
<1>1. ASSUME NEW q \in DOMAIN tasks
      PROVE  /\ TaskBlocks(q, tasks[q]) \subseteq R /\ DirOf(tasks[q]) # Kernel
             /\ Shape(tasks[q])
  BY TaskOwns, MemoryTyped
<1>2. ASSUME NEW b \in R, b.home = Kernel, NEW x \in PagesIn(b)
      PROVE  \E q \in DOMAIN tasks : x \in KernelPagesOf(tasks[q])
  <2>1. PICK q \in DOMAIN tasks : b \in TaskBlocks(q, tasks[q])
    BY DEF BlocksOf
  <2>2. b \notin UserBlocks(q, tasks[q])
    BY <1>1, <1>2, UserHome
  <2>3. b = StructureBlock(q, tasks[q]) \/ b = KernelStackBlock(q, tasks[q])
    BY <2>1, <2>2 DEF TaskBlocks
  <2> DEFINE t == tasks[q]
  <2>4. Shape(t) /\ TaskBlocks(q, t) \subseteq BlocksOf(tasks)
    BY <1>1
  <2> HIDE DEF t
  <2>5. /\ PageSet(t.at, TaskLength) = PagesIn(StructureBlock(q, t))
        /\ PageSet(t.kernel_stack, t.kernel_stack_len) = PagesIn(KernelStackBlock(q, t))
    BY <2>4, KernelPagesBlocks
  <2>6. x \in KernelPagesOf(t)
    BY <2>3, <2>5 DEF KernelPagesOf, t
  <2> QED
    BY <2>6 DEF t
<1>3. LastKept(R, V, Kernel)
  <2>1. SUFFICES ASSUME NEW p \in Page, I(p) = LastEntry,
                        p \in DOMAIN V.own \/ \E b \in R : b.home = Kernel /\ p \in PagesIn(b)
                 PROVE  \E v \in DOMAIN V.own : T(v) = T(p) /\ I(v) # LastEntry
    BY DEF LastKept, OwnIn
  <2>2. p \in DomainPages("KERNEL")
    <3>1. CASE p \in DOMAIN V.own
      BY <3>1, MemoryKernelPages
    <3>2. CASE \E b \in R : b.home = Kernel /\ p \in PagesIn(b)
      BY <3>2, MemoryBlocks DEF HomeDomain
    <3> QED
      BY <2>1, <3>1, <3>2
  <2>3. p \in MappedKernelPages
    BY <2>1, <2>2, MemoryKernelPages DEF MappedKernelPages
  <2>4. PICK q \in OwnKernelPages : q \div ENTRIES = p \div ENTRIES /\ q % ENTRIES # ENTRIES - 1
    BY <2>1, <2>3 DEF LastPagesKept, I, LastEntry
  <2>5. /\ q \in DomainPages("KERNEL") /\ Mapped(vm, pmm_get_address(q))
        /\ \A r \in DOMAIN tasks : q \notin KernelPagesOf(tasks[r])
    BY <2>4 DEF OwnKernelPages, MappedKernelPages
  <2>6. q \in DOMAIN V.own \/ \E b \in R : b.home = Kernel /\ q \in PagesIn(b)
    BY <2>5, MemoryKernelPages
  <2>7. q \in DOMAIN V.own
    BY <1>2, <2>5, <2>6
  <2> QED
    BY <2>4, <2>7 DEF T, I, LastEntry
<1>4. LastKept(R, V, DirOf(tasks[pid]))
  <2> DEFINE t == tasks[pid]
  <2>1. SUFFICES ASSUME NEW p \in Page, I(p) = LastEntry,
                        p \in OwnIn(V, DirOf(t)) \/ \E b \in R : b.home = DirOf(t) /\ p \in PagesIn(b)
                 PROVE  FALSE
    BY DEF LastKept
  <2>2. PICK b \in R : b.home = DirOf(t) /\ p \in PagesIn(b)
    BY <1>1, <2>1 DEF OwnIn
  <2>3. b \in UserBlocks(pid, t)
    BY <1>1, <2>2, OwnHome
  <2>4. p \in UserPagesOf(t)
    <3>1. Shape(t) /\ TaskBlocks(pid, t) \subseteq BlocksOf(tasks)
      BY <1>1
    <3> HIDE DEF t
    <3>2. \A x : x \in UserPagesOf(t) <=> \E c \in UserBlocks(pid, t) : x \in PagesIn(c)
      BY <3>1, UserPagesBlocks
    <3> QED
      BY <2>2, <2>3, <3>2
  <2> QED
    BY <2>1, <2>4 DEF LastPagesKept, I, LastEntry
<1> QED
  BY <1>3, <1>4

(* Until the memory runs short, it is as the tasks need it, and the        *)
(* directory of the current task is loaded.                                *)
Loads(m, ts, cur) == cur # 0 => m.page_directory = DirOf(ts[cur])
TasksPlaced(m, ts, cur, boot, V) == Settles(m, ts, boot, V) /\ Loads(m, ts, cur)
Safe == vm.short \/ \E V : TasksPlaced(vm, tasks, current_task, boot_directory, V)

LEMMA SettlesRunning ==
  ASSUME NEW m, NEW ts, NEW boot, NEW V, Settles(m, ts, boot, V)
  PROVE  ~ m.fault /\ m \in MemoryState
<1>1. Memory(m, DirsOf(ts), LowsOf(ts), BlocksOf(ts), V, boot)
  BY SettlesWith
<1> QED
  BY <1>1, MemoryTyped DEF Memory, Running

LEMMA CommitGood ==
  ASSUME NEW m, Commit(m), vm \in MemoryState
  PROVE  /\ ~ m.fault => vm' = m
         /\ m.short => vm'.short
<1>1. CASE m.fault
  <2>1. vm' = [vm EXCEPT !.fault = TRUE, !.short = m.short]
    BY <1>1 DEF Commit
  <2>2. vm'.short = m.short
    BY <2>1 DEF MemoryState
  <2> QED
    BY <1>1, <2>2
<1>2. CASE ~ m.fault
  BY <1>2 DEF Commit
<1> QED
  BY <1>1, <1>2

(* A task is added.                                                        *)
LEMMA AddSettles ==
  ASSUME TypeOK, NEW V, TasksPlaced(vm, tasks, current_task, boot_directory, V), NEW c, task_add(c),
         \A pid : Memory(vm, DirsOf(tasks), LowsOf(tasks), BlocksOf(tasks), V, boot_directory) =>
           \/ c.m.short
           \/ TaskPlaced(c.m, c.task, pid, vm.page_directory, DirsOf(tasks), LowsOf(tasks),
                         BlocksOf(tasks), V, boot_directory)
  PROVE  vm'.short \/ TasksPlaced(vm', tasks', current_task', boot_directory', V)
<1>1. /\ DOMAIN tasks # Pids /\ Commit(c.m)
      /\ tasks' = IF c.m.fault THEN tasks
                  ELSE [p \in DOMAIN tasks \union {FreePid} |-> IF p = FreePid THEN c.task ELSE tasks[p]]
      /\ current_task' = current_task /\ boot_directory' = boot_directory
  BY DEF task_add
<1>2. FreePid \in Pids /\ FreePid \notin DOMAIN tasks /\ vm \in MemoryState
      /\ current_task \in DOMAIN tasks \union {0}
  BY <1>1, NewPid DEF TypeOK
<1>3. /\ OwnAt(V)
      /\ Memory(vm, DirsOf(tasks), LowsOf(tasks), BlocksOf(tasks), V, boot_directory)
  BY SettlesWith DEF TasksPlaced
<1>4. CASE c.m.short
  BY <1>1, <1>2, <1>4, CommitGood
<1>5. CASE ~ c.m.short
  <2>1. TaskPlaced(c.m, c.task, FreePid, vm.page_directory, DirsOf(tasks), LowsOf(tasks),
                   BlocksOf(tasks), V, boot_directory)
    BY <1>3, <1>5
  <2>2. ~ c.m.fault /\ c.m.page_directory = vm.page_directory
    BY <2>1 DEF TaskPlaced, Memory, Running
  <2>3. vm' = c.m
    BY <1>1, <1>2, <2>2, CommitGood
  <2>4. /\ DOMAIN tasks' = DOMAIN tasks \union {FreePid} /\ tasks'[FreePid] = c.task
        /\ \A p \in DOMAIN tasks : tasks'[p] = tasks[p]
    BY <1>1, <1>2, <2>2
  <2>5. Settles(vm, tasks, boot_directory, V)
    BY DEF TasksPlaced
  <2>6. Settles(c.m, tasks', boot_directory, V)
    <3>1. With(tasks', tasks, FreePid, c.task)
      BY <1>2, <2>4 DEF With
    <3> QED
      BY <2>1, <2>5, <3>1, SettlesAdd
  <2>7. Loads(c.m, tasks', current_task)
    BY <1>2, <2>2, <2>4 DEF Loads, TasksPlaced
  <2> QED
    BY <1>1, <2>3, <2>6, <2>7 DEF TasksPlaced
<1> QED
  BY <1>4, <1>5

LEMMA KernelTaskSettles ==
  ASSUME TypeOK, NEW V, TasksPlaced(vm, tasks, current_task, boot_directory, V), CreateKernelTask
  PROVE  vm'.short \/ TasksPlaced(vm', tasks', current_task', boot_directory', V)
<1> DEFINE l == IF DOMAIN tasks = {} THEN STACK_SIZE ELSE StackLength
           c == task_create_detailed(vm, "kernel", 0, l, 0, NoElf)
<1>1. task_add(c) /\ vm.old_directory = 0 /\ l \in {STACK_SIZE, StackLength}
  BY SettlesWith DEF CreateKernelTask, TasksPlaced
<1> HIDE DEF l
<1>2. ASSUME NEW pid, Memory(vm, DirsOf(tasks), LowsOf(tasks), BlocksOf(tasks), V, boot_directory)
      PROVE  \/ c.m.short
             \/ TaskPlaced(c.m, c.task, pid, vm.page_directory, DirsOf(tasks), LowsOf(tasks),
                           BlocksOf(tasks), V, boot_directory)
  BY <1>1, <1>2, MemoryKernelTask
<1> HIDE DEF c
<1> QED
  BY <1>1, <1>2, AddSettles

LEMMA ElfTaskSettles ==
  ASSUME Proper, TypeOK, NEW V, TasksPlaced(vm, tasks, current_task, boot_directory, V), NEW elf \in Elfs,
         CreateElfTask(elf)
  PROVE  vm'.short \/ TasksPlaced(vm', tasks', current_task', boot_directory', V)
<1> DEFINE c == elf_create_task(vm, elf)
<1>1. task_add(c) /\ vm.old_directory = 0
  BY SettlesWith DEF CreateElfTask, TasksPlaced
<1>2. ASSUME NEW pid, Memory(vm, DirsOf(tasks), LowsOf(tasks), BlocksOf(tasks), V, boot_directory)
      PROVE  \/ c.m.short
             \/ TaskPlaced(c.m, c.task, pid, vm.page_directory, DirsOf(tasks), LowsOf(tasks),
                           BlocksOf(tasks), V, boot_directory)
  BY <1>1, <1>2, MemoryElfTask
<1> HIDE DEF c
<1> QED
  BY <1>1, <1>2, AddSettles

LEMMA Vm86TaskSettles ==
  ASSUME TypeOK, NEW V, TasksPlaced(vm, tasks, current_task, boot_directory, V), NEW elf \in Leftover,
         CreateVm86Task(elf)
  PROVE  vm'.short \/ TasksPlaced(vm', tasks', current_task', boot_directory', V)
<1> DEFINE c == vm86_create_task(vm, elf)
<1>1. task_add(c) /\ vm.old_directory = 0
  BY SettlesWith DEF CreateVm86Task, TasksPlaced
<1>2. ASSUME NEW pid, Memory(vm, DirsOf(tasks), LowsOf(tasks), BlocksOf(tasks), V, boot_directory)
      PROVE  \/ c.m.short
             \/ TaskPlaced(c.m, c.task, pid, vm.page_directory, DirsOf(tasks), LowsOf(tasks),
                           BlocksOf(tasks), V, boot_directory)
  BY <1>1, <1>2, MemoryVm86Task
<1> HIDE DEF c
<1> QED
  BY <1>1, <1>2, AddSettles

(* A switch.                                                               *)
LEMMA SwitchSettles ==
  ASSUME Proper, TypeOK, NEW V, TasksPlaced(vm, tasks, current_task, boot_directory, V), NEW pid \in DOMAIN tasks,
         NEW m, m = schedule_switch_task(vm, tasks[pid]), Commit(m)
  PROVE  \/ vm'.short
         \/ ~ m.fault /\ Settles(vm', tasks, boot_directory, V) /\ vm'.page_directory = DirOf(tasks[pid])
<1>1. m.short \/ (Settles(m, tasks, boot_directory, V) /\ m.page_directory = DirOf(tasks[pid]))
  BY MemorySwitch DEF TasksPlaced
<1>2. vm \in MemoryState
  BY DEF TypeOK
<1>3. CASE m.short
  BY <1>2, <1>3, CommitGood
<1>4. CASE ~ m.short
  <2>1. ~ m.fault
    BY <1>1, <1>4, SettlesRunning
  <2> QED
    BY <1>1, <1>2, <1>4, <2>1, CommitGood
<1> QED
  BY <1>3, <1>4

(* Whether tasks run does not matter to their memory.                      *)
SameTask(t, u) ==
  /\ u.kind = t.kind /\ u.at = t.at /\ u.page_directory = t.page_directory
  /\ u.kernel_stack = t.kernel_stack /\ u.user_stack = t.user_stack
  /\ u.kernel_stack_len = t.kernel_stack_len /\ u.user_stack_len = t.user_stack_len /\ u.elf = t.elf
  /\ u \in Task

LEMMA SameTaskBlocks ==
  ASSUME NEW t, NEW u, SameTask(t, u), Shape(t)
  PROVE  /\ Shape(u) /\ DirOf(u) = DirOf(t) /\ TaskLows(u) = TaskLows(t)
         /\ \A pid : TaskBlocks(pid, u) = TaskBlocks(pid, t)
<1>1. DirOf(u) = DirOf(t)
  BY DEF SameTask, DirOf
<1>2. Shape(u)
  BY DEF SameTask, Shape
<1>3. TaskLows(u) = TaskLows(t)
  BY <1>1 DEF SameTask, TaskLows
<1>4. ASSUME NEW pid
      PROVE  TaskBlocks(pid, u) = TaskBlocks(pid, t)
  BY <1>1 DEF SameTask, TaskBlocks, UserBlocks, StructureBlock, KernelStackBlock, UserStackBlock
<1> QED
  BY <1>1, <1>2, <1>3, <1>4

LEMMA SettlesSame ==
  ASSUME NEW m, NEW ts, NEW boot, NEW V, Settles(m, ts, boot, V), NEW us, DOMAIN us = DOMAIN ts,
         \A p \in DOMAIN ts : SameTask(ts[p], us[p])
  PROVE  Settles(m, us, boot, V)
<1>1. /\ m.old_directory = 0
      /\ \A p \in DOMAIN ts : Shape(ts[p])
      /\ \A p, q \in DOMAIN ts : DirOf(ts[p]) = DirOf(ts[q]) => p = q
  BY SettlesWith
<1>2. /\ OwnAt(V)
      /\ Memory(m, DirsOf(ts), LowsOf(ts), BlocksOf(ts), V, boot)
  BY SettlesWith
<1>3. \A p \in DOMAIN ts : /\ Shape(us[p]) /\ DirOf(us[p]) = DirOf(ts[p])
                           /\ TaskLows(us[p]) = TaskLows(ts[p])
                           /\ TaskBlocks(p, us[p]) = TaskBlocks(p, ts[p])
  BY <1>1, SameTaskBlocks
<1>4. DirsOf(us) = DirsOf(ts)
  BY <1>3 DEF DirsOf
<1>5. LowsOf(us) = LowsOf(ts)
  BY <1>3 DEF LowsOf
<1>6. BlocksOf(us) = BlocksOf(ts)
  BY <1>3 DEF BlocksOf
<1>7. \A p, q \in DOMAIN us : DirOf(us[p]) = DirOf(us[q]) => p = q
  BY <1>1, <1>3
<1>8. \A p \in DOMAIN us : Shape(us[p])
  BY <1>3
<1>9. Memory(m, DirsOf(us), LowsOf(us), BlocksOf(us), V, boot)
  BY <1>2, <1>4, <1>5, <1>6
<1> HIDE DEF Memory
<1> QED
  BY <1>1, <1>2, <1>7, <1>8, <1>9 DEF Settles

LEMMA StoppedSame ==
  ASSUME NEW t \in Task, NEW x \in BOOLEAN
  PROVE  SameTask(t, t) /\ SameTask(t, [t EXCEPT !.running = x])
  BY DEF Task, SameTask

LEMMA SwitchesSettle ==
  ASSUME Proper, TypeOK, NEW V, TasksPlaced(vm, tasks, current_task, boot_directory, V), NEW pid \in DOMAIN tasks,
         Switch(pid)
  PROVE  vm'.short \/ TasksPlaced(vm', tasks', current_task', boot_directory', V)
<1> DEFINE m == schedule_switch_task(vm, tasks[pid])
<1>1. /\ Commit(m) /\ current_task' = IF m.fault THEN current_task ELSE pid
      /\ tasks' = tasks /\ boot_directory' = boot_directory
  BY DEF Switch
<1> HIDE DEF m
<1>2. \/ vm'.short
      \/ ~ m.fault /\ Settles(vm', tasks, boot_directory, V) /\ vm'.page_directory = DirOf(tasks[pid])
  BY <1>1, SwitchSettles DEF m
<1> QED
  BY <1>1, <1>2 DEF TasksPlaced, Loads

LEMMA ExitSettles ==
  ASSUME Proper, TypeOK, NEW V, TasksPlaced(vm, tasks, current_task, boot_directory, V), NEW pid \in DOMAIN tasks,
         Exit(pid)
  PROVE  vm'.short \/ TasksPlaced(vm', tasks', current_task', boot_directory', V)
<1> DEFINE m == schedule_switch_task(vm, tasks[pid])
<1>1. /\ Commit(m) /\ current_task' = IF m.fault THEN current_task ELSE pid
      /\ tasks' = IF m.fault THEN tasks ELSE [tasks EXCEPT ![current_task].running = FALSE]
      /\ boot_directory' = boot_directory /\ pid # current_task
  BY DEF Exit
<1> HIDE DEF m
<1>2. \/ vm'.short
      \/ ~ m.fault /\ Settles(vm', tasks, boot_directory, V) /\ vm'.page_directory = DirOf(tasks[pid])
  BY <1>1, SwitchSettles DEF m
<1>3. ASSUME ~ vm'.short
      PROVE  TasksPlaced(vm', tasks', current_task', boot_directory', V)
  <2>1. /\ ~ m.fault /\ Settles(vm', tasks, boot_directory, V) /\ vm'.page_directory = DirOf(tasks[pid])
        /\ tasks' = [tasks EXCEPT ![current_task].running = FALSE] /\ current_task' = pid
    BY <1>1, <1>2, <1>3
  <2>2. \A p \in DOMAIN tasks : tasks[p] \in Task
    BY DEF TypeOK
  <2>3. DOMAIN tasks' = DOMAIN tasks
    BY <2>1
  <2>4. \A p \in DOMAIN tasks : tasks'[p] = IF p = current_task THEN [tasks[p] EXCEPT !.running = FALSE]
                                            ELSE tasks[p]
    BY <2>1
  <2>5. \A p \in DOMAIN tasks : SameTask(tasks[p], tasks'[p])
    BY <2>2, <2>4, StoppedSame
  <2>6. Settles(vm', tasks', boot_directory, V)
    BY <2>1, <2>3, <2>5, SettlesSame
  <2>7. tasks'[pid] = tasks[pid]
    BY <1>1, <2>4
  <2> QED
    BY <1>1, <2>1, <2>6, <2>7 DEF TasksPlaced, Loads
<1> QED
  BY <1>3

(* A task is destroyed.                                                    *)
LEMMA DestroySettles ==
  ASSUME Proper, TypeOK, Alive, LastPagesKept, NEW V, TasksPlaced(vm, tasks, current_task, boot_directory, V),
         NEW pid \in DOMAIN tasks, Destroy(pid),
         Unpinned(V, pid)
  PROVE  vm'.short \/ TasksPlaced(vm', tasks', current_task', boot_directory', V)
<1> DEFINE m == task_destroy(TaskUnloaded(vm, tasks[pid]), tasks[pid])
<1>1. /\ Commit(m) /\ current_task = MainPid /\ ~ tasks[pid].running
      /\ tasks' = IF m.fault THEN tasks ELSE [p \in DOMAIN tasks \ {pid} |-> tasks[p]]
      /\ current_task' = current_task /\ boot_directory' = boot_directory
  BY DEF Destroy, TaskUnloaded
<1>2. vm \in MemoryState /\ current_task \in DOMAIN tasks /\ current_task # 0 /\ pid # current_task
  BY <1>1 DEF TypeOK, Alive, MainPid
<1>3. /\ Settles(vm, tasks, boot_directory, V) /\ vm.page_directory = DirOf(tasks[current_task])
  BY <1>2 DEF TasksPlaced, Loads
<1>4. /\ \A p \in DOMAIN tasks : Shape(tasks[p])
      /\ \A p, q \in DOMAIN tasks : DirOf(tasks[p]) = DirOf(tasks[q]) => p = q
  BY <1>3, SettlesWith
<1>5. vm.page_directory # DirOf(tasks[pid])
  BY <1>2, <1>3, <1>4
<1>6. LastKept(BlocksOf(tasks), V, Kernel) /\ LastKept(BlocksOf(tasks), V, DirOf(tasks[pid]))
  BY <1>3, <1>4, SettlesWith, LastPagesOwn
<1>7. \/ m.short
      \/ /\ Settles(m, [p \in DOMAIN tasks \ {pid} |-> tasks[p]], boot_directory, V)
         /\ m.page_directory = vm.page_directory
  BY <1>3, <1>5, <1>6, SettlesDestroy
<1> HIDE DEF m
<1>8. CASE m.short
  BY <1>1, <1>2, <1>8, CommitGood
<1>9. CASE ~ m.short
  <2>1. ~ m.fault
    BY <1>7, <1>9, SettlesRunning
  <2>2. vm' = m /\ tasks' = [p \in DOMAIN tasks \ {pid} |-> tasks[p]]
    BY <1>1, <1>2, <2>1, CommitGood
  <2>3. tasks'[current_task] = tasks[current_task]
    BY <1>2, <2>2
  <2>4. Settles(vm', tasks', boot_directory, V)
    BY <1>7, <1>9, <2>2
  <2>5. vm'.page_directory = vm.page_directory
    BY <1>7, <1>9, <2>2
  <2> QED
    BY <1>1, <1>3, <2>3, <2>4, <2>5 DEF TasksPlaced, Loads
<1> QED
  BY <1>8, <1>9

\* What is known of frames stays so, unless it is of a task that is destroyed.
LEMMA NextPlaced ==
  ASSUME Proper, TypeOK, Alive, LastPagesKept, NEW V,
         TasksPlaced(vm, tasks, current_task, boot_directory, V), Next,
         \A pid \in DOMAIN tasks : Destroy(pid) => Unpinned(V, pid)
  PROVE  vm'.short \/ TasksPlaced(vm', tasks', current_task', boot_directory', V)
<1>1. CASE CreateKernelTask
  BY <1>1, KernelTaskSettles
<1>2. ASSUME NEW elf \in Elfs, CreateElfTask(elf)
      PROVE  vm'.short \/ TasksPlaced(vm', tasks', current_task', boot_directory', V)
  BY <1>2, ElfTaskSettles
<1>3. ASSUME NEW elf \in Leftover, CreateVm86Task(elf)
      PROVE  vm'.short \/ TasksPlaced(vm', tasks', current_task', boot_directory', V)
  BY <1>3, Vm86TaskSettles
<1>4. ASSUME NEW pid \in DOMAIN tasks, Switch(pid)
      PROVE  vm'.short \/ TasksPlaced(vm', tasks', current_task', boot_directory', V)
  BY <1>4, SwitchesSettle
<1>5. ASSUME NEW pid \in DOMAIN tasks, Exit(pid)
      PROVE  vm'.short \/ TasksPlaced(vm', tasks', current_task', boot_directory', V)
  BY <1>5, ExitSettles
<1>6. ASSUME NEW pid \in DOMAIN tasks, Destroy(pid)
      PROVE  vm'.short \/ TasksPlaced(vm', tasks', current_task', boot_directory', V)
  BY <1>6, DestroySettles
<1> QED
  BY <1>1, <1>2, <1>3, <1>4, <1>5, <1>6 DEF Next

(* Frames of blocks can be made known.                                     *)
LEMMA MemoryPins ==
  ASSUME NEW m, NEW D, NEW L, NEW R, NEW V, NEW boot, Memory(m, D, L, R, V, boot), NEW S, S \subseteq R
  PROVE  \E W : W.own = V.own /\ DOMAIN W.pins = S /\ Memory(m, D, L, R, W, boot)
<1>1. PICK use, mp : Con(m, use, mp) /\ Layout(use, mp, D, L, R, V, boot)
  BY DEF Memory
<1> DEFINE W == [own |-> V.own, pins |-> [b \in S |-> FrameOf(mp, b)]]
<1>2. W.own = V.own /\ DOMAIN W.pins = S /\ \A b \in S : W.pins[b] = FrameOf(mp, b)
  OBVIOUS
<1> HIDE DEF W
<1>3. Pinned(mp, R, W)
  BY <1>2 DEF Pinned
<1>4. Labelled(use, D, W, boot) /\ OwnMapped(mp, W) /\ NoMore(mp, R, W)
  BY <1>1, <1>2 DEF Layout, Labelled, OwnMapped, NoMore
<1>5. Layout(use, mp, D, L, R, W, boot)
  BY <1>1, <1>3, <1>4 DEF Layout
<1>6. Memory(m, D, L, R, W, boot)
  BY <1>1, <1>5 DEF Memory
<1> QED
  BY <1>2, <1>6

LEMMA PlacedPins ==
  ASSUME NEW m, NEW ts, NEW cur, NEW boot, NEW V, TasksPlaced(m, ts, cur, boot, V),
         NEW S, S \subseteq BlocksOf(ts)
  PROVE  \E W : DOMAIN W.pins = S /\ TasksPlaced(m, ts, cur, boot, W)
<1>1. Settles(m, ts, boot, V) /\ Loads(m, ts, cur)
  BY DEF TasksPlaced
<1>2. PICK W : /\ W.own = V.own /\ DOMAIN W.pins = S
               /\ Memory(m, DirsOf(ts), LowsOf(ts), BlocksOf(ts), W, boot)
  BY <1>1, SettlesWith, MemoryPins
<1>3. OwnAt(W)
  BY <1>1, <1>2 DEF Settles, OwnAt
<1>4. Settles(m, ts, boot, W)
  BY <1>1, <1>2, <1>3 DEF Settles
<1> QED
  BY <1>1, <1>2, <1>4 DEF TasksPlaced

\* The blocks of tasks that are not destroyed.
Staying == UNION {TaskBlocks(pid, tasks[pid]) : pid \in {q \in DOMAIN tasks : ~ Destroy(q)}}

LEMMA StepPlaced ==
  ASSUME Proper, TypeOK, Alive, Safe, ~ vm.short, LastPagesKept, Next
  PROVE  \E V : /\ DOMAIN V.pins = Staying
                /\ TasksPlaced(vm, tasks, current_task, boot_directory, V)
                /\ vm'.short \/ TasksPlaced(vm', tasks', current_task', boot_directory', V)
<1>1. PICK U : TasksPlaced(vm, tasks, current_task, boot_directory, U)
  BY DEF Safe
<1>2. Staying \subseteq BlocksOf(tasks)
  BY TaskOwns DEF Staying
<1>3. PICK V : DOMAIN V.pins = Staying /\ TasksPlaced(vm, tasks, current_task, boot_directory, V)
  BY <1>1, <1>2, PlacedPins
<1>4. ASSUME NEW pid \in DOMAIN tasks, Destroy(pid)
      PROVE  Unpinned(V, pid)
  <2> SUFFICES ASSUME NEW b \in Staying PROVE b.key[1] # pid
    BY <1>3 DEF Unpinned
  <2>1. PICK q \in DOMAIN tasks : ~ Destroy(q) /\ b \in TaskBlocks(q, tasks[q])
    BY DEF Staying
  <2>2. b.key[1] = q
    BY <2>1, BlockKeys
  <2>3. q # pid
    BY <1>4, <2>1
  <2> QED
    BY <2>2, <2>3
<1>5. vm'.short \/ TasksPlaced(vm', tasks', current_task', boot_directory', V)
  BY <1>3, <1>4, NextPlaced
<1> QED
  BY <1>3, <1>5

LEMMA NextSafe ==
  ASSUME Proper, TypeOK, Alive, Safe, vm.short \/ LastPagesKept, Next
  PROVE  Safe'
<1>1. vm' \in Later(vm)
  BY NextTyped
<1>2. CASE vm.short
  BY <1>1, <1>2 DEF Later, Safe
<1>3. CASE ~ vm.short
  BY <1>3, StepPlaced DEF Safe
<1> QED
  BY <1>2, <1>3

(* What the boot process leaves behind.                                    *)
LEMMA PageBelow ==
  ASSUME NEW a \in Nat, NEW f \in Nat
  PROVE  /\ a \div PageSize \in Nat
         /\ f * PageSize <= a <=> f <= a \div PageSize
<1> DEFINE q == a \div PageSize
           r == a % PageSize
<1>1. q \in Nat /\ r \in 0 .. PageSize - 1 /\ a = q * PageSize + r
  BY Quotients
<1> HIDE DEF q, r
<1>2. ASSUME f <= q
      PROVE  f * PageSize <= q * PageSize
  BY <1>1, <1>2
<1>3. ASSUME f >= q + 1
      PROVE  f * PageSize >= (q + 1) * PageSize
  BY <1>1, <1>3
<1>4. (q + 1) * PageSize = q * PageSize + PageSize /\ q * PageSize \in Nat /\ f * PageSize \in Nat
  BY <1>1
<1>5. f <= q \/ f >= q + 1
  BY <1>1
<1> QED
  BY <1>1, <1>2, <1>3, <1>4, <1>5 DEF q

\* The last page of the image.
ImageEnd == pmm_get_page(KernelEnd - 1, 0)
Image == ENTRIES .. ImageEnd

LEMMA MemoryPage ==
  ASSUME NEW a \in Nat, a < MemorySize
  PROVE  pmm_get_page(a, 0) = a \div PageSize
  BY DEF pmm_get_page, MemorySize

LEMMA ImagePlace ==
  /\ ImageEnd \in Page /\ ENTRIES <= ImageEnd /\ ENTRIES \in Page
  /\ FramesOf(ENTRIES * PageSize, KernelEnd - ENTRIES * PageSize) = Image
  /\ \A f \in Nat : pmm_get_address(f) \in ENTRIES * PageSize .. KernelEnd - 1 <=> f \in Image
  /\ KernelEnd - ENTRIES * PageSize # 0
<1> DEFINE B == ENTRIES * PageSize
           K == KernelEnd - 1
<1>1. /\ ENTRIES \in Nat /\ ENTRIES > 3 /\ B \in Nat /\ MemorySize \in Nat
  BY Entries DEF MemorySize
<1>2. KernelEnd \in B + 1 .. MemoryEnd - 1 /\ MemoryEnd \in 1 .. MemorySize
  BY TaskMemoryAssumption
<1>3. ENTRIES \in Page
  <2>1. ENTRIES * 1 < ENTRIES * ENTRIES
    BY <1>1
  <2> QED
    BY <1>1, <2>1, Entries DEF Page
<1>4. pmm_get_address(ENTRIES) = B /\ pmm_get_page(B, 0) = ENTRIES
  BY <1>3, AddressOfPage DEF pmm_get_address
<1> HIDE DEF B
<1>5. K \in Nat /\ K < MemorySize /\ B <= K /\ KernelEnd - B \in Nat \ {0}
  BY <1>1, <1>2
<1>6. ImageEnd = K \div PageSize
  BY <1>5, MemoryPage DEF ImageEnd
<1>7. ImageEnd \in Page
  BY <1>5, PageType DEF ImageEnd
<1> HIDE DEF K
<1>8. \A f \in Nat : f * PageSize <= K <=> f <= ImageEnd
  BY <1>5, <1>6, PageBelow
<1>9. ENTRIES <= ImageEnd
  BY <1>1, <1>4, <1>5, <1>8 DEF pmm_get_address
<1>10. pmm_get_page(B, KernelEnd - B - 1) = ImageEnd
  <2>1. B + (KernelEnd - B - 1) = K + 0
    BY <1>1, <1>2, <1>5 DEF K
  <2> QED
    BY <2>1 DEF pmm_get_page, ImageEnd, K
<1>11. FramesOf(B, KernelEnd - B) = Image
  BY <1>4, <1>10 DEF FramesOf, Image
<1>12. ASSUME NEW f \in Nat
       PROVE  pmm_get_address(f) \in B .. KernelEnd - 1 <=> f \in Image
  <2>1. ENTRIES <= f <=> ENTRIES * PageSize <= f * PageSize
    <3>1. ENTRIES <= f => ENTRIES * PageSize <= f * PageSize
      BY <1>1
    <3>2. f + 1 <= ENTRIES => (f + 1) * PageSize <= ENTRIES * PageSize
      BY <1>1
    <3>3. (f + 1) * PageSize = f * PageSize + PageSize /\ f * PageSize \in Nat /\ ENTRIES * PageSize \in Nat
      BY <1>1
    <3> QED
      BY <1>1, <3>1, <3>2, <3>3
  <2>2. f * PageSize \in Nat
    OBVIOUS
  <2>3. f * PageSize <= K <=> f <= ImageEnd
    BY <1>8
  <2> QED
    BY <1>1, <1>5, <1>7, <2>1, <2>2, <2>3 DEF pmm_get_address, Image, B, K, Page
<1> QED
  BY <1>3, <1>5, <1>7, <1>9, <1>11, <1>12 DEF B

LEMMA ImageTables ==
  ASSUME NEW f \in Image
  PROVE  f \in Page /\ T(f) \in KernelTables /\ f \in DomainPages("KERNEL") /\ f # 0
<1>1. ImageEnd \in Page /\ ENTRIES <= ImageEnd /\ ENTRIES \in Nat /\ ENTRIES > 3
  BY ImagePlace, Entries
<1>2. f \in Page /\ f >= ENTRIES
  BY <1>1 DEF Image, Page
<1>3. T(f) \in Index /\ I(f) \in Index /\ f = T(f) * ENTRIES + I(f)
  BY <1>2, PlaceOfPage DEF PageAt
<1>4. FirstUser \in 2 .. ENTRIES - 2 /\ KernelTables = 1 .. FirstUser - 1
      /\ UserStart = pmm_get_address(FirstUser * ENTRIES)
  BY Domains
<1>5. T(f) # 0
  BY <1>1, <1>2, <1>3 DEF Index
<1>6. T(f) < FirstUser
  <2>1. pmm_get_address(f) <= KernelEnd - 1 /\ KernelEnd <= UserStart /\ KernelEnd \in Nat
    <3>1. f \in Nat
      BY <1>2 DEF Page
    <3>2. pmm_get_address(f) \in ENTRIES * PageSize .. KernelEnd - 1
      BY <3>1, ImagePlace
    <3>3. KernelEnd \in Nat /\ KernelEnd <= UserStart
      BY <1>1, TaskMemoryAssumption
    <3> QED
      BY <3>2, <3>3
  <2> DEFINE F == FirstUser * ENTRIES
  <2>2. F \in Nat /\ f \in Nat
    BY <1>1, <1>2, <1>4 DEF Page
  <2>3. f * PageSize < F * PageSize
    BY <1>4, <2>1, <2>2 DEF pmm_get_address
  <2>4. f < F
    <3> HIDE DEF F
    <3>1. F <= f => F * PageSize <= f * PageSize
      BY <2>2
    <3>2. F * PageSize \in Nat /\ f * PageSize \in Nat
      BY <2>2
    <3> QED
      BY <2>2, <2>3, <3>1, <3>2
  <2>5. FirstUser <= T(f) => FirstUser * ENTRIES <= T(f) * ENTRIES
    BY <1>1, <1>3, <1>4 DEF Index
  <2>6. T(f) * ENTRIES \in Nat /\ T(f) \in Nat /\ I(f) \in Nat
    BY <1>1, <1>3 DEF Index
  <2> QED
    BY <1>3, <1>4, <2>2, <2>4, <2>5, <2>6
<1>7. T(f) \in KernelTables
  BY <1>1, <1>3, <1>4, <1>5, <1>6 DEF Index
<1> QED
  BY <1>1, <1>2, <1>7 DEF DomainPages, T

(* The frames of the video memory.                                         *)
VideoFrames == VideoPage .. VideoPage + PagesFor(VideoLength) - 1

LEMMA VideoFramesPlace ==
  /\ VideoPage \in Page /\ VideoPage # 0 /\ Video = pmm_get_address(VideoPage)
  /\ VideoLength \in Nat \ {0} /\ VideoPage + PagesFor(VideoLength) <= PageNumber
  /\ PagesFor(VideoLength) \in Nat \ {0}
  /\ FramesOf(Video, VideoLength) = VideoFrames
  /\ \A f \in VideoFrames : f \in Page /\ f * PageSize < LowerMemory
<1>1. /\ Video \in Nat /\ Video % PageSize = 0 /\ Video >= PageSize
      /\ VideoLength \in Nat \ {0} /\ Video + VideoLength <= LowerMemory
      /\ LowerMemory \in Nat \ {0}
  BY LowSizes, TaskMemoryAssumption
<1>2. ENTRIES \in Nat /\ ENTRIES > 3 /\ PageNumber = ENTRIES * ENTRIES /\ MemorySize \in Nat
  BY Entries DEF MemorySize
<1>3. VideoPage \in Page /\ VideoPage > 0 /\ VideoPage \in Nat /\ VideoPage # 0
  BY VideoPlace DEF Page
<1>4. Video < MemorySize
  <2>1. LowerMemory <= (ENTRIES - 1) * PageSize
    BY <1>2, TaskMemoryAssumption
  <2>2. (ENTRIES - 1) * PageSize <= PageNumber * PageSize
    <3>1. ENTRIES - 1 <= PageNumber
      <4>1. ENTRIES * 1 <= ENTRIES * ENTRIES
        BY <1>2
      <4> QED
        BY <1>2, <4>1
    <3>2. PageNumber \in Nat /\ ENTRIES - 1 \in Nat
      BY <1>2
    <3> QED
      BY <3>1, <3>2
  <2>3. (ENTRIES - 1) * PageSize \in Nat
    BY <1>2
  <2> QED
    BY <1>1, <2>1, <2>2, <2>3 DEF MemorySize
<1>5. Video = VideoPage * PageSize
  <2>1. VideoPage = Video \div PageSize
    BY <1>1, <1>4, MemoryPage DEF VideoPage
  <2> QED
    BY <1>1, <2>1, Quotients
<1> DEFINE n == PagesFor(VideoLength)
<1>6. n \in Nat \ {0} /\ (VideoLength - 1) \div PageSize = n - 1
  BY <1>1, PagesForType, RoundUp
<1> HIDE DEF n
<1>7. ASSUME NEW f \in VideoFrames
      PROVE  f \in Nat /\ f * PageSize < LowerMemory
  <2>1. f \in Int /\ VideoPage <= f /\ f <= VideoPage + n - 1
    BY <1>3, <1>6, <1>7 DEF VideoFrames, n
  <2>2. f \in Nat /\ f - VideoPage \in Nat /\ f - VideoPage <= n - 1
    BY <1>3, <1>6, <2>1
  <2>3. (f - VideoPage) * PageSize <= VideoLength - 1
    BY <1>1, <1>6, <2>2, PageBelow
  <2>4. f * PageSize = (f - VideoPage) * PageSize + VideoPage * PageSize
    BY <1>3, <2>2
  <2>5. (f - VideoPage) * PageSize \in Nat
    BY <2>2
  <2> QED
    BY <1>1, <1>5, <2>2, <2>3, <2>4, <2>5
<1>8. VideoPage + n <= PageNumber
  <2>1. VideoPage + n - 1 \in VideoFrames
    BY <1>3, <1>6 DEF VideoFrames, n
  <2> DEFINE f == VideoPage + n - 1
  <2>2. f \in Nat /\ f * PageSize < LowerMemory
    BY <1>7, <2>1
  <2>3. LowerMemory <= (ENTRIES - 1) * PageSize
    BY <1>2, TaskMemoryAssumption
  <2>4. f < ENTRIES - 1
    <3> HIDE DEF f
    <3>1. ENTRIES - 1 <= f => (ENTRIES - 1) * PageSize <= f * PageSize
      BY <1>2, <2>2
    <3>2. (ENTRIES - 1) * PageSize \in Nat /\ f * PageSize \in Nat
      BY <1>2, <2>2
    <3> QED
      BY <1>1, <1>2, <2>2, <2>3, <3>1, <3>2
  <2>5. ENTRIES * 1 <= ENTRIES * ENTRIES
    BY <1>2
  <2> QED
    BY <1>2, <1>3, <1>6, <2>4, <2>5
<1>9. \A f \in VideoFrames : f \in Page
  BY <1>2, <1>3, <1>6, <1>8 DEF VideoFrames, Page, n
<1>10. FramesOf(Video, VideoLength) = VideoFrames
  BY <1>1, <1>3, <1>5, <1>8, AlignedRange DEF pmm_get_address, VideoFrames, n
<1> QED
  BY <1>1, <1>3, <1>5, <1>6, <1>7, <1>8, <1>9, <1>10 DEF pmm_get_address, n

LEMMA BootBitmapAt ==
  /\ BootBitmap \in Bitmap
  /\ \A f \in Page : /\ BootBitmap[f] = "KERNEL" <=> f \in Image
                     /\ BootBitmap[f] # "USER"
                     /\ f * PageSize < LowerMemory => BootBitmap[f] = "RESERVED"
                     /\ LowerMemory <= f * PageSize /\ f < ENTRIES => BootBitmap[f] = "UNUSED"
<1> DEFINE B == ENTRIES * PageSize
<1>1. /\ ENTRIES \in Nat /\ ENTRIES > 3 /\ B \in Nat /\ MemorySize \in Nat
  BY Entries DEF MemorySize
<1>2. /\ KernelEnd \in B + 1 .. MemoryEnd - 1 /\ MemoryEnd \in 1 .. MemorySize
      /\ LowerMemory \in Nat \ {0}
  BY LowSizes, TaskMemoryAssumption
<1>3. LowerMemory <= B
  <2>1. LowerMemory <= (ENTRIES - 1) * PageSize
    BY <1>1, TaskMemoryAssumption
  <2>2. (ENTRIES - 1) * PageSize + PageSize = B /\ (ENTRIES - 1) * PageSize \in Nat
    BY <1>1
  <2> QED
    BY <1>1, <1>2, <2>1, <2>2
<1>4. ASSUME NEW f \in Page
      PROVE  /\ f \in Nat /\ f * PageSize \in Nat
             /\ f * PageSize \in B .. KernelEnd - 1 <=> f \in Image
             /\ f < ENTRIES => f * PageSize <= B - 1
  <2>1. f \in Nat
    BY DEF Page
  <2>2. f + 1 <= ENTRIES => (f + 1) * PageSize <= ENTRIES * PageSize
    BY <1>1, <2>1
  <2>3. (f + 1) * PageSize = f * PageSize + PageSize /\ f * PageSize \in Nat
    BY <2>1
  <2> QED
    BY <1>1, <2>1, <2>2, <2>3, ImagePlace DEF pmm_get_address
<1> HIDE DEF B
<1>5. ASSUME NEW f \in Page
      PROVE  /\ BootBitmap[f] \in Flags
             /\ BootBitmap[f] = "KERNEL" <=> f * PageSize \in B .. KernelEnd - 1
             /\ BootBitmap[f] # "USER"
             /\ f * PageSize < LowerMemory => BootBitmap[f] = "RESERVED"
             /\ LowerMemory <= f * PageSize /\ f * PageSize <= B - 1 => BootBitmap[f] = "UNUSED"
  <2> DEFINE a == f * PageSize
  <2>1. a \in Nat
    BY <1>4
  <2>2. BootBitmap[f] = CASE a < LowerMemory -> "RESERVED"
      [] a \in LowerMemory .. B - 1 -> "UNUSED"
      [] a \in B .. KernelEnd - 1 -> "KERNEL"
      [] a \in KernelEnd .. MemoryEnd - PageSize -> "UNUSED"
      [] OTHER -> "RESERVED"
    BY DEF BootBitmap, pmm_get_address, B
  <2> HIDE DEF a
  <2>3. CASE a < LowerMemory
    BY <1>1, <1>2, <1>3, <2>1, <2>2, <2>3 DEF Flags, a
  <2>4. CASE a \in LowerMemory .. B - 1
    BY <1>1, <1>2, <1>3, <2>1, <2>2, <2>4 DEF Flags, a
  <2>5. CASE a \in B .. KernelEnd - 1
    BY <1>1, <1>2, <1>3, <2>1, <2>2, <2>5 DEF Flags, a
  <2>6. CASE a \in KernelEnd .. MemoryEnd - PageSize
    BY <1>1, <1>2, <1>3, <2>1, <2>2, <2>6 DEF Flags, a
  <2>7. CASE /\ ~ (a < LowerMemory) /\ a \notin LowerMemory .. B - 1
             /\ a \notin B .. KernelEnd - 1 /\ a \notin KernelEnd .. MemoryEnd - PageSize
    BY <1>1, <1>2, <1>3, <2>1, <2>2, <2>7 DEF Flags, a
  <2> QED
    BY <2>3, <2>4, <2>5, <2>6, <2>7
<1>6. BootBitmap \in Bitmap
  BY <1>5 DEF Bitmap, BootBitmap
<1> QED
  BY <1>4, <1>5, <1>6

LEMMA BootTyped ==
  /\ BootMemory \in MemoryState /\ BootMemory.bitmap = BootBitmap /\ LowIntact(BootMemory)
  /\ BootMemory.old_directory = 0 /\ ~ BootMemory.paging /\ ~ BootMemory.fault
  /\ ~ BootMemory.domain_check_enabled /\ ~ BootMemory.short
  /\ BootMemory.tables = [p \in Page |-> EmptyTable]
<1>1. BootMemory \in MemoryState
  <2>1. EmptyTable \in [Index -> Entry] /\ 0 \in Page /\ BootBitmap \in Bitmap
    BY AbsentTyped, BootBitmapAt
  <2>2. [p \in Page |-> EmptyTable] \in [Page -> [Index -> Entry]]
    BY <2>1
  <2> HIDE DEF EmptyTable
  <2> QED
    BY <2>1, <2>2 DEF BootMemory, MemoryState
<1>2. ASSUME NEW f \in Page, f < VideoPage
      PROVE  BootBitmap[f] = "RESERVED"
  <2>1. /\ Video = VideoPage * PageSize /\ VideoPage \in Page
    BY VideoFramesPlace DEF pmm_get_address
  <2>2. Video \in Nat /\ LowerMemory \in Nat /\ VideoLength \in Nat /\ Video + VideoLength <= LowerMemory
    BY LowSizes, TaskMemoryAssumption
  <2>3. f \in Nat /\ VideoPage \in Nat
    BY <2>1 DEF Page
  <2>4. f * PageSize < VideoPage * PageSize
    <3>1. (f + 1) * PageSize <= VideoPage * PageSize
      BY <1>2, <2>3
    <3>2. (f + 1) * PageSize = f * PageSize + PageSize /\ f * PageSize \in Nat
      BY <2>3
    <3> QED
      BY <2>1, <2>2, <3>1, <3>2
  <2>5. f * PageSize < LowerMemory
    BY <2>1, <2>2, <2>3, <2>4
  <2> QED
    BY <2>5, BootBitmapAt
<1>3. BootMemory.bitmap = BootBitmap
  BY DEF BootMemory
<1>4. LowIntact(BootMemory)
  BY <1>2, <1>3 DEF LowIntact
<1> QED
  BY <1>1, <1>3, <1>4 DEF BootMemory

(* The first directory is created while paging is off.                     *)
LEMMA BootFrame ==
  LET a == pmm_alloc(BootMemory, PageSize, "KERNEL")
  IN  \E s \in Page : FoundAt(BootMemory, a, s, 1, "KERNEL") /\ s < ENTRIES
<1> DEFINE a == pmm_alloc(BootMemory, PageSize, "KERNEL")
<1>1. /\ BootMemory \in MemoryState /\ BootMemory.bitmap = BootBitmap /\ LowIntact(BootMemory)
  BY BootTyped
<1>2. PageSize \in Nat \ {0} /\ PagesFor(PageSize) = 1 /\ "KERNEL" \in Flags
  BY OnePage DEF Flags
<1>3. ENTRIES \in Nat /\ ENTRIES > 3 /\ ENTRIES \in Page /\ LowerMemory \in Nat \ {0}
      /\ LowerMemory <= (ENTRIES - 1) * PageSize
  BY Entries, ImagePlace, LowSizes, TaskMemoryAssumption
<1>4. ENTRIES - 1 \in Fits(BootBitmap, 1)
  <2>1. ENTRIES - 1 \in Page /\ ENTRIES - 1 + 1 <= PageNumber
    BY <1>3 DEF Page
  <2>2. BootBitmap[ENTRIES - 1] = "UNUSED"
    BY <1>3, <2>1, BootBitmapAt
  <2>3. \A i \in ENTRIES - 1 .. ENTRIES - 1 + 1 - 1 : i = ENTRIES - 1
    BY <1>3
  <2> QED
    BY <2>1, <2>2, <2>3 DEF Fits
<1>5. /\ FirstFit(BootBitmap, 1) \in Page /\ FirstFit(BootBitmap, 1) <= ENTRIES - 1
      /\ BootBitmap[FirstFit(BootBitmap, 1)] = "UNUSED"
  <2>1. /\ FirstFit(BootBitmap, 1) \in Page
        /\ \A i \in FirstFit(BootBitmap, 1) .. FirstFit(BootBitmap, 1) + 1 - 1 : BootBitmap[i] = "UNUSED"
        /\ \A s \in Fits(BootBitmap, 1) : FirstFit(BootBitmap, 1) <= s
    <3>1. Fits(BootBitmap, 1) # {} /\ 1 \in Nat
      BY <1>4
    <3> QED
      BY <3>1, FirstFitFound
  <2>2. FirstFit(BootBitmap, 1) \in FirstFit(BootBitmap, 1) .. FirstFit(BootBitmap, 1) + 1 - 1
    BY <2>1 DEF Page
  <2> QED
    BY <1>4, <2>1, <2>2
<1>6. FirstFit(BootBitmap, 1) # 0
  <2>1. 0 \in Page /\ 0 * PageSize < LowerMemory
    BY <1>3, AbsentTyped
  <2> QED
    BY <1>5, <2>1, BootBitmapAt
<1>7. a.ptr = pmm_get_address(FirstFit(BootBitmap, 1))
  <2>1. pmm_find_free(BootBitmap, PageSize) = pmm_get_address(FirstFit(BootBitmap, 1))
    BY <1>2, <1>4 DEF pmm_find_free
  <2> QED
    BY <1>1, <2>1 DEF pmm_alloc, AllocAt, Result
<1>8. a.ptr # 0
  BY <1>5, <1>6, <1>7, AddressOfPage
<1>9. PICK s \in Page : FoundAt(BootMemory, a, s, PagesFor(PageSize), "KERNEL")
  BY <1>1, <1>2, <1>8, AllocFound
<1>10. a.ptr = pmm_get_address(s)
  BY <1>9 DEF FoundAt
<1>11. s = FirstFit(BootBitmap, 1)
  BY <1>5, <1>7, <1>10, AddressOfPage
<1>12. s < ENTRIES
  BY <1>3, <1>5, <1>11 DEF Page
<1> QED
  BY <1>2, <1>9, <1>12

\* What frames are used for then: nothing is mapped.
BootUse(s) == [f \in Page |-> IF f = s THEN Boot ELSE IF f \in Image THEN Fixed ELSE Free]
Unmapped == [h \in Home |-> [p \in Page |-> Hole]]
BootStart ==
  LET dir == vmm_create_page_directory(BootMemory)
  IN  [dir.m EXCEPT !.page_directory = pmm_get_page(dir.ptr, 0)]
BootAt(m, s) ==
  /\ m \in MemoryState /\ s \in Page /\ s # 0 /\ s < ENTRIES
  /\ m.page_directory = s /\ m.old_directory = 0
  /\ ~ m.paging /\ ~ m.fault /\ ~ m.domain_check_enabled /\ ~ m.short

LEMMA BootCreated ==
  \E s \in Page :
    /\ vmm_create_page_directory(BootMemory).ptr = pmm_get_address(s)
    /\ BootAt(BootStart, s)
    /\ \A f \in Page : BootStart.bitmap[f] = IF f = s THEN "KERNEL" ELSE BootBitmap[f]
    /\ BootStart.tables = [[p \in Page |-> EmptyTable] EXCEPT ![s] = NewRow(s)]
    /\ LowIntact(BootStart) /\ BootBitmap[s] = "UNUSED"
<1> DEFINE a == pmm_alloc(BootMemory, PageSize, "KERNEL")
<1>1. PICK s \in Page : FoundAt(BootMemory, a, s, 1, "KERNEL") /\ s < ENTRIES
  BY BootFrame
<1>2. /\ BootMemory \in MemoryState /\ LowIntact(BootMemory) /\ "KERNEL" \in Flags
      /\ BootMemory.bitmap = BootBitmap
  BY BootTyped DEF Flags
<1>3. /\ a.m \in Quiet(BootMemory) /\ a.m.tables = BootMemory.tables /\ LowIntact(a.m)
      /\ a.m.short = BootMemory.short
      /\ \A f \in Page : a.m.bitmap[f] = IF f \in s .. s + 1 - 1 THEN "KERNEL" ELSE BootBitmap[f]
  BY <1>1, <1>2, FoundState
<1>4. s # 0 /\ a.ptr = pmm_get_address(s) /\ BootBitmap[s] = "UNUSED"
  <2>1. s # 0 /\ a.ptr = pmm_get_address(s) /\ \A i \in s .. s + 1 - 1 : BootMemory.bitmap[i] = "UNUSED"
    BY <1>1 DEF FoundAt
  <2>2. s \in s .. s + 1 - 1
    BY DEF Page
  <2> QED
    BY <1>2, <2>1, <2>2
<1> HIDE DEF a
<1>5. /\ a.m \in MemoryState /\ ~ a.m.paging /\ ~ a.m.fault /\ ~ a.m.domain_check_enabled
      /\ a.m.old_directory = 0 /\ ~ a.m.short
  BY <1>2, <1>3, BootTyped, QuietLater DEF Quiet
<1>6. vmm_map_physical_memory(a.m, a.ptr, PageSize, "KERNEL") = Result(a.m, a.ptr)
  BY <1>5 DEF vmm_map_physical_memory
<1>7. pmm_get_page(a.ptr, 0) = s
  BY <1>4, AddressOfPage
<1> DEFINE row == [i \in Index |-> IF i \in Index THEN NewRow(s)[i] ELSE a.m.tables[s][i]]
           w == [a.m EXCEPT !.tables[s] = row]
<1>8. row = NewRow(s) /\ NewRow(s) \in [Index -> Entry]
  <2>1. NewRow(s) \in [Index -> Entry]
    BY NewRowTyped
  <2> QED
    BY <2>1
<1>9. WriteDirectory(Result(a.m, a.ptr), Index, NewRow(s)) = w
  <2> DEFINE d == Result(a.m, a.ptr)
  <2>1. d.m = a.m /\ d.ptr = a.ptr
    BY DEF Result
  <2> HIDE DEF d
  <2>2. Access(d.m, d.ptr) = a.m /\ ~ a.m.fault
    BY <1>5, <2>1 DEF Access
  <2>3. SeenAt(d.m, d.ptr) = s
    BY <1>5, <1>7, <2>1 DEF SeenAt
  <2>4. WriteDirectory(d, Index, NewRow(s))
        = vmm_unmap_physical_memory(
            [a.m EXCEPT !.tables[s] = [i \in Index |-> IF i \in Index THEN NewRow(s)[i] ELSE @[i]]],
            a.ptr, PageSize)
    BY <2>1, <2>2, <2>3 DEF WriteDirectory
  <2>5. [a.m EXCEPT !.tables[s] = [i \in Index |-> IF i \in Index THEN NewRow(s)[i] ELSE @[i]]] = w
    BY <1>5 DEF MemoryState
  <2>6. ~ w.paging
    BY <1>5 DEF MemoryState
  <2> HIDE DEF w
  <2>7. vmm_unmap_physical_memory(w, a.ptr, PageSize) = w
    BY <2>6 DEF vmm_unmap_physical_memory
  <2> QED
    BY <2>4, <2>5, <2>7 DEF d
<1> HIDE DEF row
<1>10. vmm_create_page_directory(BootMemory) = Result(w, a.ptr)
  <2>1. vmm_create_page_directory(BootMemory) = CreatedIn(a)
    BY DEF vmm_create_page_directory, a
  <2>2. CreatedIn(a) = Result(WriteDirectory(Result(a.m, a.ptr), Index, NewRow(s)), a.ptr)
    BY <1>6, <1>7 DEF CreatedIn, NewRow
  <2> QED
    BY <1>9, <2>1, <2>2
<1> HIDE DEF w
<1>11. BootStart = [w EXCEPT !.page_directory = s]
  <2>1. /\ vmm_create_page_directory(BootMemory).m = w
        /\ vmm_create_page_directory(BootMemory).ptr = a.ptr
    BY <1>10 DEF Result
  <2>2. BootStart = [vmm_create_page_directory(BootMemory).m EXCEPT
                       !.page_directory = pmm_get_page(vmm_create_page_directory(BootMemory).ptr, 0)]
    BY DEF BootStart
  <2> QED
    BY <1>7, <2>1, <2>2
<1>12. a.m.tables = [p \in Page |-> EmptyTable]
  BY <1>3, BootTyped
<1>13. w \in MemoryState
  BY <1>5, <1>8, RowTyped, QuietLater DEF w
<1>14. BootAt(BootStart, s)
  BY <1>1, <1>4, <1>5, <1>11, <1>13 DEF BootAt, MemoryState, w
<1>15. BootStart.bitmap = a.m.bitmap
  BY <1>5, <1>11, <1>13 DEF MemoryState, w
<1>16. \A f \in Page : BootStart.bitmap[f] = IF f = s THEN "KERNEL" ELSE BootBitmap[f]
  <2>1. \A f \in Page : f \in s .. s + 1 - 1 <=> f = s
    BY DEF Page
  <2> QED
    BY <1>3, <1>15, <2>1
<1>17. BootStart.tables = [[p \in Page |-> EmptyTable] EXCEPT ![s] = NewRow(s)]
  <2>1. BootStart.tables = w.tables
    BY <1>11, <1>13 DEF MemoryState
  <2>2. w.tables = [a.m.tables EXCEPT ![s] = row]
    BY <1>5 DEF MemoryState, w
  <2> QED
    BY <1>8, <1>12, <2>1, <2>2
<1>18. LowIntact(BootStart)
  BY <1>3, <1>15 DEF LowIntact
<1>19. vmm_create_page_directory(BootMemory).ptr = pmm_get_address(s)
  BY <1>4, <1>10 DEF Result
<1> QED
  BY <1>4, <1>14, <1>16, <1>17, <1>18, <1>19

LEMMA BootCon ==
  \E s \in Page :
    /\ vmm_create_page_directory(BootMemory).ptr = pmm_get_address(s)
    /\ BootAt(BootStart, s) /\ s \notin Image /\ HighestKernelPage(BootStart) = ImageEnd
    /\ Con(BootStart, BootUse(s), Unmapped)
    /\ \A f \in Page : BootBitmap[f] = "RESERVED" => BootStart.bitmap[f] = "RESERVED"
<1> DEFINE m == BootStart
<1>1. PICK s \in Page :
        /\ vmm_create_page_directory(BootMemory).ptr = pmm_get_address(s)
        /\ BootAt(m, s)
        /\ \A f \in Page : m.bitmap[f] = IF f = s THEN "KERNEL" ELSE BootBitmap[f]
        /\ m.tables = [[p \in Page |-> EmptyTable] EXCEPT ![s] = NewRow(s)]
        /\ LowIntact(m) /\ BootBitmap[s] = "UNUSED"
  BY BootCreated
<1> HIDE DEF m
<1>2. m \in MemoryState /\ s < ENTRIES /\ m.page_directory = s
  BY <1>1 DEF BootAt
<1>3. s \notin Image /\ ENTRIES \in Nat
  BY <1>2, Entries DEF Image
<1>4. \A f \in Page : BootBitmap[f] = "KERNEL" <=> f \in Image
  BY BootBitmapAt
<1>5. HighestKernelPage(m) = ImageEnd
  <2> DEFINE High(p) == m.bitmap[p] = "KERNEL" /\ \A q \in Page : m.bitmap[q] = "KERNEL" => q <= p
  <2>1. /\ ImageEnd \in Page /\ ENTRIES <= ImageEnd /\ ENTRIES \in Page
        /\ Page \subseteq Nat
    BY ImagePlace DEF Page
  <2>2. \A q \in Page : m.bitmap[q] = "KERNEL" <=> q = s \/ q \in Image
    BY <1>1, <1>4
  <2>3. ImageEnd \in Image
    BY <2>1 DEF Image
  <2>4. \A q \in Page : q \in Image => q <= ImageEnd
    BY <2>1 DEF Image
  <2>5. s <= ImageEnd
    BY <1>2, <2>1
  <2>6. High(ImageEnd)
    BY <2>1, <2>2, <2>3, <2>4, <2>5
  <2>7. \A p \in Page : High(p) => p = ImageEnd
    <3>1. SUFFICES ASSUME NEW p \in Page, High(p)
                   PROVE  p = ImageEnd
      OBVIOUS
    <3>2. ImageEnd <= p /\ p <= ImageEnd
      BY <2>1, <2>6, <3>1
    <3> QED
      BY <2>1, <3>2
  <2> HIDE DEF High
  <2>8. (CHOOSE p \in Page : High(p)) = ImageEnd
    BY <2>1, <2>6, <2>7
  <2> QED
    BY <2>8 DEF HighestKernelPage, High
<1> DEFINE own == BootUse(s)
<1>6. \A f \in Page : own[f] = IF f = s THEN Boot ELSE IF f \in Image THEN Fixed ELSE Free
  BY DEF BootUse
<1> HIDE DEF own
<1>7. \A f \in Page : own[f] \in {Free, Fixed, Boot} /\ (own[f] = Boot <=> f = s)
  BY <1>6, Labels
<1>8. \A f \in Page : ~ IsTab(own[f]) /\ (\A h, t : own[f] # Tab(h, t)) /\ Plain(own[f]) = own[f]
  BY <1>7, Labels
<1>9. Marked(m, own)
  <2>1. ASSUME NEW f \in Page
        PROVE  own[f] # Free <=> m.bitmap[f] \in {"KERNEL", "USER"}
    BY <1>1, <1>3, <1>4, <1>6, Labels, BootBitmapAt
  <2> QED
    BY <1>8, <2>1 DEF Marked
<1>10. Rows(m, own)
  <2>1. SUFFICES ASSUME NEW d \in Page, IsDir(own, d), NEW t \in Index
                 PROVE  EntryFits(own, d, t, m.tables[d][t])
    BY DEF Rows
  <2>2. d = s
    BY <1>7, <2>1, Labels DEF IsDir
  <2>3. m.tables[s] = NewRow(s)
    BY <1>1
  <2> QED
    BY <2>2, <2>3, NewRowTyped DEF EntryFits
<1>11. Referred(m, own) /\ Shown(m, own, Unmapped)
  BY <1>8 DEF Referred, Shown
<1>12. \A h \in Home, p \in Page : Unmapped[h][p] = Hole
  BY DEF Unmapped
<1>13. Covered(own, Unmapped)
  BY <1>12 DEF Covered
<1>14. MapTypes(Unmapped)
  BY <1>12 DEF MapTypes, Hole
<1>15. IsDir(own, m.page_directory)
  BY <1>2, <1>7 DEF IsDir
<1>16. Raw(m, own, Unmapped)
  BY <1>1, <1>2, <1>9, <1>10, <1>11, <1>13, <1>14, <1>15 DEF Raw
<1>17. Con(m, own, Unmapped)
  BY <1>8, <1>16 DEF Con
<1>18. \A f \in Page : BootBitmap[f] = "RESERVED" => m.bitmap[f] = "RESERVED"
  BY <1>1
<1> QED
  BY <1>1, <1>3, <1>5, <1>17, <1>18 DEF own, m

(* Frames that are reserved stay so while pages are mapped.                *)
KeepsReserved(m, n) == \A f \in Page : m.bitmap[f] = "RESERVED" => n.bitmap[f] = "RESERVED"

LEMMA AllocReserved ==
  ASSUME NEW m \in MemoryState, LowIntact(m), NEW len \in Nat \ {0}, NEW flags \in Flags
  PROVE  KeepsReserved(m, pmm_alloc(m, len, flags).m)
<1> DEFINE a == pmm_alloc(m, len, flags)
<1>1. CASE a.ptr = 0
  <2>1. pmm_find_free(m.bitmap, len) = 0
    BY <1>1 DEF pmm_alloc, AllocAt, Result
  <2>2. a.m = Short(m)
    BY <2>1 DEF pmm_alloc, AllocAt, Result
  <2>3. a.m.bitmap = m.bitmap
    BY <2>2 DEF Short, MemoryState
  <2> QED
    BY <2>3 DEF KeepsReserved
<1>2. CASE a.ptr # 0
  <2>1. PICK s \in Page : FoundAt(m, a, s, PagesFor(len), flags)
    BY <1>2, AllocFound
  <2>2. \A f \in Page : a.m.bitmap[f] = IF f \in s .. s + PagesFor(len) - 1 THEN flags ELSE m.bitmap[f]
    BY <2>1, FoundState
  <2>3. \A i \in s .. s + PagesFor(len) - 1 : m.bitmap[i] = "UNUSED"
    BY <2>1 DEF FoundAt
  <2> QED
    BY <2>2, <2>3 DEF KeepsReserved
<1> QED
  BY <1>1, <1>2

LEMMA MapReserved ==
  ASSUME NEW m, NEW use, NEW mp, Con(m, use, mp), NEW p \in Page, NEW f \in Page, NEW flags
  PROVE  KeepsReserved(m, vmm_map(m, pmm_get_address(p), pmm_get_address(f), flags))
<1>1. m \in MemoryState /\ LowIntact(m)
  BY DEF Con, Raw
<1> DEFINE v == pmm_get_address(p)
           t == TableOf(v)
           w == WithTable(m, t)
           e == [pr |-> TRUE, user |-> flags = "USER", page |-> pmm_get_page(pmm_get_address(f), 0)]
<1>2. t \in Index
  BY AddressOfPage, PlaceOfPage
<1>3. w \in MemoryState
  BY <1>1, <1>2, WithTableTyped, QuietLater
<1>4. KeepsReserved(m, w)
  <2> DEFINE a == pmm_alloc(m, PageSize, "KERNEL")
  <2>1. CASE Dir(m)[t].pr
    BY <2>1 DEF WithTable, KeepsReserved
  <2>2. CASE ~ Dir(m)[t].pr
    <3>1. w = AddTable(a, t)
      BY <2>2 DEF WithTable
    <3>2. PageSize \in Nat \ {0} /\ "KERNEL" \in Flags
      BY DEF Flags
    <3>3. KeepsReserved(m, a.m) /\ a.m \in MemoryState
      BY <1>1, <3>2, AllocReserved, AllocTyped, QuietLater
    <3> HIDE DEF a
    <3>4. AddTable(a, t).bitmap = a.m.bitmap
      BY <3>3 DEF AddTable, MemoryState
    <3> QED
      BY <3>1, <3>3, <3>4 DEF KeepsReserved
  <2> QED
    BY <2>1, <2>2
<1> HIDE DEF w
<1>5. SetEntry(w, v, e).bitmap = w.bitmap
  BY <1>3 DEF SetEntry, MemoryState
<1>6. vmm_map(m, v, pmm_get_address(f), flags) \in {m, w, SetEntry(w, v, e)}
  BY DEF vmm_map, Enter, w
<1> HIDE DEF v, e
<1>7. \A n \in {m, w, SetEntry(w, v, e)} : KeepsReserved(m, n)
  BY <1>4, <1>5 DEF KeepsReserved
<1> QED
  BY <1>6, <1>7 DEF v

(* The image is mapped to the same frames.                                 *)
IdentityUpTo(mp, s, k) ==
  \A h \in Home, p \in Page :
    /\ T(p) # 0 => mp[h][p] = IF h = Kernel /\ p \in Image /\ p < k THEN p ELSE Hole
    /\ T(p) = 0 /\ (h # s \/ p >= k) => mp[h][p] = Hole

IdentityGood(n, s, k) ==
  \/ n.short
  \/ /\ \E mp : Con(n, BootUse(s), mp) /\ IdentityUpTo(mp, s, k)
     /\ \A f \in Page : BootBitmap[f] = "RESERVED" => n.bitmap[f] = "RESERVED"

\* The pages up to the end of the image lie in table 0 or belong to the image.
LEMMA BelowImage ==
  ASSUME NEW k \in Nat, k <= ImageEnd
  PROVE  k \in Page /\ (T(k) # 0 <=> k \in Image) /\ T(k) # LastEntry
<1>1. ImageEnd \in Page /\ ENTRIES <= ImageEnd /\ ENTRIES \in Nat /\ ENTRIES > 3
  BY ImagePlace, Entries
<1>2. k \in Page
  BY <1>1 DEF Page
<1>3. T(k) \in Index /\ I(k) \in Index /\ k = T(k) * ENTRIES + I(k)
  BY <1>2, PlaceOfPage DEF PageAt
<1>4. CASE k \in Image
  BY <1>2, <1>4, ImageTables, Indices
<1>5. CASE k \notin Image
  <2>1. k < ENTRIES
    BY <1>1, <1>5 DEF Image
  <2>2. T(k) = 0
    <3>1. T(k) >= 1 => T(k) * ENTRIES >= 1 * ENTRIES
      BY <1>1, <1>3 DEF Index
    <3>2. T(k) \in Nat /\ I(k) \in Nat /\ T(k) * ENTRIES \in Nat
      BY <1>1, <1>3 DEF Index
    <3> QED
      BY <1>1, <1>3, <2>1, <3>1, <3>2
  <2> QED
    BY <1>2, <1>5, <2>2, Indices
<1> QED
  BY <1>4, <1>5

LEMMA ConMarked ==
  ASSUME NEW m, NEW use, NEW mp, Con(m, use, mp), NEW f \in Page, use[f] # Free
  PROVE  m.bitmap[f] \in {"KERNEL", "USER"}
<1>1. PICK own : Raw(m, own, mp) /\ \A g \in Page : use[g] = Plain(own[g])
  BY DEF Con
<1>2. own[f] # Free
  BY <1>1, Labels
<1> QED
  BY <1>1, <1>2 DEF Raw, Marked

LEMMA IdentityStep ==
  ASSUME NEW s \in Page, s # 0, s \notin Image, NEW n, n.page_directory = s, ~ n.domain_check_enabled,
         n \in MemoryState, NEW k \in Nat, k <= ImageEnd, ~ n.short, IdentityGood(n, s, k)
  PROVE  IdentityGood(IdentityMap(n, k), s, k + 1)
<1> DEFINE use == BootUse(s)
<1>1. PICK mp : Con(n, use, mp) /\ IdentityUpTo(mp, s, k)
  BY DEF IdentityGood
<1>2. \A f \in Page : BootBitmap[f] = "RESERVED" => n.bitmap[f] = "RESERVED"
  BY DEF IdentityGood
<1>3. k \in Page /\ (T(k) # 0 <=> k \in Image) /\ T(k) # LastEntry
  BY BelowImage
<1>4. \A f \in Page : use[f] = IF f = s THEN Boot ELSE IF f \in Image THEN Fixed ELSE Free
  BY DEF BootUse
<1> HIDE DEF use
<1>5. s \in Home /\ s # Kernel /\ Kernel \in Home
  BY DEF Home, Kernel, Page
<1>6. CASE n.bitmap[k] \in {"UNUSED", "RESERVED"}
  <2>1. IdentityMap(n, k) = n
    BY <1>6 DEF IdentityMap
  <2>2. k \notin Image
    <3>1. SUFFICES ASSUME k \in Image PROVE FALSE
      OBVIOUS
    <3>2. use[k] # Free
      BY <1>3, <1>4, <3>1, Labels
    <3>3. n.bitmap[k] \in {"KERNEL", "USER"}
      BY <1>1, <1>3, <3>2, ConMarked
    <3> QED
      BY <1>6, <3>3
  <2>3. IdentityUpTo(mp, s, k + 1)
    <3>1. SUFFICES ASSUME NEW h \in Home, NEW p \in Page
                   PROVE  /\ T(p) # 0 => mp[h][p] = IF h = Kernel /\ p \in Image /\ p < k + 1 THEN p ELSE Hole
                          /\ T(p) = 0 /\ (h # s \/ p >= k + 1) => mp[h][p] = Hole
      BY DEF IdentityUpTo
    <3>2. /\ T(p) # 0 => mp[h][p] = IF h = Kernel /\ p \in Image /\ p < k THEN p ELSE Hole
          /\ T(p) = 0 /\ (h # s \/ p >= k) => mp[h][p] = Hole
      BY <1>1 DEF IdentityUpTo
    <3>3. p \in Nat
      BY DEF Page
    <3>4. p \in Image => (p < k + 1 <=> p < k)
      BY <2>2, <3>3
    <3>5. p >= k + 1 => p >= k
      BY <3>3
    <3> QED
      BY <3>2, <3>4, <3>5
  <2> QED
    BY <1>1, <1>2, <2>1, <2>3 DEF IdentityGood, use
<1>7. CASE n.bitmap[k] \notin {"UNUSED", "RESERVED"}
  <2> DEFINE r == vmm_map(n, pmm_get_address(k), pmm_get_address(k), "KERNEL")
             h == HomeOf(n.page_directory, T(k))
             mp2 == Put(mp, h, k, k)
  <2>1. IdentityMap(n, k) = r
    BY <1>7 DEF IdentityMap
  <2>2. h = IF k \in Image THEN Kernel ELSE s
    <3>1. k \in Image => T(k) \in KernelTables
      BY ImageTables
    <3>2. k \notin Image => T(k) \notin KernelTables
      BY <1>3, Indices
    <3> QED
      BY <3>1, <3>2 DEF HomeOf
  <2>3. h \in Home /\ mp[h][k] = Hole
    <3>1. CASE k \in Image
      BY <1>1, <1>3, <1>5, <2>2, <3>1 DEF IdentityUpTo
    <3>2. CASE k \notin Image
      BY <1>1, <1>3, <1>5, <2>2, <3>2 DEF IdentityUpTo
    <3> QED
      BY <3>1, <3>2
  <2>4. T(k) # 0 => k # 0
    BY <1>3, ImageTables
  <2>5. use[n.page_directory] = Boot => T(k) \in KernelTables \union {0}
    BY <1>3, ImageTables
  <2>6. r.short \/ Con(r, use, mp2)
    BY <1>1, <1>3, <2>3, <2>4, <2>5, ConMap
  <2>7. KeepsReserved(n, r)
    BY <1>1, <1>3, MapReserved
  <2> HIDE DEF r, h
  <2>8. IdentityUpTo(mp2, s, k + 1)
    <3>1. SUFFICES ASSUME NEW g \in Home, NEW p \in Page
                   PROVE  /\ T(p) # 0 => mp2[g][p] = IF g = Kernel /\ p \in Image /\ p < k + 1 THEN p ELSE Hole
                          /\ T(p) = 0 /\ (g # s \/ p >= k + 1) => mp2[g][p] = Hole
      BY DEF IdentityUpTo
    <3>2. /\ T(p) # 0 => mp[g][p] = IF g = Kernel /\ p \in Image /\ p < k THEN p ELSE Hole
          /\ T(p) = 0 /\ (g # s \/ p >= k) => mp[g][p] = Hole
      BY <1>1 DEF IdentityUpTo
    <3>3. mp2[g][p] = IF g = h /\ p = k THEN k ELSE mp[g][p]
      BY PutAt
    <3> HIDE DEF mp2
    <3>4. p \in Nat
      BY DEF Page
    <3>5. CASE p = k
      BY <1>3, <1>5, <2>2, <3>2, <3>3, <3>5
    <3>6. CASE p # k
      <4>1. p < k + 1 <=> p < k
        BY <3>4, <3>6
      <4>2. p >= k + 1 => p >= k
        BY <3>4
      <4> QED
        BY <3>2, <3>3, <3>6, <4>1, <4>2
    <3> QED
      BY <3>5, <3>6
  <2> HIDE DEF mp2
  <2>9. ~ r.short => \A f \in Page : BootBitmap[f] = "RESERVED" => r.bitmap[f] = "RESERVED"
    BY <1>2, <2>7 DEF KeepsReserved
  <2>10. IdentityGood(r, s, k + 1)
    BY <2>6, <2>8, <2>9 DEF IdentityGood, use
  <2> QED
    BY <2>1, <2>10
<1> QED
  BY <1>6, <1>7

LEMMA IdentityLoop ==
  ASSUME NEW s, BootAt(BootStart, s), s \notin Image, Con(BootStart, BootUse(s), Unmapped),
         \A f \in Page : BootBitmap[f] = "RESERVED" => BootStart.bitmap[f] = "RESERVED"
  PROVE  LET r == IdentityMapLoop(BootStart, ImageEnd + 1)
         IN  r \in Quiet(BootStart) /\ IdentityGood(r, s, ImageEnd + 1)
<1> DEFINE m == BootStart
           r(k) == IdentityMapLoop(m, k)
           G == {k \in Nat : k <= ImageEnd + 1 => IdentityGood(r(k), s, k)}
<1>1. /\ m \in MemoryState /\ s \in Page /\ s # 0 /\ m.page_directory = s /\ ~ m.domain_check_enabled
  BY DEF BootAt
<1>2. ImageEnd \in Nat
  BY ImagePlace DEF Page
<1> HIDE DEF m
<1>3. \A k \in Nat : r(k) \in Quiet(m) /\ r(0) = m /\ r(k + 1) = IdentityMap(r(k), k)
  BY <1>1, IdentityMapLoopRuns
<1> HIDE DEF r
<1>4. 0 \in G
  <2>1. IdentityUpTo(Unmapped, s, 0)
    <3>1. \A h \in Home, p \in Page : Unmapped[h][p] = Hole
      BY DEF Unmapped
    <3>2. \A p \in Page : ~ (p < 0)
      BY DEF Page
    <3> QED
      BY <3>1, <3>2 DEF IdentityUpTo
  <2>2. IdentityGood(m, s, 0)
    BY <2>1 DEF IdentityGood, m
  <2> QED
    BY <1>3, <2>2
<1>5. ASSUME NEW k \in Nat, k \in G
      PROVE  k + 1 \in G
  <2>1. SUFFICES ASSUME k + 1 <= ImageEnd + 1
                 PROVE  IdentityGood(r(k + 1), s, k + 1)
    OBVIOUS
  <2>2. IdentityGood(r(k), s, k) /\ k <= ImageEnd
    BY <1>2, <1>5, <2>1
  <2>3. r(k) \in Quiet(m) /\ r(k + 1) = IdentityMap(r(k), k)
    BY <1>3
  <2>4. r(k) \in MemoryState /\ r(k).page_directory = s /\ ~ r(k).domain_check_enabled
    BY <1>1, <2>3, QuietLater DEF Quiet
  <2>5. CASE r(k).short
    <3>1. r(k + 1) \in Quiet(r(k))
      <4>1. IdentityMap(r(k), k) \in Quiet(r(k))
        <5>1. pmm_get_address(k) \in Nat
          BY DEF pmm_get_address
        <5> QED
          BY <2>4, <5>1, MapTyped, QuietLater DEF IdentityMap
      <4> QED
        BY <2>3, <4>1
    <3> QED
      BY <2>5, <3>1 DEF Quiet, Later, IdentityGood
  <2>6. CASE ~ r(k).short
    <3>1. IdentityGood(IdentityMap(r(k), k), s, k + 1)
      BY <1>1, <2>2, <2>4, <2>6, IdentityStep
    <3> QED
      BY <2>3, <3>1
  <2> QED
    BY <2>5, <2>6
<1> HIDE DEF G
<1>6. \A k \in Nat : k \in G
  BY <1>4, <1>5, Induction
<1>7. ImageEnd + 1 \in G /\ ImageEnd + 1 \in Nat
  BY <1>2, <1>6
<1> QED
  BY <1>3, <1>7 DEF G, r, m

(* Paging is turned on.                                                    *)
LEMMA TurnedOn ==
  ASSUME NEW m \in MemoryState, ~ m.paging, NEW s \in Page
  PROVE  LET n == vmm_load_page_directory([m EXCEPT !.domain_check_enabled = TRUE], pmm_get_address(s)).m
         IN  /\ n \in Later(m) /\ n.tables = m.tables /\ n.bitmap = m.bitmap
             /\ n.page_directory = s /\ n.old_directory = m.old_directory
             /\ n.paging /\ n.domain_check_enabled /\ n.fault = m.fault
<1> DEFINE k == [m EXCEPT !.domain_check_enabled = TRUE]
           n == vmm_load_page_directory(k, pmm_get_address(s)).m
<1>1. k \in Later(m) /\ k \in MemoryState
  BY Updates, QuietLater
<1>2. /\ k.tables = m.tables /\ k.bitmap = m.bitmap /\ k.old_directory = m.old_directory
      /\ k.domain_check_enabled /\ k.fault = m.fault /\ ~ k.paging
  BY DEF MemoryState
<1> HIDE DEF k
<1>3. n \in Later(k)
  BY <1>1, AddressOfPage, LoadTyped
<1>4. n = [[k EXCEPT !.paging = TRUE] EXCEPT !.page_directory = s]
  BY <1>2, AddressOfPage DEF vmm_load_page_directory, Result
<1>5. /\ n.tables = k.tables /\ n.bitmap = k.bitmap /\ n.page_directory = s
      /\ n.old_directory = k.old_directory /\ n.paging
      /\ n.domain_check_enabled = k.domain_check_enabled /\ n.fault = k.fault
  BY <1>1, <1>4 DEF MemoryState
<1> HIDE DEF n
<1>6. n \in Later(m)
  BY <1>1, <1>3, LaterSteps
<1> QED
  BY <1>2, <1>5, <1>6 DEF n, k

(* The video memory is marked as used and mapped.                          *)
LEMMA VideoMarked ==
  ASSUME NEW m, NEW use, NEW mp, Con(m, use, mp),
         \A f \in VideoFrames : m.bitmap[f] = "RESERVED"
  PROVE  /\ Con([m EXCEPT !.bitmap = pmm_use(m.bitmap, Video, VideoLength, "KERNEL")],
                Mark(use, VideoFrames, Fixed), mp)
         /\ [m EXCEPT !.bitmap = pmm_use(m.bitmap, Video, VideoLength, "KERNEL")] \in Quiet(m)
<1> DEFINE b == pmm_use(m.bitmap, Video, VideoLength, "KERNEL")
           n == [m EXCEPT !.bitmap = b]
<1>1. PICK own : Raw(m, own, mp) /\ \A f \in Page : use[f] = Plain(own[f])
  BY DEF Con
<1> DEFINE new == Mark(own, VideoFrames, Fixed)
<1>2. m \in MemoryState /\ LowIntact(m) /\ Marked(m, own)
  BY <1>1 DEF Raw
<1>3. /\ FramesOf(Video, VideoLength) = VideoFrames /\ VideoLength # 0
      /\ \A f \in VideoFrames : f \in Page /\ f >= VideoPage
      /\ VideoPage \in Page
  <2>1. \A f \in VideoFrames : f >= VideoPage
    BY DEF VideoFrames
  <2> QED
    BY <2>1, VideoFramesPlace
<1>4. \A f \in Page : b[f] = IF f \in VideoFrames THEN "KERNEL" ELSE m.bitmap[f]
  BY <1>3 DEF pmm_use
<1>5. b \in Bitmap
  BY <1>2, StateFields, UseTyped DEF Flags
<1> HIDE DEF b
<1>6. n \in Quiet(m) /\ n \in MemoryState /\ n.tables = m.tables
      /\ n.page_directory = m.page_directory /\ n.bitmap = b
  <2>1. n \in Quiet(m)
    BY <1>2, <1>5, Updates
  <2>2. n.tables = m.tables /\ n.page_directory = m.page_directory /\ n.bitmap = b
    BY <1>2 DEF MemoryState
  <2> QED
    BY <1>2, <2>1, <2>2, QuietLater
<1> HIDE DEF n
<1>7. LowIntact(n)
  <2>1. \A f \in Page : f < VideoPage => n.bitmap[f] = m.bitmap[f]
    BY <1>3, <1>4, <1>6 DEF Page
  <2>2. \A f, g \in Page : f < VideoPage /\ g < f => g < VideoPage
    BY <1>3 DEF Page
  <2> QED
    BY <1>2, <2>1, <2>2 DEF LowIntact
<1>8. \A f \in Page : new[f] = IF f \in VideoFrames THEN Fixed ELSE own[f]
  BY DEF Mark
<1> HIDE DEF new
<1>9. \A f \in VideoFrames : own[f] = Free
  BY <1>2, <1>3 DEF Marked
<1>10. Marked(n, new)
  <2>1. ASSUME NEW f \in Page
        PROVE  new[f] # Free <=> n.bitmap[f] \in {"KERNEL", "USER"}
    BY <1>2, <1>4, <1>6, <1>8, Labels DEF Marked
  <2>2. ASSUME NEW f \in Page, IsTab(new[f])
        PROVE  \E h \in Home, t \in Index : new[f] = Tab(h, t)
    BY <1>2, <1>8, <2>2, Labels DEF Marked
  <2> QED
    BY <2>1, <2>2 DEF Marked
<1>11. \A f \in Page : new[f] = own[f] \/ (~ Settled(own[f]) /\ ~ Settled(new[f]))
  BY <1>8, <1>9, Labels DEF Settled
<1>12. Raw(n, new, mp)
  BY <1>1, <1>6, <1>7, <1>10, <1>11, RawFrames
<1>13. \A f \in Page : Mark(use, VideoFrames, Fixed)[f] = Plain(new[f])
  BY <1>1, <1>8, Labels DEF Mark
<1>14. Con(n, Mark(use, VideoFrames, Fixed), mp)
  BY <1>12, <1>13 DEF Con
<1> QED
  BY <1>6, <1>14 DEF n, b

(* The memory before the first task is created.                            *)
BootRows(p) ==
  [x \in Image \union (p .. p + PagesFor(VideoLength) - 1) |->
     IF x \in Image THEN x ELSE VideoPage + (x - p)]
BootV(p) == [own |-> BootRows(p), pins |-> [b \in {} |-> b]]

\* The image lies behind the first table, the video memory below it.
LEMMA VideoAboveImage == \A f \in VideoFrames : f \notin Image
<1> SUFFICES ASSUME NEW f \in VideoFrames PROVE f \notin Image
  OBVIOUS
<1>1. f \in Page /\ f * PageSize < LowerMemory
  BY VideoFramesPlace
<1>2. f \in Nat /\ ENTRIES \in Nat /\ PageSize \in Nat \ {0} /\ LowerMemory \in Nat
  BY <1>1, Entries, TaskMemoryAssumption DEF Page
<1>3. LowerMemory <= (ENTRIES - 1) * PageSize
  BY TaskMemoryAssumption
<1>4. ENTRIES * PageSize = (ENTRIES - 1) * PageSize + PageSize
  BY <1>2
<1>5. ENTRIES <= f => ENTRIES * PageSize <= f * PageSize
  BY <1>2
<1>6. f * PageSize \in Nat /\ ENTRIES * PageSize \in Nat /\ (ENTRIES - 1) * PageSize \in Int
  BY <1>2
<1>7. ~ (ENTRIES <= f)
  BY <1>1, <1>2, <1>3, <1>4, <1>5, <1>6
<1> QED
  BY <1>7 DEF Image

LEMMA BootOwn ==
  ASSUME NEW p \in Page, \A x \in p .. p + PagesFor(VideoLength) - 1 : x \notin Image
  PROVE  /\ OwnAt(BootV(p))
         /\ \A f \in Page : f \in Image \/ f \in VideoFrames <=> \E x \in DOMAIN BootRows(p) : BootRows(p)[x] = f
<1> DEFINE n == PagesFor(VideoLength)
           V == BootRows(p)
<1>1. n \in Nat \ {0} /\ VideoPage \in Nat /\ p \in Nat
  BY VideoFramesPlace DEF Page
<1>2. /\ DOMAIN V = Image \union (p .. p + n - 1)
      /\ \A x \in Image : V[x] = x
      /\ \A x \in p .. p + n - 1 : V[x] = VideoPage + (x - p)
  BY DEF BootRows
<1> HIDE DEF V
<1>3. OwnFrames = Image \union VideoFrames
  <2>1. PageSet(ENTRIES * PageSize, KernelEnd - ENTRIES * PageSize) = Image
    BY ImagePlace DEF PageSet
  <2>2. PageSet(Video, VideoLength) = VideoFrames
    BY VideoFramesPlace DEF PageSet
  <2> QED
    BY <2>1, <2>2 DEF OwnFrames
<1>4. ASSUME NEW f, f \in VideoFrames
      PROVE  \E x \in p .. p + n - 1 : V[x] = f
  <2>1. p + (f - VideoPage) \in p .. p + n - 1 /\ VideoPage + ((p + (f - VideoPage)) - p) = f
    BY <1>1, <1>4 DEF VideoFrames
  <2> QED
    BY <1>2, <2>1
<1>5. ASSUME NEW x \in p .. p + n - 1
      PROVE  V[x] \in VideoFrames
  BY <1>1, <1>2 DEF VideoFrames
<1>8. \A x, y \in p .. p + n - 1 : V[x] = V[y] => x = y
  <2>1. \A x, y \in p .. p + n - 1 : VideoPage + (x - p) = VideoPage + (y - p) => x = y
    BY <1>1
  <2> QED
    BY <1>2, <2>1
<1> HIDE DEF n
<1>6. \A f : f \in Image \/ f \in VideoFrames <=> \E x \in DOMAIN V : V[x] = f
  BY <1>2, <1>4, <1>5
<1>7. \A f : f \in OwnFrames <=> \E x \in DOMAIN V : V[x] = f
  BY <1>3, <1>6
<1>9. \A f \in VideoFrames : f \notin Image
  BY VideoAboveImage
<1>10. \A x, y \in DOMAIN V : V[x] = V[y] => x = y
  BY <1>2, <1>5, <1>8, <1>9
<1> QED
  BY <1>6, <1>7, <1>10 DEF V, OwnAt, BootV

LEMMA IdentityWeak ==
  ASSUME NEW mp, NEW s, IdentityUpTo(mp, s, ImageEnd + 1)
  PROVE  /\ \A x \in Page : x \in Image => mp[Kernel][x] = x
         /\ \A h \in Home, x \in Page : T(x) # 0 => mp[h][x] = Hole \/ (h = Kernel /\ x \in Image)
         /\ Weak(mp)
<1>1. ImageEnd \in Nat /\ ENTRIES \in Nat /\ ENTRIES > 3 /\ Page \subseteq Nat
  BY ImagePlace, Entries DEF Page
<1>2. \A x \in Page : x \in Image => x < ImageEnd + 1
  BY <1>1 DEF Image
<1>3. \A x \in Page : x \in Image => mp[Kernel][x] = x
  BY <1>2, ImageTables, Indices, KernelHome DEF IdentityUpTo
<1>4. \A h \in Home, x \in Page : T(x) # 0 => mp[h][x] = Hole \/ (h = Kernel /\ x \in Image)
  BY DEF IdentityUpTo
<1>5. ASSUME NEW t \in KernelTables, mp[Kernel][PageAt(t, LastEntry)] # Hole
      PROVE  mp[Kernel][PageAt(t, 0)] # Hole
  <2>1. t \in Index /\ t # 0 /\ LastEntry \in Index /\ 0 \in Index
    BY Indices
  <2> DEFINE z == PageAt(t, LastEntry)
             y == PageAt(t, 0)
  <2>2. z \in Page /\ T(z) = t /\ y \in Page
    BY <2>1, PageOfPlace
  <2>3. z \in Image
    BY <1>4, <1>5, <2>1, <2>2, KernelHome
  <2>4. ENTRIES <= t * ENTRIES /\ t * ENTRIES \in Nat
    <3>1. t \in Nat /\ 1 <= t
      BY <1>1, <2>1 DEF Index
    <3>2. 1 * ENTRIES <= t * ENTRIES
      BY <1>1, <3>1
    <3> QED
      BY <1>1, <3>1, <3>2
  <2>5. y \in Image
    BY <1>1, <2>3, <2>4 DEF Image, PageAt, LastEntry
  <2>6. y \in Page /\ y # Hole
    BY <2>2, KernelHome
  <2> QED
    BY <1>3, <2>5, <2>6
<1>6. Weak(mp)
  <2>1. 0 \in Index /\ 0 # LastEntry
    BY Indices
  <2> QED
    BY <1>5, <2>1 DEF Weak, Anchored
<1> QED
  BY <1>3, <1>4, <1>6

LEMMA BootLayout ==
  ASSUME NEW s \in Page, s \notin Image, s \notin VideoFrames, NEW mp, IdentityUpTo(mp, s, ImageEnd + 1),
         NEW p \in Page, p + PagesFor(VideoLength) <= PageNumber,
         FirstRoom(mp, Kernel, "KERNEL", p, PagesFor(VideoLength))
  PROVE  /\ Layout(Mark(BootUse(s), VideoFrames, Fixed),
                   PutRun(mp, Kernel, p, VideoPage, PagesFor(VideoLength)), {}, {}, {}, BootV(p), s)
         /\ OwnAt(BootV(p))
<1> DEFINE n == PagesFor(VideoLength)
           use == Mark(BootUse(s), VideoFrames, Fixed)
           mp2 == PutRun(mp, Kernel, p, VideoPage, n)
           V == BootV(p)
<1>1. /\ n \in Nat \ {0} /\ VideoPage \in Page /\ VideoPage \in Nat /\ VideoPage + n <= PageNumber
  BY VideoFramesPlace DEF Page
<1>2. \A f \in Page : use[f] = IF f \in VideoFrames THEN Fixed ELSE
                               IF f = s THEN Boot ELSE IF f \in Image THEN Fixed ELSE Free
  BY DEF Mark, BootUse
<1>3. \A g \in Home, q \in Page : mp2[g][q] = IF g = Kernel /\ q \in p .. p + n - 1
                                              THEN VideoPage + (q - p) ELSE mp[g][q]
  BY RunAt
<1>4. /\ \A x \in Page : x \in Image => mp[Kernel][x] = x
      /\ \A h \in Home, x \in Page : T(x) # 0 => mp[h][x] = Hole \/ (h = Kernel /\ x \in Image)
      /\ Weak(mp)
  BY IdentityWeak
<1>5. /\ \A q \in p .. p + n - 1 : q \in DomainPages("KERNEL") /\ mp[Kernel][q] = Hole
      /\ \A q \in p .. p + n - 1 : q \in Page
  BY DEF FirstRoom, DomainPages
<1>6. \A x \in p .. p + n - 1 : x \notin Image
  BY <1>4, <1>5, KernelHome
<1>7. /\ OwnAt(V)
      /\ \A f \in Page : f \in Image \/ f \in VideoFrames <=> \E x \in DOMAIN V.own : V.own[x] = f
  BY <1>6, BootOwn DEF BootV
<1>8. /\ DOMAIN V.own = Image \union (p .. p + n - 1)
      /\ \A x \in Image : V.own[x] = x
      /\ \A x \in p .. p + n - 1 : x \notin Image => V.own[x] = VideoPage + (x - p)
      /\ DOMAIN V.pins = {}
  BY DEF BootRows, BootV
<1> HIDE DEF use, mp2, V
<1>9. Weak(mp2)
  BY <1>1, <1>4, WeakPut DEF mp2, n
<1> HIDE DEF n
<1>10. Labelled(use, {}, V, s)
  <2>1. ASSUME NEW f \in Page
        PROVE  /\ use[f] \in {Free, Fixed, Directory, Boot} \union {Pag(h, q) : h \in Home, q \in Page}
               /\ use[f] # Directory
               /\ use[f] = Boot <=> f = s
               /\ use[f] = Fixed <=> \E x \in DOMAIN V.own : V.own[x] = f
    <3>1. use[f] = Fixed <=> f \in Image \/ f \in VideoFrames
      BY <1>2, Labels
    <3>2. use[f] \in {Free, Fixed, Boot} /\ (use[f] = Boot <=> f = s)
      BY <1>2, Labels
    <3>3. use[f] # Directory
      BY <3>2, Labels
    <3> QED
      BY <1>7, <3>1, <3>2, <3>3
  <2> QED
    BY <2>1 DEF Labelled
<1>11. Sourced(use, mp2, {})
  <2>1. \A f \in Page : use[f] \in {Free, Fixed, Boot}
    BY <1>2
  <2>2. \A f \in Page : \A h, q : use[f] # Pag(h, q)
    BY <2>1, Labels
  <2> QED
    BY <2>2 DEF Sourced
<1>12. LowMapped(mp2, {}, {})
  BY DEF LowMapped
<1>13. OwnMapped(mp2, V)
  <2>1. ASSUME NEW x \in DOMAIN V.own
        PROVE  x \in DomainPages("KERNEL") /\ V.own[x] \in Page /\ mp2[Kernel][x] = V.own[x]
    <3>1. CASE x \in Image
      <4>1. x \in Page /\ x \in DomainPages("KERNEL")
        BY <3>1, ImageTables
      <4>2. x \notin p .. p + n - 1
        BY <1>6, <3>1
      <4> QED
        BY <1>3, <1>4, <1>8, <3>1, <4>1, <4>2, KernelHome
    <3>2. CASE x \in p .. p + n - 1
      <4>1. x \notin Image /\ x \in Page /\ x \in DomainPages("KERNEL")
        BY <1>5, <1>6, <3>2
      <4>2. VideoPage + (x - p) \in Page
        <5>1. p \in Nat /\ PageNumber \in Nat
          BY DEF Page
        <5> QED
          BY <1>1, <3>2, <5>1 DEF Page
      <4> QED
        BY <1>3, <1>8, <3>2, <4>1, <4>2, KernelHome
    <3> QED
      BY <1>8, <3>1, <3>2
  <2> QED
    BY <2>1 DEF OwnMapped
<1>14. NoMore(mp2, {}, V)
  <2>1. SUFFICES ASSUME NEW h \in Home, NEW x \in Page, mp2[h][x] # Hole, T(x) # 0
                 PROVE  h = Kernel /\ x \in DOMAIN V.own
    BY DEF NoMore
  <2> QED
    BY <1>3, <1>4, <1>8, <2>1
<1>15. BlocksTyped({}, {}) /\ Placed(use, mp2, {}) /\ Apart({})
  BY DEF BlocksTyped, Placed, Apart
<1>16. Layout(use, mp2, {}, {}, {}, V, s)
  BY <1>8, <1>9, <1>10, <1>11, <1>12, <1>13, <1>14, <1>15 DEF Layout, Pinned
<1> QED
  BY <1>7, <1>16 DEF use, mp2, V, n

(* The memory is as no task needs it yet.                                  *)
Prepared(r, s) ==
  /\ r.old_directory = 0 /\ r.page_directory = s
  /\ \E V : OwnAt(V) /\ Memory(r, {}, {}, {}, V, s)

LEMMA VideoMapped ==
  ASSUME NEW m, NEW s \in Page, s # 0, s \notin Image, NEW mp, Con(m, BootUse(s), mp),
         IdentityUpTo(mp, s, ImageEnd + 1), \A f \in VideoFrames : m.bitmap[f] = "RESERVED",
         m.page_directory = s, m.old_directory = 0, m.paging, m.domain_check_enabled, ~ m.fault
  PROVE  LET r == vmm_use_physical_memory(m, Video, VideoLength, "KERNEL").m
         IN  r.short \/ Prepared(r, s)
<1> DEFINE v == vmm_find_free(m, VideoLength, "KERNEL")
           n == [m EXCEPT !.bitmap = pmm_use(m.bitmap, Video, VideoLength, "KERNEL")]
           use == Mark(BootUse(s), VideoFrames, Fixed)
           r == vmm_use_physical_memory(m, Video, VideoLength, "KERNEL").m
           c == PagesFor(VideoLength)
<1>1. /\ VideoPage \in Page /\ VideoPage # 0 /\ Video = pmm_get_address(VideoPage)
      /\ VideoLength \in Nat \ {0} /\ VideoPage + c <= PageNumber /\ c \in Nat \ {0}
      /\ \A f \in VideoFrames : f \in Page
  BY VideoFramesPlace
<1>2. m \in MemoryState
  BY ConTyped
<1>3. CASE v = 0
  <2>1. r = Short(m)
    BY <1>3 DEF vmm_use_physical_memory, Result
  <2> QED
    BY <1>2, <2>1 DEF Short, MemoryState
<1>4. CASE v # 0
  <2>1. PICK p \in Page : /\ v = pmm_get_address(p) /\ p # 0 /\ p + c <= PageNumber
                          /\ FirstRoom(mp, DomainHome(m, "KERNEL"), "KERNEL", p, c)
    BY <1>1, <1>4, ConFound
  <2>2. DomainHome(m, "KERNEL") = Kernel
    BY DEF DomainHome
  <2>3. Con(n, use, mp) /\ n \in Quiet(m)
    BY VideoMarked
  <2>4. r = vmm_map_range(n, pmm_get_address(p), pmm_get_address(VideoPage), VideoLength, "KERNEL")
    BY <1>1, <1>4, <2>1 DEF vmm_use_physical_memory, Result
  <2> HIDE DEF n, use, v
  <2>5. /\ n.page_directory = s /\ n.old_directory = 0 /\ n.paging /\ n.domain_check_enabled
        /\ ~ n.fault /\ n \in MemoryState
    BY <1>2, <2>3, QuietLater DEF Quiet
  <2>6. Room(n, use, mp, Kernel, p, VideoPage, c, "KERNEL")
    <3>1. ASSUME NEW q \in p .. p + c - 1
          PROVE  /\ T(q) # LastEntry /\ HomeOf(n.page_directory, T(q)) = Kernel /\ mp[Kernel][q] = Hole
                 /\ T(q) \in KernelTables \union {0} /\ q \in DomainPages("KERNEL")
      <4>1. q \in DomainPages("KERNEL") /\ mp[Kernel][q] = Hole
        BY <2>1, <2>2 DEF FirstRoom
      <4>2. T(q) \in KernelTables
        BY <4>1 DEF DomainPages, T
      <4> QED
        BY <4>1, <4>2, Indices DEF HomeOf
    <3>2. Kernel \in Home /\ p \in Nat /\ VideoPage \in Nat /\ c \in Nat
      BY <1>1, KernelHome DEF Page
    <3> QED
      BY <1>1, <2>1, <3>1, <3>2 DEF Room
  <2>7. r.short \/ Con(r, use, PutRun(mp, Kernel, p, VideoPage, c))
    BY <1>1, <2>3, <2>4, <2>6, ConMapRange
  <2>8. r \in Quiet(n)
    BY <1>1, <2>1, <2>4, <2>5, AddressOfPage, MapRangeTyped
  <2>9. s \notin VideoFrames
    <3>1. BootUse(s)[s] # Free
      BY Labels DEF BootUse
    <3>2. m.bitmap[s] \in {"KERNEL", "USER"}
      BY <3>1, ConMarked
    <3> QED
      BY <3>2
  <2>10. /\ Layout(use, PutRun(mp, Kernel, p, VideoPage, c), {}, {}, {}, BootV(p), s)
         /\ OwnAt(BootV(p))
    BY <2>1, <2>2, <2>9, BootLayout DEF use
  <2>11. Running(r) /\ r.page_directory = s /\ r.old_directory = 0
    BY <2>5, <2>8 DEF Quiet, Running
  <2>12. ~ r.short => Memory(r, {}, {}, {}, BootV(p), s)
    BY <2>7, <2>10, <2>11 DEF Memory
  <2> HIDE DEF r
  <2>13. r.short \/ Prepared(r, s)
    BY <2>10, <2>11, <2>12 DEF Prepared
  <2> QED
    BY <2>13 DEF r
<1> QED
  BY <1>3, <1>4

\* No task has anything.
LEMMA NoTasks ==
  ASSUME NEW m, NEW s, Prepared(m, s)
  PROVE  \E V : TasksPlaced(m, <<>>, 0, s, V)
<1>1. DOMAIN <<>> = {}
  OBVIOUS
<1> DEFINE none == <<>>
<1>2. DOMAIN none = {}
  BY <1>1
<1> HIDE DEF none
<1>3. DirsOf(none) = {} /\ LowsOf(none) = {} /\ BlocksOf(none) = {}
  BY <1>2 DEF DirsOf, LowsOf, BlocksOf
<1>4. PICK V : OwnAt(V) /\ Memory(m, {}, {}, {}, V, s)
  BY DEF Prepared
<1>5. OwnAt(V) /\ Memory(m, DirsOf(none), LowsOf(none), BlocksOf(none), V, s)
  BY <1>3, <1>4
<1>6. m.old_directory = 0
  BY DEF Prepared
<1>7. Settles(m, none, s, V)
  BY <1>2, <1>5, <1>6 DEF Settles
<1>8. TasksPlaced(m, none, 0, s, V)
  BY <1>7 DEF TasksPlaced, Loads
<1> QED
  BY <1>8 DEF none

\* What vmm_init makes of the memory.
LEMMA Prepares ==
  LET r == vmm_init(BootMemory, Video, VideoLength).m
  IN  /\ r \in MemoryState
      /\ r.short \/ Prepared(r, r.page_directory)
<1> DEFINE dir == vmm_create_page_directory(BootMemory)
           map == IdentityMapLoop(BootStart, HighestKernelPage(BootStart) + 1)
           on  == vmm_load_page_directory([map EXCEPT !.domain_check_enabled = TRUE], dir.ptr).m
           r   == vmm_use_physical_memory(on, Video, VideoLength, "KERNEL").m
<1>0. vmm_init(BootMemory, Video, VideoLength).m = r
  BY DEF vmm_init, BootStart
<1>1. PICK s \in Page :
        /\ dir.ptr = pmm_get_address(s)
        /\ BootAt(BootStart, s) /\ s \notin Image /\ HighestKernelPage(BootStart) = ImageEnd
        /\ Con(BootStart, BootUse(s), Unmapped)
        /\ \A f \in Page : BootBitmap[f] = "RESERVED" => BootStart.bitmap[f] = "RESERVED"
  BY BootCon
<1>2. map \in Quiet(BootStart) /\ IdentityGood(map, s, ImageEnd + 1)
  BY <1>1, IdentityLoop
<1> HIDE DEF map
<1>3. /\ map \in MemoryState /\ ~ map.paging /\ ~ map.fault /\ map.old_directory = 0
      /\ map.page_directory = s /\ (map.short => TRUE) /\ s # 0
  BY <1>1, <1>2 DEF BootAt, Quiet, Later
<1>4. /\ on \in Later(map) /\ on.tables = map.tables /\ on.bitmap = map.bitmap
      /\ on.page_directory = s /\ on.old_directory = map.old_directory
      /\ on.paging /\ on.domain_check_enabled /\ on.fault = map.fault
  BY <1>1, <1>3, TurnedOn
<1> HIDE DEF on
<1>5. on \in MemoryState
  BY <1>4 DEF Later
<1>6. Video \in Nat /\ VideoLength \in Nat /\ "KERNEL" \in Flags
  BY TaskMemoryAssumption DEF Flags
<1>7. r \in Quiet(on)
  BY <1>5, <1>6, UsePhysicalTyped DEF ResultTyped
<1>8. r \in MemoryState /\ r.page_directory = s
  BY <1>4, <1>7 DEF Quiet, Later
<1>9. on.short => r.short
  BY <1>7 DEF Quiet, Later
<1>10. CASE map.short
  <2>1. r.short
    BY <1>4, <1>9, <1>10 DEF Later
  <2> QED
    BY <1>0, <1>8, <2>1
<1>11. CASE ~ map.short
  <2>1. PICK mp : Con(map, BootUse(s), mp) /\ IdentityUpTo(mp, s, ImageEnd + 1)
    BY <1>2, <1>11 DEF IdentityGood
  <2>2. \A f \in Page : BootBitmap[f] = "RESERVED" => map.bitmap[f] = "RESERVED"
    BY <1>2, <1>11 DEF IdentityGood
  <2>3. Con(on, BootUse(s), mp)
    BY <1>3, <1>4, <1>5, <2>1, ConSame
  <2>4. \A f \in VideoFrames : on.bitmap[f] = "RESERVED"
    BY <1>4, <2>2, VideoFramesPlace, BootBitmapAt
  <2>5. r.short \/ Prepared(r, s)
    BY <1>1, <1>3, <1>4, <2>1, <2>3, <2>4, VideoMapped
  <2> HIDE DEF r
  <2> QED
    BY <1>0, <1>8, <2>5
<1> QED
  BY <1>10, <1>11

(* At the start, the memory is as the tasks need it, or short.             *)
LEMMA InitSafe ==
  ASSUME Init
  PROVE  TypeOK /\ Alive /\ Safe
<1> DEFINE r == vmm_init(BootMemory, Video, VideoLength).m
<1>1. vm = r /\ tasks = <<>> /\ current_task = 0 /\ boot_directory = r.page_directory
  BY DEF Init
<1>2. r \in MemoryState /\ (r.short \/ Prepared(r, r.page_directory))
  BY Prepares
<1> HIDE DEF r
<1>3. r.page_directory \in Page
  BY <1>2, StateFields
<1>4. DOMAIN tasks = {}
  BY <1>1
<1>5. TypeOK
  BY <1>1, <1>2, <1>3, <1>4 DEF TypeOK
<1>6. Alive
  BY <1>4 DEF Alive
<1>7. r.short \/ \E V : TasksPlaced(r, <<>>, 0, r.page_directory, V)
  BY <1>2, NoTasks
<1>8. Safe
  BY <1>1, <1>7 DEF Safe
<1> QED
  BY <1>5, <1>6, <1>8

-----------------------------------------------------------------------------
(* What holds of the memory when it did not run short.                     *)

\* Frames are used as own says, pages are mapped as mp says, and the kernel's own pages are V.
Arranged(own, use, mp, V) ==
  /\ \A f \in Page : use[f] = Plain(own[f])
  /\ \A p \in DOMAIN tasks : Shape(tasks[p])
  /\ \A p, q \in DOMAIN tasks : DirOf(tasks[p]) = DirOf(tasks[q]) => p = q
  /\ OwnAt(V)
  /\ Memory(vm, DirsOf(tasks), LowsOf(tasks), BlocksOf(tasks), V, boot_directory)
  /\ Raw(vm, own, mp)
  /\ Layout(use, mp, DirsOf(tasks), LowsOf(tasks), BlocksOf(tasks), V, boot_directory)

\* The memory is as the tasks need it, with the frames that V tells.
SettledAs(V) == TasksPlaced(vm, tasks, current_task, boot_directory, V)

LEMMA SettledArranged ==
  ASSUME NEW V, SettledAs(V)
  PROVE  \E own, use, mp : Arranged(own, use, mp, V)
<1>1. Settles(vm, tasks, boot_directory, V)
  BY DEF SettledAs, TasksPlaced
<1>2. /\ OwnAt(V)
      /\ Memory(vm, DirsOf(tasks), LowsOf(tasks), BlocksOf(tasks), V, boot_directory)
  BY <1>1 DEF Settles
<1>3. PICK use, mp :
        /\ Con(vm, use, mp)
        /\ Layout(use, mp, DirsOf(tasks), LowsOf(tasks), BlocksOf(tasks), V, boot_directory)
  BY <1>2 DEF Memory
<1>4. PICK own : Raw(vm, own, mp) /\ \A f \in Page : use[f] = Plain(own[f])
  BY <1>3 DEF Con
<1>5. /\ \A p \in DOMAIN tasks : Shape(tasks[p])
      /\ \A p, q \in DOMAIN tasks : DirOf(tasks[p]) = DirOf(tasks[q]) => p = q
  BY <1>1 DEF Settles
<1>6. Arranged(own, use, mp, V)
  BY <1>2, <1>3, <1>4, <1>5 DEF Arranged
<1> QED
  BY <1>6

LEMMA SafeArranged ==
  ASSUME Safe, ~ vm.short
  PROVE  \E own, use, mp, V : Arranged(own, use, mp, V)
BY SettledArranged DEF Safe, SettledAs

\* The labels of frames, and where they come from.
LEMMA ArrangedLabels ==
  ASSUME NEW own, NEW use, NEW mp, NEW V, Arranged(own, use, mp, V)
  PROVE  /\ \A f \in Page :
              /\ own[f] = Fixed <=> f \in OwnFrames
              /\ own[f] = Boot <=> f = boot_directory
              /\ own[f] = Directory <=> \E pid \in DOMAIN tasks : f = DirOf(tasks[pid])
              /\ own[f] # Free <=> vm.bitmap[f] \in {"KERNEL", "USER"}
              /\ own[f] \in {Free, Fixed, Directory, Boot} \/ IsTab(own[f]) \/
                 \E h \in Home, p \in Page : own[f] = Pag(h, p)
         /\ boot_directory \in Page /\ vm.page_directory \in Page
         /\ own[boot_directory] = Boot /\ IsDir(own, vm.page_directory)
         /\ \A pid \in DOMAIN tasks :
              /\ DirOf(tasks[pid]) \in Page /\ own[DirOf(tasks[pid])] = Directory
              /\ DirOf(tasks[pid]) # boot_directory /\ DirOf(tasks[pid]) # Kernel
<1>1. Labelled(use, DirsOf(tasks), V, boot_directory) /\ Marked(vm, own)
  BY DEF Arranged, Layout, Raw
<1>2. OwnAt(V) /\ \A f \in Page : use[f] = Plain(own[f])
  BY DEF Arranged
<1>3. ASSUME NEW f \in Page
      PROVE  /\ own[f] = Fixed <=> f \in OwnFrames
             /\ own[f] = Boot <=> f = boot_directory
             /\ own[f] = Directory <=> f \in DirsOf(tasks)
             /\ own[f] # Free <=> vm.bitmap[f] \in {"KERNEL", "USER"}
             /\ own[f] \in {Free, Fixed, Directory, Boot} \/ IsTab(own[f]) \/
                \E h \in Home, p \in Page : own[f] = Pag(h, p)
  <2>1. use[f] = Plain(own[f])
    BY <1>2
  <2>2. own[f] = Fixed <=> f \in OwnFrames
    <3>1. own[f] = Fixed <=> use[f] = Fixed
      BY <2>1, PlainLabels
    <3>2. use[f] = Fixed <=> \E p \in DOMAIN V.own : V.own[p] = f
      BY <1>1 DEF Labelled
    <3> QED
      BY <1>2, <3>1, <3>2 DEF OwnAt
  <2>3. /\ own[f] = Boot <=> f = boot_directory
        /\ own[f] = Directory <=> f \in DirsOf(tasks)
    BY <1>1, <2>1, PlainLabels DEF Labelled
  <2>4. own[f] # Free <=> vm.bitmap[f] \in {"KERNEL", "USER"}
    BY <1>1 DEF Marked
  <2>5. use[f] \in {Free, Fixed, Directory, Boot} \union {Pag(h, p) : h \in Home, p \in Page}
    BY <1>1 DEF Labelled
  <2>6. CASE use[f] \in {Free, Fixed, Directory, Boot}
    BY <2>1, <2>2, <2>3, <2>4, <2>6, PlainLabels
  <2>7. CASE use[f] \in {Pag(h, p) : h \in Home, p \in Page}
    <3>1. PICK h \in Home, p \in Page : use[f] = Pag(h, p)
      BY <2>7
    <3>2. own[f] = Pag(h, p)
      <4> DEFINE l == own[f]
      <4>1. Plain(l) = Pag(h, p)
        BY <2>1, <3>1
      <4> HIDE DEF l
      <4>2. l = Pag(h, p)
        BY <4>1, PlainLabels
      <4> QED
        BY <4>2 DEF l
    <3>3. \E k \in Home, q \in Page : own[f] = Pag(k, q)
      BY <3>2
    <3> QED
      BY <2>2, <2>3, <2>4, <3>3
  <2> QED
    BY <2>5, <2>6, <2>7
<1>4. boot_directory \in Page /\ vm.page_directory \in Page /\ IsDir(own, vm.page_directory)
  BY StateFields DEF Arranged, Layout, Raw
<1>5. own[boot_directory] = Boot
  BY <1>3, <1>4
<1>6. DirsOf(tasks) \subseteq Page
  BY DEF Arranged, Layout
<1>7. \A f : f \in DirsOf(tasks) <=> \E pid \in DOMAIN tasks : f = DirOf(tasks[pid])
  BY DEF DirsOf
<1>8. ASSUME NEW pid \in DOMAIN tasks
      PROVE  /\ DirOf(tasks[pid]) \in Page /\ own[DirOf(tasks[pid])] = Directory
             /\ DirOf(tasks[pid]) # boot_directory /\ DirOf(tasks[pid]) # Kernel
  <2>1. DirOf(tasks[pid]) \in DirsOf(tasks)
    BY <1>7
  <2>2. DirOf(tasks[pid]) \in Page /\ own[DirOf(tasks[pid])] = Directory
    BY <1>3, <1>6, <2>1
  <2> QED
    BY <1>5, <2>2, KernelHome, Labels
<1> QED
  BY <1>3, <1>4, <1>5, <1>7, <1>8

\* The frame behind a page that only one directory maps.
LEMMA RawFrame ==
  ASSUME NEW m, NEW own, NEW mp, Raw(m, own, mp), NEW d \in Page, NEW p \in Page,
         T(p) \notin KernelTables, mp[d][p] # Hole
  PROVE  FrameAt([m EXCEPT !.page_directory = d], pmm_get_address(p)) = mp[d][p]
<1> DEFINE n == [m EXCEPT !.page_directory = d]
           a == pmm_get_address(p)
<1>1. m \in MemoryState /\ Covered(own, mp)
  BY DEF Raw
<1>2. n.page_directory = d /\ n.tables = m.tables
  BY <1>1 DEF MemoryState
<1>3. T(p) \in Index /\ I(p) \in Index /\ PageAt(T(p), I(p)) = p
  BY PlaceOfPage
<1>4. TableOf(a) = T(p) /\ PageIndexOf(a) = I(p)
  BY AddressOfPage
<1>5. HomeOf(d, T(p)) = d /\ d \in Home
  BY DEF HomeOf, Home, Page
<1>6. PICK f \in Page : own[f] = Tab(d, T(p))
  BY <1>1, <1>5 DEF Covered
<1>7. IsDir(own, d) /\ T(p) # LastEntry /\ m.tables[d][T(p)].pr /\ m.tables[d][T(p)].page = f
  BY <1>3, <1>5, <1>6, RawTable
<1>8. EntryShows(m.tables[f][I(p)], mp[d][p])
  BY <1>3, <1>5, <1>7, RawEntry
<1> HIDE DEF n, a
<1>9. FrameAt(n, a) = m.tables[f][I(p)].page
  BY <1>2, <1>4, <1>7 DEF FrameAt, Dir
<1>10. FrameAt(n, a) = mp[d][p]
  BY <1>8, <1>9 DEF EntryShows
<1> QED
  BY <1>10 DEF n, a

LEMMA SafeFaults ==
  ASSUME Safe
  PROVE  FaultsOnlyWhenShort
<1>1. CASE vm.short
  BY <1>1 DEF FaultsOnlyWhenShort
<1>2. CASE ~ vm.short
  <2>1. PICK V : Settles(vm, tasks, boot_directory, V)
    BY <1>2 DEF Safe, TasksPlaced
  <2>2. ~ vm.fault
    BY <2>1, SettlesRunning
  <2> QED
    BY <2>2 DEF FaultsOnlyWhenShort
<1> QED
  BY <1>1, <1>2

LEMMA SafeTables ==
  ASSUME Safe, ~ vm.short
  PROVE  KernelTablesAgree
<1>1. PICK own, use, mp, V : Arranged(own, use, mp, V)
  BY SafeArranged
<1>2. Raw(vm, own, mp)
  BY <1>1 DEF Arranged
<1>3. ASSUME NEW pid \in DOMAIN tasks, NEW i \in KernelTables, vm.tables[DirOf(tasks[pid])][i].pr
      PROVE  vm.tables[DirOf(tasks[pid])][i] = vm.tables[vm.page_directory][i]
  <2> DEFINE d == DirOf(tasks[pid])
             c == vm.page_directory
             f == vm.tables[d][i].page
  <2>1. d \in Page /\ c \in Page /\ IsDir(own, d) /\ IsDir(own, c)
    BY <1>1, ArrangedLabels DEF IsDir
  <2>2. i \in Index /\ i # LastEntry /\ HomeOf(d, i) = Kernel /\ HomeOf(c, i) = Kernel
    BY Indices DEF HomeOf
  <2>3. vm.tables[d][i].pr
    BY <1>3
  <2> HIDE DEF d, c
  <2>4. f \in Page /\ own[f] = Tab(Kernel, i)
    BY <1>2, <2>1, <2>2, <2>3, RawEntry
  <2>5. vm.tables[c][i].pr /\ vm.tables[c][i].page = f
    BY <1>2, <2>1, <2>2, <2>4, RawTable DEF c
  <2>6. vm.tables[c][i].user /\ vm.tables[d][i].user
    <3>1. Rows(vm, own)
      BY <1>2 DEF Raw
    <3>2. EntryFits(own, d, i, vm.tables[d][i]) /\ EntryFits(own, c, i, vm.tables[c][i])
      BY <2>1, <2>2, <3>1 DEF Rows
    <3> QED
      BY <2>2, <2>3, <2>5, <3>2 DEF EntryFits, Absent
  <2>7. vm.tables[c][i] \in Entry /\ vm.tables[d][i] \in Entry
    BY <1>2, <2>1, <2>2, EntryTyped DEF Raw
  <2>8. vm.tables[d][i] = vm.tables[c][i]
    BY <2>3, <2>5, <2>6, <2>7 DEF Entry
  <2> QED
    BY <2>8 DEF d, c
<1> QED
  BY <1>3 DEF KernelTablesAgree

(* What a frame is used for, by its label.                                 *)
PidOf(d) == CHOOSE pid \in DOMAIN tasks : DirOf(tasks[pid]) = d
OwnerOf(p) == CHOOSE pid \in DOMAIN tasks : p \in KernelPagesOf(tasks[pid])
UseOf(l, f) ==
  IF l = Fixed THEN <<IF f \in Image THEN "image" ELSE "video", f, f>>
  ELSE IF l = Boot THEN <<"directory", 0, f>>
  ELSE IF l = Directory THEN <<"directory", PidOf(f), f>>
  ELSE IF IsTab(l) THEN IF l[2] = Kernel THEN <<"kernel table", l[3], f>>
                        ELSE IF l[2] = boot_directory THEN <<"low table", 0, f>>
                        ELSE <<"table", <<PidOf(l[2]), l[3]>>, f>>
  ELSE <<"page", <<IF l[2] = Kernel THEN OwnerOf(l[3]) ELSE PidOf(l[2]), l[3]>>, f>>

\* The labels of tables and of pages tell their use.
LEMMA UseOfTable ==
  ASSUME NEW h, NEW t, NEW f
  PROVE  UseOf(Tab(h, t), f) = IF h = Kernel THEN <<"kernel table", t, f>>
                               ELSE IF h = boot_directory THEN <<"low table", 0, f>>
                               ELSE <<"table", <<PidOf(h), t>>, f>>
<1> DEFINE l == Tab(h, t)
<1>1. l[2] = h /\ l[3] = t /\ IsTab(l) /\ l # Fixed /\ l # Boot /\ l # Directory
  BY Labels DEF Tab
<1> HIDE DEF l
<1>2. UseOf(l, f) = IF h = Kernel THEN <<"kernel table", t, f>>
                    ELSE IF h = boot_directory THEN <<"low table", 0, f>>
                    ELSE <<"table", <<PidOf(h), t>>, f>>
  BY <1>1, Zenon DEF UseOf
<1> QED
  BY <1>2 DEF l

LEMMA UseOfPage ==
  ASSUME NEW h, NEW p, NEW f
  PROVE  UseOf(Pag(h, p), f) = <<"page", <<IF h = Kernel THEN OwnerOf(p) ELSE PidOf(h), p>>, f>>
<1> DEFINE l == Pag(h, p)
<1>1. l[2] = h /\ l[3] = p /\ ~ IsTab(l) /\ l # Fixed /\ l # Boot /\ l # Directory
  BY Labels DEF Pag
<1> HIDE DEF l
<1>2. UseOf(l, f) = <<"page", <<IF h = Kernel THEN OwnerOf(p) ELSE PidOf(h), p>>, f>>
  BY <1>1, Zenon DEF UseOf
<1> QED
  BY <1>2 DEF l

LEMMA UseOfLabels ==
  /\ \A f : /\ UseOf(Boot, f) = <<"directory", 0, f>>
            /\ UseOf(Directory, f) = <<"directory", PidOf(f), f>>
  /\ \A f : f \in Image => UseOf(Fixed, f) = <<"image", f, f>>
  /\ \A f : f \notin Image => UseOf(Fixed, f) = <<"video", f, f>>
BY Labels DEF UseOf

LEMMA PidOfTask ==
  ASSUME NEW own, NEW use, NEW mp, NEW V, Arranged(own, use, mp, V), NEW pid \in DOMAIN tasks
  PROVE  PidOf(DirOf(tasks[pid])) = pid
<1>1. \A p, q \in DOMAIN tasks : DirOf(tasks[p]) = DirOf(tasks[q]) => p = q
  BY DEF Arranged
<1>2. \E q \in DOMAIN tasks : DirOf(tasks[q]) = DirOf(tasks[pid])
  OBVIOUS
<1>3. PidOf(DirOf(tasks[pid])) \in DOMAIN tasks /\ DirOf(tasks[PidOf(DirOf(tasks[pid]))]) = DirOf(tasks[pid])
  BY <1>2 DEF PidOf
<1> QED
  BY <1>1, <1>3

\* The kernel's pages of a task are those of its structure and its stack.
LEMMA KernelBlocks ==
  ASSUME NEW own, NEW use, NEW mp, NEW V, Arranged(own, use, mp, V), NEW pid \in DOMAIN tasks
  PROVE  \A p : p \in KernelPagesOf(tasks[pid]) <=>
           \E b \in TaskBlocks(pid, tasks[pid]) : b.home = Kernel /\ p \in PagesIn(b)
<1> DEFINE t == tasks[pid]
<1>1. Shape(t) /\ DirOf(t) # Kernel /\ TaskBlocks(pid, t) \subseteq BlocksOf(tasks)
  BY ArrangedLabels, TaskOwns DEF Arranged
<1>2. Memory(vm, DirsOf(tasks), LowsOf(tasks), BlocksOf(tasks), V, boot_directory)
  BY DEF Arranged
<1> HIDE DEF t
<1>3. /\ PageSet(t.at, TaskLength) = PagesIn(StructureBlock(pid, t))
      /\ PageSet(t.kernel_stack, t.kernel_stack_len) = PagesIn(KernelStackBlock(pid, t))
  BY <1>1, <1>2, KernelPagesBlocks
<1>4. StructureBlock(pid, t).home = Kernel /\ KernelStackBlock(pid, t).home = Kernel
  BY DEF StructureBlock, KernelStackBlock, Block
<1>5. \A b \in UserBlocks(pid, t) : b.home # Kernel
  BY <1>1, UserHome
<1>6. \A b : b \in TaskBlocks(pid, t) /\ b.home = Kernel <=>
              b \in {StructureBlock(pid, t), KernelStackBlock(pid, t)}
  BY <1>4, <1>5 DEF TaskBlocks
<1>7. \A p : p \in KernelPagesOf(t) <=>
        p \in PagesIn(StructureBlock(pid, t)) \/ p \in PagesIn(KernelStackBlock(pid, t))
  BY <1>3 DEF KernelPagesOf
<1>8. \A p : p \in KernelPagesOf(t) <=>
           \E b \in TaskBlocks(pid, t) : b.home = Kernel /\ p \in PagesIn(b)
  BY <1>6, <1>7
<1> QED
  BY <1>8 DEF t

LEMMA OwnerOfPage ==
  ASSUME NEW own, NEW use, NEW mp, NEW V, Arranged(own, use, mp, V), NEW pid \in DOMAIN tasks,
         NEW p \in KernelPagesOf(tasks[pid])
  PROVE  OwnerOf(p) = pid
<1>1. \E q \in DOMAIN tasks : p \in KernelPagesOf(tasks[q])
  OBVIOUS
<1> DEFINE o == OwnerOf(p)
<1>2. o \in DOMAIN tasks /\ p \in KernelPagesOf(tasks[o])
  BY <1>1 DEF OwnerOf
<1> HIDE DEF o
<1>3. PICK b \in TaskBlocks(pid, tasks[pid]) : b.home = Kernel /\ p \in PagesIn(b)
  BY KernelBlocks
<1>4. PICK c \in TaskBlocks(o, tasks[o]) : c.home = Kernel /\ p \in PagesIn(c)
  BY <1>2, KernelBlocks
<1>5. b \in BlocksOf(tasks) /\ c \in BlocksOf(tasks)
  BY <1>2, TaskOwns
<1>6. b = c
  BY <1>3, <1>4, <1>5 DEF Arranged, Layout, Apart
<1>7. o = pid
  BY <1>6, BlocksApart
<1> QED
  BY <1>7 DEF o

\* Frame u[3] is marked as used, and its label tells that u is its use.
Known(own, u) ==
  u[3] \in Page /\ own[u[3]] # Free /\ u = UseOf(own[u[3]], u[3])

LEMMA KnownAt ==
  ASSUME NEW own, NEW f \in Page, NEW l, own[f] = l, l # Free, NEW a, NEW k, UseOf(l, f) = <<a, k, f>>
  PROVE  Known(own, <<a, k, f>>)
BY DEF Known

LEMMA ImageVideo ==
  /\ PageSet(ENTRIES * PageSize, KernelEnd - ENTRIES * PageSize) = Image
  /\ PageSet(Video, VideoLength) = VideoFrames
  /\ \A f : f \in OwnFrames <=> f \in Image \/ f \in VideoFrames
  /\ \A f \in VideoFrames : f \notin Image
<1>1. /\ PageSet(ENTRIES * PageSize, KernelEnd - ENTRIES * PageSize) = Image
      /\ PageSet(Video, VideoLength) = VideoFrames
  BY ImagePlace, VideoFramesPlace DEF PageSet
<1>2. \A f \in VideoFrames : f \notin Image
  BY VideoAboveImage
<1> QED
  BY <1>1, <1>2 DEF OwnFrames

\* The tables of a directory.
LEMMA TablesKnown ==
  ASSUME NEW own, NEW mp, Raw(vm, own, mp), NEW d \in Page, IsDir(own, d), NEW S,
         NEW e \in Tables(d, S), \A i \in S : i \in Index /\ i # LastEntry
  PROVE  \E i \in S, f \in Page : e = <<i, f>> /\ own[f] = Tab(HomeOf(d, i), i)
<1>1. PICK i \in S : vm.tables[d][i].pr /\ e = <<i, vm.tables[d][i].page>>
  BY DEF Tables
<1>2. vm.tables[d][i].page \in Page /\ own[vm.tables[d][i].page] = Tab(HomeOf(d, i), i)
  BY <1>1, RawEntry
<1> QED
  BY <1>1, <1>2

LEMMA KernelUsesKnown ==
  ASSUME NEW own, NEW use, NEW mp, NEW V, Arranged(own, use, mp, V), NEW u \in KernelUses
  PROVE  Known(own, u)
<1>0. Raw(vm, own, mp)
  BY DEF Arranged
<1>1. CASE u \in {<<"image", p, p>> : p \in PageSet(ENTRIES * PageSize, KernelEnd - ENTRIES * PageSize)}
  <2>1. PICK p \in Image : u = <<"image", p, p>>
    BY <1>1, ImageVideo
  <2>2. p \in Page /\ p \in OwnFrames
    BY ImageVideo, ImageTables
  <2>3. own[p] = Fixed /\ Fixed # Free
    BY <2>2, ArrangedLabels, Labels
  <2>4. UseOf(Fixed, p) = <<"image", p, p>>
    BY UseOfLabels
  <2> QED
    BY <2>1, <2>2, <2>3, <2>4, KnownAt
<1>2. CASE u \in {<<"video", p, p>> : p \in PageSet(Video, VideoLength)}
  <2>1. PICK p \in VideoFrames : u = <<"video", p, p>>
    BY <1>2, ImageVideo
  <2>2. p \in Page /\ p \in OwnFrames /\ p \notin Image
    BY ImageVideo, VideoFramesPlace
  <2>3. own[p] = Fixed /\ Fixed # Free
    BY <2>2, ArrangedLabels, Labels
  <2>4. UseOf(Fixed, p) = <<"video", p, p>>
    BY <2>2, UseOfLabels
  <2> QED
    BY <2>1, <2>2, <2>3, <2>4, KnownAt
<1>3. CASE u = <<"directory", 0, boot_directory>>
  <2>1. boot_directory \in Page /\ own[boot_directory] = Boot /\ Boot # Free
    BY ArrangedLabels, Labels
  <2>2. UseOf(Boot, boot_directory) = <<"directory", 0, boot_directory>>
    BY UseOfLabels
  <2> QED
    BY <1>3, <2>1, <2>2, KnownAt
<1>4. CASE u \in {<<"low table", 0, e[2]>> : e \in Tables(boot_directory, {0})}
  <2>1. PICK e \in Tables(boot_directory, {0}) : u = <<"low table", 0, e[2]>>
    BY <1>4
  <2>2. boot_directory \in Page /\ IsDir(own, boot_directory) /\ boot_directory # Kernel
    BY ArrangedLabels, KernelHome DEF IsDir
  <2>3. (\A i \in {0} : i \in Index /\ i # LastEntry) /\ HomeOf(boot_directory, 0) = boot_directory
    BY Indices DEF HomeOf
  <2>4. PICK i \in {0}, f \in Page : e = <<i, f>> /\ own[f] = Tab(HomeOf(boot_directory, i), i)
    BY <1>0, <2>1, <2>2, <2>3, TablesKnown
  <2>5. own[f] = Tab(boot_directory, 0) /\ u = <<"low table", 0, f>>
    BY <2>1, <2>3, <2>4
  <2>6. UseOf(Tab(boot_directory, 0), f) = <<"low table", 0, f>>
    BY <2>2, UseOfTable
  <2>7. Tab(boot_directory, 0) # Free
    BY Labels
  <2> QED
    BY <2>5, <2>6, <2>7, KnownAt
<1>5. CASE u \in {<<"kernel table", e[1], e[2]>> : e \in Tables(vm.page_directory, KernelTables)}
  <2>1. PICK e \in Tables(vm.page_directory, KernelTables) : u = <<"kernel table", e[1], e[2]>>
    BY <1>5
  <2>2. vm.page_directory \in Page /\ IsDir(own, vm.page_directory)
    BY ArrangedLabels
  <2>3. \A i \in KernelTables : i \in Index /\ i # LastEntry
    BY Indices
  <2>4. PICK i \in KernelTables, f \in Page :
          e = <<i, f>> /\ own[f] = Tab(HomeOf(vm.page_directory, i), i)
    <3> DEFINE d == vm.page_directory
               S == KernelTables
    <3>1. d \in Page /\ IsDir(own, d) /\ e \in Tables(d, S) /\ \A i \in S : i \in Index /\ i # LastEntry
      BY <2>1, <2>2, <2>3
    <3> HIDE DEF d, S
    <3>2. \E i \in S, f \in Page : e = <<i, f>> /\ own[f] = Tab(HomeOf(d, i), i)
      BY <1>0, <3>1, TablesKnown
    <3> QED
      BY <3>2 DEF d, S
  <2>5. own[f] = Tab(Kernel, i) /\ u = <<"kernel table", i, f>>
    BY <2>1, <2>4 DEF HomeOf
  <2>6. UseOf(Tab(Kernel, i), f) = <<"kernel table", i, f>>
    BY UseOfTable
  <2>7. Tab(Kernel, i) # Free
    BY Labels
  <2> QED
    BY <2>5, <2>6, <2>7, KnownAt
<1> QED
  BY <1>1, <1>2, <1>3, <1>4, <1>5 DEF KernelUses

\* The pages of a block are mapped to the frames that are labelled with them.
LEMMA BlockFrames ==
  ASSUME NEW own, NEW use, NEW mp, NEW V, Arranged(own, use, mp, V), NEW b \in BlocksOf(tasks),
         NEW p \in PagesIn(b)
  PROVE  /\ p \in HomeDomain(b.home) /\ b.home \in Home
         /\ mp[b.home][p] \in Page /\ own[mp[b.home][p]] = Pag(b.home, p)
<1>1. Memory(vm, DirsOf(tasks), LowsOf(tasks), BlocksOf(tasks), V, boot_directory)
  BY DEF Arranged
<1>2. /\ b.home \in DirsOf(tasks) \union {Kernel} /\ b.page \in Page /\ b.count \in Nat \ {0}
      /\ b.page + b.count <= PageNumber /\ PagesIn(b) \subseteq HomeDomain(b.home)
  BY <1>1, MemoryBlocks
<1>3. b.home \in Home
  BY <1>1, <1>2, MemoryTyped, KernelHome
<1>4. Placed(use, mp, BlocksOf(tasks))
  BY DEF Arranged, Layout
<1> DEFINE f == FrameOf(mp, b) + (p - b.page)
<1>5. /\ FrameOf(mp, b) \in Page /\ FrameOf(mp, b) + b.count <= PageNumber
      /\ mp[b.home][p] = f /\ use[f] = Pag(b.home, p)
  BY <1>4 DEF Placed
<1>6. f \in Page
  BY <1>2, <1>5 DEF Page, PagesIn
<1> HIDE DEF f
<1>7. Plain(own[f]) = Pag(b.home, p)
  BY <1>5, <1>6 DEF Arranged
<1> DEFINE l == own[f]
<1>8. Plain(l) = Pag(b.home, p)
  BY <1>7
<1> HIDE DEF l
<1>9. l = Pag(b.home, p)
  BY <1>8, PlainLabels
<1>10. own[f] = Pag(b.home, p)
  BY <1>9 DEF l
<1> QED
  BY <1>2, <1>3, <1>5, <1>6, <1>10

\* The frames of the pages that a task has allocated.
LEMMA KernelPageFrame ==
  ASSUME NEW own, NEW use, NEW mp, NEW V, Arranged(own, use, mp, V), NEW pid \in DOMAIN tasks,
         NEW p \in KernelPagesOf(tasks[pid])
  PROVE  LET f == FrameIn(vm.page_directory, pmm_get_address(p))
         IN  f \in Page /\ own[f] = Pag(Kernel, p) /\ f = mp[Kernel][p]
<1>1. PICK b \in TaskBlocks(pid, tasks[pid]) : b.home = Kernel /\ p \in PagesIn(b)
  BY KernelBlocks
<1>2. b \in BlocksOf(tasks)
  BY <1>1, TaskOwns
<1>3. /\ p \in HomeDomain(Kernel) /\ mp[Kernel][p] \in Page /\ own[mp[Kernel][p]] = Pag(Kernel, p)
  BY <1>1, <1>2, BlockFrames
<1>4. p \in Page /\ T(p) \in KernelTables /\ T(p) # LastEntry
  BY <1>3, HomePlace
<1>5. HomeOf(vm.page_directory, T(p)) = Kernel /\ mp[Kernel][p] # Hole
  BY <1>3, <1>4, KernelHome DEF HomeOf
<1>6. Raw(vm, own, mp)
  BY DEF Arranged
<1>7. FrameAt(vm, pmm_get_address(p)) = mp[Kernel][p]
  BY <1>4, <1>5, <1>6, RawMapped
<1>8. [vm EXCEPT !.page_directory = vm.page_directory] = vm
  BY <1>6 DEF Raw, MemoryState
<1>9. FrameIn(vm.page_directory, pmm_get_address(p)) = mp[Kernel][p]
  BY <1>7, <1>8 DEF FrameIn
<1> QED
  BY <1>3, <1>9

LEMMA UserPageFrame ==
  ASSUME Proper, NEW own, NEW use, NEW mp, NEW V, Arranged(own, use, mp, V), NEW pid \in DOMAIN tasks,
         NEW p \in UserPagesOf(tasks[pid])
  PROVE  LET d == DirOf(tasks[pid])
             f == FrameIn(d, pmm_get_address(p))
         IN  f \in Page /\ own[f] = Pag(d, p) /\ f = mp[d][p]
<1> DEFINE t == tasks[pid]
           d == DirOf(t)
<1>1. Shape(t) /\ d # Kernel /\ d \in Page /\ TaskBlocks(pid, t) \subseteq BlocksOf(tasks)
  BY ArrangedLabels, TaskOwns DEF Arranged
<1>2. Memory(vm, DirsOf(tasks), LowsOf(tasks), BlocksOf(tasks), V, boot_directory)
  BY DEF Arranged
<1>3. p \in UserPagesOf(t)
  OBVIOUS
<1> HIDE DEF t
<1>4. PICK b \in UserBlocks(pid, t) : p \in PagesIn(b)
  BY <1>1, <1>2, <1>3, UserPagesBlocks
<1>5. b.home = d /\ b \in BlocksOf(tasks)
  BY <1>1, <1>4, UserHome DEF TaskBlocks
<1>6. p \in HomeDomain(d) /\ mp[d][p] \in Page /\ own[mp[d][p]] = Pag(d, p)
  BY <1>4, <1>5, BlockFrames
<1>7. p \in Page /\ T(p) \notin KernelTables /\ mp[d][p] # Hole
  BY <1>1, <1>6, HomePlace, KernelHome
<1>8. Raw(vm, own, mp)
  BY DEF Arranged
<1> HIDE DEF d
<1>9. FrameIn(d, pmm_get_address(p)) = mp[d][p]
  BY <1>1, <1>7, <1>8, RawFrame DEF FrameIn
<1>10. LET f == FrameIn(d, pmm_get_address(p))
       IN  f \in Page /\ own[f] = Pag(d, p) /\ f = mp[d][p]
  BY <1>6, <1>9
<1> QED
  BY <1>10 DEF d, t

LEMMA TaskUsesKnown ==
  ASSUME Proper, NEW own, NEW use, NEW mp, NEW V, Arranged(own, use, mp, V), NEW pid \in DOMAIN tasks,
         NEW u \in TaskUses(pid)
  PROVE  Known(own, u)
<1> DEFINE t == tasks[pid]
           d == DirOf(t)
<1>0. /\ Raw(vm, own, mp) /\ d \in Page /\ own[d] = Directory /\ d # boot_directory /\ d # Kernel
      /\ PidOf(d) = pid
  BY ArrangedLabels, PidOfTask DEF Arranged
<1>1. CASE u = <<"directory", pid, d>>
  <2>1. UseOf(Directory, d) = <<"directory", pid, d>>
    BY <1>0, UseOfLabels
  <2>2. Directory # Free
    BY Labels
  <2> QED
    BY <1>0, <1>1, <2>1, <2>2, KnownAt
<1>2. CASE u \in {<<"table", <<pid, e[1]>>, e[2]>> : e \in Tables(d, {0} \union UserTables)}
  <2> DEFINE S == {0} \union UserTables
  <2>1. PICK e \in Tables(d, S) : u = <<"table", <<pid, e[1]>>, e[2]>>
    BY <1>2
  <2>2. \A i \in S : i \in Index /\ i # LastEntry /\ HomeOf(d, i) = d
    BY Indices DEF HomeOf
  <2>3. IsDir(own, d)
    BY <1>0 DEF IsDir
  <2> HIDE DEF d, S
  <2>4. PICK i \in S, f \in Page : e = <<i, f>> /\ own[f] = Tab(HomeOf(d, i), i)
    BY <1>0, <2>1, <2>2, <2>3, TablesKnown
  <2>5. own[f] = Tab(d, i) /\ u = <<"table", <<pid, i>>, f>>
    BY <2>1, <2>2, <2>4
  <2>6. UseOf(Tab(d, i), f) = <<"table", <<pid, i>>, f>>
    <3>1. d \notin {Kernel, boot_directory}
      BY <1>0
    <3>2. UseOf(Tab(d, i), f) = <<"table", <<PidOf(d), i>>, f>>
      BY <3>1, UseOfTable
    <3> QED
      BY <1>0, <3>2
  <2>7. Tab(d, i) # Free
    BY Labels
  <2> QED
    BY <2>5, <2>6, <2>7, KnownAt
<1>3. CASE u \in {<<"page", <<pid, p>>, FrameIn(d, pmm_get_address(p))>> : p \in UserPagesOf(t)}
  <2>1. PICK p \in UserPagesOf(t) : u = <<"page", <<pid, p>>, FrameIn(d, pmm_get_address(p))>>
    BY <1>3
  <2> DEFINE f == FrameIn(d, pmm_get_address(p))
  <2>2. f \in Page /\ own[f] = Pag(d, p)
    BY <2>1, UserPageFrame
  <2> HIDE DEF d, f
  <2>3. UseOf(Pag(d, p), f) = <<"page", <<PidOf(d), p>>, f>>
    BY <1>0, UseOfPage
  <2>4. UseOf(Pag(d, p), f) = <<"page", <<pid, p>>, f>> /\ u = <<"page", <<pid, p>>, f>>
    BY <1>0, <2>1, <2>3 DEF f
  <2>5. Pag(d, p) # Free
    BY Labels
  <2> QED
    BY <2>2, <2>4, <2>5, KnownAt
<1>4. CASE u \in {<<"page", <<pid, p>>, FrameIn(vm.page_directory, pmm_get_address(p))>> :
                    p \in KernelPagesOf(t)}
  <2>1. PICK p \in KernelPagesOf(t) :
          u = <<"page", <<pid, p>>, FrameIn(vm.page_directory, pmm_get_address(p))>>
    BY <1>4
  <2> DEFINE f == FrameIn(vm.page_directory, pmm_get_address(p))
  <2>2. f \in Page /\ own[f] = Pag(Kernel, p)
    BY <2>1, KernelPageFrame
  <2>3. OwnerOf(p) = pid
    BY <2>1, OwnerOfPage
  <2> HIDE DEF d, f
  <2>4. UseOf(Pag(Kernel, p), f) = <<"page", <<OwnerOf(p), p>>, f>>
    BY UseOfPage
  <2>5. UseOf(Pag(Kernel, p), f) = <<"page", <<pid, p>>, f>> /\ u = <<"page", <<pid, p>>, f>>
    BY <2>1, <2>3, <2>4 DEF f
  <2>6. Pag(Kernel, p) # Free
    BY Labels
  <2> QED
    BY <2>2, <2>5, <2>6, KnownAt
<1> QED
  BY <1>1, <1>2, <1>3, <1>4 DEF TaskUses

LEMMA SafeShared ==
  ASSUME Proper, Safe, ~ vm.short
  PROVE  NothingShared
<1>1. PICK own, use, mp, V : Arranged(own, use, mp, V)
  BY SafeArranged
<1>2. \A u \in KernelUses : Known(own, u)
  BY <1>1, KernelUsesKnown
<1>3. \A pid \in DOMAIN tasks : \A u \in TaskUses(pid) : Known(own, u)
  BY <1>1, TaskUsesKnown
<1>4. \A u \in Uses : Known(own, u)
  BY <1>2, <1>3 DEF Uses
<1>5. ASSUME NEW u \in Uses, NEW w \in Uses, u[3] = w[3]
      PROVE  u = w
  <2>1. u = UseOf(own[u[3]], u[3]) /\ w = UseOf(own[w[3]], w[3])
    BY <1>4 DEF Known
  <2> QED
    BY <1>5, <2>1
<1>6. ASSUME NEW u \in Uses
      PROVE  vm.bitmap[u[3]] \in {"KERNEL", "USER"}
  <2>1. u[3] \in Page /\ own[u[3]] # Free
    BY <1>4 DEF Known
  <2> QED
    BY <1>1, <2>1, ArrangedLabels
<1> QED
  BY <1>5, <1>6 DEF NothingShared

\* The tables that a directory has.
LEMMA TablesOfFrame ==
  ASSUME NEW own, NEW mp, Raw(vm, own, mp), NEW f \in Page, NEW h \in Home, NEW t \in Index,
         own[f] = Tab(h, t)
  PROVE  /\ HomeOf(DirFor(vm, h), t) = h /\ t # LastEntry /\ IsDir(own, DirFor(vm, h))
         /\ own[DirFor(vm, h)] = Boot => t \in KernelTables \union {0}
         /\ \A S : t \in S => <<t, f>> \in Tables(DirFor(vm, h), S)
<1>1. Reference(vm, own, DirFor(vm, h), t, f) /\ HomeOf(DirFor(vm, h), t) = h
  BY DEF Raw, Referred
<1> DEFINE d == DirFor(vm, h)
<1>2. /\ t # LastEntry /\ IsDir(own, d) /\ (own[d] = Boot => t \in KernelTables \union {0})
      /\ vm.tables[d][t].pr /\ vm.tables[d][t].page = f
  BY <1>1 DEF Reference
<1> HIDE DEF d
<1>3. ASSUME NEW S, t \in S PROVE <<t, f>> \in Tables(d, S)
  BY <1>2, <1>3 DEF Tables
<1>4. /\ t # LastEntry /\ IsDir(own, d) /\ (own[d] = Boot => t \in KernelTables \union {0})
      /\ \A S : t \in S => <<t, f>> \in Tables(d, S)
  BY <1>2, <1>3
<1> QED
  BY <1>1, <1>4 DEF d

\* A frame serves a purpose.
Serves(f) == \E u \in Uses : u[3] = f

LEMMA ServesAs ==
  ASSUME NEW f, NEW a, NEW k
  PROVE  /\ <<a, k, f>> \in KernelUses => Serves(f)
         /\ \A pid \in DOMAIN tasks : <<a, k, f>> \in TaskUses(pid) => Serves(f)
<1>1. <<a, k, f>>[3] = f
  OBVIOUS
<1> DEFINE u == <<a, k, f>>
<1>2. u[3] = f
  BY <1>1
<1> HIDE DEF u
<1>3. /\ u \in KernelUses => Serves(f)
      /\ \A pid \in DOMAIN tasks : u \in TaskUses(pid) => Serves(f)
  BY <1>2 DEF Uses, Serves
<1> QED
  BY <1>3 DEF u

LEMMA FixedServes ==
  ASSUME NEW f \in OwnFrames
  PROVE  Serves(f)
<1>1. CASE f \in Image
  <2>1. <<"image", f, f>> \in KernelUses
    BY <1>1, ImageVideo DEF KernelUses
  <2> QED
    BY <2>1, ServesAs
<1>2. CASE f \in VideoFrames
  <2>1. <<"video", f, f>> \in KernelUses
    BY <1>2, ImageVideo DEF KernelUses
  <2> QED
    BY <2>1, ServesAs
<1> QED
  BY <1>1, <1>2, ImageVideo

LEMMA TableServes ==
  ASSUME NEW own, NEW use, NEW mp, NEW V, Arranged(own, use, mp, V), NEW f \in Page,
         NEW h \in Home, NEW t \in Index, own[f] = Tab(h, t)
  PROVE  Serves(f)
<1>1. Raw(vm, own, mp)
  BY DEF Arranged
<1> DEFINE d == DirFor(vm, h)
<1>2. /\ HomeOf(d, t) = h /\ t # LastEntry /\ IsDir(own, d)
      /\ own[d] = Boot => t \in KernelTables \union {0}
      /\ \A S : t \in S => <<t, f>> \in Tables(d, S)
  BY <1>1, TablesOfFrame
<1>3. vm.page_directory \in Page
  BY ArrangedLabels
<1>4. CASE h = Kernel
  <2>1. d = vm.page_directory /\ t \in KernelTables
    BY <1>2, <1>3, <1>4, KernelHome DEF DirFor, HomeOf
  <2>2. <<t, f>> \in Tables(vm.page_directory, KernelTables)
    BY <1>2, <2>1
  <2>3. <<t, f>>[1] = t /\ <<t, f>>[2] = f
    OBVIOUS
  <2>4. <<"kernel table", t, f>> \in KernelUses
    BY <2>2, <2>3 DEF KernelUses
  <2> QED
    BY <2>4, ServesAs
<1>5. CASE h # Kernel
  <2>1. d = h /\ t \notin KernelTables /\ h \in Page
    BY <1>2, <1>5, KernelHome DEF DirFor, HomeOf, Home, Kernel, Page
  <2>2. CASE own[h] = Boot
    <3>1. t = 0 /\ h = boot_directory
      BY <1>2, <2>1, <2>2, ArrangedLabels
    <3>2. <<0, f>> \in Tables(boot_directory, {0})
      BY <1>2, <2>1, <3>1
    <3>3. <<0, f>>[2] = f
      OBVIOUS
    <3>4. <<"low table", 0, f>> \in KernelUses
      BY <3>2, <3>3 DEF KernelUses
    <3> QED
      BY <3>4, ServesAs
  <2>3. CASE own[h] = Directory
    <3>1. PICK pid \in DOMAIN tasks : h = DirOf(tasks[pid])
      BY <2>1, <2>3, ArrangedLabels
    <3>2. t \in {0} \union UserTables
      BY <1>2, <2>1, Indices
    <3>3. <<t, f>> \in Tables(DirOf(tasks[pid]), {0} \union UserTables)
      BY <1>2, <2>1, <3>1, <3>2
    <3>4. <<t, f>>[1] = t /\ <<t, f>>[2] = f
      OBVIOUS
    <3>5. <<"table", <<pid, t>>, f>> \in TaskUses(pid)
      BY <3>3, <3>4 DEF TaskUses
    <3> QED
      BY <3>5, ServesAs
  <2> QED
    BY <1>2, <2>1, <2>2, <2>3 DEF IsDir
<1> QED
  BY <1>4, <1>5

LEMMA PageServes ==
  ASSUME Proper, NEW own, NEW use, NEW mp, NEW V, Arranged(own, use, mp, V), NEW f \in Page,
         NEW h \in Home, NEW p \in Page, own[f] = Pag(h, p)
  PROVE  Serves(f)
<1>1. use[f] = Pag(h, p)
  BY Labels DEF Arranged
<1>2. Sourced(use, mp, BlocksOf(tasks))
  BY DEF Arranged, Layout
<1>3. PICK b \in BlocksOf(tasks) : b.home = h /\ p \in PagesIn(b)
  BY <1>1, <1>2 DEF Sourced
<1>4. mp[h][p] = f
  BY <1>1, <1>2 DEF Sourced
<1>5. PICK pid \in DOMAIN tasks : b \in TaskBlocks(pid, tasks[pid])
  BY <1>3 DEF BlocksOf
<1> DEFINE t == tasks[pid]
<1>6. Raw(vm, own, mp) /\ mp[h][p] # Hole
  BY <1>4, KernelHome DEF Arranged
<1>7. CASE h = Kernel
  <2>1. p \in KernelPagesOf(t)
    BY <1>3, <1>5, <1>7, KernelBlocks
  <2> DEFINE g == FrameIn(vm.page_directory, pmm_get_address(p))
  <2>2. g \in Page /\ own[g] = Pag(Kernel, p)
    BY <2>1, KernelPageFrame
  <2>3. use[g] = Pag(Kernel, p)
    BY <2>2, Labels DEF Arranged
  <2>4. g = f
    BY <1>2, <1>4, <1>7, <2>2, <2>3, KernelHome DEF Sourced
  <2>5. <<"page", <<pid, p>>, g>> \in TaskUses(pid)
    BY <2>1 DEF TaskUses
  <2> HIDE DEF g
  <2> QED
    BY <2>4, <2>5, ServesAs
<1>8. CASE h # Kernel
  <2>1. /\ Shape(t) /\ TaskBlocks(pid, t) \subseteq BlocksOf(tasks)
        /\ Memory(vm, DirsOf(tasks), LowsOf(tasks), BlocksOf(tasks), V, boot_directory)
    BY TaskOwns DEF Arranged
  <2> HIDE DEF t
  <2>2. StructureBlock(pid, t).home = Kernel /\ KernelStackBlock(pid, t).home = Kernel
    BY DEF StructureBlock, KernelStackBlock, Block
  <2>3. b \in UserBlocks(pid, t)
    BY <1>3, <1>5, <1>8, <2>2 DEF TaskBlocks, t
  <2>4. h = DirOf(t)
    BY <1>3, <2>3, UserHome
  <2>5. p \in UserPagesOf(t)
    BY <1>3, <2>1, <2>3, UserPagesBlocks
  <2> DEFINE g == FrameIn(DirOf(t), pmm_get_address(p))
  <2>6. g \in Page /\ own[g] = Pag(h, p)
    BY <2>4, <2>5, UserPageFrame DEF t
  <2>7. use[g] = Pag(h, p)
    BY <2>6, Labels DEF Arranged
  <2>8. g = f
    BY <1>2, <1>4, <2>6, <2>7 DEF Sourced
  <2>9. <<"page", <<pid, p>>, g>> \in TaskUses(pid)
    BY <2>5 DEF TaskUses, t
  <2> HIDE DEF g
  <2> QED
    BY <2>8, <2>9, ServesAs
<1> QED
  BY <1>7, <1>8

LEMMA SafeLeaks ==
  ASSUME Proper, Safe, ~ vm.short
  PROVE  NothingLeaks
<1>1. PICK own, use, mp, V : Arranged(own, use, mp, V)
  BY SafeArranged
<1>2. ASSUME NEW f \in Page, vm.bitmap[f] \in {"KERNEL", "USER"}
      PROVE  Serves(f)
  <2>1. own[f] # Free
    BY <1>1, <1>2, ArrangedLabels
  <2>2. CASE own[f] = Fixed
    <3>1. f \in OwnFrames
      BY <1>1, <2>2, ArrangedLabels
    <3> QED
      BY <3>1, FixedServes
  <2>3. CASE own[f] = Boot
    <3>1. f = boot_directory
      BY <1>1, <2>3, ArrangedLabels
    <3>2. <<"directory", 0, f>> \in KernelUses
      BY <3>1 DEF KernelUses
    <3> QED
      BY <3>2, ServesAs
  <2>4. CASE own[f] = Directory
    <3>1. PICK pid \in DOMAIN tasks : f = DirOf(tasks[pid])
      BY <1>1, <2>4, ArrangedLabels
    <3>2. <<"directory", pid, f>> \in TaskUses(pid)
      BY <3>1 DEF TaskUses
    <3> QED
      BY <3>2, ServesAs
  <2>5. CASE IsTab(own[f])
    <3>1. Marked(vm, own)
      BY <1>1 DEF Arranged, Raw
    <3>2. PICK h \in Home, t \in Index : own[f] = Tab(h, t)
      BY <2>5, <3>1 DEF Marked
    <3> QED
      BY <1>1, <3>2, TableServes
  <2>6. CASE \E h \in Home, p \in Page : own[f] = Pag(h, p)
    BY <1>1, <2>6, PageServes
  <2> QED
    BY <1>1, <2>1, <2>2, <2>3, <2>4, <2>5, <2>6, ArrangedLabels
<1> QED
  BY <1>2 DEF NothingLeaks, Serves

-----------------------------------------------------------------------------
(* The theorems.                                                           *)

(* The bitmap, the tables, the tasks and the current task have their       *)
(* types, whatever the files are and even when the memory runs short or    *)
(* the kernel has panicked.                                                *)
THEOREM TypeCorrect == Spec => []TypeOK
<1>1. Init => TypeOK /\ Alive
  BY InitSafe
<1>2. TypeOK /\ Alive /\ [Next]_vars => (TypeOK /\ Alive)'
  <2> SUFFICES ASSUME TypeOK, Alive, [Next]_vars PROVE (TypeOK /\ Alive)'
    OBVIOUS
  <2>1. CASE Next
    BY <2>1, NextTyped
  <2>2. CASE UNCHANGED vars
    BY <2>2 DEF vars, TypeOK, Alive
  <2> QED
    BY <2>1, <2>2
<1> QED
  BY <1>1, <1>2, PTL DEF Spec

(* The inductive invariant.                                                *)
Inv == TypeOK /\ Alive /\ Safe

\* vmm_unmap gives no table away whose last page is in use.
LEMMA NextInv ==
  ASSUME Proper, Inv, TablesKept, [Next]_vars
  PROVE  Inv'
<1>0. TypeOK /\ Alive /\ Safe /\ (vm.short \/ LastPagesKept)
  BY DEF Inv, TablesKept
<1>1. CASE Next
  BY <1>0, <1>1, NextTyped, NextSafe DEF Inv
<1>2. CASE UNCHANGED vars
  <2>1. vm' = vm /\ tasks' = tasks /\ current_task' = current_task /\ boot_directory' = boot_directory
    BY <1>2 DEF vars
  <2>2. TypeOK' /\ Alive'
    BY <1>0, <2>1 DEF TypeOK, Alive
  <2>3. Safe'
    BY <1>0, <2>1 DEF Safe
  <2> QED
    BY <2>2, <2>3 DEF Inv
<1> QED
  BY <1>1, <1>2

(* Creating, running, switching between, stopping and destroying tasks     *)
(* keeps the memory laid out as the tasks need it, until it runs short: if *)
(* the files are as expected, and vmm_unmap is given no page that could    *)
(* leave the last entry of a table as the only one.                        *)
THEOREM Invariant ==
  ASSUME Proper
  PROVE  Spec /\ []TablesKept => []Inv
<1>1. Init => Inv
  BY InitSafe DEF Inv
<1>2. Inv /\ TablesKept /\ [Next]_vars => Inv'
  BY NextInv
<1> QED
  BY <1>1, <1>2, PTL DEF Spec

(* The kernel panics with a page fault only when an allocation had failed: *)
(* whatever directory is loaded, task_create_detailed,                     *)
(* schedule_switch_task and task_destroy find the structures and the       *)
(* stacks of all tasks mapped, and a task finds its segments.              *)
THEOREM FaultsAreShortages ==
  ASSUME Proper
  PROVE  Spec /\ []TablesKept => []FaultsOnlyWhenShort
<1>1. Inv => FaultsOnlyWhenShort
  BY SafeFaults DEF Inv
<1> QED
  BY <1>1, Invariant, PTL

(* Until an allocation fails, what pmm_alloc hands out for directories,    *)
(* tables, structures, stacks and segments is used by nobody else, and     *)
(* marked as used for as long as it is relied on.                          *)
THEOREM FramesUnshared ==
  ASSUME Proper
  PROVE  Spec /\ []TablesKept => [](vm.short \/ NothingShared)
<1>1. Inv => vm.short \/ NothingShared
  BY SafeShared DEF Inv
<1> QED
  BY <1>1, Invariant, PTL

(* Until an allocation fails, task_destroy, elf_unload and                 *)
(* vmm_destroy_page_directory give back every frame: a frame that is       *)
(* marked as used is relied on.                                            *)
THEOREM FramesNotLost ==
  ASSUME Proper
  PROVE  Spec /\ []TablesKept => [](vm.short \/ NothingLeaks)
<1>1. Inv => vm.short \/ NothingLeaks
  BY SafeLeaks DEF Inv
<1> QED
  BY <1>1, Invariant, PTL

(* Until an allocation fails, a directory that is not loaded refers to no  *)
(* kernel table that was freed or replaced while it was not: what it has   *)
(* missed is copied into it when it is loaded or modified.                 *)
THEOREM TablesAgree ==
  ASSUME Proper
  PROVE  Spec /\ []TablesKept => [](vm.short \/ KernelTablesAgree)
<1>1. Inv => vm.short \/ KernelTablesAgree
  BY SafeTables DEF Inv
<1> QED
  BY <1>1, Invariant, PTL

-----------------------------------------------------------------------------
(* The refinement: the memory of the kernel and of each task, and the      *)
(* frames that V tells.                                                    *)
PagesOfTask(t) == KernelPagesOf(t) \union UserPagesOf(t)

\* What is known of all memories that V tells the frames of.
Pictured(V) ==
  /\ DOMAIN Space = DOMAIN tasks \union {0}
  /\ Space = [o \in DOMAIN Space |-> Space[o]]
  /\ Space[0] = [p \in DOMAIN V.own |-> V.own[p]]
  /\ \A pid \in DOMAIN tasks :
       /\ Space[pid] = [p \in PagesOfTask(tasks[pid]) |-> Space[pid][p]]
       /\ \A p \in PagesOfTask(tasks[pid]) :
            \E b \in TaskBlocks(pid, tasks[pid]) : p \in PagesIn(b)
       /\ \A b \in TaskBlocks(pid, tasks[pid]) : \A p \in PagesIn(b) :
            b \in DOMAIN V.pins => Space[pid][p] = V.pins[b] + (p - b.page)

\* The pages of the kernel are its image and the video memory.
LEMMA SpaceOfKernel ==
  ASSUME NEW own, NEW use, NEW mp, NEW V, Arranged(own, use, mp, V)
  PROVE  /\ OwnKernelPages = DOMAIN V.own
         /\ \A p \in DOMAIN V.own : /\ FrameIn(vm.page_directory, pmm_get_address(p)) = V.own[p]
                                    /\ V.own[p] \in Page /\ own[V.own[p]] = Fixed
<1>1. Memory(vm, DirsOf(tasks), LowsOf(tasks), BlocksOf(tasks), V, boot_directory)
  BY DEF Arranged
<1>2. ASSUME NEW p \in DOMAIN V.own
      PROVE  FrameAt(vm, pmm_get_address(p)) = V.own[p] /\ V.own[p] \in Page /\ own[V.own[p]] = Fixed
  <2>1. FrameAt(vm, pmm_get_address(p)) = V.own[p]
    BY <1>1, MemoryKernelPages
  <2>2. V.own[p] \in Page
    BY DEF Arranged, Layout, OwnMapped
  <2>3. V.own[p] \in OwnFrames
    BY DEF Arranged, OwnAt
  <2> QED
    BY <2>1, <2>2, <2>3, ArrangedLabels
<1>3. vm \in MemoryState
  BY DEF Arranged, Raw
<1>4. [vm EXCEPT !.page_directory = vm.page_directory] = vm
  BY <1>3 DEF MemoryState
<1>5. \A p : p \in MappedKernelPages <=> 
        p \in DOMAIN V.own \/ \E b \in BlocksOf(tasks) : b.home = Kernel /\ p \in PagesIn(b)
  <2>1. \A p : p \in MappedKernelPages <=> p \in DomainPages("KERNEL") /\ Mapped(vm, pmm_get_address(p))
    BY DEF MappedKernelPages
  <2>2. ASSUME NEW b \in BlocksOf(tasks), b.home = Kernel, NEW p \in PagesIn(b)
        PROVE  p \in DomainPages("KERNEL")
    BY <1>1, <2>2, MemoryBlocks DEF HomeDomain
  <2>3. \A p \in DOMAIN V.own : p \in DomainPages("KERNEL")
    BY <1>1, MemoryKernelPages
  <2> QED
    BY <1>1, <2>1, <2>2, <2>3, MemoryKernelPages
<1>6. \A p : (\E pid \in DOMAIN tasks : p \in KernelPagesOf(tasks[pid])) <=>
             (\E b \in BlocksOf(tasks) : b.home = Kernel /\ p \in PagesIn(b))
  <2>1. \A p : (\E b \in BlocksOf(tasks) : b.home = Kernel /\ p \in PagesIn(b)) <=>
               \E pid \in DOMAIN tasks : \E b \in TaskBlocks(pid, tasks[pid]) :
                 b.home = Kernel /\ p \in PagesIn(b)
    BY DEF BlocksOf
  <2>2. \A pid \in DOMAIN tasks : \A p : p \in KernelPagesOf(tasks[pid]) <=>
           \E b \in TaskBlocks(pid, tasks[pid]) : b.home = Kernel /\ p \in PagesIn(b)
    BY KernelBlocks
  <2> QED
    BY <2>1, <2>2
<1>7. \A p \in DOMAIN V.own : \A b \in BlocksOf(tasks) : b.home = Kernel => p \notin PagesIn(b)
  BY <1>1, MemoryKernelPages
<1>8. \A p : p \in OwnKernelPages <=>
             p \in MappedKernelPages /\ ~ \E pid \in DOMAIN tasks : p \in KernelPagesOf(tasks[pid])
  BY DEF OwnKernelPages
<1>9. \A p : p \in OwnKernelPages <=> p \in DOMAIN V.own
  BY <1>5, <1>6, <1>7, <1>8
<1>10. OwnKernelPages = DOMAIN V.own
  BY <1>9
<1> QED
  BY <1>2, <1>4, <1>10 DEF FrameIn

\* The memory of a task.
TaskDrawn(own, mp, t, s) ==
  /\ s = [p \in PagesOfTask(t) |-> s[p]] /\ DOMAIN s = PagesOfTask(t)
  /\ \A p \in KernelPagesOf(t) : own[s[p]] = Pag(Kernel, p) /\ s[p] = mp[Kernel][p]
  /\ \A p \in UserPagesOf(t) : /\ own[s[p]] = Pag(DirOf(t), p) /\ s[p] = mp[DirOf(t)][p]
                               /\ p \notin KernelPagesOf(t) /\ p \notin DomainPages("KERNEL")

LEMMA SpaceOfTask ==
  ASSUME Proper, NEW own, NEW use, NEW mp, NEW V, Arranged(own, use, mp, V), NEW pid \in DOMAIN tasks,
         0 \notin DOMAIN tasks
  PROVE  TaskDrawn(own, mp, tasks[pid], Space[pid])
<1> DEFINE t == tasks[pid]
           s == Space[pid]
<1>1. s = [p \in PagesOfTask(t) |->
            FrameIn(IF p \in KernelPagesOf(t) THEN vm.page_directory ELSE DirOf(t), pmm_get_address(p))]
  BY DEF Space, PagesOfTask
<1> HIDE DEF s
<1>4. /\ s = [p \in PagesOfTask(t) |-> s[p]] /\ DOMAIN s = PagesOfTask(t)
      /\ \A p \in KernelPagesOf(t) : s[p] = FrameIn(vm.page_directory, pmm_get_address(p))
      /\ \A p \in UserPagesOf(t) :
           p \notin KernelPagesOf(t) => s[p] = FrameIn(DirOf(t), pmm_get_address(p))
  BY <1>1 DEF PagesOfTask
<1>5. \A p \in KernelPagesOf(t) : s[p] \in Page /\ own[s[p]] = Pag(Kernel, p) /\ s[p] = mp[Kernel][p]
  BY <1>4, KernelPageFrame
<1>6. ASSUME NEW p \in UserPagesOf(t)
      PROVE  p \notin KernelPagesOf(t) /\ p \notin DomainPages("KERNEL")
  <2>1. /\ Shape(t) /\ DirOf(t) # Kernel /\ TaskBlocks(pid, t) \subseteq BlocksOf(tasks)
        /\ Memory(vm, DirsOf(tasks), LowsOf(tasks), BlocksOf(tasks), V, boot_directory)
    BY ArrangedLabels, TaskOwns DEF Arranged
  <2> HIDE DEF t
  <2>2. PICK b \in UserBlocks(pid, t) : p \in PagesIn(b)
    BY <2>1, UserPagesBlocks
  <2>3. b \in BlocksOf(tasks) /\ b.home # Kernel
    BY <2>1, <2>2, UserHome DEF TaskBlocks
  <2>4. p \in HomeDomain(b.home)
    BY <2>2, <2>3, BlockFrames
  <2>5. T(p) \notin KernelTables
    BY <2>3, <2>4, HomePlace
  <2>6. p \notin DomainPages("KERNEL")
    BY <2>5 DEF DomainPages, T
  <2>7. \A b2 \in TaskBlocks(pid, t) : b2.home = Kernel => p \notin PagesIn(b2)
    BY <2>1, <2>6, BlockFrames DEF HomeDomain
  <2>8. p \notin KernelPagesOf(t)
    BY <2>7, KernelBlocks DEF t
  <2> QED
    BY <2>6, <2>8
<1>7. \A p \in UserPagesOf(t) : s[p] \in Page /\ own[s[p]] = Pag(DirOf(t), p) /\ s[p] = mp[DirOf(t)][p]
  BY <1>4, <1>6, UserPageFrame
<1> QED
  BY <1>4, <1>5, <1>6, <1>7 DEF s, TaskDrawn

LEMMA SpaceDrawn ==
  ASSUME Proper, 0 \notin DOMAIN tasks, NEW V, SettledAs(V)
  PROVE  Pictured(V)
<1>1. PICK own, use, mp : Arranged(own, use, mp, V)
  BY SettledArranged
<1>2. DOMAIN Space = DOMAIN tasks \union {0} /\ Space = [o \in DOMAIN Space |-> Space[o]]
  BY DEF Space
<1>3. Space[0] = [p \in DOMAIN V.own |-> V.own[p]]
  <2>1. Space[0] = [p \in OwnKernelPages |-> FrameIn(vm.page_directory, pmm_get_address(p))]
    BY DEF Space
  <2>2. OwnKernelPages = DOMAIN V.own
    BY <1>1, SpaceOfKernel
  <2>3. \A p \in DOMAIN V.own : FrameIn(vm.page_directory, pmm_get_address(p)) = V.own[p]
    BY <1>1, SpaceOfKernel
  <2> QED
    BY <2>1, <2>2, <2>3
<1>4. ASSUME NEW pid \in DOMAIN tasks
      PROVE  /\ Space[pid] = [p \in PagesOfTask(tasks[pid]) |-> Space[pid][p]]
             /\ \A p \in PagesOfTask(tasks[pid]) : \E b \in TaskBlocks(pid, tasks[pid]) : p \in PagesIn(b)
             /\ \A b \in TaskBlocks(pid, tasks[pid]) : \A p \in PagesIn(b) :
                  b \in DOMAIN V.pins => Space[pid][p] = V.pins[b] + (p - b.page)
  <2> DEFINE t == tasks[pid]
             s == Space[pid]
  <2>1. /\ s = [p \in PagesOfTask(t) |-> s[p]]
        /\ \A p \in KernelPagesOf(t) : s[p] = mp[Kernel][p]
        /\ \A p \in UserPagesOf(t) : s[p] = mp[DirOf(t)][p]
    BY <1>1, SpaceOfTask DEF TaskDrawn
  <2>2. /\ Shape(t) /\ TaskBlocks(pid, t) \subseteq BlocksOf(tasks)
        /\ Memory(vm, DirsOf(tasks), LowsOf(tasks), BlocksOf(tasks), V, boot_directory)
    BY <1>1, TaskOwns DEF Arranged
  <2>3. \A p : p \in KernelPagesOf(t) <=> \E b \in TaskBlocks(pid, t) : b.home = Kernel /\ p \in PagesIn(b)
    BY <1>1, KernelBlocks
  <2>4. Placed(use, mp, BlocksOf(tasks)) /\ Pinned(mp, BlocksOf(tasks), V)
    BY <1>1 DEF Arranged, Layout
  <2> HIDE DEF s, t
  <2>5. \A p : p \in UserPagesOf(t) <=> \E b \in UserBlocks(pid, t) : p \in PagesIn(b)
    BY <2>2, UserPagesBlocks
  <2>6. \A p \in PagesOfTask(t) : \E b \in TaskBlocks(pid, t) : p \in PagesIn(b)
    BY <2>3, <2>5 DEF PagesOfTask, TaskBlocks
  <2>7. ASSUME NEW b \in TaskBlocks(pid, t), NEW p \in PagesIn(b)
        PROVE  s[p] = mp[b.home][p]
    <3>1. CASE b \in UserBlocks(pid, t)
      <4>1. b.home = DirOf(t)
        BY <3>1, UserHome
      <4> QED
        BY <2>1, <2>5, <3>1, <4>1
    <3>2. CASE b \notin UserBlocks(pid, t)
      <4>1. b.home = Kernel
        BY <3>2 DEF TaskBlocks, StructureBlock, KernelStackBlock, Block
      <4> QED
        BY <2>1, <2>3, <4>1
    <3> QED
      BY <3>1, <3>2
  <2>8. ASSUME NEW b \in TaskBlocks(pid, t), NEW p \in PagesIn(b), b \in DOMAIN V.pins
        PROVE  s[p] = V.pins[b] + (p - b.page)
    <3>1. b \in BlocksOf(tasks)
      BY <2>2
    <3>2. mp[b.home][p] = FrameOf(mp, b) + (p - b.page)
      BY <2>4, <3>1 DEF Placed
    <3>3. FrameOf(mp, b) = V.pins[b]
      BY <2>4, <2>8 DEF Pinned
    <3> QED
      BY <2>7, <3>2, <3>3
  <2> QED
    BY <2>1, <2>6, <2>8 DEF s, t
<1> QED
  BY <1>2, <1>3, <1>4 DEF Pictured

\* No frame is found twice in the memories, and only one owner has a page of the kernel's domain.
Parted ==
  /\ \A o, q \in DOMAIN Space : \A x \in DOMAIN Space[o], y \in DOMAIN Space[q] :
       Space[o][x] = Space[q][y] => o = q /\ x = y
  /\ \A o, q \in DOMAIN Space : \A x :
       x \in DOMAIN Space[o] /\ x \in DOMAIN Space[q] /\ x \in DomainPages("KERNEL") => o = q

LEMMA SpaceParted ==
  ASSUME Proper, 0 \notin DOMAIN tasks, NEW V, SettledAs(V)
  PROVE  Parted
<1>1. PICK own, use, mp : Arranged(own, use, mp, V)
  BY SettledArranged
<1> DEFINE KP(o) == KernelPagesOf(tasks[o])
           UP(o) == UserPagesOf(tasks[o])
           dir(o) == DirOf(tasks[o])
<1>2. DOMAIN Space = DOMAIN tasks \union {0} /\ Pictured(V)
  BY SpaceDrawn DEF Pictured
<1>3. /\ DOMAIN Space[0] = DOMAIN V.own /\ \A x \in DOMAIN V.own : Space[0][x] = V.own[x]
      /\ \A x \in DOMAIN V.own : own[V.own[x]] = Fixed
      /\ \A x, y \in DOMAIN V.own : V.own[x] = V.own[y] => x = y
      /\ \A x \in DOMAIN V.own : \A q \in DOMAIN tasks : x \notin KP(q)
  <2>1. Space[0] = [x \in DOMAIN V.own |-> V.own[x]]
    BY <1>2 DEF Pictured
  <2>2. \A x, y \in DOMAIN V.own : V.own[x] = V.own[y] => x = y
    BY <1>1 DEF Arranged, OwnAt
  <2>3. OwnKernelPages = DOMAIN V.own /\ \A x \in DOMAIN V.own : own[V.own[x]] = Fixed
    BY <1>1, SpaceOfKernel
  <2>4. \A x \in OwnKernelPages : \A q \in DOMAIN tasks : x \notin KP(q)
    BY DEF OwnKernelPages
  <2> QED
    BY <2>1, <2>2, <2>3, <2>4
<1>4. ASSUME NEW o \in DOMAIN tasks
      PROVE  /\ \A x : x \in DOMAIN Space[o] <=> x \in KP(o) \/ x \in UP(o)
             /\ \A x \in KP(o) : own[Space[o][x]] = Pag(Kernel, x)
             /\ \A x \in UP(o) : own[Space[o][x]] = Pag(dir(o), x) /\ x \notin DomainPages("KERNEL")
             /\ dir(o) # Kernel
             /\ \A q \in DOMAIN tasks : dir(o) = dir(q) => o = q
             /\ \A x \in KP(o) : OwnerOf(x) = o
  <2> DEFINE s == Space[o]
             t == tasks[o]
  <2>7. TaskDrawn(own, mp, t, s)
    BY <1>1, SpaceOfTask
  <2> HIDE DEF s
  <2>1. DOMAIN s = PagesOfTask(t)
    BY <2>7 DEF TaskDrawn
  <2>2. \A x \in KP(o) : own[s[x]] = Pag(Kernel, x)
    BY <2>7 DEF TaskDrawn
  <2>3. \A x \in UP(o) : own[s[x]] = Pag(dir(o), x) /\ x \notin DomainPages("KERNEL")
    BY <2>7 DEF TaskDrawn
  <2>4. dir(o) # Kernel
    BY <1>1, ArrangedLabels
  <2>5. \A q \in DOMAIN tasks : dir(o) = dir(q) => o = q
    BY <1>1 DEF Arranged
  <2>6. \A x \in KP(o) : OwnerOf(x) = o
    BY <1>1, OwnerOfPage
  <2> QED
    BY <2>1, <2>2, <2>3, <2>4, <2>5, <2>6 DEF PagesOfTask, s
<1>5. \A h, k, x, y : Pag(h, x) # Fixed /\ (Pag(h, x) = Pag(k, y) => h = k /\ x = y)
  BY Labels DEF Pag
<1> HIDE DEF KP, UP, dir
<1>6. ASSUME NEW o \in DOMAIN Space, NEW q \in DOMAIN Space, NEW x \in DOMAIN Space[o],
             NEW y \in DOMAIN Space[q], Space[o][x] = Space[q][y]
      PROVE  o = q /\ x = y
  <2>1. CASE o = 0 /\ q = 0
    BY <1>3, <1>6, <2>1
  <2>2. CASE o = 0 /\ q # 0
    <3>1. own[Space[o][x]] = Fixed
      BY <1>3, <2>2
    <3>2. own[Space[q][y]] = Pag(Kernel, y) \/ own[Space[q][y]] = Pag(dir(q), y)
      BY <1>2, <1>4, <2>2
    <3> QED
      BY <1>5, <1>6, <3>1, <3>2
  <2>3. CASE o # 0 /\ q = 0
    <3>1. own[Space[q][y]] = Fixed
      BY <1>3, <2>3
    <3>2. own[Space[o][x]] = Pag(Kernel, x) \/ own[Space[o][x]] = Pag(dir(o), x)
      BY <1>2, <1>4, <2>3
    <3> QED
      BY <1>5, <1>6, <3>1, <3>2
  <2>4. CASE o # 0 /\ q # 0
    <3>1. o \in DOMAIN tasks /\ q \in DOMAIN tasks
      BY <1>2, <2>4
    <3> DEFINE l == own[Space[o][x]]
               k == own[Space[q][y]]
    <3>2. l = k
      BY <1>6
    <3>3. (x \in KP(o) /\ l = Pag(Kernel, x)) \/ l = Pag(dir(o), x)
      BY <1>4, <3>1
    <3>4. (y \in KP(q) /\ k = Pag(Kernel, y)) \/ k = Pag(dir(q), y)
      BY <1>4, <3>1
    <3>5. dir(o) # Kernel /\ dir(q) # Kernel /\ (dir(o) = dir(q) => o = q)
      BY <1>4, <3>1
    <3>6. (x \in KP(o) => OwnerOf(x) = o) /\ (y \in KP(q) => OwnerOf(y) = q)
      BY <1>4, <3>1
    <3> HIDE DEF l, k
    <3> QED
      BY <1>5, <3>2, <3>3, <3>4, <3>5, <3>6
  <2> QED
    BY <2>1, <2>2, <2>3, <2>4
<1>7. ASSUME NEW o \in DOMAIN Space, NEW q \in DOMAIN Space, NEW x, x \in DOMAIN Space[o],
             x \in DOMAIN Space[q], x \in DomainPages("KERNEL")
      PROVE  o = q
  <2>1. \A w \in DOMAIN tasks : x \in DOMAIN Space[w] => x \in KP(w)
    BY <1>4, <1>7
  <2>2. o # 0 /\ q # 0 => o = q
    BY <1>2, <1>4, <1>7, <2>1
  <2>3. \A w \in DOMAIN tasks : x \in DOMAIN Space[0] => x \notin DOMAIN Space[w]
    BY <1>3, <2>1
  <2> QED
    BY <1>2, <1>7, <2>2, <2>3
<1> QED
  BY <1>6, <1>7 DEF Parted

\* In a form that can be said of the next state.
SpacesKnown == Proper => \A V : 0 \notin DOMAIN tasks /\ SettledAs(V) => Pictured(V) /\ Parted

LEMMA SpacesDrawn == SpacesKnown
BY SpaceDrawn, SpaceParted DEF SpacesKnown

LEMMA NoPidZero ==
  ASSUME TypeOK
  PROVE  0 \notin DOMAIN tasks
BY DEF TypeOK, Pids

\* The memory of a task stays when its frames are those that V tells before and after.
LEMMA SpaceKept ==
  ASSUME NEW V, Pictured(V), Pictured(V)', NEW o \in DOMAIN Space, o \in DOMAIN Space',
         o # 0 => /\ Shape(tasks[o]) /\ SameTask(tasks[o], tasks'[o])
                  /\ TaskBlocks(o, tasks[o]) \subseteq DOMAIN V.pins
  PROVE  Space'[o] = Space[o]
<1>1. CASE o = 0
  BY <1>1 DEF Pictured
<1>2. CASE o # 0
  <2>1. o \in DOMAIN tasks /\ o \in DOMAIN tasks'
    BY <1>2 DEF Pictured
  <2> DEFINE t == tasks[o]
             u == tasks'[o]
             s == Space[o]
             r == Space'[o]
  <2>2. Shape(t) /\ SameTask(t, u) /\ TaskBlocks(o, t) \subseteq DOMAIN V.pins
    BY <1>2
  <2>3. /\ s = [p \in PagesOfTask(t) |-> s[p]]
        /\ \A p \in PagesOfTask(t) : \E b \in TaskBlocks(o, t) : p \in PagesIn(b)
        /\ \A b \in TaskBlocks(o, t) : \A p \in PagesIn(b) :
             b \in DOMAIN V.pins => s[p] = V.pins[b] + (p - b.page)
    BY <2>1 DEF Pictured
  <2>4. /\ r = [p \in PagesOfTask(u) |-> r[p]]
        /\ \A b \in TaskBlocks(o, u) : \A p \in PagesIn(b) :
             b \in DOMAIN V.pins => r[p] = V.pins[b] + (p - b.page)
    BY <2>1 DEF Pictured
  <2> HIDE DEF t, u, s, r
  <2>5. PagesOfTask(u) = PagesOfTask(t)
    BY <2>2 DEF SameTask, PagesOfTask, KernelPagesOf, UserPagesOf
  <2>6. TaskBlocks(o, u) = TaskBlocks(o, t)
    BY <2>2, SameTaskBlocks
  <2>7. \A p \in PagesOfTask(t) : r[p] = s[p]
    <3> SUFFICES ASSUME NEW p \in PagesOfTask(t) PROVE r[p] = s[p]
      OBVIOUS
    <3>1. PICK b \in TaskBlocks(o, t) : p \in PagesIn(b)
      BY <2>3
    <3>2. s[p] = V.pins[b] + (p - b.page)
      BY <2>2, <2>3, <3>1
    <3>3. r[p] = V.pins[b] + (p - b.page)
      BY <2>2, <2>4, <2>6, <3>1
    <3> QED
      BY <3>2, <3>3
  <2>8. r = s
    BY <2>3, <2>4, <2>5, <2>7
  <2> QED
    BY <2>8 DEF r, s
<1> QED
  BY <1>1, <1>2

\* The tasks after a step that does not end in a fault.
LEMMA TasksAfterAdd ==
  ASSUME TypeOK, NEW c, task_add(c), ~ vm'.fault
  PROVE  /\ FreePid \notin DOMAIN tasks /\ FreePid # 0
         /\ DOMAIN tasks' = DOMAIN tasks \union {FreePid}
         /\ \A p \in DOMAIN tasks : tasks'[p] = tasks[p]
<1>1. /\ DOMAIN tasks # Pids /\ Commit(c.m)
      /\ tasks' = IF c.m.fault THEN tasks
                  ELSE [p \in DOMAIN tasks \union {FreePid} |-> IF p = FreePid THEN c.task ELSE tasks[p]]
  BY DEF task_add
<1>2. FreePid \in Pids /\ FreePid \notin DOMAIN tasks /\ vm \in MemoryState
  BY <1>1, NewPid DEF TypeOK
<1>3. ~ c.m.fault
  BY <1>1, <1>2 DEF Commit, MemoryState
<1> QED
  BY <1>1, <1>2, <1>3 DEF Pids

LEMMA TasksAfterDestroy ==
  ASSUME TypeOK, NEW pid \in DOMAIN tasks, Destroy(pid), ~ vm'.fault
  PROVE  tasks' = [p \in DOMAIN tasks \ {pid} |-> tasks[p]]
<1> DEFINE m == task_destroy(IF tasks[pid].elf = NoElf THEN vm
                             ELSE elf_unload(vm, tasks[pid].elf, tasks[pid].page_directory), tasks[pid])
<1>1. Commit(m) /\ tasks' = IF m.fault THEN tasks ELSE [p \in DOMAIN tasks \ {pid} |-> tasks[p]]
  BY DEF Destroy
<1> HIDE DEF m
<1>2. ~ m.fault
  BY <1>1 DEF Commit, MemoryState, TypeOK
<1> QED
  BY <1>1, <1>2

LEMMA TasksAfterSwitch ==
  ASSUME TypeOK, NEW pid \in DOMAIN tasks, Switch(pid) \/ Exit(pid)
  PROVE  DOMAIN tasks' = DOMAIN tasks /\ \A p \in DOMAIN tasks : SameTask(tasks[p], tasks'[p])
<1>1. \A p \in DOMAIN tasks : tasks[p] \in Task
  BY DEF TypeOK
<1>2. tasks' = tasks \/ tasks' = [tasks EXCEPT ![current_task].running = FALSE]
  BY DEF Switch, Exit
<1>3. \A p \in DOMAIN tasks : tasks'[p] \in {tasks[p], [tasks[p] EXCEPT !.running = FALSE]}
  BY <1>2
<1>4. DOMAIN tasks' = DOMAIN tasks
  BY <1>2
<1> QED
  BY <1>1, <1>3, <1>4, StoppedSame

\* What the abstract specification says of a memory that is created.
LEMMA CreateMapped ==
  ASSUME NEW pid, pid \notin DOMAIN Space, DOMAIN Space' = DOMAIN Space \union {pid},
         \A o \in DOMAIN Space : Space'[o] = Space[o], Parted'
  PROVE  Abstract!Create(pid)
<1>1. /\ \A o, q \in DOMAIN Space' : \A x \in DOMAIN Space'[o], y \in DOMAIN Space'[q] :
           Space'[o][x] = Space'[q][y] => o = q /\ x = y
      /\ \A o, q \in DOMAIN Space' : \A x :
           x \in DOMAIN Space'[o] /\ x \in DOMAIN Space'[q] /\ x \in DomainPages("KERNEL") => o = q
  BY DEF Parted
<1> DEFINE s == Space
           r == Space'
<1>2. pid \notin DOMAIN s /\ DOMAIN r = DOMAIN s \union {pid} /\ \A o \in DOMAIN s : r[o] = s[o]
  OBVIOUS
<1>3. /\ \A o, q \in DOMAIN r : \A x \in DOMAIN r[o], y \in DOMAIN r[q] : r[o][x] = r[q][y] => o = q /\ x = y
      /\ \A o, q \in DOMAIN r : \A x :
           x \in DOMAIN r[o] /\ x \in DOMAIN r[q] /\ x \in DomainPages("KERNEL") => o = q
  BY <1>1
<1>4. pid \notin DOMAIN s /\ DOMAIN r = DOMAIN s \union {pid} /\ \A o \in DOMAIN s : r[o] = s[o]
  BY <1>2
<1> HIDE DEF s, r
<1>5. \A a, b \in DOMAIN r[pid] : r[pid][a] = r[pid][b] => a = b
  BY <1>3, <1>4
<1>6. ASSUME NEW o \in DOMAIN s, NEW x \in DOMAIN r[pid], NEW y \in DOMAIN s[o]
      PROVE  r[pid][x] # s[o][y]
  BY <1>3, <1>4
<1>7. ASSUME NEW o \in DOMAIN s, NEW x \in DOMAIN r[pid], x \in DOMAIN s[o]
      PROVE  x \notin DomainPages("KERNEL")
  BY <1>3, <1>4, <1>7
<1>8. {r[pid][x] : x \in DOMAIN r[pid]} \intersect UNION {{s[o][y] : y \in DOMAIN s[o]} : o \in DOMAIN s} = {}
  BY <1>6
<1>9. DOMAIN r[pid] \intersect (UNION {DOMAIN s[o] : o \in DOMAIN s}) \intersect DomainPages("KERNEL") = {}
  BY <1>7
<1> QED
  BY <1>4, <1>5, <1>8, <1>9 DEF Abstract!Create, Abstract!UsedFrames, Abstract!UsedPages,
     Abstract!IsInjective, Abstract!Range, IsInjective, Range, s, r

LEMMA InitRefines ==
  ASSUME Proper, Init, ~ vm.short
  PROVE  Abstract!Init
<1>1. TypeOK /\ Safe
  BY InitSafe
<1>2. PICK V : SettledAs(V)
  BY <1>1 DEF Safe, SettledAs
<1>3. DOMAIN Space = DOMAIN tasks \union {0} /\ Parted
  BY <1>1, <1>2, NoPidZero, SpaceDrawn, SpaceParted DEF Pictured
<1>4. DOMAIN tasks = {}
  BY DEF Init
<1>5. DOMAIN Space = {0}
  BY <1>3, <1>4
<1>6. \A a, b \in DOMAIN Space[0] : Space[0][a] = Space[0][b] => a = b
  BY <1>3, <1>5 DEF Parted
<1> QED
  BY <1>5, <1>6 DEF Abstract!Init, Abstract!IsInjective, IsInjective

LEMMA NextRefines ==
  ASSUME Proper, TypeOK, TypeOK', Alive, Safe, LastPagesKept, ~ vm.short, ~ vm'.short, Next
  PROVE  Abstract!Next \/ Space' = Space
<1>1. PICK V : DOMAIN V.pins = Staying /\ SettledAs(V) /\ SettledAs(V)'
  BY StepPlaced DEF SettledAs
<1>2. 0 \notin DOMAIN tasks /\ 0 \notin DOMAIN tasks'
  BY DEF TypeOK, Pids
<1>3. Pictured(V) /\ Parted
  BY <1>1, <1>2, SpacesDrawn DEF SpacesKnown
<1>4. Pictured(V)' /\ Parted'
  <2>1. SpacesKnown'
    BY SpacesDrawn, PTL
  <2> QED
    BY <1>1, <1>2, <2>1 DEF SpacesKnown
<1>5. /\ DOMAIN Space = DOMAIN tasks \union {0} /\ DOMAIN Space' = DOMAIN tasks' \union {0}
      /\ Space = [o \in DOMAIN Space |-> Space[o]] /\ Space' = [o \in DOMAIN Space' |-> Space'[o]]
  BY <1>3, <1>4 DEF Pictured
<1>6. ~ vm'.fault
  <2>1. Settles(vm', tasks', boot_directory', V)
    BY <1>1 DEF SettledAs, TasksPlaced
  <2> QED
    BY <2>1, SettlesRunning
<1>7. ASSUME NEW o \in DOMAIN Space, o \in DOMAIN Space', o # 0 => SameTask(tasks[o], tasks'[o])
      PROVE  Space'[o] = Space[o]
  <2>1. o # 0 => Shape(tasks[o])
    BY <1>1, <1>5 DEF SettledAs, TasksPlaced, Settles
  <2>2. o # 0 => ~ Destroy(o)
    <3>1. o # 0 /\ Destroy(o) => o \notin DOMAIN tasks'
      <4> SUFFICES ASSUME o # 0, Destroy(o) PROVE o \notin DOMAIN tasks'
        OBVIOUS
      <4>1. o \in DOMAIN tasks /\ TypeOK /\ ~ vm'.fault
        BY <1>5, <1>6, <1>7
      <4>2. tasks' = [p \in DOMAIN tasks \ {o} |-> tasks[p]]
        BY <4>1, TasksAfterDestroy
      <4> QED
        BY <4>2
    <3> QED
      BY <1>5, <1>7, <3>1
  <2>3. o # 0 => TaskBlocks(o, tasks[o]) \subseteq DOMAIN V.pins
    BY <1>1, <1>5, <2>2 DEF Staying
  <2> QED
    BY <1>3, <1>4, <1>7, <2>1, <2>3, SpaceKept
<1>8. \A p \in DOMAIN tasks : SameTask(tasks[p], tasks[p])
  BY StoppedSame DEF TypeOK
<1>9. ASSUME NEW c, task_add(c)
      PROVE  Abstract!Next
  <2>1. /\ FreePid \notin DOMAIN tasks /\ FreePid # 0
        /\ DOMAIN tasks' = DOMAIN tasks \union {FreePid}
        /\ \A p \in DOMAIN tasks : tasks'[p] = tasks[p]
    BY <1>6, <1>9, TasksAfterAdd
  <2>2. \A o \in DOMAIN Space : Space'[o] = Space[o]
    <3> SUFFICES ASSUME NEW o \in DOMAIN Space PROVE Space'[o] = Space[o]
      OBVIOUS
    <3>1. o \in DOMAIN Space' /\ (o # 0 => SameTask(tasks[o], tasks'[o]))
      BY <1>5, <1>8, <2>1
    <3> QED
      BY <1>7, <3>1
  <2>3. FreePid \notin DOMAIN Space /\ DOMAIN Space' = DOMAIN Space \union {FreePid}
    BY <1>5, <2>1
  <2>4. Abstract!Create(FreePid)
    BY <1>4, <2>2, <2>3, CreateMapped
  <2>5. FreePid \in DOMAIN Space'
    BY <2>3
  <2> QED
    BY <2>4, <2>5 DEF Abstract!Next
<1>10. ASSUME NEW pid \in DOMAIN tasks, Switch(pid) \/ Exit(pid)
       PROVE  Space' = Space
  <2>1. DOMAIN tasks' = DOMAIN tasks /\ \A p \in DOMAIN tasks : SameTask(tasks[p], tasks'[p])
    BY <1>10, TasksAfterSwitch
  <2>2. \A o \in DOMAIN Space : Space'[o] = Space[o]
    BY <1>5, <1>7, <2>1
  <2>3. DOMAIN Space' = DOMAIN Space
    BY <1>5, <2>1
  <2> QED
    BY <1>5, <2>2, <2>3
<1>11. ASSUME NEW pid \in DOMAIN tasks, Destroy(pid)
       PROVE  Abstract!Next
  <2>1. tasks' = [p \in DOMAIN tasks \ {pid} |-> tasks[p]]
    BY <1>6, <1>11, TasksAfterDestroy
  <2>2. pid # 0 /\ DOMAIN Space' = DOMAIN Space \ {pid} /\ pid \in DOMAIN Space
    BY <1>2, <1>5, <2>1
  <2>3. \A o \in DOMAIN Space' : Space'[o] = Space[o]
    <3> SUFFICES ASSUME NEW o \in DOMAIN Space' PROVE Space'[o] = Space[o]
      OBVIOUS
    <3>1. o \in DOMAIN Space /\ (o # 0 => SameTask(tasks[o], tasks'[o]))
      BY <1>5, <1>8, <2>1
    <3> QED
      BY <1>7, <3>1
  <2>4. Space' = [o \in DOMAIN Space \ {pid} |-> Space[o]]
    BY <1>5, <2>2, <2>3
  <2> QED
    BY <2>2, <2>4 DEF Abstract!Next, Abstract!Destroy
<1> QED
  BY <1>9, <1>10, <1>11 DEF Next, CreateKernelTask, CreateElfTask, CreateVm86Task

\* No allocation has failed.
Enough == ~ vm.short

(* Until an allocation fails, creating and destroying tasks, switching     *)
(* between their directories and modifying a directory that is not loaded  *)
(* change the memory of no other task and not that of the kernel: every    *)
(* step gives a new task frames and kernel pages that nobody has, takes    *)
(* the memory of one task away, or leaves all memories alone.              *)
THEOREM SpacesRefined ==
  ASSUME Proper
  PROVE  Spec /\ [](TablesKept /\ ~ vm.short) => ImplementsAddressSpaces
<1>1. Init /\ ~ vm.short => Abstract!Init
  BY InitRefines
<1>2. Inv /\ Inv' /\ TablesKept /\ Enough /\ Enough' /\ [Next]_vars => [Abstract!Next]_Space
  <2> SUFFICES ASSUME Inv, Inv', TablesKept, ~ vm.short, ~ vm'.short, [Next]_vars
               PROVE  Abstract!Next \/ Space' = Space
    BY DEF Enough
  <2>1. CASE Next
    BY <2>1, NextRefines DEF Inv, TablesKept
  <2>2. CASE UNCHANGED vars
    <3>1. vm' = vm /\ tasks' = tasks
      BY <2>2 DEF vars
    <3>2. OwnKernelPages' = OwnKernelPages
      BY <3>1 DEF OwnKernelPages, MappedKernelPages
    <3>3. \A d, a : FrameIn(d, a)' = FrameIn(d, a)
      BY <3>1 DEF FrameIn
    <3> QED
      BY <3>1, <3>2, <3>3 DEF Space
  <2> QED
    BY <2>1, <2>2
<1>3. ~ vm.short => Enough
  BY DEF Enough
<1> QED
  BY <1>1, <1>2, <1>3, Invariant, PTL DEF Spec, ImplementsAddressSpaces, Abstract!Spec

=============================================================================
