------------------------------ MODULE Pmm_proofs ------------------------------
(***************************************************************************)
(* The physical memory manager hands out no frame twice, for every memory  *)
(* map, every set of modules and every size of a page.                     *)
(***************************************************************************)
EXTENDS Pmm, WellFoundedInduction, TLAPS

USE FramesAssumption

-----------------------------------------------------------------------------
(* Pages and addresses.                                                    *)

(* A non-empty set of natural numbers has a least member.                  *)
LEMMA LeastMember ==
  ASSUME NEW T \in SUBSET Nat, T # {}
  PROVE  \E m \in T : \A n \in T : m <= n
<1> DEFINE Less == {ss \in Nat \X Nat : ss[1] < ss[2]}
<1>1. IsWellFoundedOn(Less, Nat)
  BY NatLessThanWellFounded, Zenon DEF OpToRel
<1> HIDE DEF Less
<1>2. PICK m \in T : \A n \in T : ~ (<<n, m>> \in Less)
  BY <1>1, WFMin, Zenon
<1>3. \A n \in T : ~ (n < m)
  BY <1>2 DEF Less
<1> QED
  BY <1>3

(* What a page number stands for.                                          *)
LEMMA PageBounds ==
  ASSUME NEW a \in Nat
  PROVE  /\ a \div PageSize \in Nat
         /\ (a \div PageSize) * PageSize <= a
         /\ a < (a \div PageSize) * PageSize + PageSize
<1>1. a = PageSize * (a \div PageSize) + (a % PageSize) /\ a % PageSize \in 0 .. PageSize - 1
  OBVIOUS
<1> QED
  BY <1>1

LEMMA PageUnique ==
  ASSUME NEW a \in Nat, NEW s \in Nat, s * PageSize <= a, a < s * PageSize + PageSize
  PROVE  a \div PageSize = s
<1> DEFINE q == a \div PageSize
<1>1. q \in Nat /\ q * PageSize <= a /\ a < q * PageSize + PageSize
  BY PageBounds
<1>2. ~ (q < s)
  <2> SUFFICES ASSUME q + 1 <= s PROVE FALSE
    BY <1>1
  <2>1. (q + 1) * PageSize <= s * PageSize
    BY <1>1
  <2>2. (q + 1) * PageSize = q * PageSize + PageSize
    BY <1>1
  <2> QED
    BY <1>1, <2>1, <2>2
<1>3. ~ (s < q)
  <2> SUFFICES ASSUME s + 1 <= q PROVE FALSE
    BY <1>1
  <2>1. (s + 1) * PageSize <= q * PageSize
    BY <1>1
  <2>2. (s + 1) * PageSize = s * PageSize + PageSize
    OBVIOUS
  <2> QED
    BY <1>1, <2>1, <2>2
<1> QED
  BY <1>1, <1>2, <1>3

LEMMA MemorySizePositive == MemorySize \in Nat \ {0}
BY DEF MemorySize

(* Inside of the memory no address wraps.                                  *)
LEMMA PageOfAddress ==
  ASSUME NEW p \in Nat, NEW o \in Nat, p + o < MemorySize
  PROVE  pmm_get_page(p, o) = (p + o) \div PageSize
<1>1. (p + o) % MemorySize = p + o
  BY MemorySizePositive
<1> QED
  BY <1>1 DEF pmm_get_page

(* A page number is one of a frame, even if the address wraps.             *)
LEMMA PageRange ==
  ASSUME NEW p \in Nat, NEW o \in Nat
  PROVE  pmm_get_page(p, o) \in Page
<1> DEFINE a == (p + o) % MemorySize
           q == a \div PageSize
<1>1. a \in Nat /\ a < MemorySize
  BY MemorySizePositive
<1>2. q \in Nat /\ q * PageSize <= a
  BY <1>1, PageBounds
<1>3. ~ (PageNumber <= q)
  <2> SUFFICES ASSUME PageNumber <= q PROVE FALSE
    OBVIOUS
  <2>1. PageNumber * PageSize <= q * PageSize
    BY <1>2
  <2> QED
    BY <1>1, <1>2, <2>1 DEF MemorySize
<1> QED
  BY <1>2, <1>3 DEF pmm_get_page, Page

LEMMA FramesArePages ==
  ASSUME NEW p \in Nat, NEW n \in Nat \ {0}
  PROVE  FramesOf(p, n) \subseteq Page
<1>1. n - 1 \in Nat
  OBVIOUS
<1>2. pmm_get_page(p, 0) \in Page /\ pmm_get_page(p, n - 1) \in Page
  BY <1>1, PageRange
<1> QED
  BY <1>2 DEF FramesOf, Page

(* Addresses of frames, and the frame of such an address.                  *)
LEMMA AddressOfPage ==
  ASSUME NEW s \in Page, NEW o \in 0 .. PageSize - 1
  PROVE  /\ pmm_get_address(s) \in Address
         /\ pmm_get_address(s) + o \in Address
         /\ pmm_get_page(pmm_get_address(s), o) = s
<1>1. s * PageSize \in Nat /\ s + 1 <= PageNumber /\ s \in Nat
  BY DEF Page
<1>2. (s + 1) * PageSize <= PageNumber * PageSize
  BY <1>1
<1>3. (s + 1) * PageSize = s * PageSize + PageSize
  BY <1>1
<1>4. s * PageSize + o < MemorySize
  BY <1>1, <1>2, <1>3 DEF MemorySize
<1>5. (s * PageSize + o) \div PageSize = s
  BY <1>1, PageUnique
<1>6. pmm_get_page(s * PageSize, o) = s
  BY <1>1, <1>4, <1>5, PageOfAddress
<1> QED
  BY <1>1, <1>4, <1>6, MemorySizePositive DEF pmm_get_address, Address

(* The frames of a range of addresses that does not wrap are those of its  *)
(* addresses.                                                              *)
LEMMA FramesOfRange ==
  ASSUME NEW p \in Nat, NEW n \in Nat \ {0}, p + n <= MemorySize, NEW i \in Page
  PROVE  i \in FramesOf(p, n) <=>
           pmm_get_address(i) < p + n /\ p < pmm_get_address(i) + PageSize
<1> DEFINE f == p \div PageSize
           l == (p + (n - 1)) \div PageSize
           q == i * PageSize
<1>1. FramesOf(p, n) = f .. l
  <2>1. MemorySize \in Nat /\ 0 \in Nat /\ n - 1 \in Nat /\ p + 0 = p
    BY MemorySizePositive
  <2>2. p + 0 < MemorySize /\ p + (n - 1) < MemorySize
    BY <2>1
  <2>3. pmm_get_page(p, 0) = p \div PageSize
    BY <2>1, <2>2, PageOfAddress
  <2>4. pmm_get_page(p, n - 1) = l
    BY <2>1, <2>2, PageOfAddress
  <2> QED
    BY <2>3, <2>4 DEF FramesOf
<1>2. /\ f \in Nat /\ f * PageSize <= p /\ p < f * PageSize + PageSize
      /\ l \in Nat /\ l * PageSize <= p + (n - 1) /\ p + (n - 1) < l * PageSize + PageSize
  BY PageBounds, p + (n - 1) \in Nat
<1>3. i \in Nat /\ q \in Nat
  BY DEF Page
<1> HIDE DEF f, l
<1>4. i <= l <=> q < p + n
  <2>1. CASE i <= l
    <3>1. q <= l * PageSize
      BY <1>2, <1>3, <2>1
    <3> QED
      BY <1>2, <1>3, <2>1, <3>1
  <2>2. CASE l + 1 <= i
    <3>1. (l + 1) * PageSize <= q
      BY <1>2, <1>3, <2>2
    <3>2. (l + 1) * PageSize = l * PageSize + PageSize
      BY <1>2
    <3> QED
      BY <1>2, <1>3, <2>2, <3>1, <3>2
  <2> QED
    BY <1>2, <1>3, <2>1, <2>2
<1>5. f <= i <=> p < q + PageSize
  <2>1. CASE f <= i
    <3>1. f * PageSize <= q
      BY <1>2, <1>3, <2>1
    <3> QED
      BY <1>2, <1>3, <2>1, <3>1
  <2>2. CASE i + 1 <= f
    <3>1. (i + 1) * PageSize <= f * PageSize
      BY <1>2, <1>3, <2>2
    <3>2. (i + 1) * PageSize = q + PageSize
      BY <1>3
    <3> QED
      BY <1>2, <1>3, <2>2, <3>1, <3>2
  <2> QED
    BY <1>2, <1>3, <2>1, <2>2
<1> QED
  BY <1>1, <1>2, <1>3, <1>4, <1>5 DEF pmm_get_address

-----------------------------------------------------------------------------
(* The search.                                                             *)

(* Pages for a length: enough of them, and no page too many.               *)
LEMMA PagesForBounds ==
  ASSUME NEW n \in Nat \ {0}
  PROVE  /\ PagesFor(n) \in Nat \ {0}
         /\ n <= PagesFor(n) * PageSize
         /\ (PagesFor(n) - 1) * PageSize < n
<1> DEFINE q == n \div PageSize
           r == n % PageSize
<1>1. q \in Nat /\ r \in 0 .. PageSize - 1 /\ n = q * PageSize + r
  OBVIOUS
<1> HIDE DEF q, r
<1>2. (q + 1) * PageSize = q * PageSize + PageSize
  BY <1>1
<1>3. CASE r = 0
  <2>1. q # 0
    BY <1>1, <1>3
  <2>2. (q - 1) * PageSize = q * PageSize - PageSize
    BY <1>1
  <2>3. PagesFor(n) = q
    BY <1>1, <1>3 DEF PagesFor, q, r
  <2> QED
    BY <1>1, <1>3, <2>1, <2>2, <2>3
<1>4. CASE r # 0
  <2>1. PagesFor(n) = q + 1
    BY <1>1, <1>4 DEF PagesFor, q, r
  <2> QED
    BY <1>1, <1>2, <1>4, <2>1
<1> QED
  BY <1>3, <1>4

(* What pmm_find_free returns is the address of the first of enough unused *)
(* frames in a row, unless it is 0.                                        *)
LEMMA FindsFit ==
  ASSUME NEW b, NEW n \in Nat, pmm_find_free(b, n) # 0
  PROVE  /\ n # 0
         /\ LET s == FirstFit(b, PagesFor(n))
            IN  /\ pmm_find_free(b, n) = pmm_get_address(s)
                /\ s \in Fits(b, PagesFor(n))
                /\ \A t \in Fits(b, PagesFor(n)) : s <= t
<1>1. n # 0 /\ Fits(b, PagesFor(n)) # {}
      /\ pmm_find_free(b, n) = pmm_get_address(FirstFit(b, PagesFor(n)))
  BY DEF pmm_find_free
<1>2. Fits(b, PagesFor(n)) \subseteq Nat
  BY DEF Fits, Page
<1>3. \E s \in Fits(b, PagesFor(n)) : \A t \in Fits(b, PagesFor(n)) : s <= t
  BY <1>1, <1>2, LeastMember
<1> QED
  BY <1>1, <1>3 DEF FirstFit

(* The frames of what pmm_find_free returns.                               *)
LEMMA FoundFrames ==
  ASSUME NEW b, NEW n \in Nat, NEW p, p = pmm_find_free(b, n), p # 0
  PROVE  /\ n # 0 /\ p \in Address /\ p + n <= MemorySize
         /\ FramesOf(p, n) \subseteq Page /\ FramesOf(p, n) # {}
         /\ \A i \in FramesOf(p, n) : b[i] = "UNUSED"
<1> DEFINE m == PagesFor(n)
<1>1. PICK s \in Fits(b, m) : p = pmm_get_address(s) /\ n # 0
  BY FindsFit
<1>2. /\ m \in Nat \ {0} /\ n <= m * PageSize
  BY <1>1, PagesForBounds
<1>3. s \in Nat /\ s \in Page /\ s + m <= PageNumber /\ \A i \in s .. s + m - 1 : b[i] = "UNUSED"
  BY <1>1 DEF Fits, Page
<1> HIDE DEF m
<1>4. (s + m) * PageSize <= MemorySize
  BY <1>2, <1>3 DEF MemorySize
<1>5. (s + m) * PageSize = s * PageSize + m * PageSize
  BY <1>2, <1>3
<1>6. p = s * PageSize /\ p \in Nat
  BY <1>1, <1>3 DEF pmm_get_address
<1>7. p \in Address /\ p + n <= MemorySize
  BY <1>1, <1>2, <1>4, <1>5, <1>6, MemorySizePositive DEF Address
<1>8. FramesOf(p, n) \subseteq Page
  BY <1>1, <1>6, FramesArePages
<1>9. s \in FramesOf(p, n)
  <2>1. pmm_get_address(s) < p + n /\ p < pmm_get_address(s) + PageSize /\ n \in Nat \ {0}
    BY <1>1, <1>6 DEF pmm_get_address
  <2> QED
    BY <1>3, <1>6, <1>7, <2>1, FramesOfRange
<1>10. ASSUME NEW i \in FramesOf(p, n) PROVE i \in s .. s + m - 1
  <2>1. i \in Page /\ i \in Nat
    BY <1>8 DEF Page
  <2>2. i * PageSize < p + n /\ p < i * PageSize + PageSize
    BY <1>1, <1>6, <1>7, <2>1, FramesOfRange DEF pmm_get_address
  <2>3. ~ (s + m <= i)
    <3> SUFFICES ASSUME s + m <= i PROVE FALSE
      OBVIOUS
    <3>1. (s + m) * PageSize <= i * PageSize
      BY <1>2, <1>3, <2>1
    <3> QED
      BY <1>2, <1>3, <1>5, <1>6, <2>1, <2>2, <3>1
  <2>4. ~ (i + 1 <= s)
    <3> SUFFICES ASSUME i + 1 <= s PROVE FALSE
      OBVIOUS
    <3>1. (i + 1) * PageSize <= s * PageSize
      BY <1>3, <2>1
    <3>2. (i + 1) * PageSize = i * PageSize + PageSize
      BY <2>1
    <3> QED
      BY <1>3, <1>6, <2>1, <2>2, <3>1, <3>2
  <2> QED
    BY <1>2, <1>3, <2>1, <2>3, <2>4
<1> QED
  BY <1>1, <1>3, <1>7, <1>8, <1>9, <1>10

-----------------------------------------------------------------------------
(* The invariant.                                                          *)

\* The kernel image has not been claimed yet.
Early == pc \in {"mmap", "low", "kernel"}

(* Behind what the properties say: nothing is free without a memory map,    *)
(* nothing is allocated before the image is claimed, and from then on      *)
(* neither the image nor the memory below 1 MiB is free; the first page    *)
(* table stays reserved until all copies are made.                         *)
NothingWithoutMap ==
  mmap = NoMap => /\ pc \in {"mmap", "run"} /\ blocks = {}
                  /\ \A i \in Page : bitmap[i] = "RESERVED"
NothingEarly == Early => blocks = {}
NotFree == ~ Early => \A i \in LowFrames \union KernelFrames : bitmap[i] # "UNUSED"
FirstTableReserved ==
  pc \in {"kernel", "copy_info", "copy_modules", "free_lower"} =>
    \A i \in Page : i < FirstPageTablePages => bitmap[i] = "RESERVED"
IndexInRange ==
  /\ pc = "mmap" /\ mmap # NoMap => index \in 1 .. Len(mmap)
  /\ pc = "copy_info" => index = 1
  /\ pc = "copy_modules" => index \in 1 .. Len(Modules)

ModulesInMemory == \A i \in ModuleIds : mod_start[i] + Modules[i].len \in Address

IInv ==
  /\ TypeOK /\ IndexInRange /\ ModulesInMemory
  /\ NothingWithoutMap /\ NothingEarly /\ NotFree /\ FirstTableReserved
  /\ HandedOutOnce /\ HighestKernelPageBounds

-----------------------------------------------------------------------------
(* What the steps are made of.                                             *)

LEMMA AddressOrder ==
  ASSUME NEW i \in Nat, NEW j \in Nat
  PROVE  /\ pmm_get_address(i) \in Nat
         /\ i < j => pmm_get_address(i) + PageSize <= pmm_get_address(j)
         /\ pmm_get_address(i) < pmm_get_address(j) => i < j
<1>1. (i + 1) * PageSize = i * PageSize + PageSize
  OBVIOUS
<1>2. i < j => (i + 1) * PageSize <= j * PageSize
  OBVIOUS
<1>3. j <= i => j * PageSize <= i * PageSize
  OBVIOUS
<1>4. i * PageSize \in Nat /\ j * PageSize \in Nat
  OBVIOUS
<1> QED
  BY <1>1, <1>2, <1>3, <1>4 DEF pmm_get_address

LEMMA UseType ==
  ASSUME NEW b \in Bitmap, NEW p, NEW n, NEW flags \in Flags
  PROVE  /\ pmm_use(b, p, n, flags) \in Bitmap
         /\ \A i \in Page : pmm_use(b, p, n, flags)[i] =
                              IF n # 0 /\ i \in FramesOf(p, n) THEN flags ELSE b[i]
BY DEF pmm_use, Bitmap

(* The constants, and where the kernel image and the low memory lie.       *)
LEMMA Constants ==
  /\ LowerMemory \in Nat /\ FirstPageTable \in Nat /\ LowerMemory <= FirstPageTable
  /\ FirstPageTable < MemorySize
  /\ kernel_start \in Nat /\ kernel_end - kernel_start + 1 \in Nat \ {0}
  /\ FirstPageTable <= kernel_start
  /\ kernel_start + (kernel_end - kernel_start + 1) <= MemorySize
  /\ InfoLength \in Nat
<1>1. LowerMemory \in Address /\ FirstPageTable \in Address
  BY PmmAssumption, AddressOfPage, 0 \in 0 .. PageSize - 1
<1> QED
  BY <1>1, PmmAssumption, MemorySizePositive DEF Address

LEMMA FirstTable ==
  /\ FirstPageTablePages \in Nat
  /\ FirstPageTable = pmm_get_address(FirstPageTablePages)
  /\ \E l \in Page : LowerMemory = pmm_get_address(l)
<1>1. PICK f \in Page : FirstPageTable = pmm_get_address(f)
  BY PmmAssumption
<1>2. f \in Nat /\ f * PageSize \in Nat
  BY DEF Page
<1>3. FirstPageTable \div PageSize = f
  BY <1>1, <1>2, PageUnique DEF pmm_get_address
<1> QED
  BY <1>1, <1>2, <1>3, PmmAssumption DEF FirstPageTablePages

LEMMA LowAndKernelFrames ==
  /\ LowFrames \subseteq Page /\ KernelFrames \subseteq Page
  /\ \A i \in LowFrames : i < FirstPageTablePages
  /\ \A i \in KernelFrames : FirstPageTablePages <= i
<1> USE Constants, FirstTable
<1>1. KernelFrames \subseteq Page
  BY FramesArePages DEF KernelFrames
<1>2. ASSUME NEW i \in LowFrames PROVE i < FirstPageTablePages
  BY <1>2, AddressOrder DEF LowFrames, Page
<1>3. ASSUME NEW i \in KernelFrames PROVE FirstPageTablePages <= i
  <2>1. i \in Page /\ i \in Nat
    BY <1>1 DEF Page
  <2>2. kernel_start < pmm_get_address(i) + PageSize
    BY <2>1, FramesOfRange DEF KernelFrames
  <2> QED
    BY <2>1, <2>2, AddressOrder
<1> QED
  BY <1>1, <1>2, <1>3 DEF LowFrames

(* FreeLowerMemory stays below the kernel and above 1 MiB.                 *)
LEMMA MiddleFrames ==
  ASSUME NEW i \in Page, FirstPageTable - LowerMemory # 0,
         i \in FramesOf(LowerMemory, FirstPageTable - LowerMemory)
  PROVE  /\ i < FirstPageTablePages /\ i \notin LowFrames
         /\ LowerMemory <= pmm_get_address(i)
         /\ pmm_get_address(i) + PageSize <= FirstPageTable
<1> USE Constants
<1>1. i \in Nat /\ FirstPageTable - LowerMemory \in Nat \ {0}
  BY DEF Page
<1>2. pmm_get_address(i) < FirstPageTable /\ LowerMemory < pmm_get_address(i) + PageSize
  <2>1. LowerMemory + (FirstPageTable - LowerMemory) = FirstPageTable
        /\ FirstPageTable <= MemorySize
    BY MemorySizePositive
  <2> QED
    BY <1>1, <2>1, FramesOfRange
<1>3. PICK l \in Page : LowerMemory = pmm_get_address(l)
  BY FirstTable
<1>4. l \in Nat /\ FirstPageTablePages \in Nat
  BY FirstTable DEF Page
<1>5. i < FirstPageTablePages
  BY <1>1, <1>2, <1>4, FirstTable, AddressOrder
<1>6. ~ (i < l)
  <2>1. i < l => pmm_get_address(i) + PageSize <= pmm_get_address(l)
    BY <1>1, <1>4, AddressOrder
  <2> QED
    BY <1>1, <1>2, <1>3, <2>1, AddressOrder
<1>7. LowerMemory <= pmm_get_address(i)
  <2>1. i = l \/ l < i
    BY <1>1, <1>4, <1>6
  <2>2. CASE l < i
    <3>1. pmm_get_address(l) + PageSize <= pmm_get_address(i) /\ pmm_get_address(i) \in Nat
      BY <1>1, <1>4, <2>2, AddressOrder
    <3> QED
      BY <1>3, <3>1
  <2> QED
    BY <1>1, <1>3, <2>1, <2>2, AddressOrder
<1> QED
  BY <1>1, <1>4, <1>5, <1>7, FirstTable, AddressOrder DEF LowFrames

(* To claim memory changes its frames and keeps the bound of the kernel's  *)
(* frames.                                                                 *)
LEMMA ClaimKeeps ==
  ASSUME TypeOK, HighestKernelPageBounds,
         NEW p \in Nat, NEW n \in Nat, NEW flags \in Flags, Claim(p, n, flags)
  PROVE  /\ bitmap' \in Bitmap /\ highest_kernel_page' \in Page
         /\ HighestKernelPageBounds'
         /\ \A i \in Page :
              bitmap'[i] = IF n # 0 /\ i \in FramesOf(p, n) THEN flags ELSE bitmap[i]
<1>1. bitmap' \in Bitmap
      /\ \A i \in Page :
           bitmap'[i] = IF n # 0 /\ i \in FramesOf(p, n) THEN flags ELSE bitmap[i]
  BY UseType DEF Claim, TypeOK
<1> DEFINE last == pmm_get_page(p, n - 1)
<1>2. highest_kernel_page' = IF n # 0 /\ flags = "KERNEL" /\ last > highest_kernel_page
                             THEN last ELSE highest_kernel_page
  BY DEF Claim
<1>3. n # 0 => last \in Page
  BY PageRange
<1>4. highest_kernel_page \in Page
  BY DEF TypeOK
<1>5. \A i \in FramesOf(p, n) : i <= last
  BY DEF FramesOf
<1> HIDE DEF last
<1>6. ASSUME NEW i \in Page, bitmap'[i] = "KERNEL" PROVE i <= highest_kernel_page'
  <2>1. CASE n # 0 /\ i \in FramesOf(p, n)
    BY <1>1, <1>2, <1>3, <1>4, <1>5, <1>6, <2>1 DEF Page
  <2>2. CASE ~ (n # 0 /\ i \in FramesOf(p, n))
    BY <1>1, <1>2, <1>3, <1>4, <1>6, <2>2 DEF Page, HighestKernelPageBounds
  <2> QED
    BY <2>1, <2>2
<1> QED
  BY <1>1, <1>2, <1>3, <1>4, <1>6 DEF HighestKernelPageBounds

LEMMA BlockFramesArePages ==
  ASSUME TypeOK, NEW b \in blocks
  PROVE  BlockFrames(b) \subseteq Page
BY FramesArePages, MemorySizePositive DEF TypeOK, Block, BlockFrames, Address

(* Memory that is handed out was not in use; the rest stays as it is.      *)
LEMMA AllocKeeps ==
  ASSUME TypeOK, HighestKernelPageBounds, HandedOutOnce, NotFree, ~ Early,
         NEW n \in Nat, NEW flags \in {"KERNEL", "USER"}, pmm_alloc(n, flags)
  PROVE  /\ bitmap' \in Bitmap /\ highest_kernel_page' \in Page /\ blocks' \subseteq Block
         /\ HighestKernelPageBounds' /\ HandedOutOnce'
         /\ \A i \in Page : bitmap[i] # "UNUSED" => bitmap'[i] = bitmap[i]
         /\ \A i \in Page : bitmap'[i] = "UNUSED" => bitmap[i] = "UNUSED"
         /\ (\A i \in Page : bitmap[i] # "UNUSED") => blocks' = blocks
         /\ \A b \in blocks' : b \notin blocks =>
              /\ b.permanent = (pc # "run")
              /\ \A i \in BlockFrames(b) : i \in Page /\ bitmap[i] = "UNUSED"
<1> DEFINE ptr == pmm_find_free(bitmap, n)
           new == [ptr |-> ptr, len |-> n, flags |-> flags, permanent |-> pc # "run"]
<1>1. CASE ptr = 0
  BY <1>1 DEF pmm_alloc, TypeOK, HandedOutOnce, HighestKernelPageBounds
<1>2. CASE ptr # 0
  <2>1. Claim(ptr, n, flags) /\ blocks' = blocks \union {new}
    BY <1>2 DEF pmm_alloc
  <2>2. /\ n # 0 /\ ptr \in Address /\ ptr \in Nat
        /\ FramesOf(ptr, n) \subseteq Page /\ FramesOf(ptr, n) # {}
        /\ \A i \in FramesOf(ptr, n) : bitmap[i] = "UNUSED"
    BY <1>2, FoundFrames, MemorySizePositive DEF Address
  <2>3. /\ bitmap' \in Bitmap /\ highest_kernel_page' \in Page
        /\ HighestKernelPageBounds'
        /\ \A i \in Page : bitmap'[i] = IF i \in FramesOf(ptr, n) THEN flags ELSE bitmap[i]
    BY <2>1, <2>2, ClaimKeeps DEF Flags
  <2>4. new \in Block /\ blocks \subseteq Block
    BY <2>2 DEF Block, TypeOK
  <2>5. BlockFrames(new) = FramesOf(ptr, n) /\ new.flags = flags
    BY DEF BlockFrames
  <2>6. ASSUME NEW b \in blocks
        PROVE  /\ BlockFrames(b) \subseteq Page
               /\ BlockFrames(b) \intersect BlockFrames(new) = {}
               /\ \A i \in BlockFrames(b) : bitmap'[i] = b.flags
    <3>1. b \in Block /\ b.flags # "UNUSED" /\ b.ptr \in Nat /\ b.len \in Nat \ {0}
      BY <2>4, MemorySizePositive DEF Block, Address
    <3>2. \A i \in BlockFrames(b) : bitmap[i] = b.flags
      BY DEF HandedOutOnce
    <3>3. BlockFrames(b) \intersect BlockFrames(new) = {}
      BY <2>2, <2>5, <3>1, <3>2
    <3>4. BlockFrames(b) \subseteq Page
      BY <3>1, FramesArePages DEF BlockFrames
    <3> QED
      BY <2>3, <2>5, <3>2, <3>3, <3>4
  <2>7. BlockFrames(new) \intersect (LowFrames \union KernelFrames) = {}
    BY <2>2, <2>5 DEF NotFree
  <2>8. HandedOutOnce'
    BY <2>1, <2>2, <2>3, <2>5, <2>6, <2>7 DEF HandedOutOnce
  <2>9. new.permanent = (pc # "run")
    OBVIOUS
  <2> HIDE DEF new
  <2> QED
    BY <2>1, <2>2, <2>3, <2>4, <2>5, <2>8, <2>9
<1> QED
  BY <1>1, <1>2

-----------------------------------------------------------------------------
(* The contents of memory.                                                 *)

Contents == [Address -> FileBytes \union {Other}]

LEMMA ModuleTypes ==
  /\ ModuleIds = 1 .. Len(Modules) /\ Len(Modules) \in Nat
  /\ \A i \in ModuleIds : Modules[i].len \in Nat /\ Modules[i].string \in Nat \ {0}
<1>1. Modules \in Seq(Module)
  BY PmmAssumption
<1>2. \A i \in DOMAIN Modules : Modules[i] \in Module
  BY <1>1
<1> QED
  BY <1>1, <1>2 DEF ModuleIds, Module

LEMMA OverwriteType ==
  ASSUME NEW mem \in Contents, NEW dst, NEW n
  PROVE  Overwrite(mem, dst, n) \in Contents
BY DEF Overwrite, Contents

LEMMA MemcpyType ==
  ASSUME NEW mem \in Contents, NEW dst \in Nat, NEW src \in Nat, NEW n \in Nat \ {0},
         src + (n - 1) \in Address
  PROVE  memcpy(mem, dst, src, n) \in Contents
<1>1. ASSUME NEW a \in Address, a \in dst .. dst + n - 1, dst > src, dst < src + n
      PROVE  src + ((a - dst) % (dst - src)) \in Address
  <2>1. a - dst \in Nat /\ dst - src \in Nat \ {0}
    BY <1>1 DEF Address
  <2>2. (a - dst) % (dst - src) \in 0 .. dst - src - 1
    BY <2>1
  <2> QED
    BY <1>1, <2>1, <2>2, MemorySizePositive DEF Address
<1>2. ASSUME NEW a \in Address, a \in dst .. dst + n - 1
      PROVE  src + (a - dst) \in Address
  BY <1>2, MemorySizePositive DEF Address
<1> QED
  BY <1>1, <1>2 DEF memcpy, Contents

LEMMA InitialTypes ==
  ASSUME NEW starts \in Placements
  PROVE  /\ starts \in [ModuleIds -> Address]
         /\ \A i \in ModuleIds : starts[i] + Modules[i].len \in Address
         /\ LoadedContents(starts) \in Contents
<1>1. starts \in [ModuleIds -> {pmm_get_address(p) : p \in ModulePages}]
  BY DEF Placements
<1>2. ASSUME NEW i \in ModuleIds
      PROVE  starts[i] \in Address /\ starts[i] + Modules[i].len \in Address
  <2>1. PICK p \in ModulePages : starts[i] = pmm_get_address(p)
    BY <1>1
  <2> QED
    BY <2>1, PmmAssumption, AddressOfPage, 0 \in 0 .. PageSize - 1 DEF ModuleIds
<1>3. starts \in [ModuleIds -> Address]
  BY <1>1, <1>2
<1>4. ASSUME NEW a \in Address, NEW i \in ModuleIds, a \in ModuleBytes(i, starts[i])
      PROVE  <<i, a - starts[i]>> \in FileBytes
  <2>1. starts[i] \in Nat /\ a \in Nat /\ Modules[i].len \in Nat
    BY <1>3, ModuleTypes, MemorySizePositive DEF Address
  <2>2. a - starts[i] \in 0 .. Modules[i].len - 1
    BY <1>4, <2>1 DEF ModuleBytes
  <2> QED
    BY <2>2 DEF FileBytes
<1>5. ASSUME NEW a \in Address PROVE LoadedContents(starts)[a] \in FileBytes \union {Other}
  <2>1. CASE \E i \in ModuleIds : a \in ModuleBytes(i, starts[i])
    <3> DEFINE j == CHOOSE i \in ModuleIds : a \in ModuleBytes(i, starts[i])
    <3>1. j \in ModuleIds /\ a \in ModuleBytes(j, starts[j])
      BY <2>1
    <3> HIDE DEF j
    <3>2. <<j, a - starts[j]>> \in FileBytes
      BY <1>4, <3>1
    <3> QED
      BY <2>1, <3>2 DEF LoadedContents, j
  <2>2. CASE ~ \E i \in ModuleIds : a \in ModuleBytes(i, starts[i])
    BY <2>2 DEF LoadedContents
  <2> QED
    BY <2>1, <2>2
<1> QED
  BY <1>2, <1>3, <1>5 DEF LoadedContents, Contents

-----------------------------------------------------------------------------
(* The invariant holds at the start and is kept by every step.             *)

LEMMA InitIInv == Init => IInv
<1> SUFFICES ASSUME Init PROVE IInv
  OBVIOUS
<1>1. /\ mod_start \in [ModuleIds -> Address] /\ contents \in Contents
      /\ ModulesInMemory
  BY InitialTypes DEF Init, ModulesInMemory
<1>2. TypeOK
  BY <1>1 DEF Init, TypeOK, Bitmap, Flags, Page, Contents, Steps
<1>3. IndexInRange
  <2> SUFFICES ASSUME mmap # NoMap PROVE 1 \in 1 .. Len(mmap)
    BY DEF Init, IndexInRange
  <2>1. mmap \in Seq(Entry) /\ mmap # <<>>
    BY PmmAssumption DEF Init, NoMap
  <2> QED
    BY <2>1
<1>4. NothingWithoutMap /\ NothingEarly /\ NotFree /\ FirstTableReserved
  BY DEF Init, NothingWithoutMap, NothingEarly, NotFree, Early, FirstTableReserved
<1>5. HandedOutOnce /\ HighestKernelPageBounds
  BY DEF Init, HandedOutOnce, HighestKernelPageBounds
<1> QED
  BY <1>1, <1>2, <1>3, <1>4, <1>5 DEF IInv

LEMMA NoMemoryMapIInv ==
  ASSUME IInv, NoMemoryMap
  PROVE  IInv'
<1> USE DEF NoMemoryMap, IInv
<1>1. TypeOK' /\ IndexInRange' /\ ModulesInMemory'
  BY DEF TypeOK, IndexInRange, ModulesInMemory, Steps, NoMap
<1>2. NotFree'
  BY LowAndKernelFrames DEF NothingWithoutMap, NotFree
<1>3. NothingWithoutMap' /\ NothingEarly' /\ FirstTableReserved'
  BY DEF NothingWithoutMap, NothingEarly, FirstTableReserved, Early
<1>4. HandedOutOnce' /\ HighestKernelPageBounds'
  BY DEF HandedOutOnce, HighestKernelPageBounds
<1> QED
  BY <1>1, <1>2, <1>3, <1>4

LEMMA FreeMemoryIInv ==
  ASSUME IInv, FreeMemory
  PROVE  IInv'
<1> DEFINE e == mmap[index]
           flags == IF e.available THEN "UNUSED" ELSE "RESERVED"
<1>1. /\ pc = "mmap" /\ mmap # NoMap /\ Claim(e.base, e.len, flags) /\ index' = index + 1
      /\ pc' = IF index = Len(mmap) THEN "low" ELSE "mmap"
      /\ UNCHANGED <<mmap, mod_start, contents, blocks>>
  BY DEF FreeMemory
<1>2. TypeOK /\ HighestKernelPageBounds /\ mmap \in Seq(Entry) /\ index \in 1 .. Len(mmap)
  BY <1>1, PmmAssumption DEF IInv, TypeOK, IndexInRange
<1>3. e.base \in Nat /\ e.len \in Nat /\ flags \in Flags
  <2>1. e \in Entry
    BY <1>2
  <2> QED
    BY <2>1, MemorySizePositive DEF Entry, Address, Flags
<1>4. /\ bitmap' \in Bitmap /\ highest_kernel_page' \in Page
      /\ HighestKernelPageBounds'
  BY <1>1, <1>2, <1>3, ClaimKeeps
<1>5. TypeOK' /\ IndexInRange' /\ ModulesInMemory'
  BY <1>1, <1>2, <1>4 DEF IInv, TypeOK, IndexInRange, ModulesInMemory, Steps
<1>6. blocks' = {} /\ pc' \in {"mmap", "low"}
  BY <1>1 DEF IInv, NothingEarly, Early
<1>7. NothingWithoutMap' /\ NothingEarly' /\ NotFree' /\ FirstTableReserved'
  BY <1>1, <1>6 DEF NothingWithoutMap, NothingEarly, NotFree, FirstTableReserved, Early
<1>8. HandedOutOnce'
  BY <1>6 DEF HandedOutOnce
<1> QED
  BY <1>4, <1>5, <1>7, <1>8 DEF IInv

LEMMA ReserveFirstPageTableIInv ==
  ASSUME IInv, ReserveFirstPageTable
  PROVE  IInv'
<1> USE DEF ReserveFirstPageTable, IInv
<1>1. /\ bitmap' \in Bitmap
      /\ \A i \in Page : bitmap'[i] = IF i < FirstPageTablePages THEN "RESERVED" ELSE bitmap[i]
  BY DEF TypeOK, Bitmap, Flags
<1>2. TypeOK' /\ IndexInRange' /\ ModulesInMemory'
  BY <1>1 DEF TypeOK, IndexInRange, ModulesInMemory, Steps
<1>3. mmap # NoMap /\ blocks' = {}
  BY DEF NothingWithoutMap, NothingEarly, Early
<1>4. NothingWithoutMap' /\ NothingEarly' /\ NotFree' /\ FirstTableReserved'
  BY <1>1, <1>3 DEF NothingWithoutMap, NothingEarly, NotFree, FirstTableReserved, Early
<1>5. HandedOutOnce' /\ HighestKernelPageBounds'
  BY <1>1, <1>3 DEF HandedOutOnce, HighestKernelPageBounds
<1> QED
  BY <1>2, <1>4, <1>5

LEMMA UseKernelMemoryIInv ==
  ASSUME IInv, pmm_use_kernel_memory
  PROVE  IInv'
<1> DEFINE len == kernel_end - kernel_start + 1
<1>1. /\ pc = "kernel" /\ Claim(kernel_start, len, "KERNEL") /\ pc' = "copy_info" /\ index' = 1
      /\ UNCHANGED <<mmap, mod_start, contents, blocks>>
  BY DEF pmm_use_kernel_memory
<1>2. mmap # NoMap /\ blocks' = {}
  BY <1>1 DEF IInv, NothingWithoutMap, NothingEarly, Early
<1>3. kernel_start \in Nat /\ len \in Nat /\ len # 0
  BY Constants
<1>4. /\ bitmap' \in Bitmap /\ highest_kernel_page' \in Page
      /\ HighestKernelPageBounds'
      /\ \A i \in Page : bitmap'[i] = IF i \in KernelFrames THEN "KERNEL" ELSE bitmap[i]
  BY <1>1, <1>3, ClaimKeeps DEF IInv, Flags, KernelFrames
<1>5. TypeOK' /\ IndexInRange' /\ ModulesInMemory'
  BY <1>1, <1>4 DEF IInv, TypeOK, IndexInRange, ModulesInMemory, Steps
<1>6. FirstTableReserved'
  BY <1>1, <1>4, LowAndKernelFrames, FirstTable DEF IInv, FirstTableReserved, Page
<1>7. NotFree'
  BY <1>1, <1>4, <1>6, LowAndKernelFrames DEF NotFree, FirstTableReserved
<1>8. NothingWithoutMap' /\ NothingEarly' /\ HandedOutOnce'
  BY <1>1, <1>2 DEF NothingWithoutMap, NothingEarly, HandedOutOnce, Early
<1> QED
  BY <1>4, <1>5, <1>6, <1>7, <1>8 DEF IInv

(* What every call of pmm_alloc keeps, with whatever is done to the memory *)
(* it returns.                                                             *)
LEMMA AllocIInv ==
  ASSUME IInv, ~ Early, ~ Early', NEW n \in Nat, NEW flags \in {"KERNEL", "USER"},
         pmm_alloc(n, flags), mmap' = mmap, pc' = pc \/ pc' = "free_lower" \/ pc' = "copy_modules",
         pc = "run" => pc' = pc
  PROVE  /\ bitmap' \in Bitmap /\ highest_kernel_page' \in Page /\ blocks' \subseteq Block
         /\ NothingWithoutMap' /\ NothingEarly' /\ NotFree' /\ FirstTableReserved'
         /\ HandedOutOnce' /\ HighestKernelPageBounds'
<1>1. /\ bitmap' \in Bitmap /\ highest_kernel_page' \in Page /\ blocks' \subseteq Block
      /\ HighestKernelPageBounds' /\ HandedOutOnce'
      /\ \A i \in Page : bitmap[i] # "UNUSED" => bitmap'[i] = bitmap[i]
      /\ \A i \in Page : bitmap'[i] = "UNUSED" => bitmap[i] = "UNUSED"
      /\ (\A i \in Page : bitmap[i] # "UNUSED") => blocks' = blocks
  BY AllocKeeps DEF IInv
<1>2. NothingWithoutMap'
  BY <1>1 DEF IInv, NothingWithoutMap, Early
<1>3. NotFree' /\ NothingEarly'
  BY <1>1, LowAndKernelFrames DEF IInv, NotFree, NothingEarly
<1>4. FirstTableReserved'
  <2> SUFFICES ASSUME pc' \in {"kernel", "copy_info", "copy_modules", "free_lower"},
                      NEW i \in Page, i < FirstPageTablePages
               PROVE  bitmap'[i] = "RESERVED"
    BY DEF FirstTableReserved
  <2>1. pc \in {"copy_info", "copy_modules", "free_lower"}
    BY DEF IInv, TypeOK, Steps, Early
  <2> QED
    BY <1>1, <2>1 DEF IInv, FirstTableReserved
<1> QED
  BY <1>1, <1>2, <1>3, <1>4

LEMMA CopyInfoIInv ==
  ASSUME IInv, CopyInfo
  PROVE  IInv'
<1>1. /\ pc = "copy_info" /\ pmm_alloc(InfoLength, "KERNEL")
      /\ contents' = Overwrite(contents, pmm_find_free(bitmap, InfoLength), InfoLength)
      /\ pc' = IF Modules = <<>> THEN "free_lower" ELSE "copy_modules"
      /\ UNCHANGED <<mmap, mod_start, index>>
  BY DEF CopyInfo
<1>2. index' = 1
  BY <1>1 DEF IInv, IndexInRange
<1>3. contents' \in Contents
  BY <1>1, OverwriteType DEF IInv, TypeOK, Contents
<1>4. ~ Early /\ ~ Early'
  BY <1>1 DEF Early
<1>5. /\ bitmap' \in Bitmap /\ highest_kernel_page' \in Page /\ blocks' \subseteq Block
      /\ NothingWithoutMap' /\ NothingEarly' /\ NotFree' /\ FirstTableReserved'
      /\ HandedOutOnce' /\ HighestKernelPageBounds'
  BY <1>1, <1>4, Constants, AllocIInv
<1>6. TypeOK' /\ ModulesInMemory'
  BY <1>1, <1>3, <1>5 DEF IInv, TypeOK, ModulesInMemory, Steps, Contents
<1>7. IndexInRange'
  BY <1>1, <1>2, ModuleTypes, PmmAssumption DEF IndexInRange
<1> QED
  BY <1>1, <1>5, <1>6, <1>7 DEF IInv

(* A module that is copied, or not: pmm_alloc may have returned 0.          *)
LEMMA CopyModuleIInv ==
  ASSUME IInv, CopyModule
  PROVE  IInv'
<1> DEFINE length == Modules[index].len + 1
           string == Modules[index].string
           dst    == pmm_find_free(bitmap, length + string)
<1>1. /\ pc = "copy_modules" /\ pmm_alloc(length + string, "KERNEL")
      /\ contents' = Overwrite(memcpy(contents, dst, mod_start[index], length),
                               dst + length, string)
      /\ mod_start' = [mod_start EXCEPT ![index] = dst]
      /\ index' = index + 1
      /\ pc' = IF index = Len(Modules) THEN "free_lower" ELSE "copy_modules"
      /\ UNCHANGED mmap
  BY DEF CopyModule
<1>2. /\ index \in ModuleIds /\ index \in Nat /\ Modules[index].len \in Nat /\ string \in Nat
      /\ length \in Nat \ {0} /\ length + string \in Nat
  BY <1>1, ModuleTypes DEF IInv, IndexInRange
<1>3. mod_start[index] \in Nat /\ mod_start[index] + (length - 1) \in Address
  BY <1>2, MemorySizePositive DEF IInv, TypeOK, ModulesInMemory, Address
<1>4. dst \in Address /\ dst \in Nat /\ dst + Modules[index].len \in Address
  <2>1. CASE dst = 0
    BY <1>2, <1>3, <2>1, MemorySizePositive DEF Address
  <2>2. CASE dst # 0
    BY <1>2, <2>2, FoundFrames, MemorySizePositive DEF Address
  <2> QED
    BY <2>1, <2>2
<1> HIDE DEF length, string, dst
<1>5. contents' \in Contents
  BY <1>1, <1>2, <1>3, <1>4, MemcpyType, OverwriteType DEF IInv, TypeOK, Contents
<1>6. ~ Early /\ ~ Early'
  BY <1>1 DEF Early
<1>7. /\ bitmap' \in Bitmap /\ highest_kernel_page' \in Page /\ blocks' \subseteq Block
      /\ NothingWithoutMap' /\ NothingEarly' /\ NotFree' /\ FirstTableReserved'
      /\ HandedOutOnce' /\ HighestKernelPageBounds'
  BY <1>1, <1>2, <1>6, AllocIInv
<1>8. mod_start' \in [ModuleIds -> Address] /\ ModulesInMemory'
  BY <1>1, <1>2, <1>4 DEF IInv, TypeOK, ModulesInMemory
<1>9. TypeOK'
  BY <1>1, <1>2, <1>5, <1>7, <1>8 DEF IInv, TypeOK, Steps, Contents
<1>10. IndexInRange'
  BY <1>1, <1>2, ModuleTypes DEF IndexInRange
<1> QED
  BY <1>7, <1>8, <1>9, <1>10 DEF IInv

LEMMA FreeLowerMemoryIInv ==
  ASSUME IInv, FreeLowerMemory
  PROVE  IInv'
<1> DEFINE len == FirstPageTable - LowerMemory
<1>1. /\ pc = "free_lower" /\ Claim(LowerMemory, len, "UNUSED") /\ pc' = "run"
      /\ UNCHANGED <<mmap, mod_start, contents, blocks, index>>
  BY DEF FreeLowerMemory
<1>2. LowerMemory \in Nat /\ len \in Nat
  BY Constants
<1>3. /\ bitmap' \in Bitmap /\ highest_kernel_page' \in Page /\ HighestKernelPageBounds'
      /\ \A i \in Page : bitmap'[i] = IF len # 0 /\ i \in FramesOf(LowerMemory, len)
                                      THEN "UNUSED" ELSE bitmap[i]
  BY <1>1, <1>2, ClaimKeeps DEF IInv, Flags
<1>4. \A i \in Page : bitmap'[i] # bitmap[i] =>
        i \notin LowFrames /\ i \notin KernelFrames /\ bitmap[i] = "RESERVED"
  <2> SUFFICES ASSUME NEW i \in Page, bitmap'[i] # bitmap[i]
               PROVE  i \notin LowFrames /\ i \notin KernelFrames /\ bitmap[i] = "RESERVED"
    OBVIOUS
  <2>1. i < FirstPageTablePages /\ i \notin LowFrames
    BY <1>3, MiddleFrames
  <2> QED
    BY <1>1, <2>1, LowAndKernelFrames, FirstTable DEF IInv, FirstTableReserved, Page
<1>5. TypeOK' /\ IndexInRange' /\ ModulesInMemory'
  BY <1>1, <1>3 DEF IInv, TypeOK, IndexInRange, ModulesInMemory, Steps
<1>6. NotFree'
  BY <1>1, <1>4, LowAndKernelFrames DEF IInv, NotFree, Early
<1>7. NothingWithoutMap' /\ NothingEarly' /\ FirstTableReserved'
  BY <1>1 DEF IInv, NothingWithoutMap, NothingEarly, FirstTableReserved, Early
<1>8. HandedOutOnce'
  <2>1. ASSUME NEW b \in blocks, NEW i \in BlockFrames(b) PROVE bitmap'[i] = b.flags
    <3>1. bitmap[i] = b.flags /\ b.flags # "RESERVED"
      BY DEF IInv, HandedOutOnce, TypeOK, Block
    <3>2. i \in Page
      BY BlockFramesArePages DEF IInv
    <3> QED
      BY <1>4, <3>1, <3>2
  <2> QED
    BY <1>1, <2>1 DEF IInv, HandedOutOnce
<1> QED
  BY <1>3, <1>5, <1>6, <1>7, <1>8 DEF IInv

LEMMA RunAllocIInv ==
  ASSUME IInv, NEW len \in Lengths, NEW flags \in {"KERNEL", "USER"}, Alloc(len, flags)
  PROVE  IInv'
<1>1. /\ pc = "run" /\ pmm_alloc(len, flags) /\ UNCHANGED <<mmap, mod_start, contents, pc, index>>
  BY DEF Alloc
<1>2. /\ bitmap' \in Bitmap /\ highest_kernel_page' \in Page /\ blocks' \subseteq Block
      /\ NothingWithoutMap' /\ NothingEarly' /\ NotFree' /\ FirstTableReserved'
      /\ HandedOutOnce' /\ HighestKernelPageBounds'
  BY <1>1, PmmAssumption, AllocIInv DEF Early
<1>3. TypeOK' /\ IndexInRange' /\ ModulesInMemory'
  BY <1>1, <1>2 DEF IInv, TypeOK, IndexInRange, ModulesInMemory
<1> QED
  BY <1>2, <1>3 DEF IInv

LEMMA RunFreeIInv ==
  ASSUME IInv, NEW b \in blocks, pmm_free(b)
  PROVE  IInv'
<1>1. /\ pc = "run" /\ Claim(b.ptr, b.len, "UNUSED") /\ blocks' = blocks \ {b}
      /\ UNCHANGED <<mmap, mod_start, contents, pc, index>>
  BY DEF pmm_free
<1>2. TypeOK /\ b \in Block /\ b.ptr \in Nat /\ b.len \in Nat \ {0}
  BY MemorySizePositive DEF IInv, TypeOK, Block, Address
<1>3. /\ bitmap' \in Bitmap /\ highest_kernel_page' \in Page /\ HighestKernelPageBounds'
      /\ \A i \in Page : bitmap'[i] = IF i \in BlockFrames(b) THEN "UNUSED" ELSE bitmap[i]
  BY <1>1, <1>2, ClaimKeeps DEF IInv, Flags, BlockFrames
<1>4. TypeOK' /\ IndexInRange' /\ ModulesInMemory'
  BY <1>1, <1>3 DEF IInv, TypeOK, IndexInRange, ModulesInMemory
<1>5. NotFree'
  BY <1>1, <1>3, LowAndKernelFrames DEF IInv, NotFree, HandedOutOnce, Early
<1>6. NothingWithoutMap' /\ NothingEarly' /\ FirstTableReserved'
  BY <1>1 DEF IInv, NothingWithoutMap, NothingEarly, FirstTableReserved, Early
<1>7. HandedOutOnce'
  <2>1. ASSUME NEW c \in blocks', NEW i \in BlockFrames(c) PROVE bitmap'[i] = c.flags
    <3>1. c \in blocks /\ c # b /\ i \in Page
      BY <1>1, <1>2, <2>1, BlockFramesArePages
    <3> QED
      BY <1>3, <2>1, <3>1 DEF IInv, HandedOutOnce
  <2> QED
    BY <1>1, <2>1 DEF IInv, HandedOutOnce
<1> QED
  BY <1>3, <1>4, <1>5, <1>6, <1>7 DEF IInv

LEMMA NextIInv == IInv /\ [Next]_vars => IInv'
<1> SUFFICES ASSUME IInv, [Next]_vars PROVE IInv'
  OBVIOUS
<1>1. CASE UNCHANGED vars
  BY <1>1 DEF vars, IInv, TypeOK, IndexInRange, ModulesInMemory, NothingWithoutMap,
    NothingEarly, NotFree, FirstTableReserved, HandedOutOnce, HighestKernelPageBounds, Early
<1>2. ASSUME NEW len \in Lengths, NEW flags \in {"KERNEL", "USER"}, Alloc(len, flags)
      PROVE  IInv'
  BY <1>2, RunAllocIInv
<1>3. ASSUME NEW b \in blocks, pmm_free(b) PROVE IInv'
  BY <1>3, RunFreeIInv
<1> QED
  BY <1>1, <1>2, <1>3, NoMemoryMapIInv, FreeMemoryIInv, ReserveFirstPageTableIInv,
    UseKernelMemoryIInv, CopyInfoIInv, CopyModuleIInv, FreeLowerMemoryIInv DEF Next

THEOREM Invariant == Spec => []IInv
BY InitIInv, NextIInv, PTL DEF Spec

-----------------------------------------------------------------------------
(* Types, for every size of the memory, memory map and set of modules.     *)
THEOREM TypeCorrect == Spec => []TypeOK
<1>1. IInv => TypeOK
  BY DEF IInv
<1> QED
  BY Invariant, <1>1, PTL

(* No frame is handed out twice, and none of the kernel or the low memory. *)
THEOREM HandsOutOnce == Spec => []HandedOutOnce
<1>1. IInv => HandedOutOnce
  BY DEF IInv
<1> QED
  BY Invariant, <1>1, PTL

(* No frame of the kernel lies above highest_kernel_page.                  *)
THEOREM KernelIsBounded == Spec => []HighestKernelPageBounds
<1>1. IInv => HighestKernelPageBounds
  BY DEF IInv
<1> QED
  BY Invariant, <1>1, PTL

-----------------------------------------------------------------------------
(* What is free is memory.                                                 *)

IsMemory(i) ==
  \A a \in pmm_get_address(i) .. pmm_get_address(i) + PageSize - 1 : AvailableAt(mmap, a)

\* Of the entries before n the last one that touches frame i says that it is available.
LastSaysAvailable(i, n) ==
  \E e \in DOMAIN mmap :
    /\ e < n /\ mmap[e].available /\ i \in EntryFrames(mmap[e])
    /\ \A f \in DOMAIN mmap : e < f /\ f < n => i \notin EntryFrames(mmap[f])

(* What is free, or can be freed, is memory; while the map is entered, it  *)
(* is as far as the map is known.                                          *)
FreeIsMemory ==
  /\ pc = "mmap" => \A i \in Page : bitmap[i] = "UNUSED" => LastSaysAvailable(i, index)
  /\ pc # "mmap" => \A i \in Page : bitmap[i] = "UNUSED" => IsMemory(i)
  /\ \A b \in blocks : ~ b.permanent => \A i \in BlockFrames(b) : IsMemory(i)

LEMMA InitFree == Init => FreeIsMemory
BY DEF Init, FreeIsMemory

(* The last entry that touches a frame decides on it.                      *)
LEMMA FreeMemoryFree ==
  ASSUME IInv, FreeIsMemory, FreeMemory
  PROVE  FreeIsMemory'
<1> DEFINE e == mmap[index]
           flags == IF e.available THEN "UNUSED" ELSE "RESERVED"
<1>1. /\ pc = "mmap" /\ mmap # NoMap /\ Claim(e.base, e.len, flags) /\ index' = index + 1
      /\ pc' = IF index = Len(mmap) THEN "low" ELSE "mmap"
      /\ UNCHANGED <<mmap, blocks>>
  BY DEF FreeMemory
<1>2. /\ TypeOK /\ HighestKernelPageBounds /\ mmap \in MemoryMaps
      /\ DOMAIN mmap = 1 .. Len(mmap) /\ Len(mmap) \in Nat
      /\ index \in DOMAIN mmap /\ index \in Nat /\ e \in Entry
  <2>1. mmap \in MemoryMaps /\ mmap \in Seq(Entry) /\ index \in 1 .. Len(mmap)
    BY <1>1, PmmAssumption DEF IInv, TypeOK, IndexInRange
  <2> QED
    BY <2>1 DEF IInv
<1>3. e.base \in Nat /\ e.len \in Nat /\ flags \in Flags
  BY <1>2, MemorySizePositive DEF Entry, Address, Flags
<1>4. \A i \in Page : bitmap'[i] = IF i \in EntryFrames(e) THEN flags ELSE bitmap[i]
  BY <1>1, <1>2, <1>3, ClaimKeeps DEF EntryFrames
<1>5. ASSUME NEW i \in Page, bitmap'[i] = "UNUSED" PROVE LastSaysAvailable(i, index + 1)
  <2>1. CASE i \in EntryFrames(e)
    <3>1. e.available
      BY <1>4, <1>5, <2>1
    <3> QED
      BY <1>2, <2>1, <3>1 DEF LastSaysAvailable
  <2>2. CASE i \notin EntryFrames(e)
    <3>1. LastSaysAvailable(i, index)
      BY <1>1, <1>4, <1>5, <2>2 DEF FreeIsMemory
    <3> QED
      BY <1>2, <2>2, <3>1 DEF LastSaysAvailable
  <2> QED
    BY <2>1, <2>2
<1>6. CASE index # Len(mmap)
  BY <1>1, <1>5, <1>6 DEF FreeIsMemory, LastSaysAvailable, IInv, NothingEarly, Early
<1>7. CASE index = Len(mmap)
  <2>1. ASSUME NEW i \in Page, bitmap'[i] = "UNUSED" PROVE IsMemory(i)
    <3>1. PICK f \in DOMAIN mmap :
            /\ mmap[f].available /\ i \in EntryFrames(mmap[f])
            /\ \A g \in DOMAIN mmap : g > f => i \notin EntryFrames(mmap[g])
      BY <1>2, <1>5, <1>7, <2>1 DEF LastSaysAvailable
    <3> QED
      BY <1>2, <3>1, MemoryMapAssumption DEF IsMemory
  <2> QED
    BY <1>1, <1>7, <2>1 DEF FreeIsMemory, IsMemory, IInv, NothingEarly, Early
<1> QED
  BY <1>6, <1>7

LEMMA AllocFree ==
  ASSUME IInv, FreeIsMemory, ~ Early, NEW n \in Nat, NEW flags \in {"KERNEL", "USER"},
         pmm_alloc(n, flags), UNCHANGED mmap, pc' # "mmap"
  PROVE  FreeIsMemory'
<1>1. /\ \A i \in Page : bitmap'[i] = "UNUSED" => bitmap[i] = "UNUSED"
      /\ \A b \in blocks' : b \notin blocks =>
           /\ b.permanent = (pc # "run")
           /\ \A i \in BlockFrames(b) : i \in Page /\ bitmap[i] = "UNUSED"
  BY AllocKeeps DEF IInv
<1>2. pc # "mmap"
  BY DEF Early
<1> QED
  BY <1>1, <1>2 DEF FreeIsMemory, IsMemory

LEMMA NextFree == IInv /\ FreeIsMemory /\ [Next]_vars => FreeIsMemory'
<1> SUFFICES ASSUME IInv, FreeIsMemory, [Next]_vars PROVE FreeIsMemory'
  OBVIOUS
<1>1. CASE NoMemoryMap
  BY <1>1 DEF NoMemoryMap, IInv, NothingWithoutMap, FreeIsMemory
<1>2. CASE ReserveFirstPageTable
  <2>1. \A i \in Page : bitmap'[i] = "UNUSED" => bitmap[i] = "UNUSED"
    BY <1>2 DEF ReserveFirstPageTable
  <2> QED
    BY <1>2, <2>1 DEF ReserveFirstPageTable, FreeIsMemory, IsMemory
<1>3. CASE pmm_use_kernel_memory
  <2>1. \A i \in Page : bitmap'[i] = "UNUSED" => bitmap[i] = "UNUSED"
    BY <1>3 DEF pmm_use_kernel_memory, Claim, pmm_use
  <2> QED
    BY <1>3, <2>1 DEF pmm_use_kernel_memory, FreeIsMemory, IsMemory
<1>4. CASE CopyInfo
  BY <1>4, Constants, AllocFree DEF CopyInfo, Early
<1>5. CASE CopyModule
  <2>1. Modules[index].len + 1 + Modules[index].string \in Nat
    BY <1>5, ModuleTypes DEF CopyModule, IInv, IndexInRange
  <2> QED
    BY <1>5, <2>1, AllocFree DEF CopyModule, Early
<1>6. CASE FreeLowerMemory
  <2> DEFINE len == FirstPageTable - LowerMemory
  <2>1. pc # "mmap" /\ pc' # "mmap" /\ UNCHANGED <<mmap, blocks>> /\ mmap \in MemoryMaps
    BY <1>6 DEF FreeLowerMemory, IInv, TypeOK, NothingWithoutMap
  <2>2. ASSUME NEW i \in Page, len # 0, i \in FramesOf(LowerMemory, len) PROVE IsMemory(i)
    <3>1. LowerMemory <= pmm_get_address(i) /\ pmm_get_address(i) + PageSize <= FirstPageTable
      BY <2>2, MiddleFrames
    <3>2. pmm_get_address(i) \in Nat
      BY AddressOrder DEF Page
    <3> QED
      BY <2>1, <3>1, <3>2, Constants, MemoryMapAssumption DEF IsMemory
  <2>3. ASSUME NEW i \in Page, bitmap'[i] = "UNUSED" PROVE IsMemory(i)
    <3>1. bitmap'[i] = IF len # 0 /\ i \in FramesOf(LowerMemory, len) THEN "UNUSED" ELSE bitmap[i]
      BY <1>6 DEF FreeLowerMemory, Claim, pmm_use
    <3> QED
      BY <2>1, <2>2, <2>3, <3>1 DEF FreeIsMemory
  <2> QED
    BY <2>1, <2>3 DEF FreeIsMemory, IsMemory
<1>7. ASSUME NEW len \in Lengths, NEW flags \in {"KERNEL", "USER"}, Alloc(len, flags)
      PROVE  FreeIsMemory'
  BY <1>7, PmmAssumption, AllocFree DEF Alloc, Early
<1>8. ASSUME NEW b \in blocks, ~ b.permanent, pmm_free(b) PROVE FreeIsMemory'
  <2>1. \A i \in Page : bitmap'[i] = "UNUSED" => bitmap[i] = "UNUSED" \/ i \in BlockFrames(b)
    BY <1>8 DEF pmm_free, Claim, pmm_use, BlockFrames
  <2> QED
    BY <1>8, <2>1 DEF pmm_free, FreeIsMemory, IsMemory
<1>9. CASE UNCHANGED vars
  BY <1>9 DEF vars, FreeIsMemory, IsMemory, LastSaysAvailable
<1> QED
  BY <1>1, <1>2, <1>3, <1>4, <1>5, <1>6, <1>7, <1>8, <1>9, FreeMemoryFree DEF Next

(* What is free after pmm_init is memory, whatever its map.                *)
THEOREM FreesOnlyMemory == Spec => []OnlyMemoryIsFree
<1>1. FreeIsMemory => OnlyMemoryIsFree
  BY DEF FreeIsMemory, OnlyMemoryIsFree, IsMemory
<1> QED
  BY Invariant, InitFree, NextFree, <1>1, PTL DEF Spec

-----------------------------------------------------------------------------
(* The boot modules.                                                       *)

\* What pmm_init relies on without a check: the boot loader put each file below 4 MiB,
\* where no frame is free until all copies are made, and pmm_alloc finds memory for each
\* copy.
LoadedLow == \A i \in ModuleIds : mod_start[i] + Modules[i].len <= FirstPageTable
CopiesFit ==
  /\ pc = "copy_info" /\ InfoLength # 0 => pmm_find_free(bitmap, InfoLength) # 0
  /\ pc = "copy_modules" =>
       pmm_find_free(bitmap, Modules[index].len + 1 + Modules[index].string) # 0

Intact(i) == \A k \in 0 .. Modules[i].len - 1 : contents[mod_start[i] + k] = <<i, k>>

\* The file of module i lies in frames that are not free.
Low(i) == mod_start[i] + Modules[i].len <= FirstPageTable
Held(i) ==
  LET n == Modules[i].len + 1 + Modules[i].string
  IN  /\ mod_start[i] + n <= MemorySize
      /\ \A p \in FramesOf(mod_start[i], n) : bitmap[p] = "KERNEL"

FilesKept ==
  /\ \A i \in ModuleIds : Intact(i)
  /\ pc # "run" => \A i \in ModuleIds : IF Copied(i) THEN Held(i) ELSE Low(i)

(* The boot loader's files are where it says.                              *)
LEMMA InitFiles == Init /\ LoadedLow => FilesKept
<1> SUFFICES ASSUME Init, LoadedLow PROVE FilesKept
  OBVIOUS
<1>1. mod_start \in [ModuleIds -> Address] /\ ModulesInMemory
  BY InitialTypes DEF Init, ModulesInMemory
<1>2. ASSUME NEW i \in ModuleIds, NEW k \in 0 .. Modules[i].len - 1
      PROVE  contents[mod_start[i] + k] = <<i, k>>
  <2> DEFINE a == mod_start[i] + k
             j == CHOOSE j \in ModuleIds : a \in ModuleBytes(j, mod_start[j])
  <2>1. Modules[i].len \in Nat /\ mod_start[i] \in Nat /\ mod_start[i] + Modules[i].len \in Address
    BY <1>1, ModuleTypes, MemorySizePositive DEF ModulesInMemory, Address
  <2>2. a \in Address /\ a \in ModuleBytes(i, mod_start[i]) /\ a - mod_start[i] = k
    BY <2>1, MemorySizePositive DEF ModuleBytes, Address
  <2> HIDE DEF a
  <2>3. j \in ModuleIds /\ a \in ModuleBytes(j, mod_start[j])
    BY <2>2
  <2>4. contents[a] = <<j, a - mod_start[j]>>
    BY <2>2 DEF Init, LoadedContents
  <2> HIDE DEF j
  <2>5. j = i
    BY <2>2, <2>3 DEF Init, Placements
  <2> QED
    BY <2>2, <2>4, <2>5 DEF a
<1>3. \A i \in ModuleIds : ~ Copied(i)
  BY DEF Init, Copied
<1> QED
  BY <1>2, <1>3 DEF FilesKept, Intact, Low, LoadedLow

(* A byte lies in a frame of the memory it belongs to.                     *)
LEMMA ByteFrame ==
  ASSUME NEW p \in Nat, NEW n \in Nat \ {0}, p + n <= MemorySize, NEW a \in p .. p + n - 1
  PROVE  a \div PageSize \in FramesOf(p, n)
<1>1. a \in Nat /\ a < MemorySize /\ p <= a /\ a < p + n
  BY MemorySizePositive
<1>2. PICK q \in Nat : q = a \div PageSize
  BY <1>1, PageBounds
<1>3. q * PageSize <= a /\ a < q * PageSize + PageSize
  BY <1>1, <1>2, PageBounds
<1>4. q \in Page
  <2>1. 0 \in Nat /\ a + 0 = a /\ a + 0 < MemorySize
    BY <1>1
  <2>2. pmm_get_page(a, 0) = (a + 0) \div PageSize
    BY <1>1, <2>1, PageOfAddress
  <2>3. pmm_get_page(a, 0) = q
    BY <1>2, <2>1, <2>2
  <2> QED
    BY <1>1, <2>1, <2>3, PageRange
<1>5. q * PageSize \in Nat
  OBVIOUS
<1>6. pmm_get_address(q) < p + n /\ p < pmm_get_address(q) + PageSize
  BY <1>1, <1>3, <1>5 DEF pmm_get_address
<1> QED
  BY <1>2, <1>4, <1>6, FramesOfRange

(* Memory that is found for a copy lies behind the first page table.       *)
LEMMA FoundHigh ==
  ASSUME IInv, pc \in {"copy_info", "copy_modules"}, NEW n \in Nat,
         NEW dst, dst = pmm_find_free(bitmap, n), dst # 0
  PROVE  FirstPageTable <= dst
<1>1. PICK s \in Fits(bitmap, PagesFor(n)) : dst = pmm_get_address(s) /\ n # 0
  BY FindsFit
<1>2. PagesFor(n) \in Nat \ {0}
  BY <1>1, PagesForBounds
<1>3. s \in Page /\ s \in Nat /\ bitmap[s] = "UNUSED"
  BY <1>1, <1>2 DEF Fits, Page
<1>4. ~ (s < FirstPageTablePages)
  BY <1>3 DEF IInv, FirstTableReserved
<1>5. s = FirstPageTablePages \/ FirstPageTablePages < s
  BY <1>3, <1>4, FirstTable
<1>6. FirstPageTablePages < s => FirstPageTable + PageSize <= dst
  BY <1>1, <1>3, FirstTable, AddressOrder
<1> QED
  BY <1>1, <1>5, <1>6, FirstTable, Constants

(* A copy is put where no file lies, copied or not.                        *)
LEMMA CopyMisses ==
  ASSUME IInv, FilesKept, pc \in {"copy_info", "copy_modules"}, NEW n \in Nat,
         NEW dst, dst = pmm_find_free(bitmap, n), dst # 0,
         NEW i \in ModuleIds, NEW a \in mod_start[i] .. mod_start[i] + Modules[i].len - 1
  PROVE  a \notin dst .. dst + n - 1
<1>1. /\ n # 0 /\ dst \in Nat /\ dst + n <= MemorySize
      /\ \A p \in FramesOf(dst, n) : bitmap[p] = "UNUSED"
  BY FoundFrames, MemorySizePositive DEF Address
<1>2. mod_start[i] \in Nat /\ Modules[i].len \in Nat /\ Modules[i].string \in Nat
  BY ModuleTypes, MemorySizePositive DEF IInv, TypeOK, Address
<1>3. CASE Low(i)
  BY <1>1, <1>2, <1>3, FoundHigh, Constants DEF Low
<1>4. CASE Held(i)
  <2> DEFINE m == Modules[i].len + 1 + Modules[i].string
  <2>1. m \in Nat \ {0} /\ a \in mod_start[i] .. mod_start[i] + m - 1 /\ mod_start[i] + m <= MemorySize
    BY <1>2, <1>4 DEF Held
  <2>2. a \div PageSize \in FramesOf(mod_start[i], m)
    BY <1>2, <2>1, ByteFrame
  <2>3. bitmap[a \div PageSize] = "KERNEL"
    BY <1>4, <2>2 DEF Held
  <2>4. a \in dst .. dst + n - 1 => a \div PageSize \in FramesOf(dst, n)
    BY <1>1, ByteFrame
  <2> QED
    BY <1>1, <2>3, <2>4
<1> QED
  BY <1>3, <1>4 DEF FilesKept

(* The steps that copy nothing.                                            *)
LEMMA OthersKeepFiles ==
  ASSUME FilesKept, UNCHANGED <<mod_start, contents>>,
         pc' # "run" => /\ pc # "run" /\ \A i \in ModuleIds : Copied(i)' <=> Copied(i)
                        /\ (\A i \in ModuleIds : ~ Copied(i)) \/ UNCHANGED bitmap
  PROVE  FilesKept'
<1>1. \A i \in ModuleIds : Intact(i)'
  BY DEF FilesKept, Intact
<1>2. ASSUME pc' # "run", NEW i \in ModuleIds
      PROVE  (IF Copied(i) THEN Held(i) ELSE Low(i))'
  <2>1. CASE Copied(i)
    BY <1>2, <2>1 DEF FilesKept, Held
  <2>2. CASE ~ Copied(i)
    BY <1>2, <2>2 DEF FilesKept, Low
  <2> QED
    BY <2>1, <2>2
<1> QED
  BY <1>1, <1>2 DEF FilesKept

(* The copy of the multiboot structures overwrites no file.                *)
LEMMA CopyInfoFiles ==
  ASSUME IInv, FilesKept, CopiesFit, CopyInfo
  PROVE  FilesKept'
<1> DEFINE dst == pmm_find_free(bitmap, InfoLength)
<1>1. /\ pc = "copy_info" /\ pmm_alloc(InfoLength, "KERNEL")
      /\ contents' = Overwrite(contents, dst, InfoLength)
      /\ pc' = IF Modules = <<>> THEN "free_lower" ELSE "copy_modules"
      /\ UNCHANGED <<mmap, mod_start, index>>
  BY DEF CopyInfo
<1>2. InfoLength \in Nat /\ (InfoLength # 0 => dst # 0) /\ index' = 1
  BY <1>1, Constants DEF CopiesFit, IInv, IndexInRange
<1>3. ASSUME NEW i \in ModuleIds, NEW k \in 0 .. Modules[i].len - 1
      PROVE  contents'[mod_start'[i] + k] = <<i, k>>
  <2> DEFINE a == mod_start[i] + k
  <2>1. /\ mod_start[i] \in Nat /\ Modules[i].len \in Nat
        /\ mod_start[i] + Modules[i].len \in Address
    BY ModuleTypes, MemorySizePositive DEF IInv, TypeOK, ModulesInMemory, Address
  <2>2. a \in Address /\ a \in mod_start[i] .. mod_start[i] + Modules[i].len - 1
    BY <2>1, MemorySizePositive DEF Address
  <2> HIDE DEF a, dst
  <2>3. a \notin dst .. dst + InfoLength - 1
    <3>1. CASE InfoLength = 0
      <4>1. dst \in Nat
        BY <3>1 DEF dst, pmm_find_free
      <4> QED
        BY <3>1, <4>1
    <3>2. CASE InfoLength # 0
      BY <1>1, <1>2, <2>2, <3>2, CopyMisses DEF dst
    <3> QED
      BY <3>1, <3>2
  <2>4. contents'[a] = contents[a]
    BY <1>1, <2>2, <2>3 DEF Overwrite
  <2> QED
    BY <1>1, <2>4 DEF a, FilesKept, Intact
<1>4. ASSUME NEW i \in ModuleIds PROVE ~ Copied(i)' /\ Low(i)'
  <2>1. i \in Nat /\ i >= 1 /\ Modules # <<>>
    BY ModuleTypes, PmmAssumption DEF ModuleIds
  <2>2. ~ Copied(i) /\ ~ Copied(i)'
    BY <1>1, <1>2, <2>1 DEF Copied
  <2> QED
    BY <1>1, <2>2 DEF FilesKept, Low
<1> QED
  BY <1>3, <1>4 DEF FilesKept, Intact

(* A module that is copied leaves the others where they are, and its file  *)
(* arrives: lying lower, it is not overwritten before it is read.          *)
LEMMA CopyModuleFiles ==
  ASSUME IInv, FilesKept, CopiesFit, CopyModule
  PROVE  FilesKept'
<1> DEFINE len    == Modules[index].len
           string == Modules[index].string
           n      == len + 1 + string
           src    == mod_start[index]
           dst    == pmm_find_free(bitmap, n)
<1>1. /\ pc = "copy_modules" /\ pmm_alloc(n, "KERNEL")
      /\ contents' = Overwrite(memcpy(contents, dst, src, len + 1), dst + (len + 1), string)
      /\ mod_start' = [mod_start EXCEPT ![index] = dst]
      /\ index' = index + 1
      /\ pc' = IF index = Len(Modules) THEN "free_lower" ELSE "copy_modules"
      /\ mmap # NoMap /\ mmap' = mmap
  BY DEF CopyModule, IInv, NothingWithoutMap
<1>2. /\ index \in ModuleIds /\ index \in Nat /\ len \in Nat /\ string \in Nat
      /\ n \in Nat \ {0} /\ src \in Nat /\ dst # 0
  <2>1. index \in ModuleIds /\ index \in Nat /\ len \in Nat /\ string \in Nat
    BY <1>1, ModuleTypes DEF IInv, IndexInRange
  <2> QED
    BY <1>1, <2>1, MemorySizePositive DEF CopiesFit, IInv, TypeOK, Address
<1>3. /\ dst \in Nat /\ dst + n <= MemorySize
      /\ FramesOf(dst, n) \subseteq Page
      /\ \A p \in FramesOf(dst, n) : bitmap[p] = "UNUSED"
  BY <1>2, FoundFrames, MemorySizePositive DEF Address
<1>4. FirstPageTable <= dst
  BY <1>1, <1>2, FoundHigh
<1>5. \A i \in ModuleIds : (i < index <=> Copied(i)) /\ (i <= index <=> Copied(i)')
  BY <1>1, <1>2, ModuleTypes DEF Copied
<1>6. Low(index)
  BY <1>1, <1>2, <1>5 DEF FilesKept
<1>7. ASSUME NEW i \in ModuleIds \ {index}, NEW k \in 0 .. Modules[i].len - 1
      PROVE  contents'[mod_start'[i] + k] = <<i, k>>
  <2> DEFINE a == mod_start[i] + k
  <2>1. /\ mod_start[i] \in Nat /\ Modules[i].len \in Nat
        /\ mod_start[i] + Modules[i].len \in Address
    BY ModuleTypes, MemorySizePositive DEF IInv, TypeOK, ModulesInMemory, Address
  <2>2. a \in Address /\ a \in mod_start[i] .. mod_start[i] + Modules[i].len - 1
    BY <2>1, MemorySizePositive DEF Address
  <2> HIDE DEF a
  <2>3. a \notin dst .. dst + n - 1
    BY <1>1, <1>2, <2>2, CopyMisses
  <2> HIDE DEF dst
  <2>4. a \notin dst .. dst + (len + 1) - 1 /\ a \notin dst + (len + 1) .. dst + (len + 1) + string - 1
    BY <1>2, <1>3, <2>2, <2>3, MemorySizePositive DEF Address
  <2>5. contents'[a] = contents[a]
    BY <1>1, <2>2, <2>4 DEF Overwrite, memcpy
  <2>6. mod_start'[i] = mod_start[i]
    BY <1>1 DEF IInv, TypeOK
  <2> QED
    BY <2>5, <2>6 DEF a, FilesKept, Intact
<1>8. ASSUME NEW k \in 0 .. len - 1
      PROVE  contents'[mod_start'[index] + k] = <<index, k>>
  <2> DEFINE a == dst + k
  <2>1. contents[src + k] = <<index, k>>
    BY <1>2 DEF FilesKept, Intact
  <2>2. mod_start'[index] = dst
    BY <1>1, <1>2 DEF IInv, TypeOK
  <2> HIDE DEF dst
  <2>3. /\ a \in Address /\ a \in dst .. dst + (len + 1) - 1 /\ a - dst = k
        /\ a \notin dst + (len + 1) .. dst + (len + 1) + string - 1
    BY <1>2, <1>3, MemorySizePositive DEF Address
  <2> HIDE DEF a
  <2>4. contents'[a] = memcpy(contents, dst, src, len + 1)[a]
    BY <1>1, <2>3 DEF Overwrite
  <2>5. ASSUME dst > src PROVE k % (dst - src) = k
    <3>1. len <= dst - src /\ dst - src \in Nat \ {0}
      BY <1>2, <1>3, <1>4, <1>6, <2>5, Constants DEF Low
    <3> QED
      BY <1>2, <3>1
  <2>6. memcpy(contents, dst, src, len + 1)[a] = contents[src + k]
    BY <2>3, <2>5 DEF memcpy
  <2> QED
    BY <2>1, <2>2, <2>4, <2>6 DEF a
<1>9. ASSUME NEW i \in ModuleIds, i <= index PROVE Held(i)'
  <2> DEFINE m == Modules[i].len + 1 + Modules[i].string
  <2>1. HighestKernelPageBounds /\ TypeOK
    BY DEF IInv
  <2>2. \A p \in Page : bitmap'[p] = IF p \in FramesOf(dst, n) THEN "KERNEL" ELSE bitmap[p]
    BY <1>1, <1>2, <1>3, <2>1, ClaimKeeps DEF pmm_alloc, Flags
  <2>3. CASE i = index
    BY <1>1, <1>2, <1>3, <2>2, <2>3 DEF Held, IInv, TypeOK
  <2>4. CASE i # index
    <3>1. Held(i) /\ mod_start'[i] = mod_start[i]
      <4>1. i < index
        BY <1>2, <1>9, <2>4, ModuleTypes
      <4> QED
        BY <1>1, <1>5, <2>4, <4>1 DEF FilesKept, IInv, TypeOK
    <3>2. mod_start[i] \in Nat /\ m \in Nat \ {0}
      <4>1. Modules[i].len \in Nat /\ Modules[i].string \in Nat
        BY ModuleTypes
      <4>2. mod_start[i] \in Nat
        BY MemorySizePositive DEF IInv, TypeOK, Address
      <4> QED
        BY <4>1, <4>2
    <3>3. FramesOf(mod_start[i], m) \subseteq Page
      BY <3>2, FramesArePages
    <3> QED
      BY <2>2, <3>1, <3>3 DEF Held
  <2> QED
    BY <2>3, <2>4
<1>10. ASSUME NEW i \in ModuleIds, ~ (i <= index) PROVE Low(i)'
  <2>1. i # index /\ ~ (i < index)
    BY <1>2, <1>10, ModuleTypes
  <2> QED
    BY <1>1, <1>5, <2>1 DEF FilesKept, Low, IInv, TypeOK
<1> HIDE DEF len, string, n, src, dst
<1>11. \A i \in ModuleIds : IF Copied(i)' THEN Held(i)' ELSE Low(i)'
  BY <1>5, <1>9, <1>10
<1>12. \A i \in ModuleIds : Intact(i)'
  BY <1>7, <1>8 DEF Intact, len
<1> QED
  BY <1>11, <1>12 DEF FilesKept

(* What is not copied yet is intact, and what is copied stays so.          *)
LEMMA NextFiles == IInv /\ FilesKept /\ CopiesFit /\ [Next]_vars => FilesKept'
<1> SUFFICES ASSUME IInv, FilesKept, CopiesFit, [Next]_vars PROVE FilesKept'
  OBVIOUS
<1>1. CASE NoMemoryMap \/ FreeLowerMemory
  BY <1>1, OthersKeepFiles DEF NoMemoryMap, FreeLowerMemory
<1>2. CASE FreeMemory \/ ReserveFirstPageTable \/ pmm_use_kernel_memory
  <2>1. pc \in {"mmap", "low", "kernel"} /\ pc' \in {"mmap", "low", "kernel", "copy_info"}
        /\ UNCHANGED <<mod_start, contents>>
    BY <1>2 DEF FreeMemory, ReserveFirstPageTable, pmm_use_kernel_memory
  <2>2. \A i \in ModuleIds : ~ Copied(i) /\ ~ Copied(i)'
    BY <2>1 DEF Copied
  <2> QED
    BY <2>1, <2>2, OthersKeepFiles
<1>3. ASSUME NEW len \in Lengths, NEW flags \in {"KERNEL", "USER"}, Alloc(len, flags)
      PROVE  FilesKept'
  BY <1>3, OthersKeepFiles DEF Alloc
<1>4. ASSUME NEW b \in blocks, pmm_free(b) PROVE FilesKept'
  BY <1>4, OthersKeepFiles DEF pmm_free
<1>5. CASE UNCHANGED vars
  BY <1>5, OthersKeepFiles DEF vars, Copied
<1> QED
  BY <1>1, <1>2, <1>3, <1>4, <1>5, CopyInfoFiles, CopyModuleFiles DEF Next

(* If the boot loader put the modules below 4 MiB and there is memory for  *)
(* the copies, pmm_init copies every module as it was loaded, and nothing  *)
(* writes to the copies: neither the copies of other modules nor those of  *)
(* the multiboot structures.                                               *)
THEOREM LowModulesStayIntact == Spec /\ LoadedLow /\ []CopiesFit => []ModulesIntact
<1>1. FilesKept => ModulesIntact
  BY DEF FilesKept, ModulesIntact, Intact
<1> QED
  BY Invariant, InitFiles, NextFiles, <1>1, PTL DEF Spec

=============================================================================
