-------------------------------- MODULE Frames -------------------------------
(***************************************************************************)
(* The page frames of the physical memory and the bitmap that says who     *)
(* uses them: the address arithmetic and the bitmap operations of          *)
(* src/src/kernel/mem/pmm.c.                                               *)
(***************************************************************************)
EXTENDS Naturals

CONSTANTS
  PageSize,    \* PAGE_SIZE, in bytes
  PageNumber   \* PAGE_NUMBER: the frames of the 32-bit address space

ASSUME FramesAssumption ==
  /\ PageSize \in Nat \ {0}
  /\ PageNumber \in Nat \ {0}

MemorySize == PageNumber * PageSize
Page == 0 .. PageNumber - 1
Address == 0 .. MemorySize - 1
Flags == {"UNUSED", "RESERVED", "KERNEL", "USER"}
Bitmap == [Page -> Flags]

pmm_get_page(ptr, offset) == ((ptr + offset) % MemorySize) \div PageSize
pmm_get_address(page) == page * PageSize

\* The frames that len > 0 bytes from ptr on lie in.
FramesOf(ptr, len) == pmm_get_page(ptr, 0) .. pmm_get_page(ptr, len - 1)

pmm_use(bitmap, ptr, len, flags) ==
  [i \in Page |-> IF len # 0 /\ i \in FramesOf(ptr, len) THEN flags ELSE bitmap[i]]

-----------------------------------------------------------------------------
(* The first-fit search.                                                   *)

\* A plausible slip in the rounding below: the last, partly filled page is forgotten.
RoundDownMutant(len) == IF len < PageSize THEN 1 ELSE len \div PageSize

\* The number of pages for len bytes, rounded up.
PagesFor(len) == len \div PageSize + IF len % PageSize = 0 THEN 0 ELSE 1

\* The frames at which n unused frames in a row start.
Fits(bitmap, n) ==
  {s \in Page : s + n <= PageNumber /\ \A i \in s .. s + n - 1 : bitmap[i] = "UNUSED"}

FirstFit(bitmap, n) ==
  CHOOSE s \in Fits(bitmap, n) : \A t \in Fits(bitmap, n) : s <= t

\* 0 stands for "not enough memory"; it is also the address of frame 0.
pmm_find_free(bitmap, len) ==
  IF len = 0 \/ Fits(bitmap, PagesFor(len)) = {} THEN 0
  ELSE pmm_get_address(FirstFit(bitmap, PagesFor(len)))

=============================================================================
