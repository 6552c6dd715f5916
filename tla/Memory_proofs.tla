--------------------------- MODULE Memory_proofs ---------------------------
(***************************************************************************)
(* What the operators of modules Frames and Paging do to the memory, for   *)
(* every size of the memory, its tables and its domains.                   *)
(*                                                                         *)
(* A frame has a label, which says what it is used for, and a page of a    *)
(* home (a directory, or the kernel's domain, which all directories share) *)
(* is mapped to a frame or is a hole.  Con(m, use, mp) says that state m   *)
(* of the memory has labels use and mapping mp: the bitmap marks just the  *)
(* labelled frames, directories refer to the tables of their homes, and no *)
(* frame is two tables.  Each operator is shown to take such a state to    *)
(* another one and to change the labels and the mapping as it should,      *)
(* unless memory runs short.  The layout says on top of that which blocks  *)
(* have been allocated, where they are mapped and that they lie apart.     *)
(***************************************************************************)
EXTENDS TaskMemory, WellFoundedInduction, TLAPS

USE FramesAssumption

-----------------------------------------------------------------------------
(* Loops: a recursive function on the natural numbers.                     *)

(* A non-empty set of natural numbers has a least member.                  *)
LEMMA LeastMember ==
  ASSUME NEW T \in SUBSET Nat, T # {}
  PROVE  \E m \in T : \A n \in T : m <= n
<1> DEFINE Less == {ss \in Nat \X Nat : ss[1] < ss[2]}
<1>1. IsWellFoundedOn(Less, Nat)
  BY NatLessThanWellFounded, Zenon DEF OpToRel
<1> HIDE DEF Less
<1>2. PICK m \in T : \A n \in T : ~ (<<n, m>> \in Less)
  BY <1>1, WFMin, Zenon
<1>3. \A n \in T : ~ (n < m)
  BY <1>2 DEF Less
<1> QED
  BY <1>3

(* Induction, over the numbers for which something holds.                  *)
LEMMA Induction ==
  ASSUME NEW T, 0 \in T, \A n \in Nat : n \in T => n + 1 \in T
  PROVE  \A n \in Nat : n \in T
<1> SUFFICES ASSUME Nat \ T # {} PROVE FALSE
  OBVIOUS
<1>1. PICK m \in Nat \ T : \A n \in Nat \ T : m <= n
  BY LeastMember
<1>2. m # 0 /\ m - 1 \in Nat
  BY <1>1
<1>3. m - 1 \in T
  BY <1>1, <1>2
<1> QED
  BY <1>1, <1>2, <1>3

(* A loop that goes from state to state has a result after each number of  *)
(* rounds.                                                                 *)
Runs(S, base, step, n) ==
  {g \in [0 .. n -> S] : g[0] = base /\ \A k \in 0 .. n - 1 : g[k + 1] = step[<<g[k], k + 1>>]}

LEMMA RunsUnique ==
  ASSUME NEW S, NEW base, NEW step, NEW n \in Nat, NEW m \in Nat,
         NEW g \in Runs(S, base, step, n), NEW h \in Runs(S, base, step, m), n <= m
  PROVE  \A k \in 0 .. n : g[k] = h[k]
<1> DEFINE T == {k \in Nat : k <= n => g[k] = h[k]}
<1>1. 0 \in T
  BY DEF Runs
<1>2. \A k \in Nat : k \in T => k + 1 \in T
  <2> SUFFICES ASSUME NEW k \in Nat, k + 1 <= n, g[k] = h[k] PROVE g[k + 1] = h[k + 1]
    OBVIOUS
  <2>1. k \in 0 .. n - 1 /\ k \in 0 .. m - 1
    OBVIOUS
  <2>2. g[k + 1] = step[<<g[k], k + 1>>] /\ h[k + 1] = step[<<h[k], k + 1>>]
    BY <2>1 DEF Runs
  <2> QED
    BY <2>2
<1> HIDE DEF T
<1>3. \A k \in Nat : k \in T
  BY <1>1, <1>2, Induction
<1> QED
  BY <1>3 DEF T

LEMMA RunsExist ==
  ASSUME NEW S, NEW base \in S, NEW step \in [S \X Nat -> S], NEW n \in Nat
  PROVE  Runs(S, base, step, n) # {}
<1> DEFINE T == {k \in Nat : Runs(S, base, step, k) # {}}
<1>1. 0 \in T
  <2>1. [k \in 0 .. 0 |-> base] \in Runs(S, base, step, 0)
    BY DEF Runs
  <2> QED
    BY <2>1
<1>2. \A k \in Nat : k \in T => k + 1 \in T
  <2> SUFFICES ASSUME NEW k \in Nat, NEW g \in Runs(S, base, step, k)
               PROVE  Runs(S, base, step, k + 1) # {}
    OBVIOUS
  <2> DEFINE h == [i \in 0 .. k + 1 |-> IF i = k + 1 THEN step[<<g[k], k + 1>>] ELSE g[i]]
  <2>1. g[k] \in S /\ g \in [0 .. k -> S] /\ g[0] = base
    BY DEF Runs
  <2>2. step[<<g[k], k + 1>>] \in S
    BY <2>1
  <2>3. h \in [0 .. k + 1 -> S]
    BY <2>1, <2>2
  <2>4. ASSUME NEW i \in 0 .. k PROVE h[i + 1] = step[<<h[i], i + 1>>]
    <3>1. CASE i = k
      <4>1. h[k + 1] = step[<<g[k], k + 1>>] /\ h[k] = g[k]
        OBVIOUS
      <4> HIDE DEF h
      <4> QED
        BY <3>1, <4>1
    <3>2. CASE i # k
      <4>1. i \in 0 .. k - 1 /\ i + 1 \in 0 .. k
        BY <3>2
      <4>2. g[i + 1] = step[<<g[i], i + 1>>]
        BY <4>1 DEF Runs
      <4>3. h[i + 1] = g[i + 1] /\ h[i] = g[i]
        BY <4>1
      <4> HIDE DEF h
      <4> QED
        BY <4>2, <4>3
    <3> QED
      BY <3>1, <3>2
  <2>5. h[0] = base
    BY <2>1
  <2> HIDE DEF h
  <2>6. h \in Runs(S, base, step, k + 1)
    BY <2>3, <2>4, <2>5 DEF Runs
  <2> QED
    BY <2>6
<1> HIDE DEF T
<1>3. n \in T
  BY <1>1, <1>2, Induction
<1> QED
  BY <1>3 DEF T

Steps(S) == [S \X Nat -> S]
Loops(S, base, step) ==
  {g \in [Nat -> S] : g[0] = base /\ \A k \in Nat : g[k + 1] = step[<<g[k], k + 1>>]}

LEMMA LoopExists ==
  ASSUME NEW S, NEW base \in S, NEW step \in Steps(S)
  PROVE  Loops(S, base, step) # {}
<1>0. step \in [S \X Nat -> S]
  BY DEF Steps
<1> DEFINE Run(n) == CHOOSE g \in Runs(S, base, step, n) : TRUE
           g == [n \in Nat |-> Run(n)[n]]
<1>1. \A n \in Nat : Run(n) \in Runs(S, base, step, n)
  BY <1>0, RunsExist, Zenon
<1> HIDE DEF Run
<1>2. ASSUME NEW n \in Nat
      PROVE  Run(n) \in [0 .. n -> S] /\ Run(n)[0] = base
             /\ \A k \in 0 .. n - 1 : Run(n)[k + 1] = step[<<Run(n)[k], k + 1>>]
  BY <1>1 DEF Runs
<1>3. g \in [Nat -> S] /\ g[0] = base
  BY <1>2
<1>4. ASSUME NEW n \in Nat PROVE g[n + 1] = step[<<g[n], n + 1>>]
  <2>1. Run(n + 1)[n + 1] = step[<<Run(n + 1)[n], n + 1>>]
    BY <1>2
  <2>2. Run(n + 1)[n] = Run(n)[n]
    <3>1. n \in 0 .. n /\ n <= n + 1 /\ n + 1 \in Nat
      OBVIOUS
    <3>2. Run(n) \in Runs(S, base, step, n) /\ Run(n + 1) \in Runs(S, base, step, n + 1)
      BY <1>1, <3>1
    <3>3. ASSUME NEW m \in Nat, n <= m, NEW a \in Runs(S, base, step, n),
                 NEW c \in Runs(S, base, step, m)
          PROVE  c[n] = a[n]
      <4>1. \A k \in 0 .. n : a[k] = c[k]
        BY <3>3, RunsUnique
      <4> QED
        BY <3>1, <4>1
    <3> HIDE DEF g
    <3> QED
      BY <3>1, <3>2, <3>3
  <2>3. g[n + 1] = Run(n + 1)[n + 1] /\ g[n] = Run(n)[n]
    OBVIOUS
  <2> HIDE DEF g
  <2> QED
    BY <2>1, <2>2, <2>3
<1> HIDE DEF g
<1>5. g \in Loops(S, base, step)
  BY <1>3, <1>4 DEF Loops
<1> QED
  BY <1>5

-----------------------------------------------------------------------------
(* Pages, tables and addresses.                                            *)

LEMMA Quotients ==
  ASSUME NEW n \in Nat \ {0}, NEW a \in Nat
  PROVE  /\ a \div n \in Nat /\ a % n \in 0 .. n - 1
         /\ a = n * (a \div n) + (a % n)
         /\ a = (a \div n) * n + (a % n)
OBVIOUS

LEMMA Quotient ==
  ASSUME NEW n \in Nat \ {0}, NEW q \in Nat, NEW r \in 0 .. n - 1
  PROVE  (q * n + r) \div n = q /\ (q * n + r) % n = r
<1> DEFINE a == q * n + r
           b == a \div n
<1>1. a \in Nat
  OBVIOUS
<1>2. b \in Nat /\ a % n \in 0 .. n - 1 /\ a = b * n + (a % n)
  BY <1>1, Quotients
<1> HIDE DEF b
<1>3. ~ (b < q)
  <2> SUFFICES ASSUME b + 1 <= q PROVE FALSE
    BY <1>2
  <2>1. (b + 1) * n <= q * n /\ (b + 1) * n = b * n + n
    BY <1>2
  <2> QED
    BY <1>2, <2>1
<1>4. ~ (q < b)
  <2> SUFFICES ASSUME q + 1 <= b PROVE FALSE
    BY <1>2
  <2>1. (q + 1) * n <= b * n /\ (q + 1) * n = q * n + n
    BY <1>2
  <2> QED
    BY <1>2, <2>1
<1>5. b = q
  BY <1>2, <1>3, <1>4
<1>6. a % n = r
  BY <1>2, <1>5
<1> QED
  BY <1>5, <1>6 DEF b

\* The page table a page belongs to, its place in it, and the page at a place.
T(p) == p \div ENTRIES
I(p) == p % ENTRIES
PageAt(t, i) == t * ENTRIES + i

LEMMA Entries ==
  ENTRIES \in Nat /\ ENTRIES > 3 /\ PageNumber = ENTRIES * ENTRIES /\ Index = 0 .. ENTRIES - 1
BY PagingAssumption DEF Index

LEMMA PlaceOfPage ==
  ASSUME NEW p \in Page
  PROVE  T(p) \in Index /\ I(p) \in Index /\ PageAt(T(p), I(p)) = p
<1>1. p \in Nat /\ p < ENTRIES * ENTRIES /\ ENTRIES \in Nat \ {0}
  BY Entries DEF Page
<1> DEFINE t == p \div ENTRIES
           i == p % ENTRIES
<1>2. t \in Nat /\ i \in 0 .. ENTRIES - 1 /\ p = t * ENTRIES + i
  BY <1>1, Quotients
<1> HIDE DEF t, i
<1>3. t < ENTRIES
  <2> SUFFICES ASSUME ENTRIES <= t PROVE FALSE
    BY <1>1, <1>2
  <2>1. ENTRIES * ENTRIES <= t * ENTRIES
    BY <1>1, <1>2
  <2> QED
    BY <1>1, <1>2, <2>1
<1>4. t \in Index /\ i \in Index
  BY <1>2, <1>3, <1>1, Entries
<1> QED
  BY <1>2, <1>4 DEF t, i, T, I, PageAt

LEMMA PageOfPlace ==
  ASSUME NEW t \in Index, NEW i \in Index
  PROVE  PageAt(t, i) \in Page /\ T(PageAt(t, i)) = t /\ I(PageAt(t, i)) = i
<1>1. ENTRIES \in Nat \ {0} /\ t \in Nat /\ i \in 0 .. ENTRIES - 1 /\ t <= ENTRIES - 1
  BY Entries
<1>2. t * ENTRIES <= (ENTRIES - 1) * ENTRIES
  BY <1>1
<1>3. (ENTRIES - 1) * ENTRIES = ENTRIES * ENTRIES - ENTRIES
  BY <1>1
<1>4. t * ENTRIES + i \in 0 .. PageNumber - 1
  BY <1>1, <1>2, <1>3, Entries
<1> QED
  BY <1>1, <1>4, Quotient DEF T, I, PageAt, Page

LEMMA PageType ==
  ASSUME NEW a \in Int, NEW b \in Int, a + b \in Nat
  PROVE  pmm_get_page(a, b) \in Page
<1>1. MemorySize \in Nat \ {0}
  BY DEF MemorySize
<1> DEFINE x == (a + b) % MemorySize
           q == x \div PageSize
<1>2. x \in 0 .. MemorySize - 1
  BY <1>1, Quotients
<1> HIDE DEF x
<1>3. q \in Nat /\ x % PageSize \in 0 .. PageSize - 1 /\ x = q * PageSize + (x % PageSize)
  <2>1. x \in Nat /\ PageSize \in Nat \ {0}
    BY <1>1, <1>2
  <2> QED
    BY <2>1, Quotients
<1> HIDE DEF q
<1>4. q < PageNumber
  <2> SUFFICES ASSUME PageNumber <= q PROVE FALSE
    BY <1>3
  <2>1. PageNumber * PageSize <= q * PageSize
    BY <1>3
  <2> QED
    BY <1>2, <1>3, <2>1 DEF MemorySize
<1> QED
  BY <1>3, <1>4 DEF pmm_get_page, Page, x, q

LEMMA AddressOfPage ==
  ASSUME NEW p \in Page
  PROVE  /\ pmm_get_address(p) \in Address
         /\ pmm_get_address(p) \in Nat
         /\ pmm_get_page(pmm_get_address(p), 0) = p
         /\ TableOf(pmm_get_address(p)) = T(p)
         /\ PageIndexOf(pmm_get_address(p)) = I(p)
         /\ pmm_get_address(p) = 0 <=> p = 0
<1>1. p \in Nat /\ p <= PageNumber - 1
  BY DEF Page
<1>2. p * PageSize <= (PageNumber - 1) * PageSize
      /\ (PageNumber - 1) * PageSize = PageNumber * PageSize - PageSize
  BY <1>1
<1>3. p * PageSize \in 0 .. MemorySize - 1 /\ MemorySize \in Nat
  BY <1>1, <1>2 DEF MemorySize
<1>4. (p * PageSize + 0) % MemorySize = p * PageSize
  BY <1>3
<1>5. (p * PageSize + 0) \div PageSize = p
  BY <1>1, Quotient
<1>6. pmm_get_page(p * PageSize, 0) = p
  BY <1>3, <1>4, <1>5 DEF pmm_get_page
<1> QED
  BY <1>1, <1>3, <1>6 DEF pmm_get_address, Address, TableOf, PageIndexOf, T, I

LEMMA PlaceOfAddress ==
  ASSUME NEW a \in Nat
  PROVE  /\ pmm_get_page(a, 0) \in Page
         /\ TableOf(a) = T(pmm_get_page(a, 0)) /\ PageIndexOf(a) = I(pmm_get_page(a, 0))
         /\ TableOf(a) \in Index /\ PageIndexOf(a) \in Index
<1>1. pmm_get_page(a, 0) \in Page
  BY PageType
<1> QED
  BY <1>1, PlaceOfPage DEF TableOf, PageIndexOf, T, I

\* The first table of the user domain.
FirstUser == TableOf(UserStart)

LEMMA Domains ==
  /\ FirstUser \in 2 .. ENTRIES - 2
  /\ KernelTables = 1 .. FirstUser - 1
  /\ UserTables = FirstUser .. ENTRIES - 2
  /\ UserStart = pmm_get_address(FirstUser * ENTRIES) /\ FirstUser * ENTRIES \in Page
<1> DEFINE S == ENTRIES * PageSize
           u == UserStart \div S
<1>1. S \in Nat \ {0} /\ MemorySize = ENTRIES * S /\ ENTRIES \in Nat /\ ENTRIES > 3
  BY Entries DEF MemorySize
<1>2. UserStart \in Nat /\ UserStart % S = 0 /\ UserStart >= 2 * S
      /\ UserStart <= (ENTRIES - 2) * S
  <2>1. 2 * ENTRIES * PageSize = 2 * S /\ (ENTRIES - 2) * ENTRIES * PageSize = (ENTRIES - 2) * S
    BY Entries
  <2> QED
    BY <2>1, PagingAssumption
<1> HIDE DEF S
<1>3. u \in Nat /\ UserStart = u * S + 0
  BY <1>1, <1>2, Quotients
<1> HIDE DEF u
<1>4. u >= 2
  <2> SUFFICES ASSUME u <= 1 PROVE FALSE
    BY <1>3
  <2>1. u * S <= S
    BY <1>1, <1>3
  <2> QED
    BY <1>1, <1>2, <1>3, <2>1
<1>5. u <= ENTRIES - 2
  <2> SUFFICES ASSUME ENTRIES - 1 <= u PROVE FALSE
    BY <1>1, <1>3
  <2>1. (ENTRIES - 1) * S <= u * S /\ (ENTRIES - 1) * S = (ENTRIES - 2) * S + S
    BY <1>1, <1>3
  <2> QED
    BY <1>1, <1>2, <1>3, <2>1
<1>6. u \in Index /\ 0 \in Index /\ 1 \in Index /\ ENTRIES - 1 \in Index /\ u - 1 \in Index
  BY <1>1, <1>3, <1>4, <1>5, Entries
<1>7. UserStart = pmm_get_address(PageAt(u, 0))
  <2>1. u * (ENTRIES * PageSize) = (u * ENTRIES) * PageSize
    BY <1>1, <1>3
  <2> QED
    BY <1>1, <1>3, <2>1 DEF pmm_get_address, PageAt, S
<1>8. ENTRIES * PageSize = pmm_get_address(PageAt(1, 0))
  BY <1>1 DEF pmm_get_address, PageAt
<1>9. FirstUser = u
  BY <1>6, <1>7, PageOfPlace, AddressOfPage DEF FirstUser
<1>10. TableOf(ENTRIES * PageSize) = 1
  BY <1>6, <1>8, PageOfPlace, AddressOfPage
<1>11. TableOf(UserStart - 1) = u - 1
  <2> DEFINE q == PageAt(u - 1, ENTRIES - 1)
             a == UserStart - 1
  <2>1. q \in Page /\ T(q) = u - 1 /\ q \in Nat
    BY <1>6, PageOfPlace DEF Page
  <2>2. q + 1 = PageAt(u, 0)
    BY <1>1, <1>3 DEF PageAt
  <2>3. PageAt(u, 0) \in Page /\ UserStart \in Address /\ UserStart = (q + 1) * PageSize
    BY <1>6, <1>7, <2>2, PageOfPlace, AddressOfPage DEF pmm_get_address
  <2> HIDE DEF q
  <2>4. a \in Nat /\ a < MemorySize
    BY <1>1, <1>2, <1>4, <2>3 DEF Address
  <2>5. a = q * PageSize + (PageSize - 1)
    BY <2>1, <2>3
  <2> HIDE DEF a
  <2>6. (a + 0) % MemorySize = a
    BY <2>4 DEF MemorySize
  <2>7. a \div PageSize = q
    BY <2>1, <2>5, Quotient
  <2>9. pmm_get_page(a, 0) = q
    BY <2>6, <2>7, Zenon DEF pmm_get_page
  <2>8. TableOf(a) = T(pmm_get_page(a, 0))
    BY <2>4, PlaceOfAddress
  <2> QED
    BY <2>1, <2>8, <2>9 DEF a
<1>12. KernelTables = 1 .. FirstUser - 1 /\ UserTables = FirstUser .. ENTRIES - 2
  BY <1>9, <1>10, <1>11 DEF KernelTables, UserTables, FirstUser
<1>13. PageAt(u, 0) = FirstUser * ENTRIES /\ PageAt(u, 0) \in Page
  BY <1>1, <1>3, <1>6, <1>9, PageOfPlace DEF PageAt
<1> QED
  BY <1>1, <1>3, <1>4, <1>5, <1>7, <1>9, <1>12, <1>13

-----------------------------------------------------------------------------
(* What every operator of Paging keeps: the state is well-typed, and a     *)
(* search that failed is remembered.                                       *)

Later(m) == {n \in MemoryState : m.short => n.short}

\* The operators that only map, unmap, allocate and free.
Quiet(m) ==
  {n \in Later(m) :
     /\ n.page_directory = m.page_directory /\ n.old_directory = m.old_directory
     /\ n.domain_check_enabled = m.domain_check_enabled /\ n.paging = m.paging
     /\ n.fault = m.fault}

TableRows == [Page -> [Index -> Entry]]

LEMMA StateFields ==
  ASSUME NEW m \in MemoryState
  PROVE  /\ m.bitmap \in Bitmap /\ m.tables \in TableRows
         /\ m.page_directory \in Page /\ m.old_directory \in Page
         /\ m.domain_check_enabled \in BOOLEAN /\ m.paging \in BOOLEAN
         /\ m.fault \in BOOLEAN /\ m.short \in BOOLEAN
BY DEF MemoryState, TableRows

LEMMA QuietLater ==
  ASSUME NEW m \in MemoryState
  PROVE  /\ m \in Quiet(m)
         /\ \A n \in Quiet(m) : n \in MemoryState /\ n \in Later(m) /\ Quiet(n) \subseteq Quiet(m)
         /\ \A n \in Later(m) : n \in MemoryState /\ Later(n) \subseteq Later(m)
BY DEF Quiet, Later

LEMMA Updates ==
  ASSUME NEW m \in MemoryState
  PROVE  /\ \A b \in Bitmap : [m EXCEPT !.bitmap = b] \in Quiet(m)
         /\ \A t \in TableRows : [m EXCEPT !.tables = t] \in Quiet(m)
         /\ \A d \in Page : [m EXCEPT !.page_directory = d] \in Later(m)
         /\ \A d \in Page : [m EXCEPT !.old_directory = d] \in Later(m)
         /\ \A x \in BOOLEAN : [m EXCEPT !.domain_check_enabled = x] \in Later(m)
         /\ \A x \in BOOLEAN : [m EXCEPT !.paging = x] \in Later(m)
         /\ [m EXCEPT !.fault = TRUE] \in Later(m)
         /\ Short(m) \in Quiet(m)
BY DEF Quiet, Later, MemoryState, TableRows, Short

LEMMA EntryTyped ==
  ASSUME NEW m \in MemoryState, NEW d \in Page, NEW t \in Index
  PROVE  m.tables[d][t] \in Entry /\ m.tables[d][t].page \in Page
         /\ m.tables[d][t].pr \in BOOLEAN /\ m.tables[d] \in [Index -> Entry]
BY DEF MemoryState, Entry

LEMMA AbsentTyped == Absent \in Entry /\ EmptyTable \in [Index -> Entry] /\ 0 \in Page
BY DEF Absent, EmptyTable, Entry, Page

LEMMA SetTyped ==
  ASSUME NEW m \in MemoryState, NEW d \in Page, NEW t, NEW e \in Entry
  PROVE  [m EXCEPT !.tables[d][t] = e] \in Quiet(m)
<1>1. [m.tables EXCEPT ![d][t] = e] \in TableRows
  BY StateFields DEF TableRows
<1>2. [m EXCEPT !.tables[d][t] = e] = [m EXCEPT !.tables = [m.tables EXCEPT ![d][t] = e]]
  BY DEF MemoryState
<1> QED
  BY <1>1, <1>2, Updates

LEMMA UseTyped ==
  ASSUME NEW b \in Bitmap, NEW ptr, NEW len, NEW flags \in Flags
  PROVE  pmm_use(b, ptr, len, flags) \in Bitmap
BY DEF pmm_use, Bitmap

-----------------------------------------------------------------------------
(* Frames.                                                                 *)

(* The first fit.                                                          *)
LEMMA FirstFitFound ==
  ASSUME NEW b, NEW n \in Nat, Fits(b, n) # {}
  PROVE  /\ FirstFit(b, n) \in Page /\ FirstFit(b, n) + n <= PageNumber
         /\ \A i \in FirstFit(b, n) .. FirstFit(b, n) + n - 1 : b[i] = "UNUSED"
         /\ \A s \in Fits(b, n) : FirstFit(b, n) <= s
<1>1. Fits(b, n) \subseteq Nat
  BY DEF Fits, Page
<1>2. \E s \in Fits(b, n) : \A t \in Fits(b, n) : s <= t
  BY <1>1, LeastMember
<1>3. FirstFit(b, n) \in Fits(b, n) /\ \A s \in Fits(b, n) : FirstFit(b, n) <= s
  BY <1>2 DEF FirstFit
<1> QED
  BY <1>3 DEF Fits

LEMMA PagesForType ==
  ASSUME NEW len \in Nat
  PROVE  PagesFor(len) \in Nat /\ (len # 0 => PagesFor(len) > 0)
<1>1. len \div PageSize \in Nat /\ len % PageSize \in 0 .. PageSize - 1
      /\ len = PageSize * (len \div PageSize) + (len % PageSize)
  BY Quotients
<1>2. len \div PageSize = 0 => len = len % PageSize
  BY <1>1
<1> QED
  BY <1>1, <1>2 DEF PagesFor

LEMMA FindFreeTyped ==
  ASSUME NEW b, NEW len \in Nat
  PROVE  pmm_find_free(b, len) \in Address
<1>1. 0 \in Address
  BY AddressOfPage, AbsentTyped
<1> QED
  BY <1>1, FirstFitFound, PagesForType, AddressOfPage DEF pmm_find_free

LEMMA AllocTyped ==
  ASSUME NEW m \in MemoryState, NEW len \in Nat, NEW flags \in Flags
  PROVE  pmm_alloc(m, len, flags).m \in Quiet(m) /\ pmm_alloc(m, len, flags).ptr \in Address
<1>1. \A ptr : [m EXCEPT !.bitmap = pmm_use(@, ptr, len, flags)] \in Quiet(m)
  BY UseTyped, StateFields, Updates
<1> QED
  BY <1>1, FindFreeTyped, Updates, QuietLater DEF pmm_alloc, AllocAt, Result

LEMMA FreeTyped ==
  ASSUME NEW m \in MemoryState, NEW ptr, NEW len
  PROVE  pmm_free(m, ptr, len) \in Quiet(m)
<1>1. "UNUSED" \in Flags
  BY DEF Flags
<1> QED
  BY <1>1, UseTyped, StateFields, Updates DEF pmm_free

LEMMA DestroyTableTyped ==
  ASSUME NEW m \in MemoryState, NEW t
  PROVE  vmm_destroy_page_table(m, t) \in Quiet(m)
<1> DEFINE n == pmm_free(m, pmm_get_address(Dir(m)[t].page), PageSize)
<1>1. n \in Quiet(m)
  BY FreeTyped
<1> HIDE DEF n
<1>2. n \in MemoryState /\ m.page_directory \in Page
  BY <1>1, QuietLater, StateFields
<1>3. [n EXCEPT !.tables[m.page_directory][t] = Absent] \in Quiet(n)
  BY <1>2, SetTyped, AbsentTyped
<1> QED
  BY <1>1, <1>3, QuietLater DEF vmm_destroy_page_table, n

-----------------------------------------------------------------------------
(* Mapping.                                                                *)

LEMMA WithTableTyped ==
  ASSUME NEW m \in MemoryState, NEW t \in Index
  PROVE  WithTable(m, t) \in Quiet(m)
<1> DEFINE a == pmm_alloc(m, PageSize, "KERNEL")
           f == pmm_get_page(a.ptr, 0)
           e == [pr |-> TRUE, user |-> TRUE, page |-> f]
           d == a.m.page_directory
           s == [a.m.tables EXCEPT ![d][t] = e, ![f] = EmptyTable]
<1>1. a.m \in Quiet(m) /\ a.ptr \in Nat
  BY AllocTyped DEF Flags, Address
<1> HIDE DEF a
<1>2. a.m \in MemoryState
  BY <1>1, QuietLater
<1>3. f \in Page
  BY <1>1, PlaceOfAddress
<1>4. e \in Entry /\ d \in Page /\ a.m.tables \in TableRows
  BY <1>2, <1>3, StateFields DEF Entry
<1>5. s \in TableRows
  BY <1>3, <1>4, AbsentTyped DEF TableRows
<1>6. AddTable(a, t) = [a.m EXCEPT !.tables = s]
  BY DEF AddTable
<1>7. AddTable(a, t) \in Quiet(a.m) /\ Quiet(a.m) \subseteq Quiet(m)
  <2> HIDE DEF s
  <2>1. AddTable(a, t) \in Quiet(a.m)
    BY <1>2, <1>5, <1>6, Updates
  <2> QED
    BY <1>1, <2>1, QuietLater
<1> QED
  BY <1>7, QuietLater DEF WithTable, a

LEMMA SetEntryTyped ==
  ASSUME NEW m \in MemoryState, NEW vaddr \in Nat, NEW e \in Entry
  PROVE  SetEntry(m, vaddr, e) \in Quiet(m) /\ Enter(m, vaddr, e) \in Quiet(m)
<1>1. TableOf(vaddr) \in Index /\ PageIndexOf(vaddr) \in Index
  BY PlaceOfAddress
<1>2. Dir(m)[TableOf(vaddr)].page \in Page
  BY <1>1, EntryTyped, StateFields DEF Dir
<1> QED
  BY <1>1, <1>2, SetTyped, QuietLater DEF SetEntry, Enter

LEMMA MapTyped ==
  ASSUME NEW m \in MemoryState, NEW vaddr \in Nat, NEW paddr \in Nat, NEW flags
  PROVE  vmm_map(m, vaddr, paddr, flags) \in Quiet(m)
<1> DEFINE e == [pr |-> TRUE, user |-> flags = "USER", page |-> pmm_get_page(paddr, 0)]
           w == WithTable(m, TableOf(vaddr))
<1>1. e \in Entry
  BY PlaceOfAddress DEF Entry
<1>2. w \in Quiet(m)
  BY PlaceOfAddress, WithTableTyped
<1> HIDE DEF e, w
<1>3. Enter(w, vaddr, e) \in Quiet(m)
  BY <1>1, <1>2, SetEntryTyped, QuietLater
<1> QED
  BY <1>3, QuietLater DEF vmm_map, e, w

LEMMA UnmapTyped ==
  ASSUME NEW m \in MemoryState, NEW vaddr \in Nat
  PROVE  vmm_unmap(m, vaddr) \in Quiet(m)
<1> DEFINE n == SetEntry(m, vaddr, Absent)
<1>1. n \in Quiet(m)
  BY AbsentTyped, SetEntryTyped
<1> HIDE DEF n
<1>2. vmm_destroy_page_table(n, TableOf(vaddr)) \in Quiet(m)
  BY <1>1, QuietLater, PlaceOfAddress, DestroyTableTyped
<1> QED
  BY <1>1, <1>2, QuietLater DEF vmm_unmap, n

(* The loops.                                                              *)
LEMMA MapLoopRuns ==
  ASSUME NEW m \in MemoryState, NEW page \in Nat, NEW frame \in Nat, NEW flags, NEW j \in Nat
  PROVE  /\ MapLoop(m, page, frame, flags, 0) = m
         /\ MapLoop(m, page, frame, flags, j) \in Quiet(m)
         /\ MapLoop(m, page, frame, flags, j + 1)
            = vmm_map(MapLoop(m, page, frame, flags, j), pmm_get_address(page + j),
                      pmm_get_address(frame + j), flags)
<1> DEFINE Round(n, k) == vmm_map(n, pmm_get_address(page + k - 1),
                                  pmm_get_address(frame + k - 1), flags)
           step == [x \in MemoryState \X Nat |->
                      IF x[2] = 0 THEN x[1] ELSE Round(x[1], x[2])]
           Body(f) == [k \in Nat |-> IF k = 0 THEN m ELSE Round(f[k - 1], k)]
           loop == CHOOSE f : f = Body(f)
<1>1. ASSUME NEW n \in MemoryState, NEW k \in Nat, k # 0 PROVE Round(n, k) \in Quiet(n)
  <2>1. pmm_get_address(page + k - 1) \in Nat /\ pmm_get_address(frame + k - 1) \in Nat
    BY <1>1 DEF pmm_get_address
  <2> QED
    BY <2>1, MapTyped
<1> HIDE DEF Round
<1>2. step \in Steps(MemoryState)
  BY <1>1, QuietLater DEF Steps
<1>a. \A n \in MemoryState, k \in Nat : k # 0 => step[<<n, k>>] = Round(n, k)
  OBVIOUS
<1> HIDE DEF step, loop, Body
<1>b. Loops(MemoryState, m, step) # {}
  BY <1>2, LoopExists
<1>3. PICK g \in [Nat -> MemoryState] :
        g[0] = m /\ \A k \in Nat : g[k + 1] = step[<<g[k], k + 1>>]
  BY <1>b DEF Loops
<1> USE DEF Body
<1>4. ASSUME NEW k \in Nat PROVE g[k + 1] = Round(g[k], k + 1)
  <2>1. g[k] \in MemoryState /\ k + 1 \in Nat /\ k + 1 # 0
    BY <1>3
  <2>2. step[<<g[k], k + 1>>] = Round(g[k], k + 1)
    BY <2>1, <1>a
  <2>3. g[k + 1] = step[<<g[k], k + 1>>]
    BY <1>3
  <2> QED
    BY <2>2, <2>3
<1>5. g = Body(g)
  <2>1. ASSUME NEW k \in Nat PROVE g[k] = Body(g)[k]
    <3>1. CASE k = 0
      BY <3>1, <1>3
    <3>2. CASE k # 0
      <4>1. k - 1 \in Nat /\ (k - 1) + 1 = k
        BY <3>2
      <4>2. g[(k - 1) + 1] = Round(g[k - 1], (k - 1) + 1)
        BY <4>1, <1>4
      <4> QED
        BY <3>2, <4>1, <4>2
    <3> QED
      BY <3>1, <3>2
  <2> QED
    BY <2>1, <1>3
<1>6. loop = Body(loop)
  BY <1>5 DEF loop
<1>7. loop[0] = m
  BY <1>6
<1>8. ASSUME NEW k \in Nat PROVE loop[k + 1] = Round(loop[k], k + 1)
  <2>1. k + 1 \in Nat /\ k + 1 # 0 /\ (k + 1) - 1 = k
    OBVIOUS
  <2>2. loop[k + 1] = Body(loop)[k + 1]
    BY <1>6
  <2> QED
    BY <2>1, <2>2
<1>9. \A k \in Nat : loop[k] \in Quiet(m)
  <2> DEFINE S == {k \in Nat : loop[k] \in Quiet(m)}
  <2>1. 0 \in S
    BY <1>7, QuietLater
  <2>2. ASSUME NEW k \in Nat, k \in S PROVE k + 1 \in S
    <3>1. loop[k] \in Quiet(m) /\ loop[k] \in MemoryState
      BY <2>2, QuietLater
    <3>2. Round(loop[k], k + 1) \in Quiet(loop[k])
      BY <3>1, <1>1
    <3> QED
      BY <3>1, <3>2, <1>8, QuietLater
  <2> HIDE DEF S
  <2>3. \A k \in Nat : k \in S
    BY <2>1, <2>2, Induction
  <2> QED
    BY <2>3 DEF S
<1>10. \A k : MapLoop(m, page, frame, flags, k) = loop[k]
  BY Zenon DEF MapLoop, loop, Round
<1> QED
  BY <1>7, <1>8, <1>9, <1>10 DEF Round

LEMMA UnmapLoopRuns ==
  ASSUME NEW m \in MemoryState, NEW page \in Nat, NEW j \in Nat
  PROVE  /\ UnmapLoop(m, page, 0) = m
         /\ UnmapLoop(m, page, j) \in Quiet(m)
         /\ UnmapLoop(m, page, j + 1) = vmm_unmap(UnmapLoop(m, page, j), pmm_get_address(page + j))
<1> DEFINE Round(n, k) == vmm_unmap(n, pmm_get_address(page + k - 1))
           step == [x \in MemoryState \X Nat |->
                      IF x[2] = 0 THEN x[1] ELSE Round(x[1], x[2])]
           Body(f) == [k \in Nat |-> IF k = 0 THEN m ELSE Round(f[k - 1], k)]
           loop == CHOOSE f : f = Body(f)
<1>1. ASSUME NEW n \in MemoryState, NEW k \in Nat, k # 0 PROVE Round(n, k) \in Quiet(n)
  <2>1. pmm_get_address(page + k - 1) \in Nat
    BY <1>1 DEF pmm_get_address
  <2> QED
    BY <2>1, UnmapTyped
<1> HIDE DEF Round
<1>2. step \in Steps(MemoryState)
  BY <1>1, QuietLater DEF Steps
<1>a. \A n \in MemoryState, k \in Nat : k # 0 => step[<<n, k>>] = Round(n, k)
  OBVIOUS
<1> HIDE DEF step, loop, Body
<1>b. Loops(MemoryState, m, step) # {}
  BY <1>2, LoopExists
<1>3. PICK g \in [Nat -> MemoryState] :
        g[0] = m /\ \A k \in Nat : g[k + 1] = step[<<g[k], k + 1>>]
  BY <1>b DEF Loops
<1> USE DEF Body
<1>4. ASSUME NEW k \in Nat PROVE g[k + 1] = Round(g[k], k + 1)
  <2>1. g[k] \in MemoryState /\ k + 1 \in Nat /\ k + 1 # 0
    BY <1>3
  <2>2. step[<<g[k], k + 1>>] = Round(g[k], k + 1)
    BY <2>1, <1>a
  <2>3. g[k + 1] = step[<<g[k], k + 1>>]
    BY <1>3
  <2> QED
    BY <2>2, <2>3
<1>5. g = Body(g)
  <2>1. ASSUME NEW k \in Nat PROVE g[k] = Body(g)[k]
    <3>1. CASE k = 0
      BY <3>1, <1>3
    <3>2. CASE k # 0
      <4>1. k - 1 \in Nat /\ (k - 1) + 1 = k
        BY <3>2
      <4>2. g[(k - 1) + 1] = Round(g[k - 1], (k - 1) + 1)
        BY <4>1, <1>4
      <4> QED
        BY <3>2, <4>1, <4>2
    <3> QED
      BY <3>1, <3>2
  <2> QED
    BY <2>1, <1>3
<1>6. loop = Body(loop)
  BY <1>5 DEF loop
<1>7. loop[0] = m
  BY <1>6
<1>8. ASSUME NEW k \in Nat PROVE loop[k + 1] = Round(loop[k], k + 1)
  <2>1. k + 1 \in Nat /\ k + 1 # 0 /\ (k + 1) - 1 = k
    OBVIOUS
  <2>2. loop[k + 1] = Body(loop)[k + 1]
    BY <1>6
  <2> QED
    BY <2>1, <2>2
<1>9. \A k \in Nat : loop[k] \in Quiet(m)
  <2> DEFINE S == {k \in Nat : loop[k] \in Quiet(m)}
  <2>1. 0 \in S
    BY <1>7, QuietLater
  <2>2. ASSUME NEW k \in Nat, k \in S PROVE k + 1 \in S
    <3>1. loop[k] \in Quiet(m) /\ loop[k] \in MemoryState
      BY <2>2, QuietLater
    <3>2. Round(loop[k], k + 1) \in Quiet(loop[k])
      BY <3>1, <1>1
    <3> QED
      BY <3>1, <3>2, <1>8, QuietLater
  <2> HIDE DEF S
  <2>3. \A k \in Nat : k \in S
    BY <2>1, <2>2, Induction
  <2> QED
    BY <2>3 DEF S
<1>10. \A k : UnmapLoop(m, page, k) = loop[k]
  BY Zenon DEF UnmapLoop, loop, Round
<1> QED
  BY <1>7, <1>8, <1>9, <1>10 DEF Round

LEMMA FreeUserTablesRuns ==
  ASSUME NEW m \in MemoryState, NEW j \in Nat
  PROVE  /\ FreeUserTables(m, 0) = m
         /\ FreeUserTables(m, j) \in Quiet(m)
         /\ FreeUserTables(m, j + 1)
            = LET t == TableOf(UserStart) + j
                  n == FreeUserTables(m, j)
              IN  IF Dir(n)[t].pr THEN vmm_destroy_page_table(n, t) ELSE n
<1> DEFINE Round(n, k) == LET t == TableOf(UserStart) + k - 1
                            IN  IF Dir(n)[t].pr THEN vmm_destroy_page_table(n, t) ELSE n
           step == [x \in MemoryState \X Nat |->
                      IF x[2] = 0 THEN x[1] ELSE Round(x[1], x[2])]
           Body(f) == [k \in Nat |-> IF k = 0 THEN m ELSE Round(f[k - 1], k)]
           loop == CHOOSE f : f = Body(f)
<1>1. ASSUME NEW n \in MemoryState, NEW k \in Nat, k # 0 PROVE Round(n, k) \in Quiet(n)
  BY DestroyTableTyped, QuietLater
<1> HIDE DEF Round
<1>2. step \in Steps(MemoryState)
  BY <1>1, QuietLater DEF Steps
<1>a. \A n \in MemoryState, k \in Nat : k # 0 => step[<<n, k>>] = Round(n, k)
  OBVIOUS
<1> HIDE DEF step, loop, Body
<1>b. Loops(MemoryState, m, step) # {}
  BY <1>2, LoopExists
<1>3. PICK g \in [Nat -> MemoryState] :
        g[0] = m /\ \A k \in Nat : g[k + 1] = step[<<g[k], k + 1>>]
  BY <1>b DEF Loops
<1> USE DEF Body
<1>4. ASSUME NEW k \in Nat PROVE g[k + 1] = Round(g[k], k + 1)
  <2>1. g[k] \in MemoryState /\ k + 1 \in Nat /\ k + 1 # 0
    BY <1>3
  <2>2. step[<<g[k], k + 1>>] = Round(g[k], k + 1)
    BY <2>1, <1>a
  <2>3. g[k + 1] = step[<<g[k], k + 1>>]
    BY <1>3
  <2> QED
    BY <2>2, <2>3
<1>5. g = Body(g)
  <2>1. ASSUME NEW k \in Nat PROVE g[k] = Body(g)[k]
    <3>1. CASE k = 0
      BY <3>1, <1>3
    <3>2. CASE k # 0
      <4>1. k - 1 \in Nat /\ (k - 1) + 1 = k
        BY <3>2
      <4>2. g[(k - 1) + 1] = Round(g[k - 1], (k - 1) + 1)
        BY <4>1, <1>4
      <4> QED
        BY <3>2, <4>1, <4>2
    <3> QED
      BY <3>1, <3>2
  <2> QED
    BY <2>1, <1>3
<1>6. loop = Body(loop)
  BY <1>5 DEF loop
<1>7. loop[0] = m
  BY <1>6
<1>8. ASSUME NEW k \in Nat PROVE loop[k + 1] = Round(loop[k], k + 1)
  <2>1. k + 1 \in Nat /\ k + 1 # 0 /\ (k + 1) - 1 = k
    OBVIOUS
  <2>2. loop[k + 1] = Body(loop)[k + 1]
    BY <1>6
  <2> QED
    BY <2>1, <2>2
<1>9. \A k \in Nat : loop[k] \in Quiet(m)
  <2> DEFINE S == {k \in Nat : loop[k] \in Quiet(m)}
  <2>1. 0 \in S
    BY <1>7, QuietLater
  <2>2. ASSUME NEW k \in Nat, k \in S PROVE k + 1 \in S
    <3>1. loop[k] \in Quiet(m) /\ loop[k] \in MemoryState
      BY <2>2, QuietLater
    <3>2. Round(loop[k], k + 1) \in Quiet(loop[k])
      BY <3>1, <1>1
    <3> QED
      BY <3>1, <3>2, <1>8, QuietLater
  <2> HIDE DEF S
  <2>3. \A k \in Nat : k \in S
    BY <2>1, <2>2, Induction
  <2> QED
    BY <2>3 DEF S
<1>10. \A k : FreeUserTables(m, k) = loop[k]
  BY Zenon DEF FreeUserTables, loop, Round
<1> QED
  BY <1>7, <1>8, <1>9, <1>10 DEF Round

LEMMA IdentityMapLoopRuns ==
  ASSUME NEW m \in MemoryState, NEW j \in Nat
  PROVE  /\ IdentityMapLoop(m, 0) = m
         /\ IdentityMapLoop(m, j) \in Quiet(m)
         /\ IdentityMapLoop(m, j + 1) = IdentityMap(IdentityMapLoop(m, j), j)
<1> DEFINE Round(n, k) == IdentityMap(n, k - 1)
           step == [x \in MemoryState \X Nat |->
                      IF x[2] = 0 THEN x[1] ELSE Round(x[1], x[2])]
           Body(f) == [k \in Nat |-> IF k = 0 THEN m ELSE Round(f[k - 1], k)]
           loop == CHOOSE f : f = Body(f)
<1>1. ASSUME NEW n \in MemoryState, NEW k \in Nat, k # 0 PROVE Round(n, k) \in Quiet(n)
  <2>1. pmm_get_address(k - 1) \in Nat
    BY <1>1 DEF pmm_get_address
  <2> QED
    BY <2>1, MapTyped, QuietLater DEF IdentityMap
<1> HIDE DEF Round
<1>2. step \in Steps(MemoryState)
  BY <1>1, QuietLater DEF Steps
<1>a. \A n \in MemoryState, k \in Nat : k # 0 => step[<<n, k>>] = Round(n, k)
  OBVIOUS
<1> HIDE DEF step, loop, Body
<1>b. Loops(MemoryState, m, step) # {}
  BY <1>2, LoopExists
<1>3. PICK g \in [Nat -> MemoryState] :
        g[0] = m /\ \A k \in Nat : g[k + 1] = step[<<g[k], k + 1>>]
  BY <1>b DEF Loops
<1> USE DEF Body
<1>4. ASSUME NEW k \in Nat PROVE g[k + 1] = Round(g[k], k + 1)
  <2>1. g[k] \in MemoryState /\ k + 1 \in Nat /\ k + 1 # 0
    BY <1>3
  <2>2. step[<<g[k], k + 1>>] = Round(g[k], k + 1)
    BY <2>1, <1>a
  <2>3. g[k + 1] = step[<<g[k], k + 1>>]
    BY <1>3
  <2> QED
    BY <2>2, <2>3
<1>5. g = Body(g)
  <2>1. ASSUME NEW k \in Nat PROVE g[k] = Body(g)[k]
    <3>1. CASE k = 0
      BY <3>1, <1>3
    <3>2. CASE k # 0
      <4>1. k - 1 \in Nat /\ (k - 1) + 1 = k
        BY <3>2
      <4>2. g[(k - 1) + 1] = Round(g[k - 1], (k - 1) + 1)
        BY <4>1, <1>4
      <4> QED
        BY <3>2, <4>1, <4>2
    <3> QED
      BY <3>1, <3>2
  <2> QED
    BY <2>1, <1>3
<1>6. loop = Body(loop)
  BY <1>5 DEF loop
<1>7. loop[0] = m
  BY <1>6
<1>8. ASSUME NEW k \in Nat PROVE loop[k + 1] = Round(loop[k], k + 1)
  <2>1. k + 1 \in Nat /\ k + 1 # 0 /\ (k + 1) - 1 = k
    OBVIOUS
  <2>2. loop[k + 1] = Body(loop)[k + 1]
    BY <1>6
  <2> QED
    BY <2>1, <2>2
<1>9. \A k \in Nat : loop[k] \in Quiet(m)
  <2> DEFINE S == {k \in Nat : loop[k] \in Quiet(m)}
  <2>1. 0 \in S
    BY <1>7, QuietLater
  <2>2. ASSUME NEW k \in Nat, k \in S PROVE k + 1 \in S
    <3>1. loop[k] \in Quiet(m) /\ loop[k] \in MemoryState
      BY <2>2, QuietLater
    <3>2. Round(loop[k], k + 1) \in Quiet(loop[k])
      BY <3>1, <1>1
    <3> QED
      BY <3>1, <3>2, <1>8, QuietLater
  <2> HIDE DEF S
  <2>3. \A k \in Nat : k \in S
    BY <2>1, <2>2, Induction
  <2> QED
    BY <2>3 DEF S
<1>10. \A k : IdentityMapLoop(m, k) = loop[k]
  BY Zenon DEF IdentityMapLoop, loop, Round
<1> QED
  BY <1>7, <1>8, <1>9, <1>10 DEF Round

LEMMA CountType ==
  ASSUME NEW a \in Nat, NEW len \in Nat, len # 0
  PROVE  PageCount(a, len) \in Nat
<1>1. pmm_get_page(a, 0) \in Page /\ pmm_get_page(a, len - 1) \in Page
  BY PageType
<1> QED
  BY <1>1 DEF PageCount, Page

LEMMA MapRangeTyped ==
  ASSUME NEW m \in MemoryState, NEW vaddr \in Nat, NEW paddr \in Nat, NEW len \in Nat, NEW flags
  PROVE  vmm_map_range(m, vaddr, paddr, len, flags) \in Quiet(m)
<1>1. pmm_get_page(vaddr, 0) \in Nat /\ pmm_get_page(paddr, 0) \in Nat
  BY PlaceOfAddress DEF Page
<1> QED
  BY <1>1, CountType, MapLoopRuns, QuietLater DEF vmm_map_range

LEMMA UnmapRangeTyped ==
  ASSUME NEW m \in MemoryState, NEW vaddr \in Nat, NEW len \in Nat
  PROVE  vmm_unmap_range(m, vaddr, len) \in Quiet(m)
<1>1. pmm_get_page(vaddr, 0) \in Nat
  BY PlaceOfAddress DEF Page
<1> QED
  BY <1>1, CountType, UnmapLoopRuns, QuietLater DEF vmm_unmap_range

(* The first fit of the kernel's or the user's domain.                     *)
FreePages(m, domain) ==
  {p \in DomainPages(domain) : vmm_get_physical_address(m, pmm_get_address(p)) = 0}

LEMMA VirtualFitFound ==
  ASSUME NEW m, NEW len \in Nat, NEW domain,
         vmm_find_free(m, len, domain) # 0
  PROVE  \E p \in FreePages(m, domain) :
           /\ vmm_find_free(m, len, domain) = pmm_get_address(p)
           /\ len # 0
           /\ p .. p + PagesFor(len) - 1 \subseteq FreePages(m, domain)
           /\ \A q \in FreePages(m, domain) :
                q .. q + PagesFor(len) - 1 \subseteq FreePages(m, domain) => p <= q
<1> DEFINE free == FreePages(m, domain)
           fits == {p \in free : p .. p + PagesFor(len) - 1 \subseteq free}
           c == CHOOSE p \in fits : \A q \in fits : p <= q
<1>1. vmm_find_free(m, len, domain)
      = IF len = 0 \/ fits = {} THEN 0 ELSE pmm_get_address(c)
  BY Zenon DEF vmm_find_free, FreePages
<1> HIDE DEF c
<1>2. fits # {} /\ len # 0 /\ vmm_find_free(m, len, domain) = pmm_get_address(c)
  BY <1>1
<1>3. fits \subseteq Nat
  BY DEF FreePages, DomainPages, Page
<1>4. c \in fits /\ \A q \in fits : c <= q
  BY <1>2, <1>3, LeastMember DEF c
<1> QED
  BY <1>2, <1>4

LEMMA VirtualFindTyped ==
  ASSUME NEW m, NEW len \in Nat, NEW domain
  PROVE  vmm_find_free(m, len, domain) \in Address
<1>1. CASE vmm_find_free(m, len, domain) = 0
  BY <1>1, AddressOfPage, AbsentTyped
<1>2. CASE vmm_find_free(m, len, domain) # 0
  <2>1. PICK p \in FreePages(m, domain) : vmm_find_free(m, len, domain) = pmm_get_address(p)
    BY <1>2, VirtualFitFound
  <2>2. p \in Page
    BY DEF FreePages, DomainPages
  <2> QED
    BY <2>1, <2>2, AddressOfPage
<1> QED
  BY <1>1, <1>2

\* What an operator that yields a pointer keeps.
ResultTyped(m, r) == r.m \in Quiet(m) /\ r.ptr \in Address

LEMMA Pointers == Address \subseteq Nat /\ 0 \in Address
<1>1. 0 \in Address
  BY AddressOfPage, AbsentTyped
<1> QED
  BY <1>1 DEF Address

LEMMA MapAtTyped ==
  ASSUME NEW m \in MemoryState, NEW vaddr \in Address, NEW paddr \in Nat, NEW len \in Nat,
         NEW flags
  PROVE  ResultTyped(m, MapAt(m, vaddr, paddr, len, flags))
BY MapRangeTyped, Pointers, Updates DEF MapAt, ResultTyped, Result

LEMMA MapPhysicalTyped ==
  ASSUME NEW m \in MemoryState, NEW paddr \in Address, NEW len \in Nat, NEW flags
  PROVE  ResultTyped(m, vmm_map_physical_memory(m, paddr, len, flags))
<1>1. ResultTyped(m, Result(m, paddr))
  BY QuietLater DEF ResultTyped, Result
<1> QED
  BY <1>1, MapAtTyped, VirtualFindTyped, Pointers DEF vmm_map_physical_memory

LEMMA UnmapPhysicalTyped ==
  ASSUME NEW m \in MemoryState, NEW vaddr \in Nat, NEW len \in Nat
  PROVE  vmm_unmap_physical_memory(m, vaddr, len) \in Quiet(m)
BY UnmapRangeTyped, QuietLater DEF vmm_unmap_physical_memory

LEMMA UsePhysicalTyped ==
  ASSUME NEW m \in MemoryState, NEW paddr \in Nat, NEW len \in Nat, NEW flags \in Flags
  PROVE  ResultTyped(m, vmm_use_physical_memory(m, paddr, len, flags))
<1> DEFINE u == [m EXCEPT !.bitmap = pmm_use(@, paddr, len, flags)]
           v == vmm_find_free(m, len, flags)
<1>1. u \in Quiet(m) /\ v \in Address
  BY UseTyped, StateFields, Updates, VirtualFindTyped
<1> HIDE DEF u
<1>2. vmm_map_range(u, v, paddr, len, flags) \in Quiet(m)
  BY <1>1, MapRangeTyped, QuietLater, Pointers
<1> HIDE DEF v
<1>3. Short(m) \in Quiet(m) /\ 0 \in Address
  BY Updates, Pointers
<1> QED
  BY <1>1, <1>2, <1>3 DEF ResultTyped, vmm_use_physical_memory, Result, u, v

LEMMA UseVirtualTyped ==
  ASSUME NEW m \in MemoryState, NEW vaddr \in Nat, NEW len \in Nat, NEW flags \in Flags
  PROVE  ResultTyped(m, vmm_use_virtual_memory(m, vaddr, len, flags))
<1> DEFINE a == pmm_alloc(m, len, flags)
<1>1. a.m \in Quiet(m) /\ a.ptr \in Address
  BY AllocTyped
<1> HIDE DEF a
<1>2. vmm_map_range(a.m, vaddr, a.ptr, len, flags) \in Quiet(m)
  BY <1>1, MapRangeTyped, QuietLater, Pointers
<1>3. m \in Quiet(m) /\ 0 \in Address
  BY QuietLater, Pointers
<1> QED
  BY <1>1, <1>2, <1>3 DEF ResultTyped, vmm_use_virtual_memory, Result, a

LEMMA AllocateTyped ==
  ASSUME NEW m \in MemoryState, NEW len \in Nat, NEW flags \in Flags
  PROVE  ResultTyped(m, vmm_alloc(m, len, flags))
<1> DEFINE a == pmm_alloc(m, len, flags)
<1>1. a.m \in Quiet(m) /\ a.m \in MemoryState /\ a.ptr \in Address
  BY AllocTyped, QuietLater
<1> HIDE DEF a
<1>2. ResultTyped(a.m, MapAt(a.m, vmm_find_free(a.m, len, flags), a.ptr, len, flags))
  BY <1>1, MapAtTyped, VirtualFindTyped, Pointers
<1>3. ResultTyped(m, MapAllocated(a, len, flags))
  BY <1>1, <1>2, QuietLater DEF ResultTyped, MapAllocated
<1>4. ResultTyped(m, Result(m, 0))
  BY QuietLater, Pointers DEF ResultTyped, Result
<1> QED
  BY <1>3, <1>4 DEF vmm_alloc, a

LEMMA ReleaseTyped ==
  ASSUME NEW m \in MemoryState, NEW vaddr \in Nat, NEW len \in Nat
  PROVE  vmm_free(m, vaddr, len) \in Quiet(m)
BY UnmapRangeTyped, FreeTyped, QuietLater DEF vmm_free

-----------------------------------------------------------------------------
(* Page directories.                                                       *)

LEMMA AccessTyped ==
  ASSUME NEW m \in MemoryState, NEW vaddr
  PROVE  Access(m, vaddr) \in Later(m) /\ (~ Access(m, vaddr).fault => Access(m, vaddr) = m)
<1>1. [m EXCEPT !.fault = TRUE].fault
  BY DEF MemoryState
<1> QED
  BY <1>1, Updates, QuietLater DEF Access

LEMMA SeenTyped ==
  ASSUME NEW m \in MemoryState, NEW vaddr \in Nat
  PROVE  SeenAt(m, vaddr) \in Page
<1>1. TableOf(vaddr) \in Index /\ PageIndexOf(vaddr) \in Index /\ pmm_get_page(vaddr, 0) \in Page
  BY PlaceOfAddress
<1>2. Dir(m)[TableOf(vaddr)].page \in Page
  BY <1>1, EntryTyped, StateFields DEF Dir
<1>3. FrameAt(m, vaddr) \in Page
  BY <1>1, <1>2, EntryTyped DEF FrameAt
<1> QED
  BY <1>1, <1>3 DEF SeenAt

LEMMA RowTyped ==
  ASSUME NEW m \in MemoryState, NEW d, NEW row \in [Index -> Entry]
  PROVE  [m EXCEPT !.tables[d] = row] \in Quiet(m)
<1>1. [m.tables EXCEPT ![d] = row] \in TableRows
  BY StateFields DEF TableRows
<1>2. [m EXCEPT !.tables[d] = row] = [m EXCEPT !.tables = [m.tables EXCEPT ![d] = row]]
  BY DEF MemoryState
<1> QED
  BY <1>1, <1>2, Updates

LEMMA WriteTyped ==
  ASSUME NEW d, d.m \in MemoryState, d.ptr \in Nat, NEW indices, NEW row \in [Index -> Entry]
  PROVE  WriteDirectory(d, indices, row) \in Later(d.m)
<1> DEFINE f == SeenAt(d.m, d.ptr)
           new == [i \in Index |-> IF i \in indices THEN row[i] ELSE d.m.tables[f][i]]
           n == [d.m EXCEPT !.tables[f] = new]
<1>1. f \in Page
  BY SeenTyped
<1> HIDE DEF f
<1>2. new \in [Index -> Entry]
  BY <1>1, EntryTyped
<1>3. WriteDirectory(d, indices, row)
      = IF Access(d.m, d.ptr).fault THEN Access(d.m, d.ptr)
        ELSE vmm_unmap_physical_memory(n, d.ptr, PageSize)
  BY DEF WriteDirectory, f
<1> HIDE DEF new
<1>4. n \in Quiet(d.m)
  BY <1>2, RowTyped
<1> HIDE DEF n
<1>5. vmm_unmap_physical_memory(n, d.ptr, PageSize) \in Later(d.m)
  BY <1>4, UnmapPhysicalTyped, QuietLater
<1> QED
  BY <1>3, <1>5, AccessTyped

LEMMA CreatedTyped ==
  ASSUME NEW a, a.m \in MemoryState, a.ptr \in Address
  PROVE  CreatedIn(a).m \in Later(a.m) /\ CreatedIn(a).ptr = a.ptr
<1> DEFINE d == vmm_map_physical_memory(a.m, a.ptr, PageSize, "KERNEL")
           row == [EmptyTable EXCEPT ![ENTRIES - 1] =
                     [pr |-> TRUE, user |-> FALSE, page |-> pmm_get_page(a.ptr, 0)]]
<1>1. ResultTyped(a.m, d)
  BY MapPhysicalTyped
<1>2. row \in [Index -> Entry]
  BY AbsentTyped, PlaceOfAddress, Pointers DEF Entry
<1>3. CreatedIn(a) = Result(WriteDirectory(d, Index, row), a.ptr)
  BY DEF CreatedIn
<1> HIDE DEF d, row
<1>4. WriteDirectory(d, Index, row) \in Later(a.m)
  BY <1>1, <1>2, WriteTyped, QuietLater, Pointers DEF ResultTyped
<1> QED
  BY <1>3, <1>4 DEF Result

LEMMA CreateTyped ==
  ASSUME NEW m \in MemoryState
  PROVE  /\ vmm_create_page_directory(m).m \in Later(m)
         /\ vmm_create_page_directory(m).ptr \in Address
<1> DEFINE a == pmm_alloc(m, PageSize, "KERNEL")
<1>1. a.m \in Quiet(m) /\ a.m \in MemoryState /\ a.ptr \in Address
  BY AllocTyped, QuietLater DEF Flags
<1> HIDE DEF a
<1>2. CreatedIn(a).m \in Later(m) /\ CreatedIn(a).ptr \in Address
  BY <1>1, CreatedTyped, QuietLater
<1> QED
  BY <1>2 DEF vmm_create_page_directory, a

LEMMA FreeTablesTyped ==
  ASSUME NEW m \in MemoryState
  PROVE  FreeTables(m) \in Quiet(m)
<1> DEFINE k == ENTRIES - 1 - TableOf(UserStart)
           a == vmm_destroy_page_table(m, 0)
           c == FreeUserTables(a, k)
<1>1. k \in Nat
  BY Domains, Entries DEF FirstUser
<1>2. a \in Quiet(m)
  BY DestroyTableTyped
<1> HIDE DEF k, a
<1>3. c \in Quiet(m)
  BY <1>1, <1>2, FreeUserTablesRuns, QuietLater
<1> HIDE DEF c
<1>4. vmm_destroy_page_table(c, ENTRIES - 1) \in Quiet(m)
  BY <1>3, DestroyTableTyped, QuietLater
<1> QED
  BY <1>4 DEF FreeTables, a, c, k

LEMMA DestroyTyped ==
  ASSUME NEW m \in MemoryState, NEW dir \in Address
  PROVE  vmm_destroy_page_directory(m, dir) \in Later(m)
<1> DEFINE d == vmm_map_physical_memory(m, dir, PageSize, "KERNEL")
           i == [d.m EXCEPT !.page_directory = SeenAt(d.m, d.ptr)]
           f == FreeTables(i)
           n == [f EXCEPT !.page_directory = d.m.page_directory]
<1>1. ResultTyped(m, d) /\ d.m \in MemoryState /\ d.m \in Later(m)
  BY MapPhysicalTyped, QuietLater DEF ResultTyped
<1> HIDE DEF d
<1>2. SeenAt(d.m, d.ptr) \in Page /\ d.m.page_directory \in Page
  BY <1>1, SeenTyped, StateFields, Pointers DEF ResultTyped
<1>3. i \in Later(m) /\ i \in MemoryState
  BY <1>1, <1>2, Updates, QuietLater
<1> HIDE DEF i
<1>4. f \in Later(m) /\ f \in MemoryState
  BY <1>3, FreeTablesTyped, QuietLater
<1> HIDE DEF f
<1>5. n \in Later(m) /\ n \in MemoryState
  BY <1>2, <1>4, Updates, QuietLater
<1> HIDE DEF n
<1>6. vmm_unmap_physical_memory(n, d.ptr, PageSize) \in Later(m)
  BY <1>1, <1>5, UnmapPhysicalTyped, QuietLater, Pointers DEF ResultTyped
<1>7. Access(d.m, d.ptr) \in Later(m)
  BY <1>1, AccessTyped, QuietLater
<1> QED
  BY <1>6, <1>7 DEF vmm_destroy_page_directory, DestroyMapped, d, i, f, n

LEMMA RefreshTyped ==
  ASSUME NEW m \in MemoryState, NEW dir \in Address
  PROVE  vmm_refresh_page_directory(m, dir) \in Later(m)
<1> DEFINE d == vmm_map_physical_memory(m, dir, PageSize, "KERNEL")
<1>1. ResultTyped(m, d) /\ d.m \in MemoryState
  BY MapPhysicalTyped, QuietLater DEF ResultTyped
<1> HIDE DEF d
<1>2. Dir(d.m) \in [Index -> Entry]
  BY <1>1, StateFields DEF Dir, TableRows
<1>3. d.ptr \in Nat /\ d.m \in Later(m)
  BY <1>1, QuietLater, Pointers DEF ResultTyped
<1>4. WriteDirectory(d, KernelTables, Dir(d.m)) \in Later(d.m)
  BY <1>1, <1>2, <1>3, WriteTyped
<1>5. WriteDirectory(d, KernelTables, Dir(d.m)) \in Later(m)
  BY <1>1, <1>3, <1>4, QuietLater
<1> QED
  BY <1>5 DEF vmm_refresh_page_directory, CopyKernelTables, d

LEMMA LoadTyped ==
  ASSUME NEW m \in MemoryState, NEW dir \in Address
  PROVE  /\ vmm_load_page_directory(m, dir).m \in Later(m)
         /\ vmm_load_page_directory(m, dir).ptr = pmm_get_address(m.page_directory)
         /\ vmm_load_page_directory(m, dir).ptr \in Address
<1> DEFINE n == IF m.paging THEN vmm_refresh_page_directory(m, dir)
                ELSE [m EXCEPT !.paging = TRUE]
<1>1. n \in Later(m) /\ n \in MemoryState
  BY RefreshTyped, Updates, QuietLater
<1> HIDE DEF n
<1>2. [n EXCEPT !.page_directory = pmm_get_page(dir, 0)] \in Later(m)
  BY <1>1, PlaceOfAddress, Updates, QuietLater, Pointers
<1>3. pmm_get_address(m.page_directory) \in Address
  BY StateFields, AddressOfPage
<1> QED
  BY <1>2, <1>3 DEF vmm_load_page_directory, Result, n

LEMMA ModifyTyped ==
  ASSUME NEW m \in MemoryState, NEW dir \in Address
  PROVE  vmm_modify_page_directory(m, dir) \in Later(m)
<1> DEFINE l == vmm_load_page_directory(m, dir)
<1>1. l.m \in Later(m) /\ l.m \in MemoryState /\ l.ptr \in Address
  BY LoadTyped, QuietLater
<1> HIDE DEF l
<1>2. Remember(l) \in Later(m)
  BY <1>1, PlaceOfAddress, Updates, QuietLater, Pointers DEF Remember
<1> QED
  BY <1>2, QuietLater DEF vmm_modify_page_directory, l

LEMMA ModifiedTyped ==
  ASSUME NEW m \in MemoryState
  PROVE  vmm_modified_page_directory(m) \in Later(m)
<1> DEFINE l == vmm_load_page_directory(m, pmm_get_address(m.old_directory))
<1>1. l.m \in Later(m) /\ l.m \in MemoryState
  BY LoadTyped, StateFields, AddressOfPage, QuietLater
<1> HIDE DEF l
<1>2. [l.m EXCEPT !.old_directory = 0] \in Later(m)
  BY <1>1, AbsentTyped, Updates, QuietLater
<1> QED
  BY <1>2, QuietLater DEF vmm_modified_page_directory, l

-----------------------------------------------------------------------------
(* What frames are used for.  Pages are mapped in homes: in the directory  *)
(* of a task, or, in the kernel's domain, in all directories at once.      *)

Kernel == PageNumber
Hole == PageNumber
Home == 0 .. PageNumber
LastEntry == ENTRIES - 1

\* The labels of frames: unused or reserved, allocated but not yet used, the kernel's own,
\* a directory, the first directory, the table of a home at an index of its directory, and
\* a page of a home.
Free == <<0, 0, 0>>
Held == <<1, 0, 0>>
Fixed == <<2, 0, 0>>
Directory == <<3, 0, 0>>
Boot == <<4, 0, 0>>
Tab(h, t) == <<5, h, t>>
Pag(h, p) == <<6, h, p>>

\* What of a label matters outside of Paging: tables come and go.
IsTab(l) == l[1] = 5
Plain(l) == IF IsTab(l) THEN Free ELSE l

LEMMA Labels ==
  /\ \A h, t : /\ Tab(h, t) \notin {Free, Held, Fixed, Directory, Boot}
               /\ IsTab(Tab(h, t)) /\ Plain(Tab(h, t)) = Free
  /\ \A h, t, g, u : /\ Tab(h, t) = Tab(g, u) <=> h = g /\ t = u
                     /\ Pag(h, t) = Pag(g, u) <=> h = g /\ t = u
                     /\ Tab(h, t) # Pag(g, u)
  /\ \A h, p : /\ Pag(h, p) \notin {Free, Held, Fixed, Directory, Boot}
               /\ ~ IsTab(Pag(h, p)) /\ Plain(Pag(h, p)) = Pag(h, p)
  /\ Free \notin {Held, Fixed, Directory, Boot} /\ Held \notin {Fixed, Directory, Boot}
  /\ Fixed \notin {Directory, Boot} /\ Directory # Boot
  /\ \A l \in {Free, Held, Fixed, Directory, Boot} : ~ IsTab(l) /\ Plain(l) = l
BY DEF Free, Held, Fixed, Directory, Boot, Tab, Pag, IsTab, Plain

HomeOf(d, t) == IF t \in KernelTables THEN Kernel ELSE d
IsDir(own, d) == own[d] \in {Directory, Boot}
DirFor(m, h) == IF h = Kernel THEN m.page_directory ELSE h

\* The frames below the video memory.
VideoPage == pmm_get_page(Video, 0)

\* An entry of a directory: the last one refers to the directory itself.
EntryFits(own, d, t, e) ==
  IF t = LastEntry THEN e = [pr |-> TRUE, user |-> FALSE, page |-> d]
  ELSE \/ e = Absent
       \/ e.pr /\ e.user /\ own[e.page] = Tab(HomeOf(d, t), t)

\* The bitmap tells which frames have a use.
Marked(m, own) ==
  /\ \A f \in Page : own[f] # Free <=> m.bitmap[f] \in {"KERNEL", "USER"}
  /\ \A f \in Page : IsTab(own[f]) => \E h \in Home, t \in Index : own[f] = Tab(h, t)

LowIntact(m) ==
  \A f \in Page : f < VideoPage =>
    /\ m.bitmap[f] \in {"RESERVED", "UNUSED"}
    /\ m.bitmap[f] = "UNUSED" => \A g \in Page : g < f => m.bitmap[g] = "UNUSED"

Rows(m, own) ==
  \A d \in Page : IsDir(own, d) => \A t \in Index : EntryFits(own, d, t, m.tables[d][t])

\* A table is referred to from its place, and from no other.
Reference(m, own, d, t, f) ==
  /\ d \in Page /\ IsDir(own, d) /\ t # LastEntry
  /\ m.tables[d][t].pr /\ m.tables[d][t].page = f
  /\ own[d] = Boot => t \in KernelTables \union {0}

Referred(m, own) ==
  \A f \in Page, h \in Home, t \in Index : own[f] = Tab(h, t) =>
    /\ Reference(m, own, DirFor(m, h), t, f)
    /\ HomeOf(DirFor(m, h), t) = h

\* The tables hold what is mapped.
EntryShows(e, x) == IF x = Hole THEN ~ e.pr ELSE e.pr /\ e.page = x

Shown(m, own, mp) ==
  \A f \in Page, h \in Home, t \in Index : own[f] = Tab(h, t) =>
    \A i \in Index : EntryShows(m.tables[f][i], mp[h][PageAt(t, i)])

Covered(own, mp) ==
  \A h \in Home, p \in Page : mp[h][p] # Hole => \E f \in Page : own[f] = Tab(h, T(p))

MapTypes(mp) ==
  \A h \in Home, p \in Page : mp[h][p] \in Page \union {Hole} /\ (T(p) # 0 => mp[h][p] # 0)

\* The state of the memory, with the use of every frame and all that is mapped.
Raw(m, own, mp) ==
  /\ m \in MemoryState
  /\ IsDir(own, m.page_directory)
  /\ Marked(m, own) /\ LowIntact(m)
  /\ Rows(m, own) /\ Referred(m, own)
  /\ Shown(m, own, mp) /\ Covered(own, mp) /\ MapTypes(mp)

Mark(own, F, l) == [f \in Page |-> IF f \in F THEN l ELSE own[f]]
Put(mp, h, p, x) ==
  [g \in Home |-> [q \in Page |-> IF g = h /\ q = p THEN x ELSE mp[g][q]]]

-----------------------------------------------------------------------------
(* Runs of frames.                                                         *)

LEMMA RoundUp ==
  ASSUME NEW len \in Nat \ {0}
  PROVE  (len - 1) \div PageSize = PagesFor(len) - 1
<1> DEFINE q == len \div PageSize
           r == len % PageSize
<1>1. q \in Nat /\ r \in 0 .. PageSize - 1 /\ len = q * PageSize + r
  BY Quotients
<1> HIDE DEF q, r
<1>2. CASE r = 0
  <2>1. q # 0
    BY <1>1, <1>2
  <2>2. q - 1 \in Nat /\ len - 1 = (q - 1) * PageSize + (PageSize - 1)
    BY <1>1, <1>2, <2>1
  <2>4. q - 1 \in Nat /\ PageSize - 1 \in 0 .. PageSize - 1
    BY <2>2
  <2>5. ((q - 1) * PageSize + (PageSize - 1)) \div PageSize = q - 1
    BY <2>4, Quotient
  <2>3. (len - 1) \div PageSize = q - 1
    BY <2>2, <2>5
  <2> QED
    BY <1>1, <1>2, <2>3 DEF PagesFor, q, r
<1>3. CASE r # 0
  <2>2. len - 1 = q * PageSize + (r - 1) /\ r - 1 \in 0 .. PageSize - 1
    BY <1>1, <1>3
  <2>3. (len - 1) \div PageSize = q
    BY <1>1, <2>2, Quotient
  <2> QED
    BY <1>1, <1>3, <2>3 DEF PagesFor, q, r
<1> QED
  BY <1>2, <1>3

(* The pages of a range that begins with a page.                           *)
LEMMA AlignedRange ==
  ASSUME NEW p \in Page, NEW len \in Nat \ {0}, p + PagesFor(len) <= PageNumber
  PROVE  /\ FramesOf(pmm_get_address(p), len) = p .. p + PagesFor(len) - 1
         /\ PageCount(pmm_get_address(p), len) = PagesFor(len)
<1> DEFINE a == pmm_get_address(p) + (len - 1)
           q == (len - 1) \div PageSize
           r == (len - 1) % PageSize
           n == PagesFor(len)
<1>1. len - 1 \in Nat /\ p \in Nat /\ n \in Nat /\ n > 0
  BY PagesForType DEF Page
<1>2. q = n - 1 /\ q \in Nat /\ r \in 0 .. PageSize - 1 /\ len - 1 = q * PageSize + r
  BY <1>1, RoundUp, Quotients
<1> HIDE DEF q, r, n
<1>3. a = (p + q) * PageSize + r /\ p + q <= PageNumber - 1
  BY <1>1, <1>2 DEF pmm_get_address, n
<1>4. (p + q) * PageSize <= (PageNumber - 1) * PageSize
      /\ (PageNumber - 1) * PageSize = PageNumber * PageSize - PageSize
  BY <1>1, <1>2, <1>3
<1>5. a \in 0 .. MemorySize - 1 /\ MemorySize \in Nat
  BY <1>1, <1>2, <1>3, <1>4 DEF MemorySize
<1> HIDE DEF a
<1>6. a % MemorySize = a
  BY <1>5
<1>7. p + q \in Nat
  BY <1>1, <1>2
<1>8. a \div PageSize = p + q
  BY <1>2, <1>3, <1>7, Quotient
<1>9. pmm_get_page(pmm_get_address(p), len - 1) = p + n - 1
  BY <1>1, <1>2, <1>6, <1>8 DEF pmm_get_page, a
<1>10. pmm_get_page(pmm_get_address(p), 0) = p
  BY AddressOfPage
<1> QED
  BY <1>1, <1>9, <1>10 DEF FramesOf, PageCount, n

(* A range in the low memory.                                              *)
LEMMA LowRange ==
  ASSUME NEW a \in Nat, NEW len \in Nat \ {0}, a < PageSize, a + len <= Video
  PROVE  /\ FramesOf(a, len) = 0 .. pmm_get_page(a, len - 1)
         /\ pmm_get_page(a, len - 1) \in Page /\ pmm_get_page(a, len - 1) < VideoPage
         /\ pmm_get_page(a, 0) = 0
<1> DEFINE b == a + (len - 1)
           q == b \div PageSize
<1>0. Video \in Nat /\ Video % PageSize = 0 /\ Video < MemorySize /\ Video >= PageSize
  <2>1. Video \in Nat /\ Video % PageSize = 0 /\ Video < (ENTRIES - 1) * PageSize
        /\ Video >= PageSize
    BY Entries, TaskMemoryAssumption
  <2>2. (ENTRIES - 1) * PageSize <= ENTRIES * PageSize
        /\ ENTRIES * PageSize <= ENTRIES * (ENTRIES * PageSize)
        /\ ENTRIES * (ENTRIES * PageSize) = (ENTRIES * ENTRIES) * PageSize
        /\ (ENTRIES - 1) * PageSize \in Nat /\ ENTRIES * PageSize \in Nat
    <3>1. ENTRIES * PageSize \in Nat
      BY Entries
    <3> QED
      BY <3>1, Entries
  <2> QED
    BY <2>1, <2>2, Entries DEF MemorySize
<1>1. b \in Nat /\ b < Video /\ b < MemorySize /\ MemorySize \in Nat
  BY <1>0 DEF MemorySize
<1> HIDE DEF b
<1>2. b % MemorySize = b /\ a % MemorySize = a /\ Video % MemorySize = Video
  BY <1>0, <1>1
<1>3. q \in Nat /\ b % PageSize \in 0 .. PageSize - 1 /\ b = q * PageSize + (b % PageSize)
  BY <1>1, Quotients
<1>4. a \div PageSize = 0
  BY Quotient
<1>5. Video \div PageSize \in Nat /\ Video = (Video \div PageSize) * PageSize
  <2>1. Video \div PageSize \in Nat
        /\ Video = (Video \div PageSize) * PageSize + (Video % PageSize)
    BY <1>0, Quotients
  <2> DEFINE x == Video \div PageSize
  <2> HIDE DEF x
  <2>2. x \in Nat /\ Video = x * PageSize + 0
    BY <1>0, <2>1 DEF x
  <2>3. x * PageSize \in Nat
    BY <2>2
  <2> QED
    BY <2>2, <2>3 DEF x
<1> DEFINE v == Video \div PageSize
<1> HIDE DEF q, v
<1>6. q < v
  <2> SUFFICES ASSUME v <= q PROVE FALSE
    BY <1>3, <1>5 DEF v
  <2>1. v * PageSize <= q * PageSize
    BY <1>3, <1>5 DEF v
  <2> QED
    BY <1>1, <1>3, <1>5, <2>1 DEF v
<1>7. pmm_get_page(a, len - 1) = q /\ pmm_get_page(a, 0) = 0 /\ VideoPage = v
  BY <1>0, <1>1, <1>2, <1>4 DEF pmm_get_page, b, q, v, VideoPage
<1>8. VideoPage \in Page
  BY <1>0, PageType DEF VideoPage
<1> QED
  <2>1. FramesOf(a, len) = 0 .. q
    BY <1>7 DEF FramesOf
  <2>2. q \in Page /\ q < VideoPage
    BY <1>3, <1>6, <1>7, <1>8 DEF Page
  <2> QED
    BY <1>7, <2>1, <2>2

LEMMA VideoPlace == VideoPage \in Page /\ VideoPage > 0
<1>1. 0 \in Nat /\ PageSize - 1 \in Nat /\ Video \in Nat /\ Video >= PageSize
  BY TaskMemoryAssumption
<1>2. VideoPage \in Page
  BY <1>1, PageType DEF VideoPage
<1>3. pmm_get_page(0, 1 - 1) < VideoPage
  BY <1>1, LowRange
<1>4. pmm_get_page(0, 1 - 1) \in Page
  BY PageType
<1> QED
  BY <1>2, <1>3, <1>4 DEF Page

(* What pmm_alloc finds: a run of unused frames above the low memory.      *)
UsedRun(b, s, n, flags) == [f \in Page |-> IF f \in s .. s + n - 1 THEN flags ELSE b[f]]

FoundAt(m, a, s, n, flags) ==
  /\ s \in Page /\ s >= VideoPage /\ s # 0 /\ n \in Nat /\ n > 0 /\ s + n <= PageNumber
  /\ \A i \in s .. s + n - 1 : i \in Page /\ m.bitmap[i] = "UNUSED"
  /\ a.ptr = pmm_get_address(s) /\ a.ptr # 0
  /\ a.m = [m EXCEPT !.bitmap = UsedRun(m.bitmap, s, n, flags)]

LEMMA AllocFound ==
  ASSUME NEW m \in MemoryState, LowIntact(m), NEW len \in Nat \ {0}, NEW flags \in Flags
  PROVE  \/ pmm_alloc(m, len, flags).ptr = 0 /\ pmm_alloc(m, len, flags).m.short
         \/ \E s \in Page : FoundAt(m, pmm_alloc(m, len, flags), s, PagesFor(len), flags)
<1> DEFINE n == PagesFor(len)
           s == FirstFit(m.bitmap, n)
           ptr == pmm_find_free(m.bitmap, len)
           a == pmm_alloc(m, len, flags)
<1>1. n \in Nat /\ n > 0
  BY PagesForType
<1>2. a = Result(IF ptr = 0 THEN Short(m)
                 ELSE [m EXCEPT !.bitmap = pmm_use(m.bitmap, ptr, len, flags)], ptr)
  BY DEF pmm_alloc, AllocAt
<1>3. CASE ptr = 0
  <2>1. Short(m).short
    BY DEF Short, MemoryState
  <2> QED
    BY <1>2, <1>3, <2>1 DEF Result
<1>4. CASE ptr # 0
  <2>1. Fits(m.bitmap, n) # {} /\ ptr = pmm_get_address(s)
    BY <1>4 DEF pmm_find_free
  <2> HIDE DEF n
  <2>2. /\ s \in Page /\ s + n <= PageNumber
        /\ \A i \in s .. s + n - 1 : m.bitmap[i] = "UNUSED"
        /\ \A t \in Fits(m.bitmap, n) : s <= t
    BY <1>1, <2>1, FirstFitFound
  <2> HIDE DEF ptr, s, a
  <2>3. s # 0
    BY <1>4, <2>1, <2>2, AddressOfPage
  <2>4. s >= VideoPage
    <3> SUFFICES ASSUME s < VideoPage PROVE FALSE
      BY <2>2, VideoPlace DEF Page
    <3>1. m.bitmap[s] = "UNUSED" /\ s - 1 \in Page /\ s - 1 < s
      BY <1>1, <2>2, <2>3 DEF Page
    <3>2. m.bitmap[s - 1] = "UNUSED"
      BY <2>2, <3>1 DEF LowIntact
    <3>3. s - 1 \in Fits(m.bitmap, n)
      BY <1>1, <2>2, <3>1, <3>2 DEF Fits, Page
    <3> QED
      BY <2>2, <3>1, <3>3 DEF Page
  <2>5. \A i \in s .. s + n - 1 : i \in Page
    BY <1>1, <2>2 DEF Page
  <2>6. FramesOf(ptr, len) = s .. s + n - 1
    BY <2>1, <2>2, AlignedRange DEF n
  <2>7. pmm_use(m.bitmap, ptr, len, flags) = UsedRun(m.bitmap, s, n, flags)
    BY <2>6 DEF pmm_use, UsedRun
  <2>8. FoundAt(m, a, s, n, flags)
    BY <1>1, <1>2, <1>4, <2>1, <2>2, <2>3, <2>4, <2>5, <2>7 DEF FoundAt, Result
  <2> QED
    BY <2>2, <2>8 DEF a, n
<1> QED
  BY <1>3, <1>4

LEMMA FoundState ==
  ASSUME NEW m \in MemoryState, LowIntact(m), NEW a, NEW s \in Page, NEW n, NEW flags \in Flags,
         FoundAt(m, a, s, n, flags)
  PROVE  /\ a.m \in Quiet(m) /\ a.m.tables = m.tables /\ LowIntact(a.m)
         /\ a.m.short = m.short /\ a.m.page_directory = m.page_directory
         /\ \A f \in Page : a.m.bitmap[f] = IF f \in s .. s + n - 1 THEN flags ELSE m.bitmap[f]
<1> DEFINE b == UsedRun(m.bitmap, s, n, flags)
<1>1. b \in Bitmap /\ \A f \in Page : b[f] = IF f \in s .. s + n - 1 THEN flags ELSE m.bitmap[f]
  BY StateFields DEF UsedRun, Bitmap
<1> HIDE DEF b
<1>2. a.m = [m EXCEPT !.bitmap = b]
  BY DEF FoundAt, b
<1>3. a.m \in Quiet(m)
  BY <1>1, <1>2, Updates
<1>4. a.m.bitmap = b /\ a.m.tables = m.tables /\ a.m.short = m.short
      /\ a.m.page_directory = m.page_directory
  BY <1>2 DEF MemoryState
<1>5. \A f \in Page : f < VideoPage => b[f] = m.bitmap[f]
  BY <1>1, VideoPlace DEF FoundAt, Page
<1>6. LowIntact(a.m)
  <2> SUFFICES ASSUME NEW f \in Page, f < VideoPage
               PROVE  /\ b[f] \in {"RESERVED", "UNUSED"}
                      /\ b[f] = "UNUSED" => \A g \in Page : g < f => b[g] = "UNUSED"
    BY <1>4 DEF LowIntact
  <2>1. \A g \in Page : g < f => g < VideoPage
    BY VideoPlace DEF Page
  <2> QED
    BY <1>5, <2>1 DEF LowIntact
<1> QED
  BY <1>1, <1>3, <1>4, <1>6

(* Frames that hold neither tables nor directories change their use.       *)
Settled(l) == IsTab(l) \/ l \in {Directory, Boot}

LEMMA RawFrames ==
  ASSUME NEW m, NEW own, NEW mp, Raw(m, own, mp), NEW n \in MemoryState, NEW new,
         n.tables = m.tables, n.page_directory = m.page_directory,
         LowIntact(n), Marked(n, new),
         \A f \in Page : new[f] = own[f] \/ (~ Settled(own[f]) /\ ~ Settled(new[f]))
  PROVE  Raw(n, new, mp)
<1>0. m \in MemoryState
  BY DEF Raw
<1>4. \A f \in Page : \A h, t : new[f] = Tab(h, t) <=> own[f] = Tab(h, t)
  BY Labels DEF Settled
<1>5. \A f \in Page : /\ IsDir(new, f) <=> IsDir(own, f)
                      /\ new[f] = Boot <=> own[f] = Boot
  BY DEF IsDir, Settled
<1>6. IsDir(new, n.page_directory)
  BY <1>0, <1>5, StateFields DEF Raw
<1>8. Rows(n, new)
  <2> SUFFICES ASSUME NEW d \in Page, IsDir(own, d), NEW t \in Index
               PROVE  EntryFits(new, d, t, m.tables[d][t])
    BY <1>5 DEF Rows
  <2>1. EntryFits(own, d, t, m.tables[d][t])
    BY DEF Raw, Rows
  <2>2. m.tables[d][t].page \in Page
    BY <1>0, EntryTyped
  <2> QED
    BY <1>4, <2>1, <2>2 DEF EntryFits
<1>9. Referred(n, new)
  <2>1. \A d, t, f : Reference(m, own, d, t, f) => Reference(n, new, d, t, f)
    BY <1>5 DEF Reference
  <2>2. \A h : DirFor(n, h) = DirFor(m, h)
    BY DEF DirFor
  <2> QED
    BY <1>4, <2>1, <2>2 DEF Raw, Referred
<1>10. Shown(n, new, mp)
  BY <1>4 DEF Raw, Shown
<1>11. Covered(new, mp)
  BY <1>4 DEF Raw, Covered
<1> QED
  BY <1>6, <1>8, <1>9, <1>10, <1>11 DEF Raw

(* Frames that were allocated are held.                                    *)
LEMMA RawAlloc ==
  ASSUME NEW m, NEW own, NEW mp, Raw(m, own, mp), NEW a, NEW s \in Page, NEW n,
         NEW flags \in {"KERNEL", "USER"}, FoundAt(m, a, s, n, flags)
  PROVE  /\ Raw(a.m, Mark(own, s .. s + n - 1, Held), mp)
         /\ \A f \in s .. s + n - 1 : f \in Page /\ own[f] = Free
<1> DEFINE F == s .. s + n - 1
           new == Mark(own, F, Held)
<1>0. m \in MemoryState /\ LowIntact(m) /\ flags \in Flags
  BY DEF Raw, Flags
<1>1. /\ a.m \in MemoryState /\ a.m.tables = m.tables /\ LowIntact(a.m)
      /\ a.m.page_directory = m.page_directory
      /\ \A f \in Page : a.m.bitmap[f] = IF f \in F THEN flags ELSE m.bitmap[f]
  <2>1. /\ a.m \in Quiet(m) /\ a.m.tables = m.tables /\ LowIntact(a.m)
        /\ a.m.page_directory = m.page_directory
        /\ \A f \in Page : a.m.bitmap[f] = IF f \in F THEN flags ELSE m.bitmap[f]
    BY <1>0, FoundState
  <2>2. a.m \in MemoryState
    BY <1>0, <2>1, QuietLater
  <2> QED
    BY <2>1, <2>2
<1>2. \A f \in F : f \in Page /\ own[f] = Free
  BY DEF FoundAt, Raw, Marked
<1>3. \A f \in Page : new[f] = IF f \in F THEN Held ELSE own[f]
  BY DEF Mark
<1> HIDE DEF F, new
<1>4. Marked(a.m, new)
  BY <1>1, <1>3, Labels DEF Raw, Marked
<1>5. \A f \in Page : new[f] = own[f] \/ (~ Settled(own[f]) /\ ~ Settled(new[f]))
  BY <1>2, <1>3, Labels DEF Settled
<1>6. Raw(a.m, new, mp)
  BY <1>1, <1>4, <1>5, RawFrames
<1> QED
  BY <1>2, <1>6 DEF new, F

(* A frame that is used for nothing in particular is freed.                *)
LEMMA RawFree ==
  ASSUME NEW m, NEW own, NEW mp, Raw(m, own, mp), NEW ptr, NEW len, len # 0,
         \A f \in FramesOf(ptr, len) \intersect Page : ~ Settled(own[f]) /\ f >= VideoPage
  PROVE  Raw(pmm_free(m, ptr, len), Mark(own, FramesOf(ptr, len), Free), mp)
<1> DEFINE F == FramesOf(ptr, len)
           new == Mark(own, F, Free)
           n == pmm_free(m, ptr, len)
           b == pmm_use(m.bitmap, ptr, len, "UNUSED")
<1>0. m \in MemoryState
  BY DEF Raw
<1>1. n = [m EXCEPT !.bitmap = b]
  BY DEF pmm_free
<1>2. n \in MemoryState
  BY <1>0, FreeTyped, QuietLater
<1>3. n.tables = m.tables /\ n.page_directory = m.page_directory /\ n.bitmap = b
  BY <1>0, <1>1 DEF MemoryState
<1>4. \A f \in Page : b[f] = IF f \in F THEN "UNUSED" ELSE m.bitmap[f]
  BY DEF pmm_use
<1>5. \A f \in Page : new[f] = IF f \in F THEN Free ELSE own[f]
  BY DEF Mark
<1> HIDE DEF F, new, n, b
<1>6. \A f \in Page : f < VideoPage => f \notin F
  BY VideoPlace DEF Page, F
<1>7. LowIntact(n)
  <2> SUFFICES ASSUME NEW f \in Page, f < VideoPage
               PROVE  /\ b[f] \in {"RESERVED", "UNUSED"}
                      /\ b[f] = "UNUSED" => \A g \in Page : g < f => b[g] = "UNUSED"
    BY <1>3 DEF LowIntact
  <2>1. \A g \in Page : g < f => g < VideoPage
    BY VideoPlace DEF Page
  <2> QED
    BY <1>4, <1>6, <2>1 DEF LowIntact, Raw
<1>8. Marked(n, new)
  BY <1>3, <1>4, <1>5, Labels DEF Raw, Marked
<1>9. \A f \in Page : new[f] = own[f] \/ (~ Settled(own[f]) /\ ~ Settled(new[f]))
  BY <1>5, Labels DEF Settled, F
<1>10. Raw(n, new, mp)
  BY <1>2, <1>3, <1>7, <1>8, <1>9, RawFrames
<1> QED
  BY <1>10 DEF n, new, F

(* The beginning of the low memory is freed, which nothing uses.           *)
LEMMA RawFreeLow ==
  ASSUME NEW m, NEW own, NEW mp, Raw(m, own, mp), NEW ptr \in Nat, NEW len \in Nat \ {0},
         ptr < PageSize, ptr + len <= Video
  PROVE  Raw(pmm_free(m, ptr, len), own, mp)
<1> DEFINE k == pmm_get_page(ptr, len - 1)
           n == pmm_free(m, ptr, len)
           b == pmm_use(m.bitmap, ptr, len, "UNUSED")
<1>0. m \in MemoryState
  BY DEF Raw
<1>1. n = [m EXCEPT !.bitmap = b]
  BY DEF pmm_free
<1>2. n \in MemoryState
  BY <1>0, FreeTyped, QuietLater
<1>3. n.tables = m.tables /\ n.page_directory = m.page_directory /\ n.bitmap = b
  BY <1>0, <1>1 DEF MemoryState
<1>4. FramesOf(ptr, len) = 0 .. k /\ k \in Page /\ k < VideoPage
  BY LowRange
<1>5. \A f \in Page : b[f] = IF f <= k THEN "UNUSED" ELSE m.bitmap[f]
  BY <1>4 DEF pmm_use, Page
<1> HIDE DEF n, b, k
<1>6. LowIntact(n)
  <2> SUFFICES ASSUME NEW f \in Page, f < VideoPage
               PROVE  /\ b[f] \in {"RESERVED", "UNUSED"}
                      /\ b[f] = "UNUSED" => \A g \in Page : g < f => b[g] = "UNUSED"
    BY <1>3 DEF LowIntact
  <2>1. \A g \in Page : g < f => g < VideoPage
    BY VideoPlace DEF Page
  <2>2. LowIntact(m)
    BY DEF Raw
  <2>3. \A g \in Page : g < f /\ f <= k => g <= k
    BY <1>4 DEF Page
  <2> QED
    BY <1>4, <1>5, <2>1, <2>2, <2>3 DEF LowIntact
<1>7. Marked(n, own)
  <2> SUFFICES ASSUME NEW f \in Page PROVE own[f] # Free <=> b[f] \in {"KERNEL", "USER"}
    BY <1>3 DEF Raw, Marked
  <2>1. own[f] # Free <=> m.bitmap[f] \in {"KERNEL", "USER"}
    BY DEF Raw, Marked
  <2>2. CASE f <= k
    <3>1. f < VideoPage
      BY <1>4, <2>2, VideoPlace DEF Page
    <3>2. m.bitmap[f] \in {"RESERVED", "UNUSED"}
      BY <3>1 DEF Raw, LowIntact
    <3> QED
      BY <1>5, <2>1, <2>2, <3>2
  <2>3. CASE ~ (f <= k)
    BY <1>5, <2>1, <2>3
  <2> QED
    BY <2>2, <2>3
<1>8. Raw(n, own, mp)
  BY <1>2, <1>3, <1>6, <1>7, RawFrames
<1> QED
  BY <1>8 DEF n

LEMMA Indices ==
  /\ 0 \in Index /\ LastEntry \in Index /\ 0 # LastEntry
  /\ KernelTables \subseteq Index /\ UserTables \subseteq Index
  /\ 0 \notin KernelTables \union UserTables /\ LastEntry \notin KernelTables \union UserTables
  /\ \A t \in Index : t \in KernelTables \union UserTables \union {0, LastEntry}
  /\ \A t : ~ (t \in KernelTables /\ t \in UserTables)
BY Domains, Entries DEF LastEntry

(* What an entry of a directory refers to.                                 *)
LEMMA RawEntry ==
  ASSUME NEW m, NEW own, NEW mp, Raw(m, own, mp), NEW d \in Page, IsDir(own, d),
         NEW t \in Index, t # LastEntry, m.tables[d][t].pr
  PROVE  /\ m.tables[d][t].page \in Page
         /\ own[m.tables[d][t].page] = Tab(HomeOf(d, t), t)
         /\ HomeOf(d, t) \in Home
         /\ \A i \in Index : EntryShows(m.tables[m.tables[d][t].page][i],
                                        mp[HomeOf(d, t)][PageAt(t, i)])
<1>1. m.tables[d][t].page \in Page
  BY EntryTyped DEF Raw
<1>2. EntryFits(own, d, t, m.tables[d][t])
  BY DEF Raw, Rows
<1>3. ~ Absent.pr
  BY DEF Absent
<1>4. own[m.tables[d][t].page] = Tab(HomeOf(d, t), t)
  BY <1>2, <1>3 DEF EntryFits
<1>5. HomeOf(d, t) \in Home
  BY DEF HomeOf, Home, Kernel, Page
<1> QED
  BY <1>1, <1>4, <1>5 DEF Raw, Shown

(* There is one table at each place.                                       *)
LEMMA RawTable ==
  ASSUME NEW m, NEW own, NEW mp, Raw(m, own, mp), NEW f \in Page, NEW t \in Index,
         NEW d \in Page, d = m.page_directory \/ t \notin KernelTables,
         own[f] = Tab(HomeOf(d, t), t)
  PROVE  /\ IsDir(own, d) /\ t # LastEntry
         /\ m.tables[d][t].pr /\ m.tables[d][t].page = f
         /\ own[d] = Boot => t \in KernelTables \union {0}
<1>1. HomeOf(d, t) \in Home /\ DirFor(m, HomeOf(d, t)) = d
  BY DEF HomeOf, Home, Kernel, Page, DirFor
<1>2. Reference(m, own, d, t, f)
  BY <1>1 DEF Raw, Referred
<1> QED
  BY <1>2 DEF Reference

(* How the processor finds a page in the current directory.                *)
LEMMA RawMapped ==
  ASSUME NEW m, NEW own, NEW mp, Raw(m, own, mp), NEW p \in Page, T(p) # LastEntry
  PROVE  LET a == pmm_get_address(p)
             h == HomeOf(m.page_directory, T(p))
         IN  /\ Mapped(m, a) <=> mp[h][p] # Hole
             /\ Mapped(m, a) => FrameAt(m, a) = mp[h][p] /\ Dir(m)[T(p)].pr
<1> DEFINE a == pmm_get_address(p)
           d == m.page_directory
           t == T(p)
           h == HomeOf(d, t)
<1>1. d \in Page /\ IsDir(own, d)
  BY StateFields DEF Raw
<1>2. t \in Index /\ I(p) \in Index /\ PageAt(t, I(p)) = p /\ h \in Home
  BY <1>1, PlaceOfPage DEF HomeOf, Home, Kernel, Page
<1>3. TableOf(a) = t /\ PageIndexOf(a) = I(p)
  BY AddressOfPage
<1>4. CASE m.tables[d][t].pr
  <2>1. EntryShows(m.tables[m.tables[d][t].page][I(p)], mp[h][p])
    BY <1>1, <1>2, <1>4, RawEntry
  <2> QED
    BY <1>3, <1>4, <2>1 DEF EntryShows, Mapped, FrameAt, Dir
<1>5. CASE ~ m.tables[d][t].pr
  <2>1. mp[h][p] = Hole
    <3> SUFFICES ASSUME mp[h][p] # Hole PROVE FALSE
      OBVIOUS
    <3>1. PICK f \in Page : own[f] = Tab(h, t)
      BY <1>2 DEF Raw, Covered
    <3> QED
      BY <1>1, <1>2, <1>5, <3>1, RawTable
  <2> QED
    BY <1>3, <1>5, <2>1 DEF Mapped, Dir
<1> QED
  BY <1>4, <1>5

(* A table is added to the current directory.                              *)
LEMMA RawWithTable ==
  ASSUME NEW m, NEW own, NEW mp, Raw(m, own, mp), NEW t \in Index, t # LastEntry,
         own[m.page_directory] = Boot => t \in KernelTables \union {0}
  PROVE  LET n == WithTable(m, t)
         IN  \/ n.short
             \/ \E new : /\ Raw(n, new, mp) /\ Dir(n)[t].pr
                         /\ \A f \in Page : new[f] = own[f] \/ (own[f] = Free /\ IsTab(new[f]))
<1> DEFINE cur == m.page_directory
           h == HomeOf(cur, t)
           a == pmm_alloc(m, PageSize, "KERNEL")
           n == AddTable(a, t)
<1>0. m \in MemoryState /\ LowIntact(m) /\ cur \in Page /\ IsDir(own, cur) /\ "KERNEL" \in Flags
  BY StateFields DEF Raw, Flags
<1>1. CASE Dir(m)[t].pr
  BY <1>1 DEF WithTable
<1>2. CASE ~ Dir(m)[t].pr
  <2>0. WithTable(m, t) = n /\ ~ m.tables[cur][t].pr
    BY <1>2 DEF WithTable, Dir
  <2>1. n.short = a.m.short
    <3>1. a.m \in MemoryState
      BY <1>0, AllocTyped, QuietLater
    <3> QED
      BY <3>1 DEF AddTable, MemoryState
  <2>2. CASE a.ptr = 0 /\ a.m.short
    BY <2>0, <2>1, <2>2
  <2>3. ASSUME NEW f \in Page, FoundAt(m, a, f, PagesFor(PageSize), "KERNEL")
        PROVE  \E new : /\ Raw(n, new, mp) /\ Dir(n)[t].pr
                        /\ \A g \in Page : new[g] = own[g] \/ (own[g] = Free /\ IsTab(new[g]))
    <3> DEFINE e == [pr |-> TRUE, user |-> TRUE, page |-> f]
               new == Mark(own, {f}, Tab(h, t))
    <3> HIDE DEF a
    <3>1. PagesFor(PageSize) = 1
      BY DEF PagesFor
    <3>2. f .. f + 1 - 1 = {f}
      BY DEF Page
    <3>3. /\ a.m \in MemoryState /\ a.m.tables = m.tables /\ LowIntact(a.m)
          /\ a.m.page_directory = cur
          /\ \A g \in Page : a.m.bitmap[g] = IF g = f THEN "KERNEL" ELSE m.bitmap[g]
      <4>1. FoundAt(m, a, f, 1, "KERNEL")
        BY <2>3, <3>1
      <4>2. a.m \in Quiet(m) /\ a.m.tables = m.tables /\ LowIntact(a.m)
            /\ a.m.page_directory = cur
            /\ \A g \in Page : a.m.bitmap[g] = IF g \in f .. f + 1 - 1 THEN "KERNEL" ELSE m.bitmap[g]
        BY <1>0, <4>1, FoundState
      <4> QED
        BY <1>0, <3>2, <4>2, QuietLater
    <3>4. own[f] = Free
      BY <2>3, <3>1, <3>2 DEF FoundAt, Raw, Marked
    <3>5. pmm_get_page(a.ptr, 0) = f
      BY <2>3, AddressOfPage DEF FoundAt
    <3> DEFINE s == [m.tables EXCEPT ![cur][t] = e, ![f] = EmptyTable]
    <3>6. n = [a.m EXCEPT !.tables = s]
      BY <3>3, <3>5 DEF AddTable
    <3>7. e \in Entry /\ s \in TableRows
      BY <1>0, AbsentTyped, StateFields DEF TableRows, Entry
    <3>8. f # cur
      BY <1>0, <3>4, Labels DEF IsDir
    <3>9. /\ s[f] = EmptyTable
          /\ \A g \in Page : g # f /\ g # cur => s[g] = m.tables[g]
          /\ s[cur][t] = e
          /\ \A u \in Index : u # t => s[cur][u] = m.tables[cur][u]
      BY <1>0, <3>8, StateFields DEF TableRows
    <3>10. e.pr /\ e.user /\ e.page = f
      OBVIOUS
    <3>11. /\ n \in MemoryState /\ n.tables = s /\ n.bitmap = a.m.bitmap
           /\ n.page_directory = cur
      <4> HIDE DEF s, n, e
      <4>1. n \in MemoryState
        BY <3>3, <3>6, <3>7, Updates, QuietLater
      <4> QED
        BY <3>3, <3>6, <4>1 DEF MemoryState
    <3> HIDE DEF e, s, n
    <3>12. \A g \in Page : new[g] = IF g = f THEN Tab(h, t) ELSE own[g]
      BY DEF Mark
    <3> HIDE DEF new
    <3>13. h \in Home /\ (h = Kernel => t \in KernelTables) /\ DirFor(m, h) = cur /\ HomeOf(cur, t) = h
      BY <1>0 DEF HomeOf, Home, Kernel, Page, DirFor
    <3> HIDE DEF h
    <3>14. \A g \in Page : /\ IsDir(new, g) <=> IsDir(own, g)
                           /\ new[g] = Boot <=> own[g] = Boot
      BY <3>4, <3>12, Labels DEF IsDir
    <3>14a. \A g \in Page : new[g] # Free <=> n.bitmap[g] \in {"KERNEL", "USER"}
      BY <3>3, <3>11, <3>12, Labels DEF Raw, Marked
    <3>14b. \A g \in Page : IsTab(new[g]) => \E k \in Home, u \in Index : new[g] = Tab(k, u)
      BY <3>12, <3>13 DEF Raw, Marked
    <3>15. Marked(n, new)
      BY <3>14a, <3>14b DEF Marked
    <3>16. LowIntact(n)
      BY <3>3, <3>11 DEF LowIntact
    <3>17. Rows(n, new)
      <4> SUFFICES ASSUME NEW d \in Page, IsDir(own, d), NEW u \in Index
                   PROVE  EntryFits(new, d, u, s[d][u])
        BY <3>11, <3>14 DEF Rows
      <4>1. CASE d = cur /\ u = t
        BY <4>1, <3>9, <3>10, <3>12, <3>13 DEF EntryFits
      <4>2. CASE ~ (d = cur /\ u = t)
        <5>1. d # f
          BY <3>4, Labels DEF IsDir
        <5>2. s[d][u] = m.tables[d][u]
          BY <4>2, <3>9, <5>1
        <5>3. EntryFits(own, d, u, m.tables[d][u])
          BY DEF Raw, Rows
        <5>4. m.tables[d][u].page \in Page
          BY <1>0, EntryTyped
        <5> QED
          BY <3>4, <3>12, <5>2, <5>3, <5>4, Labels DEF EntryFits
      <4> QED
        BY <4>1, <4>2
    <3>18. Referred(n, new)
      <4> SUFFICES ASSUME NEW g \in Page, NEW k \in Home, NEW u \in Index, new[g] = Tab(k, u)
                   PROVE  Reference(n, new, DirFor(m, k), u, g) /\ HomeOf(DirFor(m, k), u) = k
        BY <3>11 DEF Referred, DirFor
      <4>1. CASE g = f
        <5>1. k = h /\ u = t
          BY <3>12, <4>1, Labels
        <5> QED
          BY <1>0, <3>9, <3>10, <3>11, <3>13, <3>14, <4>1, <5>1 DEF Reference
      <4>2. CASE g # f
        <5>1. own[g] = Tab(k, u)
          BY <3>12, <4>2
        <5>2. Reference(m, own, DirFor(m, k), u, g) /\ HomeOf(DirFor(m, k), u) = k
          BY <5>1 DEF Raw, Referred
        <5> DEFINE d == DirFor(m, k)
        <5>3. d \in Page /\ IsDir(own, d) /\ m.tables[d][u].pr
          BY <5>2 DEF Reference
        <5> HIDE DEF d
        <5>4. ~ (d = cur /\ u = t) /\ d # f
          BY <2>0, <3>4, <5>3, Labels DEF IsDir
        <5>5. s[d][u] = m.tables[d][u]
          BY <3>9, <5>3, <5>4
        <5> QED
          BY <3>11, <3>14, <5>2, <5>3, <5>5 DEF Reference, d
      <4> QED
        BY <4>1, <4>2
    <3>19. Shown(n, new, mp)
      <4> SUFFICES ASSUME NEW g \in Page, NEW k \in Home, NEW u \in Index, new[g] = Tab(k, u),
                          NEW i \in Index
                   PROVE  EntryShows(s[g][i], mp[k][PageAt(u, i)])
        BY <3>11 DEF Shown
      <4>1. CASE g = f
        <5>1. k = h /\ u = t
          BY <3>12, <4>1, Labels
        <5>2. mp[k][PageAt(u, i)] = Hole
          <6> SUFFICES ASSUME mp[k][PageAt(u, i)] # Hole PROVE FALSE
            OBVIOUS
          <6>1. PageAt(u, i) \in Page /\ T(PageAt(u, i)) = u
            BY PageOfPlace
          <6>2. PICK j \in Page : own[j] = Tab(h, t)
            BY <5>1, <6>1 DEF Raw, Covered
          <6> QED
            BY <1>0, <2>0, <3>13, <6>2, RawTable
        <5>3. ~ s[g][i].pr
          BY <3>9, <4>1 DEF EmptyTable, Absent
        <5> QED
          BY <5>2, <5>3 DEF EntryShows
      <4>2. CASE g # f
        <5>1. own[g] = Tab(k, u)
          BY <3>12, <4>2
        <5>2. g # cur
          BY <1>0, <5>1, Labels DEF IsDir
        <5> QED
          BY <3>9, <4>2, <5>1, <5>2 DEF Raw, Shown
      <4> QED
        BY <4>1, <4>2
    <3>20. Covered(new, mp)
      <4>1. \A g \in Page : \A k, u : own[g] = Tab(k, u) => new[g] = Tab(k, u)
        BY <3>4, <3>12, Labels
      <4> QED
        BY <4>1 DEF Raw, Covered
    <3>21. IsDir(new, n.page_directory)
      BY <1>0, <3>11, <3>14
    <3>22. Raw(n, new, mp)
      BY <3>11, <3>15, <3>16, <3>17, <3>18, <3>19, <3>20, <3>21 DEF Raw
    <3>23. Dir(n)[t].pr
      BY <3>9, <3>10, <3>11 DEF Dir
    <3>24. \A g \in Page : new[g] = own[g] \/ (own[g] = Free /\ IsTab(new[g]))
      BY <3>4, <3>12, Labels
    <3> QED
      BY <3>22, <3>23, <3>24
  <2>4. PageSize \in Nat \ {0}
    OBVIOUS
  <2> HIDE DEF a, n
  <2> QED
    BY <1>0, <2>0, <2>2, <2>3, <2>4, AllocFound DEF a
<1> QED
  BY <1>1, <1>2

LEMMA PutAt ==
  ASSUME NEW mp, NEW h, NEW p, NEW x, NEW g \in Home, NEW q \in Page
  PROVE  Put(mp, h, p, x)[g][q] = IF g = h /\ q = p THEN x ELSE mp[g][q]
BY DEF Put

(* An entry of a table of the current directory is written.                *)
LEMMA RawSetEntry ==
  ASSUME NEW m, NEW own, NEW mp, Raw(m, own, mp), NEW p \in Page, T(p) # LastEntry,
         Dir(m)[T(p)].pr, NEW e \in Entry, NEW x \in Page \union {Hole}, EntryShows(e, x),
         T(p) # 0 => x # 0
  PROVE  Raw(SetEntry(m, pmm_get_address(p), e), own,
             Put(mp, HomeOf(m.page_directory, T(p)), p, x))
<1> DEFINE cur == m.page_directory
           t == T(p)
           h == HomeOf(cur, t)
           f == m.tables[cur][t].page
           n == SetEntry(m, pmm_get_address(p), e)
           s == [m.tables EXCEPT ![f][I(p)] = e]
           new == Put(mp, h, p, x)
<1>0. m \in MemoryState /\ cur \in Page /\ IsDir(own, cur) /\ p \in Nat
  BY StateFields DEF Raw, Page
<1>1. t \in Index /\ I(p) \in Index /\ PageAt(t, I(p)) = p
  BY PlaceOfPage
<1>2. f \in Page /\ own[f] = Tab(h, t) /\ h \in Home
  <2>1. m.tables[cur][t].pr
    BY DEF Dir
  <2> HIDE DEF n, s, new
  <2>2. t \in Index /\ t # LastEntry /\ cur \in Page /\ IsDir(own, cur)
    BY <1>0, <1>1
  <2> HIDE DEF t, cur
  <2>3. /\ m.tables[cur][t].page \in Page
        /\ own[m.tables[cur][t].page] = Tab(HomeOf(cur, t), t)
        /\ HomeOf(cur, t) \in Home
    BY <2>1, <2>2, RawEntry
  <2> QED
    BY <2>3
<1>3. pmm_get_address(p) \in Nat /\ TableOf(pmm_get_address(p)) = t
      /\ PageIndexOf(pmm_get_address(p)) = I(p)
  BY AddressOfPage
<1>4. n \in MemoryState
  BY <1>3, SetEntryTyped, QuietLater, <1>0
<1>5. n = [m EXCEPT !.tables[f][I(p)] = e]
  BY <1>3 DEF SetEntry, Dir
<1>6. n.tables = s /\ n.bitmap = m.bitmap /\ n.page_directory = cur
  BY <1>0, <1>5 DEF MemoryState
<1>7. /\ s[f][I(p)] = e
      /\ \A i \in Index : i # I(p) => s[f][i] = m.tables[f][i]
      /\ \A g \in Page : g # f => s[g] = m.tables[g]
  BY <1>0, <1>1, <1>2, StateFields DEF TableRows
<1>8. \A g \in Home, q \in Page : new[g][q] = IF g = h /\ q = p THEN x ELSE mp[g][q]
  BY PutAt
<1>9. \A g \in Page : own[g] = Tab(h, t) => g = f
  <2> SUFFICES ASSUME NEW g \in Page, own[g] = Tab(h, t) PROVE g = f
    OBVIOUS
  <2> HIDE DEF cur
  <2>0. cur = m.page_directory /\ own[g] = Tab(HomeOf(cur, t), t) /\ t # LastEntry
    BY DEF cur, h, t
  <2>3. g \in Page /\ t \in Index /\ cur \in Page /\ (cur = m.page_directory \/ t \notin KernelTables)
        /\ own[g] = Tab(HomeOf(cur, t), t)
    BY <1>0, <1>1, <2>0
  <2>1. m.tables[cur][t].page = g
    <3>1. \A ff \in Page, tt \in Index, dd \in Page :
            (dd = m.page_directory \/ tt \notin KernelTables) /\ own[ff] = Tab(HomeOf(dd, tt), tt)
            => m.tables[dd][tt].page = ff
      BY RawTable
    <3> QED
      BY <2>3, <3>1
  <2> QED
    BY <2>1 DEF f
<1>10. \A g \in Page : IsDir(own, g) => g # f
  BY <1>2, Labels DEF IsDir
<1> HIDE DEF n, s, new, f, h, t
<1>11. Rows(n, own)
  BY <1>6, <1>7, <1>10 DEF Raw, Rows
<1>12. Referred(n, own)
  <2> SUFFICES ASSUME NEW g \in Page, NEW k \in Home, NEW u \in Index, own[g] = Tab(k, u)
               PROVE  Reference(n, own, DirFor(m, k), u, g) /\ HomeOf(DirFor(m, k), u) = k
    BY <1>6 DEF Referred, DirFor
  <2>1. Reference(m, own, DirFor(m, k), u, g) /\ HomeOf(DirFor(m, k), u) = k
    BY DEF Raw, Referred
  <2> QED
    BY <1>6, <1>7, <1>10, <2>1 DEF Reference
<1>13. Shown(n, own, new)
  <2> SUFFICES ASSUME NEW g \in Page, NEW k \in Home, NEW u \in Index, own[g] = Tab(k, u),
                      NEW i \in Index
               PROVE  EntryShows(s[g][i], new[k][PageAt(u, i)])
    BY <1>6 DEF Shown
  <2>1. EntryShows(m.tables[g][i], mp[k][PageAt(u, i)])
    BY DEF Raw, Shown
  <2>2. PageAt(u, i) \in Page /\ T(PageAt(u, i)) = u /\ I(PageAt(u, i)) = i
    BY PageOfPlace
  <2>3. CASE g = f /\ i = I(p)
    <3>1. k = h /\ u = t
      BY <1>2, <2>3, Labels
    <3>2. new[k][PageAt(u, i)] = x
      BY <1>1, <1>2, <1>8, <2>3, <3>1
    <3> QED
      BY <1>7, <2>3, <3>2
  <2>4. CASE ~ (g = f /\ i = I(p))
    <3>1. s[g][i] = m.tables[g][i]
      BY <1>7, <2>4
    <3>2. ~ (k = h /\ PageAt(u, i) = p)
      BY <1>9, <2>2, <2>4 DEF t
    <3>3. new[k][PageAt(u, i)] = mp[k][PageAt(u, i)]
      BY <1>8, <2>2, <3>2
    <3> QED
      BY <2>1, <3>1, <3>3
  <2> QED
    BY <2>3, <2>4
<1>14. Covered(own, new)
  <2> SUFFICES ASSUME NEW k \in Home, NEW q \in Page, new[k][q] # Hole
               PROVE  \E g \in Page : own[g] = Tab(k, T(q))
    BY DEF Covered
  <2>1. CASE k = h /\ q = p
    BY <1>2, <2>1 DEF t
  <2>2. CASE ~ (k = h /\ q = p)
    BY <1>8, <2>2 DEF Raw, Covered
  <2> QED
    BY <2>1, <2>2
<1>15. MapTypes(new)
  BY <1>8 DEF Raw, MapTypes, t
<1>16. Raw(n, own, new)
  BY <1>0, <1>4, <1>6, <1>11, <1>12, <1>13, <1>14, <1>15 DEF Raw, Marked, LowIntact
<1> QED
  BY <1>16 DEF n, new, h, t

-----------------------------------------------------------------------------
(* The state of the memory: what frames are used for, tables aside, and    *)
(* what is mapped where.                                                   *)
Con(m, use, mp) ==
  \E own : Raw(m, own, mp) /\ \A f \in Page : use[f] = Plain(own[f])

LEMMA ConTyped ==
  ASSUME NEW m, NEW use, NEW mp, Con(m, use, mp)
  PROVE  m \in MemoryState /\ m.page_directory \in Page
         /\ use[m.page_directory] \in {Directory, Boot}
<1> PICK own : Raw(m, own, mp) /\ \A f \in Page : use[f] = Plain(own[f])
  BY DEF Con
<1>1. m \in MemoryState /\ IsDir(own, m.page_directory)
  BY DEF Raw
<1> QED
  BY <1>1, StateFields, Labels DEF IsDir

LEMMA PlainLabels ==
  ASSUME NEW l
  PROVE  /\ \A k \in {Held, Fixed, Directory, Boot} : Plain(l) = k <=> l = k
         /\ \A h, p : Plain(l) = Pag(h, p) <=> l = Pag(h, p)
         /\ Plain(l) = Free <=> (l = Free \/ IsTab(l))
BY Labels DEF Plain

LEMMA ConMapped ==
  ASSUME NEW m, NEW use, NEW mp, Con(m, use, mp), NEW p \in Page, T(p) # LastEntry
  PROVE  LET a == pmm_get_address(p)
             h == HomeOf(m.page_directory, T(p))
         IN  /\ Mapped(m, a) <=> mp[h][p] # Hole
             /\ Mapped(m, a) => FrameAt(m, a) = mp[h][p] /\ Dir(m)[T(p)].pr
BY RawMapped DEF Con

(* A page that is not mapped is mapped.                                    *)
LEMMA ConMap ==
  ASSUME NEW m, NEW use, NEW mp, Con(m, use, mp), NEW p \in Page, T(p) # LastEntry,
         NEW f \in Page, T(p) # 0 => f # 0, NEW flags,
         use[m.page_directory] = Boot => T(p) \in KernelTables \union {0},
         m.domain_check_enabled => p \in DomainPages(flags),
         mp[HomeOf(m.page_directory, T(p))][p] = Hole
  PROVE  LET n == vmm_map(m, pmm_get_address(p), pmm_get_address(f), flags)
         IN  n.short \/ Con(n, use, Put(mp, HomeOf(m.page_directory, T(p)), p, f))
<1> DEFINE a == pmm_get_address(p)
           cur == m.page_directory
           h == HomeOf(cur, T(p))
           w == WithTable(m, T(p))
           e == [pr |-> TRUE, user |-> flags = "USER", page |-> f]
           n == vmm_map(m, a, pmm_get_address(f), flags)
<1> PICK own : Raw(m, own, mp) /\ \A g \in Page : use[g] = Plain(own[g])
  BY DEF Con
<1>0. m \in MemoryState /\ cur \in Page /\ T(p) \in Index /\ e \in Entry
  BY StateFields, PlaceOfPage DEF Raw, Entry
<1>1. n = Enter(w, a, e)
  BY AddressOfPage DEF vmm_map, vmm_domain_check
<1>2. w \in Quiet(m) /\ w \in MemoryState /\ w.page_directory = cur
  BY <1>0, WithTableTyped, QuietLater DEF Quiet
<1>3. own[cur] = Boot => T(p) \in KernelTables \union {0}
  BY <1>0, PlainLabels
<1>4. CASE w.short
  <2>1. Enter(w, a, e) \in Quiet(w)
    BY <1>0, <1>2, AddressOfPage, SetEntryTyped
  <2> QED
    BY <1>1, <1>4, <2>1 DEF Quiet, Later
<1>5. ASSUME NEW new, Raw(w, new, mp), Dir(w)[T(p)].pr,
             \A g \in Page : new[g] = own[g] \/ (own[g] = Free /\ IsTab(new[g]))
      PROVE  Con(n, use, Put(mp, h, p, f))
  <2> HIDE DEF w, e, a
  <2>1. ~ Mapped(w, a)
    BY <1>2, <1>5, RawMapped DEF a
  <2>2. n = SetEntry(w, a, e)
    BY <1>1, <2>1 DEF Enter
  <2>3. EntryShows(e, f)
    BY DEF EntryShows, e, Hole, Page
  <2>4. Raw(n, new, Put(mp, h, p, f))
    BY <1>0, <1>2, <1>5, <2>2, <2>3, RawSetEntry DEF a
  <2>5. \A g \in Page : use[g] = Plain(new[g])
    BY <1>5, Labels DEF Plain
  <2> QED
    BY <2>4, <2>5 DEF Con
<1> HIDE DEF w, n
<1>6. w.short \/ \E new : /\ Raw(w, new, mp) /\ Dir(w)[T(p)].pr
                          /\ \A g \in Page : new[g] = own[g] \/ (own[g] = Free /\ IsTab(new[g]))
  BY <1>0, <1>3, RawWithTable DEF w
<1> QED
  BY <1>4, <1>5, <1>6 DEF n

(* A page is unmapped, if it is mapped, and its table is kept.             *)
Anchored(mp, h, t) ==
  mp[h][PageAt(t, LastEntry)] # Hole =>
    \E i \in Index : i # LastEntry /\ mp[h][PageAt(t, i)] # Hole

\* The directories hold the same.
SameRows(m, use, n) ==
  \A d \in Page : use[d] \in {Directory, Boot} => n.tables[d] = m.tables[d]

LEMMA ConUnmap ==
  ASSUME NEW m, NEW use, NEW mp, Con(m, use, mp), NEW p \in Page, T(p) # LastEntry,
         LET h == HomeOf(m.page_directory, T(p)) IN Anchored(Put(mp, h, p, Hole), h, T(p))
  PROVE  /\ Con(vmm_unmap(m, pmm_get_address(p)), use,
                Put(mp, HomeOf(m.page_directory, T(p)), p, Hole))
         /\ SameRows(m, use, vmm_unmap(m, pmm_get_address(p)))
<1> DEFINE a == pmm_get_address(p)
           cur == m.page_directory
           h == HomeOf(cur, T(p))
           new == Put(mp, h, p, Hole)
           n == SetEntry(m, a, Absent)
<1> PICK own : Raw(m, own, mp) /\ \A g \in Page : use[g] = Plain(own[g])
  BY DEF Con
<1>0. m \in MemoryState /\ cur \in Page /\ T(p) \in Index /\ h \in Home
  BY StateFields, PlaceOfPage DEF Raw, HomeOf, Home, Page, Kernel
<1>1. CASE ~ Mapped(m, a)
  <2>1. mp[h][p] = Hole
    BY <1>1, RawMapped
  <2>2. \A g \in Home, q \in Page : new[g][q] = mp[g][q]
    BY <2>1, PutAt
  <2> HIDE DEF new
  <2>3. Raw(m, own, new)
    <3>1. Shown(m, own, new)
      <4>1. \A t, i \in Index : PageAt(t, i) \in Page
        BY PageOfPlace
      <4> QED
        BY <2>2, <4>1 DEF Raw, Shown
    <3>2. Covered(own, new) /\ MapTypes(new)
      BY <2>2 DEF Raw, Covered, MapTypes
    <3> QED
      BY <3>1, <3>2 DEF Raw
  <2> QED
    BY <1>1, <2>3 DEF vmm_unmap, Con, new, SameRows
<1>2. CASE Mapped(m, a)
  <2>1. Dir(m)[T(p)].pr
    BY <1>2, RawMapped
  <2>2. EntryShows(Absent, Hole)
    BY DEF EntryShows, Absent
  <2>3. Raw(n, own, new)
    <3>1. Hole # 0
      BY DEF Hole
    <3> QED
      BY <2>1, <2>2, <3>1, AbsentTyped, RawSetEntry
  <2>4. n.page_directory = cur
    BY <1>0 DEF SetEntry, MemoryState
  <2>5. Present(n, T(p)) # {ENTRIES - 1}
    <3> DEFINE t == T(p)
               f == n.tables[cur][t].page
    <3>1. n.tables[cur][t].pr
      <4>1. m.tables[cur][t].page \in Page /\ own[m.tables[cur][t].page] = Tab(h, t)
        BY <1>0, <2>1, RawEntry DEF Raw, Dir
      <4> HIDE DEF n
      <4>2. \E g \in Page : own[g] = Tab(h, t)
        BY <4>1
      <4> QED
        BY <1>0, <2>3, <2>4, <4>2, RawTable
    <3>2. IsDir(own, cur)
      BY DEF Raw
    <3> HIDE DEF n, new
    <3>3. \A i \in Index : EntryShows(n.tables[f][i], new[h][PageAt(t, i)])
      BY <1>0, <2>3, <3>1, <3>2, RawEntry
    <3>4. Present(n, t) = {i \in Index : n.tables[f][i].pr}
      BY <2>4 DEF Present, Dir
    <3> HIDE DEF f, t
    <3>5. \A i \in Index : i \in Present(n, t) <=> new[h][PageAt(t, i)] # Hole
      BY <3>3, <3>4 DEF EntryShows
    <3>6. Anchored(new, h, t)
      BY DEF new, t
    <3> QED
      BY <3>5, <3>6, Indices DEF Anchored, LastEntry, t
  <2>6. TableOf(a) = T(p)
    BY AddressOfPage
  <2>7. vmm_unmap(m, a) = n
    BY <1>2, <2>5, <2>6 DEF vmm_unmap
  <2>8. SameRows(m, use, n)
    <3> SUFFICES ASSUME NEW d \in Page, use[d] \in {Directory, Boot} PROVE n.tables[d] = m.tables[d]
      BY DEF SameRows
    <3> DEFINE f == m.tables[cur][T(p)].page
    <3>1. f \in Page /\ own[f] = Tab(h, T(p))
      BY <1>0, <2>1, RawEntry DEF Raw, Dir
    <3>2. own[d] \in {Directory, Boot}
      BY PlainLabels
    <3>3. d # f
      BY <3>1, <3>2, Labels
    <3>4. n.tables = [m.tables EXCEPT ![f][I(p)] = Absent]
      BY <1>0, AddressOfPage DEF SetEntry, MemoryState, Dir
    <3> QED
      BY <1>0, <3>3, <3>4, StateFields DEF TableRows
  <2> QED
    BY <2>3, <2>7, <2>8 DEF Con
<1> QED
  BY <1>1, <1>2

PutRun(mp, h, p, f, n) ==
  [g \in Home |-> [q \in Page |-> IF g = h /\ q \in p .. p + n - 1 THEN f + (q - p) ELSE mp[g][q]]]
HoleRun(mp, h, p, n) ==
  [g \in Home |-> [q \in Page |-> IF g = h /\ q \in p .. p + n - 1 THEN Hole ELSE mp[g][q]]]

LEMMA RunAt ==
  ASSUME NEW mp, NEW h, NEW p, NEW f, NEW n, NEW g \in Home, NEW q \in Page
  PROVE  PutRun(mp, h, p, f, n)[g][q]
         = IF g = h /\ q \in p .. p + n - 1 THEN f + (q - p) ELSE mp[g][q]
BY DEF PutRun

LEMMA HoleAt ==
  ASSUME NEW mp, NEW h, NEW p, NEW n, NEW g \in Home, NEW q \in Page
  PROVE  HoleRun(mp, h, p, n)[g][q] = IF g = h /\ q \in p .. p + n - 1 THEN Hole ELSE mp[g][q]
BY DEF HoleRun

(* Only what is mapped matters.                                            *)
LEMMA ConEqual ==
  ASSUME NEW m, NEW use, NEW mp, Con(m, use, mp), NEW new,
         \A g \in Home, q \in Page : new[g][q] = mp[g][q]
  PROVE  Con(m, use, new)
<1> PICK own : Raw(m, own, mp) /\ \A g \in Page : use[g] = Plain(own[g])
  BY DEF Con
<1>1. Shown(m, own, new)
  <2>1. \A t, i \in Index : PageAt(t, i) \in Page
    BY PageOfPlace
  <2> QED
    BY <2>1 DEF Raw, Shown
<1>2. Covered(own, new) /\ MapTypes(new)
  BY DEF Raw, Covered, MapTypes
<1>3. Raw(m, own, new)
  BY <1>1, <1>2 DEF Raw
<1> QED
  BY <1>3 DEF Con

(* Nothing is mapped yet at n pages from p on, which belong to home h and  *)
(* may be mapped to the frames from f on.                                  *)
Room(m, use, mp, h, p, f, n, flags) ==
  /\ h \in Home /\ p \in Nat /\ f \in Nat /\ n \in Nat /\ p + n <= PageNumber /\ f + n <= PageNumber
  /\ \A q \in p .. p + n - 1 :
       /\ T(q) # LastEntry /\ HomeOf(m.page_directory, T(q)) = h /\ mp[h][q] = Hole
       /\ T(q) # 0 => f # 0
       /\ use[m.page_directory] = Boot => T(q) \in KernelTables \union {0}
       /\ m.domain_check_enabled => q \in DomainPages(flags)

LEMMA ConMapLoop ==
  ASSUME NEW m, NEW use, NEW mp, Con(m, use, mp), NEW h, NEW p, NEW f, NEW n, NEW flags,
         Room(m, use, mp, h, p, f, n, flags)
  PROVE  LET r == MapLoop(m, p, f, flags, n)
         IN  r.short \/ Con(r, use, PutRun(mp, h, p, f, n))
<1> DEFINE M(k) == MapLoop(m, p, f, flags, k)
           P(k) == PutRun(mp, h, p, f, k)
           S == {k \in Nat : k <= n => M(k).short \/ Con(M(k), use, P(k))}
<1>0. m \in MemoryState /\ h \in Home /\ p \in Nat /\ f \in Nat /\ n \in Nat
      /\ p + n <= PageNumber /\ f + n <= PageNumber
  BY ConTyped DEF Room
<1>1. /\ M(0) = m
      /\ \A k \in Nat : /\ M(k) \in Quiet(m)
                        /\ M(k + 1) = vmm_map(M(k), pmm_get_address(p + k), pmm_get_address(f + k), flags)
  <2> HIDE DEF S, P
  <2>1. m \in MemoryState /\ p \in Nat /\ f \in Nat /\ 0 \in Nat
    BY <1>0
  <2>2. MapLoop(m, p, f, flags, 0) = m
    BY <2>1, MapLoopRuns
  <2>3. ASSUME NEW k \in Nat
        PROVE  /\ MapLoop(m, p, f, flags, k) \in Quiet(m)
               /\ MapLoop(m, p, f, flags, k + 1)
                  = vmm_map(MapLoop(m, p, f, flags, k), pmm_get_address(p + k),
                            pmm_get_address(f + k), flags)
    BY <2>1, MapLoopRuns
  <2> QED
    BY <2>2, <2>3
<1> HIDE DEF M, P
<1>2. \A k, g, q : g \in Home /\ q \in Page =>
        P(k)[g][q] = IF g = h /\ q \in p .. p + k - 1 THEN f + (q - p) ELSE mp[g][q]
  BY RunAt DEF P
<1>3. 0 \in S
  <2>1. \A g \in Home, q \in Page : P(0)[g][q] = mp[g][q]
    BY <1>0, <1>2
  <2> QED
    BY <1>1, <2>1, ConEqual
<1>4. ASSUME NEW k \in Nat, k \in S PROVE k + 1 \in S
  <2> SUFFICES ASSUME k + 1 <= n PROVE M(k + 1).short \/ Con(M(k + 1), use, P(k + 1))
    OBVIOUS
  <2> DEFINE q == p + k
             z == f + k
  <2>1. q \in Page /\ z \in Page /\ q \in p .. p + n - 1
    BY <1>0 DEF Page
  <2>2. M(k) \in MemoryState /\ M(k) \in Quiet(m)
    BY <1>0, <1>1, QuietLater
  <2>3. CASE M(k).short
    <3>1. M(k + 1) \in Quiet(M(k))
      BY <1>1, <2>1, <2>2, AddressOfPage, MapTyped
    <3> QED
      BY <2>3, <3>1 DEF Quiet, Later
  <2>4. CASE Con(M(k), use, P(k))
    <3>1. M(k).page_directory = m.page_directory
          /\ M(k).domain_check_enabled = m.domain_check_enabled
      BY <2>2 DEF Quiet
    <3>2. /\ T(q) # LastEntry /\ HomeOf(m.page_directory, T(q)) = h /\ mp[h][q] = Hole
          /\ T(q) # 0 => z # 0
          /\ use[m.page_directory] = Boot => T(q) \in KernelTables \union {0}
          /\ m.domain_check_enabled => q \in DomainPages(flags)
      <4>1. f \in Nat /\ k \in Nat /\ (f # 0 => z # 0)
        BY <1>0
      <4> HIDE DEF q, z
      <4>2. /\ T(q) # LastEntry /\ HomeOf(m.page_directory, T(q)) = h /\ mp[h][q] = Hole
            /\ T(q) # 0 => f # 0
            /\ use[m.page_directory] = Boot => T(q) \in KernelTables \union {0}
            /\ m.domain_check_enabled => q \in DomainPages(flags)
        BY <2>1, Zenon DEF Room
      <4> QED
        BY <4>1, <4>2
    <3>3. P(k)[h][q] = Hole
      BY <1>0, <1>2, <2>1, <3>2
    <3> HIDE DEF q, z
    <3>4. M(k + 1).short \/ Con(M(k + 1), use, Put(P(k), h, q, z))
      <4>1. M(k + 1) = vmm_map(M(k), pmm_get_address(q), pmm_get_address(z), flags)
        BY <1>1 DEF q, z
      <4> HIDE DEF S
      <4> QED
        BY <2>1, <2>4, <3>1, <3>2, <3>3, <4>1, ConMap
    <3>5. \A g \in Home, x \in Page : P(k + 1)[g][x] = Put(P(k), h, q, z)[g][x]
      <4> SUFFICES ASSUME NEW g \in Home, NEW x \in Page
                   PROVE  P(k + 1)[g][x] = Put(P(k), h, q, z)[g][x]
        OBVIOUS
      <4>1. Put(P(k), h, q, z)[g][x] = IF g = h /\ x = q THEN z ELSE P(k)[g][x]
        BY PutAt
      <4>2. x \in p .. p + (k + 1) - 1 <=> x = q \/ x \in p .. p + k - 1
        BY <1>0 DEF q, Page
      <4>3. ~ (q \in p .. p + k - 1) /\ f + (q - p) = z
        BY <1>0 DEF q, z
      <4> QED
        BY <1>2, <4>1, <4>2, <4>3
    <3> QED
      BY <3>4, <3>5, ConEqual
  <2>5. M(k).short \/ Con(M(k), use, P(k))
    BY <1>0, <1>4
  <2> QED
    BY <2>3, <2>4, <2>5
<1> HIDE DEF S
<1>5. n \in S
  BY <1>0, <1>3, <1>4, Induction
<1> QED
  BY <1>0, <1>5 DEF S, M, P

(* The tables of n pages from p on keep a page besides their last.         *)
Kept(mp, h, p, n) ==
  \A q \in p .. p + n - 1 :
    mp[h][PageAt(T(q), LastEntry)] # Hole =>
      \E i \in Index : /\ i # LastEntry /\ mp[h][PageAt(T(q), i)] # Hole
                       /\ PageAt(T(q), i) \notin p .. p + n - 1

LEMMA ConUnmapLoop ==
  ASSUME NEW m, NEW use, NEW mp, Con(m, use, mp), NEW h \in Home, NEW p \in Nat, NEW n \in Nat,
         p + n <= PageNumber, Kept(mp, h, p, n),
         \A q \in p .. p + n - 1 : T(q) # LastEntry /\ HomeOf(m.page_directory, T(q)) = h
  PROVE  Con(UnmapLoop(m, p, n), use, HoleRun(mp, h, p, n))
<1> DEFINE M(k) == UnmapLoop(m, p, k)
           P(k) == HoleRun(mp, h, p, k)
           S == {k \in Nat : k <= n => Con(M(k), use, P(k))}
<1>0. m \in MemoryState
  BY ConTyped
<1>1. /\ M(0) = m
      /\ \A k \in Nat : /\ M(k) \in Quiet(m)
                        /\ M(k + 1) = vmm_unmap(M(k), pmm_get_address(p + k))
  BY <1>0, UnmapLoopRuns
<1> HIDE DEF M, P
<1>2. \A k, g, q : g \in Home /\ q \in Page =>
        P(k)[g][q] = IF g = h /\ q \in p .. p + k - 1 THEN Hole ELSE mp[g][q]
  BY HoleAt DEF P
<1>3. 0 \in S
  <2>1. \A g \in Home, q \in Page : P(0)[g][q] = mp[g][q]
    BY <1>0, <1>2
  <2> QED
    BY <1>1, <2>1, ConEqual
<1>4. ASSUME NEW k \in Nat, k \in S PROVE k + 1 \in S
  <2> SUFFICES ASSUME k + 1 <= n PROVE Con(M(k + 1), use, P(k + 1))
    OBVIOUS
  <2> DEFINE q == p + k
  <2>1. q \in Page /\ q \in p .. p + n - 1
    BY <1>0 DEF Page
  <2>2. M(k) \in Quiet(m) /\ Con(M(k), use, P(k))
    BY <1>1, <1>4
  <2>3. M(k).page_directory = m.page_directory
    BY <2>2 DEF Quiet
  <2>4. T(q) # LastEntry /\ HomeOf(m.page_directory, T(q)) = h /\ T(q) \in Index
    BY <2>1, PlaceOfPage
  <2> HIDE DEF q
  <2>5. \A g \in Home, x \in Page :
          /\ Put(P(k), h, q, Hole)[g][x] = IF g = h /\ x = q THEN Hole ELSE P(k)[g][x]
          /\ P(k + 1)[g][x] = Put(P(k), h, q, Hole)[g][x]
    <3> SUFFICES ASSUME NEW g \in Home, NEW x \in Page
                 PROVE  /\ Put(P(k), h, q, Hole)[g][x] = IF g = h /\ x = q THEN Hole ELSE P(k)[g][x]
                        /\ P(k + 1)[g][x] = Put(P(k), h, q, Hole)[g][x]
      OBVIOUS
    <3>1. Put(P(k), h, q, Hole)[g][x] = IF g = h /\ x = q THEN Hole ELSE P(k)[g][x]
      BY PutAt
    <3>2. x \in p .. p + (k + 1) - 1 <=> x = q \/ x \in p .. p + k - 1
      BY <1>0 DEF q, Page
    <3> QED
      BY <1>2, <3>1, <3>2
  <2>6. Anchored(Put(P(k), h, q, Hole), h, T(q))
    <3> DEFINE new == Put(P(k), h, q, Hole)
               last == PageAt(T(q), LastEntry)
    <3> SUFFICES ASSUME new[h][last] # Hole
                 PROVE  \E i \in Index : i # LastEntry /\ new[h][PageAt(T(q), i)] # Hole
      BY DEF Anchored
    <3>1. \A i \in Index : PageAt(T(q), i) \in Page
      BY <2>4, PageOfPlace
    <3>2. last \in Page
      BY <3>1, Indices
    <3> HIDE DEF last
    <3>3. mp[h][last] # Hole
      BY <1>2, <2>5, <3>2
    <3>4. PICK i \in Index : /\ i # LastEntry /\ mp[h][PageAt(T(q), i)] # Hole
                             /\ PageAt(T(q), i) \notin p .. p + n - 1
      BY <2>1, <3>3 DEF Kept, last
    <3> DEFINE z == PageAt(T(q), i)
    <3>5. z \in Page /\ mp[h][z] # Hole /\ z \notin p .. p + n - 1
      BY <3>1, <3>4
    <3> HIDE DEF z
    <3>6. z # q /\ z \notin p .. p + k - 1
      BY <2>1, <3>5 DEF Page
    <3>7. new[h][z] # Hole
      BY <1>2, <2>5, <3>5, <3>6
    <3> QED
      BY <3>4, <3>7 DEF z
  <2>7. Con(M(k + 1), use, Put(P(k), h, q, Hole))
    <3>1. M(k + 1) = vmm_unmap(M(k), pmm_get_address(q))
      BY <1>1 DEF q
    <3> HIDE DEF S
    <3> QED
      BY <2>1, <2>2, <2>3, <2>4, <2>6, <3>1, ConUnmap
  <2> QED
    BY <2>5, <2>7, ConEqual
<1> HIDE DEF S
<1>5. n \in S
  BY <1>0, <1>3, <1>4, Induction
<1> QED
  BY <1>0, <1>5 DEF S, M, P

(* Frames that hold neither tables nor directories change their use.       *)
LEMMA ConFrames ==
  ASSUME NEW m, NEW use, NEW mp, Con(m, use, mp), NEW n \in MemoryState, NEW new,
         n.tables = m.tables, n.page_directory = m.page_directory, n.bitmap = m.bitmap,
         \A f \in Page : new[f] = use[f] \/ {new[f], use[f]} \subseteq {Held, Fixed} \union {Pag(h, p) : h \in Home, p \in Page}
  PROVE  Con(n, new, mp)
<1> PICK own : Raw(m, own, mp) /\ \A f \in Page : use[f] = Plain(own[f])
  BY DEF Con
<1> DEFINE own2 == [f \in Page |-> IF new[f] = use[f] THEN own[f] ELSE new[f]]
           L == {Held, Fixed} \union {Pag(h, p) : h \in Home, p \in Page}
<1>1. \A l \in L : ~ Settled(l) /\ Plain(l) = l /\ l # Free
  BY Labels DEF Settled
<1> HIDE DEF L
<1>2. \A f \in Page : new[f] = use[f] \/ (new[f] \in L /\ use[f] \in L)
  BY DEF L
<1>3. \A f \in Page : own2[f] = IF new[f] = use[f] THEN own[f] ELSE new[f]
  OBVIOUS
<1> HIDE DEF own2
<1>4. \A f \in Page : new[f] # use[f] => own[f] = use[f] /\ own[f] \in L
  BY <1>1, <1>2, Labels DEF Plain
<1>5. \A f \in Page : own2[f] = own[f] \/ (~ Settled(own[f]) /\ ~ Settled(own2[f]))
  BY <1>1, <1>2, <1>3, <1>4
<1>6. Marked(n, own2) /\ LowIntact(n)
  <2>1. \A f \in Page : own2[f] # Free <=> n.bitmap[f] \in {"KERNEL", "USER"}
    BY <1>1, <1>2, <1>3, <1>4 DEF Raw, Marked
  <2>2. \A f \in Page : IsTab(own2[f]) => \E h \in Home, t \in Index : own2[f] = Tab(h, t)
    BY <1>5 DEF Raw, Marked, Settled
  <2> QED
    BY <2>1, <2>2 DEF Raw, Marked, LowIntact
<1>7. Raw(n, own2, mp)
  BY <1>5, <1>6, RawFrames
<1>8. \A f \in Page : new[f] = Plain(own2[f])
  BY <1>1, <1>2, <1>3
<1> QED
  BY <1>7, <1>8 DEF Con

LEMMA ConAlloc ==
  ASSUME NEW m, NEW use, NEW mp, Con(m, use, mp), NEW len \in Nat \ {0},
         NEW flags \in {"KERNEL", "USER"}
  PROVE  LET a == pmm_alloc(m, len, flags)
             n == PagesFor(len)
         IN  \/ a.ptr = 0 /\ a.m.short
             \/ \E s \in Page :
                  /\ s # 0 /\ s + n <= PageNumber /\ a.ptr = pmm_get_address(s) /\ a.ptr # 0
                  /\ Con(a.m, Mark(use, s .. s + n - 1, Held), mp)
                  /\ \A f \in s .. s + n - 1 : f \in Page /\ use[f] = Free /\ f >= VideoPage
                  /\ a.m.tables = m.tables
<1> DEFINE a == pmm_alloc(m, len, flags)
           n == PagesFor(len)
<1> PICK own : Raw(m, own, mp) /\ \A f \in Page : use[f] = Plain(own[f])
  BY DEF Con
<1>0. m \in MemoryState /\ LowIntact(m) /\ flags \in Flags
  BY DEF Raw, Flags
<1>1. ASSUME NEW s \in Page, FoundAt(m, a, s, n, flags)
      PROVE  /\ s # 0 /\ s + n <= PageNumber /\ a.ptr = pmm_get_address(s) /\ a.ptr # 0
             /\ Con(a.m, Mark(use, s .. s + n - 1, Held), mp)
             /\ \A f \in s .. s + n - 1 : f \in Page /\ use[f] = Free /\ f >= VideoPage
             /\ a.m.tables = m.tables
  <2> DEFINE F == s .. s + n - 1
  <2> HIDE DEF a, n
  <2>1. Raw(a.m, Mark(own, F, Held), mp) /\ \A f \in F : f \in Page /\ own[f] = Free
    BY <1>1, RawAlloc
  <2>2. a.m.tables = m.tables
    BY <1>0, <1>1, FoundState
  <2>3. \A f \in F : f >= VideoPage
    BY <1>1, VideoPlace DEF FoundAt, Page
  <2> HIDE DEF F
  <2>4. \A f \in Page : Mark(use, F, Held)[f] = Plain(Mark(own, F, Held)[f])
    BY Labels DEF Mark
  <2>5. Con(a.m, Mark(use, F, Held), mp)
    BY <2>1, <2>4 DEF Con
  <2>6. \A f \in F : use[f] = Free
    BY <2>1, Labels
  <2> QED
    BY <1>1, <2>1, <2>2, <2>3, <2>5, <2>6 DEF FoundAt, F
<1>2. \/ a.ptr = 0 /\ a.m.short
      \/ \E s \in Page : FoundAt(m, a, s, n, flags)
  BY <1>0, AllocFound
<1> HIDE DEF a, n
<1> QED
  BY <1>1, <1>2 DEF a, n

LEMMA ConFree ==
  ASSUME NEW m, NEW use, NEW mp, Con(m, use, mp), NEW s \in Page, NEW len \in Nat \ {0},
         s + PagesFor(len) <= PageNumber,
         \A f \in s .. s + PagesFor(len) - 1 : use[f] \notin {Free, Directory, Boot} /\ f >= VideoPage
  PROVE  Con(pmm_free(m, pmm_get_address(s), len),
             Mark(use, s .. s + PagesFor(len) - 1, Free), mp)
<1> DEFINE F == FramesOf(pmm_get_address(s), len)
<1> PICK own : Raw(m, own, mp) /\ \A f \in Page : use[f] = Plain(own[f])
  BY DEF Con
<1>1. F = s .. s + PagesFor(len) - 1
  BY AlignedRange
<1> HIDE DEF F
<1>2. \A f \in F \intersect Page : ~ Settled(own[f]) /\ f >= VideoPage
  BY <1>1, Labels, PlainLabels DEF Settled
<1>3. Raw(pmm_free(m, pmm_get_address(s), len), Mark(own, F, Free), mp)
  BY <1>2, RawFree DEF F
<1>4. \A f \in Page : Mark(use, F, Free)[f] = Plain(Mark(own, F, Free)[f])
  BY Labels DEF Mark
<1> QED
  BY <1>1, <1>3, <1>4 DEF Con

LEMMA ConFreeLow ==
  ASSUME NEW m, NEW use, NEW mp, Con(m, use, mp), NEW ptr \in Nat, NEW len \in Nat \ {0},
         ptr < PageSize, ptr + len <= Video
  PROVE  Con(pmm_free(m, ptr, len), use, mp)
BY RawFreeLow DEF Con

(* Low frames are not used, and frame 0 is low.                            *)
LEMMA ConLow ==
  ASSUME NEW m, NEW use, NEW mp, Con(m, use, mp), NEW f \in Page, f < VideoPage
  PROVE  use[f] = Free
<1> PICK own : Raw(m, own, mp) /\ \A g \in Page : use[g] = Plain(own[g])
  BY DEF Con
<1>1. own[f] = Free
  BY DEF Raw, LowIntact, Marked
<1> QED
  BY <1>1, Labels

-----------------------------------------------------------------------------
(* The first fit of a domain.                                              *)

DomainHome(m, domain) == IF domain = "USER" THEN m.page_directory ELSE Kernel

LEMMA DomainPlace ==
  ASSUME NEW m, NEW domain, NEW p \in DomainPages(domain)
  PROVE  /\ p \in Page /\ p # 0 /\ T(p) \in Index /\ T(p) # LastEntry /\ T(p) # 0
         /\ HomeOf(m.page_directory, T(p)) = DomainHome(m, domain)
         /\ domain = "USER" => T(p) \in UserTables
         /\ domain # "USER" => T(p) \in KernelTables
<1>1. p \in Page /\ T(p) \in IF domain = "USER" THEN UserTables ELSE KernelTables
  BY DEF DomainPages, T
<1>2. T(p) \in Index /\ T(p) # LastEntry /\ T(p) # 0
  BY <1>1, Indices, PlaceOfPage
<1>3. T(0) = 0
  BY PageOfPlace, Indices, Entries DEF PageAt
<1> QED
  BY <1>1, <1>2, <1>3, Indices DEF HomeOf, DomainHome

LEMMA ConFreePages ==
  ASSUME NEW m, NEW use, NEW mp, Con(m, use, mp), m.paging, NEW domain,
         NEW p \in DomainPages(domain)
  PROVE  p \in FreePages(m, domain) <=> mp[DomainHome(m, domain)][p] = Hole
<1> DEFINE a == pmm_get_address(p)
           h == DomainHome(m, domain)
<1>1. /\ p \in Page /\ T(p) # LastEntry /\ T(p) # 0 /\ HomeOf(m.page_directory, T(p)) = h
  BY DomainPlace
<1>2. a \in Nat /\ a % PageSize \in Nat
  BY <1>1, AddressOfPage, Quotients
<1>3. Mapped(m, a) <=> mp[h][p] # Hole
  BY <1>1, ConMapped
<1>4. Mapped(m, a) => FrameAt(m, a) = mp[h][p]
  BY <1>1, ConMapped
<1>5. h \in Home /\ mp[h][p] \in Page \union {Hole} /\ mp[h][p] # 0
  <2>1. h \in Home
    BY ConTyped DEF DomainHome, Home, Kernel, Page
  <2> QED
    BY <1>1, <2>1 DEF Con, Raw, MapTypes
<1>6. CASE Mapped(m, a)
  <2>1. pmm_get_address(FrameAt(m, a)) \in Nat /\ pmm_get_address(FrameAt(m, a)) # 0
    BY <1>3, <1>4, <1>5, <1>6, AddressOfPage
  <2>2. vmm_get_physical_address(m, a) # 0
    BY <1>2, <1>6, <2>1 DEF vmm_get_physical_address
  <2> QED
    BY <1>3, <1>6, <2>2 DEF FreePages
<1>7. CASE ~ Mapped(m, a)
  BY <1>3, <1>7 DEF FreePages, vmm_get_physical_address
<1> QED
  BY <1>6, <1>7

(* The pages from p on are the first n of the domain that are not mapped.  *)
FirstRoom(mp, h, domain, p, n) ==
  /\ p .. p + n - 1 \subseteq DomainPages(domain)
  /\ \A q \in p .. p + n - 1 : mp[h][q] = Hole
  /\ \A q \in Page : /\ q .. q + n - 1 \subseteq DomainPages(domain)
                     /\ \A x \in q .. q + n - 1 : mp[h][x] = Hole
                     => p <= q

LEMMA ConFound ==
  ASSUME NEW m, NEW use, NEW mp, Con(m, use, mp), m.paging, NEW domain, NEW len \in Nat,
         vmm_find_free(m, len, domain) # 0
  PROVE  \E p \in Page :
           /\ vmm_find_free(m, len, domain) = pmm_get_address(p)
           /\ p # 0 /\ p + PagesFor(len) <= PageNumber
           /\ FirstRoom(mp, DomainHome(m, domain), domain, p, PagesFor(len))
<1> DEFINE n == PagesFor(len)
           h == DomainHome(m, domain)
<1>1. PICK p \in FreePages(m, domain) :
        /\ vmm_find_free(m, len, domain) = pmm_get_address(p)
        /\ len # 0
        /\ p .. p + n - 1 \subseteq FreePages(m, domain)
        /\ \A q \in FreePages(m, domain) :
             q .. q + n - 1 \subseteq FreePages(m, domain) => p <= q
  BY VirtualFitFound
<1>2. n \in Nat /\ n > 0
  BY <1>1, PagesForType
<1> HIDE DEF n, h
<1>3. \A q : q \in FreePages(m, domain) <=> q \in DomainPages(domain) /\ mp[h][q] = Hole
  <2>1. \A q : q \in FreePages(m, domain) => q \in DomainPages(domain)
    BY DEF FreePages
  <2> QED
    BY <2>1, ConFreePages DEF h
<1>4. p \in Page /\ p # 0
  BY <1>3, DomainPlace
<1>5. p + n - 1 \in Page
  <2>1. p + n - 1 \in p .. p + n - 1
    BY <1>2, <1>4 DEF Page
  <2>2. p + n - 1 \in DomainPages(domain)
    BY <1>1, <1>3, <2>1
  <2> QED
    BY <2>2, DomainPlace
<1>6. p + n <= PageNumber
  BY <1>2, <1>4, <1>5 DEF Page
<1>7. ASSUME NEW q \in Page, q .. q + n - 1 \subseteq DomainPages(domain),
             \A x \in q .. q + n - 1 : mp[h][x] = Hole
      PROVE  p <= q
  <2>1. q \in q .. q + n - 1
    BY <1>2 DEF Page
  <2> QED
    BY <1>1, <1>3, <1>7, <2>1
<1>8. FirstRoom(mp, h, domain, p, n)
  BY <1>1, <1>3, <1>7 DEF FirstRoom
<1> QED
  BY <1>1, <1>4, <1>6, <1>8 DEF n, h

LEMMA ConMapRange ==
  ASSUME NEW m, NEW use, NEW mp, Con(m, use, mp), NEW h, NEW p \in Page, NEW f \in Page, NEW flags,
         NEW len \in Nat \ {0}, Room(m, use, mp, h, p, f, PagesFor(len), flags)
  PROVE  LET r == vmm_map_range(m, pmm_get_address(p), pmm_get_address(f), len, flags)
         IN  r.short \/ Con(r, use, PutRun(mp, h, p, f, PagesFor(len)))
<1> DEFINE n == PagesFor(len)
<1>1. n \in Nat /\ n > 0 /\ p + n <= PageNumber
  BY PagesForType DEF Room
<1>2. PageCount(pmm_get_address(p), len) = n
  BY <1>1, AlignedRange
<1>3. pmm_get_page(pmm_get_address(p), 0) = p /\ pmm_get_page(pmm_get_address(f), 0) = f
  BY AddressOfPage
<1> HIDE DEF n
<1>4. p \in p .. p + n - 1
  BY <1>1 DEF Page
<1>5. vmm_domain_check(m, pmm_get_address(p), flags)
  BY <1>3, <1>4 DEF vmm_domain_check, Room, n
<1>6. vmm_map_range(m, pmm_get_address(p), pmm_get_address(f), len, flags)
      = MapLoop(m, p, f, flags, n)
  BY <1>2, <1>3, <1>5 DEF vmm_map_range
<1>7. MapLoop(m, p, f, flags, n).short
      \/ Con(MapLoop(m, p, f, flags, n), use, PutRun(mp, h, p, f, n))
  BY ConMapLoop DEF n
<1> QED
  BY <1>6, <1>7 DEF n

(* Frames are mapped at the first place with room for them.                *)
LEMMA ConMapAt ==
  ASSUME NEW m, NEW use, NEW mp, Con(m, use, mp), m.paging, NEW f \in Page, f # 0,
         NEW len \in Nat \ {0}, f + PagesFor(len) <= PageNumber, NEW flags,
         flags = "USER" => use[m.page_directory] # Boot
  PROVE  LET r == MapAt(m, vmm_find_free(m, len, flags), pmm_get_address(f), len, flags)
             n == PagesFor(len)
         IN  \/ r.m.short
             \/ \E p \in Page :
                  /\ r.ptr = pmm_get_address(p) /\ p # 0 /\ p + n <= PageNumber
                  /\ FirstRoom(mp, DomainHome(m, flags), flags, p, n)
                  /\ Con(r.m, use, PutRun(mp, DomainHome(m, flags), p, f, n))
<1> DEFINE v == vmm_find_free(m, len, flags)
           r == MapAt(m, v, pmm_get_address(f), len, flags)
           n == PagesFor(len)
           h == DomainHome(m, flags)
<1>0. n \in Nat /\ n > 0 /\ m \in MemoryState
  BY PagesForType, ConTyped
<1>1. CASE v = 0
  <2>1. r.m = Short(m)
    BY <1>1 DEF MapAt, Result
  <2>2. Short(m).short
    BY <1>0 DEF Short, MemoryState
  <2> QED
    BY <2>1, <2>2
<1>2. CASE v # 0
  <2>1. PICK p \in Page : /\ v = pmm_get_address(p)
                          /\ p # 0 /\ p + n <= PageNumber
                          /\ FirstRoom(mp, h, flags, p, n)
    <3> HIDE DEF r
    <3> QED
      BY <1>2, ConFound
  <2> HIDE DEF v
  <2>2. r = Result(vmm_map_range(m, pmm_get_address(p), pmm_get_address(f), len, flags),
                   pmm_get_address(p))
    BY <1>2, <2>1 DEF MapAt
  <2> HIDE DEF n, h, r
  <2>3. ASSUME NEW q \in p .. p + n - 1
        PROVE  /\ T(q) # LastEntry /\ HomeOf(m.page_directory, T(q)) = h /\ mp[h][q] = Hole
               /\ use[m.page_directory] = Boot => T(q) \in KernelTables \union {0}
               /\ q \in DomainPages(flags)
    <3>1. q \in DomainPages(flags) /\ mp[h][q] = Hole
      BY <2>1 DEF FirstRoom
    <3> QED
      BY <3>1, DomainPlace DEF h
  <2>4. h \in Home
    BY ConTyped DEF DomainHome, Home, Kernel, Page, h
  <2>5. Room(m, use, mp, h, p, f, n, flags)
    BY <1>0, <2>1, <2>3, <2>4 DEF Room, Page, n
  <2>6. vmm_map_range(m, pmm_get_address(p), pmm_get_address(f), len, flags).short
        \/ Con(vmm_map_range(m, pmm_get_address(p), pmm_get_address(f), len, flags), use,
               PutRun(mp, h, p, f, n))
    BY <2>5, ConMapRange DEF n
  <2> QED
    BY <2>1, <2>2, <2>6 DEF Result, n, h, r, v
<1> QED
  BY <1>1, <1>2

-----------------------------------------------------------------------------
(* First fit never leaves the last page of a kernel table as the only one  *)
(* that is mapped.                                                         *)
Weak(mp) == \A t \in KernelTables : Anchored(mp, Kernel, t)

LEMMA KernelHome == Kernel \in Home /\ Hole = Kernel /\ \A p \in Page : p # Hole
BY DEF Kernel, Home, Hole, Page

LEMMA WeakPut ==
  ASSUME NEW mp, Weak(mp), NEW domain, domain # "USER", NEW p \in Page, NEW n \in Nat \ {0},
         p + n <= PageNumber, FirstRoom(mp, Kernel, domain, p, n), NEW f \in Page,
         f + n <= PageNumber
  PROVE  Weak(PutRun(mp, Kernel, p, f, n))
<1> DEFINE new == PutRun(mp, Kernel, p, f, n)
<1> SUFFICES ASSUME NEW t \in KernelTables, new[Kernel][PageAt(t, LastEntry)] # Hole
             PROVE  \E i \in Index : i # LastEntry /\ new[Kernel][PageAt(t, i)] # Hole
  BY DEF Weak, Anchored
<1> DEFINE last == PageAt(t, LastEntry)
           prev == PageAt(t, LastEntry - 1)
<1>1. t \in Index /\ LastEntry - 1 \in Index /\ LastEntry - 1 # LastEntry
  BY Indices, Entries DEF LastEntry
<1>2. \A i \in Index : PageAt(t, i) \in Page /\ T(PageAt(t, i)) = t /\ I(PageAt(t, i)) = i
  BY <1>1, PageOfPlace
<1>3. last \in Page /\ prev \in Page /\ T(prev) = t /\ prev = last - 1
  <2>1. prev = last - 1
    BY <1>1, Entries DEF PageAt, LastEntry, Index
  <2> QED
    BY <1>1, <1>2, <2>1, Indices
<1>4. \A q \in Page : new[Kernel][q]
        = IF q \in p .. p + n - 1 THEN f + (q - p) ELSE mp[Kernel][q]
  BY RunAt, KernelHome
<1> HIDE DEF new, last, prev
<1>5. \A q \in Page : q \in p .. p + n - 1 => new[Kernel][q] # Hole
  BY <1>4 DEF Page, Hole
<1>6. CASE last \notin p .. p + n - 1
  <2>1. mp[Kernel][last] # Hole
    BY <1>3, <1>4, <1>6 DEF last
  <2>2. PICK i \in Index : i # LastEntry /\ mp[Kernel][PageAt(t, i)] # Hole
    BY <2>1 DEF Weak, Anchored, last
  <2>3. PageAt(t, i) \notin p .. p + n - 1
    BY <2>2 DEF FirstRoom
  <2> QED
    BY <1>2, <1>4, <2>2, <2>3
<1>7. CASE last \in p .. p + n - 1 /\ last # p
  <2>1. prev \in p .. p + n - 1
    BY <1>3, <1>7 DEF Page
  <2> QED
    BY <1>1, <1>3, <1>5, <2>1 DEF prev
<1>8. CASE last = p
  <2>1. mp[Kernel][prev] # Hole
    <3> SUFFICES ASSUME mp[Kernel][prev] = Hole PROVE FALSE
      OBVIOUS
    <3>1. \A x \in prev .. prev + n - 1 : x = prev \/ x \in p .. p + n - 1
      BY <1>3, <1>8 DEF Page
    <3>2. prev \in DomainPages(domain)
      BY <1>3 DEF DomainPages, T
    <3>3. prev .. prev + n - 1 \subseteq DomainPages(domain)
          /\ \A x \in prev .. prev + n - 1 : mp[Kernel][x] = Hole
      BY <3>1, <3>2 DEF FirstRoom
    <3>4. p <= prev
      BY <1>3, <3>3 DEF FirstRoom
    <3> QED
      BY <1>3, <1>8, <3>4 DEF Page
  <2>2. new[Kernel][prev] # Hole
    BY <1>3, <1>4, <1>5, <2>1
  <2> QED
    BY <1>1, <2>2 DEF prev
<1> QED
  BY <1>6, <1>7, <1>8

(* A page that is mapped for a while may be unmapped again.                *)
LEMMA WeakKept ==
  ASSUME NEW mp, Weak(mp), NEW domain, domain # "USER", NEW p \in Page,
         FirstRoom(mp, Kernel, domain, p, 1), NEW f \in Page, f + 1 <= PageNumber, p + 1 <= PageNumber
  PROVE  Anchored(Put(PutRun(mp, Kernel, p, f, 1), Kernel, p, Hole), Kernel, T(p))
<1> DEFINE put == PutRun(mp, Kernel, p, f, 1)
           new == Put(put, Kernel, p, Hole)
           t == T(p)
<1>1. \A q \in Page : new[Kernel][q] = mp[Kernel][q]
  <2> SUFFICES ASSUME NEW q \in Page PROVE new[Kernel][q] = mp[Kernel][q]
    OBVIOUS
  <2>1. mp[Kernel][p] = Hole
    <3>1. p \in p .. p + 1 - 1
      BY DEF Page
    <3> QED
      BY <3>1 DEF FirstRoom
  <2>2. new[Kernel][q] = IF q = p THEN Hole ELSE put[Kernel][q]
    BY PutAt, KernelHome
  <2>3. put[Kernel][q] = IF q \in p .. p + 1 - 1 THEN f + (q - p) ELSE mp[Kernel][q]
    BY RunAt, KernelHome
  <2>4. q \in p .. p + 1 - 1 <=> q = p
    BY DEF Page
  <2> QED
    BY <2>1, <2>2, <2>3, <2>4
<1>2. p \in DomainPages(domain)
  <2>1. p \in p .. p + 1 - 1
    BY DEF Page
  <2> QED
    BY <2>1 DEF FirstRoom
<1>3. t \in KernelTables /\ t \in Index
  BY <1>2, DomainPlace
<1>4. \A i \in Index : PageAt(t, i) \in Page
  BY <1>3, PageOfPlace
<1> HIDE DEF new, t
<1>5. Anchored(mp, Kernel, t)
  BY <1>3 DEF Weak
<1>6. Anchored(new, Kernel, t)
  BY <1>1, <1>4, <1>5, Indices DEF Anchored
<1> QED
  BY <1>6 DEF new, t, put

(* Only the bitmap, the tables and the current directory matter.           *)
LEMMA ConSame ==
  ASSUME NEW m, NEW use, NEW mp, Con(m, use, mp), NEW n \in MemoryState,
         n.tables = m.tables, n.page_directory = m.page_directory, n.bitmap = m.bitmap
  PROVE  Con(n, use, mp)
BY DEF Con, Raw, Marked, LowIntact, Rows, Referred, Reference, Shown, DirFor

(* A directory is written: a new one, or entries that no page is found     *)
(* through yet.                                                            *)
LEMMA RawRow ==
  ASSUME NEW m, NEW own, NEW mp, Raw(m, own, mp), NEW f \in Page, NEW row \in [Index -> Entry],
         NEW new, \A g \in Page : g # f => new[g] = own[g],
         new[f] \in {Directory, Boot}, own[f] = Held \/ own[f] = new[f],
         \A t \in Index : EntryFits(new, f, t, row[t]),
         own[f] = new[f] => \A t \in Index : f = m.page_directory \/ t \notin KernelTables =>
                              row[t] = m.tables[f][t]
  PROVE  Raw([m EXCEPT !.tables[f] = row], new, mp)
<1> DEFINE n == [m EXCEPT !.tables[f] = row]
<1>0. m \in MemoryState /\ m.page_directory \in Page /\ IsDir(own, m.page_directory)
  BY StateFields DEF Raw
<1>1. n \in MemoryState
  BY <1>0, RowTyped, QuietLater
<1>2. /\ n.tables[f] = row /\ \A g \in Page : g # f => n.tables[g] = m.tables[g]
      /\ n.bitmap = m.bitmap /\ n.page_directory = m.page_directory
  BY <1>0, StateFields DEF MemoryState, TableRows
<1> HIDE DEF n
<1>3. ~ IsTab(own[f]) /\ ~ IsTab(new[f]) /\ own[f] # Free /\ new[f] # Free
  BY Labels
<1>4. \A g \in Page : IsDir(new, g) <=> (IsDir(own, g) \/ g = f)
  BY DEF IsDir
<1>5. \A g \in Page : \A h, t : own[g] = Tab(h, t) <=> new[g] = Tab(h, t)
  BY <1>3, Labels
<1>6. Marked(n, new) /\ LowIntact(n)
  BY <1>2, <1>3 DEF Raw, Marked, LowIntact
<1>7. Rows(n, new)
  <2> SUFFICES ASSUME NEW d \in Page, IsDir(new, d), NEW t \in Index
               PROVE  EntryFits(new, d, t, n.tables[d][t])
    BY DEF Rows
  <2>1. CASE d = f
    BY <1>2, <2>1
  <2>2. CASE d # f
    <3>1. EntryFits(own, d, t, m.tables[d][t]) /\ n.tables[d][t] = m.tables[d][t]
      BY <1>2, <1>4, <2>2 DEF Raw, Rows
    <3>2. m.tables[d][t].page \in Page
      BY <1>0, EntryTyped
    <3> QED
      BY <1>5, <3>1, <3>2 DEF EntryFits
  <2> QED
    BY <2>1, <2>2
<1>8. Referred(n, new)
  <2> SUFFICES ASSUME NEW g \in Page, NEW h \in Home, NEW t \in Index, new[g] = Tab(h, t)
               PROVE  Reference(n, new, DirFor(m, h), t, g) /\ HomeOf(DirFor(m, h), t) = h
    BY <1>2 DEF Referred, DirFor
  <2>1. Reference(m, own, DirFor(m, h), t, g) /\ HomeOf(DirFor(m, h), t) = h
    BY <1>5 DEF Raw, Referred
  <2> DEFINE d == DirFor(m, h)
  <2>2. d \in Page /\ IsDir(own, d)
    BY <2>1 DEF Reference
  <2>3. new[d] = own[d]
    BY <2>2, Labels DEF IsDir
  <2>4. n.tables[d][t] = m.tables[d][t]
    <3>1. CASE d = f
      <4>1. f = m.page_directory \/ t \notin KernelTables
        BY <2>1, <2>2, <3>1, KernelHome DEF DirFor, HomeOf
      <4> QED
        BY <1>2, <2>3, <3>1, <4>1
    <3>2. CASE d # f
      BY <1>2, <2>2, <3>2
    <3> QED
      BY <3>1, <3>2
  <2> QED
    BY <1>4, <2>1, <2>2, <2>3, <2>4 DEF Reference
<1>9. Shown(n, new, mp) /\ Covered(new, mp) /\ MapTypes(mp)
  <2>1. \A g \in Page, h \in Home, t \in Index : own[g] = Tab(h, t) => g # f
    BY <1>3, Labels
  <2>2. Shown(n, new, mp)
    BY <1>2, <1>5, <2>1 DEF Raw, Shown
  <2>3. Covered(new, mp)
    BY <1>5 DEF Raw, Covered
  <2> QED
    BY <2>2, <2>3 DEF Raw
<1>10. IsDir(new, n.page_directory)
  BY <1>0, <1>2, <1>4
<1>11. Raw(n, new, mp)
  BY <1>1, <1>6, <1>7, <1>8, <1>9, <1>10 DEF Raw
<1> QED
  BY <1>11 DEF n

\* The entries of a new directory.
NewRow(f) ==
  [EmptyTable EXCEPT ![ENTRIES - 1] = [pr |-> TRUE, user |-> FALSE, page |-> f]]

LEMMA NewRowTyped ==
  ASSUME NEW f \in Page
  PROVE  /\ NewRow(f) \in [Index -> Entry]
         /\ \A t \in Index : NewRow(f)[t] = IF t = LastEntry
                                            THEN [pr |-> TRUE, user |-> FALSE, page |-> f]
                                            ELSE Absent
<1> DEFINE e == [pr |-> TRUE, user |-> FALSE, page |-> f]
<1>1. e \in Entry
  BY DEF Entry
<1> HIDE DEF e
<1>2. EmptyTable \in [Index -> Entry] /\ \A t \in Index : EmptyTable[t] = Absent
  BY AbsentTyped DEF EmptyTable
<1>3. NewRow(f) = [EmptyTable EXCEPT ![LastEntry] = e] /\ LastEntry \in Index
  BY Indices DEF NewRow, LastEntry, e
<1> QED
  BY <1>1, <1>2, <1>3 DEF e

LEMMA ConNewDirectory ==
  ASSUME NEW m, NEW use, NEW mp, Con(m, use, mp), NEW f \in Page, use[f] = Held
  PROVE  Con([m EXCEPT !.tables[f] = NewRow(f)], Mark(use, {f}, Directory), mp)
<1> PICK own : Raw(m, own, mp) /\ \A g \in Page : use[g] = Plain(own[g])
  BY DEF Con
<1> DEFINE new == Mark(own, {f}, Directory)
<1>1. own[f] = Held
  BY PlainLabels
<1>2. \A g \in Page : new[g] = IF g = f THEN Directory ELSE own[g]
  BY DEF Mark
<1> HIDE DEF new
<1>3. \A t \in Index : EntryFits(new, f, t, NewRow(f)[t])
  BY NewRowTyped DEF EntryFits
<1>4. own[f] # new[f] /\ new[f] = Directory
  BY <1>1, <1>2, Labels
<1> DEFINE row == NewRow(f)
<1>7. row \in [Index -> Entry] /\ \A t \in Index : EntryFits(new, f, t, row[t])
  BY <1>3, NewRowTyped
<1> HIDE DEF row
<1>8. /\ \A g \in Page : g # f => new[g] = own[g]
      /\ new[f] \in {Directory, Boot} /\ own[f] = Held /\ own[f] # new[f]
  BY <1>1, <1>2, <1>4
<1>9. Raw([m EXCEPT !.tables[f] = row], new, mp)
  BY <1>7, <1>8, RawRow
<1>5. Raw([m EXCEPT !.tables[f] = NewRow(f)], new, mp)
  BY <1>9 DEF row
<1>6. \A g \in Page : Mark(use, {f}, Directory)[g] = Plain(new[g])
  BY <1>2, Labels DEF Mark
<1> QED
  BY <1>5, <1>6 DEF Con

\* The entries of directory f with the kernel's tables of the current directory.
CopiedRow(m, f) ==
  [i \in Index |-> IF i \in KernelTables THEN Dir(m)[i] ELSE m.tables[f][i]]

LEMMA ConCopy ==
  ASSUME NEW m, NEW use, NEW mp, Con(m, use, mp), NEW f \in Page, use[f] \in {Directory, Boot}
  PROVE  Con([m EXCEPT !.tables[f] = CopiedRow(m, f)], use, mp)
<1> PICK own : Raw(m, own, mp) /\ \A g \in Page : use[g] = Plain(own[g])
  BY DEF Con
<1> DEFINE cur == m.page_directory
           row == CopiedRow(m, f)
<1>0. m \in MemoryState /\ cur \in Page /\ IsDir(own, cur)
  BY StateFields DEF Raw
<1>1. own[f] \in {Directory, Boot}
  BY PlainLabels
<1>2. \A t \in Index : row[t] = IF t \in KernelTables THEN m.tables[cur][t] ELSE m.tables[f][t]
  BY DEF CopiedRow, Dir
<1>3. row \in [Index -> Entry]
  BY <1>0, EntryTyped DEF CopiedRow, Dir
<1> HIDE DEF row, cur
<1>4. \A t \in Index : EntryFits(own, f, t, row[t])
  <2> SUFFICES ASSUME NEW t \in Index PROVE EntryFits(own, f, t, row[t])
    OBVIOUS
  <2>1. EntryFits(own, cur, t, m.tables[cur][t]) /\ EntryFits(own, f, t, m.tables[f][t])
    BY <1>0, <1>1 DEF Raw, Rows, IsDir
  <2> QED
    BY <1>2, <2>1, Indices DEF EntryFits, HomeOf
<1>5. Raw([m EXCEPT !.tables[f] = row], own, mp)
  BY <1>1, <1>2, <1>3, <1>4, RawRow DEF cur
<1> QED
  BY <1>5 DEF Con, row

(* Another directory is loaded, which agrees with the current one.         *)
LEMMA ConLoad ==
  ASSUME NEW m, NEW use, NEW mp, Con(m, use, mp), NEW d \in Page, use[d] \in {Directory, Boot},
         \A t \in KernelTables : m.tables[d][t] = Dir(m)[t]
  PROVE  Con([m EXCEPT !.page_directory = d], use, mp)
<1> PICK own : Raw(m, own, mp) /\ \A g \in Page : use[g] = Plain(own[g])
  BY DEF Con
<1> DEFINE n == [m EXCEPT !.page_directory = d]
<1>0. m \in MemoryState
  BY DEF Raw
<1>1. n \in MemoryState
  BY <1>0, Updates, QuietLater
<1>2. n.tables = m.tables /\ n.bitmap = m.bitmap /\ n.page_directory = d
  BY <1>0 DEF MemoryState
<1> HIDE DEF n
<1>3. own[d] \in {Directory, Boot}
  BY PlainLabels
<1>4. Referred(n, own)
  <2> SUFFICES ASSUME NEW g \in Page, NEW h \in Home, NEW t \in Index, own[g] = Tab(h, t)
               PROVE  Reference(n, own, DirFor(n, h), t, g) /\ HomeOf(DirFor(n, h), t) = h
    BY DEF Referred
  <2>1. Reference(m, own, DirFor(m, h), t, g) /\ HomeOf(DirFor(m, h), t) = h
    BY DEF Raw, Referred
  <2>2. CASE h # Kernel
    BY <1>2, <2>1, <2>2 DEF DirFor, Reference
  <2>3. CASE h = Kernel
    <3>1. DirFor(m, h) = m.page_directory /\ DirFor(n, h) = d
      BY <1>2, <2>3 DEF DirFor
    <3>2. m.page_directory # Kernel
      BY <1>0, StateFields, KernelHome
    <3>3. t \in KernelTables
      BY <2>1, <2>3, <3>1, <3>2 DEF HomeOf
    <3> QED
      BY <1>2, <1>3, <2>1, <2>3, <3>1, <3>3 DEF Reference, HomeOf, Dir, IsDir
  <2> QED
    BY <2>2, <2>3
<1>5. Raw(n, own, mp)
  BY <1>1, <1>2, <1>3, <1>4 DEF Raw, Marked, LowIntact, Rows, Shown, IsDir
<1> QED
  BY <1>5 DEF Con, n

LEMMA OnePage == PagesFor(PageSize) = 1 /\ PageSize \in Nat \ {0}
<1>1. PageSize \in Nat \ {0} /\ PageSize = 1 * PageSize + 0
  OBVIOUS
<1>2. (1 * PageSize + 0) \div PageSize = 1 /\ (1 * PageSize + 0) % PageSize = 0
  BY <1>1, Quotient
<1> QED
  BY <1>1, <1>2 DEF PagesFor

(* A page table is freed.                                                  *)
LEMMA DestroyTable ==
  ASSUME NEW m \in MemoryState, NEW t \in Index
  PROVE  LET n == vmm_destroy_page_table(m, t)
             d == m.page_directory
         IN  /\ \A g \in Page : g # d => n.tables[g] = m.tables[g]
             /\ \A u \in Index : u # t => n.tables[d][u] = m.tables[d][u]
             /\ \A f \in Page : n.bitmap[f] = IF f = m.tables[d][t].page THEN "UNUSED" ELSE m.bitmap[f]
<1> DEFINE d == m.page_directory
           f == m.tables[d][t].page
           a == pmm_free(m, pmm_get_address(f), PageSize)
<1>1. d \in Page /\ f \in Page /\ m.tables \in TableRows
  BY StateFields, EntryTyped
<1> HIDE DEF f
<1>2. FramesOf(pmm_get_address(f), PageSize) = f .. f
  <2>1. f + PagesFor(PageSize) <= PageNumber /\ PagesFor(PageSize) = 1
    BY <1>1, OnePage DEF Page
  <2> QED
    BY <1>1, <2>1, OnePage, AlignedRange DEF Page
<1>3. \A g \in Page : a.bitmap[g] = IF g = f THEN "UNUSED" ELSE m.bitmap[g]
  BY <1>1, <1>2, OnePage DEF pmm_free, pmm_use, MemoryState, Page
<1>4. a.tables = m.tables /\ a.page_directory = d /\ a \in MemoryState
  BY FreeTyped, QuietLater DEF pmm_free, MemoryState
<1> HIDE DEF a
<1>5. vmm_destroy_page_table(m, t) = [a EXCEPT !.tables[d][t] = Absent]
  BY DEF vmm_destroy_page_table, Dir, a, f
<1>6. [a EXCEPT !.tables[d][t] = Absent].bitmap = a.bitmap
      /\ [a EXCEPT !.tables[d][t] = Absent].tables = [m.tables EXCEPT ![d][t] = Absent]
  BY <1>4 DEF MemoryState
<1>7. /\ \A g \in Page : g # d => [m.tables EXCEPT ![d][t] = Absent][g] = m.tables[g]
      /\ \A u \in Index : u # t => [m.tables EXCEPT ![d][t] = Absent][d][u] = m.tables[d][u]
  BY <1>1 DEF TableRows
<1> DEFINE r == [a EXCEPT !.tables[d][t] = Absent]
<1>8. vmm_destroy_page_table(m, t) = r /\ r.bitmap = a.bitmap /\ r.tables = [m.tables EXCEPT ![d][t] = Absent]
  BY <1>5, <1>6
<1> HIDE DEF r
<1> QED
  BY <1>3, <1>7, <1>8 DEF f

\* The frames of the tables of directory d with an index in indices that are there.
TableFrames(m, d, indices) ==
  {f \in Page : \E t \in indices : m.tables[d][t].pr /\ m.tables[d][t].page = f}

\* TableRows of directory d have been freed: n is what has become of m.
TablesFreed(m, d, n, indices, F) ==
  /\ \A g \in Page : g # d => n.tables[g] = m.tables[g]
  /\ \A u \in Index : u \notin indices => n.tables[d][u] = m.tables[d][u]
  /\ \A f \in Page : n.bitmap[f] = IF f \in F THEN "UNUSED" ELSE m.bitmap[f]

LEMMA UserTablesFreed ==
  ASSUME NEW m \in MemoryState
  PROVE  LET d == m.page_directory
         IN  TablesFreed(m, d, FreeUserTables(m, ENTRIES - 1 - FirstUser), UserTables,
                         TableFrames(m, d, UserTables))
<1> DEFINE d == m.page_directory
           N == ENTRIES - 1 - FirstUser
           M(k) == FreeUserTables(m, k)
           U(k) == FirstUser .. FirstUser + k - 1
           S == {k \in Nat : k <= N => TablesFreed(m, d, M(k), U(k), TableFrames(m, d, U(k)))}
<1>0. d \in Page /\ N \in Nat /\ FirstUser \in Nat /\ FirstUser + N = LastEntry
  BY StateFields, Domains, Entries DEF LastEntry
<1>1. /\ M(0) = m
      /\ \A k \in Nat : /\ M(k) \in Quiet(m)
                        /\ M(k + 1) = IF Dir(M(k))[FirstUser + k].pr
                                      THEN vmm_destroy_page_table(M(k), FirstUser + k)
                                      ELSE M(k)
  BY FreeUserTablesRuns DEF FirstUser
<1> HIDE DEF M, N, d
<1>2. 0 \in S
  <2>1. U(0) = {}
    BY <1>0
  <2>2. TableFrames(m, d, U(0)) = {}
    BY <2>1 DEF TableFrames
  <2> QED
    BY <1>1, <2>2 DEF TablesFreed
<1>3. ASSUME NEW k \in Nat, k \in S PROVE k + 1 \in S
  <2> SUFFICES ASSUME k + 1 <= N
               PROVE  TablesFreed(m, d, M(k + 1), U(k + 1), TableFrames(m, d, U(k + 1)))
    OBVIOUS
  <2> DEFINE t == FirstUser + k
  <2>1. t \in Index /\ t \notin U(k) /\ U(k + 1) = U(k) \union {t} /\ U(k) \subseteq Index
    BY <1>0, Entries DEF LastEntry
  <2>2. M(k) \in MemoryState /\ M(k).page_directory = d
    BY <1>1, QuietLater DEF Quiet, d
  <2>3. TablesFreed(m, d, M(k), U(k), TableFrames(m, d, U(k)))
    BY <1>0, <1>3
  <2> HIDE DEF t, U, S
  <2>4. M(k).tables[d][t] = m.tables[d][t]
    BY <2>1, <2>3 DEF TablesFreed
  <2>5. M(k + 1) = IF m.tables[d][t].pr THEN vmm_destroy_page_table(M(k), t) ELSE M(k)
    BY <1>1, <2>2, <2>4 DEF Dir, t
  <2>6. TableFrames(m, d, U(k + 1))
        = IF m.tables[d][t].pr THEN TableFrames(m, d, U(k)) \union {m.tables[d][t].page}
          ELSE TableFrames(m, d, U(k))
    BY <1>0, <2>1, EntryTyped DEF TableFrames
  <2>7. CASE m.tables[d][t].pr
    <3> DEFINE n == vmm_destroy_page_table(M(k), t)
    <3>1. /\ \A g \in Page : g # d => n.tables[g] = M(k).tables[g]
          /\ \A u \in Index : u # t => n.tables[d][u] = M(k).tables[d][u]
          /\ \A f \in Page : n.bitmap[f] = IF f = m.tables[d][t].page THEN "UNUSED"
                                           ELSE M(k).bitmap[f]
      BY <2>1, <2>2, <2>4, DestroyTable
    <3>2. M(k + 1) = n
      BY <2>5, <2>7
    <3> HIDE DEF n
    <3>3. \A f : f \in TableFrames(m, d, U(k + 1))
                 <=> f \in TableFrames(m, d, U(k)) \/ f = m.tables[d][t].page
      BY <2>6, <2>7
    <3> QED
      BY <2>1, <2>3, <3>1, <3>2, <3>3 DEF TablesFreed
  <2>8. CASE ~ m.tables[d][t].pr
    BY <2>1, <2>3, <2>5, <2>6, <2>8 DEF TablesFreed
  <2> QED
    BY <2>7, <2>8
<1> HIDE DEF S
<1>4. N \in S
  BY <1>0, <1>2, <1>3, Induction
<1>5. U(N) = UserTables
  BY <1>0, Domains, Entries DEF LastEntry
<1> QED
  BY <1>0, <1>4, <1>5 DEF S, M, N, d

LEMMA AllFreed ==
  ASSUME NEW m \in MemoryState, m.tables[m.page_directory][LastEntry].page = m.page_directory
  PROVE  LET d == m.page_directory
         IN  TablesFreed(m, d, FreeTables(m), Index,
               {m.tables[d][0].page, d} \union TableFrames(m, d, UserTables))
<1> DEFINE d == m.page_directory
           n == vmm_destroy_page_table(m, 0)
           u == FreeUserTables(n, ENTRIES - 1 - FirstUser)
           r == vmm_destroy_page_table(u, LastEntry)
<1>1. d \in Page /\ n \in MemoryState /\ n.page_directory = d
  BY StateFields, DestroyTableTyped, QuietLater DEF Quiet
<1>2. ENTRIES - 1 - FirstUser \in Nat
  BY Domains, Entries
<1>3. u \in MemoryState /\ u.page_directory = d
  <2> HIDE DEF n
  <2>1. u \in Quiet(n)
    BY <1>1, <1>2, FreeUserTablesRuns
  <2> QED
    BY <1>1, <2>1, QuietLater DEF Quiet
<1>4. FreeTables(m) = r
  BY DEF FreeTables, FirstUser, LastEntry
<1>5. /\ \A g \in Page : g # d => n.tables[g] = m.tables[g]
      /\ \A t \in Index : t # 0 => n.tables[d][t] = m.tables[d][t]
      /\ \A f \in Page : n.bitmap[f] = IF f = m.tables[d][0].page THEN "UNUSED" ELSE m.bitmap[f]
  BY Indices, DestroyTable
<1>6. TablesFreed(n, d, u, UserTables, TableFrames(n, d, UserTables))
  BY <1>1, UserTablesFreed
<1>7. /\ \A g \in Page : g # d => r.tables[g] = u.tables[g]
      /\ \A f \in Page : r.bitmap[f] = IF f = u.tables[d][LastEntry].page THEN "UNUSED"
                                       ELSE u.bitmap[f]
  BY <1>3, Indices, DestroyTable
<1> HIDE DEF n, u, r, d
<1>8. u.tables[d][LastEntry].page = d
  BY <1>5, <1>6, Indices DEF TablesFreed, d
<1>9. TableFrames(n, d, UserTables) = TableFrames(m, d, UserTables)
  BY <1>5, Indices DEF TableFrames
<1>10. TablesFreed(m, d, r, Index, {m.tables[d][0].page, d} \union TableFrames(m, d, UserTables))
  BY <1>5, <1>6, <1>7, <1>8, <1>9 DEF TablesFreed
<1> QED
  BY <1>4, <1>10 DEF d

\* Nothing is mapped in home d any more.
Emptied(mp, d) == [h \in Home |-> [p \in Page |-> IF h = d THEN Hole ELSE mp[h][p]]]

(* A directory that is not loaded is freed with all of its own tables.     *)
LEMMA ConDrop ==
  ASSUME NEW m, NEW use, NEW mp, Con(m, use, mp), NEW d \in Page, use[d] = Directory,
         d # m.page_directory
  PROVE  Con([FreeTables([m EXCEPT !.page_directory = d]) EXCEPT
                !.page_directory = m.page_directory],
             Mark(use, {d}, Free), Emptied(mp, d))
<1> DEFINE k == [m EXCEPT !.page_directory = d]
           r == FreeTables(k)
           n == [r EXCEPT !.page_directory = m.page_directory]
           F == {m.tables[d][0].page, d} \union TableFrames(m, d, UserTables)
<1> PICK own : Raw(m, own, mp) /\ \A g \in Page : use[g] = Plain(own[g])
  BY DEF Con
<1> DEFINE new == [g \in Page |-> IF g = d \/ \E t \in Index : own[g] = Tab(d, t) THEN Free
                                  ELSE own[g]]
           gone == Emptied(mp, d)
<1>0. m \in MemoryState /\ m.page_directory \in Page /\ IsDir(own, m.page_directory)
  BY StateFields DEF Raw
<1>1. k \in MemoryState /\ k.page_directory = d /\ k.tables = m.tables /\ k.bitmap = m.bitmap
  <2>1. k \in MemoryState
    BY <1>0, Updates, QuietLater
  <2> QED
    BY <1>0, <2>1 DEF MemoryState
<1>2. own[d] = Directory /\ IsDir(own, d) /\ d # Kernel
  BY PlainLabels, KernelHome DEF IsDir
<1>3. \A t \in Index : EntryFits(own, d, t, m.tables[d][t])
  BY <1>2 DEF Raw, Rows
<1>4. m.tables[d][LastEntry].page = d
  BY <1>3, Indices DEF EntryFits
<1>5. TablesFreed(k, d, r, Index, F)
  <2> HIDE DEF k
  <2>1. k.tables[k.page_directory][LastEntry].page = k.page_directory
    BY <1>1, <1>4
  <2>2. TablesFreed(k, d, r, Index,
          {k.tables[d][0].page, d} \union TableFrames(k, d, UserTables))
    BY <1>1, <2>1, AllFreed
  <2>3. TableFrames(k, d, UserTables) = TableFrames(m, d, UserTables)
    BY <1>1 DEF TableFrames
  <2> QED
    BY <1>1, <2>2, <2>3
<1>6. r \in MemoryState /\ n \in MemoryState
  <2> HIDE DEF k
  <2>1. r \in MemoryState
    BY <1>1, FreeTablesTyped, QuietLater
  <2> HIDE DEF r
  <2>2. n \in MemoryState
    BY <1>0, <2>1, Updates, QuietLater
  <2> QED
    BY <2>1, <2>2
<1>7. n.page_directory = m.page_directory /\ n.tables = r.tables /\ n.bitmap = r.bitmap
  BY <1>6 DEF MemoryState
<1> HIDE DEF r, n, k
<1>8. /\ \A g \in Page : g # d => n.tables[g] = m.tables[g]
      /\ \A f \in Page : n.bitmap[f] = IF f \in F THEN "UNUSED" ELSE m.bitmap[f]
  BY <1>1, <1>5, <1>7 DEF TablesFreed
<1>9. \A g \in Page : new[g] = IF g = d \/ \E t \in Index : own[g] = Tab(d, t) THEN Free
                               ELSE own[g]
  OBVIOUS
<1>10. \A h \in Home, p \in Page : gone[h][p] = IF h = d THEN Hole ELSE mp[h][p]
  BY DEF Emptied
<1> HIDE DEF F, new, gone
<1>11. \A g \in Page : g \in F => g = d \/ g = 0 \/ \E t \in Index : own[g] = Tab(d, t)
  <2> SUFFICES ASSUME NEW g \in Page, g \in F, g # d, g # 0
               PROVE  \E t \in Index : own[g] = Tab(d, t)
    OBVIOUS
  <2>1. PICK t \in {0} \union UserTables : m.tables[d][t].page = g /\ (t = 0 \/ m.tables[d][t].pr)
    BY DEF F, TableFrames
  <2>2. t \in Index /\ t # LastEntry /\ t \notin KernelTables
    BY <2>1, Indices
  <2>3. EntryFits(own, d, t, m.tables[d][t])
    BY <1>3, <2>2
  <2>4. m.tables[d][t] # Absent
    BY <2>1 DEF Absent
  <2> QED
    BY <2>1, <2>2, <2>3, <2>4 DEF EntryFits, HomeOf
<1>12. \A g \in Page, t \in Index : own[g] = Tab(d, t) => g \in F
  <2> SUFFICES ASSUME NEW g \in Page, NEW t \in Index, own[g] = Tab(d, t) PROVE g \in F
    OBVIOUS
  <2>1. d \in Home /\ DirFor(m, d) = d
    BY <1>2 DEF Home, Page, DirFor
  <2>2. Reference(m, own, d, t, g) /\ HomeOf(d, t) = d
    BY <2>1 DEF Raw, Referred
  <2>3. t \notin KernelTables /\ t # LastEntry
    BY <1>2, <2>2 DEF HomeOf, Reference
  <2>4. t = 0 \/ t \in UserTables
    BY <2>3, Indices
  <2> QED
    BY <2>2, <2>4 DEF Reference, F, TableFrames
<1>13. 0 \in Page /\ 0 < VideoPage /\ own[0] = Free /\ m.bitmap[0] \notin {"KERNEL", "USER"}
  <2>1. 0 \in Page /\ 0 < VideoPage
    BY VideoPlace DEF Page
  <2> QED
    BY <2>1 DEF Raw, LowIntact, Marked
<1>14. Marked(n, new)
  <2> SUFFICES ASSUME NEW g \in Page PROVE new[g] # Free <=> n.bitmap[g] \in {"KERNEL", "USER"}
    <3>1. \A g \in Page : IsTab(new[g]) => \E h \in Home, t \in Index : new[g] = Tab(h, t)
      BY <1>9, Labels DEF Raw, Marked
    <3> QED
      BY <3>1 DEF Marked
  <2>1. own[g] # Free <=> m.bitmap[g] \in {"KERNEL", "USER"}
    BY DEF Raw, Marked
  <2>2. d \in F
    BY DEF F
  <2>3. CASE g \in F
    <3>1. new[g] = Free
      BY <1>9, <1>11, <1>13, <2>3
    <3>2. n.bitmap[g] = "UNUSED"
      BY <1>8, <2>3
    <3> QED
      BY <3>1, <3>2
  <2>4. CASE g \notin F
    <3>1. new[g] = own[g]
      BY <1>9, <1>12, <2>2, <2>4
    <3> QED
      BY <1>8, <2>1, <2>4, <3>1
  <2> QED
    BY <2>3, <2>4
<1>15. LowIntact(n)
  <2> SUFFICES ASSUME NEW f \in Page, f < VideoPage
               PROVE  /\ n.bitmap[f] \in {"RESERVED", "UNUSED"}
                      /\ n.bitmap[f] = "UNUSED" => \A g \in Page : g < f => n.bitmap[g] = "UNUSED"
    BY DEF LowIntact
  <2>1. m.bitmap[f] \in {"RESERVED", "UNUSED"}
        /\ (m.bitmap[f] = "UNUSED" => \A g \in Page : g < f => m.bitmap[g] = "UNUSED")
    BY DEF Raw, LowIntact
  <2>2. own[f] = Free
    BY <2>1 DEF Raw, Marked
  <2>3. f \in F => f = 0
    BY <1>2, <1>11, <2>2, Labels
  <2> QED
    BY <1>8, <2>1, <2>3 DEF Page
<1>16. \A g \in Page : IsDir(new, g) <=> IsDir(own, g) /\ g # d
  BY <1>9, Labels DEF IsDir
<1>17. \A g \in Page : \A h, t : t \in Index => (new[g] = Tab(h, t) <=> own[g] = Tab(h, t) /\ h # d)
  BY <1>2, <1>9, Labels
<1>18. Rows(n, new)
  <2> SUFFICES ASSUME NEW g \in Page, IsDir(new, g), NEW t \in Index
               PROVE  EntryFits(new, g, t, n.tables[g][t])
    BY DEF Rows
  <2>1. g # d /\ EntryFits(own, g, t, m.tables[g][t]) /\ n.tables[g][t] = m.tables[g][t]
    BY <1>8, <1>16 DEF Raw, Rows
  <2>2. m.tables[g][t].page \in Page
    BY <1>0, EntryTyped
  <2>3. HomeOf(g, t) # d
    BY <1>2, <2>1 DEF HomeOf
  <2> QED
    BY <1>17, <2>1, <2>2, <2>3 DEF EntryFits
<1>19. Referred(n, new)
  <2> SUFFICES ASSUME NEW g \in Page, NEW h \in Home, NEW t \in Index, new[g] = Tab(h, t)
               PROVE  Reference(n, new, DirFor(m, h), t, g) /\ HomeOf(DirFor(m, h), t) = h
    BY <1>7 DEF Referred, DirFor
  <2>1. own[g] = Tab(h, t) /\ h # d
    BY <1>17
  <2>2. Reference(m, own, DirFor(m, h), t, g) /\ HomeOf(DirFor(m, h), t) = h
    BY <2>1 DEF Raw, Referred
  <2>3. DirFor(m, h) # d
    BY <2>1 DEF DirFor
  <2>4. new[DirFor(m, h)] = own[DirFor(m, h)]
    BY <1>9, <2>2, <2>3, Labels DEF Reference, IsDir
  <2> QED
    BY <1>8, <2>2, <2>3, <2>4 DEF Reference, IsDir
<1>20. Shown(n, new, gone)
  <2> SUFFICES ASSUME NEW g \in Page, NEW h \in Home, NEW t \in Index, new[g] = Tab(h, t),
                      NEW i \in Index
               PROVE  EntryShows(n.tables[g][i], gone[h][PageAt(t, i)])
    BY DEF Shown
  <2>1. own[g] = Tab(h, t) /\ h # d
    BY <1>17
  <2>2. g # d
    BY <1>2, <2>1, Labels
  <2> QED
    BY <1>8, <1>10, <2>1, <2>2, PageOfPlace DEF Raw, Shown
<1>21. Covered(new, gone)
  <2> SUFFICES ASSUME NEW h \in Home, NEW p \in Page, gone[h][p] # Hole
               PROVE  \E g \in Page : new[g] = Tab(h, T(p))
    BY DEF Covered
  <2>1. h # d /\ mp[h][p] # Hole
    BY <1>10
  <2>2. PICK g \in Page : own[g] = Tab(h, T(p))
    BY <2>1 DEF Raw, Covered
  <2> QED
    BY <1>17, <2>1, <2>2, PlaceOfPage
<1>22. MapTypes(gone)
  BY <1>10 DEF Raw, MapTypes, Hole
<1>23. Raw(n, new, gone)
  BY <1>0, <1>6, <1>7, <1>14, <1>15, <1>16, <1>18, <1>19, <1>20, <1>21, <1>22 DEF Raw
<1>24. \A g \in Page : Mark(use, {d}, Free)[g] = Plain(new[g])
  BY <1>2, <1>9, Labels DEF Mark
<1> QED
  BY <1>23, <1>24 DEF Con, n, r, k, gone

\* Frame f is mapped at page p of the kernel's domain for a while: d is the result.
Temp(m, d, use, mp, f, p) ==
  /\ p \in Page /\ T(p) \in KernelTables /\ d.ptr = pmm_get_address(p)
  /\ d.m \in Quiet(m) /\ Con(d.m, use, PutRun(mp, Kernel, p, f, 1))
  /\ Access(d.m, d.ptr) = d.m /\ SeenAt(d.m, d.ptr) = f
  /\ mp[Kernel][p] = Hole
  /\ Anchored(Put(PutRun(mp, Kernel, p, f, 1), Kernel, p, Hole), Kernel, T(p))

LEMMA TempMap ==
  ASSUME NEW m, NEW use, NEW mp, Con(m, use, mp), Weak(mp), m.paging, NEW f \in Page, f # 0
  PROVE  LET d == vmm_map_physical_memory(m, pmm_get_address(f), PageSize, "KERNEL")
         IN  \/ d.m.short
             \/ \E p \in Page : Temp(m, d, use, mp, f, p)
<1> DEFINE d == vmm_map_physical_memory(m, pmm_get_address(f), PageSize, "KERNEL")
<1>0. m \in MemoryState /\ pmm_get_address(f) \in Address
  BY ConTyped, AddressOfPage
<1>1. d = MapAt(m, vmm_find_free(m, PageSize, "KERNEL"), pmm_get_address(f), PageSize, "KERNEL")
  BY DEF vmm_map_physical_memory
<1>2. d.m \in Quiet(m)
  BY <1>0, OnePage, MapPhysicalTyped DEF ResultTyped
<1>3. DomainHome(m, "KERNEL") = Kernel
  BY DEF DomainHome
<1>4. ASSUME NEW p \in Page, d.ptr = pmm_get_address(p), p + 1 <= PageNumber,
             FirstRoom(mp, Kernel, "KERNEL", p, 1), Con(d.m, use, PutRun(mp, Kernel, p, f, 1))
      PROVE  Temp(m, d, use, mp, f, p)
  <2> HIDE DEF d
  <2> DEFINE put == PutRun(mp, Kernel, p, f, 1)
  <2>1. p \in p .. p + 1 - 1
    BY DEF Page
  <2>2. p \in DomainPages("KERNEL") /\ mp[Kernel][p] = Hole
    BY <1>4, <2>1 DEF FirstRoom
  <2>3. T(p) \in KernelTables /\ T(p) # LastEntry
    <3>1. T(p) \in KernelTables
      BY <2>2 DEF DomainPages, T
    <3> QED
      BY <3>1, Indices
  <2>4. put[Kernel][p] = f /\ f # Hole
    <3>1. put[Kernel][p] = f + (p - p)
      BY <2>1, RunAt, KernelHome
    <3>2. f \in Nat /\ p \in Nat
      BY DEF Page
    <3>3. f + (p - p) = f
      BY <3>2
    <3>4. f # Hole
      BY KernelHome
    <3> HIDE DEF put
    <3> QED
      BY <3>1, <3>3, <3>4
  <2>5. Con(d.m, use, put)
    BY <1>4
  <2> HIDE DEF put
  <2>6. HomeOf(d.m.page_directory, T(p)) = Kernel
    BY <2>3 DEF HomeOf
  <2>7. Mapped(d.m, pmm_get_address(p)) /\ FrameAt(d.m, pmm_get_address(p)) = f
    BY <2>3, <2>4, <2>5, <2>6, ConMapped
  <2>8. d.m.paging
    BY <1>2 DEF Quiet
  <2>9. Access(d.m, d.ptr) = d.m /\ SeenAt(d.m, d.ptr) = f
    BY <1>4, <2>7, <2>8 DEF Access, SeenAt
  <2>10. Anchored(Put(put, Kernel, p, Hole), Kernel, T(p))
    BY <1>4, WeakKept DEF put, Page
  <2> QED
    BY <1>2, <1>4, <2>2, <2>3, <2>9, <2>10 DEF Temp, put
<1>5. f + PagesFor(PageSize) <= PageNumber
  BY OnePage DEF Page
<1> HIDE DEF d
<1>6. d.m.short \/ \E p \in Page :
        /\ d.ptr = pmm_get_address(p) /\ p # 0 /\ p + PagesFor(PageSize) <= PageNumber
        /\ FirstRoom(mp, DomainHome(m, "KERNEL"), "KERNEL", p, PagesFor(PageSize))
        /\ Con(d.m, use, PutRun(mp, DomainHome(m, "KERNEL"), p, f, PagesFor(PageSize)))
  BY <1>1, <1>5, OnePage, ConMapAt
<1> QED
  BY <1>3, <1>4, <1>6, OnePage DEF d

LEMMA TempUnmap ==
  ASSUME NEW m, NEW d, NEW use, NEW mp, NEW f, NEW p, Temp(m, d, use, mp, f, p),
         NEW n, n.paging, NEW use2, NEW mp2, Con(n, use2, PutRun(mp2, Kernel, p, f, 1)),
         \A q \in Page : mp2[Kernel][q] = mp[Kernel][q]
  PROVE  LET r == vmm_unmap_physical_memory(n, d.ptr, PageSize)
         IN  Con(r, use2, mp2) /\ SameRows(n, use2, r) /\ r \in Quiet(n)
<1> DEFINE r == vmm_unmap_physical_memory(n, d.ptr, PageSize)
           a == pmm_get_address(p)
           put == PutRun(mp2, Kernel, p, f, 1)
           new == Put(put, Kernel, p, Hole)
<1>0. p \in Page /\ T(p) \in KernelTables /\ d.ptr = a /\ mp[Kernel][p] = Hole
  BY DEF Temp
<1>1. n \in MemoryState
  BY ConTyped
<1>2. r = vmm_unmap(n, a)
  <2>1. p + PagesFor(PageSize) <= PageNumber
    BY <1>0, OnePage DEF Page
  <2>2. PageCount(a, PageSize) = 1
    BY <1>0, <2>1, OnePage, AlignedRange
  <2>3. pmm_get_page(a, 0) = p
    BY <1>0, AddressOfPage
  <2>4. r = UnmapLoop(n, p, 1)
    BY <1>0, <2>2, <2>3 DEF vmm_unmap_physical_memory, vmm_unmap_range
  <2>5. p \in Nat /\ 0 \in Nat /\ p + 0 = p /\ 0 + 1 = 1
    BY <1>0 DEF Page
  <2> HIDE DEF r, a
  <2>6. UnmapLoop(n, p, 0 + 1) = vmm_unmap(UnmapLoop(n, p, 0), pmm_get_address(p + 0))
        /\ UnmapLoop(n, p, 0) = n
    BY <1>1, <2>5, UnmapLoopRuns
  <2> QED
    BY <2>4, <2>5, <2>6 DEF a
<1>3. \A g \in Home, q \in Page :
        /\ new[g][q] = IF g = Kernel /\ q = p THEN Hole ELSE put[g][q]
        /\ put[g][q] = IF g = Kernel /\ q = p THEN f ELSE mp2[g][q]
  <2> SUFFICES ASSUME NEW g \in Home, NEW q \in Page
               PROVE  /\ new[g][q] = IF g = Kernel /\ q = p THEN Hole ELSE put[g][q]
                      /\ g = Kernel /\ q = p => put[g][q] = put[Kernel][p]
                      /\ ~ (g = Kernel /\ q = p) => put[g][q] = mp2[g][q]
    <3>1. put[Kernel][p] = f
      <4>1. put[Kernel][p] = f + (p - p) /\ SeenAt(d.m, d.ptr) = f
        <5>1. p \in p .. p + 1 - 1
          BY <1>0 DEF Page
        <5> QED
          BY <1>0, <5>1, RunAt, KernelHome DEF Temp
      <4>2. f \in Nat
        <5>1. d.ptr \in Nat /\ d.m \in MemoryState
          BY <1>0, AddressOfPage, ConTyped DEF Temp
        <5>2. SeenAt(d.m, d.ptr) \in Page
          BY <5>1, SeenTyped
        <5> QED
          BY <4>1, <5>2 DEF Page
      <4> QED
        BY <1>0, <4>1, <4>2 DEF Page
    <3> QED
      BY <3>1
  <2>1. q \in p .. p + 1 - 1 <=> q = p
    BY <1>0 DEF Page
  <2> QED
    BY <2>1, PutAt, RunAt
<1>4. \A g \in Home, q \in Page : new[g][q] = mp2[g][q]
  BY <1>0, <1>3
<1> HIDE DEF new, put, r, a
<1>5. Anchored(new, Kernel, T(p))
  <2> DEFINE old == Put(PutRun(mp, Kernel, p, f, 1), Kernel, p, Hole)
  <2>1. Anchored(old, Kernel, T(p))
    BY DEF Temp
  <2>2. \A q \in Page : old[Kernel][q] = mp[Kernel][q]
    <3> SUFFICES ASSUME NEW q \in Page PROVE old[Kernel][q] = mp[Kernel][q]
      OBVIOUS
    <3>1. q \in p .. p + 1 - 1 <=> q = p
      BY <1>0 DEF Page
    <3>2. old[Kernel][q] = IF q = p THEN Hole ELSE PutRun(mp, Kernel, p, f, 1)[Kernel][q]
      BY PutAt, KernelHome
    <3>3. q # p => PutRun(mp, Kernel, p, f, 1)[Kernel][q] = mp[Kernel][q]
      BY <3>1, RunAt, KernelHome
    <3> QED
      BY <1>0, <3>2, <3>3
  <2> HIDE DEF old
  <2>3. \A q \in Page : old[Kernel][q] = new[Kernel][q]
    BY <1>4, <2>2, KernelHome
  <2>4. \A i \in Index : PageAt(T(p), i) \in Page
    BY <1>0, Indices, PageOfPlace
  <2> QED
    BY <2>1, <2>3, <2>4, Indices DEF Anchored
<1>6. T(p) # LastEntry /\ HomeOf(n.page_directory, T(p)) = Kernel
  BY <1>0, Indices DEF HomeOf
<1>7. Con(r, use2, new) /\ SameRows(n, use2, r)
  <2>1. Con(n, use2, put)
    BY DEF put
  <2>2. LET h == HomeOf(n.page_directory, T(p)) IN Anchored(Put(put, h, p, Hole), h, T(p))
    BY <1>5, <1>6 DEF new
  <2>3. /\ Con(vmm_unmap(n, pmm_get_address(p)), use2,
               Put(put, HomeOf(n.page_directory, T(p)), p, Hole))
        /\ SameRows(n, use2, vmm_unmap(n, pmm_get_address(p)))
    BY <1>0, <1>6, <2>1, <2>2, ConUnmap
  <2> QED
    BY <1>2, <1>6, <2>3 DEF a, new
<1>8. r \in Quiet(n)
  BY <1>0, <1>1, <1>2, AddressOfPage, UnmapTyped DEF a
<1>9. Con(r, use2, mp2)
  BY <1>4, <1>7, ConEqual
<1> QED
  BY <1>7, <1>8, <1>9 DEF r

\* Entries of a directory are written.
Written(m, f, indices, row) ==
  [m EXCEPT !.tables[f] = [i \in Index |-> IF i \in indices THEN row[i] ELSE m.tables[f][i]]]

(* What a write to a directory does that is mapped for a while.            *)
LEMMA TempWrite ==
  ASSUME NEW m, NEW d, NEW use, NEW mp, NEW f \in Page, NEW p, Temp(m, d, use, mp, f, p), ~ m.fault,
         m.paging, NEW indices, NEW row,
         NEW use2, Con(Written(d.m, f, indices, row), use2, PutRun(mp, Kernel, p, f, 1))
  PROVE  LET r == WriteDirectory(d, indices, row)
         IN  /\ Con(r, use2, mp) /\ SameRows(Written(d.m, f, indices, row), use2, r)
             /\ r \in Quiet(m)
<1> DEFINE n == Written(d.m, f, indices, row)
           r == WriteDirectory(d, indices, row)
<1>0. d.m \in Quiet(m) /\ d.m \in MemoryState /\ Access(d.m, d.ptr) = d.m
      /\ SeenAt(d.m, d.ptr) = f
  BY ConTyped DEF Temp
<1>1. ~ d.m.fault
  BY <1>0 DEF Quiet
<1>2. r = vmm_unmap_physical_memory(n, d.ptr, PageSize)
  BY <1>0, <1>1 DEF WriteDirectory, Written
<1>3. /\ n.paging = m.paging /\ n.page_directory = m.page_directory
      /\ n.old_directory = m.old_directory /\ n.domain_check_enabled = m.domain_check_enabled
      /\ n.fault = m.fault /\ n.short = d.m.short
  BY <1>0 DEF Quiet, MemoryState, Written
<1>4. Con(n, use2, PutRun(mp, Kernel, p, f, 1))
  OBVIOUS
<1> HIDE DEF n, r
<1>5. Con(r, use2, mp) /\ SameRows(n, use2, r) /\ r \in Quiet(n)
  BY <1>2, <1>3, <1>4, TempUnmap
<1>6. r \in Quiet(m)
  BY <1>0, <1>3, <1>5 DEF Quiet, Later
<1> QED
  BY <1>5, <1>6 DEF r, n

LEMMA ConUse ==
  ASSUME NEW m, NEW use, NEW mp, Con(m, use, mp), NEW new, \A f \in Page : new[f] = use[f]
  PROVE  Con(m, new, mp)
BY DEF Con

(* A directory is created.                                                 *)
LEMMA ConCreate ==
  ASSUME NEW m, NEW use, NEW mp, Con(m, use, mp), Weak(mp), m.paging, ~ m.fault
  PROVE  LET a == vmm_create_page_directory(m)
         IN  \/ a.m.short
             \/ \E f \in Page : /\ a.ptr = pmm_get_address(f) /\ f # 0 /\ use[f] = Free
                                /\ Con(a.m, Mark(use, {f}, Directory), mp)
                                /\ a.m \in Quiet(m)
<1> DEFINE b == pmm_alloc(m, PageSize, "KERNEL")
           c == CreatedIn(b)
<1>0. m \in MemoryState /\ "KERNEL" \in Flags
  BY ConTyped DEF Flags
<1>1. b.m \in Quiet(m) /\ b.m \in MemoryState /\ b.ptr \in Address
  BY <1>0, OnePage, AllocTyped, QuietLater
<1>2. c.m \in Later(b.m) /\ c.ptr = b.ptr
  <2> HIDE DEF b
  <2> QED
    BY <1>1, CreatedTyped
<1>3. CASE b.m.short
  BY <1>2, <1>3 DEF Later, vmm_create_page_directory
<1>4. ASSUME NEW s \in Page, s # 0, b.ptr = pmm_get_address(s), use[s] = Free,
             Con(b.m, Mark(use, s .. s, Held), mp)
      PROVE  c.m.short \/ (c.m \in Quiet(m) /\ Con(c.m, Mark(use, {s}, Directory), mp))
  <2> DEFINE d == vmm_map_physical_memory(b.m, pmm_get_address(s), PageSize, "KERNEL")
             use1 == Mark(use, s .. s, Held)
             use2 == Mark(use1, {s}, Directory)
  <2>1. c.m = WriteDirectory(d, Index, NewRow(s))
    <3>1. pmm_get_page(b.ptr, 0) = s
      BY <1>4, AddressOfPage
    <3> QED
      BY <1>4, <3>1 DEF CreatedIn, Result, NewRow
  <2>2. b.m.paging /\ ~ b.m.fault
    BY <1>1 DEF Quiet
  <2>3. use1[s] = Held
    BY DEF Mark, Page
  <2>4. ResultTyped(b.m, d)
    <3> HIDE DEF b
    <3> QED
      BY <1>1, OnePage, AddressOfPage, MapPhysicalTyped
  <2>5. Con(b.m, use1, mp)
    BY <1>4
  <2> HIDE DEF d, b, c, use1
  <2>6. d.m.short \/ \E p \in Page : Temp(b.m, d, use1, mp, s, p)
    BY <1>4, <2>2, <2>5, TempMap DEF d
  <2>7. CASE d.m.short
    <3>1. d.m \in MemoryState /\ d.ptr \in Nat
      BY <1>1, <2>4, QuietLater, Pointers DEF ResultTyped
    <3>2. WriteDirectory(d, Index, NewRow(s)) \in Later(d.m)
      BY <3>1, NewRowTyped, WriteTyped
    <3> QED
      BY <2>1, <2>7, <3>2 DEF Later
  <2>8. ASSUME NEW p \in Page, Temp(b.m, d, use1, mp, s, p)
        PROVE  c.m \in Quiet(m) /\ Con(c.m, Mark(use, {s}, Directory), mp)
    <3>1. [i \in Index |-> IF i \in Index THEN NewRow(s)[i] ELSE d.m.tables[s][i]] = NewRow(s)
      BY NewRowTyped
    <3>2. Con(d.m, use1, PutRun(mp, Kernel, p, s, 1))
      BY <2>8 DEF Temp
    <3>3. Con([d.m EXCEPT !.tables[s] = NewRow(s)], use2, PutRun(mp, Kernel, p, s, 1))
      BY <2>3, <3>2, ConNewDirectory
    <3>4. Con(Written(d.m, s, Index, NewRow(s)), use2, PutRun(mp, Kernel, p, s, 1))
      BY <3>1, <3>3 DEF Written
    <3> HIDE DEF use2
    <3>6. Con(c.m, use2, mp) /\ c.m \in Quiet(b.m)
      BY <2>1, <2>2, <2>8, <3>4, TempWrite
    <3>7. \A g \in Page : Mark(use, {s}, Directory)[g] = use2[g]
      BY DEF Mark, use2, use1, Page
    <3>8. Con(c.m, Mark(use, {s}, Directory), mp)
      BY <3>6, <3>7, ConUse
    <3> QED
      BY <1>0, <1>1, <3>6, <3>8, QuietLater
  <2> QED
    BY <2>6, <2>7, <2>8
<1>5. \/ b.m.short
      \/ \E s \in Page : /\ s # 0 /\ b.ptr = pmm_get_address(s) /\ use[s] = Free
                         /\ Con(b.m, Mark(use, s .. s, Held), mp)
  <2> HIDE DEF b
  <2>1. \/ b.ptr = 0 /\ b.m.short
        \/ \E s \in Page :
             /\ s # 0 /\ b.ptr = pmm_get_address(s)
             /\ Con(b.m, Mark(use, s .. s + 1 - 1, Held), mp)
             /\ \A f \in s .. s + 1 - 1 : use[f] = Free
    BY OnePage, ConAlloc DEF b
  <2>2. \A s \in Page : s + 1 - 1 = s /\ s \in s .. s
    BY DEF Page
  <2> QED
    BY <2>1, <2>2
<1> HIDE DEF b, c
<1>6. vmm_create_page_directory(m) = c
  BY DEF vmm_create_page_directory, b, c
<1> QED
  BY <1>2, <1>3, <1>4, <1>5, <1>6

\* What changes while directories are loaded and modified.
Stays(m, n) ==
  /\ n.paging = m.paging /\ n.domain_check_enabled = m.domain_check_enabled /\ n.fault = m.fault

(* The kernel's tables are copied into a directory.                        *)
LEMMA ConRefresh ==
  ASSUME NEW m, NEW use, NEW mp, Con(m, use, mp), Weak(mp), m.paging, ~ m.fault, NEW f \in Page,
         f # 0, use[f] \in {Directory, Boot}
  PROVE  LET r == vmm_refresh_page_directory(m, pmm_get_address(f))
         IN  r.short \/ (/\ Con(r, use, mp) /\ r \in Quiet(m)
                         /\ \A t \in KernelTables : r.tables[f][t] = Dir(r)[t])
<1> DEFINE d == vmm_map_physical_memory(m, pmm_get_address(f), PageSize, "KERNEL")
           r == WriteDirectory(d, KernelTables, Dir(d.m))
<1>0. m \in MemoryState
  BY ConTyped
<1>1. vmm_refresh_page_directory(m, pmm_get_address(f)) = r
  BY DEF vmm_refresh_page_directory, CopyKernelTables
<1>2. ResultTyped(m, d)
  BY <1>0, OnePage, AddressOfPage, MapPhysicalTyped
<1> HIDE DEF d
<1>3. d.m \in MemoryState /\ d.ptr \in Nat /\ Dir(d.m) \in [Index -> Entry]
  <2>1. d.m \in MemoryState /\ d.ptr \in Nat
    BY <1>0, <1>2, QuietLater, Pointers DEF ResultTyped
  <2> QED
    BY <2>1, StateFields DEF TableRows, Dir
<1>4. r \in Later(d.m)
  BY <1>3, WriteTyped
<1>5. CASE d.m.short
  BY <1>1, <1>4, <1>5 DEF Later
<1>6. ASSUME NEW p \in Page, Temp(m, d, use, mp, f, p)
      PROVE  /\ Con(r, use, mp) /\ r \in Quiet(m)
             /\ \A t \in KernelTables : r.tables[f][t] = Dir(r)[t]
  <2> DEFINE row == [i \in Index |-> IF i \in KernelTables THEN Dir(d.m)[i] ELSE d.m.tables[f][i]]
             n == Written(d.m, f, KernelTables, Dir(d.m))
             cur == m.page_directory
  <2>1. row = CopiedRow(d.m, f)
    BY DEF CopiedRow
  <2>2. Con(d.m, use, PutRun(mp, Kernel, p, f, 1)) /\ d.m \in Quiet(m)
    BY <1>6 DEF Temp
  <2>3. Con([d.m EXCEPT !.tables[f] = CopiedRow(d.m, f)], use, PutRun(mp, Kernel, p, f, 1))
    BY <2>2, ConCopy
  <2>4. Con(n, use, PutRun(mp, Kernel, p, f, 1))
    BY <2>1, <2>3 DEF Written
  <2>5. Con(r, use, mp) /\ SameRows(n, use, r) /\ r \in Quiet(m) /\ r.page_directory = cur
    <3>1. Con(r, use, mp) /\ SameRows(n, use, r) /\ r \in Quiet(m)
      BY <1>6, <2>4, TempWrite
    <3> QED
      BY <3>1 DEF Quiet
  <2>7. cur \in Page /\ use[cur] \in {Directory, Boot} /\ d.m.page_directory = cur
    BY <2>2, ConTyped DEF Quiet
  <2>8. \A t \in KernelTables : n.tables[f][t] = n.tables[cur][t]
    <3>1. n.tables[f] = row /\ (f # cur => n.tables[cur] = d.m.tables[cur])
      BY <1>3, <2>7, StateFields DEF MemoryState, TableRows, Written
    <3>2. \A t \in KernelTables : row[t] = d.m.tables[cur][t]
      BY <2>7, Indices DEF Dir
    <3> QED
      BY <3>1, <3>2
  <2> HIDE DEF r, n
  <2>9. \A t \in KernelTables : r.tables[f][t] = r.tables[cur][t]
    BY <2>5, <2>7, <2>8 DEF SameRows
  <2> QED
    BY <2>5, <2>9 DEF Dir, r
<1>7. d.m.short \/ \E p \in Page : Temp(m, d, use, mp, f, p)
  BY TempMap DEF d
<1> QED
  BY <1>1, <1>5, <1>6, <1>7

(* A directory is loaded.                                                  *)
LEMMA ConLoadDir ==
  ASSUME NEW m, NEW use, NEW mp, Con(m, use, mp), Weak(mp), m.paging, ~ m.fault, NEW f \in Page,
         f # 0, use[f] \in {Directory, Boot}
  PROVE  LET r == vmm_load_page_directory(m, pmm_get_address(f)).m
         IN  r.short \/ (/\ Con(r, use, mp) /\ r.page_directory = f
                         /\ r.old_directory = m.old_directory /\ Stays(m, r))
<1> DEFINE n == vmm_refresh_page_directory(m, pmm_get_address(f))
           r == [n EXCEPT !.page_directory = f]
<1>0. m \in MemoryState
  BY ConTyped
<1>1. vmm_load_page_directory(m, pmm_get_address(f)).m = r
  BY AddressOfPage DEF vmm_load_page_directory, Result
<1>2. n \in MemoryState
  BY <1>0, AddressOfPage, RefreshTyped, QuietLater
<1>3. n.short \/ (/\ Con(n, use, mp) /\ n \in Quiet(m)
                  /\ \A t \in KernelTables : n.tables[f][t] = Dir(n)[t])
  BY ConRefresh
<1> HIDE DEF n
<1>4. r.short = n.short /\ r.page_directory = f /\ r.old_directory = n.old_directory /\ Stays(n, r)
  BY <1>2 DEF MemoryState, Stays
<1>5. Con(n, use, mp) /\ (\A t \in KernelTables : n.tables[f][t] = Dir(n)[t]) => Con(r, use, mp)
  BY ConLoad
<1> QED
  BY <1>1, <1>3, <1>4, <1>5 DEF Quiet, Stays

(* A directory that is not loaded is destroyed.                            *)
LEMMA ConDestroy ==
  ASSUME NEW m, NEW use, NEW mp, Con(m, use, mp), Weak(mp), m.paging, ~ m.fault, NEW f \in Page,
         f # 0, use[f] = Directory, f # m.page_directory
  PROVE  LET r == vmm_destroy_page_directory(m, pmm_get_address(f))
         IN  r.short \/ (Con(r, Mark(use, {f}, Free), Emptied(mp, f)) /\ r \in Quiet(m))
<1> DEFINE d == vmm_map_physical_memory(m, pmm_get_address(f), PageSize, "KERNEL")
           r == DestroyMapped(d)
           k == [d.m EXCEPT !.page_directory = f]
           n == [FreeTables(k) EXCEPT !.page_directory = d.m.page_directory]
           gone == Emptied(mp, f)
           use2 == Mark(use, {f}, Free)
<1>0. m \in MemoryState
  BY ConTyped
<1>1. vmm_destroy_page_directory(m, pmm_get_address(f)) = r
  BY DEF vmm_destroy_page_directory
<1>2. ResultTyped(m, d)
  BY <1>0, OnePage, AddressOfPage, MapPhysicalTyped
<1>3. r \in Later(m)
  BY <1>0, <1>1, AddressOfPage, DestroyTyped
<1>4. d.m \in MemoryState /\ d.ptr \in Nat
  BY <1>0, <1>2, QuietLater, Pointers DEF ResultTyped
<1>5. k \in MemoryState
  <2> HIDE DEF d
  <2> QED
    BY <1>4, Updates, QuietLater
<1>6. FreeTables(k) \in Quiet(k)
  <2> HIDE DEF k
  <2> QED
    BY <1>5, FreeTablesTyped
<1>7. n \in Later(d.m)
  <2>1. FreeTables(k) \in MemoryState /\ k.short = d.m.short
    BY <1>4, <1>5, <1>6, QuietLater DEF MemoryState
  <2>2. d.m.page_directory \in Page
    BY <1>4, StateFields
  <2> HIDE DEF d, k
  <2>3. n \in Later(FreeTables(k))
    BY <2>1, <2>2, Updates
  <2> QED
    BY <1>6, <2>1, <2>3 DEF Quiet, Later
<1>8. CASE d.m.short
  <2>1. Access(d.m, d.ptr) \in Later(d.m)
    BY <1>4, AccessTyped
  <2>2. r = Access(d.m, d.ptr) \/ r = vmm_unmap_physical_memory(
          [FreeTables([d.m EXCEPT !.page_directory = SeenAt(d.m, d.ptr)]) EXCEPT
             !.page_directory = d.m.page_directory], d.ptr, PageSize)
    BY DEF DestroyMapped
  <2> DEFINE kk == [d.m EXCEPT !.page_directory = SeenAt(d.m, d.ptr)]
             nn == [FreeTables(kk) EXCEPT !.page_directory = d.m.page_directory]
  <2>3. kk \in Later(d.m) /\ kk \in MemoryState
    <3>1. SeenAt(d.m, d.ptr) \in Page
      BY <1>4, SeenTyped
    <3> HIDE DEF d
    <3> QED
      BY <1>4, <3>1, Updates, QuietLater
  <2> HIDE DEF kk, d, r
  <2>4. FreeTables(kk) \in Later(kk) /\ FreeTables(kk) \in MemoryState
    BY <2>3, FreeTablesTyped, QuietLater
  <2>5. nn \in Later(FreeTables(kk)) /\ nn \in MemoryState
    <3>1. d.m.page_directory \in Page
      BY <1>4, StateFields
    <3> QED
      BY <2>4, <3>1, Updates, QuietLater
  <2> HIDE DEF nn
  <2>6. vmm_unmap_physical_memory(nn, d.ptr, PageSize) \in Quiet(nn)
    BY <1>4, <2>5, OnePage, UnmapPhysicalTyped
  <2>7. r.short
    BY <1>8, <2>1, <2>2, <2>3, <2>4, <2>5, <2>6 DEF Quiet, Later, kk, nn
  <2> QED
    BY <1>1, <2>7
<1>9. ASSUME NEW p \in Page, Temp(m, d, use, mp, f, p)
      PROVE  Con(r, use2, gone) /\ r \in Quiet(m)
  <2> DEFINE put == PutRun(mp, Kernel, p, f, 1)
  <2>1. /\ d.m \in Quiet(m) /\ Con(d.m, use, put)
        /\ Access(d.m, d.ptr) = d.m /\ SeenAt(d.m, d.ptr) = f
    BY <1>9 DEF Temp
  <2>2. r = vmm_unmap_physical_memory(n, d.ptr, PageSize)
    BY <2>1 DEF DestroyMapped, Quiet
  <2> HIDE DEF put, d, r
  <2>3. d.m.page_directory = m.page_directory /\ d.m.old_directory = m.old_directory
        /\ Stays(m, d.m)
    BY <2>1 DEF Quiet, Stays
  <2>4. Con(n, use2, Emptied(put, f))
    BY <2>1, <2>3, ConDrop
  <2>5. n.paging = m.paging /\ n.old_directory = m.old_directory
        /\ n.page_directory = m.page_directory /\ Stays(m, n)
    <3>1. k.paging = m.paging /\ k.old_directory = m.old_directory /\ Stays(m, k)
      BY <1>4, <2>3 DEF MemoryState, Stays
    <3>2. FreeTables(k) \in MemoryState /\ FreeTables(k).paging = m.paging
          /\ FreeTables(k).old_directory = m.old_directory /\ Stays(m, FreeTables(k))
      BY <1>5, <1>6, <3>1, QuietLater DEF Quiet, Stays
    <3> HIDE DEF k
    <3> QED
      BY <2>3, <3>2 DEF MemoryState, Stays
  <2>6. \A g \in Home, q \in Page : PutRun(gone, Kernel, p, f, 1)[g][q] = Emptied(put, f)[g][q]
    <3> SUFFICES ASSUME NEW g \in Home, NEW q \in Page
                 PROVE  PutRun(gone, Kernel, p, f, 1)[g][q] = Emptied(put, f)[g][q]
      OBVIOUS
    <3>1. Emptied(put, f)[g][q] = IF g = f THEN Hole ELSE put[g][q]
      BY DEF Emptied
    <3>2. gone[g][q] = IF g = f THEN Hole ELSE mp[g][q]
      BY DEF Emptied
    <3>3. f # Kernel
      BY KernelHome
    <3> HIDE DEF gone
    <3>4. PutRun(gone, Kernel, p, f, 1)[g][q]
          = IF g = Kernel /\ q \in p .. p + 1 - 1 THEN f + (q - p) ELSE gone[g][q]
      BY RunAt
    <3>5. put[g][q] = IF g = Kernel /\ q \in p .. p + 1 - 1 THEN f + (q - p) ELSE mp[g][q]
      BY RunAt DEF put
    <3> QED
      BY <3>1, <3>2, <3>3, <3>4, <3>5
  <2>7. \A q \in Page : gone[Kernel][q] = mp[Kernel][q]
    BY KernelHome DEF Emptied
  <2> HIDE DEF n, gone, use2
  <2>8. Con(n, use2, PutRun(gone, Kernel, p, f, 1))
    BY <2>4, <2>6, ConEqual
  <2>9. Con(r, use2, gone) /\ r \in Quiet(n)
    <3>1. n.paging
      BY <2>5
    <3> HIDE DEF k
    <3>2. /\ Con(vmm_unmap_physical_memory(n, d.ptr, PageSize), use2, gone)
          /\ vmm_unmap_physical_memory(n, d.ptr, PageSize) \in Quiet(n)
      BY <1>9, <2>7, <2>8, <3>1, TempUnmap
    <3> QED
      BY <2>2, <3>2
  <2>10. r \in Quiet(m)
    BY <1>3, <2>5, <2>9 DEF Quiet, Stays
  <2> QED
    BY <2>9, <2>10
<1>10. d.m.short \/ \E p \in Page : Temp(m, d, use, mp, f, p)
  BY TempMap
<1> QED
  BY <1>1, <1>8, <1>9, <1>10

\* The frames s .. s + n - 1 hold the pages from p on of home h.
Tagged(use, h, p, s, n) ==
  [f \in Page |-> IF f \in s .. s + n - 1 THEN Pag(h, p + (f - s)) ELSE use[f]]

LEMMA ConTag ==
  ASSUME NEW m, NEW use, NEW mp, NEW s \in Page, NEW n \in Nat \ {0}, NEW p \in Page, NEW h \in Home,
         Con(m, Mark(use, s .. s + n - 1, Held), mp), p + n <= PageNumber
  PROVE  Con(m, Tagged(use, h, p, s, n), mp)
<1> DEFINE F == s .. s + n - 1
           old == Mark(use, F, Held)
           new == Tagged(use, h, p, s, n)
           L == {Held, Fixed} \union {Pag(g, q) : g \in Home, q \in Page}
<1>1. ASSUME NEW f \in Page, f \in F
      PROVE  {new[f], old[f]} \subseteq L
  <2>1. p + (f - s) \in Page
    BY <1>1 DEF Page
  <2>2. new[f] = Pag(h, p + (f - s)) /\ old[f] = Held
    BY <1>1 DEF Tagged, Mark
  <2> QED
    BY <2>1, <2>2
<1>2. \A f \in Page : f \notin F => new[f] = old[f]
  BY DEF Tagged, Mark
<1>3. Con(m, old, mp)
  OBVIOUS
<1> HIDE DEF new, old, F
<1>4. \A f \in Page : new[f] = old[f] \/ {new[f], old[f]} \subseteq L
  BY <1>1, <1>2
<1>5. m \in MemoryState
  BY <1>3, ConTyped
<1>6. Con(m, new, mp)
  BY <1>3, <1>4, <1>5, ConFrames
<1> QED
  BY <1>6 DEF new

\* The frames are free, and not among the low ones.
Unused(use, s, n) ==
  /\ s \in Page /\ s # 0 /\ s + n <= PageNumber
  /\ \A f \in s .. s + n - 1 : f \in Page /\ use[f] = Free /\ f >= VideoPage

(* Memory is allocated: frames, and the first place with room for them.    *)
LEMMA ConAllocate ==
  ASSUME NEW m, NEW use, NEW mp, Con(m, use, mp), m.paging, NEW len \in Nat \ {0},
         NEW flags \in {"KERNEL", "USER"}, flags = "USER" => use[m.page_directory] # Boot
  PROVE  LET r == vmm_alloc(m, len, flags)
             n == PagesFor(len)
             h == DomainHome(m, flags)
         IN  \/ r.m.short
             \/ \E p \in Page, s \in Page :
                  /\ r.ptr = pmm_get_address(p) /\ p # 0 /\ p + n <= PageNumber
                  /\ Unused(use, s, n) /\ FirstRoom(mp, h, flags, p, n)
                  /\ Con(r.m, Tagged(use, h, p, s, n), PutRun(mp, h, p, s, n))
<1> DEFINE a == pmm_alloc(m, len, flags)
           r == vmm_alloc(m, len, flags)
           n == PagesFor(len)
           h == DomainHome(m, flags)
<1>0. m \in MemoryState /\ n \in Nat \ {0} /\ flags \in Flags
      /\ use[m.page_directory] \in {Directory, Boot} /\ m.page_directory \in Page
  BY ConTyped, PagesForType DEF Flags
<1>1. r = MapAllocated(a, len, flags)
  BY DEF vmm_alloc
<1>2. a.m \in Quiet(m)
  BY <1>0, AllocTyped
<1>3. a.ptr = 0 /\ a.m.short => r.m.short
  BY <1>1 DEF MapAllocated
<1>4. ASSUME NEW s \in Page, s # 0, s + n <= PageNumber, a.ptr = pmm_get_address(s), a.ptr # 0,
             Con(a.m, Mark(use, s .. s + n - 1, Held), mp),
             \A f \in s .. s + n - 1 : f \in Page /\ use[f] = Free /\ f >= VideoPage
      PROVE  r.m.short \/
             \E p \in Page : /\ r.ptr = pmm_get_address(p) /\ p # 0 /\ p + n <= PageNumber
                             /\ Unused(use, s, n) /\ FirstRoom(mp, h, flags, p, n)
                             /\ Con(r.m, Tagged(use, h, p, s, n), PutRun(mp, h, p, s, n))
  <2> DEFINE old == Mark(use, s .. s + n - 1, Held)
  <2>1. r = MapAt(a.m, vmm_find_free(a.m, len, flags), pmm_get_address(s), len, flags)
    BY <1>1, <1>4 DEF MapAllocated
  <2> HIDE DEF r, a
  <2>2. a.m.paging /\ a.m.page_directory = m.page_directory
    BY <1>2 DEF Quiet
  <2>3. DomainHome(a.m, flags) = h
    BY <2>2 DEF DomainHome
  <2>4. old[m.page_directory] = use[m.page_directory]
    BY <1>0, <1>4, Labels DEF Mark
  <2>5. Con(a.m, old, mp)
    BY <1>4
  <2> HIDE DEF old, n, h
  <2>6. \/ r.m.short
        \/ \E p \in Page : /\ r.ptr = pmm_get_address(p) /\ p # 0 /\ p + n <= PageNumber
                           /\ FirstRoom(mp, h, flags, p, n)
                           /\ Con(r.m, old, PutRun(mp, h, p, s, n))
    BY <1>4, <2>1, <2>2, <2>3, <2>4, <2>5, ConMapAt DEF n
  <2>7. h \in Home
    BY <1>0 DEF h, DomainHome, Home, Kernel, Page
  <2>8. \A p \in Page : p + n <= PageNumber /\ Con(r.m, old, PutRun(mp, h, p, s, n))
                        => Con(r.m, Tagged(use, h, p, s, n), PutRun(mp, h, p, s, n))
    BY <1>0, <2>7, ConTag DEF old
  <2>9. Unused(use, s, n)
    BY <1>4 DEF Unused
  <2> QED
    BY <2>6, <2>8, <2>9
<1>5. \/ a.ptr = 0 /\ a.m.short
      \/ \E s \in Page :
           /\ s # 0 /\ s + n <= PageNumber /\ a.ptr = pmm_get_address(s) /\ a.ptr # 0
           /\ Con(a.m, Mark(use, s .. s + n - 1, Held), mp)
           /\ \A f \in s .. s + n - 1 : f \in Page /\ use[f] = Free /\ f >= VideoPage
  BY ConAlloc
<1> HIDE DEF r, a, n, h
<1>6. \/ r.m.short
      \/ \E p \in Page, s \in Page :
           /\ r.ptr = pmm_get_address(p) /\ p # 0 /\ p + n <= PageNumber
           /\ Unused(use, s, n) /\ FirstRoom(mp, h, flags, p, n)
           /\ Con(r.m, Tagged(use, h, p, s, n), PutRun(mp, h, p, s, n))
  BY <1>3, <1>4, <1>5
<1> QED
  BY <1>6 DEF r, n, h

(* Memory is allocated for pages that are given.                           *)
LEMMA ConUseVirtual ==
  ASSUME NEW m, NEW use, NEW mp, Con(m, use, mp), m.paging, NEW len \in Nat \ {0}, NEW p \in Page,
         p + PagesFor(len) <= PageNumber, use[m.page_directory] # Boot,
         \A q \in p .. p + PagesFor(len) - 1 :
           q \in DomainPages("USER") /\ mp[m.page_directory][q] = Hole
  PROVE  LET r == vmm_use_virtual_memory(m, pmm_get_address(p), len, "USER")
             n == PagesFor(len)
             h == m.page_directory
         IN  \/ r.m.short
             \/ \E s \in Page : /\ Unused(use, s, n)
                                /\ Con(r.m, Tagged(use, h, p, s, n), PutRun(mp, h, p, s, n))
<1> DEFINE a == pmm_alloc(m, len, "USER")
           v == pmm_get_address(p)
           r == vmm_use_virtual_memory(m, v, len, "USER")
           n == PagesFor(len)
           h == m.page_directory
<1>0. m \in MemoryState /\ n \in Nat \ {0} /\ "USER" \in Flags
      /\ use[h] \in {Directory, Boot} /\ h \in Page
  BY ConTyped, PagesForType DEF Flags
<1>1. p \in p .. p + n - 1
  BY <1>0 DEF Page
<1>2. vmm_domain_check(m, v, "USER")
  BY <1>1, AddressOfPage DEF vmm_domain_check
<1>3. a.m \in Quiet(m)
  BY <1>0, AllocTyped
<1>4. CASE a.ptr = 0 /\ a.m.short
  BY <1>2, <1>4 DEF vmm_use_virtual_memory
<1>5. ASSUME NEW s \in Page, s # 0, s + n <= PageNumber, a.ptr = pmm_get_address(s), a.ptr # 0,
             Con(a.m, Mark(use, s .. s + n - 1, Held), mp),
             \A f \in s .. s + n - 1 : f \in Page /\ use[f] = Free /\ f >= VideoPage
      PROVE  r.m.short \/ (/\ Unused(use, s, n)
                           /\ Con(r.m, Tagged(use, h, p, s, n), PutRun(mp, h, p, s, n)))
  <2> DEFINE old == Mark(use, s .. s + n - 1, Held)
  <2>1. r.m = vmm_map_range(a.m, v, pmm_get_address(s), len, "USER")
    BY <1>2, <1>5 DEF vmm_use_virtual_memory, Result
  <2>2. a.m.paging /\ a.m.page_directory = h
    BY <1>3 DEF Quiet
  <2>3. old[h] = use[h]
    BY <1>0, <1>5, Labels DEF Mark
  <2>4. \A q \in p .. p + n - 1 : q \in DomainPages("USER") /\ mp[h][q] = Hole
    OBVIOUS
  <2>5. Con(a.m, old, mp)
    BY <1>5
  <2> HIDE DEF a, r, n, h, old, v
  <2>6. \A q \in p .. p + n - 1 : T(q) # LastEntry /\ HomeOf(h, T(q)) = h
    <3> SUFFICES ASSUME NEW q \in p .. p + n - 1 PROVE T(q) # LastEntry /\ HomeOf(h, T(q)) = h
      OBVIOUS
    <3>1. q \in DomainPages("USER")
      BY <2>4
    <3>2. T(q) \in UserTables
      BY <3>1 DEF DomainPages, T
    <3> QED
      BY <3>2, Indices DEF HomeOf
  <2>7. Room(a.m, old, mp, h, p, s, n, "USER")
    <3>1. h \in Home /\ p \in Nat /\ s \in Nat /\ n \in Nat /\ p + n <= PageNumber
      BY <1>0 DEF Home, Page, n
    <3> QED
      BY <1>5, <2>2, <2>3, <2>4, <2>6, <3>1 DEF Room, h
  <2>8. \/ vmm_map_range(a.m, pmm_get_address(p), pmm_get_address(s), len, "USER").short
        \/ Con(vmm_map_range(a.m, pmm_get_address(p), pmm_get_address(s), len, "USER"), old,
               PutRun(mp, h, p, s, n))
    BY <2>5, <2>7, ConMapRange DEF n
  <2>9. r.m.short \/ Con(r.m, old, PutRun(mp, h, p, s, n))
    BY <2>1, <2>8 DEF v
  <2>10. h \in Home /\ p + n <= PageNumber
    BY <1>0 DEF Home, Page, n
  <2>11. Con(r.m, old, PutRun(mp, h, p, s, n))
         => Con(r.m, Tagged(use, h, p, s, n), PutRun(mp, h, p, s, n))
    BY <1>0, <2>10, ConTag DEF old
  <2>12. Unused(use, s, n)
    BY <1>5 DEF Unused
  <2> QED
    BY <2>9, <2>11, <2>12
<1>6. \/ a.ptr = 0 /\ a.m.short
      \/ \E s \in Page :
           /\ s # 0 /\ s + n <= PageNumber /\ a.ptr = pmm_get_address(s) /\ a.ptr # 0
           /\ Con(a.m, Mark(use, s .. s + n - 1, Held), mp)
           /\ \A f \in s .. s + n - 1 : f \in Page /\ use[f] = Free /\ f >= VideoPage
  BY ConAlloc
<1> HIDE DEF a, n, h
<1> QED
  BY <1>4, <1>5, <1>6 DEF n, h

(* What is mapped at a page is freed.                                      *)
LEMMA ConRelease ==
  ASSUME NEW m, NEW use, NEW mp, Con(m, use, mp), m.paging, NEW len \in Nat \ {0}, NEW p \in Page,
         NEW h \in Home, NEW s \in Page, p + PagesFor(len) <= PageNumber, s + PagesFor(len) <= PageNumber,
         Kept(mp, h, p, PagesFor(len)), mp[h][p] = s,
         \A q \in p .. p + PagesFor(len) - 1 : T(q) # LastEntry /\ HomeOf(m.page_directory, T(q)) = h,
         \A f \in s .. s + PagesFor(len) - 1 :
           use[f] \notin {Free, Directory, Boot} /\ f >= VideoPage
  PROVE  LET n == PagesFor(len)
         IN  Con(vmm_free(m, pmm_get_address(p), len), Mark(use, s .. s + n - 1, Free),
                 HoleRun(mp, h, p, n))
<1> DEFINE n == PagesFor(len)
           v == pmm_get_address(p)
           u == vmm_unmap_range(m, v, len)
<1>0. n \in Nat \ {0} /\ m \in MemoryState /\ p \in p .. p + n - 1 /\ p \in Nat
  BY PagesForType, ConTyped DEF Page
<1>1. T(p) # LastEntry /\ HomeOf(m.page_directory, T(p)) = h
  BY <1>0
<1>2. Mapped(m, v) /\ FrameAt(m, v) = s
  BY <1>1, ConMapped, KernelHome
<1>3. v \in Nat /\ v % PageSize = 0 /\ pmm_get_address(s) \in Nat
  <2>1. p \in Nat /\ v = p * PageSize + 0 /\ 0 \in 0 .. PageSize - 1
    BY DEF pmm_get_address, Page
  <2>2. (p * PageSize + 0) % PageSize = 0
    BY <2>1, Quotient
  <2> QED
    BY <2>1, <2>2, AddressOfPage
<1>4. vmm_get_physical_address(m, v) = pmm_get_address(s)
  BY <1>2, <1>3 DEF vmm_get_physical_address
<1>5. u = UnmapLoop(m, p, n)
  <2>1. PageCount(v, len) = n /\ pmm_get_page(v, 0) = p
    BY AlignedRange, AddressOfPage
  <2> QED
    BY <2>1 DEF vmm_unmap_range
<1> HIDE DEF n, u, v
<1>6. Con(u, use, HoleRun(mp, h, p, n))
  BY <1>0, <1>5, ConUnmapLoop DEF n
<1>7. Con(pmm_free(u, pmm_get_address(s), len), Mark(use, s .. s + n - 1, Free), HoleRun(mp, h, p, n))
  BY <1>6, ConFree DEF n
<1>8. vmm_free(m, v, len) = pmm_free(u, pmm_get_address(s), len)
  BY <1>4 DEF vmm_free, u
<1> QED
  BY <1>7, <1>8 DEF n, v

-----------------------------------------------------------------------------
(* The layout of the memory: directories D, the pages L of the first table *)
(* that are mapped to the same frames, the blocks R that have been         *)
(* allocated, the kernel's own pages V, and the first directory.           *)

Block(key, h, p, n) == [key |-> key, home |-> h, page |-> p, count |-> n]
PagesIn(b) == b.page .. b.page + b.count - 1
HomeDomain(h) == IF h = Kernel THEN DomainPages("KERNEL") ELSE DomainPages("USER")

BlocksTyped(D, R) ==
  \A b \in R : /\ b.home \in D \union {Kernel} /\ b.page \in Page
               /\ b.count \in Nat \ {0} /\ b.page + b.count <= PageNumber
               /\ PagesIn(b) \subseteq HomeDomain(b.home)

Labelled(use, D, V, boot) ==
  \A f \in Page :
    /\ use[f] \in {Free, Fixed, Directory, Boot} \union {Pag(h, p) : h \in Home, p \in Page}
    /\ use[f] = Directory <=> f \in D
    /\ use[f] = Boot <=> f = boot
    /\ use[f] = Fixed <=> \E p \in DOMAIN V.own : V.own[p] = f

\* The first frame of a block; the others follow.
FrameOf(mp, b) == mp[b.home][b.page]

Placed(use, mp, R) ==
  \A b \in R :
    /\ FrameOf(mp, b) \in Page /\ FrameOf(mp, b) + b.count <= PageNumber
    /\ \A q \in PagesIn(b) :
         LET f == FrameOf(mp, b) + (q - b.page)
         IN  mp[b.home][q] = f /\ use[f] = Pag(b.home, q) /\ f >= VideoPage

Sourced(use, mp, R) ==
  \A f \in Page, h \in Home, p \in Page : use[f] = Pag(h, p) =>
    mp[h][p] = f /\ \E b \in R : b.home = h /\ p \in PagesIn(b)

Apart(R) ==
  \A b, c \in R : b.home = c.home /\ (\E q : q \in PagesIn(b) /\ q \in PagesIn(c)) => b = c

LowMapped(mp, D, L) ==
  /\ \A x \in L : x[1] \in D
  /\ \A d \in D, p \in Page : T(p) = 0 =>
       /\ mp[d][p] # Hole <=> <<d, p>> \in L
       /\ mp[d][p] # Hole => mp[d][p] = p /\ I(p) # LastEntry

\* V tells the pages of the kernel that no task has allocated, and their frames (own),
\* and the first frames of blocks that are followed from one state to the next (pins).
OwnMapped(mp, V) ==
  \A p \in DOMAIN V.own : p \in DomainPages("KERNEL") /\ V.own[p] \in Page /\ mp[Kernel][p] = V.own[p]

NoMore(mp, R, V) ==
  \A h \in Home, p \in Page : mp[h][p] # Hole =>
    T(p) = 0 \/ (h = Kernel /\ p \in DOMAIN V.own) \/ \E b \in R : b.home = h /\ p \in PagesIn(b)

\* Blocks whose frames are known.
Pinned(mp, R, V) == \A b \in DOMAIN V.pins : b \in R /\ FrameOf(mp, b) = V.pins[b]

Layout(use, mp, D, L, R, V, boot) ==
  /\ D \subseteq Page /\ boot \in Page
  /\ BlocksTyped(D, R) /\ Labelled(use, D, V, boot)
  /\ Placed(use, mp, R) /\ Sourced(use, mp, R) /\ Apart(R)
  /\ LowMapped(mp, D, L) /\ OwnMapped(mp, V) /\ NoMore(mp, R, V)
  /\ Pinned(mp, R, V) /\ Weak(mp)

(* The places in the domains and the pages of blocks.                      *)
LEMMA HomePlace ==
  ASSUME NEW h, NEW p \in HomeDomain(h)
  PROVE  /\ p \in Page /\ T(p) # 0 /\ T(p) # LastEntry /\ T(p) \in Index
         /\ h = Kernel <=> T(p) \in KernelTables
         /\ h # Kernel <=> T(p) \in UserTables
<1>1. p \in Page /\ T(p) \in IF h = Kernel THEN KernelTables ELSE UserTables
  BY DEF HomeDomain, DomainPages, T
<1> QED
  BY <1>1, Indices

(* The directories of a layout, and the kernel, are homes of pages.         *)
LEMMA LayoutHomes ==
  ASSUME NEW use, NEW mp, NEW D, NEW L, NEW R, NEW V, NEW boot, Layout(use, mp, D, L, R, V, boot)
  PROVE  D \subseteq Page /\ D \subseteq Home /\ Kernel \in Home /\ Kernel \notin Page
<1>1. D \subseteq Page
  BY DEF Layout
<1>2. Page \subseteq Home /\ Kernel \in Home /\ Kernel \notin Page
  BY DEF Home, Page, Kernel
<1> QED
  BY <1>1, <1>2

(* A block is added: pages of the domain of its home that were not mapped, *)
(* frames that were not used.                                              *)
LEMMA LayoutAdd ==
  ASSUME NEW use, NEW mp, NEW D, NEW L, NEW R, NEW V, NEW boot,
         Layout(use, mp, D, L, R, V, boot), NEW key, NEW h \in D \union {Kernel},
         NEW p \in Page, NEW n \in Nat \ {0}, NEW s, p + n <= PageNumber, Unused(use, s, n),
         \A q \in p .. p + n - 1 : q \in HomeDomain(h) /\ mp[h][q] = Hole,
         Weak(PutRun(mp, h, p, s, n))
  PROVE  /\ Layout(Tagged(use, h, p, s, n), PutRun(mp, h, p, s, n), D, L,
                   R \union {Block(key, h, p, n)}, V, boot)
         /\ Block(key, h, p, n) \notin R
<1> DEFINE new == Tagged(use, h, p, s, n)
           put == PutRun(mp, h, p, s, n)
           b == Block(key, h, p, n)
           P == p .. p + n - 1
           F == s .. s + n - 1
<1>0. h \in Home /\ s \in Page /\ s + n <= PageNumber /\ p \in Nat /\ s \in Nat
      /\ D \subseteq Home /\ Kernel \in Home
  <2>1. s \in Page /\ s + n <= PageNumber
    BY DEF Unused
  <2>2. D \subseteq Home /\ Kernel \in Home
    BY LayoutHomes
  <2>3. p \in Nat /\ s \in Nat
    BY <2>1 DEF Page
  <2> QED
    BY <2>1, <2>2, <2>3
<1>1. /\ b.home = h /\ b.page = p /\ b.count = n /\ PagesIn(b) = P
  BY DEF Block, PagesIn
<1>2. \A f \in Page : new[f] = IF f \in F THEN Pag(h, p + (f - s)) ELSE use[f]
  BY DEF Tagged
<1>3. \A g \in Home, q \in Page :
        put[g][q] = IF g = h /\ q \in P THEN s + (q - p) ELSE mp[g][q]
  BY RunAt
<1>4. \A f \in F : f \in Page /\ use[f] = Free /\ f >= VideoPage
  BY DEF Unused
<1>5. \A q \in P : /\ q \in HomeDomain(h) /\ mp[h][q] = Hole /\ q \in Page
                   /\ s + (q - p) \in F /\ p + ((s + (q - p)) - s) = q /\ s + (q - p) # Hole
  <2> SUFFICES ASSUME NEW q \in P
               PROVE  /\ q \in HomeDomain(h) /\ mp[h][q] = Hole /\ q \in Page
                      /\ s + (q - p) \in F /\ p + ((s + (q - p)) - s) = q /\ s + (q - p) # Hole
    OBVIOUS
  <2>1. q \in HomeDomain(h) /\ mp[h][q] = Hole
    OBVIOUS
  <2>2. q \in Page /\ s + (q - p) \in F /\ p + ((s + (q - p)) - s) = q
    BY <1>0 DEF Page
  <2> QED
    BY <1>4, <2>1, <2>2, KernelHome
<1>6. \A f \in F : p + (f - s) \in P /\ p + (f - s) \in Page
  BY <1>0 DEF Page
<1>7. \A c \in R : /\ c.home \in Home /\ PagesIn(c) \subseteq Page
                   /\ \A q \in PagesIn(c) : /\ mp[c.home][q] # Hole
                                            /\ FrameOf(mp, c) + (q - c.page) \in Page
                                            /\ c.home = h => q \notin P
                                            /\ FrameOf(mp, c) + (q - c.page) \notin F
  <2> SUFFICES ASSUME NEW c \in R
               PROVE  /\ c.home \in Home /\ PagesIn(c) \subseteq Page
                      /\ \A q \in PagesIn(c) : /\ mp[c.home][q] # Hole
                                               /\ FrameOf(mp, c) + (q - c.page) \in Page
                                               /\ c.home = h => q \notin P
                                               /\ FrameOf(mp, c) + (q - c.page) \notin F
    OBVIOUS
  <2>1. /\ c.home \in D \union {Kernel} /\ c.page \in Page /\ FrameOf(mp, c) \in Page /\ c.count \in Nat
        /\ c.page + c.count <= PageNumber /\ FrameOf(mp, c) + c.count <= PageNumber
    BY DEF Layout, BlocksTyped, Placed
  <2> SUFFICES ASSUME NEW q \in PagesIn(c)
               PROVE  /\ q \in Page /\ mp[c.home][q] # Hole
                      /\ FrameOf(mp, c) + (q - c.page) \in Page
                      /\ c.home = h => q \notin P
                      /\ FrameOf(mp, c) + (q - c.page) \notin F
    BY <1>0, <2>1
  <2>2. q \in Page /\ FrameOf(mp, c) + (q - c.page) \in Page
    BY <2>1 DEF PagesIn, Page
  <2>3. mp[c.home][q] = FrameOf(mp, c) + (q - c.page) /\ use[FrameOf(mp, c) + (q - c.page)] = Pag(c.home, q)
    BY DEF Layout, Placed
  <2>4. mp[c.home][q] # Hole /\ FrameOf(mp, c) + (q - c.page) \notin F
    BY <1>4, <2>2, <2>3, KernelHome, Labels
  <2> QED
    BY <1>5, <2>2, <2>4
<1> HIDE DEF new, put, b, P, F
<1>8. b \notin R
  <2>1. p \in P
    BY <1>0 DEF P
  <2> QED
    BY <1>1, <1>7, <2>1
<1>9. BlocksTyped(D, R \union {b})
  BY <1>0, <1>1, <1>5 DEF Layout, BlocksTyped
<1>10. Labelled(new, D, V, boot)
  <2> SUFFICES ASSUME NEW f \in Page
               PROVE  /\ new[f] \in {Free, Fixed, Directory, Boot} \union {Pag(g, q) : g \in Home, q \in Page}
                      /\ new[f] = Directory <=> f \in D
                      /\ new[f] = Boot <=> f = boot
                      /\ new[f] = Fixed <=> \E q \in DOMAIN V.own : V.own[q] = f
    BY DEF Labelled
  <2>1. /\ use[f] \in {Free, Fixed, Directory, Boot} \union {Pag(g, q) : g \in Home, q \in Page}
        /\ use[f] = Directory <=> f \in D
        /\ use[f] = Boot <=> f = boot
        /\ use[f] = Fixed <=> \E q \in DOMAIN V.own : V.own[q] = f
    BY DEF Layout, Labelled
  <2>2. CASE f \in F
    <3>1. new[f] = Pag(h, p + (f - s)) /\ use[f] = Free
      BY <1>2, <1>4, <2>2
    <3>2. new[f] \notin {Free, Fixed, Directory, Boot} /\ Free \notin {Fixed, Directory, Boot}
      BY <3>1, Labels
    <3> QED
      BY <1>0, <1>6, <2>1, <2>2, <3>1, <3>2
  <2>3. CASE f \notin F
    BY <1>2, <2>1, <2>3
  <2> QED
    BY <2>2, <2>3
<1>19. FrameOf(put, b) = s /\ \A c \in R : FrameOf(put, c) = FrameOf(mp, c) /\ c.page \in PagesIn(c)
  <2>1. p \in P /\ p \in Page /\ s + (p - p) = s
    BY <1>0 DEF P
  <2>2. FrameOf(put, b) = s
    BY <1>0, <1>1, <1>3, <2>1 DEF FrameOf
  <2> SUFFICES ASSUME NEW c \in R PROVE FrameOf(put, c) = FrameOf(mp, c) /\ c.page \in PagesIn(c)
    BY <2>2
  <2>3. c.page \in PagesIn(c) /\ c.page \in Page
    BY DEF Layout, BlocksTyped, PagesIn, Page
  <2> QED
    BY <1>3, <1>7, <2>3 DEF FrameOf
<1>11. Placed(new, put, R \union {b})
  <2> SUFFICES ASSUME NEW c \in R \union {b}
               PROVE  /\ FrameOf(put, c) \in Page /\ FrameOf(put, c) + c.count <= PageNumber
                      /\ \A q \in PagesIn(c) :
                           LET f == FrameOf(put, c) + (q - c.page)
                           IN  put[c.home][q] = f /\ new[f] = Pag(c.home, q) /\ f >= VideoPage
    BY DEF Placed
  <2>1. CASE c \in R
    <3>1. FrameOf(put, c) = FrameOf(mp, c) /\ FrameOf(mp, c) \in Page
          /\ FrameOf(mp, c) + c.count <= PageNumber
      BY <1>19, <2>1 DEF Layout, Placed
    <3> SUFFICES ASSUME NEW q \in PagesIn(c)
                 PROVE  LET f == FrameOf(mp, c) + (q - c.page)
                        IN  put[c.home][q] = f /\ new[f] = Pag(c.home, q) /\ f >= VideoPage
      BY <3>1
    <3>2. /\ mp[c.home][q] = FrameOf(mp, c) + (q - c.page)
          /\ use[FrameOf(mp, c) + (q - c.page)] = Pag(c.home, q)
          /\ FrameOf(mp, c) + (q - c.page) >= VideoPage
      BY <2>1 DEF Layout, Placed
    <3>3. /\ c.home \in Home /\ q \in Page /\ FrameOf(mp, c) + (q - c.page) \in Page
          /\ c.home = h => q \notin P
          /\ FrameOf(mp, c) + (q - c.page) \notin F
      BY <1>7, <2>1
    <3> QED
      BY <1>2, <1>3, <3>2, <3>3
  <2>2. CASE c = b
    <3>1. FrameOf(put, c) = s /\ c.count = n
      BY <1>1, <1>19, <2>2
    <3> SUFFICES ASSUME NEW q \in PagesIn(c)
                 PROVE  LET f == s + (q - c.page)
                        IN  put[c.home][q] = f /\ new[f] = Pag(c.home, q) /\ f >= VideoPage
      BY <1>0, <3>1
    <3>2. /\ q \in P /\ c.home = h /\ c.page = p
      BY <1>1, <2>2
    <3>3. /\ q \in Page /\ s + (q - p) \in F /\ p + ((s + (q - p)) - s) = q
      BY <1>5, <3>2
    <3> QED
      BY <1>0, <1>2, <1>3, <1>4, <3>2, <3>3
  <2> QED
    BY <2>1, <2>2
<1>12. Sourced(new, put, R \union {b})
  <2> SUFFICES ASSUME NEW f \in Page, NEW g \in Home, NEW q \in Page, new[f] = Pag(g, q)
               PROVE  put[g][q] = f /\ \E c \in R \union {b} : c.home = g /\ q \in PagesIn(c)
    BY DEF Sourced
  <2>1. CASE f \in F
    <3>1. g = h /\ q = p + (f - s) /\ s + (q - p) = f /\ q \in P
      <4>1. g = h /\ q = p + (f - s)
        BY <1>2, <2>1, Labels
      <4>2. s + ((p + (f - s)) - p) = f
        BY <1>0 DEF Page
      <4> QED
        BY <1>6, <2>1, <4>1, <4>2
    <3> QED
      BY <1>1, <1>3, <2>1, <3>1
  <2>2. CASE f \notin F
    <3>1. mp[g][q] = f /\ \E c \in R : c.home = g /\ q \in PagesIn(c)
      BY <1>2, <2>2 DEF Layout, Sourced
    <3>2. ~ (g = h /\ q \in P)
      BY <1>5, <3>1, KernelHome
    <3> QED
      BY <1>3, <3>1, <3>2
  <2> QED
    BY <2>1, <2>2
<1>13. Apart(R \union {b})
  BY <1>1, <1>7 DEF Layout, Apart
<1>14. LowMapped(put, D, L)
  <2>1. \A d \in D, q \in Page : T(q) = 0 => put[d][q] = mp[d][q]
    BY <1>0, <1>3, <1>5, HomePlace
  <2> QED
    BY <2>1 DEF Layout, LowMapped
<1>15. OwnMapped(put, V)
  <2> SUFFICES ASSUME NEW q \in DOMAIN V.own
               PROVE  q \in DomainPages("KERNEL") /\ V.own[q] \in Page /\ put[Kernel][q] = V.own[q]
    BY DEF OwnMapped
  <2>1. q \in DomainPages("KERNEL") /\ V.own[q] \in Page /\ mp[Kernel][q] = V.own[q]
    BY DEF Layout, OwnMapped
  <2>2. q \in Page /\ mp[Kernel][q] # Hole
    BY <2>1, KernelHome DEF DomainPages
  <2> QED
    BY <1>0, <1>3, <1>5, <2>1, <2>2
<1>16. NoMore(put, R \union {b}, V)
  BY <1>1, <1>3 DEF Layout, NoMore
<1>17. Weak(put)
  BY DEF put
<1>20. Pinned(put, R \union {b}, V)
  BY <1>19 DEF Layout, Pinned
<1>18. Layout(new, put, D, L, R \union {b}, V, boot)
  BY <1>9, <1>10, <1>11, <1>12, <1>13, <1>14, <1>15, <1>16, <1>17, <1>20 DEF Layout
<1> QED
  BY <1>8, <1>18 DEF new, put, b

(* A block is removed.                                                     *)
LEMMA LayoutRemove ==
  ASSUME NEW use, NEW mp, NEW D, NEW L, NEW R, NEW V, NEW boot,
         Layout(use, mp, D, L, R, V, boot), NEW b \in R,
         b \notin DOMAIN V.pins, Weak(HoleRun(mp, b.home, b.page, b.count))
  PROVE  Layout(Mark(use, FrameOf(mp, b) .. FrameOf(mp, b) + b.count - 1, Free),
                HoleRun(mp, b.home, b.page, b.count), D, L, R \ {b}, V, boot)
<1> DEFINE h == b.home
           p == b.page
           n == b.count
           s == FrameOf(mp, b)
           P == p .. p + n - 1
           F == s .. s + n - 1
           new == Mark(use, F, Free)
           hole == HoleRun(mp, h, p, n)
<1>0. h \in Home /\ s \in Page /\ p \in Page /\ n \in Nat \ {0} /\ s + n <= PageNumber
      /\ p + n <= PageNumber /\ p \in Nat /\ s \in Nat
      /\ D \subseteq Home /\ Kernel \in Home /\ PagesIn(b) = P
  <2>1. b \in R /\ b.home \in D \union {Kernel} /\ b.page \in Page /\ b.count \in Nat \ {0}
        /\ b.page + b.count <= PageNumber /\ FrameOf(mp, b) \in Page /\ FrameOf(mp, b) + b.count <= PageNumber
    BY DEF Layout, BlocksTyped, Placed
  <2>2. D \subseteq Home /\ Kernel \in Home
    BY LayoutHomes
  <2>3. h \in Home
    BY <2>1, <2>2
  <2>4. s \in Nat /\ p \in Nat
    BY <2>1 DEF Page
  <2>5. PagesIn(b) = P
    BY DEF PagesIn
  <2> QED
    BY <2>1, <2>2, <2>3, <2>4, <2>5
<1>1. \A f \in Page : new[f] = IF f \in F THEN Free ELSE use[f]
  BY DEF Mark
<1>2. \A g \in Home, q \in Page : hole[g][q] = IF g = h /\ q \in P THEN Hole ELSE mp[g][q]
  BY HoleAt
<1>3. \A q \in P : /\ q \in HomeDomain(h) /\ q \in Page /\ s + (q - p) \in F
                   /\ mp[h][q] = s + (q - p) /\ use[s + (q - p)] = Pag(h, q)
  <2> SUFFICES ASSUME NEW q \in P
               PROVE  /\ q \in HomeDomain(h) /\ q \in Page /\ s + (q - p) \in F
                      /\ mp[h][q] = s + (q - p) /\ use[s + (q - p)] = Pag(h, q)
    OBVIOUS
  <2>1. q \in HomeDomain(h)
    BY <1>0 DEF Layout, BlocksTyped
  <2>2. mp[h][q] = s + (q - p) /\ use[s + (q - p)] = Pag(h, q)
    BY <1>0 DEF Layout, Placed
  <2>3. q \in Page /\ s + (q - p) \in F
    <3>1. /\ s \in Nat /\ p \in Nat /\ n \in Nat \ {0} /\ PageNumber \in Nat
          /\ p + n <= PageNumber /\ q \in p .. p + n - 1
      BY <1>0, FramesAssumption
    <3>2. q \in 0 .. PageNumber - 1 /\ s + (q - p) \in s .. s + n - 1
      BY <3>1
    <3> QED
      BY <3>2 DEF Page
  <2> QED
    BY <2>1, <2>2, <2>3
<1>4. \A f \in F : f \in Page /\ p + (f - s) \in P /\ use[f] = Pag(h, p + (f - s))
  <2> SUFFICES ASSUME NEW f \in F PROVE f \in Page /\ p + (f - s) \in P /\ use[f] = Pag(h, p + (f - s))
    OBVIOUS
  <2>1. f \in Page /\ p + (f - s) \in P /\ s + ((p + (f - s)) - p) = f
    <3>1. /\ s \in Nat /\ p \in Nat /\ n \in Nat \ {0} /\ PageNumber \in Nat
          /\ s + n <= PageNumber /\ f \in s .. s + n - 1
      BY <1>0, FramesAssumption
    <3>2. /\ f \in 0 .. PageNumber - 1 /\ p + (f - s) \in p .. p + n - 1
          /\ s + ((p + (f - s)) - p) = f
      BY <3>1
    <3> QED
      BY <3>2 DEF Page
  <2> QED
    BY <1>3, <2>1
<1>5. \A c \in R \ {b} : /\ c.home \in Home /\ PagesIn(c) \subseteq Page
                         /\ \A q \in PagesIn(c) : /\ FrameOf(mp, c) + (q - c.page) \in Page
                                                  /\ c.home = h => q \notin P
                                                  /\ FrameOf(mp, c) + (q - c.page) \notin F
  <2> SUFFICES ASSUME NEW c \in R \ {b}
               PROVE  /\ c.home \in Home /\ PagesIn(c) \subseteq Page
                      /\ \A q \in PagesIn(c) : /\ FrameOf(mp, c) + (q - c.page) \in Page
                                               /\ c.home = h => q \notin P
                                               /\ FrameOf(mp, c) + (q - c.page) \notin F
    OBVIOUS
  <2>1. /\ c.home \in D \union {Kernel} /\ c.page \in Page /\ FrameOf(mp, c) \in Page /\ c.count \in Nat
        /\ c.page + c.count <= PageNumber /\ FrameOf(mp, c) + c.count <= PageNumber
    BY DEF Layout, BlocksTyped, Placed
  <2> SUFFICES ASSUME NEW q \in PagesIn(c)
               PROVE  /\ q \in Page /\ FrameOf(mp, c) + (q - c.page) \in Page
                      /\ c.home = h => q \notin P
                      /\ FrameOf(mp, c) + (q - c.page) \notin F
    BY <1>0, <2>1
  <2>2. q \in Page /\ FrameOf(mp, c) + (q - c.page) \in Page
    BY <2>1 DEF PagesIn, Page
  <2>3. use[FrameOf(mp, c) + (q - c.page)] = Pag(c.home, q)
    BY DEF Layout, Placed
  <2>4. c.home = h => q \notin P
    BY <1>0 DEF Layout, Apart
  <2>5. FrameOf(mp, c) + (q - c.page) \notin F
    BY <1>4, <2>3, <2>4, Labels
  <2> QED
    BY <2>2, <2>4, <2>5
<1> HIDE DEF new, hole, P, F
<1>6. BlocksTyped(D, R \ {b})
  BY DEF Layout, BlocksTyped
<1>7. Labelled(new, D, V, boot)
  <2> SUFFICES ASSUME NEW f \in Page
               PROVE  /\ new[f] \in {Free, Fixed, Directory, Boot} \union {Pag(g, q) : g \in Home, q \in Page}
                      /\ new[f] = Directory <=> f \in D
                      /\ new[f] = Boot <=> f = boot
                      /\ new[f] = Fixed <=> \E q \in DOMAIN V.own : V.own[q] = f
    BY DEF Labelled
  <2>1. /\ use[f] \in {Free, Fixed, Directory, Boot} \union {Pag(g, q) : g \in Home, q \in Page}
        /\ use[f] = Directory <=> f \in D
        /\ use[f] = Boot <=> f = boot
        /\ use[f] = Fixed <=> \E q \in DOMAIN V.own : V.own[q] = f
    BY DEF Layout, Labelled
  <2>2. CASE f \in F
    <3>1. use[f] = Pag(h, p + (f - s)) /\ new[f] = Free
      BY <1>1, <1>4, <2>2
    <3>2. use[f] \notin {Free, Fixed, Directory, Boot} /\ Free \notin {Fixed, Directory, Boot}
      BY <3>1, Labels
    <3> QED
      BY <2>1, <3>1, <3>2
  <2>3. CASE f \notin F
    BY <1>1, <2>1, <2>3
  <2> QED
    BY <2>2, <2>3
<1>16. \A c \in R \ {b} : c.page \in PagesIn(c) /\ c.page \in Page /\ FrameOf(hole, c) = FrameOf(mp, c)
  <2> SUFFICES ASSUME NEW c \in R \ {b}
               PROVE  c.page \in PagesIn(c) /\ c.page \in Page /\ FrameOf(hole, c) = FrameOf(mp, c)
    OBVIOUS
  <2>1. c.page \in PagesIn(c) /\ c.page \in Page
    BY DEF Layout, BlocksTyped, PagesIn, Page
  <2>2. FrameOf(hole, c) = FrameOf(mp, c)
    BY <1>2, <1>5, <2>1 DEF FrameOf
  <2> QED
    BY <2>1, <2>2
<1>8. Placed(new, hole, R \ {b})
  <2> SUFFICES ASSUME NEW c \in R \ {b}
               PROVE  /\ FrameOf(hole, c) \in Page /\ FrameOf(hole, c) + c.count <= PageNumber
                      /\ \A q \in PagesIn(c) :
                           LET f == FrameOf(hole, c) + (q - c.page)
                           IN  hole[c.home][q] = f /\ new[f] = Pag(c.home, q) /\ f >= VideoPage
    BY DEF Placed
  <2>2. FrameOf(hole, c) = FrameOf(mp, c)
    BY <1>16
  <2>3. FrameOf(mp, c) \in Page /\ FrameOf(mp, c) + c.count <= PageNumber
    BY DEF Layout, Placed
  <2> SUFFICES ASSUME NEW q \in PagesIn(c)
               PROVE  LET f == FrameOf(mp, c) + (q - c.page)
                      IN  hole[c.home][q] = f /\ new[f] = Pag(c.home, q) /\ f >= VideoPage
    BY <2>2, <2>3
  <2>4. /\ mp[c.home][q] = FrameOf(mp, c) + (q - c.page)
        /\ use[FrameOf(mp, c) + (q - c.page)] = Pag(c.home, q)
        /\ FrameOf(mp, c) + (q - c.page) >= VideoPage
    BY DEF Layout, Placed
  <2> QED
    BY <1>1, <1>2, <1>5, <2>4
<1>9. Sourced(new, hole, R \ {b})
  <2> SUFFICES ASSUME NEW f \in Page, NEW g \in Home, NEW q \in Page, new[f] = Pag(g, q)
               PROVE  hole[g][q] = f /\ \E c \in R \ {b} : c.home = g /\ q \in PagesIn(c)
    BY DEF Sourced
  <2>1. f \notin F /\ use[f] = Pag(g, q)
    BY <1>1, Labels
  <2>2. mp[g][q] = f /\ \E c \in R : c.home = g /\ q \in PagesIn(c)
    BY <2>1 DEF Layout, Sourced
  <2>3. ~ (g = h /\ q \in P)
    BY <1>3, <2>1, <2>2
  <2> QED
    BY <1>0, <1>2, <2>2, <2>3
<1>10. Apart(R \ {b})
  BY DEF Layout, Apart
<1>11. LowMapped(hole, D, L)
  <2>1. \A d \in D, q \in Page : T(q) = 0 => hole[d][q] = mp[d][q]
    BY <1>0, <1>2, <1>3, HomePlace
  <2> QED
    BY <2>1 DEF Layout, LowMapped
<1>12. OwnMapped(hole, V)
  <2> SUFFICES ASSUME NEW q \in DOMAIN V.own
               PROVE  q \in DomainPages("KERNEL") /\ V.own[q] \in Page /\ hole[Kernel][q] = V.own[q]
    BY DEF OwnMapped
  <2>1. q \in DomainPages("KERNEL") /\ V.own[q] \in Page /\ mp[Kernel][q] = V.own[q]
    BY DEF Layout, OwnMapped
  <2>2. q \in Page /\ use[V.own[q]] = Fixed
    BY <2>1 DEF DomainPages, Layout, Labelled
  <2>3. ~ (h = Kernel /\ q \in P)
    BY <1>3, <1>4, <2>1, <2>2, Labels
  <2> QED
    BY <1>0, <1>2, <2>1, <2>2, <2>3
<1>13. NoMore(hole, R \ {b}, V)
  BY <1>0, <1>2 DEF Layout, NoMore
<1>14. Weak(hole)
  BY DEF hole
<1>17. Pinned(hole, R \ {b}, V)
  BY <1>16 DEF Layout, Pinned
<1>15. Layout(new, hole, D, L, R \ {b}, V, boot)
  BY <1>6, <1>7, <1>8, <1>9, <1>10, <1>11, <1>12, <1>13, <1>14, <1>17 DEF Layout
<1> QED
  BY <1>15 DEF new, hole, F

(* Nothing is mapped in a directory that is none.                          *)
LEMMA ConNoHome ==
  ASSUME NEW m, NEW use, NEW mp, Con(m, use, mp), NEW f \in Page, use[f] \notin {Directory, Boot},
         NEW p \in Page
  PROVE  mp[f][p] = Hole
<1>1. PICK own : Raw(m, own, mp) /\ \A g \in Page : use[g] = Plain(own[g])
  BY DEF Con
<1>2. f \in Home /\ f # Kernel
  BY DEF Home, Page, Kernel
<1>3. T(p) \in Index
  BY PlaceOfPage
<1> SUFFICES ASSUME mp[f][p] # Hole PROVE FALSE
  OBVIOUS
<1>4. PICK g \in Page : own[g] = Tab(f, T(p))
  BY <1>1, <1>2 DEF Raw, Covered
<1>5. Reference(m, own, DirFor(m, f), T(p), g)
  BY <1>1, <1>2, <1>3, <1>4 DEF Raw, Referred
<1>6. own[f] \in {Directory, Boot}
  BY <1>2, <1>5 DEF Reference, DirFor, IsDir
<1> QED
  BY <1>1, <1>6, PlainLabels

LEMMA LayoutNewDir ==
  ASSUME NEW use, NEW mp, NEW D, NEW L, NEW R, NEW V, NEW boot,
         Layout(use, mp, D, L, R, V, boot), NEW f \in Page, use[f] = Free,
         \A p \in Page : mp[f][p] = Hole
  PROVE  Layout(Mark(use, {f}, Directory), mp, D \union {f}, L, R, V, boot) /\ f \notin D
<1> DEFINE new == Mark(use, {f}, Directory)
<1>1. \A g \in Page : new[g] = IF g = f THEN Directory ELSE use[g]
  BY DEF Mark
<1>2. f \notin D /\ f # boot
  BY Labels DEF Layout, Labelled
<1> HIDE DEF new
<1>3. BlocksTyped(D \union {f}, R)
  BY DEF Layout, BlocksTyped
<1>4. Labelled(new, D \union {f}, V, boot)
  <2> SUFFICES ASSUME NEW g \in Page
               PROVE  /\ new[g] \in {Free, Fixed, Directory, Boot} \union {Pag(h, p) : h \in Home, p \in Page}
                      /\ new[g] = Directory <=> g \in D \union {f}
                      /\ new[g] = Boot <=> g = boot
                      /\ new[g] = Fixed <=> \E p \in DOMAIN V.own : V.own[p] = g
    BY DEF Labelled
  <2>1. /\ use[g] \in {Free, Fixed, Directory, Boot} \union {Pag(h, p) : h \in Home, p \in Page}
        /\ use[g] = Directory <=> g \in D
        /\ use[g] = Boot <=> g = boot
        /\ use[g] = Fixed <=> \E p \in DOMAIN V.own : V.own[p] = g
    BY DEF Layout, Labelled
  <2> QED
    BY <1>1, <1>2, <2>1, Labels
<1>5. Placed(new, mp, R)
  <2> SUFFICES ASSUME NEW b \in R, NEW q \in PagesIn(b)
               PROVE  new[FrameOf(mp, b) + (q - b.page)] = use[FrameOf(mp, b) + (q - b.page)]
    BY DEF Layout, Placed
  <2>1. /\ FrameOf(mp, b) \in Page /\ FrameOf(mp, b) + b.count <= PageNumber
        /\ use[FrameOf(mp, b) + (q - b.page)] = Pag(b.home, q)
        /\ b.page \in Page /\ b.count \in Nat
    BY DEF Layout, Placed, BlocksTyped
  <2>2. FrameOf(mp, b) + (q - b.page) \in Page
    BY <2>1 DEF PagesIn, Page
  <2> QED
    BY <1>1, <2>1, <2>2, Labels
<1>6. Sourced(new, mp, R)
  BY <1>1, Labels DEF Layout, Sourced
<1>7. LowMapped(mp, D \union {f}, L)
  <2>1. \A p : <<f, p>> \notin L
    <3> SUFFICES ASSUME NEW p, <<f, p>> \in L PROVE FALSE
      OBVIOUS
    <3>1. <<f, p>>[1] \in D
      BY DEF Layout, LowMapped
    <3> QED
      BY <1>2, <3>1
  <2> QED
    BY <2>1 DEF Layout, LowMapped
<1>8. D \union {f} \subseteq Page
  BY DEF Layout
<1>9. Layout(new, mp, D \union {f}, L, R, V, boot)
  BY <1>3, <1>4, <1>5, <1>6, <1>7, <1>8 DEF Layout
<1> QED
  BY <1>2, <1>9 DEF new

LEMMA EmptiedAt ==
  ASSUME NEW mp, NEW d, NEW h \in Home, NEW p \in Page
  PROVE  Emptied(mp, d)[h][p] = IF h = d THEN Hole ELSE mp[h][p]
BY DEF Emptied

LEMMA LayoutDrop ==
  ASSUME NEW use, NEW mp, NEW D, NEW L, NEW R, NEW V, NEW boot,
         Layout(use, mp, D, L, R, V, boot), NEW d \in D, \A b \in R : b.home # d
  PROVE  Layout(Mark(use, {d}, Free), Emptied(mp, d), D \ {d}, {x \in L : x[1] # d}, R, V, boot)
<1> DEFINE new == Mark(use, {d}, Free)
           void == Emptied(mp, d)
           low == {x \in L : x[1] # d}
<1>0. D \subseteq Home /\ Kernel \in Home /\ d \in Page /\ d # Kernel /\ D \subseteq Page
  BY LayoutHomes
<1>1. \A g \in Page : new[g] = IF g = d THEN Free ELSE use[g]
  BY DEF Mark
<1>2. \A h \in Home, p \in Page : void[h][p] = IF h = d THEN Hole ELSE mp[h][p]
  BY EmptiedAt
<1>3. use[d] = Directory /\ d # boot
  BY <1>0, Labels DEF Layout, Labelled
<1>4. \A b \in R : b.home \in Home /\ b.home # d /\ b.page \in Page /\ PagesIn(b) \subseteq Page
  <2> SUFFICES ASSUME NEW b \in R PROVE b.home \in Home /\ b.page \in Page /\ PagesIn(b) \subseteq Page
    OBVIOUS
  <2>1. /\ b.home \in D \union {Kernel} /\ b.page \in Page /\ b.count \in Nat
        /\ b.page + b.count <= PageNumber
    BY DEF Layout, BlocksTyped
  <2>2. PagesIn(b) \subseteq Page
    BY <2>1 DEF PagesIn, Page
  <2> QED
    BY <1>0, <2>1, <2>2
<1> HIDE DEF new, void
<1>5. BlocksTyped(D \ {d}, R)
  BY DEF Layout, BlocksTyped
<1>6. Labelled(new, D \ {d}, V, boot)
  <2> SUFFICES ASSUME NEW g \in Page
               PROVE  /\ new[g] \in {Free, Fixed, Directory, Boot} \union {Pag(h, p) : h \in Home, p \in Page}
                      /\ new[g] = Directory <=> g \in D \ {d}
                      /\ new[g] = Boot <=> g = boot
                      /\ new[g] = Fixed <=> \E p \in DOMAIN V.own : V.own[p] = g
    BY DEF Labelled
  <2>1. /\ use[g] \in {Free, Fixed, Directory, Boot} \union {Pag(h, p) : h \in Home, p \in Page}
        /\ use[g] = Directory <=> g \in D
        /\ use[g] = Boot <=> g = boot
        /\ use[g] = Fixed <=> \E p \in DOMAIN V.own : V.own[p] = g
    BY DEF Layout, Labelled
  <2> QED
    BY <1>1, <1>3, <2>1, Labels
<1>7. \A b \in R : FrameOf(void, b) = FrameOf(mp, b)
  BY <1>2, <1>4 DEF FrameOf
<1>8. Placed(new, void, R)
  <2> SUFFICES ASSUME NEW b \in R, NEW q \in PagesIn(b)
               PROVE  /\ new[FrameOf(mp, b) + (q - b.page)] = use[FrameOf(mp, b) + (q - b.page)]
                      /\ void[b.home][q] = mp[b.home][q]
    BY <1>7 DEF Layout, Placed
  <2>1. /\ FrameOf(mp, b) \in Page /\ FrameOf(mp, b) + b.count <= PageNumber
        /\ use[FrameOf(mp, b) + (q - b.page)] = Pag(b.home, q)
        /\ b.page \in Page /\ b.count \in Nat
    BY DEF Layout, Placed, BlocksTyped
  <2>2. FrameOf(mp, b) + (q - b.page) \in Page
    BY <2>1 DEF PagesIn, Page
  <2> QED
    BY <1>1, <1>2, <1>3, <1>4, <2>1, <2>2, Labels
<1>9. Sourced(new, void, R)
  <2> SUFFICES ASSUME NEW f \in Page, NEW h \in Home, NEW p \in Page, new[f] = Pag(h, p)
               PROVE  void[h][p] = f /\ \E b \in R : b.home = h /\ p \in PagesIn(b)
    BY DEF Sourced
  <2>1. use[f] = Pag(h, p)
    BY <1>1, Labels
  <2>2. mp[h][p] = f /\ \E b \in R : b.home = h /\ p \in PagesIn(b)
    BY <2>1 DEF Layout, Sourced
  <2> QED
    BY <1>2, <1>4, <2>2
<1>10. LowMapped(void, D \ {d}, low)
  <2>1. \A x \in low : x[1] \in D \ {d}
    BY DEF Layout, LowMapped
  <2>2. \A g \in D \ {d}, p \in Page : void[g][p] = mp[g][p] /\ (<<g, p>> \in low <=> <<g, p>> \in L)
    BY <1>0, <1>2
  <2> HIDE DEF low
  <2> QED
    BY <2>1, <2>2 DEF Layout, LowMapped
<1>11. OwnMapped(void, V)
  <2>1. \A q \in DomainPages("KERNEL") : q \in Page
    BY DEF DomainPages
  <2> QED
    BY <1>0, <1>2, <2>1 DEF Layout, OwnMapped
<1>12. NoMore(void, R, V)
  BY <1>2 DEF Layout, NoMore
<1>13. Weak(void)
  <2>1. \A t \in KernelTables : \A i \in Index : PageAt(t, i) \in Page
    BY Indices, PageOfPlace
  <2> QED
    BY <1>0, <1>2, <2>1, Indices DEF Layout, Weak, Anchored
<1>15. Pinned(void, R, V)
  BY <1>7 DEF Layout, Pinned
<1>14. Layout(new, void, D \ {d}, low, R, V, boot)
  BY <1>0, <1>5, <1>6, <1>8, <1>9, <1>10, <1>11, <1>12, <1>13, <1>15 DEF Layout
<1> QED
  BY <1>14 DEF new, void

(* The pages of the first table are mapped and unmapped.                   *)
LEMMA LayoutLow ==
  ASSUME NEW use, NEW mp, NEW D, NEW L, NEW R, NEW V, NEW boot,
         Layout(use, mp, D, L, R, V, boot), NEW mp2, NEW L2,
         \A h \in Home, p \in Page : T(p) # 0 => mp2[h][p] = mp[h][p],
         LowMapped(mp2, D, L2)
  PROVE  Layout(use, mp2, D, L2, R, V, boot)
<1>1. D \subseteq Home /\ Kernel \in Home
  BY LayoutHomes
<1>2. \A b \in R : /\ b.home \in Home /\ b.page \in PagesIn(b)
                   /\ \A q \in PagesIn(b) : q \in Page /\ T(q) # 0
  <2> SUFFICES ASSUME NEW b \in R
               PROVE  /\ b.home \in Home /\ b.page \in PagesIn(b)
                      /\ \A q \in PagesIn(b) : q \in Page /\ T(q) # 0
    OBVIOUS
  <2>1. /\ b.home \in D \union {Kernel} /\ b.page \in Page /\ b.count \in Nat \ {0}
        /\ PagesIn(b) \subseteq HomeDomain(b.home)
    BY DEF Layout, BlocksTyped
  <2>2. b.page \in PagesIn(b)
    BY <2>1 DEF PagesIn, Page
  <2> QED
    BY <1>1, <2>1, <2>2, HomePlace
<1>3. \A b \in R : \A q \in PagesIn(b) : mp2[b.home][q] = mp[b.home][q]
  BY <1>2
<1>4. \A b \in R : FrameOf(mp2, b) = FrameOf(mp, b)
  BY <1>2, <1>3 DEF FrameOf
<1>5. Placed(use, mp2, R)
  BY <1>3, <1>4 DEF Layout, Placed
<1>6. Sourced(use, mp2, R)
  <2> SUFFICES ASSUME NEW f \in Page, NEW h \in Home, NEW p \in Page, use[f] = Pag(h, p)
               PROVE  mp2[h][p] = f /\ \E b \in R : b.home = h /\ p \in PagesIn(b)
    BY DEF Sourced
  <2>1. mp[h][p] = f /\ \E b \in R : b.home = h /\ p \in PagesIn(b)
    BY DEF Layout, Sourced
  <2> QED
    BY <1>3, <2>1
<1>7. OwnMapped(mp2, V)
  <2>1. \A q \in DomainPages("KERNEL") : q \in Page /\ T(q) # 0
    BY HomePlace DEF HomeDomain
  <2> QED
    BY <1>1, <2>1 DEF Layout, OwnMapped
<1>8. NoMore(mp2, R, V)
  BY DEF Layout, NoMore
<1>9. Weak(mp2)
  <2>1. \A t \in KernelTables : \A i \in Index : PageAt(t, i) \in Page /\ T(PageAt(t, i)) # 0
    BY Indices, PageOfPlace
  <2> QED
    BY <1>1, <2>1, Indices DEF Layout, Weak, Anchored
<1>10. Pinned(mp2, R, V)
  BY <1>4 DEF Layout, Pinned
<1> QED
  BY <1>5, <1>6, <1>7, <1>8, <1>9, <1>10 DEF Layout

(* Pages 0 .. n - 1 lie in the first table.                                *)
LEMMA LowPlace ==
  ASSUME NEW n \in Nat, n <= ENTRIES - 1, NEW q \in 0 .. n - 1
  PROVE  q \in Page /\ T(q) = 0 /\ I(q) = q /\ I(q) # LastEntry
<1>1. ENTRIES \in Nat /\ ENTRIES > 3 /\ PageNumber = ENTRIES * ENTRIES
  BY Entries
<1>2. 0 * ENTRIES + q = q /\ q \in 0 .. ENTRIES - 1
  BY <1>1
<1>3. T(q) = 0 /\ I(q) = q
  BY <1>1, <1>2, Quotient DEF T, I
<1>4. q < ENTRIES * ENTRIES
  <2>1. ENTRIES <= ENTRIES * ENTRIES
    BY <1>1
  <2> QED
    BY <1>1, <2>1
<1> QED
  BY <1>1, <1>3, <1>4 DEF Page, LastEntry

Lows(d, n) == {<<d, q>> : q \in 0 .. n - 1}

LEMMA LayoutLowMap ==
  ASSUME NEW use, NEW mp, NEW D, NEW L, NEW R, NEW V, NEW boot,
         Layout(use, mp, D, L, R, V, boot), NEW d \in D, NEW n \in Nat, n <= ENTRIES - 1
  PROVE  Layout(use, PutRun(mp, d, 0, 0, n), D, L \union Lows(d, n), R, V, boot)
<1> DEFINE put == PutRun(mp, d, 0, 0, n)
<1>1. \A h \in Home, q \in Page : put[h][q] = IF h = d /\ q \in 0 .. n - 1 THEN q ELSE mp[h][q]
  <2> SUFFICES ASSUME NEW h \in Home, NEW q \in Page
               PROVE  put[h][q] = IF h = d /\ q \in 0 .. n - 1 THEN q ELSE mp[h][q]
    OBVIOUS
  <2>1. put[h][q] = IF h = d /\ q \in 0 .. 0 + n - 1 THEN 0 + (q - 0) ELSE mp[h][q]
    BY RunAt
  <2>2. 0 .. 0 + n - 1 = 0 .. n - 1 /\ 0 + (q - 0) = q
    BY DEF Page
  <2> QED
    BY <2>1, <2>2
<1> HIDE DEF put
<1>2. D \subseteq Home
  BY DEF Layout, Home, Page
<1>3. \A h \in Home, q \in Page : T(q) # 0 => put[h][q] = mp[h][q]
  BY <1>1, LowPlace
<1>4. LowMapped(put, D, L \union Lows(d, n))
  <2>1. \A x \in L \union Lows(d, n) : x[1] \in D
    BY DEF Layout, LowMapped, Lows
  <2> SUFFICES ASSUME NEW g \in D, NEW p \in Page, T(p) = 0
               PROVE  /\ put[g][p] # Hole <=> <<g, p>> \in L \union Lows(d, n)
                      /\ put[g][p] # Hole => put[g][p] = p /\ I(p) # LastEntry
    BY <2>1 DEF LowMapped
  <2>2. <<g, p>> \in Lows(d, n) <=> g = d /\ p \in 0 .. n - 1
    BY DEF Lows
  <2>3. /\ mp[g][p] # Hole <=> <<g, p>> \in L
        /\ mp[g][p] # Hole => mp[g][p] = p /\ I(p) # LastEntry
    BY DEF Layout, LowMapped
  <2> QED
    BY <1>1, <1>2, <2>2, <2>3, LowPlace, KernelHome
<1>5. Layout(use, put, D, L \union Lows(d, n), R, V, boot)
  BY <1>3, <1>4, LayoutLow
<1> QED
  BY <1>5 DEF put

LEMMA LayoutLowUnmap ==
  ASSUME NEW use, NEW mp, NEW D, NEW L, NEW R, NEW V, NEW boot,
         Layout(use, mp, D, L, R, V, boot), NEW d \in D, NEW n \in Nat, n <= ENTRIES - 1
  PROVE  Layout(use, HoleRun(mp, d, 0, n), D, L \ Lows(d, n), R, V, boot)
<1> DEFINE hole == HoleRun(mp, d, 0, n)
<1>1. \A h \in Home, q \in Page : hole[h][q] = IF h = d /\ q \in 0 .. n - 1 THEN Hole ELSE mp[h][q]
  <2> SUFFICES ASSUME NEW h \in Home, NEW q \in Page
               PROVE  hole[h][q] = IF h = d /\ q \in 0 .. n - 1 THEN Hole ELSE mp[h][q]
    OBVIOUS
  <2>1. hole[h][q] = IF h = d /\ q \in 0 .. 0 + n - 1 THEN Hole ELSE mp[h][q]
    BY HoleAt
  <2>2. 0 .. 0 + n - 1 = 0 .. n - 1
    OBVIOUS
  <2> QED
    BY <2>1, <2>2
<1> HIDE DEF hole
<1>2. D \subseteq Home
  BY DEF Layout, Home, Page
<1>3. \A h \in Home, q \in Page : T(q) # 0 => hole[h][q] = mp[h][q]
  BY <1>1, LowPlace
<1>4. LowMapped(hole, D, L \ Lows(d, n))
  <2>1. \A x \in L \ Lows(d, n) : x[1] \in D
    BY DEF Layout, LowMapped
  <2> SUFFICES ASSUME NEW g \in D, NEW p \in Page, T(p) = 0
               PROVE  /\ hole[g][p] # Hole <=> <<g, p>> \in L \ Lows(d, n)
                      /\ hole[g][p] # Hole => hole[g][p] = p /\ I(p) # LastEntry
    BY <2>1 DEF LowMapped
  <2>2. <<g, p>> \in Lows(d, n) <=> g = d /\ p \in 0 .. n - 1
    BY DEF Lows
  <2>3. /\ mp[g][p] # Hole <=> <<g, p>> \in L
        /\ mp[g][p] # Hole => mp[g][p] = p /\ I(p) # LastEntry
    BY DEF Layout, LowMapped
  <2> QED
    BY <1>1, <1>2, <2>2, <2>3
<1>5. Layout(use, hole, D, L \ Lows(d, n), R, V, boot)
  BY <1>3, <1>4, LayoutLow
<1> QED
  BY <1>5 DEF hole

=============================================================================
