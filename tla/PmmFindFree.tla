----------------------------- MODULE PmmFindFree -----------------------------
(***************************************************************************)
(* The search of pmm_find_free, page by page: one pass over the bitmap     *)
(* that keeps no more than the length of the run of unused frames it has   *)
(* just seen.  It runs under cli, so nobody changes the bitmap meanwhile.  *)
(***************************************************************************)
EXTENDS Frames

CONSTANT Lengths   \* the lengths in bytes that are asked for

ASSUME LengthsAssumption == Lengths \subseteq Nat

VARIABLES
  bitmap, len,    \* the arguments; neither changes
  i, free_pages,  \* the page the loop is at, and the run of unused ones before it
  result          \* NoResult, then the address that is returned

vars == <<bitmap, len, i, free_pages, result>>

NoResult == MemorySize

TypeOK ==
  /\ bitmap \in Bitmap
  /\ len \in Lengths
  /\ i \in 0 .. PageNumber
  /\ free_pages \in 0 .. PageNumber
  /\ result \in Address \union {NoResult}

Init ==
  /\ bitmap \in Bitmap
  /\ len \in Lengths
  /\ i = 0
  /\ free_pages = 0
  /\ result = NoResult

pages == PagesFor(len)
Run == IF bitmap[i] = "UNUSED" THEN free_pages + 1 ELSE 0

\* Nothing is asked for.
Nothing ==
  /\ result = NoResult
  /\ len = 0
  /\ result' = 0
  /\ UNCHANGED <<bitmap, len, i, free_pages>>

\* A plausible slip in the next action: a used frame does not end the run.
NoEndOfRunMutant ==
  /\ result = NoResult
  /\ len # 0 /\ i < PageNumber
  /\ free_pages' = IF bitmap[i] = "UNUSED" THEN free_pages + 1 ELSE free_pages
  /\ IF free_pages' >= pages
     THEN result' = pmm_get_address(i - free_pages' + 1) /\ UNCHANGED i
     ELSE i' = i + 1 /\ UNCHANGED result
  /\ UNCHANGED <<bitmap, len>>

\* One round of the loop.
VisitPage ==
  /\ result = NoResult
  /\ len # 0 /\ i < PageNumber
  /\ free_pages' = Run
  /\ IF Run >= pages
     THEN result' = pmm_get_address(i - Run + 1) /\ UNCHANGED i
     ELSE i' = i + 1 /\ UNCHANGED result
  /\ UNCHANGED <<bitmap, len>>

\* "Not enough memory".
GiveUp ==
  /\ result = NoResult
  /\ len # 0 /\ i = PageNumber
  /\ result' = 0
  /\ UNCHANGED <<bitmap, len, i, free_pages>>

Next == Nothing \/ VisitPage \/ GiveUp

Spec == Init /\ [][Next]_vars

-----------------------------------------------------------------------------
(* The search returns the first of all places with enough unused frames in  *)
(* a row, also when that place ends with the last frame of the bitmap, and *)
(* 0 only when there is none (or when it is frame 0).                      *)
ReturnsFirstFit == result # NoResult => result = pmm_find_free(bitmap, len)

=============================================================================
