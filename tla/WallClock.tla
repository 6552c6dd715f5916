------------------------------ MODULE WallClock ------------------------------
(***************************************************************************)
(* What the clock of the timer promises: it counts seconds, each of which  *)
(* lasts Rate ticks.  One second in Period ticks is cut short, that in     *)
(* which the counter of ticks wraps; none lasts longer.                    *)
(***************************************************************************)
EXTENDS Naturals

CONSTANTS
  Rate,    \* ticks in a second
  Period,  \* ticks from one short second to the next
  Day      \* seconds until the clock starts again

VARIABLES
  time,     \* the seconds it shows
  elapsed,  \* ticks of the current second
  counted   \* ticks since the last short second

cvars == <<time, elapsed, counted>>

CInit == time = 0 /\ elapsed = 0 /\ counted = 0

SecondEnds == elapsed + 1 = Rate \/ counted + 1 = Period

CTick ==
  /\ elapsed' = IF SecondEnds THEN 0 ELSE elapsed + 1
  /\ time' = IF ~ SecondEnds THEN time ELSE IF time + 1 = Day THEN 0 ELSE time + 1
  /\ counted' = IF counted + 1 = Period THEN 0 ELSE counted + 1

CSpec == CInit /\ [][CTick]_cvars
=============================================================================
