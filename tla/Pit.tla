--------------------------------- MODULE Pit ---------------------------------
(***************************************************************************)
(* The programmable interval timer, src/src/kernel/hardware/pit.c: the     *)
(* 32-bit tick counter, the clock kept beside it, and the two ways to wait  *)
(* for a moment of it, pit_sleep and pit_make_timeout / pit_timed_out.     *)
(*                                                                         *)
(* A thread that waits looks at the counter only when it is scheduled.     *)
(* MaxGap bounds how many ticks pass between two of its looks; with n      *)
(* tasks and a slice of one tick that is about n.                          *)
(***************************************************************************)
EXTENDS Naturals

CONSTANTS
  Modulus,       \* 2^32: the range of ticks, wait_until and hours
  freq,          \* ticks per second
  MsPerSecond,   \* 1000
  Sixty,         \* 60: seconds per minute and minutes per hour
  Waiters,       \* the threads that wait
  Milliseconds,  \* the durations they ask for
  MaxGap         \* a thread that waits is scheduled at least every MaxGap ticks

\* MS_TO_TICKS, for the durations in use, which do not overflow it.
MS_TO_TICKS(ms) == (freq * ms) \div MsPerSecond

Word == 0 .. Modulus - 1
Durations == {MS_TO_TICKS(ms) : ms \in Milliseconds}

ASSUME PitAssumption ==
  /\ Modulus \in Nat /\ Modulus > 1
  /\ freq \in Nat \ {0}
  /\ MsPerSecond \in Nat \ {0}
  /\ Sixty \in Nat \ {0}
  /\ MaxGap \in Nat \ {0}
  /\ Milliseconds \subseteq Nat
  /\ Durations \subseteq Word

VARIABLES
  ticks,                    \* timer interrupts so far
  seconds, minutes, hours,  \* the clock
  state,                    \* where each thread's wait has got to
  wait_until,               \* the value of ticks each thread waits for
  duration, remaining, late, gap  \* history of each wait: its length in ticks, the
                            \* ticks until it is due, the ticks since it was due (at
                            \* most MaxGap + 1 are counted) and those since the
                            \* thread's last look

clock == <<seconds, minutes, hours>>
history == <<duration, remaining, late, gap>>
pit_vars == <<ticks, clock, state, wait_until, history>>

\* pit_sleep is in its first or second loop; a timeout is in the state of that name.
AwaitsOverflow == {"sleep_1", "PIT_WAITING_UNTIL_OVERFLOW"}
AwaitsMoment == {"sleep_2", "PIT_WAITING_UNTIL_TIMEOUT"}
Done == {"awake", "PIT_TIMED_OUT"}
Waiting(w) == state[w] \in AwaitsOverflow \union AwaitsMoment

PitTypeOK ==
  /\ ticks \in Word
  /\ seconds \in 0 .. Sixty - 1
  /\ minutes \in 0 .. Sixty - 1
  /\ hours \in Word
  /\ state \in [Waiters -> AwaitsOverflow \union AwaitsMoment \union Done]
  /\ wait_until \in [Waiters -> Word]
  /\ duration \in [Waiters -> Word]
  /\ remaining \in [Waiters -> Word]
  /\ late \in [Waiters -> 0 .. MaxGap + 1]
  /\ gap \in [Waiters -> 0 .. MaxGap]

\* pit_init is done and interrupts are on.
PitInit ==
  /\ ticks = 0
  /\ seconds = 0 /\ minutes = 0 /\ hours = 0
  /\ state = [w \in Waiters |-> "awake"]
  /\ wait_until = [w \in Waiters |-> 0]
  /\ duration = [w \in Waiters |-> 0]
  /\ remaining = [w \in Waiters |-> 0]
  /\ late = [w \in Waiters |-> 0]
  /\ gap = [w \in Waiters |-> 0]

-----------------------------------------------------------------------------
Plus(a, b) == IF a + b < Modulus THEN a + b ELSE a + b - Modulus

\* A plausible slip: the minute starts again with the hour only.
NoResetMutant(now) ==
  LET second == now % freq = 0
      minute == second /\ (seconds + 1) % Sixty = 0
      hour   == minute /\ (minutes + 1) % Sixty = 0
  IN  /\ seconds' = IF hour THEN 0 ELSE IF second THEN seconds + 1 ELSE seconds
      /\ minutes' = IF hour THEN 0 ELSE IF minute THEN minutes + 1 ELSE minutes
      /\ hours' = IF hour THEN Plus(hours, 1) ELSE hours

\* The clock advances when ticks, already incremented to now, is a multiple of freq.
AdvanceClock(now) ==
  LET second == now % freq = 0
      minute == second /\ (seconds + 1) % Sixty = 0
      hour   == minute /\ (minutes + 1) % Sixty = 0
  IN  /\ seconds' = IF minute THEN 0 ELSE IF second THEN seconds + 1 ELSE seconds
      /\ minutes' = IF hour THEN 0 ELSE IF minute THEN minutes + 1 ELSE minutes
      /\ hours' = IF hour THEN Plus(hours, 1) ELSE hours

\* IRQ 0.  What schedule() does with it is the subject of module Schedule.
Tick ==
  /\ \A w \in Waiters : Waiting(w) => gap[w] < MaxGap
  /\ ticks' = Plus(ticks, 1)
  /\ AdvanceClock(Plus(ticks, 1))
  /\ remaining' = [w \in Waiters |-> IF remaining[w] > 0 THEN remaining[w] - 1 ELSE 0]
  /\ late' = [w \in Waiters |->
       IF Waiting(w) /\ remaining[w] = 0 /\ late[w] <= MaxGap THEN late[w] + 1 ELSE late[w]]
  /\ gap' = [w \in Waiters |-> IF Waiting(w) THEN gap[w] + 1 ELSE gap[w]]
  /\ UNCHANGED <<state, wait_until, duration>>

\* A wait of ms milliseconds starts.
Begin(w, ms, first) ==
  /\ state[w] \in Done
  /\ state' = [state EXCEPT ![w] = first]
  /\ wait_until' = [wait_until EXCEPT ![w] = Plus(ticks, MS_TO_TICKS(ms))]
  /\ duration' = [duration EXCEPT ![w] = MS_TO_TICKS(ms)]
  /\ remaining' = [remaining EXCEPT ![w] = MS_TO_TICKS(ms)]
  /\ late' = [late EXCEPT ![w] = 0]
  /\ gap' = [gap EXCEPT ![w] = 0]
  /\ UNCHANGED <<ticks, clock>>

\* Plausible slips in the conditions below: a wait across the counter's wrap is
\* forgotten, and the moment is compared with !=.
NoOverflowMutant(w) == FALSE
NotEqualMutant(w) == ticks # wait_until[w]

\* The two conditions that keep a wait going, shared by pit_sleep and pit_timed_out.
BeforeOverflow(w) == wait_until[w] < ticks
BeforeMoment(w) == ticks < wait_until[w]

\* The thread looks at the counter and goes on to next unless the wait keeps going.
Look(w, from, keepsGoing, next) ==
  /\ state[w] = from
  /\ state' = [state EXCEPT ![w] = IF keepsGoing THEN from ELSE next]
  /\ gap' = [gap EXCEPT ![w] = 0]
  /\ UNCHANGED <<ticks, clock, wait_until, duration, remaining, late>>

pit_sleep(w) ==
  \/ \E ms \in Milliseconds : Begin(w, ms, "sleep_1")
  \/ Look(w, "sleep_1", BeforeOverflow(w), "sleep_2")
  \/ Look(w, "sleep_2", BeforeMoment(w), "awake")

pit_make_timeout(w) ==
  \E ms \in Milliseconds : Begin(w, ms, "PIT_WAITING_UNTIL_OVERFLOW")

pit_timed_out(w) ==
  \/ Look(w, "PIT_WAITING_UNTIL_OVERFLOW", BeforeOverflow(w), "PIT_WAITING_UNTIL_TIMEOUT")
  \/ Look(w, "PIT_WAITING_UNTIL_TIMEOUT", BeforeMoment(w), "PIT_TIMED_OUT")

PitNext == Tick \/ \E w \in Waiters : pit_sleep(w) \/ pit_make_timeout(w) \/ pit_timed_out(w)

PitSpec == PitInit /\ [][PitNext]_pit_vars

-----------------------------------------------------------------------------
(* Properties.                                                             *)

(* Neither a sleep nor a timeout ends before its duration is over, wherever *)
(* the counter stands when it starts and however often it wraps meanwhile. *)
NeverEarly == \A w \in Waiters : state[w] \in Done => remaining[w] = 0

\* The moment a thread waits for lies at least MaxGap ticks away from the wrap.
ClearOfWrap(w) == wait_until[w] >= MaxGap /\ wait_until[w] + MaxGap < Modulus

(* A wait that is at least as long as the thread may be kept from looking,  *)
(* and whose moment is not close to the counter's wrap, is noticed at the  *)
(* thread's first look after it is due.                                    *)
NoticedInTime ==
  \A w \in Waiters :
    Waiting(w) /\ duration[w] >= MaxGap /\ ClearOfWrap(w) => late[w] <= gap[w]

(* The comment in pit_sleep: "the wait_until moment can easily be missed    *)
(* when doing heavier tasks [...]. > and < are more robust in that regard":  *)
(* a thread that is late notices all the same when it looks.               *)
MissedMomentNoticed == \A w \in Waiters : Waiting(w) => late[w] <= MaxGap

(* The clock shows the seconds that have gone by.  Each of them lasts freq  *)
(* ticks, although seconds and minutes are counted up to Sixty only and the *)
(* clock is advanced by a counter that wraps; only the second in which it  *)
(* wraps may be cut short, as its range need not be a multiple of freq.    *)
Clock == INSTANCE WallClock WITH
  Rate <- freq, Period <- Modulus, Day <- Modulus * Sixty * Sixty,
  time <- (hours * Sixty + minutes) * Sixty + seconds,
  elapsed <- ticks % freq,
  counted <- ticks
ImplementsWallClock == Clock!CSpec

=============================================================================
