--------------------------- MODULE Algorithms_proofs ---------------------------
(***************************************************************************)
(* What the algorithms compute, for every size of the tables, the memory,  *)
(* a page, a count of the mouse and the screen.                            *)
(***************************************************************************)
EXTENDS MCAlgorithms, WellFoundedInduction, TLAPS

-----------------------------------------------------------------------------
(* The task closest behind a pid.                                         *)

(* A non-empty set of natural numbers has a least member.                  *)
LEMMA LeastMember ==
  ASSUME NEW T \in SUBSET Nat, T # {}
  PROVE  \E m \in T : \A n \in T : m <= n
<1> DEFINE Less == {ss \in Nat \X Nat : ss[1] < ss[2]}
<1>1. IsWellFoundedOn(Less, Nat)
  BY NatLessThanWellFounded, Zenon DEF OpToRel
<1> HIDE DEF Less
<1>2. PICK m \in T : \A n \in T : ~ (<<n, m>> \in Less)
  BY <1>1, WFMin, Zenon
<1>3. \A n \in T : ~ (n < m)
  BY <1>2 DEF Less
<1> QED
  BY <1>3

LEMMA DistanceRange ==
  ASSUME NEW p \in Pid, NEW c \in Pid \union {0}
  PROVE  /\ Distance(c, p) \in 1 .. MAX_TASKS - 1
         /\ p # c => Distance(c, p) < MAX_TASKS - 1 \/ c = 0
         /\ p = c => Distance(c, p) = MAX_TASKS - 1
BY MaxTasksAssumption DEF Distance, Pid

(* Two tasks at the same distance are the same.                            *)
LEMMA DistanceInjective ==
  ASSUME NEW p \in Pid, NEW q \in Pid, NEW c \in Pid \union {0},
         Distance(c, p) = Distance(c, q)
  PROVE  p = q
BY MaxTasksAssumption DEF Distance, Pid

(* The first task behind c is one of the tasks, and none is closer.        *)
LEMMA FirstAfterIsFirst ==
  ASSUME NEW S \in SUBSET Pid, S # {}, NEW c \in Pid \union {0}
  PROVE  /\ FirstAfter(S, c) \in S
         /\ \A q \in S : Distance(c, FirstAfter(S, c)) <= Distance(c, q)
<1> DEFINE T == {Distance(c, q) : q \in S}
<1>1. T \in SUBSET Nat /\ T # {}
  BY DistanceRange, MaxTasksAssumption
<1>2. \E m \in T : \A n \in T : m <= n
  BY <1>1, LeastMember
<1>3. \E p \in S : \A q \in S : Distance(c, p) <= Distance(c, q)
  BY <1>2
<1> QED
  BY <1>3 DEF FirstAfter

-----------------------------------------------------------------------------
(* The loops of task.c.                                                    *)

(* Where a probe may stop: at a slot that is not to be skipped, or behind  *)
(* the last one.                                                           *)
Stops(t, from, skipTaken) ==
  {q \in from .. MAX_TASKS : q < MAX_TASKS => (t[q] # "none") # skipTaken}

LEMMA LeastStop ==
  ASSUME NEW t, NEW skipTaken, NEW from \in 1 .. MAX_TASKS
  PROVE  \E m \in Stops(t, from, skipTaken) : \A n \in Stops(t, from, skipTaken) : m <= n
<1>1. Stops(t, from, skipTaken) \in SUBSET Nat /\ MAX_TASKS \in Stops(t, from, skipTaken)
  BY MaxTasksAssumption DEF Stops
<1> QED
  BY <1>1, LeastMember

(* A probe stops at the first of these.                                    *)
LEMMA ProbeStops ==
  ASSUME NEW t, NEW skipTaken, NEW from \in 1 .. MAX_TASKS
  PROVE  /\ ProbeFrom(t, from, skipTaken) \in Stops(t, from, skipTaken)
         /\ \A n \in Stops(t, from, skipTaken) : ProbeFrom(t, from, skipTaken) <= n
<1> DEFINE S(p) == Stops(t, p, skipTaken)
           Round(f, p) == IF p < MAX_TASKS /\ ((t[p] # "none") = skipTaken) THEN f[p + 1] ELSE p
           least == [p \in 1 .. MAX_TASKS |-> CHOOSE m \in S(p) : \A n \in S(p) : m <= n]
           stop == CHOOSE f : f = [p \in 1 .. MAX_TASKS |-> Round(f, p)]
<1>1. ASSUME NEW p \in 1 .. MAX_TASKS
      PROVE  least[p] = Round(least, p)
  <2>1. CASE p < MAX_TASKS /\ ((t[p] # "none") = skipTaken)
    <3>1. S(p + 1) = S(p) /\ p + 1 \in 1 .. MAX_TASKS
      BY <2>1, MaxTasksAssumption DEF Stops
    <3> QED
      BY <2>1, <3>1
  <2>2. CASE ~ (p < MAX_TASKS /\ ((t[p] # "none") = skipTaken))
    <3>1. p \in S(p) /\ \A n \in S(p) : p <= n
      BY <2>2, MaxTasksAssumption DEF Stops
    <3>2. \A m \in S(p) : (\A n \in S(p) : m <= n) => m = p
      BY <3>1, MaxTasksAssumption DEF Stops
    <3>3. least[p] = p
      BY <3>1, <3>2
    <3> QED
      BY <2>2, <3>3
  <2> QED
    BY <2>1, <2>2
<1>2. least = [p \in 1 .. MAX_TASKS |-> Round(least, p)]
  <2>1. least = [p \in 1 .. MAX_TASKS |-> least[p]]
    OBVIOUS
  <2> HIDE DEF least, Round
  <2> QED
    BY <1>1, <2>1
<1>3. stop = [p \in 1 .. MAX_TASKS |-> Round(stop, p)]
  <2> HIDE DEF Round, least
  <2> QED
    BY <1>2
<1>4. ProbeFrom(t, from, skipTaken) = stop[from]
  BY DEF ProbeFrom
<1> DEFINE Good(p) == stop[p] \in S(p) /\ \A n \in S(p) : stop[p] <= n
<1>5. ASSUME NEW p \in 1 .. MAX_TASKS, \A q \in 1 .. MAX_TASKS : q > p => Good(q)
      PROVE  Good(p)
  <2> HIDE DEF stop
  <2>1. stop[p] = Round(stop, p)
    <3> HIDE DEF Round
    <3> QED
      BY <1>3
  <2>2. CASE p < MAX_TASKS /\ ((t[p] # "none") = skipTaken)
    <3>1. S(p + 1) = S(p) /\ p + 1 \in 1 .. MAX_TASKS /\ p + 1 > p
      BY <2>2, MaxTasksAssumption DEF Stops
    <3>2. Good(p + 1)
      BY <1>5, <3>1
    <3> QED
      BY <2>1, <2>2, <3>1, <3>2
  <2>3. CASE ~ (p < MAX_TASKS /\ ((t[p] # "none") = skipTaken))
    <3>1. p \in S(p) /\ \A n \in S(p) : p <= n
      BY <2>3, MaxTasksAssumption DEF Stops
    <3> QED
      BY <2>1, <2>3, <3>1
  <2> QED
    BY <2>2, <2>3
<1> HIDE DEF Good
<1>6. \A p \in 1 .. MAX_TASKS : Good(p)
  <2> SUFFICES ASSUME NEW p \in 1 .. MAX_TASKS, ~ Good(p) PROVE FALSE
    OBVIOUS
  <2> DEFINE T == {MAX_TASKS - q : q \in {r \in 1 .. MAX_TASKS : ~ Good(r)}}
  <2>1. T \in SUBSET Nat /\ T # {}
    BY MaxTasksAssumption
  <2>2. PICK m \in T : \A n \in T : m <= n
    BY <2>1, LeastMember
  <2>3. PICK q \in 1 .. MAX_TASKS : ~ Good(q) /\ m = MAX_TASKS - q
    BY <2>2
  <2>4. ASSUME NEW r \in 1 .. MAX_TASKS, r > q
        PROVE  Good(r)
    <3> SUFFICES ASSUME ~ Good(r) PROVE FALSE
      OBVIOUS
    <3>1. MAX_TASKS - r \in T
      OBVIOUS
    <3>2. m <= MAX_TASKS - r
      BY <2>2, <3>1
    <3> QED
      BY <2>3, <2>4, <3>2, MaxTasksAssumption
  <2> QED
    BY <1>5, <2>3, <2>4
<1> QED
  BY <1>4, <1>6 DEF Good

(* A probe that skips what is taken stops at the first free slot, and the  *)
(* other way round.                                                        *)
LEMMA ProbeForFree ==
  ASSUME NEW t, NEW from \in 1 .. MAX_TASKS,
         NEW stop, stop = ProbeFrom(t, from, TRUE)
  PROVE  /\ stop \in from .. MAX_TASKS
         /\ stop < MAX_TASKS => t[stop] = "none"
         /\ \A q \in from .. MAX_TASKS - 1 : t[q] = "none" => stop <= q
<1>1. \A q : ((t[q] # "none") # TRUE) <=> t[q] = "none"
  OBVIOUS
<1>2. \A q : q \in Stops(t, from, TRUE)
             <=> q \in from .. MAX_TASKS /\ (q < MAX_TASKS => t[q] = "none")
  BY <1>1, Zenon DEF Stops
<1>3. stop \in Stops(t, from, TRUE) /\ \A q \in Stops(t, from, TRUE) : stop <= q
  BY ProbeStops, Zenon
<1>4. stop \in from .. MAX_TASKS /\ (stop < MAX_TASKS => t[stop] = "none")
  BY <1>2, <1>3, Zenon
<1>5. ASSUME NEW q \in from .. MAX_TASKS - 1, t[q] = "none" PROVE stop <= q
  <2>1. q \in from .. MAX_TASKS
    BY MaxTasksAssumption
  <2> QED
    BY <1>2, <1>3, <1>5, <2>1, Zenon
<1> QED
  BY <1>4, <1>5

LEMMA ProbeForTaken ==
  ASSUME NEW t, NEW from \in 1 .. MAX_TASKS,
         NEW stop, stop = ProbeFrom(t, from, FALSE)
  PROVE  /\ stop \in from .. MAX_TASKS
         /\ stop < MAX_TASKS => t[stop] # "none"
         /\ \A q \in from .. MAX_TASKS - 1 : t[q] # "none" => stop <= q
<1>1. \A q : ((t[q] # "none") # FALSE) <=> t[q] # "none"
  OBVIOUS
<1>2. \A q : q \in Stops(t, from, FALSE)
             <=> q \in from .. MAX_TASKS /\ (q < MAX_TASKS => t[q] # "none")
  BY <1>1, Zenon DEF Stops
<1>3. stop \in Stops(t, from, FALSE) /\ \A q \in Stops(t, from, FALSE) : stop <= q
  BY ProbeStops, Zenon
<1>4. stop \in from .. MAX_TASKS /\ (stop < MAX_TASKS => t[stop] # "none")
  BY <1>2, <1>3, Zenon
<1>5. ASSUME NEW q \in from .. MAX_TASKS - 1, t[q] # "none" PROVE stop <= q
  <2>1. q \in from .. MAX_TASKS
    BY MaxTasksAssumption
  <2> QED
    BY <1>2, <1>3, <1>5, <2>1, Zenon
<1> QED
  BY <1>4, <1>5

(* task_add finds the lowest free slot.                                    *)
LEMMA AddLoopFinds ==
  ASSUME NEW t \in Table
  PROVE  AddLoop(t) = LowestFreePid(t)
<1>1. PICK a : a = ProbeFrom(t, 1, TRUE)
  OBVIOUS
<1>2. /\ a \in 1 .. MAX_TASKS
      /\ a < MAX_TASKS => t[a] = "none"
      /\ \A q \in 1 .. MAX_TASKS - 1 : t[q] = "none" => a <= q
  <2>1. 1 \in 1 .. MAX_TASKS
    BY MaxTasksAssumption
  <2> QED
    BY <1>1, <2>1, ProbeForFree, Zenon
<1>3. LowestFreePid(t) = a
  <2>1. CASE Occupied(t) = Pid
    BY <1>2, <2>1, MaxTasksAssumption DEF LowestFreePid, Occupied, Pid
  <2>2. CASE Occupied(t) # Pid
    <3>1. a \in Pid \ Occupied(t) /\ \A q \in Pid \ Occupied(t) : a <= q
      BY <1>2, <2>2, MaxTasksAssumption DEF Pid, Occupied
    <3>2. \A p \in Pid \ Occupied(t) : (\A q \in Pid \ Occupied(t) : p <= q) => p = a
      BY <3>1, MaxTasksAssumption DEF Pid
    <3> QED
      BY <2>2, <3>1, <3>2 DEF LowestFreePid
  <2> QED
    BY <2>1, <2>2
<1> QED
  BY <1>1, <1>3 DEF AddLoop

(* Who is first behind c is the one nobody is closer than.                 *)
LEMMA FirstAfterIs ==
  ASSUME NEW S \in SUBSET Pid, NEW c \in Pid \union {0}, NEW p \in S,
         \A q \in S : Distance(c, p) <= Distance(c, q)
  PROVE  FirstAfter(S, c) = p
<1>1. /\ FirstAfter(S, c) \in S
      /\ \A q \in S : Distance(c, FirstAfter(S, c)) <= Distance(c, q)
  BY FirstAfterIsFirst
<1>2. /\ Distance(c, FirstAfter(S, c)) \in Nat /\ Distance(c, p) \in Nat
      /\ FirstAfter(S, c) \in Pid /\ p \in Pid
  BY <1>1, DistanceRange, MaxTasksAssumption
<1>3. Distance(c, FirstAfter(S, c)) = Distance(c, p)
  BY <1>1, <1>2
<1> QED
  BY <1>2, <1>3, DistanceInjective

(* The two probes of task_get_next_task find the cyclic successor, and 0   *)
(* in an empty list.                                                       *)
LEMMA NextTaskLoopFinds ==
  ASSUME NEW t \in Table, NEW c \in Pid \union {0}
  PROVE  NextTaskLoop(t, c) = NextTask(t, c)
<1>1. PICK ahead : ahead = ProbeFrom(t, c + 1, FALSE)
  OBVIOUS
<1>2. PICK wrapped : wrapped = ProbeFrom(t, 1, FALSE)
  OBVIOUS
<1>3. NextTaskLoop(t, c) = IF ahead # MAX_TASKS THEN ahead
                           ELSE IF wrapped # MAX_TASKS THEN wrapped ELSE 0
  BY <1>1, <1>2, Zenon DEF NextTaskLoop
<1>4. c + 1 \in 1 .. MAX_TASKS /\ 1 \in 1 .. MAX_TASKS
  BY MaxTasksAssumption DEF Pid
<1>5. /\ ahead \in c + 1 .. MAX_TASKS /\ (ahead < MAX_TASKS => ahead \in Occupied(t))
      /\ \A q \in Occupied(t) : q > c => ahead <= q
  <2>1. /\ ahead \in c + 1 .. MAX_TASKS
        /\ ahead < MAX_TASKS => t[ahead] # "none"
        /\ \A q \in c + 1 .. MAX_TASKS - 1 : t[q] # "none" => ahead <= q
    BY <1>1, <1>4, ProbeForTaken, Zenon
  <2> QED
    BY <1>4, <2>1, MaxTasksAssumption DEF Pid, Occupied
<1>6. /\ wrapped \in 1 .. MAX_TASKS /\ (wrapped < MAX_TASKS => wrapped \in Occupied(t))
      /\ \A q \in Occupied(t) : wrapped <= q
  <2>1. /\ wrapped \in 1 .. MAX_TASKS
        /\ wrapped < MAX_TASKS => t[wrapped] # "none"
        /\ \A q \in 1 .. MAX_TASKS - 1 : t[q] # "none" => wrapped <= q
    BY <1>2, <1>4, ProbeForTaken, Zenon
  <2> QED
    BY <1>4, <2>1, MaxTasksAssumption DEF Pid, Occupied
<1>7. Occupied(t) \in SUBSET Pid
  BY DEF Occupied
<1>8. CASE ahead # MAX_TASKS
  <2>1. ahead \in Occupied(t) /\ ahead > c
    BY <1>4, <1>5, <1>8, MaxTasksAssumption DEF Pid
  <2>2. \A q \in Occupied(t) : Distance(c, ahead) <= Distance(c, q)
    BY <1>5, <1>7, <2>1, MaxTasksAssumption DEF Distance, Pid
  <2> QED
    BY <1>3, <1>7, <1>8, <2>1, <2>2, FirstAfterIs DEF NextTask
<1>9. CASE ahead = MAX_TASKS /\ wrapped # MAX_TASKS
  <2>1. wrapped \in Occupied(t) /\ \A q \in Occupied(t) : ~ (q > c)
    BY <1>5, <1>6, <1>7, <1>9, MaxTasksAssumption DEF Pid
  <2>2. \A q \in Occupied(t) : Distance(c, wrapped) <= Distance(c, q)
    BY <1>6, <1>7, <2>1, MaxTasksAssumption DEF Distance, Pid
  <2> QED
    BY <1>3, <1>7, <1>9, <2>1, <2>2, FirstAfterIs DEF NextTask
<1>10. CASE ahead = MAX_TASKS /\ wrapped = MAX_TASKS
  <2>1. Occupied(t) = {}
    BY <1>6, <1>7, <1>10, MaxTasksAssumption DEF Pid
  <2> QED
    BY <1>3, <1>10, <2>1 DEF NextTask, FirstAfter
<1> QED
  BY <1>8, <1>9, <1>10

(* The pids task_get_next_task_with_state visits, as its loop leaves them.  *)
Visit(f, t, c, n) ==
  IF n = 0 THEN c ELSE IF n > 1 /\ f[n - 1] = 0 THEN 0 ELSE NextTaskLoop(t, f[n - 1])

Visits(t, c) == CHOOSE f : f = [n \in 0 .. MAX_TASKS |-> Visit(f, t, c, n)]

LEMMA VisitsExist ==
  ASSUME NEW t, NEW c
  PROVE  Visits(t, c) = [n \in 0 .. MAX_TASKS |-> Visit(Visits(t, c), t, c, n)]
<1> DEFINE Good(k) == \E f : f = [n \in 0 .. k |-> Visit(f, t, c, n)]
           Bad == {k \in 0 .. MAX_TASKS : ~ Good(k)}
<1>1. Good(0)
  <2>1. PICK f : f = [n \in 0 .. 0 |-> c]
    OBVIOUS
  <2>2. \A n \in 0 .. 0 : Visit(f, t, c, n) = c
    BY DEF Visit
  <2>3. f = [n \in 0 .. 0 |-> Visit(f, t, c, n)]
    BY <2>1, <2>2
  <2> QED
    BY <2>3
<1>2. ASSUME NEW k \in 0 .. MAX_TASKS - 1, Good(k)
      PROVE  Good(k + 1)
  <2>1. PICK f : f = [n \in 0 .. k |-> Visit(f, t, c, n)]
    BY <1>2
  <2>2. PICK g : g = [n \in 0 .. k + 1 |-> IF n <= k THEN f[n] ELSE Visit(f, t, c, n)]
    OBVIOUS
  <2>3. ASSUME NEW n \in 0 .. k + 1
        PROVE  g[n] = Visit(g, t, c, n)
    <3>1. n # 0 => n - 1 \in 0 .. k /\ g[n - 1] = f[n - 1]
      BY <2>2, MaxTasksAssumption
    <3>2. Visit(g, t, c, n) = Visit(f, t, c, n)
      BY <3>1 DEF Visit
    <3>3. CASE n <= k
      <4>1. n \in 0 .. k
        BY <3>3
      <4> QED
        BY <2>1, <2>2, <3>2, <3>3, <4>1
    <3>4. CASE ~ (n <= k)
      BY <2>2, <3>2, <3>4
    <3> QED
      BY <3>3, <3>4
  <2>4. g = [n \in 0 .. k + 1 |-> g[n]]
    BY <2>2
  <2>5. g = [n \in 0 .. k + 1 |-> Visit(g, t, c, n)]
    BY <2>3, <2>4, Zenon
  <2> QED
    BY <2>5
<1> HIDE DEF Good
<1>3. Bad = {}
  <2> SUFFICES ASSUME Bad # {} PROVE FALSE
    OBVIOUS
  <2>1. PICK m \in Bad : \A k \in Bad : m <= k
    <3>1. Bad \in SUBSET Nat
      BY MaxTasksAssumption
    <3> QED
      BY <3>1, LeastMember
  <2>2. m # 0
    BY <1>1, <2>1
  <2>3. m - 1 \in 0 .. MAX_TASKS - 1 /\ ~ (m <= m - 1) /\ (m - 1) + 1 = m
    BY <2>1, <2>2, MaxTasksAssumption
  <2>4. m - 1 \in 0 .. MAX_TASKS
    BY <2>3, MaxTasksAssumption
  <2>5. Good(m - 1)
    BY <2>1, <2>3, <2>4
  <2>6. Good((m - 1) + 1)
    BY <1>2, <2>3, <2>5
  <2> QED
    BY <2>1, <2>3, <2>6
<1>4. Good(MAX_TASKS)
  BY <1>3, MaxTasksAssumption
<1> QED
  BY <1>4 DEF Good, Visits

LEMMA VisitsStep ==
  ASSUME NEW t \in Table, NEW c \in Pid \union {0}
  PROVE  /\ Visits(t, c)[1] = NextTask(t, c)
         /\ \A n \in 1 .. MAX_TASKS - 1 :
              Visits(t, c)[n] \in Pid => Visits(t, c)[n + 1] = NextTask(t, Visits(t, c)[n])
<1>1. PICK f : f = Visits(t, c)
  OBVIOUS
<1>2. \A n \in 0 .. MAX_TASKS : f[n] = Visit(f, t, c, n)
  <2>1. Visits(t, c) = [n \in 0 .. MAX_TASKS |-> Visit(Visits(t, c), t, c, n)]
    BY VisitsExist
  <2>2. f = [n \in 0 .. MAX_TASKS |-> Visit(f, t, c, n)]
    BY <1>1, <2>1
  <2> QED
    BY <2>2
<1>3. f[0] = c /\ f[1] = NextTaskLoop(t, c)
  <2>1. f[0] = Visit(f, t, c, 0) /\ f[1] = Visit(f, t, c, 1)
    BY <1>2, MaxTasksAssumption
  <2>2. f[0] = c
    BY <2>1 DEF Visit
  <2> QED
    BY <2>1, <2>2 DEF Visit
<1>4. ASSUME NEW n \in 1 .. MAX_TASKS - 1, f[n] \in Pid
      PROVE  f[n + 1] = NextTask(t, f[n])
  <2>1. f[n + 1] = Visit(f, t, c, n + 1)
    BY <1>2, MaxTasksAssumption
  <2>2. n + 1 # 0 /\ (n + 1) - 1 = n /\ f[n] # 0
    BY <1>4, MaxTasksAssumption DEF Pid
  <2>3. f[n + 1] = NextTaskLoop(t, f[n])
    BY <2>1, <2>2 DEF Visit
  <2> QED
    BY <1>4, <2>3, NextTaskLoopFinds
<1> QED
  BY <1>1, <1>3, <1>4, NextTaskLoopFinds

(* Distances add up as long as they do not go round.                       *)
LEMMA DistanceAdds ==
  ASSUME NEW c \in Pid \union {0}, NEW v \in Pid, NEW u \in Pid
  PROVE  /\ Distance(c, v) + Distance(v, u) <= MAX_TASKS - 1
              => Distance(c, u) = Distance(c, v) + Distance(v, u)
         /\ Distance(c, v) < Distance(c, u)
              => Distance(c, u) = Distance(c, v) + Distance(v, u)
BY MaxTasksAssumption DEF Distance, Pid

(* From task to task the loop comes closer to the first one in the state   *)
(* and never passes it.                                                    *)
LEMMA VisitsApproach ==
  ASSUME NEW t \in Table, NEW c \in Pid \union {0}, NEW W \in SUBSET Occupied(t),
         NEW w \in W, \A q \in W : Distance(c, w) <= Distance(c, q)
  PROVE  \A n \in 1 .. MAX_TASKS :
           (\A m \in 1 .. n - 1 : Visits(t, c)[m] \notin W)
             => /\ Visits(t, c)[n] \in Occupied(t)
                /\ n <= Distance(c, Visits(t, c)[n])
                /\ Distance(c, Visits(t, c)[n]) <= Distance(c, w)
<1>1. PICK f : f = Visits(t, c)
  OBVIOUS
<1>2. /\ f[1] = NextTask(t, c)
      /\ \A n \in 1 .. MAX_TASKS - 1 : f[n] \in Pid => f[n + 1] = NextTask(t, f[n])
  BY <1>1, VisitsStep
<1>3. /\ Occupied(t) \in SUBSET Pid /\ Occupied(t) # {} /\ w \in Occupied(t) /\ w \in Pid
      /\ W \in SUBSET Pid
  BY DEF Occupied
<1> DEFINE Close(n) ==
             (\A m \in 1 .. n - 1 : f[m] \notin W)
               => f[n] \in Occupied(t) /\ n <= Distance(c, f[n]) /\ Distance(c, f[n]) <= Distance(c, w)
           Bad == {n \in 1 .. MAX_TASKS : ~ Close(n)}
<1>4. Close(1)
  <2>1. /\ f[1] \in Occupied(t)
        /\ \A q \in Occupied(t) : Distance(c, f[1]) <= Distance(c, q)
    BY <1>2, <1>3, FirstAfterIsFirst DEF NextTask
  <2>2. Distance(c, f[1]) \in 1 .. MAX_TASKS - 1
    BY <1>3, <2>1, DistanceRange
  <2> QED
    BY <1>3, <2>1, <2>2, MaxTasksAssumption
<1>5. ASSUME NEW n \in 1 .. MAX_TASKS - 1, Close(n), \A m \in 1 .. n : f[m] \notin W
      PROVE  Close(n + 1)
  <2>1. /\ f[n] \in Occupied(t) /\ n <= Distance(c, f[n]) /\ Distance(c, f[n]) <= Distance(c, w)
        /\ f[n] \notin W
    <3>1. \A m \in 1 .. n - 1 : f[m] \notin W
      BY <1>5, MaxTasksAssumption
    <3>2. n \in 1 .. n
      BY MaxTasksAssumption
    <3> QED
      BY <1>5, <3>1, <3>2
  <2>2. PICK v : v = f[n]
    OBVIOUS
  <2>3. PICK u : u = f[n + 1]
    OBVIOUS
  <2>4. v \in Pid /\ v # w
    BY <1>3, <2>1, <2>2
  <2>5. /\ u \in Occupied(t)
        /\ \A q \in Occupied(t) : Distance(v, u) <= Distance(v, q)
    BY <1>2, <1>3, <2>2, <2>3, <2>4, FirstAfterIsFirst DEF NextTask
  <2>6. u \in Pid /\ Distance(v, u) <= Distance(v, w)
    BY <1>3, <2>5
  <2>7. /\ Distance(c, v) \in Nat /\ Distance(c, w) \in 1 .. MAX_TASKS - 1
        /\ Distance(v, u) \in 1 .. MAX_TASKS - 1 /\ Distance(v, w) \in Nat
    BY <1>3, <2>4, <2>6, DistanceRange, MaxTasksAssumption
  <2>8. Distance(c, v) < Distance(c, w)
    BY <1>3, <2>1, <2>2, <2>4, <2>7, DistanceInjective
  <2>9. Distance(c, w) = Distance(c, v) + Distance(v, w)
    BY <1>3, <2>4, <2>8, DistanceAdds
  <2>10. Distance(c, u) = Distance(c, v) + Distance(v, u)
    <3>1. Distance(c, v) + Distance(v, u) <= MAX_TASKS - 1
      BY <2>6, <2>7, <2>9, MaxTasksAssumption
    <3> QED
      BY <2>4, <2>6, <3>1, DistanceAdds
  <2>11. n + 1 <= Distance(c, u) /\ Distance(c, u) <= Distance(c, w)
    BY <2>1, <2>2, <2>6, <2>7, <2>9, <2>10, MaxTasksAssumption
  <2> QED
    BY <2>3, <2>5, <2>11
<1>6. Bad = {}
  <2> SUFFICES ASSUME Bad # {} PROVE FALSE
    OBVIOUS
  <2>1. PICK b \in Bad : \A k \in Bad : b <= k
    <3>1. Bad \in SUBSET Nat
      BY MaxTasksAssumption
    <3> QED
      BY <3>1, LeastMember
  <2> HIDE DEF Close
  <2>2. b # 1
    BY <1>4, <2>1
  <2>3. b - 1 \in 1 .. MAX_TASKS - 1 /\ b - 1 \in 1 .. MAX_TASKS /\ ~ (b <= b - 1)
        /\ (b - 1) + 1 = b
    BY <2>1, <2>2, MaxTasksAssumption
  <2>4. Close(b - 1)
    BY <2>1, <2>3
  <2>5. \A m \in 1 .. b - 1 : f[m] \notin W
    BY <2>1 DEF Close
  <2>6. Close((b - 1) + 1)
    BY <1>5, <2>3, <2>4, <2>5
  <2> QED
    BY <2>1, <2>3, <2>6
<1> QED
  BY <1>1, <1>6

(* In an empty list it ends at once, in any other it goes on from one task *)
(* to the next.                                                            *)
LEMMA VisitsEnd ==
  ASSUME NEW t \in Table, NEW c \in Pid \union {0}
  PROVE  /\ Occupied(t) = {} => Visits(t, c)[1] = 0
         /\ Occupied(t) # {} => \A n \in 1 .. MAX_TASKS : Visits(t, c)[n] \in Occupied(t)
<1>1. PICK f : f = Visits(t, c)
  OBVIOUS
<1>2. /\ f[1] = NextTask(t, c)
      /\ \A n \in 1 .. MAX_TASKS - 1 : f[n] \in Pid => f[n + 1] = NextTask(t, f[n])
  BY <1>1, VisitsStep
<1>3. Occupied(t) \in SUBSET Pid
  BY DEF Occupied
<1>4. Occupied(t) = {} => f[1] = 0
  BY <1>2 DEF NextTask, FirstAfter
<1>5. ASSUME Occupied(t) # {}
      PROVE  \A n \in 1 .. MAX_TASKS : f[n] \in Occupied(t)
  <2> DEFINE Bad == {n \in 1 .. MAX_TASKS : f[n] \notin Occupied(t)}
  <2> SUFFICES ASSUME Bad # {} PROVE FALSE
    OBVIOUS
  <2>1. PICK b \in Bad : \A k \in Bad : b <= k
    <3>1. Bad \in SUBSET Nat
      BY MaxTasksAssumption
    <3> QED
      BY <3>1, LeastMember
  <2>2. b # 1
    BY <1>2, <1>3, <1>5, <2>1, FirstAfterIsFirst DEF NextTask
  <2>3. b - 1 \in 1 .. MAX_TASKS - 1 /\ b - 1 \in 1 .. MAX_TASKS /\ ~ (b <= b - 1)
        /\ (b - 1) + 1 = b
    BY <2>1, <2>2, MaxTasksAssumption
  <2>4. f[b - 1] \in Occupied(t)
    BY <2>1, <2>3
  <2>5. f[b - 1] \in Pid
    BY <1>3, <2>4
  <2>6. f[b] = FirstAfter(Occupied(t), f[b - 1])
    <3>1. f[(b - 1) + 1] = NextTask(t, f[b - 1])
      BY <1>2, <2>3, <2>5
    <3> QED
      BY <2>3, <3>1 DEF NextTask
  <2>7. f[b] \in Occupied(t)
    BY <1>3, <1>5, <2>5, <2>6, FirstAfterIsFirst
  <2> QED
    BY <2>1, <2>7
<1> QED
  BY <1>1, <1>4, <1>5

(* The loop of task_get_next_task_with_state finds the first task in the   *)
(* state, and 0 when there is none: its limit of MAX_TASKS visits never    *)
(* cuts it off.                                                            *)
LEMMA NextTaskWithStateLoopFinds ==
  ASSUME NEW t \in Table, NEW c \in Pid \union {0}, NEW state \in TaskState
  PROVE  NextTaskWithStateLoop(t, c, state) = NextTaskWithState(t, c, state)
<1>1. PICK f : f = Visits(t, c)
  OBVIOUS
<1>2. PICK W : W = InState(t, state)
  OBVIOUS
<1>3. PICK ends : ends = {n \in 1 .. MAX_TASKS : f[n] = 0 \/ t[f[n]] = state}
  OBVIOUS
<1>4. NextTaskWithStateLoop(t, c, state)
        = IF ends = {} THEN 0 ELSE f[CHOOSE n \in ends : \A m \in ends : n <= m]
  <2>1. NextTaskWithStateLoop(t, c, state)
          = LET visit == Visits(t, c)
                e == {n \in 1 .. MAX_TASKS : visit[n] = 0 \/ t[visit[n]] = state}
            IN  IF e = {} THEN 0 ELSE visit[CHOOSE n \in e : \A m \in e : n <= m]
    BY Zenon DEF NextTaskWithStateLoop, Visits, Visit
  <2> QED
    BY <1>1, <1>3, <2>1, Zenon
<1>5. /\ W \in SUBSET Occupied(t) /\ W \in SUBSET Pid /\ Occupied(t) \in SUBSET Pid
      /\ \A p \in Occupied(t) : p # 0 /\ (t[p] = state <=> p \in W)
  BY <1>2, MaxTasksAssumption DEF InState, Occupied, TaskState, Pid
<1>6. ends # {} => \E n \in ends : n = (CHOOSE k \in ends : \A m \in ends : k <= m)
                                  /\ \A m \in ends : n <= m
  <2>1. ends \in SUBSET Nat
    BY <1>3, MaxTasksAssumption
  <2>2. ends # {} => \E k \in ends : \A m \in ends : k <= m
    BY <2>1, LeastMember
  <2> QED
    BY <2>2
<1>7. NextTaskWithState(t, c, state) = FirstAfter(W, c)
  BY <1>2 DEF NextTaskWithState
<1>8. CASE Occupied(t) = {}
  <2>1. f[1] = 0 /\ W = {}
    BY <1>1, <1>5, <1>8, VisitsEnd
  <2>2. 1 \in ends
    BY <1>3, <2>1, MaxTasksAssumption
  <2>3. PICK n \in ends : n = (CHOOSE k \in ends : \A m \in ends : k <= m)
                          /\ \A m \in ends : n <= m
    BY <1>6, <2>2
  <2>4. n = 1
    <3>1. n <= 1
      BY <2>2, <2>3, Zenon
    <3>2. n \in 1 .. MAX_TASKS
      BY <1>3, Zenon
    <3> QED
      BY <3>1, <3>2, MaxTasksAssumption
  <2> QED
    BY <1>4, <1>7, <2>1, <2>2, <2>3, <2>4 DEF FirstAfter
<1>9. CASE Occupied(t) # {} /\ W = {}
  <2>1. \A n \in 1 .. MAX_TASKS : f[n] \in Occupied(t)
    BY <1>1, <1>9, VisitsEnd
  <2>2. ends = {}
    BY <1>3, <1>5, <1>9, <2>1
  <2> QED
    BY <1>4, <1>7, <1>9, <2>2 DEF FirstAfter
<1>10. CASE W # {}
  <2>1. \A n \in 1 .. MAX_TASKS : f[n] \in Occupied(t)
    BY <1>1, <1>5, <1>10, VisitsEnd
  <2>2. ends = {n \in 1 .. MAX_TASKS : f[n] \in W}
    BY <1>3, <1>5, <2>1
  <2>3. PICK w \in W : w = FirstAfter(W, c) /\ \A q \in W : Distance(c, w) <= Distance(c, q)
    BY <1>5, <1>10, FirstAfterIsFirst
  <2>4. \A n \in 1 .. MAX_TASKS :
          (\A m \in 1 .. n - 1 : f[m] \notin W)
            => /\ n <= Distance(c, f[n])
               /\ Distance(c, f[n]) <= Distance(c, w)
    BY <1>1, <1>5, <2>3, VisitsApproach
  <2>5. ends # {}
    <3> SUFFICES ASSUME ends = {} PROVE FALSE
      OBVIOUS
    <3>1. MAX_TASKS \in 1 .. MAX_TASKS /\ \A m \in 1 .. MAX_TASKS - 1 : m \in 1 .. MAX_TASKS
      BY MaxTasksAssumption
    <3>2. f[MAX_TASKS] \in Pid /\ MAX_TASKS <= Distance(c, f[MAX_TASKS])
      BY <1>5, <2>1, <2>2, <2>4, <3>1
    <3> QED
      BY <3>2, DistanceRange, MaxTasksAssumption
  <2>6. PICK n \in ends : n = (CHOOSE k \in ends : \A m \in ends : k <= m)
                          /\ \A m \in ends : n <= m
    BY <1>6, <2>5
  <2>7. \A m \in 1 .. n - 1 : f[m] \notin W
    <3> SUFFICES ASSUME NEW m \in 1 .. n - 1, f[m] \in W PROVE FALSE
      OBVIOUS
    <3>1. n \in 1 .. MAX_TASKS
      BY <2>2
    <3>2. m \in 1 .. MAX_TASKS /\ ~ (n <= m)
      BY <3>1, MaxTasksAssumption
    <3> QED
      BY <2>2, <2>6, <3>2
  <2>8. f[n] \in W /\ Distance(c, f[n]) <= Distance(c, w)
    BY <2>2, <2>4, <2>7
  <2>9. f[n] = w
    <3>1. Distance(c, w) \in Nat /\ Distance(c, f[n]) \in Nat
      BY <1>5, <2>8, DistanceRange, MaxTasksAssumption
    <3>2. Distance(c, f[n]) = Distance(c, w)
      BY <2>3, <2>8, <3>1
    <3> QED
      BY <1>5, <2>8, <3>2, DistanceInjective
  <2> QED
    BY <1>4, <1>7, <2>3, <2>5, <2>6, <2>9
<1> QED
  BY <1>8, <1>9, <1>10

AlgorithmsNext == TableStep \/ BitmapStep \/ PointerStep \/ NumberStep

-----------------------------------------------------------------------------
(* The task list.                                                          *)

LEMMA TableInit == AlgorithmsInit => tasks \in Table
BY DEF AlgorithmsInit, EmptyTable, Table, Slot

LEMMA TableNext ==
  tasks \in Table /\ [AlgorithmsNext]_<<vars, tasks, event, number>> => (tasks \in Table)'
<1> SUFFICES ASSUME tasks \in Table, [AlgorithmsNext]_<<vars, tasks, event, number>>
             PROVE  tasks' \in Table
  OBVIOUS
<1>1. CASE TaskAdd
  BY <1>1 DEF TaskAdd, Table, Slot, TaskState
<1>2. ASSUME NEW pid \in Pid, TaskStop(pid) \/ TaskRemove(pid)
      PROVE  tasks' \in Table
  BY <1>2 DEF TaskStop, TaskRemove, Table, Slot, TaskState
<1>3. CASE UNCHANGED tasks
  BY <1>3
<1> QED
  BY <1>1, <1>2, <1>3
     DEF AlgorithmsNext, TableStep, BitmapStep, PointerStep, NumberStep

(* The loops of task.c find what they are meant to find.                   *)
LEMMA LoopsFind == tasks \in Table => LookupsAgree
<1> SUFFICES ASSUME tasks \in Table PROVE LookupsAgree
  OBVIOUS
<1>1. ASSUME NEW c \in 0 .. MAX_TASKS - 1
      PROVE  /\ NextTaskLoop(tasks, c) = NextTask(tasks, c)
             /\ \A state \in TaskState :
                  NextTaskWithStateLoop(tasks, c, state) = NextTaskWithState(tasks, c, state)
  <2>1. c \in Pid \union {0}
    BY MaxTasksAssumption DEF Pid
  <2> QED
    BY <2>1, NextTaskLoopFinds, NextTaskWithStateLoopFinds
<1> QED
  BY <1>1, AddLoopFinds DEF LookupsAgree

(* The lookups of the scheduler are exact in every list of tasks that can  *)
(* come about, for every number of slots.                                  *)
THEOREM LookupsFind == AlgorithmsSpec => []LookupsAgree
<1>1. AlgorithmsSpec => AlgorithmsInit /\ [][AlgorithmsNext]_<<vars, tasks, event, number>>
  BY DEF AlgorithmsSpec, AlgorithmsNext
<1> QED
  BY <1>1, TableInit, TableNext, LoopsFind, PTL

-----------------------------------------------------------------------------
(* The mouse.                                                              *)

(* The low byte and the sign of a count make up the count.                 *)
LEMMA DeltaIsCount ==
  ASSUME NEW m \in Counts
  PROVE  Delta(m % Byte, m < 0) = m
<1>1. Byte \in Nat \ {0} /\ Word \in Nat /\ Byte < Word \div 2 /\ Word = 2 * (Word \div 2)
      /\ Word \div 2 \in Nat
  BY MouseAssumption
<1>2. m \in Int /\ -Byte <= m /\ m < Byte
  BY <1>1 DEF Counts
<1>3. CASE m >= 0
  <2>1. m % Byte = m
    BY <1>1, <1>2, <1>3
  <2> QED
    BY <1>1, <1>2, <1>3, <2>1 DEF Delta, Int16
<1>4. CASE m = -Byte
  <2>1. m % Byte = 0
    BY <1>1, <1>4
  <2> QED
    BY <1>1, <1>4, <2>1 DEF Delta, Int16
<1>5. CASE m < 0 /\ m # -Byte
  <2>1. m % Byte = m + Byte
    BY <1>1, <1>2, <1>5
  <2> QED
    BY <1>1, <1>2, <1>5, <2>1 DEF Delta, Int16
<1> QED
  BY <1>2, <1>3, <1>4, <1>5

(* Sum goes as far as there is room.                                       *)
LEMMA SumIsNearest ==
  ASSUME NEW max \in Nat, NEW c \in 0 .. max, NEW d \in Int
  PROVE  Sum(c, d, max) \in 0 .. max /\ Sum(c, d, max) = Nearest(c + d, max)
<1>1. PICK s : s = Sum(c, d, max)
  OBVIOUS
<1>2. s \in 0 .. max /\ \A q \in 0 .. max : ABS(s - (c + d)) <= ABS(q - (c + d))
  BY <1>1 DEF Sum, ABS
<1>3. \A p \in 0 .. max :
        (\A q \in 0 .. max : ABS(p - (c + d)) <= ABS(q - (c + d))) => p = s
  <2> SUFFICES ASSUME NEW p \in 0 .. max,
                      ABS(p - (c + d)) <= ABS(s - (c + d))
               PROVE  p = s
    BY <1>2
  <2> QED
    BY <1>1, <1>2 DEF Sum, ABS
<1> QED
  BY <1>1, <1>2, <1>3 DEF Nearest

(* Intern coordinates are mapped into the screen, edge to edge.            *)
LEMMA MapRange ==
  ASSUME NEW in_max \in Nat \ {0}, NEW out_max \in Nat, NEW c \in 0 .. in_max
  PROVE  map(c, in_max, out_max) \in 0 .. out_max
         /\ map(in_max, in_max, out_max) = out_max
<1>1. c * out_max \in Nat /\ c * out_max <= in_max * out_max
  OBVIOUS
<1>2. PICK r : r = (c * out_max) \div in_max
  OBVIOUS
<1>3. r \in Nat /\ r * in_max <= c * out_max
  BY <1>1, <1>2
<1>4. r <= out_max
  <2> SUFFICES ASSUME r >= out_max + 1 PROVE FALSE
    BY <1>3
  <2>1. r * in_max >= (out_max + 1) * in_max
    BY <1>3
  <2> QED
    BY <1>1, <1>3, <2>1
<1>5. (in_max * out_max) \div in_max = out_max
  OBVIOUS
<1> QED
  BY <1>2, <1>3, <1>4, <1>5 DEF map

(* Where the pointer is, and that its place on the screen goes with it.    *)
OnScreen ==
  /\ event \in Event
  /\ event.x = x_max => event.screen_x = screen_width
  /\ event.y = y_max => event.screen_y = screen_height

(* A packet with an overflow or a large movement is dropped.               *)
LEMMA PacketDropped ==
  ASSUME NEW mx \in Counts, NEW my \in Counts,
         NEW overflow \in BOOLEAN, NEW pressed \in BOOLEAN,
         overflow \/ ABS(mx) > delta_max \/ ABS(my) > delta_max
  PROVE  mouse_process_packet(Packet(mx, my, overflow, pressed)) = event
<1>1. PICK packet : packet = Packet(mx, my, overflow, pressed)
  OBVIOUS
<1>2. /\ packet.overflow = overflow
      /\ Delta(packet.x_movement, packet.x_sign) = mx
      /\ Delta(packet.y_movement, packet.y_sign) = my
  BY <1>1, DeltaIsCount DEF Packet
<1>3. ABS(-my) = ABS(my)
  BY MouseAssumption DEF Counts, ABS
<1> QED
  BY <1>1, <1>2, <1>3 DEF mouse_process_packet

LEMMA EventFields ==
  ASSUME NEW nx, NEW ny, NEW sx, NEW sy, NEW button, NEW e,
         e = [x |-> nx, y |-> ny, screen_x |-> sx, screen_y |-> sy, pressed |-> button]
  PROVE  /\ e.x = nx /\ e.y = ny /\ e.screen_x = sx /\ e.screen_y = sy
         /\ nx \in 0 .. x_max /\ ny \in 0 .. y_max /\ sx \in 0 .. screen_width
            /\ sy \in 0 .. screen_height /\ button \in BOOLEAN => e \in Event
BY DEF Event

(* Any other moves the pointer.                                            *)
LEMMA PacketMoves ==
  ASSUME OnScreen, NEW mx \in Counts, NEW my \in Counts,
         NEW overflow \in BOOLEAN, NEW pressed \in BOOLEAN,
         ~ overflow, ~ (ABS(mx) > delta_max), ~ (ABS(my) > delta_max),
         NEW e, e = mouse_process_packet(Packet(mx, my, overflow, pressed))
  PROVE  /\ e.x = Nearest(event.x + mx, x_max)
         /\ e.y = Nearest(event.y - my, y_max)
         /\ e \in Event
         /\ e.x = x_max => e.screen_x = screen_width
         /\ e.y = y_max => e.screen_y = screen_height
<1>1. PICK packet : packet = Packet(mx, my, overflow, pressed)
  OBVIOUS
<1>2. /\ ~ packet.overflow /\ packet.pressed = pressed
      /\ Delta(packet.x_movement, packet.x_sign) = mx
      /\ Delta(packet.y_movement, packet.y_sign) = my
  BY <1>1, DeltaIsCount DEF Packet
<1>3. PICK nx : nx = Sum(event.x, mx, x_max)
  OBVIOUS
<1>4. PICK ny : ny = Sum(event.y, -my, y_max)
  OBVIOUS
<1>5. mx \in Int /\ my \in Int /\ ABS(-my) = ABS(my)
  BY MouseAssumption DEF Counts, ABS
<1>6. PICK sx : sx = map(nx, x_max, screen_width)
  OBVIOUS
<1>7. PICK sy : sy = map(ny, y_max, screen_height)
  OBVIOUS
<1>p. PICK button : button = packet.pressed
  OBVIOUS
<1>8. e = [x |-> nx, y |-> ny, screen_x |-> sx, screen_y |-> sy, pressed |-> button]
  BY <1>1, <1>2, <1>p, <1>3, <1>4, <1>5, <1>6, <1>7 DEF mouse_process_packet
<1>9. /\ event.x \in 0 .. x_max /\ event.y \in 0 .. y_max
      /\ x_max \in Nat \ {0} /\ y_max \in Nat \ {0}
      /\ screen_width \in Nat /\ screen_height \in Nat
  BY MouseAssumption DEF OnScreen, Event
<1>10. nx = Nearest(event.x + mx, x_max) /\ nx \in 0 .. x_max
  BY <1>3, <1>5, <1>9, SumIsNearest
<1>11. ny = Nearest(event.y - my, y_max) /\ ny \in 0 .. y_max
  <2>1. -my \in Int /\ event.y + (-my) = event.y - my
    BY <1>5, <1>9
  <2> QED
    BY <1>4, <1>9, <2>1, SumIsNearest
<1>12. /\ sx \in 0 .. screen_width /\ (nx = x_max => sx = screen_width)
       /\ sy \in 0 .. screen_height /\ (ny = y_max => sy = screen_height)
  BY <1>6, <1>7, <1>9, <1>10, <1>11, MapRange
<1>13. e.x = nx /\ e.y = ny /\ e.screen_x = sx /\ e.screen_y = sy
  BY <1>8, EventFields
<1>14. e \in Event
  <2>1. button \in BOOLEAN
    BY <1>2, <1>p
  <2> QED
    BY <1>8, <1>10, <1>11, <1>12, <2>1, EventFields
<1> QED
  BY <1>10, <1>11, <1>12, <1>13, <1>14

LEMMA PointerInit == AlgorithmsInit => OnScreen
BY MouseAssumption DEF AlgorithmsInit, MouseInit, OnScreen, Event

LEMMA PointerNext ==
  OnScreen /\ [AlgorithmsNext]_<<vars, tasks, event, number>> => OnScreen'
<1> SUFFICES ASSUME OnScreen, [AlgorithmsNext]_<<vars, tasks, event, number>>
             PROVE  OnScreen'
  OBVIOUS
<1>1. CASE UNCHANGED event
  BY <1>1 DEF OnScreen
<1>2. ASSUME NEW mx \in Counts, NEW my \in Counts,
             NEW overflow \in BOOLEAN, NEW pressed \in BOOLEAN,
             event' = mouse_process_packet(Packet(mx, my, overflow, pressed))
      PROVE  OnScreen'
  <2>1. PICK e : e = event'
    OBVIOUS
  <2>2. CASE overflow \/ ABS(mx) > delta_max \/ ABS(my) > delta_max
    BY <1>1, <1>2, <2>2, PacketDropped
  <2>3. CASE ~ (overflow \/ ABS(mx) > delta_max \/ ABS(my) > delta_max)
    BY <1>2, <2>1, <2>3, PacketMoves DEF OnScreen
  <2> QED
    BY <2>2, <2>3
<1> QED
  BY <1>1, <1>2
     DEF AlgorithmsNext, TableStep, BitmapStep, PointerStep, NumberStep, MouseNext

LEMMA OnScreenMoves == OnScreen => MovesWithMouse
<1> SUFFICES ASSUME OnScreen PROVE MovesWithMouse
  OBVIOUS
<1>1. event.pressed \in BOOLEAN /\ FALSE \in BOOLEAN
  BY DEF OnScreen, Event
<1> DEFINE After(mx, my) == mouse_process_packet(Packet(mx, my, FALSE, event.pressed))
<1>2. ASSUME NEW mx \in Counts, NEW my \in Counts
      PROVE  IF ABS(mx) <= delta_max /\ ABS(my) <= delta_max
             THEN /\ After(mx, my).x = Nearest(event.x + mx, x_max)
                  /\ After(mx, my).y = Nearest(event.y - my, y_max)
             ELSE After(mx, my) = event
  <2>1. /\ ABS(mx) <= delta_max <=> ~ (ABS(mx) > delta_max)
        /\ ABS(my) <= delta_max <=> ~ (ABS(my) > delta_max)
    BY MouseAssumption DEF Counts, ABS
  <2>2. CASE ABS(mx) > delta_max \/ ABS(my) > delta_max
    <3>1. After(mx, my) = event
      BY <1>1, <2>2, PacketDropped
    <3> QED
      BY <2>1, <2>2, <3>1, Zenon
  <2>3. CASE ~ (ABS(mx) > delta_max \/ ABS(my) > delta_max)
    <3>1. /\ After(mx, my).x = Nearest(event.x + mx, x_max)
          /\ After(mx, my).y = Nearest(event.y - my, y_max)
      BY <1>1, <2>3, PacketMoves
    <3> QED
      BY <2>1, <2>3, <3>1, Zenon
  <2> QED
    BY <2>2, <2>3
<1> QED
  BY <1>2, Zenon DEF MovesWithMouse, OnScreen

(* The pointer goes with the mouse and stays on the screen, whatever the   *)
(* size of the counts, of the screen and of the intern coordinates.        *)
THEOREM PointerFollows == AlgorithmsSpec => []PointerFollowsMouse
<1>1. AlgorithmsSpec => AlgorithmsInit /\ [][AlgorithmsNext]_<<vars, tasks, event, number>>
  BY DEF AlgorithmsSpec, AlgorithmsNext
<1>2. OnScreen => PointerFollowsMouse
  BY OnScreenMoves DEF PointerFollowsMouse
<1> QED
  BY <1>1, <1>2, PointerInit, PointerNext, PTL

-----------------------------------------------------------------------------
(* The search for free frames.                                             *)

USE FramesAssumption, LengthsAssumption

(* While the search runs, the free_pages frames before i are unused, the   *)
(* frame before them, if any, is not, and no place that is large enough    *)
(* ends before i.                                                          *)
Searching ==
  /\ free_pages <= i
  /\ \A k \in i - free_pages .. i - 1 : bitmap[k] = "UNUSED"
  /\ free_pages < i => bitmap[i - free_pages - 1] # "UNUSED"
  /\ len # 0 => \A s \in Fits(bitmap, pages) : s + pages > i

IInv ==
  /\ TypeOK
  /\ result = NoResult => Searching
  /\ ReturnsFirstFit

-----------------------------------------------------------------------------
(* A length that is not 0 takes at least one page.                         *)
LEMMA PagesForPositive ==
  ASSUME NEW n \in Nat
  PROVE  /\ PagesFor(n) \in Nat
         /\ n # 0 => PagesFor(n) > 0
<1>1. /\ n \div PageSize \in Nat
      /\ n % PageSize \in Nat
      /\ n = PageSize * (n \div PageSize) + (n % PageSize)
  OBVIOUS
<1>2. n # 0 /\ n % PageSize = 0 => n \div PageSize # 0
  BY <1>1
<1> QED
  BY <1>1, <1>2 DEF PagesFor

(* A frame that starts a fit no other fit lies before is the first fit.    *)
LEMMA FirstFitIs ==
  ASSUME NEW b, NEW n \in Nat, NEW s \in Fits(b, n),
         \A t \in Fits(b, n) : s <= t
  PROVE  FirstFit(b, n) = s
<1>1. Fits(b, n) \subseteq Nat
  BY DEF Fits, Page
<1>2. FirstFit(b, n) \in Fits(b, n) /\ \A t \in Fits(b, n) : FirstFit(b, n) <= t
  BY DEF FirstFit
<1> QED
  BY <1>1, <1>2

(* Addresses of frames.                                                    *)
LEMMA AddressOfPage ==
  ASSUME NEW s \in Page
  PROVE  pmm_get_address(s) \in Address
<1>1. s * PageSize \in Nat /\ s + 1 <= PageNumber
  BY DEF Page
<1>2. (s + 1) * PageSize <= PageNumber * PageSize
  BY <1>1 DEF Page
<1>3. s * PageSize + PageSize = (s + 1) * PageSize
  BY DEF Page
<1> QED
  BY <1>1, <1>2, <1>3 DEF pmm_get_address, Address, MemorySize

LEMMA NoResultIsNoAddress == NoResult \notin Address /\ 0 \in Address
<1>1. PageNumber * PageSize \in Nat \ {0}
  OBVIOUS
<1> QED
  BY <1>1 DEF NoResult, Address, MemorySize

LEMMA InitIInv == Init => IInv
<1> SUFFICES ASSUME Init PROVE IInv
  OBVIOUS
<1>1. len \in Nat
  BY DEF Init
<1>2. TypeOK
  BY DEF Init, TypeOK
<1>3. Searching
  <2>1. len # 0 => \A s \in Fits(bitmap, pages) : s + pages > 0
    BY <1>1, PagesForPositive DEF Fits, Page, pages
  <2> QED
    BY <2>1 DEF Init, Searching
<1> QED
  BY <1>2, <1>3 DEF Init, IInv, ReturnsFirstFit

-----------------------------------------------------------------------------
LEMMA NextIInv == IInv /\ [Next]_vars => IInv'
<1> SUFFICES ASSUME IInv, [Next]_vars PROVE IInv'
  OBVIOUS
<1>t. TypeOK /\ len \in Nat /\ pages \in Nat /\ (len # 0 => pages > 0)
  BY PagesForPositive DEF IInv, TypeOK, pages
<1>0. NoResult \notin Address /\ 0 \in Address
  BY NoResultIsNoAddress
<1>1. CASE Nothing
  BY <1>1, <1>0, <1>t DEF Nothing, IInv, TypeOK, ReturnsFirstFit, pmm_find_free
<1>2. CASE VisitPage
  <2> USE <1>2
  <2>1. i \in Page /\ i \in Nat /\ bitmap' = bitmap /\ len' = len /\ pages' = pages /\ len # 0
    BY <1>t DEF VisitPage, TypeOK, Page, pages
  <2>2. Searching
    BY DEF IInv, VisitPage
  <2>3. Run \in 0 .. i + 1 /\ Run <= PageNumber
    BY <2>1, <2>2, <1>t DEF Run, Searching, TypeOK, Page
  <2>4. \A k \in i - Run + 1 .. i : bitmap[k] = "UNUSED"
    BY <2>1, <2>2, <1>t DEF Run, Searching, TypeOK
  <2>5. Run < i + 1 => bitmap[i - Run] # "UNUSED"
    BY <2>1, <2>2, <1>t DEF Run, Searching, TypeOK
  <2>6. CASE Run >= pages
    <3> DEFINE s == i - Run + 1
    <3>1. result' = pmm_get_address(s) /\ i' = i /\ free_pages' = Run
      BY <2>6 DEF VisitPage
    <3>2. Run = pages
      \* one frame more than before, which was not enough
      <4>1. CASE Run = 0
        BY <4>1, <2>6, <2>1, <1>t
      <4>2. CASE Run # 0 /\ Run > pages
        <5>1. Run = free_pages + 1 /\ free_pages >= pages /\ free_pages <= i
          BY <4>2, <2>2, <1>t DEF Run, Searching, TypeOK
        <5>2. i - pages \in Fits(bitmap, pages)
          BY <5>1, <2>1, <2>2, <1>t DEF Fits, Searching, TypeOK, Page
        <5> QED
          BY <5>2, <2>2, <2>1, <1>t DEF Searching
      <4> QED
        BY <4>1, <4>2, <2>6, <2>3, <1>t
    <3>3. s \in Fits(bitmap, pages)
      BY <3>2, <2>1, <2>3, <2>4, <1>t DEF Fits, Page
    <3>4. \A t \in Fits(bitmap, pages) : s <= t
      BY <3>2, <2>1, <2>2, <2>3, <1>t DEF Searching, Fits, Page
    <3>5. FirstFit(bitmap, pages) = s
      BY <3>3, <3>4, <1>t, FirstFitIs
    <3>6. result' \in Address
      BY <3>1, <3>3, AddressOfPage DEF Fits
    <3>7. result' = pmm_find_free(bitmap, len)
      BY <3>1, <3>3, <3>5, <2>1 DEF pmm_find_free, pages
    <3> QED
      BY <3>1, <3>6, <3>7, <2>1, <2>3, <1>t, <1>0 DEF IInv, TypeOK, ReturnsFirstFit
  <2>7. CASE ~ (Run >= pages)
    <3>1. result' = result /\ i' = i + 1 /\ free_pages' = Run /\ result = NoResult
      BY <2>7 DEF VisitPage
    <3>2. \A s \in Fits(bitmap, pages) : s + pages > i + 1
      <4> SUFFICES ASSUME NEW s \in Fits(bitmap, pages), ~ (s + pages > i + 1) PROVE FALSE
        OBVIOUS
      <4>1. s \in Nat /\ s + pages = i + 1
        <5>1. s + pages > i
          BY <2>1, <2>2 DEF Searching
        <5>2. s \in Nat
          BY DEF Fits, Page
        <5> QED
          BY <5>1, <5>2, <2>1, <1>t
      <4>2. i - Run \in s .. s + pages - 1
        BY <4>1, <2>3, <2>7, <2>1, <1>t
      <4>3. bitmap[i - Run] = "UNUSED"
        BY <4>2 DEF Fits
      <4> QED
        BY <4>1, <4>3, <2>5, <2>7, <2>3, <2>1, <1>t
    <3>3. Searching'
      BY <3>1, <3>2, <2>1, <2>3, <2>4, <2>5, <1>t DEF Searching
    <3>4. TypeOK'
      BY <3>1, <2>1, <2>3, <1>t DEF TypeOK, Page
    <3> QED
      BY <3>1, <3>3, <3>4 DEF IInv, ReturnsFirstFit, NoResult, MemorySize
  <2> QED
    BY <2>6, <2>7
<1>3. CASE GiveUp
  <2>1. Searching /\ i = PageNumber /\ len # 0 /\ result' = 0
        /\ UNCHANGED <<bitmap, len, i, free_pages>>
    BY <1>3 DEF GiveUp, IInv
  <2>2. Fits(bitmap, pages) = {}
    BY <2>1, <1>t DEF Searching, Fits, Page
  <2>3. result' = pmm_find_free(bitmap, len)
    BY <2>1, <2>2 DEF pmm_find_free, pages
  <2> QED
    BY <2>1, <2>3, <1>t, <1>0 DEF IInv, TypeOK, ReturnsFirstFit
<1>4. CASE UNCHANGED vars
  BY <1>4 DEF vars, IInv, TypeOK, Searching, ReturnsFirstFit, pages
<1> QED
  BY <1>1, <1>2, <1>3, <1>4 DEF Next

-----------------------------------------------------------------------------
(* Types, for every size of the memory and of a page.                      *)
THEOREM TypeCorrect == Spec => []TypeOK
<1>1. IInv => TypeOK
  BY DEF IInv
<1> QED
  BY InitIInv, NextIInv, <1>1, PTL DEF Spec

(* pmm_find_free returns the first fit of every bitmap and length.         *)
THEOREM FindsFirstFit == Spec => []ReturnsFirstFit
<1>1. IInv => ReturnsFirstFit
  BY DEF IInv
<1> QED
  BY InitIInv, NextIInv, <1>1, PTL DEF Spec

(* The search that the run of the algorithms makes is this one.            *)
THEOREM SearchesFirstFit == AlgorithmsSpec => []ReturnsFirstFit
<1>1. AlgorithmsInit => Init
  BY DEF AlgorithmsInit
<1>2. [AlgorithmsNext]_<<vars, tasks, event, number>> => [Next]_vars
  BY DEF AlgorithmsNext, TableStep, BitmapStep, PointerStep, NumberStep
<1>3. AlgorithmsSpec => AlgorithmsInit /\ [][AlgorithmsNext]_<<vars, tasks, event, number>>
  BY DEF AlgorithmsSpec, AlgorithmsNext
<1> QED
  BY <1>1, <1>2, <1>3, FindsFirstFit, PTL DEF Spec
=============================================================================
