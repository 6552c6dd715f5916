------------------------------ MODULE Ps2_proofs ------------------------------
(***************************************************************************)
(* What ps2_init_controller finds out and sets up, and what the drivers    *)
(* are given, for every hardware that port 2 can be, every key table, any  *)
(* number of strokes and any number of movements.                          *)
(*                                                                         *)
(* The set-up is a program of 53 operations, so that most of the invariant *)
(* says what holds at which of them: the configuration that has been       *)
(* written so far, and what is on its way.  A byte that the task reads is  *)
(* taken for the answer to its latest command; that it is this answer      *)
(* needs that there is nothing else.                                       *)
(*                                                                         *)
(* Once the keyboard is set up devices answer nothing but acknowledgements *)
(* and send input.  An interrupt that is requested finds its byte still    *)
(* there, unless a handler polled meanwhile, which is why no LED may be    *)
(* set while there is a mouse.  From this it follows that the drivers get  *)
(* what their devices sent, and nothing else.                              *)
(***************************************************************************)
EXTENDS Ps2, SequenceTheorems, WellFoundedInduction, TLAPS

-----------------------------------------------------------------------------
(* The program.                                                            *)

\* The operations Program is put together from.
Names == {"disable port", "enable port", "flush", "read config", "detect", "detect again",
          "test", "await", "await any", "turn on", "reset", "await reset", "disable",
          "set", "translate", "enable", "init_done"}
Operation == [op : Names, port : {0, 1, 2}]

\* What a concatenation is made of.
LEMMA Joined ==
  ASSUME NEW S, NEW s \in Seq(S), NEW t \in Seq(S)
  PROVE  /\ s \o t \in Seq(S) /\ Len(s \o t) = Len(s) + Len(t)
         /\ \A i \in 1 .. Len(s) + Len(t) :
              (s \o t)[i] = IF i <= Len(s) THEN s[i] ELSE t[i - Len(s)]
BY ConcatProperties, Zenon

\* Short tuples as sequences.
LEMMA Tuple3 ==
  ASSUME NEW S, NEW a \in S, NEW b \in S, NEW c \in S
  PROVE  <<a, b, c>> \in Seq(S) /\ Len(<<a, b, c>>) = 3
OBVIOUS

\* The same for two elements.
LEMMA Tuple2 ==
  ASSUME NEW S, NEW a \in S, NEW b \in S
  PROVE  <<a, b>> \in Seq(S) /\ Len(<<a, b>>) = 2
OBVIOUS

\* The same for five elements.
LEMMA Tuple5 ==
  ASSUME NEW S, NEW a \in S, NEW b \in S, NEW c \in S, NEW d \in S, NEW e \in S
  PROVE  <<a, b, c, d, e>> \in Seq(S) /\ Len(<<a, b, c, d, e>>) = 5
OBVIOUS

\* The same for seven elements.
LEMMA Tuple7 ==
  ASSUME NEW S, NEW a \in S, NEW b \in S, NEW c \in S, NEW d \in S,
         NEW e \in S, NEW f \in S, NEW g \in S
  PROVE  <<a, b, c, d, e, f, g>> \in Seq(S) /\ Len(<<a, b, c, d, e, f, g>>) = 7
OBVIOUS

\* The same for eight elements.
LEMMA Tuple8 ==
  ASSUME NEW S, NEW a \in S, NEW b \in S, NEW c \in S, NEW d \in S,
         NEW e \in S, NEW f \in S, NEW g \in S, NEW h \in S
  PROVE  <<a, b, c, d, e, f, g, h>> \in Seq(S) /\ Len(<<a, b, c, d, e, f, g, h>>) = 8
OBVIOUS

\* On makes an operation.
LEMMA OnIsOperation ==
  ASSUME NEW op \in Names, NEW port \in {0, 1, 2}
  PROVE  On(op, port) \in Operation
BY DEF Operation, On

\* Sent is a sequence of commands that are each followed by waiting for the answer.
LEMMA SentCode ==
  ASSUME NEW op \in Names, NEW p \in {1, 2}, NEW n \in Nat
  PROVE  /\ Sent(op, p, n) \in Seq(Operation) /\ Len(Sent(op, p, n)) = 2 * n
         /\ \A i \in 1 .. 2 * n : Sent(op, p, n)[i] = On(IF i % 2 = 1 THEN op ELSE "await", p)
<1> DEFINE f(i) == On(IF i % 2 = 1 THEN op ELSE "await", p)
<1>1. \A i \in 1 .. 2 * n : f(i) \in Operation
  <2> SUFFICES ASSUME NEW i \in 1 .. 2 * n PROVE f(i) \in Operation
    OBVIOUS
  <2>1. CASE i % 2 = 1
    BY <2>1, OnIsOperation
  <2>2. CASE i % 2 # 1
    BY <2>2, OnIsOperation DEF Names
  <2> QED
    BY <2>1, <2>2
<1>2. Sent(op, p, n) = [i \in 1 .. 2 * n |-> f(i)]
  BY DEF Sent
<1> HIDE DEF f
<1>3. Sent(op, p, n) \in Seq(Operation) /\ Len(Sent(op, p, n)) = 2 * n
  BY <1>1, <1>2
<1> QED
  BY <1>2, <1>3 DEF f

\* One command and its answer.
LEMMA SentOnce ==
  ASSUME NEW op \in Names, NEW p \in {1, 2}
  PROVE  LET s == Sent(op, p, 1)
         IN  s \in Seq(Operation) /\ Len(s) = 2 /\ s[1] = On(op, p) /\ s[2] = On("await", p)
<1> DEFINE s == Sent(op, p, 1)
<1>1. /\ s \in Seq(Operation) /\ Len(s) = 2 * 1
      /\ \A i \in 1 .. 2 * 1 : s[i] = On(IF i % 2 = 1 THEN op ELSE "await", p)
  <2>1. 1 \in Nat
    OBVIOUS
  <2> QED
    BY <2>1, SentCode, Zenon
<1> HIDE DEF s
<1>2. 1 % 2 = 1 /\ 2 % 2 # 1
  OBVIOUS
<1> QED
  BY <1>1, <1>2 DEF s

\* Four commands and their answers.
LEMMA SentFourTimes ==
  ASSUME NEW op \in Names, NEW p \in {1, 2}
  PROVE  LET s == Sent(op, p, 4)
         IN  /\ s \in Seq(Operation) /\ Len(s) = 8
             /\ s[1] = On(op, p) /\ s[2] = On("await", p)
             /\ s[3] = On(op, p) /\ s[4] = On("await", p)
             /\ s[5] = On(op, p) /\ s[6] = On("await", p)
             /\ s[7] = On(op, p) /\ s[8] = On("await", p)
<1> DEFINE s == Sent(op, p, 4)
<1>1. /\ s \in Seq(Operation) /\ Len(s) = 2 * 4
      /\ \A i \in 1 .. 2 * 4 : s[i] = On(IF i % 2 = 1 THEN op ELSE "await", p)
  <2>1. 4 \in Nat
    OBVIOUS
  <2> QED
    BY <2>1, SentCode, Zenon
<1> HIDE DEF s
<1>2. /\ 1 % 2 = 1 /\ 2 % 2 # 1 /\ 3 % 2 = 1 /\ 4 % 2 # 1
      /\ 5 % 2 = 1 /\ 6 % 2 # 1 /\ 7 % 2 = 1 /\ 8 % 2 # 1
  OBVIOUS
<1> QED
  BY <1>1, <1>2 DEF s

\* The operations of ps2_init_controller, one by one.
LEMMA ControllerCode ==
  LET s == SetUpController
  IN  /\ s \in Seq(Operation) /\ Len(s) = 18
      /\ s[1] = On("disable port", 1) /\ s[2] = On("disable port", 2) /\ s[3] = On("flush", 0)
      /\ s[4] = On("read config", 0) /\ s[5] = On("detect", 0)
      /\ s[6] = On("test", 0) /\ s[7] = On("await", 0)
      /\ s[8] = On("enable port", 2) /\ s[9] = On("read config", 2) /\ s[10] = On("detect again", 2)
      /\ s[11] = On("test", 0) /\ s[12] = On("await", 0)
      /\ s[13] = On("test", 2) /\ s[14] = On("await any", 2)
      /\ s[15] = On("enable port", 1) /\ s[16] = On("enable port", 2)
      /\ s[17] = On("read config", 0) /\ s[18] = On("turn on", 0)
<1>1. /\ On("disable port", 1) \in Operation /\ On("disable port", 2) \in Operation
      /\ On("flush", 0) \in Operation /\ On("read config", 0) \in Operation
      /\ On("detect", 0) \in Operation /\ On("test", 0) \in Operation
      /\ On("await", 0) \in Operation /\ On("enable port", 2) \in Operation
      /\ On("read config", 2) \in Operation /\ On("detect again", 2) \in Operation
      /\ On("test", 2) \in Operation /\ On("await any", 2) \in Operation
      /\ On("enable port", 1) \in Operation /\ On("turn on", 0) \in Operation
  BY OnIsOperation DEF Names
<1> DEFINE a == <<On("disable port", 1), On("disable port", 2), On("flush", 0),
                  On("read config", 0), On("detect", 0), On("test", 0), On("await", 0)>>
           b == <<On("enable port", 2), On("read config", 2), On("detect again", 2)>>
           c == <<On("test", 0), On("await", 0), On("test", 2), On("await any", 2),
                  On("enable port", 1), On("enable port", 2),
                  On("read config", 0), On("turn on", 0)>>
<1>2. SetUpController = a \o b \o c
  BY DEF SetUpController, DetectAgain, Flush, CONTROLLER
<1>3. a \in Seq(Operation) /\ Len(a) = 7
  BY <1>1, Tuple7, Zenon
<1>4. b \in Seq(Operation) /\ Len(b) = 3
  BY <1>1, Tuple3, Zenon
<1>5. c \in Seq(Operation) /\ Len(c) = 8
  BY <1>1, Tuple8, Zenon
<1>6. /\ a[1] = On("disable port", 1) /\ a[2] = On("disable port", 2) /\ a[3] = On("flush", 0)
      /\ a[4] = On("read config", 0) /\ a[5] = On("detect", 0)
      /\ a[6] = On("test", 0) /\ a[7] = On("await", 0)
  OBVIOUS
<1>7. b[1] = On("enable port", 2) /\ b[2] = On("read config", 2) /\ b[3] = On("detect again", 2)
  OBVIOUS
<1>8. /\ c[1] = On("test", 0) /\ c[2] = On("await", 0)
      /\ c[3] = On("test", 2) /\ c[4] = On("await any", 2)
      /\ c[5] = On("enable port", 1) /\ c[6] = On("enable port", 2)
      /\ c[7] = On("read config", 0) /\ c[8] = On("turn on", 0)
  OBVIOUS
<1> HIDE DEF a, b, c
<1> DEFINE r == a \o b
<1>9. /\ r \in Seq(Operation) /\ Len(r) = Len(a) + Len(b)
      /\ \A i \in 1 .. Len(a) + Len(b) : r[i] = IF i <= Len(a) THEN a[i] ELSE b[i - Len(a)]
  BY <1>3, <1>4, Joined, Zenon
<1> DEFINE s == r \o c
<1> HIDE DEF r
<1>10. /\ s \in Seq(Operation) /\ Len(s) = Len(r) + Len(c)
       /\ \A i \in 1 .. Len(r) + Len(c) : s[i] = IF i <= Len(r) THEN r[i] ELSE c[i - Len(r)]
  <2>1. r \in Seq(Operation)
    BY <1>9
  <2> QED
    BY <1>5, <2>1, Joined, Zenon
<1> HIDE DEF s
<1>11. /\ Len(s) = 18
       /\ s[1] = a[1] /\ s[2] = a[2] /\ s[3] = a[3] /\ s[4] = a[4] /\ s[5] = a[5]
       /\ s[6] = a[6] /\ s[7] = a[7] /\ s[8] = b[1] /\ s[9] = b[2] /\ s[10] = b[3]
       /\ s[11] = c[1] /\ s[12] = c[2] /\ s[13] = c[3] /\ s[14] = c[4] /\ s[15] = c[5]
       /\ s[16] = c[6] /\ s[17] = c[7] /\ s[18] = c[8]
  BY <1>3, <1>4, <1>5, <1>9, <1>10
<1>12. SetUpController = s
  BY <1>2 DEF r, s
<1> QED
  BY <1>6, <1>7, <1>8, <1>10, <1>11, <1>12

\* The operations that reset the devices.
LEMMA ResetCode ==
  LET s == ResetDevices
  IN  /\ s \in Seq(Operation) /\ Len(s) = 5
      /\ s[1] = On("reset", 1) /\ s[2] = On("await reset", 1)
      /\ s[3] = On("reset", 2) /\ s[4] = On("await reset", 2) /\ s[5] = On("flush", 0)
<1>1. /\ On("reset", 1) \in Operation /\ On("await reset", 1) \in Operation
      /\ On("reset", 2) \in Operation /\ On("await reset", 2) \in Operation
      /\ On("flush", 0) \in Operation
  BY OnIsOperation DEF Names
<1> DEFINE s == <<On("reset", 1), On("await reset", 1), On("reset", 2), On("await reset", 2),
                  On("flush", 0)>>
<1>2. ResetDevices = s
  BY DEF ResetDevices, Flush, CONTROLLER
<1>3. s \in Seq(Operation) /\ Len(s) = 5
  BY <1>1, Tuple5, Zenon
<1> QED
  BY <1>2, <1>3

\* The operations that disable the devices.
LEMMA DisableCode ==
  LET s == DisableDevices
  IN  /\ s \in Seq(Operation) /\ Len(s) = 6
      /\ s[1] = On("disable", 1) /\ s[2] = On("await", 1) /\ s[3] = On("flush", 0)
      /\ s[4] = On("disable", 2) /\ s[5] = On("await", 2) /\ s[6] = On("flush", 0)
<1> DEFINE a == Sent("disable", 1, 1)
           b == Sent("disable", 2, 1)
           f == <<On("flush", 0)>>
<1>1. DisableDevices = a \o f \o b \o f
  BY DEF DisableDevices, Flush, CONTROLLER
<1>2. a \in Seq(Operation) /\ Len(a) = 2 /\ a[1] = On("disable", 1) /\ a[2] = On("await", 1)
  <2>1. "disable" \in Names
    BY DEF Names
  <2> QED
    BY <2>1, SentOnce
<1>3. b \in Seq(Operation) /\ Len(b) = 2 /\ b[1] = On("disable", 2) /\ b[2] = On("await", 2)
  <2>1. "disable" \in Names
    BY DEF Names
  <2> QED
    BY <2>1, SentOnce
<1>4. f \in Seq(Operation) /\ Len(f) = 1 /\ f[1] = On("flush", 0)
  <2>1. On("flush", 0) \in Operation
    BY OnIsOperation DEF Names
  <2> QED
    BY <2>1
<1> HIDE DEF a, b, f
<1> DEFINE r == a \o f
<1>5. /\ r \in Seq(Operation) /\ Len(r) = Len(a) + Len(f)
      /\ \A i \in 1 .. Len(a) + Len(f) : r[i] = IF i <= Len(a) THEN a[i] ELSE f[i - Len(a)]
  BY <1>2, <1>4, Joined, Zenon
<1> DEFINE s == r \o b
<1> HIDE DEF r
<1>6. /\ s \in Seq(Operation) /\ Len(s) = Len(r) + Len(b)
      /\ \A i \in 1 .. Len(r) + Len(b) : s[i] = IF i <= Len(r) THEN r[i] ELSE b[i - Len(r)]
  <2>1. r \in Seq(Operation)
    BY <1>5
  <2> QED
    BY <1>3, <2>1, Joined, Zenon
<1> DEFINE t == s \o f
<1> HIDE DEF s
<1>7. /\ t \in Seq(Operation) /\ Len(t) = Len(s) + Len(f)
      /\ \A i \in 1 .. Len(s) + Len(f) : t[i] = IF i <= Len(s) THEN s[i] ELSE f[i - Len(s)]
  <2>1. s \in Seq(Operation)
    BY <1>6
  <2> QED
    BY <1>4, <2>1, Joined, Zenon
<1> HIDE DEF t
<1>8. /\ Len(t) = 6
      /\ t[1] = a[1] /\ t[2] = a[2] /\ t[3] = f[1] /\ t[4] = b[1] /\ t[5] = b[2] /\ t[6] = f[1]
  BY <1>2, <1>3, <1>4, <1>5, <1>6, <1>7
<1>9. DisableDevices = t
  BY <1>1 DEF r, s, t
<1> QED
  BY <1>2, <1>3, <1>4, <1>7, <1>8, <1>9

\* The operations of keyboard_init.
LEMMA KeyboardCode ==
  LET s == SetUpKeyboard
  IN  /\ s \in Seq(Operation) /\ Len(s) = 10
      /\ s[1] = On("set", 1) /\ s[2] = On("await", 1)
      /\ s[3] = On("set", 1) /\ s[4] = On("await", 1)
      /\ s[5] = On("set", 1) /\ s[6] = On("await", 1)
      /\ s[7] = On("set", 1) /\ s[8] = On("await", 1)
      /\ s[9] = On("read config", 0) /\ s[10] = On("translate", 0)
<1> DEFINE a == Sent("set", 1, 4)
           b == <<On("read config", 0), On("translate", 0)>>
           s == a \o b
<1>1. SetUpKeyboard = s
  BY DEF SetUpKeyboard, CONTROLLER
<1>2. /\ a \in Seq(Operation) /\ Len(a) = 8
      /\ a[1] = On("set", 1) /\ a[2] = On("await", 1)
      /\ a[3] = On("set", 1) /\ a[4] = On("await", 1)
      /\ a[5] = On("set", 1) /\ a[6] = On("await", 1)
      /\ a[7] = On("set", 1) /\ a[8] = On("await", 1)
  <2>1. "set" \in Names /\ 1 \in {1, 2}
    BY DEF Names
  <2> QED
    BY <2>1, SentFourTimes, Zenon
<1>3. b \in Seq(Operation) /\ Len(b) = 2 /\ b[1] = On("read config", 0) /\ b[2] = On("translate", 0)
  <2>1. On("read config", 0) \in Operation /\ On("translate", 0) \in Operation
    BY OnIsOperation DEF Names
  <2> QED
    BY <2>1, Tuple2, Zenon
<1> HIDE DEF a, b
<1>4. /\ s \in Seq(Operation) /\ Len(s) = Len(a) + Len(b)
      /\ \A i \in 1 .. Len(a) + Len(b) : s[i] = IF i <= Len(a) THEN a[i] ELSE b[i - Len(a)]
  BY <1>2, <1>3, Joined, Zenon
<1> HIDE DEF s
<1>5. /\ s[1] = a[1] /\ s[2] = a[2] /\ s[3] = a[3] /\ s[4] = a[4]
      /\ s[5] = a[5] /\ s[6] = a[6] /\ s[7] = a[7] /\ s[8] = a[8]
      /\ s[9] = b[1] /\ s[10] = b[2] /\ Len(s) = 10 /\ s \in Seq(Operation)
  <2>1. Len(a) = 8 /\ Len(b) = 2
    BY <1>2, <1>3
  <2> QED
    BY <1>4, <2>1
<1> QED
  BY <1>1, <1>2, <1>3, <1>5

\* The operations of mouse_init.
LEMMA MouseCode ==
  LET s == SetUpMouse
  IN  /\ s \in Seq(Operation) /\ Len(s) = 8
      /\ s[1] = On("set", 2) /\ s[2] = On("await", 2)
      /\ s[3] = On("set", 2) /\ s[4] = On("await", 2)
      /\ s[5] = On("set", 2) /\ s[6] = On("await", 2)
      /\ s[7] = On("set", 2) /\ s[8] = On("await", 2)
<1>1. "set" \in Names /\ 2 \in {1, 2}
  BY DEF Names
<1> QED
  BY <1>1, SentFourTimes, Zenon DEF SetUpMouse

\* The operations that enable the devices.
LEMMA EnableCode ==
  LET s == EnableDevices
  IN  /\ s \in Seq(Operation) /\ Len(s) = 4
      /\ s[1] = On("enable", 1) /\ s[2] = On("await", 1)
      /\ s[3] = On("enable", 2) /\ s[4] = On("await", 2)
<1> DEFINE a == Sent("enable", 1, 1)
           b == Sent("enable", 2, 1)
           s == a \o b
<1>1. EnableDevices = s
  BY DEF EnableDevices
<1>2. a \in Seq(Operation) /\ Len(a) = 2 /\ a[1] = On("enable", 1) /\ a[2] = On("await", 1)
  <2>1. "enable" \in Names
    BY DEF Names
  <2> QED
    BY <2>1, SentOnce
<1>3. b \in Seq(Operation) /\ Len(b) = 2 /\ b[1] = On("enable", 2) /\ b[2] = On("await", 2)
  <2>1. "enable" \in Names
    BY DEF Names
  <2> QED
    BY <2>1, SentOnce
<1> HIDE DEF a, b
<1>4. /\ s \in Seq(Operation) /\ Len(s) = Len(a) + Len(b)
      /\ \A i \in 1 .. Len(a) + Len(b) : s[i] = IF i <= Len(a) THEN a[i] ELSE b[i - Len(a)]
  BY <1>2, <1>3, Joined, Zenon
<1> HIDE DEF s
<1> QED
  BY <1>1, <1>2, <1>3, <1>4

\* The operations of ps2_init: Program has 53, which are these.
LEMMA Code ==
  LET p == Program
  IN  /\ p \in Seq(Operation) /\ Len(p) = 53
      /\ p[1] = On("disable port", 1) /\ p[2] = On("disable port", 2) /\ p[3] = On("flush", 0)
      /\ p[4] = On("read config", 0) /\ p[5] = On("detect", 0)
      /\ p[6] = On("test", 0) /\ p[7] = On("await", 0)
      /\ p[8] = On("enable port", 2) /\ p[9] = On("read config", 2) /\ p[10] = On("detect again", 2)
      /\ p[11] = On("test", 0) /\ p[12] = On("await", 0)
      /\ p[13] = On("test", 2) /\ p[14] = On("await any", 2)
      /\ p[15] = On("enable port", 1) /\ p[16] = On("enable port", 2)
      /\ p[17] = On("read config", 0) /\ p[18] = On("turn on", 0)
      /\ p[19] = On("reset", 1) /\ p[20] = On("await reset", 1)
      /\ p[21] = On("reset", 2) /\ p[22] = On("await reset", 2) /\ p[23] = On("flush", 0)
      /\ p[24] = On("disable", 1) /\ p[25] = On("await", 1) /\ p[26] = On("flush", 0)
      /\ p[27] = On("disable", 2) /\ p[28] = On("await", 2) /\ p[29] = On("flush", 0)
      /\ p[30] = On("set", 1) /\ p[31] = On("await", 1)
      /\ p[32] = On("set", 1) /\ p[33] = On("await", 1)
      /\ p[34] = On("set", 1) /\ p[35] = On("await", 1)
      /\ p[36] = On("set", 1) /\ p[37] = On("await", 1)
      /\ p[38] = On("read config", 0) /\ p[39] = On("translate", 0)
      /\ p[40] = On("set", 2) /\ p[41] = On("await", 2)
      /\ p[42] = On("set", 2) /\ p[43] = On("await", 2)
      /\ p[44] = On("set", 2) /\ p[45] = On("await", 2)
      /\ p[46] = On("set", 2) /\ p[47] = On("await", 2)
      /\ p[48] = On("enable", 1) /\ p[49] = On("await", 1)
      /\ p[50] = On("enable", 2) /\ p[51] = On("await", 2)
      /\ p[52] = On("init_done", 0) /\ p[53] = On("flush", 0)
<1> DEFINE a == SetUpController
           b == ResetDevices
           c == DisableDevices
           d == SetUpKeyboard
           e == SetUpMouse
           f == EnableDevices
           g == <<On("init_done", 0), On("flush", 0)>>
<1>1. Program = a \o b \o c \o d \o e \o f \o g
  BY DEF Program, InitDone, Flush, CONTROLLER
<1>2. /\ a \in Seq(Operation) /\ Len(a) = 18 /\ b \in Seq(Operation) /\ Len(b) = 5
      /\ c \in Seq(Operation) /\ Len(c) = 6 /\ d \in Seq(Operation) /\ Len(d) = 10
      /\ e \in Seq(Operation) /\ Len(e) = 8 /\ f \in Seq(Operation) /\ Len(f) = 4
  BY ControllerCode, ResetCode, DisableCode, KeyboardCode, MouseCode, EnableCode, Zenon
<1>3. g \in Seq(Operation) /\ Len(g) = 2 /\ g[1] = On("init_done", 0) /\ g[2] = On("flush", 0)
  <2>1. On("init_done", 0) \in Operation /\ On("flush", 0) \in Operation
    BY OnIsOperation DEF Names
  <2> QED
    BY <2>1
<1> HIDE DEF a, b, c, d, e, f, g
<1> DEFINE p1 == a \o b
<1>4. /\ p1 \in Seq(Operation) /\ Len(p1) = 23
      /\ \A i \in 1 .. 18 : p1[i] = a[i]
      /\ \A i \in 19 .. 23 : p1[i] = b[i - 18]
  <2>1. a \in Seq(Operation) /\ Len(a) = 18
    BY <1>2
  <2>2. b \in Seq(Operation) /\ Len(b) = 5
    BY <1>2
  <2>3. /\ p1 \in Seq(Operation) /\ Len(p1) = Len(a) + Len(b)
        /\ \A i \in 1 .. Len(a) + Len(b) :
             p1[i] = IF i <= Len(a) THEN a[i] ELSE b[i - Len(a)]
    BY <2>1, <2>2, Joined, Zenon
  <2> HIDE DEF p1
  <2> QED
    BY <2>1, <2>2, <2>3
<1> HIDE DEF p1
<1> DEFINE p2 == p1 \o c
<1>5. /\ p2 \in Seq(Operation) /\ Len(p2) = 29
      /\ \A i \in 1 .. 23 : p2[i] = p1[i]
      /\ \A i \in 24 .. 29 : p2[i] = c[i - 23]
  <2>1. p1 \in Seq(Operation) /\ Len(p1) = 23
    BY <1>4
  <2>2. c \in Seq(Operation) /\ Len(c) = 6
    BY <1>2
  <2>3. /\ p2 \in Seq(Operation) /\ Len(p2) = Len(p1) + Len(c)
        /\ \A i \in 1 .. Len(p1) + Len(c) :
             p2[i] = IF i <= Len(p1) THEN p1[i] ELSE c[i - Len(p1)]
    BY <2>1, <2>2, Joined, Zenon
  <2> HIDE DEF p2
  <2> QED
    BY <2>1, <2>2, <2>3
<1> HIDE DEF p2
<1> DEFINE p3 == p2 \o d
<1>6. /\ p3 \in Seq(Operation) /\ Len(p3) = 39
      /\ \A i \in 1 .. 29 : p3[i] = p2[i]
      /\ \A i \in 30 .. 39 : p3[i] = d[i - 29]
  <2>1. p2 \in Seq(Operation) /\ Len(p2) = 29
    BY <1>5
  <2>2. d \in Seq(Operation) /\ Len(d) = 10
    BY <1>2
  <2>3. /\ p3 \in Seq(Operation) /\ Len(p3) = Len(p2) + Len(d)
        /\ \A i \in 1 .. Len(p2) + Len(d) :
             p3[i] = IF i <= Len(p2) THEN p2[i] ELSE d[i - Len(p2)]
    BY <2>1, <2>2, Joined, Zenon
  <2> HIDE DEF p3
  <2> QED
    BY <2>1, <2>2, <2>3
<1> HIDE DEF p3
<1> DEFINE p4 == p3 \o e
<1>7. /\ p4 \in Seq(Operation) /\ Len(p4) = 47
      /\ \A i \in 1 .. 39 : p4[i] = p3[i]
      /\ \A i \in 40 .. 47 : p4[i] = e[i - 39]
  <2>1. p3 \in Seq(Operation) /\ Len(p3) = 39
    BY <1>6
  <2>2. e \in Seq(Operation) /\ Len(e) = 8
    BY <1>2
  <2>3. /\ p4 \in Seq(Operation) /\ Len(p4) = Len(p3) + Len(e)
        /\ \A i \in 1 .. Len(p3) + Len(e) :
             p4[i] = IF i <= Len(p3) THEN p3[i] ELSE e[i - Len(p3)]
    BY <2>1, <2>2, Joined, Zenon
  <2> HIDE DEF p4
  <2> QED
    BY <2>1, <2>2, <2>3
<1> HIDE DEF p4
<1> DEFINE p5 == p4 \o f
<1>8. /\ p5 \in Seq(Operation) /\ Len(p5) = 51
      /\ \A i \in 1 .. 47 : p5[i] = p4[i]
      /\ \A i \in 48 .. 51 : p5[i] = f[i - 47]
  <2>1. p4 \in Seq(Operation) /\ Len(p4) = 47
    BY <1>7
  <2>2. f \in Seq(Operation) /\ Len(f) = 4
    BY <1>2
  <2>3. /\ p5 \in Seq(Operation) /\ Len(p5) = Len(p4) + Len(f)
        /\ \A i \in 1 .. Len(p4) + Len(f) :
             p5[i] = IF i <= Len(p4) THEN p4[i] ELSE f[i - Len(p4)]
    BY <2>1, <2>2, Joined, Zenon
  <2> HIDE DEF p5
  <2> QED
    BY <2>1, <2>2, <2>3
<1> HIDE DEF p5
<1> DEFINE p6 == p5 \o g
<1>9. /\ p6 \in Seq(Operation) /\ Len(p6) = 53
      /\ \A i \in 1 .. 51 : p6[i] = p5[i]
      /\ \A i \in 52 .. 53 : p6[i] = g[i - 51]
  <2>1. p5 \in Seq(Operation) /\ Len(p5) = 51
    BY <1>8
  <2>2. g \in Seq(Operation) /\ Len(g) = 2
    BY <1>3
  <2>3. /\ p6 \in Seq(Operation) /\ Len(p6) = Len(p5) + Len(g)
        /\ \A i \in 1 .. Len(p5) + Len(g) :
             p6[i] = IF i <= Len(p5) THEN p5[i] ELSE g[i - Len(p5)]
    BY <2>1, <2>2, Joined, Zenon
  <2> HIDE DEF p6
  <2> QED
    BY <2>1, <2>2, <2>3
<1> HIDE DEF p6
<1>10. Program = p6
  BY <1>1 DEF p1, p2, p3, p4, p5, p6
<1>11. \A i \in 1 .. 47 : p6[i] = p4[i]
  <2> TAKE i \in 1 .. 47
  <2>1. p6[i] = p5[i]
    <3>1. i \in 1 .. 51
      OBVIOUS
    <3> QED
      BY <1>9, <3>1
  <2>2. p5[i] = p4[i]
    BY <1>8
  <2> QED
    BY <2>1, <2>2
<1>12. \A i \in 1 .. 39 : p6[i] = p3[i]
  <2> TAKE i \in 1 .. 39
  <2>1. p6[i] = p4[i]
    BY <1>11
  <2>2. p4[i] = p3[i]
    BY <1>7
  <2> QED
    BY <2>1, <2>2
<1>13. \A i \in 1 .. 29 : p6[i] = p2[i]
  <2> TAKE i \in 1 .. 29
  <2>1. p6[i] = p3[i]
    BY <1>12
  <2>2. p3[i] = p2[i]
    BY <1>6
  <2> QED
    BY <2>1, <2>2
<1>14. \A i \in 1 .. 23 : p6[i] = p1[i]
  <2> TAKE i \in 1 .. 23
  <2>1. p6[i] = p2[i]
    BY <1>13
  <2>2. p2[i] = p1[i]
    BY <1>5
  <2> QED
    BY <2>1, <2>2
<1>15. \A i \in 1 .. 18 : p6[i] = a[i]
  <2> TAKE i \in 1 .. 18
  <2>1. p6[i] = p1[i]
    BY <1>14
  <2>2. p1[i] = a[i]
    BY <1>4
  <2> QED
    BY <2>1, <2>2
<1>16. \A i \in 19 .. 23 : p6[i] = b[i - 18]
  <2> TAKE i \in 19 .. 23
  <2>1. p6[i] = p1[i]
    BY <1>14
  <2>2. p1[i] = b[i - 18]
    BY <1>4
  <2> QED
    BY <2>1, <2>2
<1>17. \A i \in 24 .. 29 : p6[i] = c[i - 23]
  <2> TAKE i \in 24 .. 29
  <2>1. p6[i] = p2[i]
    BY <1>13
  <2>2. p2[i] = c[i - 23]
    BY <1>5
  <2> QED
    BY <2>1, <2>2
<1>18. \A i \in 30 .. 39 : p6[i] = d[i - 29]
  <2> TAKE i \in 30 .. 39
  <2>1. p6[i] = p3[i]
    BY <1>12
  <2>2. p3[i] = d[i - 29]
    BY <1>6
  <2> QED
    BY <2>1, <2>2
<1>19. \A i \in 40 .. 47 : p6[i] = e[i - 39]
  <2> TAKE i \in 40 .. 47
  <2>1. p6[i] = p4[i]
    BY <1>11
  <2>2. p4[i] = e[i - 39]
    BY <1>7
  <2> QED
    BY <2>1, <2>2
<1>20. \A i \in 48 .. 51 : p6[i] = f[i - 47]
  <2> TAKE i \in 48 .. 51
  <2>1. p6[i] = p5[i]
    <3>1. i \in 1 .. 51
      OBVIOUS
    <3> QED
      BY <1>9, <3>1
  <2>2. p5[i] = f[i - 47]
    BY <1>8
  <2> QED
    BY <2>1, <2>2
<1>21. /\ p6[19] = b[1] /\ p6[20] = b[2] /\ p6[21] = b[3] /\ p6[22] = b[4] /\ p6[23] = b[5]
       /\ p6[24] = c[1] /\ p6[25] = c[2] /\ p6[26] = c[3]
       /\ p6[27] = c[4] /\ p6[28] = c[5] /\ p6[29] = c[6]
       /\ p6[38] = d[9] /\ p6[39] = d[10]
       /\ p6[48] = f[1] /\ p6[49] = f[2] /\ p6[50] = f[3] /\ p6[51] = f[4]
       /\ p6[52] = g[1] /\ p6[53] = g[2]
  BY <1>16, <1>17, <1>18, <1>20, <1>9
<1>22. /\ p6[30] = d[1] /\ p6[31] = d[2] /\ p6[32] = d[3] /\ p6[33] = d[4]
       /\ p6[34] = d[5] /\ p6[35] = d[6] /\ p6[36] = d[7] /\ p6[37] = d[8]
  BY <1>18
<1>23. /\ p6[40] = e[1] /\ p6[41] = e[2] /\ p6[42] = e[3] /\ p6[43] = e[4]
       /\ p6[44] = e[5] /\ p6[45] = e[6] /\ p6[46] = e[7] /\ p6[47] = e[8]
  BY <1>19
<1>24. /\ b[1] = On("reset", 1) /\ b[2] = On("await reset", 1)
       /\ b[3] = On("reset", 2) /\ b[4] = On("await reset", 2) /\ b[5] = On("flush", 0)
  BY ResetCode DEF b
<1>25. /\ c[1] = On("disable", 1) /\ c[2] = On("await", 1) /\ c[3] = On("flush", 0)
       /\ c[4] = On("disable", 2) /\ c[5] = On("await", 2) /\ c[6] = On("flush", 0)
  BY DisableCode DEF c
<1>26. /\ d[1] = On("set", 1) /\ d[2] = On("await", 1) /\ d[3] = On("set", 1) /\ d[4] = On("await", 1)
       /\ d[5] = On("set", 1) /\ d[6] = On("await", 1) /\ d[7] = On("set", 1) /\ d[8] = On("await", 1)
       /\ d[9] = On("read config", 0) /\ d[10] = On("translate", 0)
  BY KeyboardCode DEF d
<1>27. /\ f[1] = On("enable", 1) /\ f[2] = On("await", 1)
       /\ f[3] = On("enable", 2) /\ f[4] = On("await", 2)
  BY EnableCode DEF f
<1>28. /\ p6[1] = a[1] /\ p6[2] = a[2] /\ p6[3] = a[3] /\ p6[4] = a[4] /\ p6[5] = a[5]
       /\ p6[6] = a[6] /\ p6[7] = a[7] /\ p6[8] = a[8] /\ p6[9] = a[9] /\ p6[10] = a[10]
       /\ p6[11] = a[11] /\ p6[12] = a[12] /\ p6[13] = a[13] /\ p6[14] = a[14]
       /\ p6[15] = a[15] /\ p6[16] = a[16] /\ p6[17] = a[17] /\ p6[18] = a[18]
  BY <1>15
<1>29. /\ a[1] = On("disable port", 1) /\ a[2] = On("disable port", 2) /\ a[3] = On("flush", 0)
      /\ a[4] = On("read config", 0) /\ a[5] = On("detect", 0)
      /\ a[6] = On("test", 0) /\ a[7] = On("await", 0)
      /\ a[8] = On("enable port", 2) /\ a[9] = On("read config", 2) /\ a[10] = On("detect again", 2)
      /\ a[11] = On("test", 0) /\ a[12] = On("await", 0)
      /\ a[13] = On("test", 2) /\ a[14] = On("await any", 2)
      /\ a[15] = On("enable port", 1) /\ a[16] = On("enable port", 2)
      /\ a[17] = On("read config", 0) /\ a[18] = On("turn on", 0)
  BY ControllerCode DEF a
<1>30. /\ e[1] = On("set", 2) /\ e[2] = On("await", 2) /\ e[3] = On("set", 2) /\ e[4] = On("await", 2)
       /\ e[5] = On("set", 2) /\ e[6] = On("await", 2) /\ e[7] = On("set", 2) /\ e[8] = On("await", 2)
  BY MouseCode DEF e
<1> HIDE DEF a, b, c, d, e, f, g
<1> QED
  BY <1>3, <1>9, <1>10, <1>21, <1>22, <1>23, <1>24, <1>25, <1>26, <1>27, <1>28, <1>29, <1>30, ZenonT(40)

\* The operations that are skipped if port 2 is not supported.
OnlySecond ==
  {2, 8, 9, 10, 13, 14, 16, 21, 22, 27, 28, 40, 41, 42, 43, 44, 45, 46, 47, 50, 51}
OnlyFirst == {1, 15, 19, 20, 24, 25, 30, 31, 32, 33, 34, 35, 36, 37, 48, 49}
Neither == {3, 4, 5, 6, 7, 11, 12, 17, 18, 23, 26, 29, 38, 39, 52, 53}

\* The same, with what each does and for which port apart.
LEMMA OpAndPort ==
  LET p == Program
  IN
      /\ p[1].op = "disable port" /\ p[1].port = 1
      /\ p[2].op = "disable port" /\ p[2].port = 2
      /\ p[3].op = "flush" /\ p[3].port = 0
      /\ p[4].op = "read config" /\ p[4].port = 0
      /\ p[5].op = "detect" /\ p[5].port = 0
      /\ p[6].op = "test" /\ p[6].port = 0
      /\ p[7].op = "await" /\ p[7].port = 0
      /\ p[8].op = "enable port" /\ p[8].port = 2
      /\ p[9].op = "read config" /\ p[9].port = 2
      /\ p[10].op = "detect again" /\ p[10].port = 2
      /\ p[11].op = "test" /\ p[11].port = 0
      /\ p[12].op = "await" /\ p[12].port = 0
      /\ p[13].op = "test" /\ p[13].port = 2
      /\ p[14].op = "await any" /\ p[14].port = 2
      /\ p[15].op = "enable port" /\ p[15].port = 1
      /\ p[16].op = "enable port" /\ p[16].port = 2
      /\ p[17].op = "read config" /\ p[17].port = 0
      /\ p[18].op = "turn on" /\ p[18].port = 0
      /\ p[19].op = "reset" /\ p[19].port = 1
      /\ p[20].op = "await reset" /\ p[20].port = 1
      /\ p[21].op = "reset" /\ p[21].port = 2
      /\ p[22].op = "await reset" /\ p[22].port = 2
      /\ p[23].op = "flush" /\ p[23].port = 0
      /\ p[24].op = "disable" /\ p[24].port = 1
      /\ p[25].op = "await" /\ p[25].port = 1
      /\ p[26].op = "flush" /\ p[26].port = 0
      /\ p[27].op = "disable" /\ p[27].port = 2
      /\ p[28].op = "await" /\ p[28].port = 2
      /\ p[29].op = "flush" /\ p[29].port = 0
      /\ p[30].op = "set" /\ p[30].port = 1
      /\ p[31].op = "await" /\ p[31].port = 1
      /\ p[32].op = "set" /\ p[32].port = 1
      /\ p[33].op = "await" /\ p[33].port = 1
      /\ p[34].op = "set" /\ p[34].port = 1
      /\ p[35].op = "await" /\ p[35].port = 1
      /\ p[36].op = "set" /\ p[36].port = 1
      /\ p[37].op = "await" /\ p[37].port = 1
      /\ p[38].op = "read config" /\ p[38].port = 0
      /\ p[39].op = "translate" /\ p[39].port = 0
      /\ p[40].op = "set" /\ p[40].port = 2
      /\ p[41].op = "await" /\ p[41].port = 2
      /\ p[42].op = "set" /\ p[42].port = 2
      /\ p[43].op = "await" /\ p[43].port = 2
      /\ p[44].op = "set" /\ p[44].port = 2
      /\ p[45].op = "await" /\ p[45].port = 2
      /\ p[46].op = "set" /\ p[46].port = 2
      /\ p[47].op = "await" /\ p[47].port = 2
      /\ p[48].op = "enable" /\ p[48].port = 1
      /\ p[49].op = "await" /\ p[49].port = 1
      /\ p[50].op = "enable" /\ p[50].port = 2
      /\ p[51].op = "await" /\ p[51].port = 2
      /\ p[52].op = "init_done" /\ p[52].port = 0
      /\ p[53].op = "flush" /\ p[53].port = 0
<1> DEFINE p == Program
<1>1. /\ On("disable port", 1).op = "disable port" /\ On("disable port", 1).port = 1
      /\ On("disable port", 2).op = "disable port" /\ On("disable port", 2).port = 2
      /\ On("flush", 0).op = "flush" /\ On("flush", 0).port = 0
      /\ On("read config", 0).op = "read config" /\ On("read config", 0).port = 0
      /\ On("detect", 0).op = "detect" /\ On("detect", 0).port = 0
      /\ On("test", 0).op = "test" /\ On("test", 0).port = 0
      /\ On("await", 0).op = "await" /\ On("await", 0).port = 0
      /\ On("enable port", 2).op = "enable port" /\ On("enable port", 2).port = 2
      /\ On("read config", 2).op = "read config" /\ On("read config", 2).port = 2
      /\ On("detect again", 2).op = "detect again" /\ On("detect again", 2).port = 2
      /\ On("test", 2).op = "test" /\ On("test", 2).port = 2
      /\ On("await any", 2).op = "await any" /\ On("await any", 2).port = 2
      /\ On("enable port", 1).op = "enable port" /\ On("enable port", 1).port = 1
      /\ On("turn on", 0).op = "turn on" /\ On("turn on", 0).port = 0
      /\ On("reset", 1).op = "reset" /\ On("reset", 1).port = 1
      /\ On("await reset", 1).op = "await reset" /\ On("await reset", 1).port = 1
      /\ On("reset", 2).op = "reset" /\ On("reset", 2).port = 2
      /\ On("await reset", 2).op = "await reset" /\ On("await reset", 2).port = 2
      /\ On("disable", 1).op = "disable" /\ On("disable", 1).port = 1
      /\ On("await", 1).op = "await" /\ On("await", 1).port = 1
      /\ On("disable", 2).op = "disable" /\ On("disable", 2).port = 2
      /\ On("await", 2).op = "await" /\ On("await", 2).port = 2
      /\ On("set", 1).op = "set" /\ On("set", 1).port = 1
      /\ On("translate", 0).op = "translate" /\ On("translate", 0).port = 0
      /\ On("set", 2).op = "set" /\ On("set", 2).port = 2
      /\ On("enable", 1).op = "enable" /\ On("enable", 1).port = 1
      /\ On("enable", 2).op = "enable" /\ On("enable", 2).port = 2
      /\ On("init_done", 0).op = "init_done" /\ On("init_done", 0).port = 0
  BY DEF On
<1>2. /\ p[1].op = "disable port" /\ p[1].port = 1
      /\ p[2].op = "disable port" /\ p[2].port = 2
      /\ p[3].op = "flush" /\ p[3].port = 0
      /\ p[4].op = "read config" /\ p[4].port = 0
      /\ p[5].op = "detect" /\ p[5].port = 0
      /\ p[6].op = "test" /\ p[6].port = 0
  <2>1. /\ p[1] = On("disable port", 1)
        /\ p[2] = On("disable port", 2)
        /\ p[3] = On("flush", 0)
        /\ p[4] = On("read config", 0)
        /\ p[5] = On("detect", 0)
        /\ p[6] = On("test", 0)
    BY Code, Zenon
  <2> QED
    BY <1>1, <2>1, ZenonT(40)
<1>3. /\ p[7].op = "await" /\ p[7].port = 0
      /\ p[8].op = "enable port" /\ p[8].port = 2
      /\ p[9].op = "read config" /\ p[9].port = 2
      /\ p[10].op = "detect again" /\ p[10].port = 2
      /\ p[11].op = "test" /\ p[11].port = 0
      /\ p[12].op = "await" /\ p[12].port = 0
  <2>1. /\ p[7] = On("await", 0)
        /\ p[8] = On("enable port", 2)
        /\ p[9] = On("read config", 2)
        /\ p[10] = On("detect again", 2)
        /\ p[11] = On("test", 0)
        /\ p[12] = On("await", 0)
    BY Code, Zenon
  <2> QED
    BY <1>1, <2>1, ZenonT(40)
<1>4. /\ p[13].op = "test" /\ p[13].port = 2
      /\ p[14].op = "await any" /\ p[14].port = 2
      /\ p[15].op = "enable port" /\ p[15].port = 1
      /\ p[16].op = "enable port" /\ p[16].port = 2
      /\ p[17].op = "read config" /\ p[17].port = 0
      /\ p[18].op = "turn on" /\ p[18].port = 0
  <2>1. /\ p[13] = On("test", 2)
        /\ p[14] = On("await any", 2)
        /\ p[15] = On("enable port", 1)
        /\ p[16] = On("enable port", 2)
        /\ p[17] = On("read config", 0)
        /\ p[18] = On("turn on", 0)
    BY Code, Zenon
  <2> QED
    BY <1>1, <2>1, ZenonT(40)
<1>5. /\ p[19].op = "reset" /\ p[19].port = 1
      /\ p[20].op = "await reset" /\ p[20].port = 1
      /\ p[21].op = "reset" /\ p[21].port = 2
      /\ p[22].op = "await reset" /\ p[22].port = 2
      /\ p[23].op = "flush" /\ p[23].port = 0
      /\ p[24].op = "disable" /\ p[24].port = 1
  <2>1. /\ p[19] = On("reset", 1)
        /\ p[20] = On("await reset", 1)
        /\ p[21] = On("reset", 2)
        /\ p[22] = On("await reset", 2)
        /\ p[23] = On("flush", 0)
        /\ p[24] = On("disable", 1)
    BY Code, Zenon
  <2> QED
    BY <1>1, <2>1, ZenonT(40)
<1>6. /\ p[25].op = "await" /\ p[25].port = 1
      /\ p[26].op = "flush" /\ p[26].port = 0
      /\ p[27].op = "disable" /\ p[27].port = 2
      /\ p[28].op = "await" /\ p[28].port = 2
      /\ p[29].op = "flush" /\ p[29].port = 0
      /\ p[30].op = "set" /\ p[30].port = 1
  <2>1. /\ p[25] = On("await", 1)
        /\ p[26] = On("flush", 0)
        /\ p[27] = On("disable", 2)
        /\ p[28] = On("await", 2)
        /\ p[29] = On("flush", 0)
        /\ p[30] = On("set", 1)
    BY Code, Zenon
  <2> QED
    BY <1>1, <2>1, ZenonT(40)
<1>7. /\ p[31].op = "await" /\ p[31].port = 1
      /\ p[32].op = "set" /\ p[32].port = 1
      /\ p[33].op = "await" /\ p[33].port = 1
      /\ p[34].op = "set" /\ p[34].port = 1
      /\ p[35].op = "await" /\ p[35].port = 1
      /\ p[36].op = "set" /\ p[36].port = 1
  <2>1. /\ p[31] = On("await", 1)
        /\ p[32] = On("set", 1)
        /\ p[33] = On("await", 1)
        /\ p[34] = On("set", 1)
        /\ p[35] = On("await", 1)
        /\ p[36] = On("set", 1)
    BY Code, Zenon
  <2> QED
    BY <1>1, <2>1, ZenonT(40)
<1>8. /\ p[37].op = "await" /\ p[37].port = 1
      /\ p[38].op = "read config" /\ p[38].port = 0
      /\ p[39].op = "translate" /\ p[39].port = 0
      /\ p[40].op = "set" /\ p[40].port = 2
      /\ p[41].op = "await" /\ p[41].port = 2
      /\ p[42].op = "set" /\ p[42].port = 2
  <2>1. /\ p[37] = On("await", 1)
        /\ p[38] = On("read config", 0)
        /\ p[39] = On("translate", 0)
        /\ p[40] = On("set", 2)
        /\ p[41] = On("await", 2)
        /\ p[42] = On("set", 2)
    BY Code, Zenon
  <2> QED
    BY <1>1, <2>1, ZenonT(40)
<1>9. /\ p[43].op = "await" /\ p[43].port = 2
      /\ p[44].op = "set" /\ p[44].port = 2
      /\ p[45].op = "await" /\ p[45].port = 2
      /\ p[46].op = "set" /\ p[46].port = 2
      /\ p[47].op = "await" /\ p[47].port = 2
      /\ p[48].op = "enable" /\ p[48].port = 1
  <2>1. /\ p[43] = On("await", 2)
        /\ p[44] = On("set", 2)
        /\ p[45] = On("await", 2)
        /\ p[46] = On("set", 2)
        /\ p[47] = On("await", 2)
        /\ p[48] = On("enable", 1)
    BY Code, Zenon
  <2> QED
    BY <1>1, <2>1, ZenonT(40)
<1>10. /\ p[49].op = "await" /\ p[49].port = 1
      /\ p[50].op = "enable" /\ p[50].port = 2
      /\ p[51].op = "await" /\ p[51].port = 2
      /\ p[52].op = "init_done" /\ p[52].port = 0
      /\ p[53].op = "flush" /\ p[53].port = 0
  <2>1. /\ p[49] = On("await", 1)
        /\ p[50] = On("enable", 2)
        /\ p[51] = On("await", 2)
        /\ p[52] = On("init_done", 0)
        /\ p[53] = On("flush", 0)
    BY Code, Zenon
  <2> QED
    BY <1>1, <2>1, ZenonT(40)
<1> QED
  BY <1>2, <1>3, <1>4, <1>5, <1>6, <1>7, <1>8, <1>9, <1>10, ZenonT(40)

\* The positions in Program, enumerated for the solver.
LEMMA Numbers ==
  ASSUME NEW i \in 1 .. 53
  PROVE  i \in {1, 2, 3, 4, 5, 6, 7, 8, 9, 10, 11, 12, 13, 14, 15, 16, 17, 18, 19, 20, 21,
               22, 23, 24, 25, 26, 27, 28, 29, 30, 31, 32, 33, 34, 35, 36, 37, 38, 39, 40,
               41, 42, 43, 44, 45, 46, 47, 48, 49, 50, 51, 52, 53}
OBVIOUS

\* Where the task is if it is at an operation of that name, and for which port.
KnownPort(i) ==
  /\ i \in OnlySecond => Program[i].port = 2
  /\ i \in OnlyFirst => Program[i].port = 1
  /\ i \in Neither => Program[i].port = 0
KnownOp(i) ==
  /\ Program[i].op = "disable port" => i \in {1, 2}
  /\ Program[i].op = "flush" => i \in {3, 23, 26, 29, 53}
  /\ Program[i].op = "read config" => i \in {4, 9, 17, 38}
  /\ Program[i].op = "detect" => i \in {5}
  /\ Program[i].op = "test" => i \in {6, 11, 13}
  /\ Program[i].op = "await" => i \in {7, 12, 25, 28, 31, 33, 35, 37, 41, 43, 45, 47, 49, 51}
  /\ Program[i].op = "enable port" => i \in {8, 15, 16}
  /\ Program[i].op = "detect again" => i \in {10}
  /\ Program[i].op = "await any" => i \in {14}
  /\ Program[i].op = "turn on" => i \in {18}
  /\ Program[i].op = "reset" => i \in {19, 21}
  /\ Program[i].op = "await reset" => i \in {20, 22}
  /\ Program[i].op = "disable" => i \in {24, 27}
  /\ Program[i].op = "set" => i \in {30, 32, 34, 36, 40, 42, 44, 46}
  /\ Program[i].op = "translate" => i \in {39}
  /\ Program[i].op = "enable" => i \in {48, 50}
  /\ Program[i].op = "init_done" => i \in {52}
Known(i) == KnownOp(i) /\ KnownPort(i)

\* Every operation is at one of the positions where it is known to be.
LEMMA Positions == \A i \in 1 .. 53 : Known(i)
<1>1. \A i \in 1 .. 53 : i \in {1, 2, 3, 4, 5, 6, 7, 8, 9, 10, 11, 12, 13, 14, 15, 16, 17, 18, 19, 20,
               21, 22, 23, 24, 25, 26, 27, 28, 29, 30, 31, 32, 33, 34, 35, 36, 37,
               38, 39, 40, 41, 42, 43, 44, 45, 46, 47, 48, 49, 50, 51, 52, 53}
  BY Numbers
<1>2. ASSUME NEW j, j \in {1, 2, 3, 4, 5, 6, 7, 8, 9}
      PROVE  Known(j)
  <2>1. /\ Program[1].op = "disable port" /\ Program[2].op = "disable port" /\ Program[3].op = "flush"
        /\ Program[4].op = "read config" /\ Program[5].op = "detect" /\ Program[6].op = "test"
        /\ Program[7].op = "await" /\ Program[8].op = "enable port" /\ Program[9].op = "read config"
    BY OpAndPort, ZenonT(40)
  <2>2. KnownOp(j)
    BY <1>2, <2>1 DEF KnownOp
  <2>3. /\ Program[1].port = 1 /\ Program[2].port = 2 /\ Program[3].port = 0
        /\ Program[4].port = 0 /\ Program[5].port = 0 /\ Program[6].port = 0
        /\ Program[7].port = 0 /\ Program[8].port = 2 /\ Program[9].port = 2
    BY OpAndPort, ZenonT(40)
  <2>4. KnownPort(j)
    BY <1>2, <2>3 DEF KnownPort, OnlySecond, OnlyFirst, Neither
  <2> QED
    BY <2>2, <2>4 DEF Known
<1>3. ASSUME NEW j, j \in {10, 11, 12, 13, 14, 15, 16, 17, 18}
      PROVE  Known(j)
  <2>1. /\ Program[10].op = "detect again" /\ Program[11].op = "test" /\ Program[12].op = "await"
        /\ Program[13].op = "test" /\ Program[14].op = "await any" /\ Program[15].op = "enable port"
        /\ Program[16].op = "enable port" /\ Program[17].op = "read config" /\ Program[18].op = "turn on"
    BY OpAndPort, ZenonT(40)
  <2>2. KnownOp(j)
    BY <1>3, <2>1 DEF KnownOp
  <2>3. /\ Program[10].port = 2 /\ Program[11].port = 0 /\ Program[12].port = 0
        /\ Program[13].port = 2 /\ Program[14].port = 2 /\ Program[15].port = 1
        /\ Program[16].port = 2 /\ Program[17].port = 0 /\ Program[18].port = 0
    BY OpAndPort, ZenonT(40)
  <2>4. KnownPort(j)
    BY <1>3, <2>3 DEF KnownPort, OnlySecond, OnlyFirst, Neither
  <2> QED
    BY <2>2, <2>4 DEF Known
<1>4. ASSUME NEW j, j \in {19, 20, 21, 22, 23, 24, 25, 26, 27}
      PROVE  Known(j)
  <2>1. /\ Program[19].op = "reset" /\ Program[20].op = "await reset" /\ Program[21].op = "reset"
        /\ Program[22].op = "await reset" /\ Program[23].op = "flush" /\ Program[24].op = "disable"
        /\ Program[25].op = "await" /\ Program[26].op = "flush" /\ Program[27].op = "disable"
    BY OpAndPort, ZenonT(40)
  <2>2. KnownOp(j)
    BY <1>4, <2>1 DEF KnownOp
  <2>3. /\ Program[19].port = 1 /\ Program[20].port = 1 /\ Program[21].port = 2
        /\ Program[22].port = 2 /\ Program[23].port = 0 /\ Program[24].port = 1
        /\ Program[25].port = 1 /\ Program[26].port = 0 /\ Program[27].port = 2
    BY OpAndPort, ZenonT(40)
  <2>4. KnownPort(j)
    BY <1>4, <2>3 DEF KnownPort, OnlySecond, OnlyFirst, Neither
  <2> QED
    BY <2>2, <2>4 DEF Known
<1>5. ASSUME NEW j, j \in {28, 29, 30, 31, 32, 33, 34, 35, 36}
      PROVE  Known(j)
  <2>1. /\ Program[28].op = "await" /\ Program[29].op = "flush" /\ Program[30].op = "set"
        /\ Program[31].op = "await" /\ Program[32].op = "set" /\ Program[33].op = "await"
        /\ Program[34].op = "set" /\ Program[35].op = "await" /\ Program[36].op = "set"
    BY OpAndPort, ZenonT(40)
  <2>2. KnownOp(j)
    BY <1>5, <2>1 DEF KnownOp
  <2>3. /\ Program[28].port = 2 /\ Program[29].port = 0 /\ Program[30].port = 1
        /\ Program[31].port = 1 /\ Program[32].port = 1 /\ Program[33].port = 1
        /\ Program[34].port = 1 /\ Program[35].port = 1 /\ Program[36].port = 1
    BY OpAndPort, ZenonT(40)
  <2>4. KnownPort(j)
    BY <1>5, <2>3 DEF KnownPort, OnlySecond, OnlyFirst, Neither
  <2> QED
    BY <2>2, <2>4 DEF Known
<1>6. ASSUME NEW j, j \in {37, 38, 39, 40, 41, 42, 43, 44, 45}
      PROVE  Known(j)
  <2>1. /\ Program[37].op = "await" /\ Program[38].op = "read config" /\ Program[39].op = "translate"
        /\ Program[40].op = "set" /\ Program[41].op = "await" /\ Program[42].op = "set"
        /\ Program[43].op = "await" /\ Program[44].op = "set" /\ Program[45].op = "await"
    BY OpAndPort, ZenonT(40)
  <2>2. KnownOp(j)
    BY <1>6, <2>1, ZenonT(40) DEF KnownOp
  <2>3. /\ Program[37].port = 1 /\ Program[38].port = 0 /\ Program[39].port = 0
        /\ Program[40].port = 2 /\ Program[41].port = 2 /\ Program[42].port = 2
        /\ Program[43].port = 2 /\ Program[44].port = 2 /\ Program[45].port = 2
    BY OpAndPort, ZenonT(40)
  <2>4. KnownPort(j)
    BY <1>6, <2>3 DEF KnownPort, OnlySecond, OnlyFirst, Neither
  <2> QED
    BY <2>2, <2>4 DEF Known
<1>7. ASSUME NEW j, j \in {46, 47, 48, 49, 50, 51, 52, 53}
      PROVE  Known(j)
  <2>1. /\ Program[46].op = "set" /\ Program[47].op = "await" /\ Program[48].op = "enable"
        /\ Program[49].op = "await" /\ Program[50].op = "enable" /\ Program[51].op = "await"
        /\ Program[52].op = "init_done" /\ Program[53].op = "flush"
    BY OpAndPort, ZenonT(40)
  <2>2. KnownOp(j)
    BY <1>7, <2>1 DEF KnownOp
  <2>3. /\ Program[46].port = 2 /\ Program[47].port = 2 /\ Program[48].port = 1
        /\ Program[49].port = 1 /\ Program[50].port = 2 /\ Program[51].port = 2
        /\ Program[52].port = 0 /\ Program[53].port = 0
    BY OpAndPort, ZenonT(40)
  <2>4. KnownPort(j)
    BY <1>7, <2>3 DEF KnownPort, OnlySecond, OnlyFirst, Neither
  <2> QED
    BY <2>2, <2>4 DEF Known
<1> QED
  BY <1>1, <1>2, <1>3, <1>4, <1>5, <1>6, <1>7

\* The least element of a set is its minimum.
LEMMA LeastIs ==
  ASSUME NEW S \in SUBSET Int, NEW x \in S, \A y \in S : x <= y
  PROVE  Min(S) = x
<1>1. \A z \in S : (\A y \in S : z <= y) => z = x
  OBVIOUS
<1> QED
  BY <1>1 DEF Min

\* Where the task goes from each operation: on to the next, or past those for port 2.
LEMMA AfterIs ==
  ASSUME NEW i \in 1 .. 53, NEW supported \in BOOLEAN
  PROVE  /\ supported \/ i + 1 \notin OnlySecond => After(i, supported) = i + 1
         /\ ~ supported =>
              /\ i = 1 => After(i, supported) = 3
              /\ i \in 7 .. 9 => After(i, supported) = 11
              /\ i \in {12, 13} => After(i, supported) = 15
              /\ i = 15 => After(i, supported) = 17
              /\ i \in 20 .. 21 => After(i, supported) = 23
              /\ i \in 26 .. 27 => After(i, supported) = 29
              /\ i \in 39 .. 46 => After(i, supported) = 48
              /\ i \in 49 .. 50 => After(i, supported) = 52
         /\ After(i, supported) \in i + 1 .. 54
<1> DEFINE S == {j \in i + 1 .. 54 : supported \/ j \notin OnlySecond}
<1>1. After(i, supported) = Min(S)
  <2>1. Len(Program) = 53
    BY Code
  <2>2. \A j \in 1 .. 53 : j \in OnlySecond <=> Program[j].port = 2
    <3> TAKE j \in 1 .. 53
    <3>1. \/ j \in OnlySecond
          \/ j \in OnlyFirst
          \/ j \in Neither
      BY DEF OnlySecond, OnlyFirst, Neither
    <3> QED
      BY <3>1, Positions DEF Known, KnownPort
  <2>3. {j \in i + 1 .. 53 + 1 : supported \/ j > 53 \/ Program[j].port # 2} = S
    BY <2>2 DEF OnlySecond
  <2> QED
    BY <2>1, <2>3, Zenon DEF After
<1>2. S \in SUBSET Int
  OBVIOUS
<1>3. ASSUME NEW x \in S, \A y \in i + 1 .. x - 1 : y \notin S
      PROVE  After(i, supported) = x
  <2>1. \A y \in S : x <= y
    BY <1>3
  <2> QED
    BY <1>1, <1>2, <2>1, LeastIs, Zenon
<1>4. supported \/ i + 1 \notin OnlySecond => After(i, supported) = i + 1
  <2> SUFFICES ASSUME supported \/ i + 1 \notin OnlySecond
               PROVE  After(i, supported) = i + 1
    OBVIOUS
  <2>1. i + 1 \in S /\ \A y \in i + 1 .. i + 1 - 1 : y \notin S
    OBVIOUS
  <2> HIDE DEF S
  <2> QED
    BY <1>3, <2>1
<1>5. ASSUME ~ supported, NEW x \in i + 1 .. 54, x \notin OnlySecond, i + 1 .. x - 1 \subseteq OnlySecond
      PROVE  After(i, supported) = x
  <2>1. x \in S /\ \A y \in i + 1 .. x - 1 : y \notin S
    BY <1>5
  <2> HIDE DEF S
  <2> QED
    BY <1>3, <2>1
<1> HIDE DEF S
<1>6. ~ supported /\ i = 1 => After(i, supported) = 3
  <2> SUFFICES ASSUME ~ supported, i = 1
               PROVE  After(i, supported) = 3
    OBVIOUS
  <2>1. 3 \in i + 1 .. 54 /\ 3 \notin OnlySecond /\ i + 1 .. 3 - 1 \subseteq OnlySecond
    BY DEF OnlySecond
  <2> QED
    BY <1>5, <2>1
<1>7. ~ supported /\ i \in 7 .. 9 => After(i, supported) = 11
  <2> SUFFICES ASSUME ~ supported, i \in 7 .. 9
               PROVE  After(i, supported) = 11
    OBVIOUS
  <2>1. 11 \in i + 1 .. 54 /\ 11 \notin OnlySecond /\ i + 1 .. 11 - 1 \subseteq OnlySecond
    BY DEF OnlySecond
  <2> QED
    BY <1>5, <2>1
<1>8. ~ supported /\ i \in {12, 13} => After(i, supported) = 15
  <2> SUFFICES ASSUME ~ supported, i \in {12, 13}
               PROVE  After(i, supported) = 15
    OBVIOUS
  <2>1. 15 \in i + 1 .. 54 /\ 15 \notin OnlySecond /\ i + 1 .. 15 - 1 \subseteq OnlySecond
    BY DEF OnlySecond
  <2> QED
    BY <1>5, <2>1
<1>9. ~ supported /\ i = 15 => After(i, supported) = 17
  <2> SUFFICES ASSUME ~ supported, i = 15
               PROVE  After(i, supported) = 17
    OBVIOUS
  <2>1. 17 \in i + 1 .. 54 /\ 17 \notin OnlySecond /\ i + 1 .. 17 - 1 \subseteq OnlySecond
    BY DEF OnlySecond
  <2> QED
    BY <1>5, <2>1
<1>10. ~ supported /\ i \in 20 .. 21 => After(i, supported) = 23
  <2> SUFFICES ASSUME ~ supported, i \in 20 .. 21
               PROVE  After(i, supported) = 23
    OBVIOUS
  <2>1. 23 \in i + 1 .. 54 /\ 23 \notin OnlySecond /\ i + 1 .. 23 - 1 \subseteq OnlySecond
    BY DEF OnlySecond
  <2> QED
    BY <1>5, <2>1
<1>11. ~ supported /\ i \in 26 .. 27 => After(i, supported) = 29
  <2> SUFFICES ASSUME ~ supported, i \in 26 .. 27
               PROVE  After(i, supported) = 29
    OBVIOUS
  <2>1. 29 \in i + 1 .. 54 /\ 29 \notin OnlySecond /\ i + 1 .. 29 - 1 \subseteq OnlySecond
    BY DEF OnlySecond
  <2> QED
    BY <1>5, <2>1
<1>12. ~ supported /\ i \in 39 .. 46 => After(i, supported) = 48
  <2> SUFFICES ASSUME ~ supported, i \in 39 .. 46
               PROVE  After(i, supported) = 48
    OBVIOUS
  <2>1. 48 \in i + 1 .. 54 /\ 48 \notin OnlySecond /\ i + 1 .. 48 - 1 \subseteq OnlySecond
    BY DEF OnlySecond
  <2> QED
    BY <1>5, <2>1
<1>13. ~ supported /\ i \in 49 .. 50 => After(i, supported) = 52
  <2> SUFFICES ASSUME ~ supported, i \in 49 .. 50
               PROVE  After(i, supported) = 52
    OBVIOUS
  <2>1. 52 \in i + 1 .. 54 /\ 52 \notin OnlySecond /\ i + 1 .. 52 - 1 \subseteq OnlySecond
    BY DEF OnlySecond
  <2> QED
    BY <1>5, <2>1
<1>14. After(i, supported) \in i + 1 .. 54
  BY <1>4, <1>6, <1>7, <1>8, <1>9, <1>10, <1>11, <1>12, <1>13 DEF OnlySecond
<1> QED
  BY <1>4, <1>6, <1>7, <1>8, <1>9, <1>10, <1>11, <1>12, <1>13, <1>14

-----------------------------------------------------------------------------
(* Bytes and configurations.                                               *)

\* The values of the bits.
LEMMA PowersOfTwo ==
  2^0 = 1 /\ 2^1 = 2 /\ 2^2 = 4 /\ 2^3 = 8 /\ 2^4 = 16 /\ 2^5 = 32 /\ 2^6 = 64 /\ 2^7 = 128
OBVIOUS

\* ByteOf chooses a byte with exactly those bits set: writing and reading agree.
LEMMA EveryByte ==
  ASSUME NEW bits \in SUBSET (0 .. 7)
  PROVE  ByteOf(bits) \in 0 .. 255 /\ BitsOf(ByteOf(bits)) = bits
<1> DEFINE b(n) == IF n \in bits THEN 1 ELSE 0
           data == b(0) + 2 * b(1) + 4 * b(2) + 8 * b(3)
                   + 16 * b(4) + 32 * b(5) + 64 * b(6) + 128 * b(7)
<1>1. \A n \in 0 .. 7 : b(n) \in 0 .. 1 /\ (n \in bits <=> b(n) = 1)
  OBVIOUS
<1> HIDE DEF b
<1>2. data \in 0 .. 255
  BY <1>1
<1>3. /\ (data \div 1) % 2 = b(0) /\ (data \div 2) % 2 = b(1)
      /\ (data \div 4) % 2 = b(2) /\ (data \div 8) % 2 = b(3)
      /\ (data \div 16) % 2 = b(4) /\ (data \div 32) % 2 = b(5)
      /\ (data \div 64) % 2 = b(6) /\ (data \div 128) % 2 = b(7)
  BY <1>1
<1> HIDE DEF data
<1>4. \A n \in 0 .. 7 : (data \div 2^n) % 2 = b(n)
  <2> TAKE n \in 0 .. 7
  <2>1. n = 0 \/ n = 1 \/ n = 2 \/ n = 3 \/ n = 4 \/ n = 5 \/ n = 6 \/ n = 7
    OBVIOUS
  <2>2. CASE n = 0
    BY <1>3, <2>2, PowersOfTwo
  <2>3. CASE n = 1
    BY <1>3, <2>3, PowersOfTwo
  <2>4. CASE n = 2
    BY <1>3, <2>4, PowersOfTwo
  <2>5. CASE n = 3
    BY <1>3, <2>5, PowersOfTwo
  <2>6. CASE n = 4
    BY <1>3, <2>6, PowersOfTwo
  <2>7. CASE n = 5
    BY <1>3, <2>7, PowersOfTwo
  <2>8. CASE n = 6
    BY <1>3, <2>8, PowersOfTwo
  <2>9. CASE n = 7
    BY <1>3, <2>9, PowersOfTwo
  <2> QED
    BY <2>1, <2>2, <2>3, <2>4, <2>5, <2>6, <2>7, <2>8, <2>9, Zenon
<1>5. BitsOf(data) = bits
  BY <1>1, <1>4 DEF BitsOf
<1> QED
  BY <1>2, <1>5 DEF ByteOf

\* What is read is a set of bits.
LEMMA BitsAreBits ==
  ASSUME NEW data
  PROVE  BitsOf(data) \in SUBSET (0 .. 7)
BY DEF BitsOf

\* What the clock bit of a missing port 2 makes of what is written.
LEMMA WrittenIs ==
  ASSUME NEW bits
  PROVE  /\ second = "present" => Written(bits) = bits
         /\ second = "reads 0" => Written(bits) = bits \ {5}
         /\ second = "reads 1" => Written(bits) = bits \union {5}
<1>1. CLOCK(2) = 5
  BY DEF CLOCK
<1>2. second = "present" => Written(bits) = bits
  BY DEF Written
<1>3. second = "reads 0" => Written(bits) = bits \ {5}
  BY <1>1 DEF Written
<1>4. second = "reads 1" => Written(bits) = bits \union {5}
  BY <1>1 DEF Written
<1> QED
  BY <1>2, <1>3, <1>4

\* A configuration that is written is a configuration.
LEMMA WrittenBits ==
  ASSUME second \in Port2, NEW bits \in SUBSET (0 .. 7)
  PROVE  Written(bits) \in SUBSET (0 .. 7)
<1>1. second = "present" \/ second = "reads 0" \/ second = "reads 1"
  BY Ps2Assumption
<1>2. \/ Written(bits) = bits \/ Written(bits) = bits \ {5} \/ Written(bits) = bits \union {5}
  BY <1>1, WrittenIs, Zenon
<1>3. bits \union {5} \subseteq 0 .. 7 /\ bits \ {5} \subseteq 0 .. 7
  OBVIOUS
<1> QED
  BY <1>2, <1>3

-----------------------------------------------------------------------------
(* Types.                                                                  *)

HardwareTyped ==
  /\ second \in Port2 /\ port2_supported \in BOOLEAN
  /\ outbuf \in Byte \union {NoByte}
  /\ config \subseteq 0 .. 7
  /\ device \in [{0, 1, 2} -> Device]
  /\ pc \in 1 .. 54

-----------------------------------------------------------------------------
(* What is on its way while the task is at an operation.                   *)

\* No device has anything to send.
Nothing ==
  /\ outbuf = NoByte
  /\ \A p \in {0, 1, 2} : device[p].answers = <<>> /\ device[p].queue = <<>>

\* There is nothing but the answer of p.
Expected(p, data) ==
  /\ \/ outbuf = NoByte /\ device[p].answers = <<data>>
     \/ outbuf = [port |-> p, data |-> data, input |-> FALSE] /\ device[p].answers = <<>>
  /\ \A q \in {0, 1, 2} : device[q].queue = <<>> /\ (q # p => device[q].answers = <<>>)

\* Nothing is typed before ps2_init_controller is over, nor do the drivers look at what comes.
EarlyTraffic ==
  /\ pc \in {5, 10, 18} => Expected(0, ByteOf(config))
  /\ pc \in {7, 12, 14} => Expected(0, TEST_PS2_PASSED)
  /\ pc \in {1, 2, 3, 4, 6, 8, 9, 11, 13, 15, 16, 17} => Nothing

\* A device that is disabled or was never enabled has no input; the controller answers at once.
Disabled ==
  /\ pc <= 50 => device[2].queue = <<>> /\ ~ device[2].scanning
  /\ pc \in 25 .. 48 => device[1].queue = <<>> /\ ~ device[1].scanning
  /\ pc \in 19 .. 38 => device[0].answers = <<>> /\ device[0].queue = <<>>

\* So the task gets its answer while it sets up the keyboard.
KeyboardTraffic ==
  /\ pc \in {30, 32, 34, 36, 38} => Nothing
  /\ pc \in {31, 33, 35, 37} => Expected(1, DEVICE_ACK)
  /\ pc = 39 => Expected(0, ByteOf(config))

\* The interrupt handler does nothing before ps2_init is over.
NotYet ==
  /\ init_done => pc >= 53
  /\ polling # 0 => init_done

\* Port 2 is detected in two steps.
Present == second = "present"
ReadsZero == second = "reads 0"

Detected ==
  /\ pc <= 5 => port2_supported
  /\ pc \in {6, 7, 8, 9, 10} => (port2_supported <=> ~ ReadsZero)
  /\ pc >= 11 => (port2_supported <=> Present)
  /\ pc \in OnlySecond => port2_supported

EarlyConfig ==
  /\ pc = 1 => config = Written({0, 1, 6})
  /\ pc = 2 => config = Written({0, 1, 4, 6})
  /\ pc \in {3, 4, 5} => config = Written({0, 1, 4, 5, 6})
  /\ pc \in {6, 7, 8, 11, 12, 13, 14, 15} => config = Written({4, 5})
  /\ pc \in {9, 10} => config = Written({4})
  /\ pc = 16 => config = Written({5})
  /\ pc \in {17, 18} => config = Written({})

SetUpInv ==
  HardwareTyped /\ NotYet /\ Detected /\ EarlyConfig /\ EarlyTraffic /\ Disabled

\* A task at an operation is at one of its positions, and no handler runs.
LEMMA Where ==
  ASSUME HardwareTyped, NEW op, At(op)
  PROVE  /\ pc \in 1 .. 53 /\ Program[pc].op = op /\ KnownOp(pc) /\ KnownPort(pc)
         /\ polling = 0 /\ irr = {}
<1>1. DOMAIN Program = 1 .. 53
  <2>1. Program \in Seq(Operation) /\ Len(Program) = 53
    BY Code, Zenon
  <2> QED
    BY <2>1
<1>2. pc \in 1 .. 53 /\ Program[pc].op = op /\ polling = 0 /\ irr = {}
  BY <1>1 DEF At
<1> QED
  BY <1>2, Positions DEF Known

\* The answers of devices are sequences of bytes.
LEMMA Answers ==
  /\ <<DEVICE_ACK>> \in Seq(0 .. 255) /\ <<TEST_PS2_PASSED>> \in Seq(0 .. 255)
  /\ <<DEVICE_ACK, DEVICE_TEST_PASSED>> \in Seq(0 .. 255)
  /\ <<MOUSE_ID>> \in Seq(0 .. 255) /\ <<>> \in Seq(0 .. 255)
BY DEF DEVICE_ACK, TEST_PS2_PASSED, DEVICE_TEST_PASSED, MOUSE_ID

Commands == {"read config", "test", "reset", "disable", "set", "enable", "leds"}

\* What a command changes in the device it is for, and that it changes no other.
LEMMA Obeyed ==
  ASSUME HardwareTyped, NEW op \in Commands, NEW port \in {0, 1, 2}, Obey(op, port)
  PROVE  /\ device' \in [{0, 1, 2} -> Device]
         /\ \A q \in {0, 1, 2} : q # port => device'[q] = device[q]
         /\ op = "reset" => device'[port].queue = <<>> /\ (port = 2 => ~ device'[port].scanning)
         /\ op = "disable" => device'[port].queue = <<>> /\ ~ device'[port].scanning
         /\ op \in {"read config", "test", "set", "enable", "leds"} =>
              device'[port].queue = device[port].queue
         /\ op \in {"read config", "test", "set", "leds"} =>
              device'[port].scanning = device[port].scanning
         /\ op \in {"disable", "set", "enable", "leds"} => device'[port].answers = <<DEVICE_ACK>>
         /\ op = "read config" => device'[port].answers = <<ByteOf(config)>>
         /\ op = "test" => device'[port].answers = <<TEST_PS2_PASSED>>
<1> DEFINE d == device[port]
           new == Commanded(d, op, port)
<1>1. d \in Device
  BY DEF HardwareTyped
<1>2. op = "reset" =>
        new = [answers |-> <<DEVICE_ACK, DEVICE_TEST_PASSED>> \o
                        (IF port = 2 THEN <<MOUSE_ID>> ELSE <<>>),
           queue |-> <<>>, scanning |-> port = 1, argument |-> FALSE]
  BY DEF Commanded
<1>3. op = "disable" =>
        new = [d EXCEPT !.answers = <<DEVICE_ACK>>, !.queue = <<>>, !.scanning = FALSE]
  BY DEF Commanded
<1>4. op = "enable" =>
        new = [d EXCEPT !.answers = <<DEVICE_ACK>>, !.scanning = TRUE]
  BY DEF Commanded
<1>5. op = "read config" =>
        new = [d EXCEPT !.answers = <<ByteOf(config)>>]
  BY DEF Commanded
<1>6. op = "test" =>
        new = [d EXCEPT !.answers = <<TEST_PS2_PASSED>>]
  BY DEF Commanded
<1>7. op = "set" =>
        new = [d EXCEPT !.answers = <<DEVICE_ACK>>]
  BY DEF Commanded
<1>8. op = "leds" =>
        new = [d EXCEPT !.answers = <<DEVICE_ACK>>, !.argument = ~ @]
  BY DEF Commanded
<1> HIDE DEF d, new
<1>9. ByteOf(config) \in 0 .. 255
  BY EveryByte DEF HardwareTyped
<1>10. op = "reset" => new \in Device /\ new.queue = <<>> /\ (port = 2 => ~ new.scanning)
  <2> SUFFICES ASSUME op = "reset"
               PROVE  new \in Device /\ new.queue = <<>> /\ (port = 2 => ~ new.scanning)
    OBVIOUS
  <2> DEFINE a == <<DEVICE_ACK, DEVICE_TEST_PASSED>> \o (IF port = 2 THEN <<MOUSE_ID>> ELSE <<>>)
             b == port = 1
  <2>1. a \in Seq(0 .. 255)
    <3>1. (IF port = 2 THEN <<MOUSE_ID>> ELSE <<>>) \in Seq(0 .. 255)
      BY Answers
    <3> QED
      BY <3>1, Answers
  <2>2. b \in BOOLEAN /\ (port = 2 => ~ b)
    OBVIOUS
  <2>3. new = [answers |-> a, queue |-> <<>>, scanning |-> b, argument |-> FALSE]
    BY <1>2
  <2> HIDE DEF a, b
  <2> QED
    BY <2>1, <2>2, <2>3, Answers DEF Device
<1>11. op = "disable" => /\ new \in Device /\ new.queue = <<>> /\ ~ new.scanning
                         /\ new.answers = <<DEVICE_ACK>>
  <2> SUFFICES ASSUME op = "disable"
               PROVE  /\ new \in Device /\ new.queue = <<>> /\ ~ new.scanning
                      /\ new.answers = <<DEVICE_ACK>>
    OBVIOUS
  <2>1. new = [answers |-> <<DEVICE_ACK>>, queue |-> <<>>, scanning |-> FALSE,
               argument |-> d.argument]
    BY <1>1, <1>3 DEF Device
  <2> QED
    BY <1>1, <2>1, Answers DEF Device
<1>12. op = "enable" => new \in Device /\ new.queue = d.queue /\ new.answers = <<DEVICE_ACK>>
  BY <1>1, <1>4, Answers, ZenonT(40) DEF Device
<1>13. op = "read config" =>
         /\ new \in Device /\ new.queue = d.queue /\ new.scanning = d.scanning
         /\ new.answers = <<ByteOf(config)>>
  <2>1. <<ByteOf(config)>> \in Seq(0 .. 255)
    BY <1>9
  <2> QED
    BY <1>1, <1>5, <2>1 DEF Device
<1>14. op = "test" =>
         /\ new \in Device /\ new.queue = d.queue /\ new.scanning = d.scanning
         /\ new.answers = <<TEST_PS2_PASSED>>
  BY <1>1, <1>6, Answers, ZenonT(40) DEF Device
<1>15. op \in {"set", "leds"} =>
         /\ new \in Device /\ new.queue = d.queue /\ new.scanning = d.scanning
         /\ new.answers = <<DEVICE_ACK>>
  <2>1. CASE op = "set"
    BY <1>1, <1>7, <2>1, Answers, ZenonT(40) DEF Device
  <2>2. CASE op = "leds"
    <3>1. new = [d EXCEPT !.answers = <<DEVICE_ACK>>, !.argument = ~ d.argument]
      BY <1>8, <2>2
    <3> QED
      BY <1>1, <3>1, Answers DEF Device
  <2> QED
    BY <2>1, <2>2
<1>16. new \in Device
  BY <1>10, <1>11, <1>12, <1>13, <1>14, <1>15 DEF Commands
<1>17. device' = [device EXCEPT ![port] = new]
  BY DEF Obey, new, d
<1>18. /\ device' \in [{0, 1, 2} -> Device] /\ device'[port] = new
       /\ \A q \in {0, 1, 2} : q # port => device'[q] = device[q]
  BY <1>16, <1>17 DEF HardwareTyped
<1> QED
  BY <1>10, <1>11, <1>12, <1>13, <1>14, <1>15, <1>18 DEF d

-----------------------------------------------------------------------------
(* How the task gets from operation to operation.                          *)

\* Where the task is if it is at an operation.
LEMMA Places ==
  HardwareTyped =>
         /\ At("disable port") => pc \in {1, 2}
         /\ At("flush") => pc \in {3, 23, 26, 29, 53}
         /\ At("read config") => pc \in {4, 9, 17, 38}
         /\ At("detect") => pc \in {5}
         /\ At("test") => pc \in {6, 11, 13}
         /\ At("await") => pc \in {7, 12, 25, 28, 31, 33, 35, 37, 41, 43, 45, 47, 49, 51}
         /\ At("enable port") => pc \in {8, 15, 16}
         /\ At("detect again") => pc \in {10}
         /\ At("await any") => pc \in {14}
         /\ At("turn on") => pc \in {18}
         /\ At("reset") => pc \in {19, 21}
         /\ At("await reset") => pc \in {20, 22}
         /\ At("disable") => pc \in {24, 27}
         /\ At("set") => pc \in {30, 32, 34, 36, 40, 42, 44, 46}
         /\ At("translate") => pc \in {39}
         /\ At("enable") => pc \in {48, 50}
         /\ At("init_done") => pc \in {52}
<1>0. ASSUME HardwareTyped, NEW op, At(op)
      PROVE  KnownOp(pc) /\ Program[pc].op = op
  BY <1>0, Where
<1>1. HardwareTyped /\ At("disable port") => pc \in {1, 2}
  BY <1>0, Zenon DEF KnownOp
<1>2. HardwareTyped /\ At("flush") => pc \in {3, 23, 26, 29, 53}
  BY <1>0, Zenon DEF KnownOp
<1>3. HardwareTyped /\ At("read config") => pc \in {4, 9, 17, 38}
  BY <1>0, Zenon DEF KnownOp
<1>4. HardwareTyped /\ At("detect") => pc \in {5}
  BY <1>0, Zenon DEF KnownOp
<1>5. HardwareTyped /\ At("test") => pc \in {6, 11, 13}
  BY <1>0, Zenon DEF KnownOp
<1>6. HardwareTyped /\ At("await") => pc \in {7, 12, 25, 28, 31, 33, 35, 37, 41, 43, 45, 47, 49, 51}
  BY <1>0, ZenonT(40) DEF KnownOp
<1>7. HardwareTyped /\ At("enable port") => pc \in {8, 15, 16}
  BY <1>0, Zenon DEF KnownOp
<1>8. HardwareTyped /\ At("detect again") => pc \in {10}
  BY <1>0, Zenon DEF KnownOp
<1>9. HardwareTyped /\ At("await any") => pc \in {14}
  BY <1>0, Zenon DEF KnownOp
<1>10. HardwareTyped /\ At("turn on") => pc \in {18}
  BY <1>0, Zenon DEF KnownOp
<1>11. HardwareTyped /\ At("reset") => pc \in {19, 21}
  BY <1>0, Zenon DEF KnownOp
<1>12. HardwareTyped /\ At("await reset") => pc \in {20, 22}
  BY <1>0, Zenon DEF KnownOp
<1>13. HardwareTyped /\ At("disable") => pc \in {24, 27}
  BY <1>0, Zenon DEF KnownOp
<1>14. HardwareTyped /\ At("set") => pc \in {30, 32, 34, 36, 40, 42, 44, 46}
  BY <1>0, Zenon DEF KnownOp
<1>15. HardwareTyped /\ At("translate") => pc \in {39}
  BY <1>0, Zenon DEF KnownOp
<1>16. HardwareTyped /\ At("enable") => pc \in {48, 50}
  BY <1>0, Zenon DEF KnownOp
<1>17. HardwareTyped /\ At("init_done") => pc \in {52}
  BY <1>0, Zenon DEF KnownOp
<1> QED
  BY <1>1, <1>2, <1>3, <1>4, <1>5, <1>6, <1>7, <1>8, <1>9, <1>10, <1>11,
     <1>12, <1>13, <1>14, <1>15, <1>16, <1>17, Zenon

\* The task never gets to an operation for a port that is not supported.
LEMMA Follows ==
  ASSUME NEW i \in 1 .. 53, NEW supported \in BOOLEAN
  PROVE  supported \/ After(i, supported) \notin OnlySecond
<1>1. ASSUME ~ supported, i + 1 \in OnlySecond
      PROVE  After(i, supported) \in {3, 11, 15, 17, 23, 29, 48, 52}
  <2>1. i \in {1, 7, 8, 9, 12, 13, 15, 20, 21, 26, 27} \/ i \in 39 .. 46 \/ i \in {49, 50}
    BY <1>1 DEF OnlySecond
  <2> QED
    BY <1>1, <2>1, AfterIs
<1>2. \A j \in {3, 11, 15, 17, 23, 29, 48, 52} : j \notin OnlySecond
  BY DEF OnlySecond
<1>3. supported \/ i + 1 \notin OnlySecond => After(i, supported) = i + 1
  BY AfterIs
<1> QED
  BY <1>1, <1>2, <1>3, Zenon

\* No operation that is not for port 2 is skipped.
LEMMA NotBeyond ==
  ASSUME NEW i \in 1 .. 53, NEW supported \in BOOLEAN, NEW j \in i + 1 .. 54, j \notin OnlySecond
  PROVE  After(i, supported) <= j
<1>1. CASE supported \/ i + 1 \notin OnlySecond
  <2>1. After(i, supported) = i + 1
    BY <1>1, AfterIs
  <2> QED
    BY <2>1
<1>2. CASE ~ supported /\ i + 1 \in OnlySecond
  <2>1. i = 1 \/ i \in 7 .. 9 \/ i \in {12, 13} \/ i = 15 \/ i \in 20 .. 21 \/ i \in 26 .. 27
        \/ i \in 39 .. 46 \/ i \in 49 .. 50
    BY <1>2 DEF OnlySecond
  <2>2. /\ i = 1 => After(i, supported) = 3
        /\ i \in 7 .. 9 => After(i, supported) = 11
        /\ i \in {12, 13} => After(i, supported) = 15
        /\ i = 15 => After(i, supported) = 17
        /\ i \in 20 .. 21 => After(i, supported) = 23
        /\ i \in 26 .. 27 => After(i, supported) = 29
        /\ i \in 39 .. 46 => After(i, supported) = 48
        /\ i \in 49 .. 50 => After(i, supported) = 52
    BY <1>2, AfterIs
  <2> QED
    BY <2>1, <2>2 DEF OnlySecond
<1> QED
  BY <1>1, <1>2

\* Nothing but the traffic changes.
StandsStill == UNCHANGED <<pc, port2_supported, second, config, init_done>>

\* What depends on the hardware alone stays the same.
LEMMA SameSecond ==
  second' = second => /\ Present' <=> Present
                      /\ ReadsZero' <=> ReadsZero
                      /\ \A bits : Written(bits)' = Written(bits)
BY DEF Present, ReadsZero, Written

\* If the task stands still, what is known of the detection of port 2 stays true.
LEMMA Standing ==
  SetUpInv /\ StandsStill /\ (polling' # 0 => init_done) => NotYet' /\ Detected' /\ EarlyConfig'
<1>0. SUFFICES ASSUME SetUpInv, StandsStill, polling' # 0 => init_done
               PROVE  NotYet' /\ Detected' /\ EarlyConfig'
  OBVIOUS
<1>1. /\ pc' = pc /\ port2_supported' = port2_supported /\ second' = second
      /\ config' = config /\ init_done' = init_done
  BY <1>0 DEF StandsStill
<1>2. NotYet'
  BY <1>0, <1>1 DEF SetUpInv, NotYet
<1>3. (Present' <=> Present) /\ (ReadsZero' <=> ReadsZero)
  BY <1>1, SameSecond, Zenon
<1>4. Detected'
  BY <1>0, <1>1, <1>3, Zenon DEF SetUpInv, Detected
<1>5. EarlyConfig'
  BY <1>0, <1>1, SameSecond, Zenon DEF SetUpInv, EarlyConfig
<1> QED
  BY <1>2, <1>4, <1>5

\* The task goes on.
GoesOn ==
  /\ pc \in 1 .. 53 /\ pc' = After(pc, port2_supported) /\ polling = 0
  /\ UNCHANGED <<port2_supported, second, init_done, polling>>

\* How it gets from operation to operation.
Advance ==
  /\ pc \in 1 .. 53 /\ pc' \in 1 .. 54 /\ pc' > pc
  /\ port2_supported \/ pc + 1 \notin OnlySecond => pc' = pc + 1
  /\ port2_supported \/ pc' \notin OnlySecond
  /\ ~ port2_supported => /\ pc \in 7 .. 9 => pc' = 11
                          /\ pc \in {12, 13} => pc' = 15
                          /\ pc = 15 => pc' = 17
  /\ pc < 18 => pc' <= 18
  /\ pc < 24 => pc' <= 24
  /\ pc < 30 => pc' <= 30
  /\ pc < 38 => pc' <= 38
  /\ pc \in OnlySecond => port2_supported
  /\ pc <= 5 => port2_supported

\* If the task goes on without having detected anything, that stays true, too.
LEMMA Going ==
  SetUpInv /\ GoesOn => Advance /\ NotYet' /\ (pc \notin {5, 10} => Detected')
<1>0. SUFFICES ASSUME SetUpInv, GoesOn
               PROVE  Advance /\ NotYet' /\ (pc \notin {5, 10} => Detected')
  OBVIOUS
<1>1. port2_supported \in BOOLEAN /\ pc \in 1 .. 53 /\ pc' = After(pc, port2_supported)
  BY <1>0 DEF SetUpInv, HardwareTyped, GoesOn
<1>2. /\ pc' \in pc + 1 .. 54
      /\ port2_supported \/ pc + 1 \notin OnlySecond => pc' = pc + 1
      /\ ~ port2_supported => /\ pc \in 7 .. 9 => pc' = 11
                              /\ pc \in {12, 13} => pc' = 15
                              /\ pc = 15 => pc' = 17
  BY <1>1, AfterIs
<1>3. port2_supported \/ pc' \notin OnlySecond
  BY <1>1, Follows
<1>10. /\ pc < 18 => pc' <= 18
       /\ pc < 24 => pc' <= 24
       /\ pc < 30 => pc' <= 30
       /\ pc < 38 => pc' <= 38
  <2>1. 18 \notin OnlySecond /\ 24 \notin OnlySecond /\ 30 \notin OnlySecond /\ 38 \notin OnlySecond
    BY DEF OnlySecond
  <2>2. \A j \in pc + 1 .. 54 : j \notin OnlySecond => pc' <= j
    BY <1>1, NotBeyond
  <2> QED
    BY <1>1, <2>1, <2>2
<1>4. /\ pc \in OnlySecond => port2_supported
      /\ pc <= 5 => port2_supported
      /\ pc \in {6, 7, 8, 9, 10} => (port2_supported <=> ~ ReadsZero)
      /\ pc >= 11 => (port2_supported <=> Present)
  BY <1>0, Zenon DEF SetUpInv, Detected
<1>5. /\ port2_supported' = port2_supported /\ second' = second /\ init_done' = init_done
      /\ polling' = polling /\ polling = 0
  BY <1>0 DEF GoesOn
<1>6. (Present' <=> Present) /\ (ReadsZero' <=> ReadsZero)
  BY <1>5, SameSecond, Zenon
<1>7. pc' \in 1 .. 54 /\ pc' > pc
  BY <1>1, <1>2
<1>8. NotYet'
  <2>1. init_done => pc >= 53
    BY <1>0, Zenon DEF SetUpInv, NotYet
  <2> QED
    BY <1>1, <1>5, <1>7, <2>1 DEF NotYet
<1>9. pc \notin {5, 10} => Detected'
  <2>0. SUFFICES ASSUME pc \notin {5, 10} PROVE Detected'
    OBVIOUS
  <2>1. CASE pc \in {1, 2, 3, 4}
    <3>1. port2_supported
      BY <1>4, <2>1
    <3>2. pc' = pc + 1
      BY <1>2, <3>1
    <3>3. pc' \in {2, 3, 4, 5}
      BY <2>1, <3>2
    <3> QED
      BY <1>5, <3>1, <3>3 DEF Detected
  <2>2. CASE pc \in {6, 7, 8, 9}
    <3>0. port2_supported <=> ~ ReadsZero
      BY <1>4, <2>2
    <3>1. CASE port2_supported
      <4>1. pc' = pc + 1
        BY <1>2, <3>1
      <4>2. pc' \in {7, 8, 9, 10}
        BY <2>2, <4>1
      <4> QED
        BY <1>5, <1>6, <3>0, <3>1, <4>2 DEF Detected
    <3>2. CASE ~ port2_supported
      <4>1. pc \in {6, 7}
        BY <1>4, <2>2, <3>2 DEF OnlySecond
      <4>2. pc' \in {7, 11}
        BY <1>2, <4>1, <3>2 DEF OnlySecond
      <4>3. ReadsZero /\ ~ Present
        BY <3>0, <3>2 DEF ReadsZero, Present
      <4> QED
        BY <1>5, <1>6, <3>2, <4>2, <4>3 DEF Detected, OnlySecond
    <3> QED
      BY <3>1, <3>2
  <2>3. CASE pc >= 11
    <3>1. pc' >= 11
      BY <1>1, <1>7, <2>3
    <3>2. port2_supported <=> Present
      BY <1>4, <2>3
    <3> QED
      BY <1>3, <1>5, <1>6, <1>7, <3>1, <3>2 DEF Detected
  <2> QED
    BY <1>1, <2>0, <2>1, <2>2, <2>3
<1>11. Advance
  BY <1>1, <1>2, <1>3, <1>4, <1>7, <1>10 DEF Advance
<1> QED
  BY <1>8, <1>9, <1>11

\* If it does not change the configuration, that is still the one of its position.
LEMMA ConfigStays ==
  SetUpInv /\ GoesOn /\ Advance /\ config' = config /\ pc \notin {1, 2, 5, 8, 10, 15, 16}
  => EarlyConfig'
<1>0. SUFFICES ASSUME SetUpInv, GoesOn, Advance, config' = config,
                      pc \notin {1, 2, 5, 8, 10, 15, 16}
               PROVE  EarlyConfig'
  OBVIOUS
<1>1. \A bits : Written(bits)' = Written(bits)
  <2>1. second' = second
    BY <1>0 DEF GoesOn
  <2> QED
    BY <2>1, SameSecond, Zenon
<1>2. /\ pc \in {3, 4, 5} => config = Written({0, 1, 4, 5, 6})
      /\ pc \in {6, 7, 8, 11, 12, 13, 14, 15} => config = Written({4, 5})
      /\ pc \in {9, 10} => config = Written({4})
      /\ pc \in {17, 18} => config = Written({})
  BY <1>0, Zenon DEF SetUpInv, EarlyConfig
<1>3. pc \in 1 .. 53 /\ pc' > pc
  BY <1>0 DEF Advance
<1>4. pc \in {3, 4} => pc' \in {4, 5}
  BY <1>0 DEF Advance, OnlySecond
<1>5. pc \in {6, 7, 11, 12, 13, 14} => pc' \in {7, 8, 11, 12, 13, 14, 15}
  BY <1>0 DEF Advance, OnlySecond
<1>6. pc = 9 => pc' = 10
  BY <1>0 DEF Advance, OnlySecond
<1>7. pc = 17 => pc' = 18
  BY <1>0 DEF Advance, OnlySecond
<1>8. CASE pc \in {3, 4}
  BY <1>0, <1>1, <1>2, <1>4, <1>8 DEF EarlyConfig
<1>9. CASE pc \in {6, 7, 11, 12, 13, 14}
  BY <1>0, <1>1, <1>2, <1>5, <1>9 DEF EarlyConfig
<1>10. CASE pc = 9
  BY <1>0, <1>1, <1>2, <1>6, <1>10 DEF EarlyConfig
<1>11. CASE pc = 17
  BY <1>0, <1>1, <1>2, <1>7, <1>11 DEF EarlyConfig
<1>12. CASE pc >= 18
  <2>1. pc' >= 19
    BY <1>0, <1>12 DEF Advance
  <2> QED
    BY <2>1 DEF EarlyConfig
<1> QED
  BY <1>0, <1>3, <1>8, <1>9, <1>10, <1>11, <1>12

\* If it does not change the devices, they are still disabled where they were.
LEMMA DisabledStays ==
  SetUpInv /\ Advance /\ device' = device /\ pc \notin {18, 24} => Disabled'
<1>0. SUFFICES ASSUME SetUpInv, Advance, device' = device, pc \notin {18, 24}
               PROVE  Disabled'
  OBVIOUS
<1>1. /\ pc <= 50 => device[2].queue = <<>> /\ ~ device[2].scanning
      /\ pc \in 25 .. 48 => device[1].queue = <<>> /\ ~ device[1].scanning
      /\ pc \in 19 .. 38 => device[0].answers = <<>> /\ device[0].queue = <<>>
  BY <1>0, Zenon DEF SetUpInv, Disabled
<1>2. /\ pc' <= 50 => pc <= 50
      /\ pc' \in 25 .. 48 => pc \in 25 .. 48
      /\ pc' \in 19 .. 38 => pc \in 19 .. 38
  BY <1>0 DEF Advance
<1> QED
  BY <1>0, <1>1, <1>2, Zenon DEF Disabled

-----------------------------------------------------------------------------
(* Traffic.                                                                *)

\* If nothing is on its way, after a command there is its answer.
LEMMA Asked ==
  ASSUME NEW p \in {0, 1, 2}, NEW data, Nothing, outbuf' = outbuf,
         \A q \in {0, 1, 2} : q # p => device'[q] = device[q],
         device'[p].queue = <<>>, device'[p].answers = <<data>>
  PROVE  Expected(p, data)'
BY DEF Nothing, Expected

\* If there is only an answer, nothing is left when it is read.
LEMMA Heard ==
  ASSUME NEW p \in {0, 1, 2}, NEW data, Expected(p, data), outbuf # NoByte,
         outbuf' = NoByte, device' = device
  PROVE  Nothing'
BY DEF Nothing, Expected

-----------------------------------------------------------------------------
(* Commands.                                                               *)

\* A step of the task that keeps the types of the hardware keeps all types.
LEMMA TypedSteps ==
  SetUpInv /\ GoesOn /\ Advance /\ outbuf' \in Byte \union {NoByte} /\ config' \subseteq 0 .. 7
    /\ device' \in [{0, 1, 2} -> Device]
  => HardwareTyped'
BY DEF SetUpInv, GoesOn, Advance, HardwareTyped

\* What a command changes.
LEMMA Commanding ==
  ASSUME HardwareTyped, NEW op, Command(op)
  PROVE  /\ At(op) /\ GoesOn
         /\ outbuf' = outbuf /\ config' = config
         /\ op \in {"read config", "test"} => Obey(op, 0)
         /\ op \notin {"read config", "test"} => Obey(op, Program[pc].port)
<1>1. At(op) /\ pc' = After(pc, port2_supported)
      /\ UNCHANGED <<port2_supported, second, init_done, polling, outbuf, config>>
  BY DEF Command, Proceed, drivers
<1>2. polling = 0 /\ pc \in 1 .. 53
  BY <1>1, Where
<1>3. /\ op \in {"read config", "test"} => Obey(op, 0)
      /\ op \notin {"read config", "test"} => Obey(op, Program[pc].port)
  BY DEF Command, CONTROLLER
<1> QED
  BY <1>1, <1>2, <1>3 DEF GoesOn

\* What an operation of the task has done to the devices.
Answered(p, data) ==
  /\ outbuf' = outbuf /\ config' = config
  /\ device' \in [{0, 1, 2} -> Device]
  /\ \A q \in {0, 1, 2} : q # p => device'[q] = device[q]
  /\ device'[p].queue = device[p].queue /\ device'[p].answers = <<data>>

\* The controller is asked for its configuration or to test itself or port 2.
AskedController(data) ==
  /\ SetUpInv /\ GoesOn /\ Answered(0, data)
  /\ \/ pc \in {4, 9, 17, 38} /\ data = ByteOf(config)
     \/ pc \in {6, 11, 13} /\ data = TEST_PS2_PASSED

\* A command for the controller keeps the invariant.
LEMMA AskController ==
  ASSUME NEW data
  PROVE  AskedController(data) => SetUpInv'
<1>0. SUFFICES ASSUME AskedController(data) PROVE SetUpInv'
  OBVIOUS
<1>1. /\ SetUpInv /\ GoesOn /\ outbuf' = outbuf /\ config' = config
      /\ device' \in [{0, 1, 2} -> Device]
      /\ \A q \in {0, 1, 2} : q # 0 => device'[q] = device[q]
      /\ device'[0].queue = device[0].queue /\ device'[0].answers = <<data>>
  BY <1>0, Zenon DEF AskedController, Answered
<1>2. Advance /\ NotYet' /\ (pc \notin {5, 10} => Detected')
  BY <1>1, Going, Zenon
<1>3. \/ pc \in {4, 9, 17, 38} /\ data = ByteOf(config)
      \/ pc \in {6, 11, 13} /\ data = TEST_PS2_PASSED
  BY <1>0, Zenon DEF AskedController
<1>4. pc \in {4, 9, 17, 38, 6, 11, 13}
  BY <1>3
<1>7. HardwareTyped'
  <2>1. outbuf' \in Byte \union {NoByte} /\ config' \subseteq 0 .. 7
    BY <1>1 DEF SetUpInv, HardwareTyped
  <2> QED
    BY <1>1, <1>2, <2>1, TypedSteps, Zenon
<1>8. Detected'
  BY <1>2, <1>4
<1>9. EarlyConfig'
  <2>1. pc \notin {1, 2, 5, 8, 10, 15, 16}
    BY <1>4
  <2> QED
    BY <1>1, <1>2, <2>1, ConfigStays, Zenon
<1>10. pc' = pc + 1
  BY <1>2, <1>4 DEF Advance, OnlySecond
<1>11. CASE pc = 38
  <2>1. pc' = 39
    BY <1>10, <1>11
  <2>2. EarlyTraffic'
    BY <2>1 DEF EarlyTraffic
  <2>3. /\ device[2].queue = <<>> /\ ~ device[2].scanning
        /\ device[1].queue = <<>> /\ ~ device[1].scanning
    BY <1>1, <1>11 DEF SetUpInv, Disabled
  <2>4. Disabled'
    BY <1>1, <2>1, <2>3 DEF Disabled
  <2> QED
    BY <1>2, <1>7, <1>8, <1>9, <2>2, <2>4 DEF SetUpInv
<1>12. CASE pc # 38
  <2>1. Nothing
    <3>1. pc \in {1, 2, 3, 4, 6, 8, 9, 11, 13, 15, 16, 17} => Nothing
      BY <1>1, Zenon DEF SetUpInv, EarlyTraffic
    <3> QED
      BY <1>4, <1>12, <3>1
  <2>2. Expected(0, data)'
    <3>1. device'[0].queue = <<>>
      BY <1>1, <2>1 DEF Nothing
    <3> QED
      BY <1>1, <2>1, <3>1, Asked
  <2>3. EarlyTraffic'
    <3>1. CASE pc \in {4, 9, 17} /\ data = ByteOf(config)
      <4>1. pc' \in {5, 10, 18}
        BY <1>10, <3>1
      <4>2. Expected(0, ByteOf(config))'
        BY <1>1, <2>2, <3>1 DEF Expected
      <4> QED
        BY <4>1, <4>2 DEF EarlyTraffic
    <3>2. CASE pc \in {6, 11, 13} /\ data = TEST_PS2_PASSED
      <4>1. pc' \in {7, 12, 14}
        BY <1>10, <3>2
      <4>2. Expected(0, TEST_PS2_PASSED)'
        BY <2>2, <3>2 DEF Expected, TEST_PS2_PASSED
      <4> QED
        BY <4>1, <4>2 DEF EarlyTraffic
    <3> QED
      BY <1>3, <1>12, <3>1, <3>2
  <2>4. Disabled'
    <3>1. pc' \in {5, 7, 10, 12, 14, 18}
      BY <1>4, <1>10, <1>12
    <3>2. device[2].queue = <<>> /\ ~ device[2].scanning
      BY <1>1, <1>4, <1>12 DEF SetUpInv, Disabled
    <3>3. device'[2].queue = <<>> /\ ~ device'[2].scanning
      BY <1>1, <3>2
    <3>4. pc' \notin 25 .. 48 /\ pc' \notin 19 .. 38
      BY <3>1
    <3> QED
      BY <3>3, <3>4, Zenon DEF Disabled
  <2> QED
    BY <1>2, <1>7, <1>8, <1>9, <2>3, <2>4 DEF SetUpInv
<1> QED
  BY <1>11, <1>12

\* To read the configuration is such a command.
LEMMA ReadConfigKeeps ==
  SetUpInv /\ Command("read config") => AskedController(ByteOf(config))
<1>0. SUFFICES ASSUME SetUpInv, Command("read config") PROVE AskedController(ByteOf(config))
  OBVIOUS
<1>1. /\ At("read config") /\ GoesOn /\ outbuf' = outbuf /\ config' = config
      /\ Obey("read config", 0)
  BY <1>0, Commanding DEF SetUpInv
<1>2. pc \in {4, 9, 17, 38}
  BY <1>0, <1>1, Places, Zenon DEF SetUpInv
<1>3. Answered(0, ByteOf(config))
  BY <1>0, <1>1, Obeyed DEF SetUpInv, Commands, Answered
<1> QED
  BY <1>0, <1>1, <1>2, <1>3, Zenon DEF AskedController

\* So is a test of the controller or of port 2.
LEMMA TestKeeps ==
  SetUpInv /\ Command("test") => AskedController(TEST_PS2_PASSED)
<1>0. SUFFICES ASSUME SetUpInv, Command("test") PROVE AskedController(TEST_PS2_PASSED)
  OBVIOUS
<1>1. /\ At("test") /\ GoesOn /\ outbuf' = outbuf /\ config' = config
      /\ Obey("test", 0)
  BY <1>0, Commanding DEF SetUpInv
<1>2. pc \in {6, 11, 13}
  BY <1>0, <1>1, Places, Zenon DEF SetUpInv
<1>3. Answered(0, TEST_PS2_PASSED)
  BY <1>0, <1>1, Obeyed DEF SetUpInv, Commands, Answered
<1> QED
  BY <1>0, <1>1, <1>2, <1>3, Zenon DEF AskedController

\* After ps2_init_controller only the devices matter.
LateStep ==
  /\ SetUpInv /\ GoesOn /\ pc >= 18
  /\ outbuf' \in Byte \union {NoByte} /\ config' \subseteq 0 .. 7
  /\ device' \in [{0, 1, 2} -> Device]

\* After ps2_init_controller a step that respects Disabled keeps the invariant.
LEMMA LateKeeps == LateStep /\ Disabled' => SetUpInv'
<1>0. SUFFICES ASSUME LateStep, Disabled' PROVE SetUpInv'
  OBVIOUS
<1>1. /\ SetUpInv /\ GoesOn /\ pc >= 18
      /\ outbuf' \in Byte \union {NoByte} /\ config' \subseteq 0 .. 7
      /\ device' \in [{0, 1, 2} -> Device]
  BY <1>0, Zenon DEF LateStep
<1>2. Advance /\ NotYet' /\ (pc \notin {5, 10} => Detected')
  BY <1>1, Going, Zenon
<1>3. HardwareTyped'
  BY <1>1, <1>2, TypedSteps, Zenon
<1>4. pc \notin {5, 10} /\ pc' >= 19 /\ pc' \in 1 .. 54
  BY <1>1, <1>2 DEF Advance
<1>5. EarlyConfig'
  BY <1>4 DEF EarlyConfig
<1>6. EarlyTraffic'
  BY <1>4 DEF EarlyTraffic
<1>7. Detected'
  BY <1>2, <1>4
<1> QED
  BY <1>0, <1>2, <1>3, <1>5, <1>6, <1>7, Zenon DEF SetUpInv

\* A device gets a command.
CommandedDevice(p) ==
  /\ SetUpInv /\ GoesOn /\ Advance /\ outbuf' = outbuf /\ config' = config
  /\ device' \in [{0, 1, 2} -> Device]
  /\ \A q \in {0, 1, 2} : q # p => device'[q] = device[q]

\* Which device gets a command depends on the position.
LEMMA CommandDevice ==
  ASSUME NEW op \in {"reset", "disable", "set", "enable"}, SetUpInv, Command(op)
  PROVE  /\ pc \in OnlyFirst => CommandedDevice(1) /\ Obey(op, 1)
         /\ pc \in OnlySecond => CommandedDevice(2) /\ Obey(op, 2)
         /\ At(op)
<1>1. /\ At(op) /\ GoesOn /\ outbuf' = outbuf /\ config' = config /\ Obey(op, Program[pc].port)
      /\ HardwareTyped
  BY Commanding DEF SetUpInv
<1>2. Advance
  BY <1>1, Going, Zenon
<1>3. KnownPort(pc)
  BY <1>1, Where, Zenon
<1>4. op \in Commands
  BY DEF Commands
<1>5. ASSUME NEW p \in {0, 1, 2}, Program[pc].port = p
      PROVE  CommandedDevice(p) /\ Obey(op, p)
  <2>1. Obey(op, p)
    BY <1>1, <1>5
  <2>2. /\ device' \in [{0, 1, 2} -> Device]
        /\ \A q \in {0, 1, 2} : q # p => device'[q] = device[q]
    BY <1>1, <1>4, <2>1, Obeyed, Zenon
  <2> QED
    BY <1>1, <1>2, <2>1, <2>2, Zenon DEF CommandedDevice
<1>6. pc \in OnlyFirst => CommandedDevice(1) /\ Obey(op, 1)
  <2>1. pc \in OnlyFirst => Program[pc].port = 1
    BY <1>3 DEF KnownPort
  <2>2. 1 \in {0, 1, 2}
    OBVIOUS
  <2> QED
    BY <1>5, <2>1, <2>2, Zenon
<1>7. pc \in OnlySecond => CommandedDevice(2) /\ Obey(op, 2)
  <2>1. pc \in OnlySecond => Program[pc].port = 2
    BY <1>3 DEF KnownPort
  <2>2. 2 \in {0, 1, 2}
    OBVIOUS
  <2> QED
    BY <1>5, <2>1, <2>2, Zenon
<1> QED
  BY <1>1, <1>6, <1>7, Zenon

\* Devices get commands only after ps2_init_controller.
LEMMA CommandedLate ==
  ASSUME NEW p, CommandedDevice(p), pc >= 18
  PROVE  LateStep
BY DEF CommandedDevice, LateStep, SetUpInv, HardwareTyped

\* ps2_reset_device keeps the invariant.
LEMMA ResetKeeps == SetUpInv /\ Command("reset") => SetUpInv'
<1>0. SUFFICES ASSUME SetUpInv, Command("reset") PROVE SetUpInv'
  OBVIOUS
<1>1. /\ pc \in OnlyFirst => CommandedDevice(1) /\ Obey("reset", 1)
      /\ pc \in OnlySecond => CommandedDevice(2) /\ Obey("reset", 2)
      /\ At("reset")
  BY <1>0, CommandDevice
<1>2. pc \in {19, 21}
  BY <1>0, <1>1, Places, Zenon DEF SetUpInv
<1>3. CASE pc = 19
  <2>1. CommandedDevice(1)
    BY <1>1, <1>3 DEF OnlyFirst
  <2>2. pc' = 20
    BY <1>3, <2>1 DEF CommandedDevice, Advance, OnlySecond
  <2>3. /\ device[2].queue = <<>> /\ ~ device[2].scanning
        /\ device[0].answers = <<>> /\ device[0].queue = <<>>
    BY <1>0, <1>3 DEF SetUpInv, Disabled
  <2>4. device'[2] = device[2] /\ device'[0] = device[0]
    BY <2>1 DEF CommandedDevice
  <2>5. Disabled'
    BY <2>2, <2>3, <2>4 DEF Disabled
  <2> QED
    BY <1>3, <2>1, <2>5, CommandedLate, LateKeeps
<1>4. CASE pc = 21
  <2>1. CommandedDevice(2) /\ Obey("reset", 2)
    BY <1>1, <1>4 DEF OnlySecond
  <2>2. pc' = 22
    BY <1>4, <2>1 DEF CommandedDevice, Advance, OnlySecond
  <2>3. device[0].answers = <<>> /\ device[0].queue = <<>>
    BY <1>0, <1>4 DEF SetUpInv, Disabled
  <2>4. device'[0] = device[0]
    BY <2>1 DEF CommandedDevice
  <2>5. device'[2].queue = <<>> /\ ~ device'[2].scanning
    BY <1>0, <2>1, Obeyed DEF SetUpInv, Commands
  <2>6. Disabled'
    BY <2>2, <2>3, <2>4, <2>5 DEF Disabled
  <2> QED
    BY <1>4, <2>1, <2>6, CommandedLate, LateKeeps
<1> QED
  BY <1>2, <1>3, <1>4

\* To disable a device keeps the invariant.
LEMMA DisableKeeps == SetUpInv /\ Command("disable") => SetUpInv'
<1>0. SUFFICES ASSUME SetUpInv, Command("disable") PROVE SetUpInv'
  OBVIOUS
<1>1. /\ pc \in OnlyFirst => CommandedDevice(1) /\ Obey("disable", 1)
      /\ pc \in OnlySecond => CommandedDevice(2) /\ Obey("disable", 2)
      /\ At("disable")
  BY <1>0, CommandDevice
<1>2. pc \in {24, 27}
  BY <1>0, <1>1, Places, Zenon DEF SetUpInv
<1>3. CASE pc = 24
  <2>1. CommandedDevice(1) /\ Obey("disable", 1)
    BY <1>1, <1>3 DEF OnlyFirst
  <2>2. pc' = 25
    BY <1>3, <2>1 DEF CommandedDevice, Advance, OnlySecond
  <2>3. /\ device[2].queue = <<>> /\ ~ device[2].scanning
        /\ device[0].answers = <<>> /\ device[0].queue = <<>>
    BY <1>0, <1>3 DEF SetUpInv, Disabled
  <2>4. device'[2] = device[2] /\ device'[0] = device[0]
    BY <2>1 DEF CommandedDevice
  <2>5. device'[1].queue = <<>> /\ ~ device'[1].scanning
    BY <1>0, <2>1, Obeyed DEF SetUpInv, Commands
  <2>6. Disabled'
    BY <2>2, <2>3, <2>4, <2>5 DEF Disabled
  <2> QED
    BY <1>3, <2>1, <2>6, CommandedLate, LateKeeps
<1>4. CASE pc = 27
  <2>1. CommandedDevice(2) /\ Obey("disable", 2)
    BY <1>1, <1>4 DEF OnlySecond
  <2>2. pc' = 28
    BY <1>4, <2>1 DEF CommandedDevice, Advance, OnlySecond
  <2>3. /\ device[1].queue = <<>> /\ ~ device[1].scanning
        /\ device[0].answers = <<>> /\ device[0].queue = <<>>
    BY <1>0, <1>4 DEF SetUpInv, Disabled
  <2>4. device'[1] = device[1] /\ device'[0] = device[0]
    BY <2>1 DEF CommandedDevice
  <2>5. device'[2].queue = <<>> /\ ~ device'[2].scanning
    BY <1>0, <2>1, Obeyed DEF SetUpInv, Commands
  <2>6. Disabled'
    BY <2>2, <2>3, <2>4, <2>5 DEF Disabled
  <2> QED
    BY <1>4, <2>1, <2>6, CommandedLate, LateKeeps
<1> QED
  BY <1>2, <1>3, <1>4

\* The commands of keyboard_init and mouse_init keep the invariant.
LEMMA SetKeeps == SetUpInv /\ Command("set") => SetUpInv'
<1>0. SUFFICES ASSUME SetUpInv, Command("set") PROVE SetUpInv'
  OBVIOUS
<1>1. /\ pc \in OnlyFirst => CommandedDevice(1) /\ Obey("set", 1)
      /\ pc \in OnlySecond => CommandedDevice(2) /\ Obey("set", 2)
      /\ At("set")
  BY <1>0, CommandDevice
<1>2. pc \in {30, 32, 34, 36, 40, 42, 44, 46}
  BY <1>0, <1>1, Places, Zenon DEF SetUpInv
<1>3. \A p \in {1, 2} : CommandedDevice(p) /\ Obey("set", p) => SetUpInv'
  <2> SUFFICES ASSUME NEW p \in {1, 2}, CommandedDevice(p), Obey("set", p)
               PROVE  SetUpInv'
    OBVIOUS
  <2>1. /\ device'[0] = device[0]
        /\ \A q \in {1, 2} : device'[q].queue = device[q].queue
                             /\ device'[q].scanning = device[q].scanning
    <3>1. device'[p].queue = device[p].queue /\ device'[p].scanning = device[p].scanning
      BY <1>0, Obeyed DEF SetUpInv, Commands
    <3> QED
      BY <3>1 DEF CommandedDevice
  <2>2. pc' = pc + 1
    <3>1. Advance
      BY DEF CommandedDevice
    <3> QED
      BY <1>2, <3>1 DEF Advance, OnlySecond
  <2>3. /\ device[2].queue = <<>> /\ ~ device[2].scanning
        /\ device[1].queue = <<>> /\ ~ device[1].scanning
    BY <1>0, <1>2 DEF SetUpInv, Disabled
  <2>4. pc < 38 => device[0].answers = <<>> /\ device[0].queue = <<>>
    BY <1>0, <1>2 DEF SetUpInv, Disabled
  <2>5. pc' \in 19 .. 38 => pc < 38
    BY <1>2, <2>2
  <2>6. Disabled'
    BY <2>1, <2>3, <2>4, <2>5, Zenon DEF Disabled
  <2>7. pc >= 18
    BY <1>2
  <2> QED
    BY <2>6, <2>7, CommandedLate, LateKeeps, Zenon
<1>4. pc \in OnlyFirst \/ pc \in OnlySecond
  BY <1>2 DEF OnlyFirst, OnlySecond
<1> QED
  BY <1>1, <1>3, <1>4

\* To enable a device keeps the invariant.
LEMMA EnableKeeps == SetUpInv /\ Command("enable") => SetUpInv'
<1>0. SUFFICES ASSUME SetUpInv, Command("enable") PROVE SetUpInv'
  OBVIOUS
<1>1. /\ pc \in OnlyFirst => CommandedDevice(1) /\ Obey("enable", 1)
      /\ pc \in OnlySecond => CommandedDevice(2) /\ Obey("enable", 2)
      /\ At("enable")
  BY <1>0, CommandDevice
<1>2. pc \in {48, 50}
  BY <1>0, <1>1, Places, Zenon DEF SetUpInv
<1>3. CASE pc = 48
  <2>1. CommandedDevice(1)
    BY <1>1, <1>3 DEF OnlyFirst
  <2>2. pc' = 49
    BY <1>3, <2>1 DEF CommandedDevice, Advance, OnlySecond
  <2>3. device[2].queue = <<>> /\ ~ device[2].scanning
    BY <1>0, <1>3 DEF SetUpInv, Disabled
  <2>4. device'[2] = device[2]
    BY <2>1 DEF CommandedDevice
  <2>5. Disabled'
    BY <2>2, <2>3, <2>4 DEF Disabled
  <2> QED
    BY <1>3, <2>1, <2>5, CommandedLate, LateKeeps
<1>4. CASE pc = 50
  <2>1. CommandedDevice(2)
    BY <1>1, <1>4 DEF OnlySecond
  <2>2. pc' = 51
    BY <1>4, <2>1 DEF CommandedDevice, Advance, OnlySecond
  <2>3. Disabled'
    BY <2>2 DEF Disabled
  <2> QED
    BY <1>4, <2>1, <2>3, CommandedLate, LateKeeps
<1> QED
  BY <1>2, <1>3, <1>4

-----------------------------------------------------------------------------
(* Answers.                                                                *)

\* A byte is polled.
Polled == outbuf # NoByte /\ outbuf' = NoByte /\ device' = device /\ second' = second

\* What is read by polling leaves the output buffer, and nothing else changes.
LEMMA Polling ==
  Poll => /\ outbuf' = NoByte /\ device' = device /\ second' = second
          /\ irr' = irr /\ polling' = polling
BY DEF Poll, inb, drivers

\* Only a byte in the output buffer is available.
LEMMA NoByteAvailable == \A p : ps2_available(p) => outbuf # NoByte
BY DEF ps2_available

\* The task got an answer, or waited in vain for one, and goes on.
GoesOnHearing ==
  /\ SetUpInv /\ GoesOn /\ config' = config /\ device' = device
  /\ outbuf' = NoByte \/ outbuf' = outbuf
  /\ \/ pc >= 19 /\ pc # 24
     \/ pc \in {7, 12, 14} /\ Polled

\* To hear an answer, or to give up after ps2_init_controller, keeps the invariant.
LEMMA HearingGoesOn == GoesOnHearing => SetUpInv'
<1>0. SUFFICES ASSUME GoesOnHearing PROVE SetUpInv'
  OBVIOUS
<1>1. /\ SetUpInv /\ GoesOn /\ config' = config /\ device' = device
      /\ outbuf' = NoByte \/ outbuf' = outbuf
  BY <1>0, Zenon DEF GoesOnHearing
<1>2. \/ pc >= 19 /\ pc # 24
      \/ pc \in {7, 12, 14} /\ Polled
  BY <1>0, Zenon DEF GoesOnHearing
<1>3. Advance /\ NotYet' /\ (pc \notin {5, 10} => Detected')
  BY <1>1, Going, Zenon
<1>4. Disabled'
  <2>1. pc \notin {18, 24}
    BY <1>2
  <2> QED
    BY <1>1, <1>3, <2>1, DisabledStays, Zenon
<1>5. /\ outbuf' \in Byte \union {NoByte} /\ config' \subseteq 0 .. 7
      /\ device' \in [{0, 1, 2} -> Device]
  BY <1>1 DEF SetUpInv, HardwareTyped
<1>6. CASE pc >= 19
  <2>1. pc >= 18
    BY <1>3, <1>6 DEF Advance
  <2> QED
    BY <1>1, <1>4, <1>5, <2>1, LateKeeps, Zenon DEF LateStep
<1>7. CASE pc \in {7, 12, 14} /\ Polled
  <2>1. HardwareTyped'
    BY <1>1, <1>3, <1>5, TypedSteps, Zenon
  <2>2. EarlyConfig'
    <3>1. pc \notin {1, 2, 5, 8, 10, 15, 16}
      BY <1>7
    <3> QED
      BY <1>1, <1>3, <3>1, ConfigStays, Zenon
  <2>3. Detected'
    BY <1>3, <1>7
  <2>4. Expected(0, TEST_PS2_PASSED)
    BY <1>1, <1>7, Zenon DEF SetUpInv, EarlyTraffic
  <2>5. Nothing'
    <3>1. outbuf # NoByte /\ outbuf' = NoByte /\ device' = device /\ 0 \in {0, 1, 2}
      BY <1>7 DEF Polled
    <3> QED
      BY <2>4, <3>1, Heard
  <2>6. pc' \in {8, 11, 13, 15}
    BY <1>3, <1>7 DEF Advance, OnlySecond
  <2>7. EarlyTraffic'
    BY <2>5, <2>6 DEF EarlyTraffic
  <2> QED
    BY <1>3, <1>4, <2>1, <2>2, <2>3, <2>7, Zenon DEF SetUpInv
<1> QED
  BY <1>2, <1>6, <1>7

\* The task reads a byte and waits for another.
StaysHearing ==
  /\ SetUpInv /\ StandsStill /\ device' = device /\ pc >= 19 /\ polling' = polling
  /\ outbuf' = NoByte \/ outbuf' = outbuf

\* To read a byte and to wait for another keeps the invariant.
LEMMA HearingStays == StaysHearing => SetUpInv'
<1>0. SUFFICES ASSUME StaysHearing PROVE SetUpInv'
  OBVIOUS
<1>1. /\ SetUpInv /\ StandsStill /\ device' = device /\ polling' = polling
      /\ outbuf' = NoByte \/ outbuf' = outbuf
  BY <1>0, Zenon DEF StaysHearing
<1>2. pc' = pc /\ config' = config /\ second' = second /\ port2_supported' = port2_supported
  BY <1>1 DEF StandsStill
<1>3. NotYet' /\ Detected' /\ EarlyConfig'
  <2>1. polling' # 0 => init_done
    BY <1>1, Zenon DEF SetUpInv, NotYet
  <2> QED
    BY <1>1, <2>1, Standing, Zenon
<1>4. HardwareTyped'
  BY <1>1, <1>2 DEF SetUpInv, HardwareTyped
<1>5. EarlyTraffic'
  <2>1. pc' >= 19 /\ pc' \in 1 .. 54
    BY <1>0, <1>2 DEF StaysHearing, SetUpInv, HardwareTyped
  <2> QED
    BY <2>1 DEF EarlyTraffic
<1>6. Disabled'
  BY <1>1, <1>2, Zenon DEF SetUpInv, Disabled
<1> QED
  BY <1>3, <1>4, <1>5, <1>6, Zenon DEF SetUpInv

\* Proceeding is to go on.
LEMMA Proceeding ==
  ASSUME HardwareTyped, NEW op, At(op), Proceed, second' = second, polling' = polling
  PROVE  GoesOn
<1>1. polling = 0 /\ pc \in 1 .. 53
  BY Where
<1> QED
  BY <1>1 DEF Proceed, GoesOn

\* ps2_read_device keeps the invariant.
LEMMA AwaitAnswerKeeps == SetUpInv /\ AwaitAnswer => SetUpInv'
<1>0. SUFFICES ASSUME SetUpInv, AwaitAnswer PROVE SetUpInv'
  OBVIOUS
<1>1. At("await") /\ ps2_available(Program[pc].port) /\ Poll /\ Proceed /\ config' = config
  BY <1>0 DEF AwaitAnswer
<1>2. HardwareTyped
  BY <1>0 DEF SetUpInv
<1>3. GoesOn
  BY <1>1, <1>2, Polling, Proceeding
<1>4. pc \in {7, 12, 25, 28, 31, 33, 35, 37, 41, 43, 45, 47, 49, 51}
  BY <1>1, <1>2, Places, Zenon
<1>5. pc \in {7, 12, 14} \/ (pc >= 19 /\ pc # 24)
  BY <1>4
<1>6. Polled
  BY <1>1, Polling, NoByteAvailable, Zenon DEF Polled
<1> QED
  BY <1>0, <1>1, <1>3, <1>5, <1>6, HearingGoesOn, Zenon DEF GoesOnHearing, Polled

\* To read the result of the test of port 2 keeps the invariant.
LEMMA AwaitAnyKeeps == SetUpInv /\ AwaitAny => SetUpInv'
<1>0. SUFFICES ASSUME SetUpInv, AwaitAny PROVE SetUpInv'
  OBVIOUS
<1>1. At("await any") /\ ps2_available(CONTROLLER) /\ Poll /\ Proceed /\ config' = config
  BY <1>0 DEF AwaitAny
<1>2. HardwareTyped
  BY <1>0 DEF SetUpInv
<1>3. GoesOn
  BY <1>1, <1>2, Polling, Proceeding
<1>4. pc \in {7, 12, 14}
  <2>1. pc \in {14}
    BY <1>1, <1>2, Places, Zenon
  <2> QED
    BY <2>1
<1>5. Polled
  BY <1>1, Polling, NoByteAvailable, Zenon DEF Polled
<1> QED
  BY <1>0, <1>1, <1>3, <1>4, <1>5, HearingGoesOn, Zenon DEF GoesOnHearing, Polled

\* To wait for the end of a reset keeps the invariant.
LEMMA AwaitResetKeeps == SetUpInv /\ AwaitReset => SetUpInv'
<1>0. SUFFICES ASSUME SetUpInv, AwaitReset PROVE SetUpInv'
  OBVIOUS
<1>1. /\ At("await reset") /\ ps2_available(Program[pc].port) /\ Poll
      /\ Proceed \/ Stay
      /\ config' = config
  BY <1>0 DEF AwaitReset
<1>2. HardwareTyped
  BY <1>0 DEF SetUpInv
<1>3. pc \in {20, 22}
  BY <1>1, <1>2, Places, Zenon
<1>4. pc >= 19 /\ pc # 24
  BY <1>3
<1>5. Polled /\ polling' = polling
  BY <1>1, Polling, NoByteAvailable, Zenon DEF Polled
<1>6. CASE Proceed
  <2>1. GoesOn
    BY <1>1, <1>2, <1>5, <1>6, Proceeding DEF Polled
  <2> QED
    BY <1>0, <1>1, <2>1, <1>4, <1>5, HearingGoesOn, Zenon DEF GoesOnHearing, Polled
<1>7. CASE Stay
  <2>1. StandsStill
    BY <1>1, <1>5, <1>7 DEF Stay, StandsStill, Polled
  <2> QED
    BY <1>0, <1>1, <2>1, <1>4, <1>5, HearingStays, Zenon DEF StaysHearing, Polled
<1> QED
  BY <1>1, <1>6, <1>7

\* A timeout keeps the invariant; the tests of the controller do not time out.
LEMMA AwaitTimesOutKeeps == SetUpInv /\ AwaitTimesOut => SetUpInv'
<1>0. SUFFICES ASSUME SetUpInv, AwaitTimesOut PROVE SetUpInv'
  OBVIOUS
<1>1. /\ At("await") \/ At("await reset")
      /\ TimedOut
      /\ Proceed \/ (At("await reset") /\ Stay)
      /\ outbuf' = outbuf /\ device' = device /\ config' = config /\ second' = second
      /\ polling' = polling
  BY <1>0 DEF AwaitTimesOut, LookAfterTimeout, hardware, drivers
<1>2. HardwareTyped
  BY <1>0 DEF SetUpInv
<1>4. \/ pc \in {7, 12, 25, 28, 31, 33, 35, 37, 41, 43, 45, 47, 49, 51}
      \/ pc \in {20, 22}
  BY <1>1, <1>2, Places, Zenon
<1>5. pc \notin {7, 12}
  <2>0. SUFFICES ASSUME pc \in {7, 12} PROVE FALSE
    OBVIOUS
  <2>1. Expected(0, TEST_PS2_PASSED)
    <3>1. pc \in {7, 12, 14}
      BY <2>0
    <3> QED
      BY <1>0, <3>1, Zenon DEF SetUpInv, EarlyTraffic
  <2>2. Program[pc].port = 0
    <3>1. KnownPort(pc)
      BY <1>1, <1>2, Where, Zenon
    <3>2. pc \in Neither
      BY <2>0 DEF Neither
    <3> QED
      BY <3>1, <3>2 DEF KnownPort
  <2>3. outbuf = NoByte
    BY <1>1, <2>2 DEF TimedOut, ps2_available, CONTROLLER
  <2>4. device[0].answers = <<TEST_PS2_PASSED>>
    BY <2>1, <2>3 DEF Expected, NoByte
  <2>5. device[0].answers = <<>>
    BY <1>1, <2>2, <2>3 DEF TimedOut, NothingToCome, Clocked, CONTROLLER
  <2>6. <<TEST_PS2_PASSED>> # <<>>
    OBVIOUS
  <2> QED
    BY <2>4, <2>5, <2>6, Zenon
<1>6. pc >= 19 /\ pc # 24
  BY <1>4, <1>5
<1>3. CASE Proceed
  <2>1. GoesOn
    BY <1>1, <1>2, <1>3, Proceeding
  <2> QED
    BY <1>0, <1>1, <2>1, <1>6, HearingGoesOn, Zenon DEF GoesOnHearing
<1>7. CASE Stay
  <2>1. StandsStill
    BY <1>1, <1>7 DEF Stay, StandsStill
  <2>2. pc >= 19
    BY <1>6
  <2> QED
    BY <1>0, <1>1, <2>1, <2>2, HearingStays, Zenon DEF StaysHearing
<1> QED
  BY <1>1, <1>3, <1>7

\* ps2_flush keeps the invariant; the first one finds nothing.
LEMMA FlushKeeps == SetUpInv /\ (ps2_flush \/ FlushByte) => SetUpInv'
<1>0. SUFFICES ASSUME SetUpInv, ps2_flush \/ FlushByte PROVE SetUpInv'
  OBVIOUS
<1>1. At("flush") /\ HardwareTyped /\ device' = device /\ config' = config /\ second' = second
      /\ polling' = polling
  <2>1. Poll => device' = device /\ second' = second /\ polling' = polling
    BY Polling, Zenon
  <2> QED
    BY <1>0, <2>1 DEF ps2_flush, FlushByte, hardware, drivers, SetUpInv
<1>2. pc \in {3, 23, 26, 29, 53}
  BY <1>1, Places, Zenon
<1>3. \/ Proceed /\ outbuf' = outbuf
      \/ /\ ps2_available(0) /\ StandsStill
         /\ outbuf' = NoByte \/ outbuf' = outbuf
  <2>1. CASE ps2_flush
    BY <1>1, <2>1 DEF ps2_flush, hardware, StandsStill
  <2>2. CASE FlushByte
    BY <1>1, <2>2, Polling DEF FlushByte, Stay, StandsStill
  <2> QED
    BY <1>0, <2>1, <2>2
<1>4. CASE pc = 3
  <2>1. Nothing
    BY <1>0, <1>4, Zenon DEF SetUpInv, EarlyTraffic
  <2>2. Proceed /\ outbuf' = outbuf
    BY <1>3, <2>1, NoByteAvailable DEF Nothing
  <2>3. GoesOn
    BY <1>1, <2>2, Proceeding
  <2>4. Advance /\ NotYet' /\ (pc \notin {5, 10} => Detected')
    BY <1>0, <2>3, Going, Zenon
  <2>5. pc' = 4
    BY <1>4, <2>4 DEF Advance, OnlySecond
  <2>6. Nothing'
    BY <1>1, <2>1, <2>2 DEF Nothing
  <2>7. EarlyTraffic'
    BY <2>5, <2>6 DEF EarlyTraffic
  <2>8. Detected' /\ pc \notin {1, 2, 5, 8, 10, 15, 16} /\ pc \notin {18, 24}
    BY <1>4, <2>4
  <2>9. EarlyConfig' /\ Disabled'
    BY <1>0, <1>1, <2>3, <2>4, <2>8, ConfigStays, DisabledStays, Zenon
  <2>10. HardwareTyped'
    <3>1. /\ outbuf' \in Byte \union {NoByte} /\ config' \subseteq 0 .. 7
          /\ device' \in [{0, 1, 2} -> Device]
      BY <1>1, <2>2 DEF HardwareTyped
    <3> QED
      BY <1>0, <2>3, <2>4, <3>1, TypedSteps, Zenon
  <2> QED
    BY <2>4, <2>7, <2>8, <2>9, <2>10, Zenon DEF SetUpInv
<1>5. CASE pc # 3
  <2>1. pc >= 19 /\ pc # 24
    BY <1>2, <1>5
  <2>2. CASE Proceed /\ outbuf' = outbuf
    <3>1. GoesOn
      BY <1>1, <2>2, Proceeding
    <3> QED
      BY <1>0, <1>1, <2>1, <2>2, <3>1, HearingGoesOn, Zenon DEF GoesOnHearing
  <2>3. CASE StandsStill /\ (outbuf' = NoByte \/ outbuf' = outbuf)
    BY <1>0, <1>1, <2>1, <2>3, HearingStays, Zenon DEF StaysHearing
  <2> QED
    BY <1>3, <2>2, <2>3
<1> QED
  BY <1>4, <1>5

\* To set init_done keeps the invariant.
LEMMA SetInitDoneKeeps == SetUpInv /\ SetInitDone => SetUpInv'
<1>0. SUFFICES ASSUME SetUpInv, SetInitDone PROVE SetUpInv'
  OBVIOUS
<1>1. /\ At("init_done") /\ init_done' = TRUE /\ pc' = pc + 1
      /\ outbuf' = outbuf /\ device' = device /\ config' = config /\ second' = second
      /\ port2_supported' = port2_supported /\ polling' = polling
  BY <1>0 DEF SetInitDone, hardware, drivers
<1>2. HardwareTyped
  BY <1>0 DEF SetUpInv
<1>3. pc \in {52}
  BY <1>1, <1>2, Places, Zenon
<1>4. pc = 52 /\ pc' = 53
  BY <1>1, <1>3
<1>5. HardwareTyped'
  BY <1>1, <1>2, <1>4 DEF HardwareTyped
<1>6. NotYet'
  BY <1>1, <1>4 DEF NotYet
<1>7. Detected'
  <2>1. port2_supported <=> Present
    BY <1>0, <1>4 DEF SetUpInv, Detected
  <2>2. Present' <=> Present
    BY <1>1, SameSecond, Zenon
  <2> QED
    BY <1>1, <1>4, <2>1, <2>2 DEF Detected, OnlySecond
<1>8. EarlyConfig' /\ EarlyTraffic' /\ Disabled'
  BY <1>4 DEF EarlyConfig, EarlyTraffic, Disabled
<1> QED
  BY <1>5, <1>6, <1>7, <1>8 DEF SetUpInv

-----------------------------------------------------------------------------
(* The configuration.                                                      *)

\* The configurations that ps2_init_controller goes through.
LEMMA WrittenTwice ==
  second \in Port2 =>
    /\ Written(Written({0, 1, 6}) \union {4}) = Written({0, 1, 4, 6})
    /\ Written(Written({0, 1, 4, 6}) \union {5}) = Written({0, 1, 4, 5, 6})
    /\ Written(Written({0, 1, 4, 5, 6}) \ {0, 1, 6}) = Written({4, 5})
    /\ 5 \in Written({0, 1, 4, 5, 6}) <=> ~ ReadsZero
    /\ Written(Written({4, 5}) \ {5}) = Written({4})
    /\ ~ ReadsZero => (5 \notin Written({4}) <=> Present)
    /\ 5 \in Written({4}) => Written(Written({4})) = Written({4, 5})
    /\ Written(Written({4}) \union {5}) = Written({4, 5})
    /\ Written(Written({4, 5}) \ {4}) = Written({5})
    /\ Written(Written({5}) \ {5}) = Written({})
    /\ ~ Present => Written({5}) = Written({})
<1> DEFINE Steps ==
      /\ Written(Written({0, 1, 6}) \union {4}) = Written({0, 1, 4, 6})
      /\ Written(Written({0, 1, 4, 6}) \union {5}) = Written({0, 1, 4, 5, 6})
      /\ Written(Written({0, 1, 4, 5, 6}) \ {0, 1, 6}) = Written({4, 5})
      /\ 5 \in Written({0, 1, 4, 5, 6}) <=> ~ ReadsZero
      /\ Written(Written({4, 5}) \ {5}) = Written({4})
      /\ ~ ReadsZero => (5 \notin Written({4}) <=> Present)
      /\ 5 \in Written({4}) => Written(Written({4})) = Written({4, 5})
      /\ Written(Written({4}) \union {5}) = Written({4, 5})
      /\ Written(Written({4, 5}) \ {4}) = Written({5})
      /\ Written(Written({5}) \ {5}) = Written({})
      /\ ~ Present => Written({5}) = Written({})
<1>1. ASSUME \A bits : Written(bits) = bits, Present, ~ ReadsZero
      PROVE  Steps
  <2>1. /\ {0, 1, 6} \union {4} = {0, 1, 4, 6} /\ {0, 1, 4, 6} \union {5} = {0, 1, 4, 5, 6}
        /\ {0, 1, 4, 5, 6} \ {0, 1, 6} = {4, 5} /\ {4, 5} \ {5} = {4} /\ {4} \union {5} = {4, 5}
        /\ {4, 5} \ {4} = {5} /\ {5} \ {5} = {} /\ 5 \in {0, 1, 4, 5, 6} /\ 5 \notin {4}
    OBVIOUS
  <2> QED
    BY <1>1, <2>1, Zenon
<1>2. ASSUME \A bits : Written(bits) = bits \ {5}, ~ Present, ReadsZero
      PROVE  Steps
  <2>1. /\ (({0, 1, 6} \ {5}) \union {4}) \ {5} = {0, 1, 4, 6} \ {5}
        /\ (({0, 1, 4, 6} \ {5}) \union {5}) \ {5} = {0, 1, 4, 5, 6} \ {5}
        /\ (({0, 1, 4, 5, 6} \ {5}) \ {0, 1, 6}) \ {5} = {4, 5} \ {5}
        /\ 5 \notin {0, 1, 4, 5, 6} \ {5} /\ 5 \notin {4} \ {5}
    OBVIOUS
  <2>2. /\ (({4, 5} \ {5}) \ {5}) \ {5} = {4} \ {5}
        /\ (({4} \ {5}) \union {5}) \ {5} = {4, 5} \ {5}
        /\ (({4, 5} \ {5}) \ {4}) \ {5} = {5} \ {5}
        /\ (({5} \ {5}) \ {5}) \ {5} = {} \ {5} /\ {5} \ {5} = {} \ {5}
    OBVIOUS
  <2> QED
    BY <1>2, <2>1, <2>2, Zenon
<1>3. ASSUME \A bits : Written(bits) = bits \union {5}, ~ Present, ~ ReadsZero
      PROVE  Steps
  <2>1. /\ (({0, 1, 6} \union {5}) \union {4}) \union {5} = {0, 1, 4, 6} \union {5}
        /\ (({0, 1, 4, 6} \union {5}) \union {5}) \union {5} = {0, 1, 4, 5, 6} \union {5}
        /\ (({0, 1, 4, 5, 6} \union {5}) \ {0, 1, 6}) \union {5} = {4, 5} \union {5}
        /\ 5 \in {0, 1, 4, 5, 6} \union {5} /\ 5 \in {4} \union {5}
        /\ ({4} \union {5}) \union {5} = {4, 5} \union {5}
    OBVIOUS
  <2>2. /\ (({4, 5} \union {5}) \ {5}) \union {5} = {4} \union {5}
        /\ (({4} \union {5}) \union {5}) \union {5} = {4, 5} \union {5}
        /\ (({4, 5} \union {5}) \ {4}) \union {5} = {5} \union {5}
        /\ (({5} \union {5}) \ {5}) \union {5} = {} \union {5} /\ {5} \union {5} = {} \union {5}
    OBVIOUS
  <2> QED
    BY <1>3, <2>1, <2>2, Zenon
<1> HIDE DEF Steps
<1>4. ASSUME second \in Port2
      PROVE  Steps
  <2>1. second = "present" \/ second = "reads 0" \/ second = "reads 1"
    BY <1>4, Ps2Assumption
  <2>2. CASE second = "present"
    <3>1. Present /\ ~ ReadsZero
      BY <2>2 DEF Present, ReadsZero
    <3> QED
      BY <1>1, <2>2, <3>1, WrittenIs, Zenon
  <2>3. CASE second = "reads 0"
    <3>1. ~ Present /\ ReadsZero
      BY <2>3 DEF Present, ReadsZero
    <3> QED
      BY <1>2, <2>3, <3>1, WrittenIs, Zenon
  <2>4. CASE second = "reads 1"
    <3>1. ~ Present /\ ~ ReadsZero
      BY <2>4 DEF Present, ReadsZero
    <3> QED
      BY <1>3, <2>4, <3>1, WrittenIs, Zenon
  <2> QED
    BY <2>1, <2>2, <2>3, <2>4
<1> QED
  BY <1>4, Zenon DEF Steps

\* A port is switched while nothing is on its way.
SwitchedPort(port) ==
  /\ SetUpInv /\ GoesOn /\ outbuf' = outbuf /\ device' = device
  /\ \/ pc = 1 /\ config' = Written(config \union {4})
     \/ pc = 2 /\ config' = Written(config \union {5})
     \/ pc = 8 /\ config' = Written(config \ {5})
     \/ pc = 15 /\ config' = Written(config \ {4})
     \/ pc = 16 /\ config' = Written(config \ {5})

\* The bits of the configuration as numbers.
LEMMA Clocks == INTR(1) = 0 /\ INTR(2) = 1 /\ TRANSL = 6 /\ CLOCK(1) = 4 /\ CLOCK(2) = 5
BY DEF INTR, TRANSL, CLOCK

\* The positions at which ports are switched, and what is written.
LEMMA PortSwitched ==
  ASSUME NEW op \in {"enable port", "disable port"}, SetUpInv, SwitchPort(op)
  PROVE  SwitchedPort(Program[pc].port)
<1> DEFINE clock == {CLOCK(Program[pc].port)}
<1>1. /\ At(op) /\ Proceed /\ outbuf' = outbuf /\ device' = device /\ second' = second
      /\ polling' = polling
      /\ config' = Written(IF op = "enable port" THEN config \ clock ELSE config \union clock)
  BY DEF SwitchPort, drivers
<1>2. HardwareTyped
  BY DEF SetUpInv
<1>3. /\ op = "disable port" => pc \in {1, 2}
      /\ op = "enable port" => pc \in {8, 15, 16}
  BY <1>1, <1>2, Places, Zenon
<1>4. \/ pc \in {1, 2} /\ config' = Written(config \union clock)
      \/ pc \in {8, 15, 16} /\ config' = Written(config \ clock)
  BY <1>1, <1>3
<1>5. GoesOn /\ KnownPort(pc)
  BY <1>1, <1>2, Where, Proceeding
<1>6. /\ pc = 1 => clock = {4}
      /\ pc = 2 => clock = {5}
      /\ pc = 8 => clock = {5}
      /\ pc = 15 => clock = {4}
      /\ pc = 16 => clock = {5}
  <2>1. /\ 1 \in OnlyFirst /\ 15 \in OnlyFirst
        /\ 2 \in OnlySecond /\ 8 \in OnlySecond /\ 16 \in OnlySecond
    BY DEF OnlyFirst, OnlySecond
  <2>2. /\ pc = 1 => Program[pc].port = 1
        /\ pc = 2 => Program[pc].port = 2
        /\ pc = 8 => Program[pc].port = 2
        /\ pc = 15 => Program[pc].port = 1
        /\ pc = 16 => Program[pc].port = 2
    BY <1>5, <2>1, Zenon DEF KnownPort
  <2> QED
    BY <2>2, Clocks, Zenon DEF clock
<1> HIDE DEF clock
<1>7. CASE pc \in {1, 2} /\ config' = Written(config \union clock)
  <2>1. (pc = 1 /\ clock = {4}) \/ (pc = 2 /\ clock = {5})
    <3>1. pc = 1 \/ pc = 2
      BY <1>7
    <3> QED
      BY <1>6, <3>1, Zenon
  <2> QED
    BY <1>1, <1>5, <1>7, <2>1, Zenon DEF SwitchedPort
<1>8. CASE pc \in {8, 15, 16} /\ config' = Written(config \ clock)
  <2>1. (pc = 15 /\ clock = {4}) \/ (pc = 8 /\ clock = {5}) \/ (pc = 16 /\ clock = {5})
    <3>1. pc = 8 \/ pc = 15 \/ pc = 16
      BY <1>8
    <3> QED
      BY <1>6, <3>1, Zenon
  <2> QED
    BY <1>1, <1>5, <1>8, <2>1, Zenon DEF SwitchedPort
<1> QED
  BY <1>4, <1>7, <1>8

\* To switch a port keeps the invariant.
LEMMA SwitchPortKeeps ==
  ASSUME NEW port
  PROVE  SwitchedPort(port) => SetUpInv'
<1>0. SUFFICES ASSUME SwitchedPort(port) PROVE SetUpInv'
  OBVIOUS
<1>1. /\ SetUpInv /\ GoesOn /\ outbuf' = outbuf /\ device' = device
      /\ \/ pc = 1 /\ config' = Written(config \union {4})
         \/ pc = 2 /\ config' = Written(config \union {5})
         \/ pc = 8 /\ config' = Written(config \ {5})
         \/ pc = 15 /\ config' = Written(config \ {4})
         \/ pc = 16 /\ config' = Written(config \ {5})
  BY <1>0, Zenon DEF SwitchedPort
<1>2. Advance /\ NotYet' /\ (pc \notin {5, 10} => Detected')
  BY <1>1, Going, Zenon
<1>3. pc \in {1, 2, 8, 15, 16}
  BY <1>1
<1>4. Detected' /\ Disabled'
  <2>1. pc \notin {5, 10} /\ pc \notin {18, 24}
    BY <1>3
  <2> QED
    BY <1>1, <1>2, <2>1, DisabledStays, Zenon
<1>5. second \in Port2 /\ config \in SUBSET (0 .. 7) /\ HardwareTyped
  BY <1>1 DEF SetUpInv, HardwareTyped
<1>6. HardwareTyped'
  <2>1. config' \subseteq 0 .. 7
    <3>1. /\ config \union {4} \in SUBSET (0 .. 7) /\ config \union {5} \in SUBSET (0 .. 7)
          /\ config \ {4} \in SUBSET (0 .. 7) /\ config \ {5} \in SUBSET (0 .. 7)
      BY <1>5
    <3>2. \A bits \in SUBSET (0 .. 7) : Written(bits) \in SUBSET (0 .. 7)
      BY <1>5, WrittenBits
    <3>3. config' \in SUBSET (0 .. 7)
      BY <1>1, <3>1, <3>2, Zenon
    <3> QED
      BY <3>3
  <2>2. outbuf' \in Byte \union {NoByte} /\ device' \in [{0, 1, 2} -> Device]
    BY <1>1, <1>5 DEF HardwareTyped
  <2> QED
    BY <1>1, <1>2, <2>1, <2>2, TypedSteps, Zenon
<1>7. \A bits : Written(bits)' = Written(bits)
  <2>1. second' = second
    BY <1>1 DEF GoesOn
  <2> QED
    BY <2>1, SameSecond, Zenon
<1>8. /\ pc = 1 => config = Written({0, 1, 6})
      /\ pc = 2 => config = Written({0, 1, 4, 6})
      /\ pc \in {6, 7, 8, 11, 12, 13, 14, 15} => config = Written({4, 5})
      /\ pc = 16 => config = Written({5})
  BY <1>1, Zenon DEF SetUpInv, EarlyConfig
<1>9. EarlyConfig'
  <2>1. CASE pc = 1 /\ config' = Written(config \union {4})
    <3>1. pc' = 2
      BY <1>2, <2>1 DEF Advance
    <3>2. config' = Written({0, 1, 4, 6})
      BY <1>5, <1>8, <2>1, WrittenTwice, Zenon
    <3>3. config' = Written({0, 1, 4, 6})'
      BY <1>7, <3>2, Zenon
    <3> QED
      BY <3>1, <3>3 DEF EarlyConfig
  <2>2. CASE pc = 2 /\ config' = Written(config \union {5})
    <3>1. pc' = 3
      BY <1>2, <2>2 DEF Advance
    <3>2. config' = Written({0, 1, 4, 5, 6})
      BY <1>5, <1>8, <2>2, WrittenTwice, Zenon
    <3>3. config' = Written({0, 1, 4, 5, 6})'
      BY <1>7, <3>2, Zenon
    <3> QED
      BY <3>1, <3>3 DEF EarlyConfig
  <2>3. CASE pc = 8 /\ config' = Written(config \ {5})
    <3>1. pc' = 9
      BY <1>2, <2>3 DEF Advance, OnlySecond
    <3>2. config = Written({4, 5})
      BY <1>8, <2>3
    <3>3. config' = Written({4})'
      BY <1>5, <1>7, <2>3, <3>2, WrittenTwice, Zenon
    <3> QED
      BY <3>1, <3>3 DEF EarlyConfig
  <2>4. CASE pc = 15 /\ config' = Written(config \ {4})
    <3>1. config = Written({4, 5})
      BY <1>8, <2>4
    <3>2. config' = Written({5})
      BY <1>5, <2>4, <3>1, WrittenTwice, Zenon
    <3>3. CASE port2_supported
      <4>1. pc' = 16
        BY <1>2, <2>4, <3>3 DEF Advance
      <4>2. config' = Written({5})'
        BY <1>7, <3>2, Zenon
      <4> QED
        BY <4>1, <4>2 DEF EarlyConfig
    <3>4. CASE ~ port2_supported
      <4>1. pc' = 17
        BY <1>2, <2>4, <3>4 DEF Advance
      <4>2. ~ Present
        BY <1>1, <2>4, <3>4 DEF SetUpInv, Detected
      <4>3. config' = Written({})'
        BY <1>5, <1>7, <3>2, <4>2, WrittenTwice, Zenon
      <4> QED
        BY <4>1, <4>3 DEF EarlyConfig
    <3> QED
      BY <3>3, <3>4
  <2>5. CASE pc = 16 /\ config' = Written(config \ {5})
    <3>1. pc' = 17
      BY <1>2, <2>5 DEF Advance, OnlySecond
    <3>2. config' = Written({})
      BY <1>5, <1>8, <2>5, WrittenTwice, Zenon
    <3>3. config' = Written({})'
      BY <1>7, <3>2, Zenon
    <3> QED
      BY <3>1, <3>3 DEF EarlyConfig
  <2> QED
    BY <1>1, <2>1, <2>2, <2>3, <2>4, <2>5, Zenon
<1>10. EarlyTraffic'
  <2>1. Nothing
    <3>1. pc \in {1, 2, 3, 4, 6, 8, 9, 11, 13, 15, 16, 17} => Nothing
      BY <1>1, Zenon DEF SetUpInv, EarlyTraffic
    <3> QED
      BY <1>3, <3>1
  <2>2. Nothing'
    BY <1>1, <2>1 DEF Nothing
  <2>3. pc' \in {2, 3, 9, 16, 17}
    BY <1>2, <1>3 DEF Advance, OnlySecond
  <2> QED
    BY <2>2, <2>3 DEF EarlyTraffic
<1> QED
  BY <1>2, <1>4, <1>6, <1>9, <1>10, Zenon DEF SetUpInv

\* What ps2_read_config reads.
ReadSteps(written, supported) ==
  /\ SetUpInv /\ Polled /\ config' = Written(written) /\ port2_supported' = supported
  /\ pc' = After(pc, supported) /\ init_done' = init_done
  /\ polling' = polling /\ polling = 0

\* What the three steps that read the configuration have in common.
LEMMA ReadingConfig ==
  ASSUME SetUpInv, NEW op, NEW written, NEW supported, AwaitConfig(op, written, supported)
  PROVE  At(op) /\ HardwareTyped /\ ReadSteps(written, supported)
<1>1. At(op) /\ HardwareTyped
  BY DEF SetUpInv, AwaitConfig
<1>2. polling = 0
  BY <1>1, Where
<1>3. Polled /\ polling' = polling
  <2>1. Poll /\ ps2_available(CONTROLLER)
    BY DEF AwaitConfig
  <2> QED
    BY <2>1, Polling, NoByteAvailable, Zenon DEF Polled
<1> QED
  BY <1>1, <1>2, <1>3 DEF AwaitConfig, ReadSteps

\* The byte that is read is the configuration if only that is on its way.
LEMMA ReadsConfig ==
  ASSUME HardwareTyped, Expected(0, ByteOf(config)), Polled
  PROVE  Read = config /\ device[0].answers = <<>> /\ Nothing'
<1>1. outbuf # NoByte /\ outbuf' = NoByte /\ device' = device
  BY DEF Polled
<1>2. outbuf.data = ByteOf(config) /\ device[0].answers = <<>>
  BY <1>1 DEF Expected
<1>3. Nothing'
  BY <1>1, Heard
<1>4. BitsOf(ByteOf(config)) = config
  BY EveryByte DEF HardwareTyped
<1> QED
  BY <1>2, <1>3, <1>4, Zenon DEF Read

\* The two steps that find out whether there is a port 2.
DetectedFirst ==
  ReadSteps(Read \ {0, 1, 6}, port2_supported /\ 5 \in Read) /\ pc = 5

DetectedAgain ==
  /\ ReadSteps(IF 5 \in Read THEN config ELSE config \union {5}, port2_supported /\ 5 \notin Read)
  /\ pc = 10

\* DetectPort2 is one of these steps.
LEMMA Detecting == SetUpInv /\ DetectPort2 => DetectedFirst \/ DetectedAgain
<1>0. SUFFICES ASSUME SetUpInv, DetectPort2 PROVE DetectedFirst \/ DetectedAgain
  OBVIOUS
<1>1. CASE AwaitConfig("detect", Read \ {INTR(1), INTR(2), TRANSL},
                       port2_supported /\ CLOCK(2) \in Read)
  <2>1. AwaitConfig("detect", Read \ {0, 1, 6}, port2_supported /\ 5 \in Read)
    BY <1>1, Clocks, Zenon
  <2>2. At("detect") /\ HardwareTyped /\ ReadSteps(Read \ {0, 1, 6}, port2_supported /\ 5 \in Read)
    BY <1>0, <2>1, ReadingConfig, Zenon
  <2>3. pc \in {5}
    BY <2>2, Places, Zenon
  <2> QED
    BY <2>2, <2>3, Zenon DEF DetectedFirst
<1>2. CASE AwaitConfig("detect again",
                       IF CLOCK(2) \in Read THEN config ELSE config \union {CLOCK(2)},
                       port2_supported /\ CLOCK(2) \notin Read)
  <2>1. AwaitConfig("detect again", IF 5 \in Read THEN config ELSE config \union {5},
                    port2_supported /\ 5 \notin Read)
    BY <1>2, Clocks, Zenon
  <2>2. /\ At("detect again") /\ HardwareTyped
        /\ ReadSteps(IF 5 \in Read THEN config ELSE config \union {5},
                     port2_supported /\ 5 \notin Read)
    BY <1>0, <2>1, ReadingConfig, Zenon
  <2>3. pc \in {10}
    BY <2>2, Places, Zenon
  <2> QED
    BY <2>2, <2>3, Zenon DEF DetectedAgain
<1> QED
  BY <1>0, <1>1, <1>2, Zenon DEF DetectPort2

\* The first step keeps the invariant: only a bit that reads 0 rules out a port 2.
LEMMA DetectedFirstKeeps == DetectedFirst => SetUpInv'
<1>0. SUFFICES ASSUME DetectedFirst PROVE SetUpInv'
  OBVIOUS
<1>1. /\ SetUpInv /\ Polled /\ config' = Written(Read \ {0, 1, 6})
      /\ port2_supported' = (port2_supported /\ 5 \in Read)
      /\ pc' = After(pc, port2_supported') /\ init_done' = init_done
      /\ polling' = polling /\ polling = 0 /\ pc = 5
  BY <1>0 DEF DetectedFirst, ReadSteps
<1>2. HardwareTyped /\ second \in Port2 /\ second' = second
  BY <1>1 DEF SetUpInv, HardwareTyped, Polled
<1>3. Read = config /\ Nothing'
  <2>1. Expected(0, ByteOf(config))
    BY <1>1 DEF SetUpInv, EarlyTraffic
  <2> QED
    BY <1>1, <1>2, <2>1, ReadsConfig, Zenon
<1>4. config = Written({0, 1, 4, 5, 6}) /\ port2_supported
  BY <1>1 DEF SetUpInv, EarlyConfig, Detected
<1>5. port2_supported' <=> ~ ReadsZero
  <2>1. port2_supported' <=> (port2_supported /\ 5 \in config)
    BY <1>1, <1>3, Zenon
  <2> QED
    BY <1>2, <1>4, <2>1, WrittenTwice, Zenon
<1>6. config' = Written({4, 5})
  BY <1>1, <1>2, <1>3, <1>4, WrittenTwice, Zenon
<1>7. (ReadsZero' <=> ReadsZero) /\ \A bits : Written(bits)' = Written(bits)
  BY <1>2, SameSecond, Zenon
<1>8. port2_supported' \in BOOLEAN
  BY <1>1
<1>9. pc' = 6
  <2>1. 5 \in 1 .. 53 /\ 5 + 1 \notin OnlySecond /\ 5 + 1 = 6
    BY DEF OnlySecond
  <2>2. After(5, port2_supported') = 5 + 1
    BY <1>8, <2>1, AfterIs, Zenon
  <2> QED
    BY <1>1, <2>1, <2>2, Zenon
<1>10. HardwareTyped'
  <2>1. config' \subseteq 0 .. 7
    BY <1>2, <1>6, WrittenBits
  <2> QED
    BY <1>1, <1>2, <1>8, <1>9, <2>1 DEF HardwareTyped, Polled
<1>11. NotYet'
  <2>1. ~ init_done
    BY <1>1 DEF SetUpInv, NotYet
  <2> QED
    BY <1>1, <2>1 DEF NotYet
<1>12. Detected'
  BY <1>5, <1>7, <1>9 DEF Detected, OnlySecond
<1>13. EarlyConfig'
  <2>1. config' = Written({4, 5})'
    BY <1>6, <1>7, Zenon
  <2> QED
    BY <1>9, <2>1 DEF EarlyConfig
<1>14. EarlyTraffic'
  BY <1>3, <1>9 DEF EarlyTraffic
<1>15. Disabled'
  <2>1. device[2].queue = <<>> /\ ~ device[2].scanning /\ device' = device
    BY <1>1 DEF SetUpInv, Disabled, Polled
  <2> QED
    BY <1>9, <2>1 DEF Disabled
<1> QED
  BY <1>10, <1>11, <1>12, <1>13, <1>14, <1>15 DEF SetUpInv

\* The second step keeps it: if the bit can be cleared, too, there is a port 2.
LEMMA DetectedAgainKeeps == DetectedAgain => SetUpInv'
<1>0. SUFFICES ASSUME DetectedAgain PROVE SetUpInv'
  OBVIOUS
<1>1. /\ SetUpInv /\ Polled
      /\ config' = Written(IF 5 \in Read THEN config ELSE config \union {5})
      /\ port2_supported' = (port2_supported /\ 5 \notin Read)
      /\ pc' = After(pc, port2_supported') /\ init_done' = init_done
      /\ polling' = polling /\ polling = 0 /\ pc = 10
  BY <1>0 DEF DetectedAgain, ReadSteps
<1>2. HardwareTyped /\ second \in Port2 /\ second' = second
  BY <1>1 DEF SetUpInv, HardwareTyped, Polled
<1>3. Read = config /\ Nothing'
  <2>1. Expected(0, ByteOf(config))
    BY <1>1 DEF SetUpInv, EarlyTraffic
  <2> QED
    BY <1>1, <1>2, <2>1, ReadsConfig, Zenon
<1>4. config = Written({4}) /\ port2_supported /\ ~ ReadsZero
  BY <1>1 DEF SetUpInv, EarlyConfig, Detected, OnlySecond
<1>5. port2_supported' <=> Present
  <2>1. port2_supported' <=> (port2_supported /\ 5 \notin config)
    BY <1>1, <1>3, Zenon
  <2> QED
    BY <1>2, <1>4, <2>1, WrittenTwice, Zenon
<1>6. config' = Written({4, 5})
  <2>1. CASE 5 \in config
    BY <1>1, <1>2, <1>3, <1>4, <2>1, WrittenTwice, Zenon
  <2>2. CASE 5 \notin config
    BY <1>1, <1>2, <1>3, <1>4, <2>2, WrittenTwice, Zenon
  <2> QED
    BY <2>1, <2>2
<1>7. (Present' <=> Present) /\ \A bits : Written(bits)' = Written(bits)
  BY <1>2, SameSecond, Zenon
<1>8. port2_supported' \in BOOLEAN
  BY <1>1
<1>9. pc' = 11
  <2>1. 10 \in 1 .. 53 /\ 10 + 1 \notin OnlySecond /\ 10 + 1 = 11
    BY DEF OnlySecond
  <2>2. After(10, port2_supported') = 10 + 1
    BY <1>8, <2>1, AfterIs, Zenon
  <2> QED
    BY <1>1, <2>1, <2>2, Zenon
<1>10. HardwareTyped'
  <2>1. config' \subseteq 0 .. 7
    BY <1>2, <1>6, WrittenBits
  <2> QED
    BY <1>1, <1>2, <1>8, <1>9, <2>1 DEF HardwareTyped, Polled
<1>11. NotYet'
  <2>1. ~ init_done
    BY <1>1 DEF SetUpInv, NotYet
  <2> QED
    BY <1>1, <2>1 DEF NotYet
<1>12. Detected'
  BY <1>5, <1>7, <1>9 DEF Detected, OnlySecond
<1>13. EarlyConfig'
  <2>1. config' = Written({4, 5})'
    BY <1>6, <1>7, Zenon
  <2> QED
    BY <1>9, <2>1 DEF EarlyConfig
<1>14. EarlyTraffic'
  BY <1>3, <1>9 DEF EarlyTraffic
<1>15. Disabled'
  <2>1. device[2].queue = <<>> /\ ~ device[2].scanning /\ device' = device
    BY <1>1 DEF SetUpInv, Disabled, Polled
  <2> QED
    BY <1>9, <2>1 DEF Disabled
<1> QED
  BY <1>10, <1>11, <1>12, <1>13, <1>14, <1>15 DEF SetUpInv

\* The configuration is read and written back when port 2 is known.
WritesBack(written) ==
  SetUpInv /\ GoesOn /\ Polled /\ config' = Written(written) /\ written \in SUBSET (0 .. 7)

\* The end of ps2_init_controller writes back what it read, with interrupts turned on.
LEMMA TurningOn ==
  SetUpInv /\ TurnOn =>
    pc = 18 /\ WritesBack(Read \union {0} \union (IF port2_supported THEN {1} ELSE {}))
<1> DEFINE written == Read \union {0} \union (IF port2_supported THEN {1} ELSE {})
<1>0. SUFFICES ASSUME SetUpInv, TurnOn PROVE pc = 18 /\ WritesBack(written)
  OBVIOUS
<1>1. AwaitConfig("turn on", written, port2_supported)
  BY <1>0, Clocks, Zenon DEF TurnOn
<1>2. written \in SUBSET (0 .. 7)
  BY BitsAreBits DEF Read
<1> HIDE DEF written
<1>3. At("turn on") /\ HardwareTyped /\ ReadSteps(written, port2_supported)
  BY <1>0, <1>1, ReadingConfig, Zenon
<1>4. pc \in {18}
  BY <1>3, Places, Zenon
<1>5. pc = 18 /\ pc \in 1 .. 53
  BY <1>4
<1> QED
  BY <1>0, <1>2, <1>3, <1>5, Zenon DEF ReadSteps, WritesBack, GoesOn, Polled

\* The end of keyboard_scancode_set writes it back with translation turned off.
LEMMA TurningTranslationOff ==
  SetUpInv /\ TurnTranslationOff => pc = 39 /\ WritesBack(Read \ {6})
<1> DEFINE written == Read \ {6}
<1>0. SUFFICES ASSUME SetUpInv, TurnTranslationOff PROVE pc = 39 /\ WritesBack(written)
  OBVIOUS
<1>1. AwaitConfig("translate", written, port2_supported)
  BY <1>0, Clocks, Zenon DEF TurnTranslationOff
<1>2. written \in SUBSET (0 .. 7)
  BY BitsAreBits DEF Read
<1> HIDE DEF written
<1>3. At("translate") /\ HardwareTyped /\ ReadSteps(written, port2_supported)
  BY <1>0, <1>1, ReadingConfig, Zenon
<1>4. pc \in {39}
  BY <1>3, Places, Zenon
<1>5. pc = 39 /\ pc \in 1 .. 53
  BY <1>4
<1> QED
  BY <1>0, <1>2, <1>3, <1>5, Zenon DEF ReadSteps, WritesBack, GoesOn, Polled

\* To write a configuration back keeps the invariant.
LEMMA WritingBackKeeps ==
  ASSUME NEW written
  PROVE  WritesBack(written) /\ pc \in {18, 39} => SetUpInv'
<1>0. SUFFICES ASSUME WritesBack(written), pc \in {18, 39} PROVE SetUpInv'
  OBVIOUS
<1>1. /\ SetUpInv /\ GoesOn /\ Polled /\ config' = Written(written) /\ written \in SUBSET (0 .. 7)
      /\ HardwareTyped /\ second \in Port2
  BY <1>0 DEF WritesBack, SetUpInv, HardwareTyped
<1>2. Advance /\ NotYet' /\ (pc \notin {5, 10} => Detected')
  BY <1>1, Going, Zenon
<1>3. LateStep
  <2>1. config' \subseteq 0 .. 7
    BY <1>1, WrittenBits
  <2> QED
    BY <1>0, <1>1, <2>1 DEF LateStep, Polled, HardwareTyped
<1>4. Disabled'
  <2>1. CASE pc = 39
    <3>1. pc \notin {18, 24} /\ device' = device
      BY <1>1, <2>1 DEF Polled
    <3> QED
      BY <1>1, <1>2, <3>1, DisabledStays, Zenon
  <2>2. CASE pc = 18
    <3>1. pc' = 19
      BY <1>2, <2>2 DEF Advance, OnlySecond
    <3>2. device[2].queue = <<>> /\ ~ device[2].scanning
      BY <1>1, <2>2 DEF SetUpInv, Disabled
    <3>3. Expected(0, ByteOf(config))
      BY <1>1, <2>2 DEF SetUpInv, EarlyTraffic
    <3>4. device[0].answers = <<>> /\ device[0].queue = <<>>
      BY <1>1, <3>3, ReadsConfig DEF Expected
    <3>5. device' = device
      BY <1>1 DEF Polled
    <3> QED
      BY <3>1, <3>2, <3>4, <3>5 DEF Disabled
  <2> QED
    BY <1>0, <2>1, <2>2
<1> QED
  BY <1>3, <1>4, LateKeeps, Zenon

-----------------------------------------------------------------------------
(* Everybody else.                                                         *)

\* The user, devices, controller and handlers do not touch what the task has set up.
TrafficStep ==
  /\ SetUpInv /\ StandsStill /\ (polling' # 0 => init_done)
  /\ outbuf' \in Byte \union {NoByte} /\ device' \in [{0, 1, 2} -> Device]

\* Of the invariant, only what is on its way needs a proof for such a step.
LEMMA TrafficKeeps == TrafficStep /\ EarlyTraffic' /\ Disabled' => SetUpInv'
<1>0. SUFFICES ASSUME TrafficStep, EarlyTraffic', Disabled' PROVE SetUpInv'
  OBVIOUS
<1>1. NotYet' /\ Detected' /\ EarlyConfig'
  BY <1>0, Standing, Zenon DEF TrafficStep
<1>2. HardwareTyped'
  BY <1>0 DEF TrafficStep, StandsStill, SetUpInv, HardwareTyped
<1> QED
  BY <1>0, <1>1, <1>2, Zenon DEF SetUpInv

\* Somebody types or moves the mouse.
Sends(p) ==
  /\ SetUpInv /\ StandsStill /\ polling' = polling /\ outbuf' = outbuf
  /\ device' \in [{0, 1, 2} -> Device]
  /\ \A q \in {0, 1, 2} : q # p => device'[q] = device[q]
  /\ device'[p].answers = device[p].answers
  /\ \/ p = 1 /\ pc >= 19 /\ pc \notin 25 .. 48
     \/ p = 2 /\ pc >= 51

\* A device that has something to send keeps the invariant.
LEMMA SendingKeeps ==
  ASSUME NEW p \in {1, 2}
  PROVE  Sends(p) => SetUpInv'
<1>0. SUFFICES ASSUME Sends(p) PROVE SetUpInv'
  OBVIOUS
<1>1. /\ SetUpInv /\ StandsStill /\ polling' = polling /\ outbuf' = outbuf /\ HardwareTyped
      /\ device' \in [{0, 1, 2} -> Device] /\ pc' = pc
      /\ \A q \in {0, 1, 2} : q # p => device'[q] = device[q]
      /\ \/ p = 1 /\ pc >= 19 /\ pc \notin 25 .. 48
         \/ p = 2 /\ pc >= 51
  BY <1>0 DEF Sends, StandsStill, SetUpInv
<1>2. TrafficStep
  BY <1>1 DEF TrafficStep, HardwareTyped, SetUpInv, NotYet
<1>3. pc' >= 19 /\ pc' \in 1 .. 54
  BY <1>1 DEF HardwareTyped
<1>4. EarlyTraffic'
  BY <1>3 DEF EarlyTraffic
<1>5. Disabled'
  <2>1. CASE p = 2 /\ pc >= 51
    BY <1>1, <1>3, <2>1 DEF Disabled
  <2>2. CASE p = 1 /\ pc \notin 25 .. 48
    <3>1. device'[0] = device[0] /\ device'[2] = device[2]
      BY <1>1, <2>2
    <3>2. /\ pc <= 50 => device[2].queue = <<>> /\ ~ device[2].scanning
          /\ pc \in 19 .. 38 => device[0].answers = <<>> /\ device[0].queue = <<>>
      BY <1>1, Zenon DEF SetUpInv, Disabled
    <3> QED
      BY <1>1, <2>2, <3>1, <3>2, Zenon DEF Disabled
  <2> QED
    BY <1>1, <2>1, <2>2
<1> QED
  BY <1>2, <1>4, <1>5, TrafficKeeps, Zenon

\* What is typed waits in the queue of the device.
LEMMA Sending ==
  ASSUME HardwareTyped, NEW p \in {1, 2}, NEW bytes \in Seq(0 .. 255), Send(p, bytes)
  PROVE  /\ device' \in [{0, 1, 2} -> Device]
         /\ \A q \in {0, 1, 2} : q # p => device'[q] = device[q]
         /\ device'[p].answers = device[p].answers
<1>0. device[p] \in Device
  BY DEF HardwareTyped
<1>1. device[p].queue \o bytes \in Seq(0 .. 255)
  <2>1. device[p].queue \in Seq(0 .. 255)
    BY <1>0 DEF Device
  <2> QED
    BY <2>1, Joined, Zenon
<1> DEFINE d == [device[p] EXCEPT !.queue = @ \o bytes]
<1>2. d \in Device /\ d.answers = device[p].answers
  BY <1>0, <1>1 DEF Device
<1>3. device' = [device EXCEPT ![p] = d]
  BY DEF Send
<1> HIDE DEF d
<1> QED
  BY <1>2, <1>3 DEF HardwareTyped

\* ps2_init_controller is the first 18 operations.
LEMMA ControllerLength == Len(SetUpController) = 18
BY ControllerCode, Zenon

\* Nobody types before ps2_init_controller is over or while the keyboard is disabled.
LEMMA TypingSends ==
  ASSUME ~ EarlyKeys, SetUpInv, NEW i \in DOMAIN KeyTable,
         Press(KeyTable[i]) \/ Release(KeyTable[i])
  PROVE  Sends(1)
<1>1. KeyTable[i].make \in Seq(0 .. 255) /\ KeyTable[i].break \in Seq(0 .. 255)
  BY KeyTableAssumption DEF Bytes
<1>2. /\ CanType /\ StandsStill /\ polling' = polling /\ outbuf' = outbuf
      /\ Send(1, KeyTable[i].make) \/ Send(1, KeyTable[i].break)
  BY DEF Press, Release, StandsStill, task, drivers
<1>3. /\ device' \in [{0, 1, 2} -> Device]
      /\ \A q \in {0, 1, 2} : q # 1 => device'[q] = device[q]
      /\ device'[1].answers = device[1].answers
  <2>1. HardwareTyped
    BY DEF SetUpInv
  <2> QED
    BY <1>1, <1>2, <2>1, Sending
<1>4. pc > 18 /\ device[1].scanning
  BY <1>2, ControllerLength DEF CanType, ControllerDone
<1>5. pc >= 19 /\ pc \notin 25 .. 48
  <2>1. pc \in 25 .. 48 => ~ device[1].scanning
    BY Zenon DEF SetUpInv, Disabled
  <2>2. pc \in 1 .. 54
    BY Zenon DEF SetUpInv, HardwareTyped
  <2>3. pc >= 19
    BY <1>4, <2>2
  <2> QED
    BY <1>4, <2>1, <2>3, Zenon
<1> QED
  BY <1>2, <1>3, <1>5, Zenon DEF Sends

\* The mouse is not heard of before it is enabled.
LEMMA MovingSends ==
  ASSUME SetUpInv, NEW x \in Movements, NEW y \in Movements, Move(x, y)
  PROVE  Sends(2)
<1>1. <<FLAG_ALWAYS_ONE, x, y>> \in Seq(0 .. 255)
  <2>1. x \in 0 .. 255 /\ y \in 0 .. 255 /\ FLAG_ALWAYS_ONE \in 0 .. 255
    <3>1. x \in 0 .. 255 /\ y \in 0 .. 255
      BY Ps2Assumption, Zenon
    <3>2. FLAG_ALWAYS_ONE \in 0 .. 255
      BY DEF FLAG_ALWAYS_ONE
    <3> QED
      BY <3>1, <3>2
  <2> QED
    BY <2>1, Tuple3, Zenon
<1>2. /\ device[2].scanning /\ StandsStill /\ polling' = polling /\ outbuf' = outbuf
      /\ Send(2, <<FLAG_ALWAYS_ONE, x, y>>)
  BY DEF Move, StandsStill, task, drivers
<1>3. /\ device' \in [{0, 1, 2} -> Device]
      /\ \A q \in {0, 1, 2} : q # 2 => device'[q] = device[q]
      /\ device'[2].answers = device[2].answers
  <2>1. HardwareTyped
    BY DEF SetUpInv
  <2> QED
    BY <1>1, <1>2, <2>1, Sending
<1>4. pc >= 51
  <2>1. pc <= 50 => ~ device[2].scanning
    BY Zenon DEF SetUpInv, Disabled
  <2>2. pc \in 1 .. 54 /\ ~ (pc <= 50)
    BY <1>2, <2>1, Zenon DEF SetUpInv, HardwareTyped
  <2> QED
    BY <2>2
<1> QED
  BY <1>2, <1>3, <1>4, Zenon DEF Sends

\* Users keep the invariant.
LEMMA UserKeeps == ~ EarlyKeys /\ SetUpInv /\ User => SetUpInv'
<1> SUFFICES ASSUME ~ EarlyKeys, SetUpInv, User PROVE SetUpInv'
  OBVIOUS
<1>1. \/ \E i \in DOMAIN KeyTable : Press(KeyTable[i]) \/ Release(KeyTable[i])
      \/ \E x, y \in Movements : Move(x, y)
  BY DEF User
<1>2. Sends(1) \/ Sends(2)
  BY <1>1, TypingSends, MovingSends
<1> QED
  BY <1>2, SendingKeeps

-----------------------------------------------------------------------------
\* A device or the controller puts a byte of an answer into the output buffer.
LEMMA Answering ==
  ASSUME HardwareTyped, NEW p \in {0, 1, 2}, Answer(p)
  PROVE  /\ outbuf = NoByte /\ device[p].answers # <<>> /\ Head(device[p].answers) \in 0 .. 255
         /\ outbuf' = [port |-> p, data |-> Head(device[p].answers), input |-> FALSE]
         /\ device' \in [{0, 1, 2} -> Device]
         /\ \A q \in {0, 1, 2} : q # p => device'[q] = device[q]
         /\ device'[p] = [device[p] EXCEPT !.answers = Tail(@)]
<1>1. /\ outbuf = NoByte /\ device[p].answers # <<>>
      /\ outbuf' = [port |-> p, data |-> Head(device[p].answers), input |-> FALSE]
      /\ device' = [device EXCEPT ![p].answers = Tail(@)]
  BY DEF Answer, Fill
<1>0. device[p] \in Device
  BY DEF HardwareTyped
<1>2. device[p].answers \in Seq(0 .. 255)
  BY <1>0 DEF Device
<1>3. Head(device[p].answers) \in 0 .. 255 /\ Tail(device[p].answers) \in Seq(0 .. 255)
  BY <1>1, <1>2, HeadTailProperties, Zenon
<1> DEFINE d == [device[p] EXCEPT !.answers = Tail(@)]
<1>4. d \in Device
  BY <1>0, <1>3 DEF Device
<1>5. device' = [device EXCEPT ![p] = d]
  BY <1>1
<1> HIDE DEF d
<1>6. /\ device' \in [{0, 1, 2} -> Device]
      /\ \A q \in {0, 1, 2} : q # p => device'[q] = device[q]
      /\ device'[p] = d
  BY <1>4, <1>5 DEF HardwareTyped
<1> QED
  BY <1>1, <1>3, <1>6 DEF d

\* The same for a byte of a scancode or a packet.
LEMMA Inputting ==
  ASSUME HardwareTyped, NEW p \in {0, 1, 2}, Input(p)
  PROVE  /\ outbuf = NoByte /\ device[p].queue # <<>> /\ Head(device[p].queue) \in 0 .. 255
         /\ outbuf' = [port |-> p, data |-> Head(device[p].queue), input |-> TRUE]
         /\ device' \in [{0, 1, 2} -> Device]
         /\ \A q \in {0, 1, 2} : q # p => device'[q] = device[q]
         /\ device'[p] = [device[p] EXCEPT !.queue = Tail(@)]
<1>1. /\ outbuf = NoByte /\ device[p].queue # <<>>
      /\ outbuf' = [port |-> p, data |-> Head(device[p].queue), input |-> TRUE]
      /\ device' = [device EXCEPT ![p].queue = Tail(@)]
  BY DEF Input, Fill
<1>0. device[p] \in Device
  BY DEF HardwareTyped
<1>2. device[p].queue \in Seq(0 .. 255)
  BY <1>0 DEF Device
<1>3. Head(device[p].queue) \in 0 .. 255 /\ Tail(device[p].queue) \in Seq(0 .. 255)
  BY <1>1, <1>2, HeadTailProperties, Zenon
<1> DEFINE d == [device[p] EXCEPT !.queue = Tail(@)]
<1>4. d \in Device
  BY <1>0, <1>3 DEF Device
<1>5. device' = [device EXCEPT ![p] = d]
  BY <1>1
<1> HIDE DEF d
<1>6. /\ device' \in [{0, 1, 2} -> Device]
      /\ \A q \in {0, 1, 2} : q # p => device'[q] = device[q]
      /\ device'[p] = d
  BY <1>4, <1>5 DEF HardwareTyped
<1> QED
  BY <1>1, <1>3, <1>6 DEF d

\* What a controller step leaves as it is.
Transfers(p) ==
  /\ TrafficStep /\ pc' = pc /\ config' = config /\ outbuf = NoByte
  /\ \A q \in {0, 1, 2} : q # p => device'[q] = device[q]
  /\ device'[p].scanning = device[p].scanning

\* Both are such steps.
LEMMA ControllerStep ==
  ASSUME SetUpInv, NEW p \in {0, 1, 2}, Answer(p) \/ Input(p)
  PROVE  Transfers(p)
<1>1. HardwareTyped
  BY DEF SetUpInv
<1>2. StandsStill /\ polling' = polling /\ pc' = pc /\ config' = config
  BY DEF Answer, Input, Fill, task, drivers, StandsStill
<1>3. polling' # 0 => init_done
  BY <1>2, Zenon DEF SetUpInv, NotYet
<1>4. device[p] \in Device
  BY <1>1 DEF HardwareTyped
<1>5. CASE Answer(p)
  <2>1. /\ outbuf = NoByte /\ Head(device[p].answers) \in 0 .. 255
        /\ outbuf' = [port |-> p, data |-> Head(device[p].answers), input |-> FALSE]
        /\ device' \in [{0, 1, 2} -> Device]
        /\ \A q \in {0, 1, 2} : q # p => device'[q] = device[q]
        /\ device'[p] = [device[p] EXCEPT !.answers = Tail(@)]
    BY <1>1, <1>5, Answering
  <2>2. outbuf' \in Byte
    BY <2>1 DEF Byte, Ports, CONTROLLER
  <2>3. device'[p].scanning = device[p].scanning
    BY <1>4, <2>1 DEF Device
  <2> QED
    BY <1>2, <1>3, <2>1, <2>2, <2>3 DEF Transfers, TrafficStep
<1>6. CASE Input(p)
  <2>1. /\ outbuf = NoByte /\ Head(device[p].queue) \in 0 .. 255
        /\ outbuf' = [port |-> p, data |-> Head(device[p].queue), input |-> TRUE]
        /\ device' \in [{0, 1, 2} -> Device]
        /\ \A q \in {0, 1, 2} : q # p => device'[q] = device[q]
        /\ device'[p] = [device[p] EXCEPT !.queue = Tail(@)]
    BY <1>1, <1>6, Inputting
  <2>2. outbuf' \in Byte
    BY <2>1 DEF Byte, Ports, CONTROLLER
  <2>3. device'[p].scanning = device[p].scanning
    BY <1>4, <2>1 DEF Device
  <2> QED
    BY <1>2, <1>3, <2>1, <2>2, <2>3 DEF Transfers, TrafficStep
<1> QED
  BY <1>5, <1>6

\* If nothing is on its way nothing comes.
LEMMA NothingComes ==
  ASSUME Nothing, NEW p \in {0, 1, 2}, Answer(p) \/ Input(p)
  PROVE  FALSE
BY DEF Nothing, Answer, Input

\* If an answer is expected it comes, and is all there is.
LEMMA AnswerComes ==
  ASSUME HardwareTyped, NEW e \in {0, 1, 2}, NEW data, Expected(e, data),
         NEW p \in {0, 1, 2}, Answer(p) \/ Input(p)
  PROVE  /\ p = e /\ outbuf' = [port |-> e, data |-> data, input |-> FALSE]
         /\ device'[e].answers = <<>> /\ device'[e].queue = <<>>
         /\ Expected(e, data)'
<1>1. Answer(p)
  BY DEF Expected, Input
<1>2. /\ outbuf = NoByte /\ device[p].answers # <<>>
      /\ outbuf' = [port |-> p, data |-> Head(device[p].answers), input |-> FALSE]
      /\ \A q \in {0, 1, 2} : q # p => device'[q] = device[q]
      /\ device'[p] = [device[p] EXCEPT !.answers = Tail(@)]
      /\ device[p] \in Device
  BY <1>1, Answering, ZenonT(40) DEF HardwareTyped
<1>3. p = e
  BY <1>2 DEF Expected
<1>4. device[e].answers = <<data>> /\ device[e].queue = <<>>
  BY <1>2, <1>3 DEF Expected, NoByte
<1>5. Head(<<data>>) = data /\ Tail(<<data>>) = <<>>
  OBVIOUS
<1>6. /\ outbuf' = [port |-> e, data |-> data, input |-> FALSE]
      /\ device'[e].answers = <<>> /\ device'[e].queue = <<>>
  BY <1>2, <1>3, <1>4, <1>5 DEF Device
<1>7. Expected(e, data)'
  BY <1>2, <1>3, <1>6 DEF Expected
<1> QED
  BY <1>3, <1>6, <1>7

\* Devices and controller keep the invariant.
LEMMA ControllerKeeps == SetUpInv /\ Controller => SetUpInv'
<1>0. SUFFICES ASSUME SetUpInv, NEW p \in {0, 1, 2}, Answer(p) \/ Input(p) PROVE SetUpInv'
  BY DEF Controller, Ports, CONTROLLER
<1>1. Transfers(p) /\ HardwareTyped
  BY <1>0, ControllerStep DEF SetUpInv
<1>2. /\ TrafficStep /\ pc' = pc /\ config' = config
      /\ \A q \in {0, 1, 2} : q # p => device'[q] = device[q]
      /\ device'[p].scanning = device[p].scanning
  BY <1>1 DEF Transfers
<1>3. pc \notin {1, 2, 3, 4, 6, 8, 9, 11, 13, 15, 16, 17}
  <2>1. ~ Nothing
    BY <1>0, NothingComes, Zenon
  <2> QED
    BY <1>0, <2>1, Zenon DEF SetUpInv, EarlyTraffic
<1>4. \A data : Expected(0, data) => Expected(0, data)'
  <2> SUFFICES ASSUME NEW data, Expected(0, data) PROVE Expected(0, data)'
    OBVIOUS
  <2>1. 0 \in {0, 1, 2}
    OBVIOUS
  <2> QED
    BY <1>0, <1>1, <2>1, AnswerComes, Zenon
<1>5. EarlyTraffic'
  <2>1. pc \in {5, 10, 18} => Expected(0, ByteOf(config))'
    <3>1. pc \in {5, 10, 18} => Expected(0, ByteOf(config))
      BY <1>0, Zenon DEF SetUpInv, EarlyTraffic
    <3>2. ASSUME Expected(0, ByteOf(config)) PROVE Expected(0, ByteOf(config))'
      <4> DEFINE data == ByteOf(config)
      <4>1. 0 \in {0, 1, 2} /\ Expected(0, data)
        BY <3>2
      <4>2. /\ outbuf' = [port |-> 0, data |-> data, input |-> FALSE]
            /\ device'[0].answers = <<>> /\ device'[0].queue = <<>> /\ p = 0
        BY <1>0, <1>1, <4>1, AnswerComes, Zenon
      <4>3. \A q \in {1, 2} : device'[q].queue = <<>> /\ device'[q].answers = <<>>
        BY <1>2, <4>1, <4>2 DEF Expected
      <4>4. data = ByteOf(config')
        BY <1>2
      <4> HIDE DEF data
      <4>5. /\ outbuf' = [port |-> 0, data |-> ByteOf(config'), input |-> FALSE]
            /\ device'[0].answers = <<>>
            /\ \A q \in {0, 1, 2} : device'[q].queue = <<>> /\ (q # 0 => device'[q].answers = <<>>)
        BY <4>2, <4>3, <4>4
      <4> QED
        BY <4>5, Zenon DEF Expected
    <3> QED
      BY <3>1, <3>2
  <2>2. pc \in {7, 12, 14} => Expected(0, TEST_PS2_PASSED)'
    <3>1. pc \in {7, 12, 14} => Expected(0, TEST_PS2_PASSED)
      BY <1>0, Zenon DEF SetUpInv, EarlyTraffic
    <3> QED
      BY <1>4, <3>1
  <2> QED
    BY <1>2, <1>3, <2>1, <2>2, Zenon DEF EarlyTraffic
<1>6. Disabled'
  <2>1. \A q \in {0, 1, 2} : /\ device'[q].scanning = device[q].scanning
                             /\ device[q].queue = <<>> => device'[q].queue = <<>>
    <3>1. device[p].queue = <<>> => device'[p].queue = <<>>
      <4>1. CASE Answer(p)
        <5>1. device'[p] = [device[p] EXCEPT !.answers = Tail(@)] /\ device[p] \in Device
          BY <1>0, <1>1, <4>1, Answering DEF HardwareTyped
        <5> QED
          BY <5>1 DEF Device
      <4>2. CASE Input(p)
        BY <4>2 DEF Input
      <4> QED
        BY <1>0, <4>1, <4>2
    <3> QED
      BY <1>2, <3>1
  <2>2. device[0].answers = <<>> /\ device[0].queue = <<>> =>
          device'[0].answers = <<>> /\ device'[0].queue = <<>>
    <3>1. device[0].answers = <<>> /\ device[0].queue = <<>> => p # 0
      BY <1>0 DEF Answer, Input
    <3> QED
      BY <1>2, <3>1
  <2>3. /\ pc <= 50 => device[2].queue = <<>> /\ ~ device[2].scanning
        /\ pc \in 25 .. 48 => device[1].queue = <<>> /\ ~ device[1].scanning
        /\ pc \in 19 .. 38 => device[0].answers = <<>> /\ device[0].queue = <<>>
    BY <1>0, Zenon DEF SetUpInv, Disabled
  <2>4. 1 \in {0, 1, 2} /\ 2 \in {0, 1, 2}
    OBVIOUS
  <2> QED
    BY <1>2, <2>1, <2>2, <2>3, <2>4, Zenon DEF Disabled
<1> QED
  BY <1>2, <1>5, <1>6, TrafficKeeps, Zenon

-----------------------------------------------------------------------------
\* Handlers do no more than to acknowledge interrupts before ps2_init is nearly over.
LEMMA HandlerSteps ==
  SetUpInv /\ Handler => /\ StandsStill
                         /\ \/ outbuf' = outbuf /\ device' = device /\ polling' = polling
                            \/ pc >= 53 /\ init_done
                         /\ TrafficStep
<1>0. SUFFICES ASSUME SetUpInv, Handler
               PROVE  /\ StandsStill
                      /\ \/ outbuf' = outbuf /\ device' = device /\ polling' = polling
                         \/ pc >= 53 /\ init_done
                      /\ TrafficStep
  BY Zenon
<1>1. HardwareTyped /\ (init_done => pc >= 53) /\ (polling # 0 => init_done)
  BY <1>0, Zenon DEF SetUpInv, NotYet
<1>2. ASSUME NEW p \in {1, 2}, ps2_handle_interrupt(p)
      PROVE  /\ StandsStill
             /\ \/ outbuf' = outbuf /\ device' = device /\ polling' = polling
                \/ init_done
             /\ outbuf' \in Byte \union {NoByte} /\ device' \in [{0, 1, 2} -> Device]
  <2>1. StandsStill
    BY <1>2 DEF ps2_handle_interrupt, Handle, task, StandsStill
  <2>2. \/ outbuf' = outbuf /\ device' = device /\ polling' = polling
        \/ init_done /\ inb /\ device' = device
        \/ init_done /\ inb /\ Obey("leds", 1)
    BY <1>2 DEF ps2_handle_interrupt, Handle, Handles, drivers
  <2>3. inb => outbuf' \in Byte \union {NoByte}
    BY DEF inb
  <2>4. Obey("leds", 1) => device' \in [{0, 1, 2} -> Device]
    BY <1>1, Obeyed DEF Commands
  <2> QED
    BY <1>1, <2>1, <2>2, <2>3, <2>4 DEF HardwareTyped
<1>3. ASSUME AwaitLeds
      PROVE  /\ StandsStill /\ init_done
             /\ outbuf' \in Byte \union {NoByte} /\ device' \in [{0, 1, 2} -> Device]
  <2>1. /\ polling # 0 /\ outbuf' = NoByte /\ StandsStill
        /\ \/ device' = [device EXCEPT ![1].answers = <<DEVICE_ACK>>, ![1].argument = FALSE]
           \/ device' = device
    BY <1>3 DEF AwaitLeds, inb, task, StandsStill
  <2>2. device' \in [{0, 1, 2} -> Device]
    <3> DEFINE d == [device[1] EXCEPT !.answers = <<DEVICE_ACK>>, !.argument = FALSE]
    <3>0. device[1] \in Device
      BY <1>1 DEF HardwareTyped
    <3>1. d \in Device
      BY <3>0, Answers DEF Device
    <3>2. CASE device' = [device EXCEPT ![1].answers = <<DEVICE_ACK>>, ![1].argument = FALSE]
      <4>1. device' = [device EXCEPT ![1] = d]
        BY <1>1, <3>2 DEF HardwareTyped
      <4> HIDE DEF d
      <4> QED
        BY <1>1, <3>1, <4>1 DEF HardwareTyped
    <3> QED
      BY <1>1, <2>1, <3>2 DEF HardwareTyped
  <2> QED
    BY <1>1, <2>1, <2>2
<1>4. (\E p \in {1, 2} : ps2_handle_interrupt(p)) \/ AwaitLeds
  BY <1>0, Zenon DEF Handler, Ports
<1>5. /\ StandsStill
      /\ \/ outbuf' = outbuf /\ device' = device /\ polling' = polling
         \/ init_done
      /\ outbuf' \in Byte \union {NoByte} /\ device' \in [{0, 1, 2} -> Device]
  BY <1>2, <1>3, <1>4
<1>6. polling' # 0 => init_done
  BY <1>1, <1>5
<1> QED
  BY <1>0, <1>1, <1>5, <1>6, Zenon DEF TrafficStep

\* Interrupt handlers keep the invariant.
LEMMA HandlerKeeps == SetUpInv /\ Handler => SetUpInv'
<1>0. SUFFICES ASSUME SetUpInv, Handler PROVE SetUpInv'
  OBVIOUS
<1>1. /\ StandsStill
      /\ \/ outbuf' = outbuf /\ device' = device /\ polling' = polling
         \/ pc >= 53 /\ init_done
      /\ TrafficStep
  BY <1>0, HandlerSteps, Zenon
<1>2. pc' = pc /\ config' = config /\ pc \in 1 .. 54
  BY <1>0, <1>1 DEF StandsStill, SetUpInv, HardwareTyped
<1>3. EarlyTraffic' /\ Disabled'
  <2>1. CASE outbuf' = outbuf /\ device' = device
    <3>1. Nothing' <=> Nothing
      BY <2>1 DEF Nothing
    <3>2. Expected(0, TEST_PS2_PASSED)' <=> Expected(0, TEST_PS2_PASSED)
      BY <2>1 DEF Expected, TEST_PS2_PASSED
    <3>3. Expected(0, ByteOf(config))' <=> Expected(0, ByteOf(config))
      <4>1. ByteOf(config') = ByteOf(config)
        BY <1>2
      <4> QED
        BY <2>1, <4>1 DEF Expected
    <3>4. EarlyTraffic'
      BY <1>0, <1>2, <3>1, <3>2, <3>3, Zenon DEF SetUpInv, EarlyTraffic
    <3>5. Disabled'
      BY <1>0, <1>2, <2>1, Zenon DEF SetUpInv, Disabled
    <3> QED
      BY <3>4, <3>5
  <2>2. CASE pc >= 53
    BY <1>2, <2>2 DEF EarlyTraffic, Disabled
  <2> QED
    BY <1>1, <2>1, <2>2
<1> QED
  BY <1>1, <1>3, TrafficKeeps, Zenon

\* The task keeps the invariant.
LEMMA TaskKeeps == SetUpInv /\ Task => SetUpInv'
<1>0. SUFFICES ASSUME SetUpInv, Task PROVE SetUpInv'
  OBVIOUS
<1>1. ASSUME NEW op \in {"read config", "test", "reset", "disable", "set", "enable"}, Command(op)
      PROVE  SetUpInv'
  <2>1. \/ Command("read config") \/ Command("test") \/ Command("reset")
        \/ Command("disable") \/ Command("set") \/ Command("enable")
    BY <1>1
  <2>2. Command("read config") \/ Command("test") => SetUpInv'
    BY <1>0, ReadConfigKeeps, TestKeeps, AskController, Zenon
  <2> QED
    BY <1>0, <2>1, <2>2, ResetKeeps, DisableKeeps, SetKeeps, EnableKeeps, Zenon
<1>2. ASSUME NEW op \in {"enable port", "disable port"}, SwitchPort(op)
      PROVE  SetUpInv'
  BY <1>0, <1>2, PortSwitched, SwitchPortKeeps, Zenon
<1>3. DetectPort2 => SetUpInv'
  BY <1>0, Detecting, DetectedFirstKeeps, DetectedAgainKeeps, Zenon
<1>4. TurnOn => SetUpInv'
  <2>1. \A written : WritesBack(written) /\ pc = 18 => SetUpInv'
    BY WritingBackKeeps
  <2> QED
    BY <1>0, <2>1, TurningOn, Zenon
<1>5. TurnTranslationOff => SetUpInv'
  <2>1. \A written : WritesBack(written) /\ pc = 39 => SetUpInv'
    BY WritingBackKeeps
  <2> QED
    BY <1>0, <2>1, TurningTranslationOff, Zenon
<1> QED
  BY <1>0, <1>1, <1>2, <1>3, <1>4, <1>5, AwaitAnswerKeeps, AwaitAnyKeeps, AwaitResetKeeps,
     AwaitTimesOutKeeps, FlushKeeps, SetInitDoneKeeps, Zenon DEF Task

\* The fields of a device at the start.
LEMMA Fields ==
  ASSUME NEW d, NEW s,
         d = [answers |-> <<>>, queue |-> <<>>, scanning |-> s, argument |-> FALSE]
  PROVE  d.answers = <<>> /\ d.queue = <<>> /\ d.scanning = s
  OBVIOUS

\* The invariant holds at the start.
LEMMA Start == Init => SetUpInv
<1>0. SUFFICES ASSUME Init PROVE SetUpInv
  OBVIOUS
<1>1. /\ second \in Port2 /\ port2_supported = TRUE /\ outbuf = NoByte /\ pc = 1
      /\ init_done = FALSE /\ polling = 0
  BY <1>0 DEF Init
<1>2. config = Written({0, 1, 6})
  BY <1>0, Clocks, Zenon DEF Init
<1>3. device = [p \in {0, 1, 2} |->
        [answers |-> <<>>, queue |-> <<>>, scanning |-> p = 1, argument |-> FALSE]]
  BY <1>0 DEF Init, Ports, CONTROLLER
<1>4. /\ device \in [{0, 1, 2} -> Device]
      /\ \A p \in {0, 1, 2} : device[p].answers = <<>> /\ device[p].queue = <<>>
      /\ ~ device[2].scanning
  <2>1. \A p \in {0, 1, 2} :
          [answers |-> <<>>, queue |-> <<>>, scanning |-> p = 1, argument |-> FALSE] \in Device
    <3>1. \A b \in BOOLEAN :
            [answers |-> <<>>, queue |-> <<>>, scanning |-> b, argument |-> FALSE] \in Device
      BY Answers DEF Device
    <3>2. \A p \in {0, 1, 2} : (p = 1) \in BOOLEAN
      OBVIOUS
    <3> QED
      BY <3>1, <3>2, Zenon
  <2>2. device \in [{0, 1, 2} -> Device]
    BY <1>3, <2>1
  <2>3. \A p \in {0, 1, 2} : device[p] =
          [answers |-> <<>>, queue |-> <<>>, scanning |-> p = 1, argument |-> FALSE]
    BY <1>3, Zenon
  <2>4. \A p \in {0, 1, 2} : /\ device[p].answers = <<>> /\ device[p].queue = <<>>
                            /\ device[p].scanning = (p = 1)
    BY <2>3, Fields, Zenon
  <2>5. ~ device[2].scanning
    <3>1. device[2].scanning = (2 = 1)
      BY <2>4
    <3>2. 2 # 1
      OBVIOUS
    <3> QED
      BY <3>1, <3>2
  <2> QED
    BY <2>2, <2>4, <2>5, Zenon
<1>5. HardwareTyped
  <2>1. config \in SUBSET (0 .. 7)
    BY <1>1, <1>2, WrittenBits
  <2> QED
    BY <1>1, <1>4, <2>1 DEF HardwareTyped
<1>6. NotYet /\ Detected
  BY <1>1 DEF NotYet, Detected, OnlySecond
<1>7. EarlyConfig
  BY <1>1, <1>2 DEF EarlyConfig
<1>8. EarlyTraffic
  BY <1>1, <1>4 DEF EarlyTraffic, Nothing
<1>9. Disabled
  BY <1>1, <1>4 DEF Disabled
<1> QED
  BY <1>5, <1>6, <1>7, <1>8, <1>9 DEF SetUpInv

\* It stays if nothing happens.
LEMMA Stutter == SetUpInv /\ UNCHANGED vars => SetUpInv'
<1>0. SUFFICES ASSUME SetUpInv, UNCHANGED vars PROVE SetUpInv'
  OBVIOUS
<1>1. /\ pc' = pc /\ port2_supported' = port2_supported /\ second' = second /\ config' = config
      /\ init_done' = init_done /\ outbuf' = outbuf /\ device' = device /\ polling' = polling
  BY <1>0 DEF vars, hardware, task, drivers
<1>2. SetUpInv' <=> SetUpInv
  BY <1>1 DEF SetUpInv, HardwareTyped, NotYet, Detected, Present, ReadsZero, EarlyConfig, Written,
              EarlyTraffic, Nothing, Expected, Disabled
<1> QED
  BY <1>0, <1>2

(* The invariant SetUpInv holds: ps2_init_controller goes through the      *)
(* configurations of EarlyConfig, with nothing but the answer to its       *)
(* latest command on its way, for any hardware and key table.              *)
THEOREM SetUpKept == ASSUME ~ EarlyKeys PROVE Spec => []SetUpInv
<1>1. SetUpInv /\ [Next]_vars => SetUpInv'
  BY UserKeeps, ControllerKeeps, TaskKeeps, HandlerKeeps, Stutter, Zenon DEF Next
<1> QED
  BY <1>1, Start, PTL DEF Spec

(* ps2_init_controller takes port 2 for supported exactly if there is one, *)
(* whatever the bit for its clock reads if not, as long as no key is       *)
(* pressed meanwhile: a scancode would be taken for the configuration.     *)
THEOREM DetectsPort2 == ASSUME ~ EarlyKeys PROVE Spec => []Port2Detected
<1>1. SetUpInv => Port2Detected
  BY ControllerLength DEF SetUpInv, Detected, HardwareTyped, Present, Port2Detected, ControllerDone
<1> QED
  BY <1>1, SetUpKept, PTL

-----------------------------------------------------------------------------
(* Once everything is turned on the configuration stays.                   *)

TurnedOn == {0} \union (IF Present THEN {1} ELSE {})
LateConfig == pc >= 19 => config = Written(TurnedOn)

KeyboardInv == SetUpInv /\ KeyboardTraffic /\ LateConfig

\* Turning everything on, and turning off a translation that is off, yields TurnedOn.
LEMMA WrittenLast ==
  second \in Port2 =>
    /\ Written(Written({}) \union TurnedOn) = Written(TurnedOn)
    /\ Written(Written(TurnedOn) \ {6}) = Written(TurnedOn)
    /\ 4 \notin Written(TurnedOn)
<1> DEFINE Steps(on) ==
      /\ Written(Written({}) \union on) = Written(on)
      /\ Written(Written(on) \ {6}) = Written(on)
      /\ 4 \notin Written(on)
<1>0. TurnedOn = {0} \/ TurnedOn = {0, 1}
  BY DEF TurnedOn
<1>1. ASSUME NEW on, on = {0} \/ on = {0, 1}, \A bits : Written(bits) = bits
      PROVE  Steps(on)
  <2>1. /\ {} \union on = on /\ on \ {6} = on /\ 4 \notin on
    BY <1>1
  <2> QED
    BY <1>1, <2>1, Zenon
<1>2. ASSUME NEW on, on = {0} \/ on = {0, 1}, \A bits : Written(bits) = bits \ {5}
      PROVE  Steps(on)
  <2>1. /\ (({} \ {5}) \union on) \ {5} = on \ {5}
        /\ ((on \ {5}) \ {6}) \ {5} = on \ {5} /\ 4 \notin on \ {5}
    BY <1>2
  <2> QED
    BY <1>2, <2>1, Zenon
<1>3. ASSUME NEW on, on = {0} \/ on = {0, 1}, \A bits : Written(bits) = bits \union {5}
      PROVE  Steps(on)
  <2>1. /\ (({} \union {5}) \union on) \union {5} = on \union {5}
        /\ ((on \union {5}) \ {6}) \union {5} = on \union {5} /\ 4 \notin on \union {5}
    BY <1>3
  <2> QED
    BY <1>3, <2>1, Zenon
<1> HIDE DEF Steps
<1>4. ASSUME second \in Port2
      PROVE  Steps(TurnedOn)
  <2>1. second = "present" \/ second = "reads 0" \/ second = "reads 1"
    BY <1>4, Ps2Assumption
  <2> QED
    BY <1>0, <1>1, <1>2, <1>3, <2>1, WrittenIs, Zenon
<1> QED
  BY <1>4, Zenon DEF Steps

\* A step that leaves the configuration alone.
LEMMA ConfigRemains ==
  LateConfig /\ config' = config /\ second' = second /\ (pc' >= 19 => pc >= 19) => LateConfig'
<1>0. SUFFICES ASSUME LateConfig, config' = config, second' = second, pc' >= 19, pc >= 19
               PROVE  config' = Written(TurnedOn)'
  BY Zenon DEF LateConfig
<1>1. (Present' <=> Present) /\ \A bits : Written(bits)' = Written(bits)
  BY <1>0, SameSecond, Zenon
<1>2. TurnedOn' = TurnedOn
  BY <1>1 DEF TurnedOn
<1>3. config = Written(TurnedOn)
  BY <1>0, Zenon DEF LateConfig
<1>4. Written(TurnedOn)' = Written(TurnedOn)
  BY <1>0, <1>2 DEF Written
<1> QED
  BY <1>0, <1>3, <1>4, Zenon

\* Before all is turned on there is nothing to show,
LEMMA BeforeKeyboard == pc' \in 1 .. 18 => KeyboardTraffic' /\ LateConfig'
BY DEF KeyboardTraffic, LateConfig

KeyboardPlaces == {30, 31, 32, 33, 34, 35, 36, 37, 38, 39}
\* and when the keyboard is not being set up its traffic does not matter.
LEMMA OtherPlaces == pc' \notin KeyboardPlaces => KeyboardTraffic'
BY DEF KeyboardTraffic, KeyboardPlaces

\* A step of the task that asks or hears nothing of the keyboard.
Passing ==
  /\ KeyboardInv /\ GoesOn
  /\ \/ pc \in 1 .. 17
     \/ config' = config /\ pc \notin {18, 29} /\ pc \notin KeyboardPlaces

\* Such a step keeps what the second invariant adds.
LEMMA PassingKeeps == Passing => KeyboardTraffic' /\ LateConfig'
<1>0. SUFFICES ASSUME Passing PROVE KeyboardTraffic' /\ LateConfig'
  OBVIOUS
<1>1. KeyboardInv /\ SetUpInv /\ LateConfig /\ GoesOn
  BY <1>0, Zenon DEF Passing, KeyboardInv
<1>2. Advance
  BY <1>1, Going, Zenon
<1>3. CASE pc \in 1 .. 17
  <2>1. pc' \in 1 .. 18
    BY <1>2, <1>3 DEF Advance
  <2> QED
    BY <2>1, BeforeKeyboard
<1>4. CASE pc \notin 1 .. 17
  <2>1. config' = config /\ pc \notin {18, 29} /\ pc \notin KeyboardPlaces
    BY <1>0, <1>4, Zenon DEF Passing
  <2>2. pc >= 19
    BY <1>2, <1>4, <2>1 DEF Advance
  <2>3. pc' \notin KeyboardPlaces
    <3>1. CASE pc < 29
      <4>1. pc' = 30 => pc + 1 \in OnlySecond /\ ~ port2_supported
        BY <1>2, <3>1 DEF Advance
      <4>2. pc' <= 30
        BY <1>2, <3>1 DEF Advance
      <4>3. pc' # 30
        BY <1>1, <2>2, <3>1, <4>1, AfterIs DEF GoesOn, OnlySecond, SetUpInv, HardwareTyped
      <4> QED
        BY <1>2, <4>2, <4>3 DEF Advance, KeyboardPlaces
    <3>2. CASE pc > 39
      BY <1>2, <3>2 DEF Advance, KeyboardPlaces
    <3>3. pc < 29 \/ pc > 39
      BY <1>2, <2>1 DEF Advance, KeyboardPlaces
    <3> QED
      BY <3>1, <3>2, <3>3
  <2>4. second' = second
    BY <1>1 DEF GoesOn
  <2> QED
    BY <1>1, <2>1, <2>2, <2>3, <2>4, ConfigRemains, OtherPlaces, Zenon
<1> QED
  BY <1>3, <1>4

\* What the task asks the keyboard or the controller.
LEMMA Instructing ==
  ASSUME NEW op
  PROVE  KeyboardInv /\ Command(op) =>
           /\ KeyboardInv /\ SetUpInv /\ LateConfig /\ KeyboardTraffic /\ HardwareTyped
           /\ At(op) /\ GoesOn /\ Advance
           /\ outbuf' = outbuf /\ config' = config /\ second' = second
<1>0. SUFFICES ASSUME KeyboardInv, Command(op)
      PROVE  /\ KeyboardInv /\ SetUpInv /\ LateConfig /\ KeyboardTraffic /\ HardwareTyped
             /\ At(op) /\ GoesOn /\ Advance
             /\ outbuf' = outbuf /\ config' = config /\ second' = second
  BY Zenon
<1>1. SetUpInv /\ LateConfig /\ KeyboardTraffic /\ HardwareTyped
  BY <1>0, Zenon DEF KeyboardInv, SetUpInv
<1>2. At(op) /\ GoesOn /\ outbuf' = outbuf /\ config' = config
  BY <1>0, <1>1, Commanding, Zenon
<1>3. Advance
  BY <1>1, <1>2, Going, Zenon
<1>4. second' = second
  BY <1>2 DEF GoesOn
<1> QED
  BY <1>0, <1>1, <1>2, <1>3, <1>4, Zenon

\* A command to the keyboard is the only thing on its way, so that its answer is expected.
LEMMA AskKeyboard == KeyboardInv /\ Command("set") => KeyboardTraffic' /\ LateConfig'
<1>0. SUFFICES ASSUME KeyboardInv, Command("set") PROVE KeyboardTraffic' /\ LateConfig'
  OBVIOUS
<1>1. /\ KeyboardInv /\ SetUpInv /\ LateConfig /\ KeyboardTraffic /\ HardwareTyped
      /\ At("set") /\ GoesOn /\ Advance
      /\ outbuf' = outbuf /\ config' = config /\ second' = second
  BY <1>0, Instructing, Zenon
<1>2. pc \in {30, 32, 34, 36, 40, 42, 44, 46}
  BY <1>1, Places, Zenon
<1>3. CASE pc \in {30, 32, 34, 36}
  <2>2. pc \in OnlyFirst
    BY <1>3 DEF OnlyFirst
  <2>3. CommandedDevice(1) /\ Obey("set", 1)
    BY <1>0, <1>1, <2>2, CommandDevice
  <2>4. Nothing
    <3>1. pc \in {30, 32, 34, 36, 38}
      BY <1>3
    <3> QED
      BY <1>1, <3>1, Zenon DEF KeyboardTraffic
  <2>5. Expected(1, DEVICE_ACK)'
    <3>1. device'[1].queue = device[1].queue /\ device'[1].answers = <<DEVICE_ACK>>
      BY <1>1, <2>3, Obeyed DEF Commands
    <3>2. \A q \in {0, 1, 2} : q # 1 => device'[q] = device[q]
      BY <2>3, Zenon DEF CommandedDevice
    <3>3. device'[1].queue = <<>>
      BY <2>4, <3>1 DEF Nothing
    <3>4. DEVICE_ACK' = DEVICE_ACK
      BY DEF DEVICE_ACK
    <3>5. \A q \in {0, 1, 2} : device'[q].queue = <<>> /\ (q # 1 => device'[q].answers = <<>>)
      BY <2>4, <3>2, <3>3 DEF Nothing
    <3>6. outbuf' = NoByte /\ device'[1].answers = <<DEVICE_ACK>>
      BY <1>1, <2>4, <3>1 DEF Nothing
    <3> QED
      BY <3>5, <3>6, Zenon DEF Expected, DEVICE_ACK, NoByte
  <2>6. pc' \in {31, 33, 35, 37}
    BY <1>1, <1>3 DEF Advance, OnlySecond
  <2>7. KeyboardTraffic'
    BY <2>5, <2>6 DEF KeyboardTraffic
  <2>8. pc >= 19
    BY <1>3
  <2> QED
    BY <1>1, <2>7, <2>8, ConfigRemains, Zenon
<1>4. CASE pc \in {40, 42, 44, 46}
  <2>1. pc \notin {18, 29} /\ pc \notin KeyboardPlaces
    BY <1>4 DEF KeyboardPlaces
  <2> QED
    BY <1>1, <2>1, PassingKeeps, Zenon DEF Passing
<1> QED
  BY <1>2, <1>3, <1>4

\* When the configuration is read again only that is on its way.
LEMMA AskConfig == KeyboardInv /\ Command("read config") => KeyboardTraffic' /\ LateConfig'
<1>0. SUFFICES ASSUME KeyboardInv, Command("read config") PROVE KeyboardTraffic' /\ LateConfig'
  OBVIOUS
<1>1. /\ KeyboardInv /\ SetUpInv /\ LateConfig /\ KeyboardTraffic /\ HardwareTyped
      /\ At("read config") /\ GoesOn /\ Advance
      /\ outbuf' = outbuf /\ config' = config /\ second' = second
  BY <1>0, Instructing, Zenon
<1>2. pc \in {4, 9, 17, 38}
  BY <1>1, Places, Zenon
<1>3. CASE pc = 38
  <2>2. Answered(0, ByteOf(config))
    BY <1>0, <1>1, ReadConfigKeeps, Zenon DEF AskedController
  <2>3. Nothing
    BY <1>1, <1>3 DEF KeyboardTraffic
  <2>4. device'[0].queue = <<>>
    BY <2>2, <2>3 DEF Answered, Nothing
  <2>5. Expected(0, ByteOf(config))'
    <3>1. /\ \A q \in {0, 1, 2} : q # 0 => device'[q] = device[q]
          /\ device'[0].answers = <<ByteOf(config)>> /\ config' = config
      BY <2>2, Zenon DEF Answered
    <3>2. \A q \in {0, 1, 2} : device'[q].queue = <<>> /\ (q # 0 => device'[q].answers = <<>>)
      BY <2>3, <2>4, <3>1 DEF Nothing
    <3>3. outbuf' = NoByte /\ device'[0].answers = <<ByteOf(config')>>
      BY <1>1, <2>3, <3>1 DEF Nothing
    <3> QED
      BY <3>2, <3>3, Zenon DEF Expected, NoByte
  <2>6. pc' = 39
    <3>1. 38 + 1 \notin OnlySecond
      BY DEF OnlySecond
    <3>2. pc' = pc + 1
      BY <1>1, <1>3, <3>1, Zenon DEF Advance
    <3> QED
      BY <1>3, <3>2
  <2>7. KeyboardTraffic'
    BY <2>5, <2>6 DEF KeyboardTraffic
  <2>8. pc >= 19
    BY <1>3
  <2> QED
    BY <1>1, <2>7, <2>8, ConfigRemains, Zenon
<1>4. CASE pc \in {4, 9, 17}
  <2>1. pc \in 1 .. 17
    BY <1>4
  <2> QED
    BY <1>1, <2>1, PassingKeeps, Zenon DEF Passing
<1> QED
  BY <1>2, <1>3, <1>4

\* The other commands do not come between those to the keyboard.
LEMMA AskOther ==
  KeyboardInv /\ (Command("test") \/ Command("reset") \/ Command("disable") \/ Command("enable"))
  => KeyboardTraffic' /\ LateConfig'
<1>0. SUFFICES ASSUME KeyboardInv,
                      Command("test") \/ Command("reset") \/ Command("disable") \/ Command("enable")
               PROVE  KeyboardTraffic' /\ LateConfig'
  OBVIOUS
<1>1. /\ GoesOn /\ config' = config /\ HardwareTyped
      /\ At("test") \/ At("reset") \/ At("disable") \/ At("enable")
  BY <1>0, Instructing, Zenon
<1>2. pc \in {6, 11, 13} \/ pc \in {19, 21} \/ pc \in {24, 27} \/ pc \in {48, 50}
  BY <1>1, Places, Zenon
<1>3. pc \notin {18, 29} /\ pc \notin KeyboardPlaces
  BY <1>2 DEF KeyboardPlaces
<1> QED
  BY <1>0, <1>1, <1>3, PassingKeeps, Zenon DEF Passing

\* The task hears something and goes on.
Hearing ==
  /\ KeyboardInv /\ GoesOn /\ config' = config
  /\ pc \in {31, 33, 35, 37} => Polled

\* The answer of the keyboard is heard, and nothing is left.
LEMMA HearKeyboard ==
  Hearing /\ pc \notin {18, 29, 30, 32, 34, 36, 38, 39} => KeyboardTraffic' /\ LateConfig'
<1>0. SUFFICES ASSUME Hearing, pc \notin {18, 29, 30, 32, 34, 36, 38, 39}
               PROVE  KeyboardTraffic' /\ LateConfig'
  OBVIOUS
<1>1. SetUpInv /\ LateConfig /\ KeyboardTraffic /\ KeyboardInv /\ GoesOn /\ config' = config
  BY <1>0, Zenon DEF KeyboardInv, Hearing
<1>2. Advance
  BY <1>1, Going, Zenon
<1>3. CASE pc \in {31, 33, 35, 37}
  <2>1. Expected(1, DEVICE_ACK)
    BY <1>1, <1>3, Zenon DEF KeyboardTraffic
  <2>2. outbuf # NoByte /\ outbuf' = NoByte /\ device' = device /\ 1 \in {0, 1, 2}
    BY <1>0, <1>3 DEF Hearing, Polled
  <2>3. Nothing'
    BY <2>1, <2>2, Heard
  <2>4. pc' \in {32, 34, 36, 38}
    BY <1>2, <1>3 DEF Advance, OnlySecond
  <2>5. KeyboardTraffic'
    BY <2>3, <2>4 DEF KeyboardTraffic
  <2>6. (pc' >= 19 => pc >= 19) /\ second' = second
    BY <1>1, <1>3 DEF GoesOn
  <2> QED
    BY <1>1, <2>5, <2>6, ConfigRemains, Zenon
<1>4. CASE pc \notin {31, 33, 35, 37}
  <2>1. pc \notin {18, 29} /\ pc \notin KeyboardPlaces
    BY <1>0, <1>4 DEF KeyboardPlaces
  <2> QED
    BY <1>1, <2>1, PassingKeeps, Zenon DEF Passing
<1> QED
  BY <1>3, <1>4

\* The task waits on, or somebody else makes a step while the keyboard is not being set up.
Elsewhere ==
  /\ KeyboardInv /\ StandsStill
  /\ pc \notin KeyboardPlaces \/ (outbuf' = outbuf /\ device' = device)

\* Such a step keeps what the second invariant adds.
LEMMA ElsewhereKeeps == Elsewhere => KeyboardTraffic' /\ LateConfig'
<1>0. SUFFICES ASSUME Elsewhere PROVE KeyboardTraffic' /\ LateConfig'
  OBVIOUS
<1>1. /\ KeyboardTraffic /\ LateConfig /\ pc' = pc /\ config' = config /\ second' = second
      /\ pc \notin KeyboardPlaces \/ (outbuf' = outbuf /\ device' = device)
  BY <1>0 DEF Elsewhere, KeyboardInv, StandsStill
<1>2. LateConfig'
  BY <1>1, ConfigRemains, Zenon
<1>3. CASE pc \notin KeyboardPlaces
  BY <1>1, <1>2, <1>3, OtherPlaces
<1>4. CASE outbuf' = outbuf /\ device' = device
  <2>1. /\ Nothing' <=> Nothing
        /\ Expected(1, DEVICE_ACK)' <=> Expected(1, DEVICE_ACK)
    BY <1>4 DEF Nothing, Expected, DEVICE_ACK
  <2>2. Expected(0, ByteOf(config))' <=> Expected(0, ByteOf(config))
    <3>1. ByteOf(config') = ByteOf(config)
      BY <1>1
    <3> QED
      BY <1>4, <3>1 DEF Expected
  <2>3. KeyboardTraffic'
    BY <1>1, <2>1, <2>2, Zenon DEF KeyboardTraffic
  <2> QED
    BY <1>2, <2>3
<1> QED
  BY <1>1, <1>3, <1>4

\* The second invariant contains the first.
LEMMA InvParts ==
  KeyboardInv => SetUpInv /\ KeyboardTraffic /\ LateConfig /\ HardwareTyped
BY Zenon DEF KeyboardInv, SetUpInv

\* Ports are switched before all is turned on.
LEMMA SwitchingPasses ==
  ASSUME NEW port
  PROVE  KeyboardInv /\ SwitchedPort(port) => KeyboardTraffic' /\ LateConfig'
<1>0. SUFFICES ASSUME KeyboardInv, SwitchedPort(port) PROVE KeyboardTraffic' /\ LateConfig'
  OBVIOUS
<1>1. GoesOn /\ pc \in 1 .. 17
  BY <1>0 DEF SwitchedPort
<1> QED
  BY <1>0, <1>1, PassingKeeps, Zenon DEF Passing

\* The detection of port 2 is over before the keyboard is set up.
LEMMA DetectingEarly == DetectedFirst \/ DetectedAgain => pc' \in 1 .. 18
<1>0. SUFFICES ASSUME DetectedFirst \/ DetectedAgain PROVE pc' \in 1 .. 18
  OBVIOUS
<1>1. /\ pc = 5 \/ pc = 10
      /\ pc' = After(pc, port2_supported') /\ port2_supported' \in BOOLEAN
  BY <1>0 DEF DetectedFirst, DetectedAgain, ReadSteps
<1>2. 5 \in 1 .. 53 /\ 10 \in 1 .. 53 /\ 5 + 1 \notin OnlySecond /\ 10 + 1 \notin OnlySecond
  BY DEF OnlySecond
<1>3. pc' = 5 + 1 \/ pc' = 10 + 1
  <2>1. After(5, port2_supported') = 5 + 1
    BY <1>1, <1>2, AfterIs, Zenon
  <2>2. After(10, port2_supported') = 10 + 1
    BY <1>1, <1>2, AfterIs, Zenon
  <2> QED
    BY <1>1, <2>1, <2>2, Zenon
<1> QED
  BY <1>3

\* So is port 2 detected.
LEMMA DetectingPasses == DetectedFirst \/ DetectedAgain => KeyboardTraffic' /\ LateConfig'
BY DetectingEarly, BeforeKeyboard

\* The end of ps2_init_controller turns on what is supported and nothing else.
LEMMA TurningOnKeeps == KeyboardInv /\ TurnOn => KeyboardTraffic' /\ LateConfig'
<1>0. SUFFICES ASSUME KeyboardInv, TurnOn PROVE KeyboardTraffic' /\ LateConfig'
  OBVIOUS
<1> DEFINE on == IF port2_supported THEN {1} ELSE {}
<1>1. SetUpInv /\ HardwareTyped /\ pc = 18 /\ WritesBack(Read \union {0} \union on)
  BY <1>0, InvParts, TurningOn, Zenon
<1>2. GoesOn /\ Polled /\ config' = Written(Read \union {0} \union on) /\ second \in Port2
  BY <1>1 DEF WritesBack, HardwareTyped
<1>3. Advance
  BY <1>1, <1>2, Going, Zenon
<1>4. pc' = 19
  BY <1>1, <1>3 DEF Advance, OnlySecond
<1>5. Read = config
  <2>1. Expected(0, ByteOf(config))
    BY <1>1 DEF SetUpInv, EarlyTraffic
  <2> QED
    BY <1>1, <1>2, <2>1, ReadsConfig, Zenon
<1>6. config = Written({})
  BY <1>1 DEF SetUpInv, EarlyConfig
<1>7. {0} \union on = TurnedOn
  <2>1. port2_supported <=> Present
    BY <1>1 DEF SetUpInv, Detected
  <2> QED
    BY <2>1 DEF TurnedOn
<1> HIDE DEF on
<1>8. config' = Written(TurnedOn)
  <2>1. (Read \union {0}) \union on = Read \union ({0} \union on)
    OBVIOUS
  <2> QED
    BY <1>2, <1>5, <1>6, <1>7, <2>1, WrittenLast, Zenon
<1>9. LateConfig'
  <2>1. second' = second
    BY <1>2 DEF GoesOn
  <2>2. TurnedOn' = TurnedOn
    BY <2>1 DEF TurnedOn, Present
  <2>3. Written(TurnedOn)' = Written(TurnedOn)
    BY <2>1, <2>2 DEF Written
  <2> QED
    BY <1>8, <2>3, Zenon DEF LateConfig
<1> QED
  BY <1>4, <1>9, OtherPlaces DEF KeyboardPlaces

\* What keyboard_scancode_set reads is the configuration, which it writes back unchanged.
LEMMA TranslationKeeps == KeyboardInv /\ TurnTranslationOff => KeyboardTraffic' /\ LateConfig'
<1>0. SUFFICES ASSUME KeyboardInv, TurnTranslationOff PROVE KeyboardTraffic' /\ LateConfig'
  OBVIOUS
<1>1. /\ SetUpInv /\ HardwareTyped /\ KeyboardTraffic /\ LateConfig
      /\ pc = 39 /\ WritesBack(Read \ {6})
  BY <1>0, InvParts, TurningTranslationOff, Zenon
<1>2. GoesOn /\ Polled /\ config' = Written(Read \ {6}) /\ second \in Port2 /\ second' = second
  BY <1>1 DEF WritesBack, HardwareTyped, GoesOn
<1>3. Advance
  BY <1>1, <1>2, Going, Zenon
<1>4. pc' \notin KeyboardPlaces
  BY <1>1, <1>3 DEF Advance, KeyboardPlaces
<1>5. Read = config
  <2>1. Expected(0, ByteOf(config))
    BY <1>1 DEF KeyboardTraffic
  <2> QED
    BY <1>1, <1>2, <2>1, ReadsConfig, Zenon
<1>6. config = Written(TurnedOn)
  BY <1>1 DEF LateConfig
<1>7. config' = config
  BY <1>2, <1>5, <1>6, WrittenLast, Zenon
<1>8. pc >= 19
  BY <1>1
<1> QED
  BY <1>1, <1>2, <1>4, <1>7, <1>8, ConfigRemains, OtherPlaces, Zenon

\* ps2_read_device keeps what the second invariant adds.
LEMMA HearingAnswer == KeyboardInv /\ AwaitAnswer => KeyboardTraffic' /\ LateConfig'
<1>0. SUFFICES ASSUME KeyboardInv, AwaitAnswer PROVE KeyboardTraffic' /\ LateConfig'
  OBVIOUS
<1>1. /\ At("await") /\ ps2_available(Program[pc].port) /\ Poll /\ Proceed /\ config' = config
      /\ HardwareTyped
  BY <1>0, InvParts DEF AwaitAnswer
<1>2. GoesOn
  BY <1>1, Polling, Proceeding
<1>3. pc \in {7, 12, 25, 28, 31, 33, 35, 37, 41, 43, 45, 47, 49, 51}
  BY <1>1, Places, Zenon
<1>4. Polled
  BY <1>1, Polling, NoByteAvailable, Zenon DEF Polled
<1>5. pc \notin {18, 29, 30, 32, 34, 36, 38, 39}
  BY <1>3
<1> QED
  BY <1>0, <1>1, <1>2, <1>4, <1>5, HearKeyboard, Zenon DEF Hearing

\* So does the test of port 2.
LEMMA HearingAny == KeyboardInv /\ AwaitAny => KeyboardTraffic' /\ LateConfig'
<1>0. SUFFICES ASSUME KeyboardInv, AwaitAny PROVE KeyboardTraffic' /\ LateConfig'
  OBVIOUS
<1>1. At("await any") /\ Poll /\ Proceed /\ config' = config /\ HardwareTyped
  BY <1>0, InvParts DEF AwaitAny
<1>2. GoesOn
  BY <1>1, Polling, Proceeding
<1>3. pc \in {14}
  BY <1>1, Places, Zenon
<1>4. pc \in 1 .. 17
  BY <1>3
<1> QED
  BY <1>0, <1>2, <1>4, PassingKeeps, Zenon DEF Passing

\* So does waiting for the end of a reset.
LEMMA HearingReset == KeyboardInv /\ AwaitReset => KeyboardTraffic' /\ LateConfig'
<1>0. SUFFICES ASSUME KeyboardInv, AwaitReset PROVE KeyboardTraffic' /\ LateConfig'
  OBVIOUS
<1>1. /\ At("await reset") /\ Poll /\ config' = config /\ HardwareTyped
      /\ Proceed \/ Stay
  BY <1>0, InvParts DEF AwaitReset
<1>2. pc \in {20, 22}
  BY <1>1, Places, Zenon
<1>3. pc \notin {18, 29} /\ pc \notin KeyboardPlaces
  BY <1>2 DEF KeyboardPlaces
<1>4. CASE Proceed
  <2>1. GoesOn
    BY <1>1, <1>4, Polling, Proceeding
  <2> QED
    BY <1>0, <1>1, <1>3, <2>1, PassingKeeps, Zenon DEF Passing
<1>5. CASE Stay
  <2>1. StandsStill
    BY <1>1, <1>5, Polling DEF Stay, StandsStill
  <2> QED
    BY <1>0, <1>3, <2>1, ElsewhereKeeps, Zenon DEF Elsewhere
<1> QED
  BY <1>1, <1>4, <1>5

\* The task does not wait in vain for the keyboard's acknowledgement.
LEMMA HearingNothing == KeyboardInv /\ AwaitTimesOut => KeyboardTraffic' /\ LateConfig'
<1>0. SUFFICES ASSUME KeyboardInv, AwaitTimesOut PROVE KeyboardTraffic' /\ LateConfig'
  OBVIOUS
<1>1. /\ At("await") \/ At("await reset")
      /\ TimedOut
      /\ Proceed \/ (At("await reset") /\ Stay)
      /\ outbuf' = outbuf /\ device' = device /\ config' = config /\ second' = second
      /\ polling' = polling
  BY <1>0 DEF AwaitTimesOut, LookAfterTimeout, hardware, drivers
<1>2. HardwareTyped /\ SetUpInv /\ KeyboardTraffic /\ LateConfig
  BY <1>0, InvParts, Zenon
<1>4. \/ pc \in {7, 12, 25, 28, 31, 33, 35, 37, 41, 43, 45, 47, 49, 51}
      \/ pc \in {20, 22}
  BY <1>1, <1>2, Places, Zenon
<1>5. pc \notin {31, 33, 35, 37}
  <2>0. SUFFICES ASSUME pc \in {31, 33, 35, 37} PROVE FALSE
    OBVIOUS
  <2>1. Expected(1, DEVICE_ACK)
    BY <1>2, <2>0, Zenon DEF KeyboardTraffic
  <2>2. Program[pc].port = 1
    <3>1. KnownPort(pc)
      BY <1>1, <1>2, Where, Zenon
    <3>2. pc \in OnlyFirst
      BY <2>0 DEF OnlyFirst
    <3> QED
      BY <3>1, <3>2 DEF KnownPort
  <2>3. Clocked(1)
    <3>1. second \in Port2
      BY <1>2 DEF HardwareTyped
    <3>2. config = Written(TurnedOn)
      BY <1>2, <2>0 DEF LateConfig
    <3>3. 4 \notin config
      BY <3>1, <3>2, WrittenLast, Zenon
    <3> QED
      BY <3>3, Clocks, Zenon DEF Clocked
  <2>4. outbuf = NoByte
    <3>1. ~ ps2_available(1)
      BY <1>1, <2>2, Zenon DEF TimedOut
    <3>2. outbuf = NoByte \/ outbuf.port = 1
      BY <2>1 DEF Expected
    <3>3. outbuf.port = 1 => IRQOf(outbuf.port) = 1
      BY DEF IRQOf
    <3> QED
      BY <3>1, <3>2, <3>3, Zenon DEF ps2_available
  <2>5. device[1].answers = <<DEVICE_ACK>>
    BY <2>1, <2>4 DEF Expected, NoByte
  <2>6. device[1].answers = <<>>
    BY <1>1, <2>2, <2>3, <2>4 DEF TimedOut, NothingToCome
  <2>7. <<DEVICE_ACK>> # <<>>
    OBVIOUS
  <2> QED
    BY <2>5, <2>6, <2>7, Zenon
<1>6. pc \in 1 .. 17 \/ (pc \notin {18, 29} /\ pc \notin KeyboardPlaces)
  BY <1>4, <1>5 DEF KeyboardPlaces
<1>3. CASE Proceed
  <2>1. GoesOn
    BY <1>1, <1>2, <1>3, Proceeding
  <2> QED
    BY <1>0, <1>1, <2>1, <1>6, PassingKeeps, Zenon DEF Passing
<1>7. CASE At("await reset") /\ Stay
  <2>1. StandsStill
    BY <1>1, <1>7 DEF Stay, StandsStill
  <2>2. pc \in {20, 22}
    BY <1>2, <1>7, Places, Zenon
  <2>3. pc \notin {18, 29} /\ pc \notin KeyboardPlaces
    BY <2>2 DEF KeyboardPlaces
  <2> QED
    BY <1>0, <2>1, <2>3, ElsewhereKeeps, Zenon DEF Elsewhere
<1> QED
  BY <1>1, <1>3, <1>7

\* Before the keyboard is set up ps2_flush has met all there was.
LEMMA FlushedAll == Prompt /\ KeyboardInv /\ ps2_flush => KeyboardTraffic' /\ LateConfig'
<1>0. SUFFICES ASSUME Prompt, KeyboardInv, ps2_flush PROVE KeyboardTraffic' /\ LateConfig'
  OBVIOUS
<1>1. /\ At("flush") /\ HardwareTyped /\ SetUpInv /\ LateConfig
      /\ device' = device /\ config' = config /\ second' = second
      /\ polling' = polling /\ outbuf' = outbuf
  BY <1>0, InvParts DEF ps2_flush, hardware, drivers
<1>2. pc \in {3, 23, 26, 29, 53}
  BY <1>1, Places, Zenon
<1>3. \/ /\ Proceed /\ ~ ps2_available(0)
         /\ device[1].answers = <<>> /\ device[2].answers = <<>>
      \/ StandsStill
  BY <1>0, <1>1 DEF ps2_flush, StandsStill, Ports
<1>4. CASE StandsStill
  BY <1>0, <1>1, <1>4, ElsewhereKeeps, Zenon DEF Elsewhere
<1>5. CASE /\ Proceed /\ ~ ps2_available(0)
           /\ device[1].answers = <<>> /\ device[2].answers = <<>>
  <2>1. GoesOn
    BY <1>1, <1>5, Proceeding
  <2>2. CASE pc = 29
    <3>1. Advance
      BY <1>1, <2>1, Going, Zenon
    <3>2. pc' = 30
      BY <2>2, <3>1 DEF Advance, OnlySecond
    <3>3. outbuf = NoByte
      BY <1>5 DEF ps2_available, CONTROLLER
    <3>4. /\ device[2].queue = <<>> /\ device[1].queue = <<>>
          /\ device[0].answers = <<>> /\ device[0].queue = <<>>
      BY <1>1, <2>2 DEF SetUpInv, Disabled
    <3>5. Nothing'
      BY <1>1, <1>5, <3>3, <3>4 DEF Nothing
    <3>6. KeyboardTraffic'
      BY <3>2, <3>5 DEF KeyboardTraffic
    <3>7. pc >= 19
      BY <2>2
    <3> QED
      BY <1>1, <3>6, <3>7, ConfigRemains, Zenon
  <2>3. CASE pc # 29
    <3>1. pc \notin {18, 29} /\ pc \notin KeyboardPlaces
      BY <1>2, <2>3 DEF KeyboardPlaces
    <3> QED
      BY <1>0, <1>1, <2>1, <3>1, PassingKeeps, Zenon DEF Passing
  <2> QED
    BY <2>2, <2>3
<1> QED
  BY <1>3, <1>4, <1>5

\* To flush a byte changes nothing that matters.
LEMMA FlushedByte == KeyboardInv /\ FlushByte => KeyboardTraffic' /\ LateConfig'
<1>0. SUFFICES ASSUME KeyboardInv, FlushByte PROVE KeyboardTraffic' /\ LateConfig'
  OBVIOUS
<1>1. At("flush") /\ HardwareTyped /\ StandsStill
  BY <1>0, InvParts, Polling DEF FlushByte, Stay, StandsStill
<1>2. pc \in {3, 23, 26, 29, 53}
  BY <1>1, Places, Zenon
<1>3. pc \notin KeyboardPlaces
  BY <1>2 DEF KeyboardPlaces
<1> QED
  BY <1>0, <1>1, <1>3, ElsewhereKeeps, Zenon DEF Elsewhere

\* Nor does setting init_done.
LEMMA InitDoneSet == KeyboardInv /\ SetInitDone => KeyboardTraffic' /\ LateConfig'
<1>0. SUFFICES ASSUME KeyboardInv, SetInitDone PROVE KeyboardTraffic' /\ LateConfig'
  OBVIOUS
<1>1. /\ At("init_done") /\ HardwareTyped /\ LateConfig
      /\ pc' = pc + 1 /\ config' = config /\ second' = second
  BY <1>0, InvParts DEF SetInitDone, hardware
<1>2. pc \in {52}
  BY <1>1, Places, Zenon
<1>3. pc >= 19 /\ pc' \notin KeyboardPlaces
  BY <1>1, <1>2 DEF KeyboardPlaces
<1> QED
  BY <1>1, <1>3, ConfigRemains, OtherPlaces, Zenon

\* The task keeps what the second invariant adds,
LEMMA TaskKeepsConfig == Prompt /\ KeyboardInv /\ Task => KeyboardTraffic' /\ LateConfig'
<1>0. SUFFICES ASSUME Prompt, KeyboardInv, Task PROVE KeyboardTraffic' /\ LateConfig'
  OBVIOUS
<1>1. ASSUME NEW op \in {"read config", "test", "reset", "disable", "set", "enable"}, Command(op)
      PROVE  KeyboardTraffic' /\ LateConfig'
  <2>1. \/ Command("read config") \/ Command("test") \/ Command("reset")
        \/ Command("disable") \/ Command("set") \/ Command("enable")
    BY <1>1
  <2> QED
    BY <1>0, <2>1, AskKeyboard, AskConfig, AskOther, Zenon
<1>2. ASSUME NEW op \in {"enable port", "disable port"}, SwitchPort(op)
      PROVE  KeyboardTraffic' /\ LateConfig'
  BY <1>0, <1>2, InvParts, PortSwitched, SwitchingPasses, Zenon
<1>3. DetectPort2 => KeyboardTraffic' /\ LateConfig'
  BY <1>0, InvParts, Detecting, DetectingPasses, Zenon
<1> QED
  BY <1>0, <1>1, <1>2, <1>3, TurningOnKeeps, TranslationKeeps, HearingAnswer, HearingAny,
     HearingReset, HearingNothing, FlushedAll, FlushedByte, InitDoneSet, Zenon DEF Task

\* users keep it: while the keyboard is set up it cannot send what is typed,
LEMMA UserKeepsConfig ==
  ~ EarlyKeys /\ KeyboardInv /\ User => KeyboardTraffic' /\ LateConfig'
<1> SUFFICES ASSUME ~ EarlyKeys, KeyboardInv, User PROVE KeyboardTraffic' /\ LateConfig'
  OBVIOUS
<1>1. \/ \E i \in DOMAIN KeyTable : Press(KeyTable[i]) \/ Release(KeyTable[i])
      \/ \E x, y \in Movements : Move(x, y)
  BY DEF User
<1>2. SetUpInv
  BY InvParts, Zenon
<1>3. Sends(1) \/ Sends(2)
  BY <1>1, <1>2, TypingSends, MovingSends
<1>4. StandsStill /\ pc \notin KeyboardPlaces
  BY <1>3 DEF Sends, KeyboardPlaces
<1> QED
  BY <1>4, ElsewhereKeeps, Zenon DEF Elsewhere

\* devices and controller keep it: only the answer that is expected comes,
LEMMA ControllerKeepsConfig == KeyboardInv /\ Controller => KeyboardTraffic' /\ LateConfig'
<1>0. SUFFICES ASSUME KeyboardInv, NEW p \in {0, 1, 2}, Answer(p) \/ Input(p)
               PROVE  KeyboardTraffic' /\ LateConfig'
  BY DEF Controller, Ports, CONTROLLER
<1>1. SetUpInv /\ KeyboardTraffic /\ LateConfig /\ HardwareTyped
  BY <1>0, InvParts, Zenon
<1>2. Transfers(p)
  BY <1>0, <1>1, ControllerStep
<1>3. /\ pc' = pc /\ config' = config /\ second' = second
  BY <1>2 DEF Transfers, TrafficStep, StandsStill
<1>4. LateConfig'
  BY <1>1, <1>3, ConfigRemains, Zenon
<1>5. pc \notin {30, 32, 34, 36, 38}
  <2>1. ~ Nothing
    BY <1>0, NothingComes, Zenon
  <2> QED
    BY <1>1, <2>1, Zenon DEF KeyboardTraffic
<1>6. ASSUME NEW e \in {0, 1, 2}, NEW data, Expected(e, data)
      PROVE  /\ outbuf' = [port |-> e, data |-> data, input |-> FALSE]
             /\ device'[e].answers = <<>>
             /\ \A q \in {0, 1, 2} : device'[q].queue = <<>> /\ (q # e => device'[q].answers = <<>>)
  <2>1. /\ p = e /\ outbuf' = [port |-> e, data |-> data, input |-> FALSE]
        /\ device'[e].answers = <<>> /\ device'[e].queue = <<>>
    BY <1>0, <1>1, <1>6, AnswerComes
  <2>2. \A q \in {0, 1, 2} : q # e => device'[q].queue = <<>> /\ device'[q].answers = <<>>
    BY <1>2, <1>6, <2>1 DEF Expected, Transfers
  <2> QED
    BY <2>1, <2>2
<1>7. pc \in {31, 33, 35, 37} => Expected(1, DEVICE_ACK)'
  <2>1. SUFFICES ASSUME pc \in {31, 33, 35, 37} PROVE Expected(1, DEVICE_ACK)'
    OBVIOUS
  <2>2. Expected(1, DEVICE_ACK) /\ 1 \in {0, 1, 2}
    BY <1>1, <2>1, Zenon DEF KeyboardTraffic
  <2>3. /\ outbuf' = [port |-> 1, data |-> DEVICE_ACK, input |-> FALSE]
        /\ device'[1].answers = <<>>
        /\ \A q \in {0, 1, 2} : device'[q].queue = <<>> /\ (q # 1 => device'[q].answers = <<>>)
    BY <1>6, <2>2, Zenon
  <2> QED
    BY <2>3, Zenon DEF Expected, DEVICE_ACK
<1>8. pc = 39 => Expected(0, ByteOf(config))'
  <2>1. SUFFICES ASSUME pc = 39 PROVE Expected(0, ByteOf(config))'
    OBVIOUS
  <2>2. Expected(0, ByteOf(config)) /\ 0 \in {0, 1, 2}
    BY <1>1, <2>1 DEF KeyboardTraffic
  <2>3. /\ outbuf' = [port |-> 0, data |-> ByteOf(config), input |-> FALSE]
        /\ device'[0].answers = <<>>
        /\ \A q \in {0, 1, 2} : device'[q].queue = <<>> /\ (q # 0 => device'[q].answers = <<>>)
    BY <1>6, <2>2, Zenon
  <2>4. outbuf' = [port |-> 0, data |-> ByteOf(config'), input |-> FALSE]
    BY <1>3, <2>3
  <2> QED
    BY <2>3, <2>4, Zenon DEF Expected
<1>9. KeyboardTraffic'
  BY <1>3, <1>5, <1>7, <1>8, Zenon DEF KeyboardTraffic
<1> QED
  BY <1>4, <1>9

\* and handlers keep it: they only acknowledge interrupts meanwhile.
LEMMA HandlerKeepsConfig == KeyboardInv /\ Handler => KeyboardTraffic' /\ LateConfig'
<1>0. SUFFICES ASSUME KeyboardInv, Handler PROVE KeyboardTraffic' /\ LateConfig'
  OBVIOUS
<1>1. /\ StandsStill
      /\ \/ outbuf' = outbuf /\ device' = device /\ polling' = polling
         \/ pc >= 53 /\ init_done
  BY <1>0, InvParts, HandlerSteps, Zenon
<1>2. pc >= 53 => pc \notin KeyboardPlaces
  BY DEF KeyboardPlaces
<1> QED
  BY <1>0, <1>1, <1>2, ElsewhereKeeps, Zenon DEF Elsewhere

(* The second invariant holds if ps2_flush meets all that devices answer:  *)
(* while the keyboard is set up each answer that comes is the one that the *)
(* task waits for.                                                         *)
THEOREM KeyboardSetUpKept == ASSUME ~ EarlyKeys, Prompt PROVE Spec => []KeyboardInv
<1>1. Init => KeyboardInv
  <2>1. Init => pc = 1
    BY Zenon DEF Init
  <2>2. pc = 1 => KeyboardTraffic /\ LateConfig
    BY DEF KeyboardTraffic, LateConfig
  <2> QED
    BY <2>1, <2>2, Start, Zenon DEF KeyboardInv
<1>2. KeyboardInv /\ [Next]_vars => KeyboardInv'
  <2>0. SUFFICES ASSUME KeyboardInv, [Next]_vars PROVE KeyboardInv'
    OBVIOUS
  <2>1. SetUpInv'
    BY <2>0, InvParts, UserKeeps, ControllerKeeps, TaskKeeps, HandlerKeeps, Stutter, Zenon DEF Next
  <2>2. CASE UNCHANGED vars
    <3>1. StandsStill /\ outbuf' = outbuf /\ device' = device
      BY <2>2 DEF vars, hardware, task, StandsStill
    <3>2. KeyboardTraffic' /\ LateConfig'
      BY <2>0, <3>1, ElsewhereKeeps, Zenon DEF Elsewhere
    <3> QED
      BY <2>1, <3>2, Zenon DEF KeyboardInv
  <2>3. Next => KeyboardTraffic' /\ LateConfig'
    BY <2>0, UserKeepsConfig, ControllerKeepsConfig, TaskKeepsConfig, HandlerKeepsConfig,
       Zenon DEF Next
  <2> QED
    BY <2>0, <2>1, <2>2, <2>3, Zenon DEF KeyboardInv
<1> QED
  BY <1>1, <1>2, PTL DEF Spec

(* Once ps2_init_controller is over interrupts and clocks of all ports are *)
(* on and stay so, under the hypotheses of both invariants: each is met by *)
(* a run, and without it another run finds what goes wrong.                *)
THEOREM KeepsConfig == ASSUME ~ EarlyKeys, Prompt PROVE Spec => []ConfigKept
<1>1. KeyboardInv => ConfigKept
  <2>0. SUFFICES ASSUME KeyboardInv, pc > 18
        PROVE  config = Written({INTR(1)} \union (IF second = "present" THEN {INTR(2)} ELSE {}))
    BY ControllerLength DEF ConfigKept, ControllerDone
  <2>1. pc >= 19
    BY <2>0 DEF KeyboardInv, SetUpInv, HardwareTyped
  <2>2. config = Written(TurnedOn)
    BY <2>0, <2>1, Zenon DEF KeyboardInv, LateConfig
  <2>3. TurnedOn = {INTR(1)} \union (IF second = "present" THEN {INTR(2)} ELSE {})
    BY Clocks, Zenon DEF TurnedOn, Present
  <2> QED
    BY <2>2, <2>3, Zenon
<1> QED
  BY <1>1, KeyboardSetUpKept, PTL

-----------------------------------------------------------------------------
(* The drivers get their bytes.                                            *)

\* Once the keyboard is set up devices answer nothing but acknowledgements,
LateNow ==
  /\ device[0].answers = <<>> /\ device[0].queue = <<>>
  /\ \A p \in {1, 2} : device[p].answers = <<>> \/ device[p].answers = <<DEVICE_ACK>>
  /\ \/ outbuf = NoByte
     \/ outbuf.port \in {1, 2} /\ (outbuf.input \/ outbuf.data = DEVICE_ACK)

\* and a port 2 that is not there is silent.
SilentNow ==
  ~ Present => device[2].answers = <<>> /\ device[2].queue = <<>> /\ outbuf.port # 2

LateTraffic == pc >= 40 => LateNow /\ SilentNow

\* The byte an interrupt was requested for waits to be read; if it was read by polling, no other
\* has come since, or will be until the handler returns.
Requested(p) ==
  \/ outbuf # NoByte /\ outbuf.port = p
  \/ p = 1 /\ ~ Present /\ (polling # 0 \/ (outbuf = NoByte /\ latch.data = DEVICE_ACK))
Requests == init_done => irr \subseteq {1, 2} /\ \A p \in irr : Requested(p)

\* A handler that polls waits for an acknowledgement, and gets it.
Leds ==
  /\ polling \in {0, 1, 2}
  /\ polling # 0 =>
       /\ ~ Present
       /\ \/ outbuf = NoByte /\ device[1].answers = <<DEVICE_ACK>>
          \/ outbuf # NoByte /\ ~ outbuf.input /\ device[1].answers = <<>>

Delivery == LateTraffic /\ Requests /\ Leds /\ RightDriver

\* No LED is set if there is a mouse.
NoLedsWithMouse == second = "present" => polling = 0

\* Before the keyboard is set up, and whenever no interrupt is due, there is little to show.
LEMMA DeliveredEarly ==
  SetUpInv' /\ pc' < 40 /\ polling' = 0 /\ astray' = astray /\ Delivery => Delivery'
<1>0. SUFFICES ASSUME SetUpInv', pc' < 40, polling' = 0, astray' = astray, Delivery
               PROVE  Delivery'
  OBVIOUS
<1>1. pc' \in 1 .. 54 /\ (init_done' => pc' >= 53)
  BY <1>0 DEF SetUpInv, HardwareTyped, NotYet
<1>2. ~ init_done'
  BY <1>0, <1>1
<1>3. LateTraffic'
  BY <1>0, <1>1 DEF LateTraffic
<1>4. Requests'
  BY <1>2, Zenon DEF Requests
<1>5. Leds'
  BY <1>0 DEF Leds
<1>6. RightDriver'
  BY <1>0, Zenon DEF Delivery, RightDriver
<1> QED
  BY <1>3, <1>4, <1>5, <1>6, Zenon DEF Delivery

\* The task does not run while an interrupt is due or a handler polls.
TaskStep == irr' = {} /\ polling' = 0 /\ astray' = astray

\* So for the task it is the traffic that matters.
LEMMA DeliveredTask ==
  TaskStep /\ Delivery /\ LateTraffic' => Delivery'
<1>0. SUFFICES ASSUME TaskStep, Delivery, LateTraffic' PROVE Delivery'
  OBVIOUS
<1>1. irr' = {} /\ polling' = 0 /\ astray' = astray
  BY <1>0 DEF TaskStep
<1>2. Requests'
  BY <1>1 DEF Requests
<1>3. Leds'
  BY <1>1 DEF Leds
<1>4. RightDriver'
  BY <1>0, <1>1, Zenon DEF Delivery, RightDriver
<1> QED
  BY <1>0, <1>2, <1>3, <1>4, Zenon DEF Delivery

\* Polling takes a byte away, or nothing.
LEMMA PollingDelivers ==
  LateTraffic /\ pc >= 40 /\ device' = device /\ (outbuf' = NoByte \/ outbuf' = outbuf)
    /\ second' = second
  => LateTraffic'
<1>0. SUFFICES ASSUME LateTraffic, pc >= 40, device' = device, outbuf' = NoByte \/ outbuf' = outbuf,
                      second' = second
               PROVE  LateTraffic'
  OBVIOUS
<1>1. LateNow /\ SilentNow
  BY <1>0, Zenon DEF LateTraffic
<1>2. NoByte.port # 2
  BY DEF NoByte
<1>3. LateNow'
  BY <1>0, <1>1 DEF LateNow, NoByte, DEVICE_ACK
<1>4. SilentNow'
  BY <1>0, <1>1, <1>2 DEF SilentNow, Present
<1> QED
  BY <1>3, <1>4, Zenon DEF LateTraffic

\* No step of the task is one of a handler.
LEMMA TaskSteps == HardwareTyped /\ Task => TaskStep
<1>0. SUFFICES ASSUME HardwareTyped, Task PROVE TaskStep
  OBVIOUS
<1>1. ASSUME NEW op, At(op) PROVE irr = {} /\ polling = 0
  BY <1>1 DEF At
<1>2. ASSUME NEW op, Command(op) PROVE TaskStep
  BY <1>1, <1>2 DEF Command, TaskStep, drivers
<1>3. ASSUME NEW op, SwitchPort(op) PROVE TaskStep
  BY <1>1, <1>3 DEF SwitchPort, TaskStep, drivers
<1>4. ASSUME NEW op, At(op), Poll PROVE TaskStep
  BY <1>1, <1>4 DEF Poll, TaskStep, drivers
<1>5. ASSUME NEW op, NEW written, NEW supported, AwaitConfig(op, written, supported) PROVE TaskStep
  BY <1>4, <1>5 DEF AwaitConfig
<1>6. DetectPort2 \/ TurnOn \/ TurnTranslationOff => TaskStep
  BY <1>5, Zenon DEF DetectPort2, TurnOn, TurnTranslationOff
<1>7. AwaitAnswer \/ AwaitAny \/ AwaitReset \/ FlushByte => TaskStep
  BY <1>4, Zenon DEF AwaitAnswer, AwaitAny, AwaitReset, FlushByte
<1>8. AwaitTimesOut => TaskStep
  BY <1>1 DEF AwaitTimesOut, TaskStep, hardware, drivers
<1>9. ps2_flush \/ SetInitDone => TaskStep
  BY <1>1 DEF ps2_flush, SetInitDone, TaskStep, hardware, drivers
<1> QED
  BY <1>0, <1>2, <1>3, <1>6, <1>7, <1>8, <1>9, Zenon DEF Task

\* What is left to show for a step of the task.
TaskGoal == pc' < 40 \/ LateTraffic'

\* Device p is to acknowledge a command.
Acknowledges(p) ==
  CommandedDevice(p) /\ device'[p].queue = device[p].queue /\ device'[p].answers = <<DEVICE_ACK>>

\* An acknowledgement is what may be on its way.
LEMMA AcknowledgeDelivers ==
  ASSUME NEW p \in {1, 2}
  PROVE  LateTraffic /\ pc >= 40 /\ Acknowledges(p) /\ (p = 2 => Present) => LateTraffic'
<1>0. SUFFICES ASSUME LateTraffic, pc >= 40, Acknowledges(p), p = 2 => Present
               PROVE  LateTraffic'
  OBVIOUS
<1>1. LateNow /\ SilentNow
  BY <1>0, Zenon DEF LateTraffic
<1>2. /\ device'[p].queue = device[p].queue /\ device'[p].answers = <<DEVICE_ACK>>
      /\ outbuf' = outbuf /\ second' = second
      /\ \A q \in {0, 1, 2} : q # p => device'[q] = device[q]
  BY <1>0, Zenon DEF Acknowledges, CommandedDevice, GoesOn
<1>3. LateNow'
  BY <1>1, <1>2 DEF LateNow, NoByte, DEVICE_ACK
<1>4. SilentNow'
  BY <1>0, <1>1, <1>2 DEF SilentNow, Present
<1> QED
  BY <1>3, <1>4, Zenon DEF LateTraffic

LateCommand(op) == op = "set" \/ op = "enable"
IsCommand(op) == LateCommand(op) \/ op \in {"read config", "test", "reset", "disable"}

\* Which commands come once the keyboard is set up.
LEMMA LateCommands ==
  ASSUME NEW op
  PROVE  HardwareTyped /\ IsCommand(op) /\ At(op) /\ pc \notin {4, 9, 17, 38}
           /\ pc \notin {6, 11, 13} /\ pc \notin {19, 21} /\ pc \notin {24, 27}
         => LateCommand(op)
BY Places, ZenonT(40) DEF IsCommand

\* They are for the keyboard or the mouse, if there is one.
LEMMA LateCommandAcknowledged ==
  ASSUME NEW op
  PROVE  SetUpInv /\ LateCommand(op) /\ Command(op) =>
           /\ pc \in OnlyFirst => Acknowledges(1)
           /\ pc \in OnlySecond => Acknowledges(2)
<1>0. SUFFICES ASSUME SetUpInv, LateCommand(op), Command(op)
               PROVE  /\ pc \in OnlyFirst => Acknowledges(1)
                      /\ pc \in OnlySecond => Acknowledges(2)
  OBVIOUS
<1>1. op \in {"reset", "disable", "set", "enable"} /\ op \in Commands
      /\ op \in {"disable", "set", "enable", "leds"}
      /\ op \in {"read config", "test", "set", "enable", "leds"}
  BY <1>0, Zenon DEF LateCommand, Commands
<1>2. /\ pc \in OnlyFirst => CommandedDevice(1) /\ Obey(op, 1)
      /\ pc \in OnlySecond => CommandedDevice(2) /\ Obey(op, 2)
  BY <1>0, <1>1, CommandDevice, Zenon
<1>3. ASSUME NEW p \in {0, 1, 2}, CommandedDevice(p), Obey(op, p)
      PROVE  Acknowledges(p)
  <2>1. HardwareTyped
    BY <1>0, Zenon DEF SetUpInv
  <2>2. device'[p].queue = device[p].queue /\ device'[p].answers = <<DEVICE_ACK>>
    BY <1>1, <1>3, <2>1, Obeyed, Zenon
  <2> QED
    BY <1>3, <2>2, Zenon DEF Acknowledges
<1> QED
  BY <1>2, <1>3, Zenon

\* A command to a device makes it acknowledge.
LEMMA CommandsDeliver ==
  ASSUME NEW op
  PROVE  KeyboardInv /\ LateTraffic /\ IsCommand(op) /\ Command(op) => TaskGoal
<1>0. SUFFICES ASSUME KeyboardInv, LateTraffic, IsCommand(op), Command(op) PROVE TaskGoal
  OBVIOUS
<1>1. SetUpInv /\ HardwareTyped /\ At(op) /\ Advance
  BY <1>0, Instructing, Zenon
<1>2. CASE pc < 38
  BY <1>1, <1>2 DEF Advance, TaskGoal
<1>3. CASE pc = 38
  <2>1. pc' = 39
    BY <1>1, <1>3 DEF Advance, OnlySecond
  <2> QED
    BY <2>1 DEF TaskGoal
<1>4. CASE pc > 38
  <2>1. /\ pc \notin {4, 9, 17, 38} /\ pc \notin {6, 11, 13}
        /\ pc \notin {19, 21} /\ pc \notin {24, 27} /\ pc \notin {30, 32, 34, 36}
    BY <1>4
  <2>2. LateCommand(op)
    BY <1>0, <1>1, <2>1, LateCommands, Zenon
  <2>3. \/ pc \in {30, 32, 34, 36, 40, 42, 44, 46}
        \/ pc \in {48, 50}
    BY <1>1, <2>2, Places, Zenon DEF LateCommand
  <2>4. pc >= 40 /\ (pc \in OnlyFirst \/ pc \in OnlySecond)
    BY <2>1, <2>3 DEF OnlyFirst, OnlySecond
  <2>5. /\ pc \in OnlyFirst => Acknowledges(1)
        /\ pc \in OnlySecond => Acknowledges(2)
    BY <1>0, <1>1, <2>2, LateCommandAcknowledged, Zenon
  <2>6. pc \in OnlySecond => Present
    <3>1. pc >= 11
      BY <2>4, <1>1 DEF HardwareTyped
    <3> QED
      BY <1>1, <3>1, Zenon DEF SetUpInv, Detected
  <2>7. LateTraffic'
    BY <1>0, <2>4, <2>5, <2>6, AcknowledgeDelivers
  <2> QED
    BY <2>7, Zenon DEF TaskGoal
<1> QED
  BY <1>1, <1>2, <1>3, <1>4 DEF HardwareTyped

\* The same for the steps that hear or wait.
LEMMA HearingDelivers ==
  SetUpInv /\ LateTraffic /\ device' = device /\ (outbuf' = NoByte \/ outbuf' = outbuf)
    /\ second' = second /\ (GoesOn \/ pc' = pc) /\ pc \notin {38, 39}
  => TaskGoal
<1>0. SUFFICES ASSUME SetUpInv, LateTraffic, device' = device,
                      outbuf' = NoByte \/ outbuf' = outbuf, second' = second,
                      GoesOn \/ pc' = pc, pc \notin {38, 39}
               PROVE  TaskGoal
  OBVIOUS
<1>1. pc \in 1 .. 54
  BY <1>0 DEF SetUpInv, HardwareTyped
<1>2. GoesOn => Advance
  BY <1>0, Going, Zenon
<1>3. CASE pc < 38
  <2>1. pc' < 40
    BY <1>0, <1>1, <1>2, <1>3 DEF Advance
  <2> QED
    BY <2>1 DEF TaskGoal
<1>4. CASE pc >= 40
  <2>1. LateTraffic'
    BY <1>0, <1>4, PollingDelivers, Zenon
  <2> QED
    BY <2>1 DEF TaskGoal
<1>5. pc < 38 \/ pc >= 40
  BY <1>0, <1>1
<1> QED
  BY <1>3, <1>4, <1>5

\* What is read or written before that.
LEMMA ConfigDelivers ==
  KeyboardInv /\ ((\E port : SwitchedPort(port)) \/ DetectPort2 \/ TurnOn) => TaskGoal
<1>0. SUFFICES ASSUME KeyboardInv, (\E port : SwitchedPort(port)) \/ DetectPort2 \/ TurnOn
               PROVE  TaskGoal
  OBVIOUS
<1>1. SetUpInv
  BY <1>0, InvParts, Zenon
<1>2. ASSUME GoesOn, pc < 30 PROVE TaskGoal
  <2>1. Advance
    BY <1>1, <1>2, Going, Zenon
  <2> QED
    BY <1>2, <2>1 DEF Advance, TaskGoal
<1>3. ASSUME NEW port, SwitchedPort(port) PROVE TaskGoal
  <2>1. GoesOn /\ pc < 30
    BY <1>3 DEF SwitchedPort
  <2> QED
    BY <1>2, <2>1
<1>4. DetectPort2 => TaskGoal
  <2>1. DetectPort2 => pc' \in 1 .. 18
    BY <1>1, Detecting, DetectingEarly, Zenon
  <2> QED
    BY <2>1 DEF TaskGoal
<1>5. TurnOn => TaskGoal
  <2> SUFFICES ASSUME TurnOn PROVE TaskGoal
    OBVIOUS
  <2>1. pc = 18 /\ GoesOn
    BY <1>1, TurningOn, Zenon DEF WritesBack
  <2>2. pc < 30
    BY <2>1
  <2> QED
    BY <1>2, <2>1, <2>2
<1> QED
  BY <1>0, <1>3, <1>4, <1>5, Zenon

\* When keyboard_scancode_set has read the configuration there is nothing on its way.
LEMMA TranslationDelivers == KeyboardInv /\ TurnTranslationOff => TaskGoal
<1>0. SUFFICES ASSUME KeyboardInv, TurnTranslationOff PROVE TaskGoal
  OBVIOUS
<1>1. HardwareTyped /\ KeyboardTraffic /\ pc = 39 /\ Polled
  BY <1>0, InvParts, TurningTranslationOff, Zenon DEF WritesBack
<1>2. Nothing'
  <2>1. Expected(0, ByteOf(config))
    BY <1>1 DEF KeyboardTraffic
  <2> QED
    BY <1>1, <2>1, ReadsConfig, Zenon
<1>3. LateNow' /\ SilentNow'
  BY <1>2 DEF Nothing, LateNow, SilentNow, NoByte
<1> QED
  BY <1>3, Zenon DEF LateTraffic, TaskGoal

\* What the task hears, or waits for in vain, keeps the traffic.
LEMMA AwaitingDelivers ==
  KeyboardInv /\ LateTraffic
    /\ (AwaitAnswer \/ AwaitAny \/ AwaitReset \/ AwaitTimesOut \/ ps2_flush \/ FlushByte)
  => TaskGoal
<1>0. SUFFICES ASSUME KeyboardInv, LateTraffic,
                      AwaitAnswer \/ AwaitAny \/ AwaitReset \/ AwaitTimesOut \/ ps2_flush
                      \/ FlushByte
               PROVE  TaskGoal
  OBVIOUS
<1>1. HardwareTyped /\ SetUpInv
  BY <1>0, InvParts, Zenon
<1>2. \/ At("await") \/ At("await any") \/ At("await reset") \/ At("flush")
  BY <1>0, Zenon DEF AwaitAnswer, AwaitAny, AwaitReset, AwaitTimesOut, ps2_flush, FlushByte
<1>3. pc \notin {38, 39}
  <2>1. \/ pc \in {7, 12, 25, 28, 31, 33, 35, 37, 41, 43, 45, 47, 49, 51}
        \/ pc \in {14} \/ pc \in {20, 22} \/ pc \in {3, 23, 26, 29, 53}
    BY <1>1, <1>2, Places, Zenon
  <2> QED
    BY <2>1
<1>4. /\ device' = device /\ (outbuf' = NoByte \/ outbuf' = outbuf)
      /\ second' = second /\ polling' = polling
  <2>1. AwaitAnswer \/ AwaitAny \/ AwaitReset \/ FlushByte => Poll
    BY Zenon DEF AwaitAnswer, AwaitAny, AwaitReset, FlushByte
  <2>2. AwaitTimesOut \/ ps2_flush =>
          device' = device /\ outbuf' = outbuf /\ second' = second /\ polling' = polling
    BY DEF AwaitTimesOut, ps2_flush, hardware, drivers
  <2> QED
    BY <1>0, <2>1, <2>2, Polling, Zenon
<1>5. Proceed \/ pc' = pc
  BY <1>0 DEF AwaitAnswer, AwaitAny, AwaitReset, AwaitTimesOut, LookAfterTimeout, ps2_flush, FlushByte, Stay
<1>6. GoesOn \/ pc' = pc
  BY <1>1, <1>2, <1>4, <1>5, Proceeding
<1> QED
  BY <1>0, <1>1, <1>3, <1>4, <1>6, HearingDelivers, Zenon

\* Nor does it matter for the traffic that ps2_init is over.
LEMMA InitDoneDelivers == KeyboardInv /\ LateTraffic /\ SetInitDone => TaskGoal
<1>0. SUFFICES ASSUME KeyboardInv, LateTraffic, SetInitDone PROVE TaskGoal
  OBVIOUS
<1>1. At("init_done") /\ outbuf' = outbuf /\ device' = device /\ second' = second /\ HardwareTyped
  BY <1>0, InvParts DEF SetInitDone, hardware
<1>2. pc \in {52}
  BY <1>1, Places, Zenon
<1>3. pc >= 40
  BY <1>2
<1> QED
  BY <1>0, <1>1, <1>3, PollingDelivers, Zenon DEF TaskGoal

\* All in all the task lets drivers get their bytes.
LEMMA TaskDelivers == KeyboardInv /\ KeyboardInv' /\ Delivery /\ Task => Delivery'
<1>0. SUFFICES ASSUME KeyboardInv, KeyboardInv', Delivery, Task PROVE Delivery'
  OBVIOUS
<1>1. LateTraffic /\ HardwareTyped /\ SetUpInv /\ SetUpInv'
  BY <1>0, InvParts, Zenon DEF Delivery, KeyboardInv
<1>2. TaskStep
  BY <1>0, <1>1, TaskSteps, Zenon
<1>3. ASSUME NEW op \in {"read config", "test", "reset", "disable", "set", "enable"}, Command(op)
      PROVE  TaskGoal
  <2>1. IsCommand(op)
    BY <1>3, Zenon DEF IsCommand, LateCommand
  <2> QED
    BY <1>0, <1>1, <1>3, <2>1, CommandsDeliver, Zenon
<1>4. ASSUME NEW op \in {"enable port", "disable port"}, SwitchPort(op)
      PROVE  TaskGoal
  <2>1. SwitchedPort(Program[pc].port)
    BY <1>1, <1>4, PortSwitched, Zenon
  <2> QED
    BY <1>0, <2>1, ConfigDelivers, Zenon
<1>5. TaskGoal
  BY <1>0, <1>1, <1>3, <1>4, ConfigDelivers, TranslationDelivers, AwaitingDelivers,
     InitDoneDelivers, Zenon DEF Task
<1>6. CASE pc' < 40
  <2>1. polling' = 0 /\ astray' = astray
    BY <1>2 DEF TaskStep
  <2> QED
    BY <1>0, <1>1, <1>6, <2>1, DeliveredEarly, Zenon
<1>7. CASE LateTraffic'
  BY <1>0, <1>2, <1>7, DeliveredTask, Zenon
<1> QED
  BY <1>5, <1>6, <1>7, Zenon DEF TaskGoal

\* What happens to interrupts and their handlers unless one runs.
Meanwhile == UNCHANGED <<pc, second, init_done, polling, latch, astray>>

\* What is typed or moved waits.
LEMMA UserDelivers == ~ EarlyKeys /\ KeyboardInv /\ Delivery /\ User => Delivery'
<1>0. SUFFICES ASSUME ~ EarlyKeys, KeyboardInv, Delivery, User PROVE Delivery'
  OBVIOUS
<1>1. SetUpInv /\ LateTraffic /\ Requests /\ Leds /\ RightDriver
  BY <1>0, InvParts, Zenon DEF Delivery
<1>2. Meanwhile /\ irr' = irr
  BY <1>0 DEF User, Press, Release, Move, Meanwhile, task, drivers
<1>3. Sends(1) \/ (Sends(2) /\ Present)
  <2>1. ASSUME NEW x \in Movements, NEW y \in Movements, Move(x, y) PROVE Sends(2) /\ Present
    BY <1>1, <2>1, MovingSends DEF Move, Present
  <2>2. \/ \E i \in DOMAIN KeyTable : Press(KeyTable[i]) \/ Release(KeyTable[i])
        \/ \E x, y \in Movements : Move(x, y)
    BY <1>0 DEF User
  <2> QED
    BY <1>0, <1>1, <2>1, <2>2, TypingSends
<1>4. ASSUME NEW p \in {1, 2}, Sends(p), p = 2 => Present
      PROVE  /\ outbuf' = outbuf /\ (LateTraffic => LateTraffic')
             /\ device'[1].answers = device[1].answers
  <2>1. /\ outbuf' = outbuf /\ device'[p].answers = device[p].answers
        /\ \A q \in {0, 1, 2} : q # p => device'[q] = device[q]
    BY <1>4 DEF Sends
  <2>2. pc' = pc /\ second' = second
    BY <1>2 DEF Meanwhile
  <2>3. LateNow => LateNow'
    BY <2>1 DEF LateNow, NoByte, DEVICE_ACK
  <2>4. SilentNow => SilentNow'
    BY <1>4, <2>1, <2>2 DEF SilentNow, Present
  <2>5. device'[1].answers = device[1].answers
    BY <2>1
  <2> QED
    BY <2>1, <2>2, <2>3, <2>4, <2>5, Zenon DEF LateTraffic
<1>5. outbuf' = outbuf /\ LateTraffic' /\ device'[1].answers = device[1].answers
  <2>1. 1 \in {1, 2} /\ 2 \in {1, 2} /\ 1 # 2
    OBVIOUS
  <2> QED
    BY <1>1, <1>3, <1>4, <2>1, Zenon
<1>6. Requests' /\ Leds' /\ RightDriver'
  BY <1>1, <1>2, <1>5 DEF Meanwhile, Requests, Requested, Leds, RightDriver, Present, NoByte,
                          DEVICE_ACK
<1> QED
  BY <1>5, <1>6, Zenon DEF Delivery

\* A step of the controller requests at most the interrupt for the byte it takes.
LEMMA Filling ==
  ASSUME NEW p \in {0, 1, 2}, NEW data, NEW input, Fill(p, data, input)
  PROVE  /\ Meanwhile /\ outbuf = NoByte
         /\ outbuf' = [port |-> p, data |-> data, input |-> input]
         /\ irr' \subseteq irr \union {IF p = 2 THEN 2 ELSE 1}
BY DEF Fill, Meanwhile, task, drivers, IRQOf

\* Early bytes are requested, too, but not delivered.
LEMMA ControllerEarly ==
  KeyboardInv /\ Delivery /\ ~ init_done /\ pc < 40 /\ Meanwhile => Delivery'
<1>0. SUFFICES ASSUME KeyboardInv, Delivery, ~ init_done, pc < 40, Meanwhile PROVE Delivery'
  OBVIOUS
<1>1. pc' = pc /\ init_done' = init_done /\ polling' = polling /\ astray' = astray /\ polling = 0
  BY <1>0 DEF Meanwhile, KeyboardInv, SetUpInv, NotYet
<1>2. LateTraffic'
  BY <1>0, <1>1 DEF LateTraffic, KeyboardInv, SetUpInv, HardwareTyped
<1>3. Requests'
  BY <1>0, <1>1, Zenon DEF Requests
<1>4. Leds'
  BY <1>1 DEF Leds
<1>5. RightDriver'
  BY <1>0, <1>1, Zenon DEF Delivery, RightDriver
<1> QED
  BY <1>2, <1>3, <1>4, <1>5, Zenon DEF Delivery

\* Once the keyboard is set up, the byte is an acknowledgement or input, of a device that is there.
Transferred(p) ==
  /\ p \in {1, 2} /\ (p = 2 => Present) /\ Meanwhile
  /\ outbuf = NoByte
  /\ outbuf' # NoByte /\ outbuf'.port = p /\ (outbuf'.input \/ outbuf'.data = DEVICE_ACK)
  /\ irr' \subseteq irr \union {p}
  /\ \A q \in {0, 1, 2} : q # p => device'[q] = device[q]
  /\ \/ device[p].answers = <<DEVICE_ACK>> /\ device'[p].answers = <<>> /\ ~ outbuf'.input
     \/ device[p].answers = <<>> /\ device'[p].answers = <<>>

\* Both steps of the controller are of this kind.
LEMMA Transferring ==
  ASSUME HardwareTyped, LateNow, SilentNow, NEW p \in {0, 1, 2}, Answer(p) \/ Input(p)
  PROVE  Transferred(p)
<1>1. p # 0 /\ (p = 2 => Present)
  BY DEF LateNow, SilentNow, Answer, Input
<1>2. CASE Answer(p)
  <2>1. device[p].answers # <<>>
    BY <1>2 DEF Answer
  <2>2. device[p].answers = <<DEVICE_ACK>>
    BY <1>1, <2>1 DEF LateNow
  <2>3. Head(<<DEVICE_ACK>>) = DEVICE_ACK /\ Tail(<<DEVICE_ACK>>) = <<>>
    OBVIOUS
  <2>4. Fill(p, DEVICE_ACK, FALSE)
    BY <1>2, <2>2, <2>3 DEF Answer
  <2>5. /\ Meanwhile /\ outbuf = NoByte
        /\ outbuf' = [port |-> p, data |-> DEVICE_ACK, input |-> FALSE]
        /\ irr' \subseteq irr \union {IF p = 2 THEN 2 ELSE 1}
    BY <2>4, Filling
  <2>6. /\ \A q \in {0, 1, 2} : q # p => device'[q] = device[q]
        /\ device'[p] = [device[p] EXCEPT !.answers = Tail(@)]
        /\ device[p] \in Device
    BY <1>2, Answering DEF HardwareTyped
  <2>7. device'[p].answers = <<>>
    BY <2>2, <2>3, <2>6 DEF Device
  <2>8. outbuf' # NoByte /\ outbuf'.port = p /\ outbuf'.data = DEVICE_ACK /\ ~ outbuf'.input
    BY <2>5 DEF NoByte
  <2>9. irr' \subseteq irr \union {p}
    BY <1>1, <2>5
  <2> QED
    BY <1>1, <2>2, <2>5, <2>6, <2>7, <2>8, <2>9 DEF Transferred
<1>3. CASE Input(p)
  <2>1. device[p].answers = <<>> /\ Fill(p, Head(device[p].queue), TRUE)
    BY <1>3 DEF Input
  <2>2. /\ Meanwhile /\ outbuf = NoByte
        /\ outbuf' = [port |-> p, data |-> Head(device[p].queue), input |-> TRUE]
        /\ irr' \subseteq irr \union {IF p = 2 THEN 2 ELSE 1}
    BY <2>1, Filling
  <2>3. /\ \A q \in {0, 1, 2} : q # p => device'[q] = device[q]
        /\ device'[p] = [device[p] EXCEPT !.queue = Tail(@)]
        /\ device[p] \in Device
    BY <1>3, Inputting DEF HardwareTyped
  <2>4. device'[p].answers = <<>>
    BY <2>1, <2>3 DEF Device
  <2>5. outbuf' # NoByte /\ outbuf'.port = p /\ outbuf'.input
    BY <2>2 DEF NoByte
  <2>6. irr' \subseteq irr \union {p}
    BY <1>1, <2>2
  <2> QED
    BY <1>1, <2>1, <2>2, <2>3, <2>4, <2>5, <2>6 DEF Transferred
<1> QED
  BY <1>2, <1>3

\* The transfer keeps what drivers rely on.
LEMMA TransferDelivers ==
  ASSUME NEW p
  PROVE  Transferred(p) /\ Delivery /\ pc >= 40 => Delivery'
<1>0. SUFFICES ASSUME Transferred(p), Delivery, pc >= 40 PROVE Delivery'
  OBVIOUS
<1>1. /\ LateNow /\ SilentNow /\ Requests /\ Leds /\ RightDriver
  BY <1>0, Zenon DEF Delivery, LateTraffic
<1>2. /\ p \in {1, 2} /\ (p = 2 => Present) /\ outbuf = NoByte
      /\ outbuf' # NoByte /\ outbuf'.port = p /\ (outbuf'.input \/ outbuf'.data = DEVICE_ACK)
      /\ irr' \subseteq irr \union {p}
      /\ \A q \in {0, 1, 2} : q # p => device'[q] = device[q]
      /\ \/ device[p].answers = <<DEVICE_ACK>> /\ device'[p].answers = <<>> /\ ~ outbuf'.input
         \/ device[p].answers = <<>> /\ device'[p].answers = <<>>
  BY <1>0 DEF Transferred
<1>3. /\ init_done' = init_done /\ polling' = polling /\ astray' = astray /\ (Present' <=> Present)
  BY <1>0 DEF Transferred, Meanwhile, Present
<1>4. NoByte' = NoByte /\ DEVICE_ACK' = DEVICE_ACK
  BY DEF NoByte, DEVICE_ACK
<1>5. LateNow'
  BY <1>1, <1>2, <1>4 DEF LateNow
<1>6. SilentNow'
  BY <1>1, <1>2, <1>3 DEF SilentNow
<1>7. Requests'
  <2>0. SUFFICES ASSUME init_done, NEW q \in irr'
                 PROVE  q \in {1, 2} /\ outbuf' # NoByte' /\ outbuf'.port = q
    BY <1>3 DEF Requests, Requested
  <2>1. CASE q = p
    BY <1>2, <1>4, <2>1
  <2>2. CASE q \in irr
    <3>1. q = 1 /\ ~ Present
      BY <1>1, <1>2, <2>0, <2>2 DEF Requests, Requested
    <3>2. q = p
      BY <1>2, <3>1
    <3> QED
      BY <1>2, <1>4, <3>2
  <2> QED
    BY <1>2, <2>0, <2>1, <2>2
<1>8. Leds'
  <2>0. SUFFICES ASSUME polling # 0
                 PROVE  /\ ~ Present /\ outbuf' # NoByte' /\ ~ outbuf'.input
                        /\ device'[1].answers = <<>>
    BY <1>1, <1>3 DEF Leds
  <2>1. ~ Present /\ device[1].answers = <<DEVICE_ACK>>
    BY <1>1, <1>2, <2>0 DEF Leds
  <2>2. p = 1 /\ <<DEVICE_ACK>> # <<>>
    BY <1>2, <2>1
  <2> QED
    BY <1>2, <1>4, <2>1, <2>2
<1>9. RightDriver'
  BY <1>1, <1>3, Zenon DEF RightDriver
<1> QED
  BY <1>5, <1>6, <1>7, <1>8, <1>9, Zenon DEF Delivery, LateTraffic

\* All in all devices and controller let drivers get their bytes.
LEMMA ControllerDelivers == KeyboardInv /\ Delivery /\ Controller => Delivery'
<1>0. SUFFICES ASSUME KeyboardInv, Delivery, NEW p \in {0, 1, 2}, Answer(p) \/ Input(p)
               PROVE  Delivery'
  BY DEF Controller, Ports, CONTROLLER
<1>1. HardwareTyped /\ SetUpInv
  BY <1>0, InvParts, Zenon
<1>2. CASE pc < 40
  <2>1. ~ init_done
    BY <1>1, <1>2 DEF SetUpInv, HardwareTyped, NotYet
  <2>2. Meanwhile
    BY <1>0, Filling, Zenon DEF Answer, Input
  <2> QED
    BY <1>0, <1>2, <2>1, <2>2, ControllerEarly, Zenon
<1>3. CASE pc >= 40
  <2>1. LateNow /\ SilentNow
    BY <1>0, <1>3, Zenon DEF Delivery, LateTraffic
  <2> QED
    BY <1>0, <1>1, <1>3, <2>1, Transferring, TransferDelivers
<1> QED
  BY <1>1, <1>2, <1>3 DEF HardwareTyped

-----------------------------------------------------------------------------
\* If no handler polls, not more than one interrupt is due.
LEMMA OneRequest ==
  ASSUME NEW p \in irr
  PROVE  Requests /\ init_done /\ polling = 0 => irr \ {p} = {}
<1>0. SUFFICES ASSUME Requests, init_done, polling = 0, NEW q \in irr PROVE q = p
  OBVIOUS
<1>1. ASSUME NEW r \in irr
      PROVE  (outbuf # NoByte /\ outbuf.port = r) \/ (r = 1 /\ outbuf = NoByte)
  BY <1>0, <1>1, Zenon DEF Requests, Requested
<1>2. /\ (outbuf # NoByte /\ outbuf.port = p) \/ (p = 1 /\ outbuf = NoByte)
      /\ (outbuf # NoByte /\ outbuf.port = q) \/ (q = 1 /\ outbuf = NoByte)
  BY <1>0, <1>1, Zenon
<1> QED
  BY <1>2, Zenon

\* A byte that is handed to a driver, as opposed to an acknowledgement, is the one the interrupt
\* was requested for, and is input.
LEMMA Delivered ==
  ASSUME NEW p \in irr
  PROVE  Requests /\ init_done /\ polling = 0 /\ LateNow /\ Data.data # DEVICE_ACK =>
           Data = outbuf /\ outbuf.port = p /\ outbuf.input
<1>0. SUFFICES ASSUME Requests, init_done, polling = 0, LateNow, Data.data # DEVICE_ACK
               PROVE  Data = outbuf /\ outbuf.port = p /\ outbuf.input
  OBVIOUS
<1>1. \/ outbuf # NoByte /\ outbuf.port = p
      \/ outbuf = NoByte /\ latch.data = DEVICE_ACK
  BY <1>0, Zenon DEF Requests, Requested
<1>2. /\ outbuf # NoByte => Data = outbuf
      /\ outbuf = NoByte => Data = latch
  BY Zenon DEF Data
<1>3. outbuf # NoByte /\ outbuf.port = p /\ Data = outbuf
  BY <1>0, <1>1, <1>2, Zenon
<1>4. outbuf.input \/ outbuf.data = DEVICE_ACK
  BY <1>0, <1>3, Zenon DEF LateNow
<1> QED
  BY <1>0, <1>3, <1>4, Zenon

HandlerStep == UNCHANGED <<pc, second, init_done>>

\* An interrupt is acknowledged without further ado.
LEMMA AcknowledgingDelivers ==
  Delivery /\ HandlerStep /\ irr' \subseteq irr
    /\ UNCHANGED <<outbuf, latch, device, polling, astray>>
  => Delivery'
<1>0. SUFFICES ASSUME Delivery, HandlerStep, irr' \subseteq irr,
                      UNCHANGED <<outbuf, latch, device, polling, astray>>
               PROVE  Delivery'
  OBVIOUS
<1>1. LateTraffic /\ Requests /\ Leds /\ RightDriver
  BY <1>0, Zenon DEF Delivery
<1>2. /\ pc' = pc /\ init_done' = init_done /\ (Present' <=> Present)
      /\ outbuf' = outbuf /\ latch' = latch /\ device' = device /\ polling' = polling
      /\ astray' = astray
  BY <1>0 DEF HandlerStep, Present
<1>3. NoByte' = NoByte /\ DEVICE_ACK' = DEVICE_ACK
  BY DEF NoByte, DEVICE_ACK
<1>4. LateTraffic'
  <2>1. LateNow => LateNow'
    BY <1>2, <1>3 DEF LateNow
  <2>2. SilentNow => SilentNow'
    BY <1>2 DEF SilentNow
  <2> QED
    BY <1>1, <1>2, <2>1, <2>2, Zenon DEF LateTraffic
<1>5. Requests'
  BY <1>0, <1>1, <1>2, <1>3 DEF Requests, Requested
<1>6. Leds'
  BY <1>1, <1>2, <1>3 DEF Leds
<1>7. RightDriver'
  BY <1>1, <1>2, Zenon DEF RightDriver
<1> QED
  BY <1>4, <1>5, <1>6, <1>7, Zenon DEF Delivery

\* A byte is read in a handler, and may be answered with a command for the keyboard.
HandlerReads ==
  /\ HandlerStep /\ init_done /\ outbuf' = NoByte /\ RightDriver'
  /\ polling \in {0, 1, 2} /\ polling' \in {0, 1, 2}
  /\ device'[0] = device[0] /\ device'[2] = device[2]
  /\ \/ polling' = 0 /\ device'[1] = device[1]
     \/ polling' # 0 /\ ~ Present /\ device'[1].answers = <<DEVICE_ACK>>

\* Of what drivers rely on, only the interrupts that are due need a proof for such a step.
LEMMA ReadingDelivers ==
  HandlerReads /\ Delivery /\ pc >= 40 /\ (\A p \in irr' : Requested(p)') /\ irr' \subseteq {1, 2}
  => Delivery'
<1>0. SUFFICES ASSUME HandlerReads, Delivery, pc >= 40, \A p \in irr' : Requested(p)',
                      irr' \subseteq {1, 2}
               PROVE  Delivery'
  OBVIOUS
<1>1. LateNow /\ SilentNow
  BY <1>0, Zenon DEF Delivery, LateTraffic
<1>2. /\ Present' <=> Present
      /\ outbuf' = NoByte /\ polling' \in {0, 1, 2}
      /\ device'[0] = device[0] /\ device'[2] = device[2]
      /\ \/ polling' = 0 /\ device'[1] = device[1]
         \/ polling' # 0 /\ ~ Present /\ device'[1].answers = <<DEVICE_ACK>>
  BY <1>0 DEF HandlerReads, HandlerStep, Present
<1>3. NoByte' = NoByte /\ DEVICE_ACK' = DEVICE_ACK /\ NoByte.port # 2
  BY DEF NoByte, DEVICE_ACK
<1>4. LateNow'
  BY <1>1, <1>2, <1>3 DEF LateNow
<1>5. SilentNow'
  BY <1>1, <1>2, <1>3 DEF SilentNow
<1>6. Requests'
  BY <1>0, Zenon DEF Requests
<1>7. Leds'
  BY <1>2, <1>3 DEF Leds
<1> QED
  BY <1>0, <1>4, <1>5, <1>6, <1>7, Zenon DEF Delivery, LateTraffic, HandlerReads

\* What the command that sets the LEDs changes.
LEMMA LedsObeyed ==
  HardwareTyped /\ Obey("leds", 1) =>
    device'[0] = device[0] /\ device'[2] = device[2] /\ device'[1].answers = <<DEVICE_ACK>>
<1>0. SUFFICES ASSUME HardwareTyped, Obey("leds", 1)
               PROVE  device'[0] = device[0] /\ device'[2] = device[2]
                      /\ device'[1].answers = <<DEVICE_ACK>>
  OBVIOUS
<1>1. "leds" \in Commands /\ "leds" \in {"disable", "set", "enable", "leds"}
  BY DEF Commands
<1>2. /\ \A q \in {0, 1, 2} : q # 1 => device'[q] = device[q]
      /\ device'[1].answers = <<DEVICE_ACK>>
  <2>1. 1 \in {0, 1, 2}
    OBVIOUS
  <2> QED
    BY <1>0, <1>1, <2>1, Obeyed, Zenon
<1> QED
  BY <1>2

\* The cases of an interrupt handler.
Ignores(p) == irr' = irr \ {p} /\ UNCHANGED <<outbuf, latch, device, polling, astray>>
Discards(p) ==
  /\ init_done /\ inb /\ irr' = irr \ {p}
  /\ UNCHANGED <<device, polling, astray>>
HandsOver(p) ==
  /\ init_done /\ inb /\ irr' = irr \ {p}
  /\ Data.data # DEVICE_ACK
  /\ astray' = (astray \/ Data # outbuf \/ Data.port # p \/ ~ Data.input)
  /\ \/ polling' = 1 /\ Obey("leds", 1)
     \/ polling' = 0 /\ device' = device

\* There are no others.
LEMMA HandlingCases ==
  ASSUME NEW p, ps2_handle_interrupt(p)
  PROVE  /\ HandlerStep /\ p \in irr /\ polling = 0
         /\ Ignores(p) \/ Discards(p) \/ HandsOver(p)
<1>1. HandlerStep /\ p \in irr /\ polling = 0 /\ irr' = irr \ {p}
  BY DEF ps2_handle_interrupt, Handle, task, HandlerStep
<1>2. \/ UNCHANGED <<outbuf, latch, device, polling, astray>>
      \/ init_done /\ inb /\ UNCHANGED <<device, polling, astray>>
      \/ /\ init_done /\ Data.data \notin {DEVICE_ACK} /\ inb /\ Deliver(p, Data)
         /\ \/ polling' = 1 /\ Obey("leds", 1)
            \/ polling' = 0 /\ device' = device
  BY DEF ps2_handle_interrupt, Handle, Handles, drivers
<1>3. Deliver(p, Data) => astray' = (astray \/ Data # outbuf \/ Data.port # p \/ ~ Data.input)
  BY DEF Deliver
<1> QED
  BY <1>1, <1>2, <1>3 DEF Ignores, Discards, HandsOver

\* An interrupt handler gives the driver a byte of its device.
LEMMA InterruptDelivers ==
  ASSUME NEW p
  PROVE  SetUpInv /\ Delivery /\ NoLedsWithMouse' /\ ps2_handle_interrupt(p) => Delivery'
<1>0. SUFFICES ASSUME SetUpInv, Delivery, NoLedsWithMouse', ps2_handle_interrupt(p)
               PROVE  Delivery'
  OBVIOUS
<1>1. /\ HandlerStep /\ p \in irr /\ polling = 0
      /\ Ignores(p) \/ Discards(p) \/ HandsOver(p)
  BY <1>0, HandlingCases
<1>2. CASE Ignores(p)
  <2>1. irr' \subseteq irr /\ UNCHANGED <<outbuf, latch, device, polling, astray>>
    BY <1>2 DEF Ignores
  <2> QED
    BY <1>0, <1>1, <2>1, AcknowledgingDelivers, Zenon
<1>3. CASE Discards(p) \/ HandsOver(p)
  <2>1. init_done /\ outbuf' = NoByte /\ irr' = irr \ {p}
    BY <1>3 DEF Discards, HandsOver, inb
  <2>2. Requests /\ RightDriver /\ HardwareTyped /\ LateTraffic
    BY <1>0, Zenon DEF Delivery, SetUpInv
  <2>3. pc >= 40
    BY <1>0, <2>1, <2>2 DEF SetUpInv, NotYet, HardwareTyped
  <2>4. irr' = {}
    BY <1>1, <2>1, <2>2, OneRequest, Zenon
  <2>5. RightDriver'
    <3>1. CASE Discards(p)
      BY <2>2, <3>1, Zenon DEF Discards, RightDriver
    <3>2. CASE HandsOver(p)
      <4>1. LateNow
        BY <2>2, <2>3, Zenon DEF LateTraffic
      <4>2. Data = outbuf /\ outbuf.port = p /\ outbuf.input
        BY <1>1, <2>1, <2>2, <3>2, <4>1, Delivered, Zenon DEF HandsOver
      <4>3. astray' = (astray \/ Data # outbuf \/ Data.port # p \/ ~ Data.input)
        BY <3>2 DEF HandsOver
      <4> QED
        BY <2>2, <4>2, <4>3, Zenon DEF RightDriver
    <3> QED
      BY <1>3, <3>1, <3>2
  <2>6. HandlerReads
    <3>1. CASE polling' = 0 /\ device' = device
      BY <1>1, <2>1, <2>5, <3>1 DEF HandlerReads
    <3>2. CASE polling' = 1 /\ Obey("leds", 1)
      <4>1. ~ Present
        BY <1>0, <1>1, <3>2 DEF NoLedsWithMouse, Present, HandlerStep
      <4>2. /\ device'[0] = device[0] /\ device'[2] = device[2]
            /\ device'[1].answers = <<DEVICE_ACK>>
        BY <2>2, <3>2, LedsObeyed, Zenon
      <4> QED
        BY <1>1, <2>1, <2>5, <3>2, <4>1, <4>2 DEF HandlerReads
    <3> QED
      BY <1>1, <1>3, <3>1, <3>2 DEF Discards, HandsOver
  <2> QED
    BY <1>0, <2>3, <2>4, <2>6, ReadingDelivers
<1> QED
  BY <1>1, <1>2, <1>3

\* A handler that polls reads the acknowledgement; the interrupt that was requested for it finds
\* no more than this acknowledgement.
LEMMA AwaitLedsDelivers == SetUpInv /\ Delivery /\ AwaitLeds => Delivery'
<1>0. SUFFICES ASSUME SetUpInv, Delivery, AwaitLeds PROVE Delivery'
  OBVIOUS
<1>1. /\ polling # 0 /\ ps2_available(1) /\ outbuf' = NoByte /\ latch' = Data
      /\ HandlerStep /\ irr' = irr /\ RightDriver'
      /\ polling' = (polling + 1) % 3
      /\ \/ polling = 1
            /\ device' = [device EXCEPT ![1].answers = <<DEVICE_ACK>>, ![1].argument = FALSE]
         \/ polling # 1 /\ device' = device
  BY <1>0 DEF AwaitLeds, inb, task, HandlerStep, Delivery, RightDriver
<1>2. HardwareTyped /\ LateTraffic /\ Requests /\ Leds /\ init_done /\ pc \in 1 .. 54 /\ pc >= 53
  BY <1>0, <1>1, Zenon DEF Delivery, SetUpInv, HardwareTyped, NotYet
<1>3. pc >= 40 /\ LateNow
  <2>1. pc >= 40
    BY <1>2
  <2> QED
    BY <1>2, <2>1, Zenon DEF LateTraffic
<1>4. polling \in {1, 2} /\ ~ Present /\ outbuf # NoByte /\ ~ outbuf.input
  BY <1>1, <1>2 DEF Leds, ps2_available
<1>5. outbuf.data = DEVICE_ACK /\ outbuf.port \in {1, 2}
  BY <1>3, <1>4, Zenon DEF LateNow
<1>6. latch' = outbuf
  BY <1>1, <1>4, Zenon DEF Data
<1>7. ASSUME NEW q \in irr PROVE q = 1
  <2>1. outbuf.port = q \/ q = 1
    BY <1>2, Zenon DEF Requests, Requested
  <2>2. outbuf.port # 2
    BY <1>1 DEF ps2_available, CONTROLLER, IRQOf
  <2> QED
    BY <1>5, <2>1, <2>2
<1>8. HandlerReads
  <2>1. CASE polling = 1
    <3>1. polling' = 2
      BY <1>1, <2>1
    <3>2. /\ device'[0] = device[0] /\ device'[2] = device[2]
          /\ device'[1].answers = <<DEVICE_ACK>>
      <4> DEFINE d == [device[1] EXCEPT !.answers = <<DEVICE_ACK>>, !.argument = FALSE]
      <4>0. device[1] \in Device
        BY <1>2 DEF HardwareTyped
      <4>1. d.answers = <<DEVICE_ACK>>
        BY <4>0 DEF Device
      <4>2. device' = [device EXCEPT ![1] = d]
        BY <1>1, <1>2, <2>1 DEF HardwareTyped
      <4> HIDE DEF d
      <4> QED
        BY <1>2, <4>1, <4>2 DEF HardwareTyped
    <3> QED
      BY <1>1, <1>2, <1>4, <2>1, <3>1, <3>2 DEF HandlerReads
  <2>2. CASE polling = 2
    <3>1. polling' = 0 /\ device' = device
      BY <1>1, <2>2
    <3> QED
      BY <1>1, <1>2, <2>2, <3>1 DEF HandlerReads
  <2> QED
    BY <1>4, <2>1, <2>2
<1>9. \A q \in irr' : Requested(q)'
  <2>0. SUFFICES ASSUME NEW q \in irr PROVE Requested(q)'
    BY <1>1
  <2>1. q = 1 /\ ~ Present' /\ outbuf' = NoByte' /\ latch'.data = DEVICE_ACK'
    BY <1>1, <1>4, <1>5, <1>6, <1>7 DEF HandlerStep, Present, NoByte, DEVICE_ACK
  <2> QED
    BY <2>1, Zenon DEF Requested
<1>10. irr' \subseteq {1, 2}
  BY <1>1, <1>2 DEF Requests
<1> QED
  BY <1>0, <1>3, <1>8, <1>9, <1>10, ReadingDelivers, Zenon

(* While there is no LED to set with a mouse, whatever an interrupt is     *)
(* requested for is still there when it is handled, and what handlers poll *)
(* for is what comes.                                                      *)
THEOREM DeliveryKept == ASSUME ~ EarlyKeys, Prompt PROVE Spec /\ []NoLedsWithMouse => []Delivery
<1>1. Init => Delivery
  <2>0. SUFFICES ASSUME Init PROVE Delivery
    OBVIOUS
  <2>1. pc = 1 /\ irr = {} /\ polling = 0 /\ ~ astray
    BY <2>0, Zenon DEF Init
  <2> QED
    BY <2>1 DEF Delivery, LateTraffic, Requests, Leds, RightDriver
<1>2. /\ KeyboardInv /\ KeyboardInv' /\ NoLedsWithMouse' /\ Delivery /\ [Next]_vars
      => Delivery'
  <2>0. SUFFICES ASSUME KeyboardInv, KeyboardInv', NoLedsWithMouse', Delivery, [Next]_vars
                 PROVE  Delivery'
    OBVIOUS
  <2>1. SetUpInv
    BY <2>0, InvParts, Zenon
  <2>2. CASE UNCHANGED vars
    <3>1. /\ HandlerStep /\ irr' \subseteq irr
          /\ UNCHANGED <<outbuf, latch, device, polling, astray>>
      BY <2>2 DEF vars, hardware, task, drivers, HandlerStep
    <3> QED
      BY <2>0, <3>1, AcknowledgingDelivers, Zenon
  <2>3. Handler => Delivery'
    BY <2>0, <2>1, InterruptDelivers, AwaitLedsDelivers, Zenon DEF Handler
  <2> QED
    BY <2>0, <2>2, <2>3, UserDelivers, ControllerDelivers, TaskDelivers, Zenon DEF Next
<1> QED
  BY <1>1, <1>2, KeyboardSetUpKept, PTL DEF Spec

(* Each driver is given the bytes of its own device only, each once and as *)
(* it came, and never an answer to a command, as long as no LED is set     *)
(* while there is a mouse: a handler that polls then takes bytes away from *)
(* under an interrupt that is already requested, which a run shows.        *)
THEOREM GivesToRightDriver ==
  ASSUME ~ EarlyKeys, Prompt
  PROVE  Spec /\ []NoLedsWithMouse => []RightDriver
<1>1. Delivery => RightDriver
  BY Zenon DEF Delivery
<1> QED
  BY <1>1, DeliveryKept, PTL

-----------------------------------------------------------------------------
(* The packets of the mouse.                                               *)

\* Whether a byte of a packet is in the output buffer, and how far the driver will be with it.
Coming == outbuf.port = 2 /\ outbuf.input
Position == packet_len + (IF Coming THEN 1 ELSE 0)

\* What the mouse may send; what follows a whole number of packets is the first byte of one.
PacketByte == {FLAG_ALWAYS_ONE} \union Movements
Packets(q, n) ==
  /\ (Len(q) + n) % 3 = 0
  /\ \A i \in 1 .. Len(q) : q[i] \in PacketByte /\ ((i + n) % 3 = 1 => q[i] = FLAG_ALWAYS_ONE)

\* The driver, the output buffer and the mouse together hold whole packets.
InStep ==
  /\ packet_len \in {0, 1, 2}
  /\ Coming => /\ outbuf.data \in PacketByte
               /\ packet_len = 0 => outbuf.data = FLAG_ALWAYS_ONE
  /\ Packets(device[2].queue, Position)
PacketInv == 2 \notin lost => InStep

\* Positions in packets.
LEMMA Remainders ==
  \A m \in Nat : /\ (m + 3) % 3 = m % 3
                 /\ m % 3 = 0 => (m + 1) % 3 = 1 /\ (m + 2) % 3 = 2 /\ (m + 3) % 3 = 0
OBVIOUS

\* Three bytes on, the position is the same.
LEMMA WholePacket ==
  ASSUME NEW q, Len(q) \in Nat
  PROVE  Packets(q, 3) => Packets(q, 0)
<1>0. SUFFICES ASSUME Packets(q, 3) PROVE Packets(q, 0)
  OBVIOUS
<1>1. (Len(q) + 0) % 3 = 0
  <2>1. (Len(q) + 3) % 3 = 0 /\ (Len(q) + 3) % 3 = Len(q) % 3
    BY <1>0, Remainders DEF Packets
  <2> QED
    BY <2>1
<1>2. ASSUME NEW i \in 1 .. Len(q)
      PROVE  q[i] \in PacketByte /\ ((i + 0) % 3 = 1 => q[i] = FLAG_ALWAYS_ONE)
  <2>1. q[i] \in PacketByte /\ ((i + 3) % 3 = 1 => q[i] = FLAG_ALWAYS_ONE)
    BY <1>0, <1>2, Zenon DEF Packets
  <2>2. (i + 3) % 3 = (i + 0) % 3
    <3>1. i \in Nat /\ i + 0 = i
      BY <1>2
    <3> QED
      BY <3>1, Remainders
  <2> QED
    BY <2>1, <2>2, Zenon
<1> QED
  BY <1>1, <1>2, Zenon DEF Packets

\* The mouse appends a packet.
LEMMA PacketAppended ==
  ASSUME NEW q \in Seq(0 .. 255), NEW n \in Nat, NEW x \in Movements, NEW y \in Movements
  PROVE  Packets(q, n) => Packets(q \o <<FLAG_ALWAYS_ONE, x, y>>, n)
<1> DEFINE t == <<FLAG_ALWAYS_ONE, x, y>>
           s == q \o t
<1>0. SUFFICES ASSUME Packets(q, n) PROVE Packets(s, n)
  OBVIOUS
<1>1. x \in 0 .. 255 /\ y \in 0 .. 255 /\ FLAG_ALWAYS_ONE \in 0 .. 255
  <2>1. x \in 0 .. 255 /\ y \in 0 .. 255
    BY Ps2Assumption, Zenon
  <2>2. FLAG_ALWAYS_ONE \in 0 .. 255
    BY DEF FLAG_ALWAYS_ONE
  <2> QED
    BY <2>1, <2>2
<1>2. t \in Seq(0 .. 255) /\ Len(t) = 3
  BY <1>1, Tuple3, Zenon
<1>3. t[1] = FLAG_ALWAYS_ONE /\ t[1] \in PacketByte /\ t[2] \in PacketByte /\ t[3] \in PacketByte
  BY DEF PacketByte
<1> HIDE DEF t
<1>4. /\ Len(s) = Len(q) + Len(t)
      /\ \A i \in 1 .. Len(q) + Len(t) : s[i] = IF i <= Len(q) THEN q[i] ELSE t[i - Len(q)]
  BY <1>2, Joined, Zenon
<1> HIDE DEF s
<1>5. Len(q) \in Nat /\ Len(q) + n \in Nat /\ Len(s) = Len(q) + 3 /\ (Len(q) + n) % 3 = 0
  <2>1. Len(q) \in Nat
    BY LenProperties, Zenon
  <2>2. Len(q) + n \in Nat
    BY <2>1
  <2>3. Len(s) = Len(q) + 3
    BY <1>2, <1>4, Zenon
  <2>4. (Len(q) + n) % 3 = 0
    BY <1>0, Zenon DEF Packets
  <2> QED
    BY <2>1, <2>2, <2>3, <2>4, Zenon
<1>6. (Len(s) + n) % 3 = 0
  <2>1. Len(s) + n = (Len(q) + n) + 3
    BY <1>5
  <2> QED
    BY <1>5, <2>1, Remainders
<1>7. ASSUME NEW i \in 1 .. Len(s)
      PROVE  s[i] \in PacketByte /\ ((i + n) % 3 = 1 => s[i] = FLAG_ALWAYS_ONE)
  <2>1. CASE i \in 1 .. Len(q)
    <3>1. s[i] = q[i]
      BY <1>2, <1>4, <1>5, <2>1
    <3> QED
      BY <1>0, <2>1, <3>1, Zenon DEF Packets
  <2>2. CASE i = Len(q) + 1
    <3>1. s[i] = t[1]
      BY <1>2, <1>4, <1>5, <2>2
    <3> QED
      BY <1>3, <3>1, Zenon
  <2>3. CASE i = Len(q) + 2
    <3>1. s[i] = t[2]
      BY <1>2, <1>4, <1>5, <2>3
    <3>2. (i + n) % 3 # 1
      <4>1. i + n = (Len(q) + n) + 2
        BY <1>5, <2>3
      <4>2. (i + n) % 3 = 2
        BY <1>5, <4>1, Remainders
      <4> QED
        BY <4>2
    <3> QED
      BY <1>3, <3>1, <3>2, Zenon
  <2>4. CASE i = Len(q) + 3
    <3>1. s[i] = t[3]
      BY <1>2, <1>4, <1>5, <2>4
    <3>2. (i + n) % 3 # 1
      <4>1. i + n = (Len(q) + n) + 3
        BY <1>5, <2>4
      <4>2. (i + n) % 3 = 0
        BY <1>5, <4>1, Remainders
      <4> QED
        BY <4>2
    <3> QED
      BY <1>3, <3>1, <3>2, Zenon
  <2> QED
    BY <1>5, <1>7, <2>1, <2>2, <2>3, <2>4
<1> QED
  BY <1>6, <1>7, Zenon DEF Packets

\* A byte of a packet is sent.
LEMMA PacketSent ==
  ASSUME NEW q \in Seq(0 .. 255), q # <<>>, NEW n \in Nat
  PROVE  Packets(q, n) => /\ Packets(Tail(q), n + 1)
                          /\ Head(q) \in PacketByte
                          /\ n = 0 => Head(q) = FLAG_ALWAYS_ONE
<1>0. SUFFICES ASSUME Packets(q, n)
               PROVE  /\ Packets(Tail(q), n + 1)
                      /\ Head(q) \in PacketByte
                      /\ n = 0 => Head(q) = FLAG_ALWAYS_ONE
  OBVIOUS
<1> DEFINE t == Tail(q)
<1>1. /\ Len(t) = Len(q) - 1
      /\ \A i \in 1 .. Len(t) : t[i] = q[i + 1]
  BY HeadTailProperties, Zenon
<1>2. Len(q) \in Nat /\ Len(q) # 0 /\ Head(q) = q[1]
  BY EmptySeq, LenProperties
<1> HIDE DEF t
<1>3. (Len(q) + n) % 3 = 0
  BY <1>0, Zenon DEF Packets
<1>4. (Len(t) + (n + 1)) % 3 = 0
  <2>1. Len(t) + (n + 1) = Len(q) + n
    BY <1>1, <1>2
  <2> QED
    BY <1>3, <2>1
<1>5. ASSUME NEW i \in 1 .. Len(t)
      PROVE  t[i] \in PacketByte /\ ((i + (n + 1)) % 3 = 1 => t[i] = FLAG_ALWAYS_ONE)
  <2>1. i + 1 \in 1 .. Len(q) /\ (i + 1) + n = i + (n + 1) /\ t[i] = q[i + 1]
    BY <1>1, <1>2, <1>5
  <2>2. q[i + 1] \in PacketByte /\ (((i + 1) + n) % 3 = 1 => q[i + 1] = FLAG_ALWAYS_ONE)
    BY <1>0, <2>1, Zenon DEF Packets
  <2> QED
    BY <2>1, <2>2, Zenon
<1>6. Head(q) \in PacketByte /\ (n = 0 => Head(q) = FLAG_ALWAYS_ONE)
  <2>1. 1 \in 1 .. Len(q) /\ (n = 0 => (1 + n) % 3 = 1)
    BY <1>2
  <2> QED
    BY <1>0, <1>2, <2>1, Zenon DEF Packets
<1>7. Packets(t, n + 1)
  BY <1>4, <1>5, Zenon DEF Packets
<1> QED
  BY <1>6, <1>7 DEF t

\* A step that has nothing to do with packets.
Undisturbed ==
  /\ device'[2].queue = device[2].queue /\ packet_len' = packet_len
  /\ outbuf' = outbuf \/ (~ Coming /\ ~ Coming')

\* It keeps them whole.
LEMMA UndisturbedKeeps == InStep /\ Undisturbed => InStep'
<1>0. SUFFICES ASSUME InStep, Undisturbed PROVE InStep'
  OBVIOUS
<1>1. /\ device'[2].queue = device[2].queue /\ packet_len' = packet_len
      /\ outbuf' = outbuf \/ (~ Coming /\ ~ Coming')
  BY <1>0 DEF Undisturbed
<1>2. (Coming' <=> Coming) /\ (Coming' => outbuf' = outbuf)
  BY <1>1 DEF Coming
<1>3. Position' = Position
  BY <1>1, <1>2 DEF Position
<1>4. /\ packet_len \in {0, 1, 2}
      /\ Coming => /\ outbuf.data \in PacketByte
                   /\ packet_len = 0 => outbuf.data = FLAG_ALWAYS_ONE
  BY <1>0, Zenon DEF InStep
<1>5. packet_len' \in {0, 1, 2}
  BY <1>1, <1>4
<1>6. Coming' => /\ outbuf'.data \in PacketByte
                 /\ packet_len' = 0 => outbuf'.data = FLAG_ALWAYS_ONE
  BY <1>1, <1>2, <1>4, Zenon
<1>7. Packets(device'[2].queue, Position')
  BY <1>0, <1>1, <1>3, Zenon DEF InStep
<1>8. Packets(device[2].queue, Position)'
  BY <1>7 DEF Packets, PacketByte, FLAG_ALWAYS_ONE
<1>9. PacketByte' = PacketByte /\ FLAG_ALWAYS_ONE' = FLAG_ALWAYS_ONE
  BY DEF PacketByte, FLAG_ALWAYS_ONE
<1> QED
  BY <1>5, <1>6, <1>8, <1>9 DEF InStep

\* A device that drops part of a packet is known to have lost it.
LEMMA ObeyedPackets ==
  ASSUME NEW op \in Commands, NEW port \in {0, 1, 2}
  PROVE  HardwareTyped /\ Obey(op, port) /\ 2 \notin lost' =>
           2 \notin lost /\ device'[2].queue = device[2].queue
<1>0. SUFFICES ASSUME HardwareTyped, Obey(op, port), 2 \notin lost'
               PROVE  2 \notin lost /\ device'[2].queue = device[2].queue
  OBVIOUS
<1>1. lost' = IF op \in {"reset", "disable"} /\ device[port].queue # <<>>
              THEN lost \union {port} ELSE lost
  BY <1>0, Zenon DEF Obey
<1>2. 2 \notin lost
  BY <1>0, <1>1
<1>3. port = 2 /\ op \in {"reset", "disable"} => device[port].queue = <<>>
  BY <1>0, <1>1
<1>4. /\ \A q \in {0, 1, 2} : q # port => device'[q] = device[q]
      /\ op \in {"reset", "disable"} => device'[port].queue = <<>>
      /\ op \in {"read config", "test", "set", "enable", "leds"} =>
           device'[port].queue = device[port].queue
  BY <1>0, Obeyed, Zenon
<1>5. \/ op \in {"reset", "disable"}
      \/ op \in {"read config", "test", "set", "enable", "leds"}
  BY DEF Commands
<1>6. 2 \in {0, 1, 2}
  OBVIOUS
<1> QED
  BY <1>2, <1>3, <1>4, <1>5, <1>6, Zenon

\* No step of the task takes part of a packet without being known to have lost it.
LEMMA PollUndisturbed ==
  Poll /\ 2 \notin lost' => 2 \notin lost /\ Undisturbed
<1>0. SUFFICES ASSUME Poll, 2 \notin lost' PROVE 2 \notin lost /\ Undisturbed
  OBVIOUS
<1>1. /\ outbuf' = NoByte /\ device' = device /\ packet_len' = packet_len
      /\ lost' = IF outbuf.input THEN lost \union {outbuf.port} ELSE lost
  BY <1>0 DEF Poll, inb, drivers
<1>2. 2 \notin lost /\ ~ Coming
  BY <1>0, <1>1 DEF Coming
<1>3. ~ Coming'
  BY <1>1 DEF Coming, NoByte
<1> QED
  BY <1>1, <1>2, <1>3, Zenon DEF Undisturbed

\* An operation is for a port or the controller.
LEMMA PortsOfOperations == \A i \in 1 .. 53 : 0 \in {0, 1, 2} /\ Program[i].port \in {0, 1, 2}
<1> SUFFICES ASSUME NEW i \in 1 .. 53 PROVE Program[i].port \in {0, 1, 2}
  OBVIOUS
<1>1. Program \in Seq(Operation) /\ Len(Program) = 53
  BY Code, Zenon
<1>2. i \in 1 .. Len(Program)
  BY <1>1
<1>3. Program[i] \in Operation
  BY <1>1, <1>2, ElementOfSeq, Zenon
<1> QED
  BY <1>3 DEF Operation

\* The same for commands, which are for the port of the operation or for the controller.
LEMMA CommandUndisturbed ==
  ASSUME NEW op \in Commands
  PROVE  HardwareTyped /\ Command(op) /\ 2 \notin lost' => 2 \notin lost /\ Undisturbed
<1>0. SUFFICES ASSUME HardwareTyped, Command(op), 2 \notin lost'
               PROVE  2 \notin lost /\ Undisturbed
  OBVIOUS
<1>1. /\ At(op) /\ outbuf' = outbuf
      /\ Obey(op, 0) \/ Obey(op, Program[pc].port)
  BY <1>0, Commanding, Zenon
<1>2. packet_len' = packet_len
  BY <1>0 DEF Command, drivers
<1>3. 0 \in {0, 1, 2} /\ Program[pc].port \in {0, 1, 2}
  <2>1. pc \in 1 .. 53
    BY <1>0, <1>1, Where, Zenon
  <2> QED
    BY <2>1, PortsOfOperations, Zenon
<1>4. 2 \notin lost /\ device'[2].queue = device[2].queue
  BY <1>0, <1>1, <1>3, ObeyedPackets, Zenon
<1> QED
  BY <1>1, <1>2, <1>4, Zenon DEF Undisturbed

\* So packets stay whole, as far as none is lost.
LEMMA TaskUndisturbed == HardwareTyped /\ Task /\ 2 \notin lost' => 2 \notin lost /\ Undisturbed
<1>0. SUFFICES ASSUME HardwareTyped, Task, 2 \notin lost' PROVE 2 \notin lost /\ Undisturbed
  OBVIOUS
<1>1. ASSUME NEW op \in {"read config", "test", "reset", "disable", "set", "enable"}, Command(op)
      PROVE  2 \notin lost /\ Undisturbed
  <2>1. op \in Commands
    BY <1>1, Zenon DEF Commands
  <2> QED
    BY <1>0, <1>1, <2>1, CommandUndisturbed, Zenon
<1>2. ASSUME NEW op, SwitchPort(op) PROVE 2 \notin lost /\ Undisturbed
  BY <1>0, <1>2 DEF SwitchPort, Undisturbed, drivers
<1>3. Poll => 2 \notin lost /\ Undisturbed
  BY <1>0, PollUndisturbed, Zenon
<1>4. DetectPort2 \/ TurnOn \/ TurnTranslationOff => 2 \notin lost /\ Undisturbed
  BY <1>3, Zenon DEF DetectPort2, TurnOn, TurnTranslationOff, AwaitConfig
<1>5. AwaitAnswer \/ AwaitAny \/ AwaitReset \/ FlushByte => 2 \notin lost /\ Undisturbed
  BY <1>3, Zenon DEF AwaitAnswer, AwaitAny, AwaitReset, FlushByte
<1>6. AwaitTimesOut \/ ps2_flush \/ SetInitDone => 2 \notin lost /\ Undisturbed
  BY <1>0 DEF AwaitTimesOut, ps2_flush, SetInitDone, Undisturbed, hardware, drivers
<1> QED
  BY <1>0, <1>1, <1>2, <1>4, <1>5, <1>6, Zenon DEF Task

\* The queue of a device that sends bytes.
LEMMA QueueGrows ==
  ASSUME HardwareTyped, NEW p \in {1, 2}, NEW bytes \in Seq(0 .. 255), Send(p, bytes)
  PROVE  /\ \A q \in {0, 1, 2} : q # p => device'[q] = device[q]
         /\ device'[p].queue = device[p].queue \o bytes
         /\ device[p].queue \in Seq(0 .. 255)
<1>0. device[p] \in Device
  BY DEF HardwareTyped
<1> DEFINE d == [device[p] EXCEPT !.queue = @ \o bytes]
<1>2. d.queue = device[p].queue \o bytes /\ device[p].queue \in Seq(0 .. 255)
  BY <1>0 DEF Device
<1>3. device' = [device EXCEPT ![p] = d]
  BY DEF Send
<1> HIDE DEF d
<1> QED
  BY <1>2, <1>3 DEF HardwareTyped

\* What the mouse sends is a packet.
LEMMA MovePackets ==
  ASSUME HardwareTyped, NEW x \in Movements, NEW y \in Movements
  PROVE  InStep /\ Move(x, y) => InStep'
<1>0. SUFFICES ASSUME InStep, Move(x, y) PROVE InStep'
  OBVIOUS
<1>1. <<FLAG_ALWAYS_ONE, x, y>> \in Seq(0 .. 255)
  <2>1. x \in 0 .. 255 /\ y \in 0 .. 255
    BY Ps2Assumption, Zenon
  <2>2. FLAG_ALWAYS_ONE \in 0 .. 255
    BY DEF FLAG_ALWAYS_ONE
  <2> QED
    BY <2>1, <2>2, Tuple3, Zenon
<1>2. /\ Send(2, <<FLAG_ALWAYS_ONE, x, y>>)
      /\ outbuf' = outbuf /\ packet_len' = packet_len
  BY <1>0 DEF Move, drivers
<1>3. /\ device'[2].queue = device[2].queue \o <<FLAG_ALWAYS_ONE, x, y>>
      /\ device[2].queue \in Seq(0 .. 255)
  BY <1>1, <1>2, QueueGrows
<1>4. (Coming' <=> Coming) /\ Position' = Position
  BY <1>2 DEF Coming, Position
<1>5. Position \in Nat
  BY <1>0 DEF InStep, Position
<1>6. Packets(device'[2].queue, Position')
  <2>1. Packets(device[2].queue, Position)
    BY <1>0, Zenon DEF InStep
  <2>2. Packets(device[2].queue \o <<FLAG_ALWAYS_ONE, x, y>>, Position)
    BY <1>3, <1>5, <2>1, PacketAppended
  <2> QED
    BY <1>3, <1>4, <2>2, Zenon
<1>7. Packets(device[2].queue, Position)'
  BY <1>6 DEF Packets, PacketByte, FLAG_ALWAYS_ONE
<1>8. PacketByte' = PacketByte /\ FLAG_ALWAYS_ONE' = FLAG_ALWAYS_ONE
  BY DEF PacketByte, FLAG_ALWAYS_ONE
<1>9. /\ packet_len \in {0, 1, 2}
      /\ Coming => /\ outbuf.data \in PacketByte
                   /\ packet_len = 0 => outbuf.data = FLAG_ALWAYS_ONE
  BY <1>0, Zenon DEF InStep
<1> QED
  BY <1>2, <1>4, <1>7, <1>8, <1>9 DEF InStep

\* Keys do not matter for packets.
LEMMA KeyUndisturbed ==
  ASSUME HardwareTyped, NEW i \in DOMAIN KeyTable, Press(KeyTable[i]) \/ Release(KeyTable[i])
  PROVE  lost' = lost /\ Undisturbed
<1>1. KeyTable[i].make \in Seq(0 .. 255) /\ KeyTable[i].break \in Seq(0 .. 255)
  BY KeyTableAssumption, SMTT(30) DEF Bytes
<1>2. /\ outbuf' = outbuf /\ packet_len' = packet_len /\ lost' = lost
      /\ Send(1, KeyTable[i].make) \/ Send(1, KeyTable[i].break)
  BY DEF Press, Release, drivers
<1>3. device'[2] = device[2]
  BY <1>1, <1>2, QueueGrows
<1> QED
  BY <1>2, <1>3 DEF Undisturbed

\* Users keep packets whole.
LEMMA UserPackets == HardwareTyped /\ PacketInv /\ User => PacketInv'
<1>0. SUFFICES ASSUME HardwareTyped, PacketInv, User PROVE PacketInv'
  OBVIOUS
<1>1. \/ \E i \in DOMAIN KeyTable : Press(KeyTable[i]) \/ Release(KeyTable[i])
      \/ \E x, y \in Movements : Move(x, y)
  BY <1>0 DEF User
<1>2. ASSUME NEW x \in Movements, NEW y \in Movements, Move(x, y) PROVE PacketInv'
  <2>1. lost' = lost
    BY <1>2 DEF Move
  <2> QED
    BY <1>0, <1>2, <2>1, MovePackets DEF PacketInv
<1>3. ASSUME NEW i \in DOMAIN KeyTable, Press(KeyTable[i]) \/ Release(KeyTable[i])
      PROVE  PacketInv'
  <2>1. lost' = lost /\ Undisturbed
    BY <1>0, <1>3, KeyUndisturbed
  <2> QED
    BY <1>0, <2>1, UndisturbedKeeps DEF PacketInv
<1> QED
  BY <1>1, <1>2, <1>3

\* A byte of a packet gets into the output buffer.
LEMMA InputPackets == HardwareTyped /\ InStep /\ Input(2) => InStep'
<1>0. SUFFICES ASSUME HardwareTyped, InStep, Input(2) PROVE InStep'
  OBVIOUS
<1>1. /\ outbuf = NoByte /\ device[2].queue # <<>>
      /\ outbuf' = [port |-> 2, data |-> Head(device[2].queue), input |-> TRUE]
      /\ device'[2] = [device[2] EXCEPT !.queue = Tail(@)]
      /\ device[2] \in Device
  BY <1>0, Inputting DEF HardwareTyped
<1>2. packet_len' = packet_len
  BY <1>0 DEF Input, Fill, drivers
<1>3. device[2].queue \in Seq(0 .. 255) /\ device'[2].queue = Tail(device[2].queue)
  BY <1>1 DEF Device
<1>4. ~ Coming /\ Coming' /\ outbuf'.data = Head(device[2].queue)
  BY <1>1 DEF Coming, NoByte
<1>5. /\ packet_len \in {0, 1, 2} /\ Packets(device[2].queue, Position)
  BY <1>0, Zenon DEF InStep
<1>6. Position = packet_len /\ Position' = packet_len + 1 /\ packet_len \in Nat
  BY <1>2, <1>4, <1>5 DEF Position
<1>7. /\ Packets(Tail(device[2].queue), Position')
      /\ outbuf'.data \in PacketByte
      /\ packet_len = 0 => outbuf'.data = FLAG_ALWAYS_ONE
  BY <1>1, <1>3, <1>4, <1>5, <1>6, PacketSent
<1>8. Packets(device[2].queue, Position)'
  <2>1. Packets(device'[2].queue, Position')
    BY <1>3, <1>7, Zenon
  <2> QED
    BY <2>1 DEF Packets, PacketByte, FLAG_ALWAYS_ONE
<1>9. PacketByte' = PacketByte /\ FLAG_ALWAYS_ONE' = FLAG_ALWAYS_ONE
  BY DEF PacketByte, FLAG_ALWAYS_ONE
<1> QED
  BY <1>2, <1>5, <1>7, <1>8, <1>9 DEF InStep

\* Devices and controller keep packets whole.
LEMMA ControllerPackets == HardwareTyped /\ PacketInv /\ Controller => PacketInv'
<1>0. SUFFICES ASSUME HardwareTyped, PacketInv, NEW p \in {0, 1, 2}, Answer(p) \/ Input(p)
               PROVE  PacketInv'
  BY DEF Controller, Ports, CONTROLLER
<1>1. lost' = lost /\ packet_len' = packet_len
  BY <1>0 DEF Answer, Input, Fill, drivers
<1>2. CASE Answer(p)
  <2>1. /\ outbuf = NoByte
        /\ outbuf' = [port |-> p, data |-> Head(device[p].answers), input |-> FALSE]
        /\ \A q \in {0, 1, 2} : q # p => device'[q] = device[q]
        /\ device'[p] = [device[p] EXCEPT !.answers = Tail(@)]
        /\ device[p] \in Device
    BY <1>0, <1>2, Answering DEF HardwareTyped
  <2>2. device'[p].queue = device[p].queue
    BY <2>1 DEF Device
  <2>3. ~ Coming /\ ~ Coming' /\ device'[2].queue = device[2].queue
    BY <2>1, <2>2 DEF Coming, NoByte
  <2> QED
    BY <1>0, <1>1, <2>3, UndisturbedKeeps, Zenon DEF PacketInv, Undisturbed
<1>3. CASE Input(p) /\ p # 2
  <2>1. /\ outbuf = NoByte
        /\ outbuf' = [port |-> p, data |-> Head(device[p].queue), input |-> TRUE]
        /\ \A q \in {0, 1, 2} : q # p => device'[q] = device[q]
    BY <1>0, <1>3, Inputting
  <2>2. ~ Coming /\ ~ Coming' /\ device'[2].queue = device[2].queue
    BY <1>3, <2>1 DEF Coming, NoByte
  <2> QED
    BY <1>0, <1>1, <2>2, UndisturbedKeeps, Zenon DEF PacketInv, Undisturbed
<1>4. CASE Input(2)
  BY <1>0, <1>1, <1>4, InputPackets, Zenon DEF PacketInv
<1> QED
  BY <1>0, <1>2, <1>3, <1>4

\* What the cases of an interrupt handler do to packets.
LEMMA HandlingPackets ==
  ASSUME NEW p, ps2_handle_interrupt(p)
  PROVE  /\ lost \subseteq lost'
         /\ \/ packet_len' = packet_len /\ outbuf' = outbuf /\ device' = device
            \/ /\ packet_len' = packet_len /\ device' = device /\ inb
               /\ init_done /\ Data.data = DEVICE_ACK
            \/ /\ init_done /\ inb /\ Data.data # DEVICE_ACK
               /\ IF p = 1 THEN packet_len' = packet_len
                  ELSE packet_len' = mouse_handle_data(packet_len, Data.data)
               /\ device' = device \/ Obey("leds", 1)
<1>1. /\ \/ UNCHANGED <<outbuf, device, packet_len, lost>>
         \/ /\ init_done /\ inb /\ Data.data \in {DEVICE_ACK}
            /\ UNCHANGED <<device, packet_len, lost>>
         \/ /\ init_done /\ Data.data \notin {DEVICE_ACK} /\ inb /\ Deliver(p, Data)
            /\ (Obey("leds", 1) \/ UNCHANGED <<device, lost>>)
  BY DEF ps2_handle_interrupt, Handle, Handles, drivers
<1>2. Obey("leds", 1) => lost \subseteq lost'
  BY DEF Obey
<1>3. Deliver(p, Data) =>
        IF p = 1 THEN packet_len' = packet_len
        ELSE packet_len' = mouse_handle_data(packet_len, Data.data)
  BY DEF Deliver
<1> QED
  BY <1>1, <1>2, <1>3

\* The mouse driver takes a byte of a packet.
LEMMA PacketTaken ==
  ASSUME HardwareTyped
  PROVE  InStep /\ Coming /\ outbuf' = NoByte /\ device'[2].queue = device[2].queue
           /\ packet_len' = mouse_handle_data(packet_len, outbuf.data)
         => InStep'
<1>0. SUFFICES ASSUME InStep, Coming, outbuf' = NoByte, device'[2].queue = device[2].queue,
                      packet_len' = mouse_handle_data(packet_len, outbuf.data)
               PROVE  InStep'
  OBVIOUS
<1>1. /\ packet_len \in {0, 1, 2} /\ (packet_len = 0 => outbuf.data = FLAG_ALWAYS_ONE)
      /\ Packets(device[2].queue, Position)
  BY <1>0, Zenon DEF InStep
<1>2. packet_len' = IF packet_len = 2 THEN 0 ELSE packet_len + 1
  BY <1>0, <1>1 DEF mouse_handle_data, HasFlag, FLAG_ALWAYS_ONE, PACKET_LEN
<1>3. ~ Coming'
  BY <1>0 DEF Coming, NoByte
<1>4. Position = packet_len + 1 /\ Position' = packet_len'
  BY <1>0, <1>1, <1>2, <1>3 DEF Position
<1>5. Len(device[2].queue) \in Nat
  <2>1. device[2] \in Device
    BY DEF HardwareTyped
  <2>2. device[2].queue \in Seq(0 .. 255)
    BY <2>1 DEF Device
  <2> QED
    BY <2>2, LenProperties, Zenon
<1>6. Packets(device'[2].queue, Position')
  <2>1. CASE packet_len = 2
    <3>1. Position = 3 /\ Position' = 0
      BY <1>2, <1>4, <2>1
    <3> QED
      BY <1>0, <1>1, <1>5, <3>1, WholePacket
  <2>2. CASE packet_len # 2
    <3>1. Position' = Position
      BY <1>2, <1>4, <2>2
    <3> QED
      BY <1>0, <1>1, <3>1, Zenon
  <2> QED
    BY <2>1, <2>2
<1>7. Packets(device[2].queue, Position)'
  BY <1>6 DEF Packets, PacketByte, FLAG_ALWAYS_ONE
<1>8. packet_len' \in {0, 1, 2}
  BY <1>1, <1>2
<1> QED
  BY <1>3, <1>7, <1>8, Zenon DEF InStep

\* Handlers keep packets whole if no byte of a packet is taken for an acknowledgement.
LEMMA InterruptPackets ==
  ASSUME NEW p
  PROVE  /\ SetUpInv /\ Delivery /\ InStep /\ DEVICE_ACK \notin Movements
         /\ ps2_handle_interrupt(p)
         => InStep' /\ lost \subseteq lost'
<1>0. SUFFICES ASSUME SetUpInv, Delivery, InStep, DEVICE_ACK \notin Movements,
                      ps2_handle_interrupt(p)
               PROVE  InStep' /\ lost \subseteq lost'
  OBVIOUS
<1>1. /\ lost \subseteq lost'
      /\ \/ packet_len' = packet_len /\ outbuf' = outbuf /\ device' = device
         \/ /\ packet_len' = packet_len /\ device' = device /\ inb
            /\ init_done /\ Data.data = DEVICE_ACK
         \/ /\ init_done /\ inb /\ Data.data # DEVICE_ACK
            /\ IF p = 1 THEN packet_len' = packet_len
               ELSE packet_len' = mouse_handle_data(packet_len, Data.data)
            /\ device' = device \/ Obey("leds", 1)
  BY <1>0, HandlingPackets
<1>2. p \in irr /\ polling = 0
  BY <1>0, HandlingCases
<1>3. HardwareTyped /\ Requests /\ LateTraffic
  BY <1>0, Zenon DEF SetUpInv, Delivery
<1>4. inb => outbuf' = NoByte /\ ~ Coming'
  BY DEF inb, Coming, NoByte
<1>5. CASE packet_len' = packet_len /\ outbuf' = outbuf /\ device' = device
  BY <1>0, <1>1, <1>5, UndisturbedKeeps, Zenon DEF Undisturbed
<1>6. CASE packet_len' = packet_len /\ device' = device /\ inb /\ Data.data = DEVICE_ACK
  <2>1. ~ Coming
    <3>0. SUFFICES ASSUME Coming PROVE FALSE
      OBVIOUS
    <3>1. outbuf # NoByte
      BY <3>0 DEF Coming, NoByte
    <3>2. Data = outbuf
      BY <3>1, Zenon DEF Data
    <3>3. outbuf.data \in PacketByte
      BY <1>0, <3>0, Zenon DEF InStep
    <3>4. outbuf.data = FLAG_ALWAYS_ONE \/ outbuf.data \in Movements
      BY <3>3 DEF PacketByte
    <3>5. FLAG_ALWAYS_ONE # DEVICE_ACK
      BY DEF FLAG_ALWAYS_ONE, DEVICE_ACK
    <3> QED
      BY <1>0, <1>6, <3>2, <3>4, <3>5, Zenon
  <2> QED
    BY <1>0, <1>1, <1>4, <1>6, <2>1, UndisturbedKeeps, Zenon DEF Undisturbed
<1>7. CASE /\ init_done /\ inb /\ Data.data # DEVICE_ACK
           /\ IF p = 1 THEN packet_len' = packet_len
              ELSE packet_len' = mouse_handle_data(packet_len, Data.data)
           /\ device' = device \/ Obey("leds", 1)
  <2>1. LateNow
    <3>1. pc >= 40
      BY <1>0, <1>7 DEF SetUpInv, NotYet, HardwareTyped
    <3> QED
      BY <1>3, <3>1, Zenon DEF LateTraffic
  <2>2. Data = outbuf /\ outbuf.port = p /\ outbuf.input
    BY <1>2, <1>3, <1>7, <2>1, Delivered, Zenon
  <2>3. device'[2].queue = device[2].queue
    BY <1>3, <1>7, LedsObeyed
  <2>4. p \in {1, 2}
    BY <1>2, <1>3, <1>7 DEF Requests
  <2>5. CASE p = 1
    <3>1. ~ Coming /\ packet_len' = packet_len
      BY <1>7, <2>2, <2>5 DEF Coming
    <3> QED
      BY <1>0, <1>1, <1>4, <1>7, <2>3, <3>1, UndisturbedKeeps, Zenon DEF Undisturbed
  <2>6. CASE p = 2
    <3>1. Coming /\ packet_len' = mouse_handle_data(packet_len, outbuf.data)
      BY <1>7, <2>2, <2>6 DEF Coming
    <3> QED
      BY <1>0, <1>1, <1>3, <1>4, <1>7, <2>3, <3>1, PacketTaken, Zenon
  <2> QED
    BY <2>4, <2>5, <2>6
<1> QED
  BY <1>1, <1>5, <1>6, <1>7

\* A handler that polls reads a byte of port 1.
LEMMA AwaitLedsPackets ==
  HardwareTyped /\ AwaitLeds => Undisturbed /\ lost \subseteq lost'
<1>0. SUFFICES ASSUME HardwareTyped, AwaitLeds PROVE Undisturbed /\ lost \subseteq lost'
  OBVIOUS
<1>1. /\ ps2_available(1) /\ outbuf' = NoByte /\ packet_len' = packet_len
      /\ \/ device' = [device EXCEPT ![1].answers = <<DEVICE_ACK>>, ![1].argument = FALSE]
         \/ device' = device
      /\ lost \subseteq lost'
  BY <1>0 DEF AwaitLeds, inb
<1>2. ~ Coming
  BY <1>1 DEF ps2_available, CONTROLLER, IRQOf, Coming
<1>3. ~ Coming'
  BY <1>1 DEF Coming, NoByte
<1>4. device'[2] = device[2]
  BY <1>0, <1>1 DEF HardwareTyped
<1> QED
  BY <1>1, <1>2, <1>3, <1>4 DEF Undisturbed

(* The mouse driver is in step with the packets unless a byte of one was   *)
(* lost by polling, or the mouse can move by an amount that looks like an  *)
(* acknowledgement: each byte that is sent reaches the driver once, in its *)
(* order.                                                                  *)
THEOREM StaysInStep ==
  ASSUME ~ EarlyKeys, Prompt, DEVICE_ACK \notin Movements
  PROVE  Spec /\ []NoLedsWithMouse => []PacketsAligned
<1>1. Init => PacketInv
  <2>0. SUFFICES ASSUME Init PROVE InStep
    BY Zenon DEF PacketInv
  <2>1. packet_len = 0 /\ outbuf = NoByte /\ device[2].queue = <<>>
    BY <2>0, Start, Zenon DEF Init, SetUpInv, EarlyTraffic, Nothing
  <2> QED
    BY <2>1 DEF InStep, Position, Coming, NoByte, Packets
<1>2. KeyboardInv /\ Delivery /\ PacketInv /\ [Next]_vars => PacketInv'
  <2>0. SUFFICES ASSUME KeyboardInv, Delivery, PacketInv, [Next]_vars PROVE PacketInv'
    OBVIOUS
  <2>1. SetUpInv /\ HardwareTyped
    BY <2>0, InvParts, Zenon
  <2>2. CASE UNCHANGED vars
    <3>1. lost' = lost /\ Undisturbed
      BY <2>2 DEF vars, hardware, drivers, Undisturbed
    <3> QED
      BY <2>0, <3>1, UndisturbedKeeps DEF PacketInv
  <2>3. Task => PacketInv'
    BY <2>0, <2>1, TaskUndisturbed, UndisturbedKeeps, Zenon DEF PacketInv
  <2>4. ASSUME NEW p, ps2_handle_interrupt(p) PROVE PacketInv'
    <3>0. SUFFICES ASSUME 2 \notin lost' PROVE InStep'
      BY Zenon DEF PacketInv
    <3>1. lost \subseteq lost'
      BY <2>4, HandlingPackets
    <3>2. InStep
      BY <2>0, <3>0, <3>1 DEF PacketInv
    <3> QED
      BY <2>0, <2>1, <2>4, <3>2, InterruptPackets, Zenon
  <2>5. AwaitLeds => PacketInv'
    <3>0. SUFFICES ASSUME AwaitLeds, 2 \notin lost' PROVE InStep'
      BY Zenon DEF PacketInv
    <3>1. Undisturbed /\ lost \subseteq lost'
      BY <2>1, <3>0, AwaitLedsPackets, Zenon
    <3>2. InStep
      BY <2>0, <3>0, <3>1 DEF PacketInv
    <3> QED
      BY <3>1, <3>2, UndisturbedKeeps, Zenon
  <2>6. Handler => PacketInv'
    BY <2>4, <2>5, Zenon DEF Handler
  <2> QED
    BY <2>0, <2>1, <2>2, <2>3, <2>6, UserPackets, ControllerPackets, Zenon DEF Next
<1>3. PacketInv => PacketsAligned
  <2>0. SUFFICES ASSUME PacketInv, device[2].queue = <<>>, outbuf.port = 2 => ~ outbuf.input,
                        2 \notin lost
                 PROVE  packet_len = 0
    BY Zenon DEF PacketsAligned, Quiet
  <2>1. InStep /\ ~ Coming
    BY <2>0 DEF PacketInv, Coming
  <2>2. packet_len \in {0, 1, 2} /\ Position = packet_len /\ (Len(<<>>) + Position) % 3 = 0
    BY <2>0, <2>1 DEF InStep, Packets, Position
  <2> QED
    BY <2>2
<1> QED
  BY <1>1, <1>2, <1>3, KeyboardSetUpKept, DeliveryKept, PTL DEF Spec

-----------------------------------------------------------------------------
(* The buffer of the keyboard driver.                                      *)

\* A non-empty set of natural numbers has a least member.
LEMMA LeastMember ==
  ASSUME NEW T \in SUBSET Nat, T # {}
  PROVE  \E m \in T : \A n \in T : m <= n
<1> DEFINE Less == {ss \in Nat \X Nat : ss[1] < ss[2]}
<1>1. IsWellFoundedOn(Less, Nat)
  BY NatLessThanWellFounded, Zenon DEF OpToRel
<1> HIDE DEF Less
<1>2. PICK m \in T : \A n \in T : ~ (<<n, m>> \in Less)
  BY <1>1, WFMin, Zenon
<1>3. \A n \in T : ~ (n < m)
  BY <1>2 DEF Less
<1> QED
  BY <1>3

\* A scancode is that of a key or of none.
LEMMA KeycodeIsKey ==
  ASSUME NEW buf
  PROVE  keyboard_get_keycode_from_scancode(buf) \in KeyNames \union {KEY_UNKNOWN}
<1>1. CASE Candidates(buf) = {}
  BY <1>1 DEF keyboard_get_keycode_from_scancode
<1>2. CASE Candidates(buf) # {}
  <2>1. Candidates(buf) \subseteq DOMAIN KeyTable /\ Candidates(buf) \in SUBSET Nat
    BY KeyTableAssumption DEF Candidates
  <2>2. \E i \in Candidates(buf) : \A j \in Candidates(buf) : i <= j
    BY <1>2, <2>1, LeastMember
  <2> DEFINE i == CHOOSE i \in Candidates(buf) : \A j \in Candidates(buf) : i <= j
  <2>3. i \in Candidates(buf)
    BY <2>2
  <2>4. keyboard_get_keycode_from_scancode(buf) = KeyTable[i].name
    BY <1>2 DEF keyboard_get_keycode_from_scancode
  <2> HIDE DEF i
  <2> QED
    BY <2>1, <2>3, <2>4 DEF KeyNames
<1> QED
  BY <1>1, <1>2

\* What belongs to which state of the driver.
Stage(state, buf) ==
  /\ state = "START" => buf = <<>>
  /\ state = "EXTENDED_RECEIVED" => buf = <<EXTENDED_CODE>>
  /\ state = "BREAK_RECEIVED" => buf = <<BREAK_CODE>> \/ buf = <<EXTENDED_CODE, BREAK_CODE>>
  /\ state = "SPECIAL_RECEIVED" => \/ Len(buf) \in {1, 2, 3, 4, 5, 6, 7} /\ buf[1] = 225
                                   \/ Len(buf) \in {2, 3} /\ buf[1] = 224 /\ buf[2] = 18
DriverInv(k) == k \in Driver /\ Stage(k.keyboard_state, k.buf)

\* A scancode that was recognised leaves the driver at its start.
LEMMA Processed ==
  ASSUME NEW k \in Driver, NEW is_makecode \in BOOLEAN
  PROVE  DriverInv(keyboard_process_scancode(k, is_makecode))
<1> DEFINE key == keyboard_get_keycode_from_scancode(k.buf)
           base == IF key \in LockKeys \union {"PAUSE"} THEN k
                   ELSE keyboard_set_key_pressed(k, key, is_makecode)
           event == Event(k, key, is_makecode)
           new == Modified(event)
<1>1. key \in KeyNames \union {KEY_UNKNOWN}
  BY KeycodeIsKey
<1> HIDE DEF key
<1>2. base \in Driver
  <2>1. CASE key \in LockKeys \union {"PAUSE"}
    BY <2>1
  <2>2. CASE key \notin LockKeys \union {"PAUSE"}
    <3>1. base = keyboard_set_key_pressed(k, key, is_makecode)
      BY <2>2
    <3>2. (IF is_makecode THEN k.keys \union {key} ELSE k.keys \ {key})
            \in SUBSET (KeyNames \union {KEY_UNKNOWN})
      BY <1>1 DEF Driver
    <3> QED
      BY <3>1, <3>2 DEF keyboard_set_key_pressed, Driver
  <2> QED
    BY <2>1, <2>2
<1>3. event = [base EXCEPT !.keycode = key, !.pressed = is_makecode,
                           !.keyboard_state = "START", !.buf = <<>>]
  BY DEF Event
<1> HIDE DEF base, event
<1>4. event \in Driver /\ event.keyboard_state = "START" /\ event.buf = <<>>
  <2>1. <<>> \in Seq(Bytes)
    OBVIOUS
  <2> QED
    BY <1>1, <1>2, <1>3, <2>1 DEF Driver
<1>5. new \in Driver /\ new.keyboard_state = "START" /\ new.buf = <<>>
  <2> DEFINE locks == IF event.pressed /\ event.keycode \in LockKeys
                      THEN Toggled(event.locks, event.keycode) ELSE event.locks
             shift == event.keys \intersect ShiftKeys # {}
  <2>1. locks \in SUBSET LockKeys
    BY <1>4 DEF Driver, Toggled
  <2>2. shift \in BOOLEAN
    OBVIOUS
  <2>3. new = [event EXCEPT !.shift = shift, !.locks = locks]
    BY DEF Modified
  <2> HIDE DEF locks, shift
  <2> QED
    BY <1>4, <2>1, <2>2, <2>3 DEF Driver
<1>6. keyboard_process_scancode(k, is_makecode) = new
  BY DEF keyboard_process_scancode, event, key
<1> HIDE DEF new
<1>7. Stage("START", <<>>)
  BY Zenon DEF Stage
<1> QED
  BY <1>5, <1>6, <1>7, Zenon DEF DriverInv

\* Two sequences of one or two elements are equal when their elements are.
LEMMA ShortEqual ==
  ASSUME NEW S, NEW c \in Seq(S), NEW x \in S, NEW y \in S
  PROVE  /\ Len(c) = 1 /\ c[1] = x => c = <<x>>
         /\ Len(c) = 2 /\ c[1] = x /\ c[2] = y => c = <<x, y>>
<1>1. <<x>> \in Seq(S) /\ Len(<<x>>) = 1 /\ <<x>>[1] = x
  OBVIOUS
<1>2. <<x, y>> \in Seq(S) /\ Len(<<x, y>>) = 2 /\ <<x, y>>[1] = x /\ <<x, y>>[2] = y
  OBVIOUS
<1>3. ASSUME Len(c) = 1, c[1] = x PROVE c = <<x>>
  <2>1. \A i \in 1 .. Len(c) : i = 1
    BY <1>3
  <2>2. \A i \in 1 .. Len(c) : c[i] = <<x>>[i]
    BY <1>1, <1>3, <2>1, Zenon
  <2> QED
    BY <1>1, <1>3, <2>2, SeqEqual, Zenon
<1>4. ASSUME Len(c) = 2, c[1] = x, c[2] = y PROVE c = <<x, y>>
  <2>1. \A i \in 1 .. Len(c) : i = 1 \/ i = 2
    BY <1>4
  <2>2. \A i \in 1 .. Len(c) : c[i] = <<x, y>>[i]
    BY <1>2, <1>4, <2>1, Zenon
  <2> QED
    BY <1>2, <1>4, <2>2, SeqEqual, Zenon
<1> QED
  BY <1>3, <1>4, Zenon

\* The first part of a sequence.
LEMMA FirstPart ==
  ASSUME NEW S, NEW c \in Seq(S), NEW n \in Nat, n <= Len(c)
  PROVE  /\ SubSeq(c, 1, n) \in Seq(S) /\ Len(SubSeq(c, 1, n)) = n
         /\ \A i \in 1 .. n : SubSeq(c, 1, n)[i] = c[i]
<1> DEFINE d == SubSeq(c, 1, n)
<1>0. Len(c) \in Nat
  BY LenProperties, Zenon
<1>1. 1 \in Int /\ n \in Int /\ \A i \in 1 .. n : i \in 1 .. Len(c)
  BY <1>0
<1>2. \A i \in 1 .. n : c[i] \in S
  BY <1>1, ElementOfSeq, Zenon
<1>3. /\ d \in Seq(S) /\ Len(d) = IF 1 <= n THEN n - 1 + 1 ELSE 0
      /\ \A i \in 1 .. n - 1 + 1 : d[i] = c[1 + i - 1]
  BY <1>1, <1>2, SubSeqProperties
<1> HIDE DEF d
<1>4. Len(d) = n
  BY <1>3
<1>5. n - 1 + 1 = n /\ \A i \in 1 .. n : 1 + i - 1 = i
  OBVIOUS
<1>6. \A i \in 1 .. n : d[i] = c[i]
  BY <1>3, <1>5
<1> QED
  BY <1>3, <1>4, <1>6 DEF d

\* The first elements of a sequence,
LEMMA FirstElements ==
  ASSUME NEW S, NEW c \in Seq(S), NEW x \in S, NEW y \in S, NEW z \in S
  PROVE  /\ Len(c) >= 2 => (SubSeq(c, 1, 2) = <<x, y>> <=> c[1] = x /\ c[2] = y)
         /\ Len(c) >= 3 /\ SubSeq(c, 1, 3) = <<x, y, z>> => c[1] = x /\ c[2] = y
<1>1. 2 \in Nat /\ 3 \in Nat
  OBVIOUS
<1>2. ASSUME Len(c) >= 2 PROVE SubSeq(c, 1, 2) = <<x, y>> <=> c[1] = x /\ c[2] = y
  <2> DEFINE d == SubSeq(c, 1, 2)
  <2>1. d \in Seq(S) /\ Len(d) = 2 /\ \A i \in 1 .. 2 : d[i] = c[i]
    <3>1. 2 <= Len(c)
      BY <1>2, LenProperties
    <3> QED
      BY <1>1, <3>1, FirstPart, Zenon
  <2> HIDE DEF d
  <2>2. d[1] = c[1] /\ d[2] = c[2]
    BY <2>1
  <2>3. Len(d) = 2 /\ d[1] = x /\ d[2] = y => d = <<x, y>>
    BY <2>1, ShortEqual
  <2>4. <<x, y>>[1] = x /\ <<x, y>>[2] = y
    OBVIOUS
  <2>5. d = <<x, y>> <=> c[1] = x /\ c[2] = y
    BY <2>1, <2>2, <2>3, <2>4, Zenon
  <2> QED
    BY <2>5 DEF d
<1>3. ASSUME Len(c) >= 3, SubSeq(c, 1, 3) = <<x, y, z>> PROVE c[1] = x /\ c[2] = y
  <2> DEFINE d == SubSeq(c, 1, 3)
  <2>1. \A i \in 1 .. 3 : d[i] = c[i]
    <3>1. 3 <= Len(c)
      BY <1>3, LenProperties
    <3> QED
      BY <1>1, <3>1, FirstPart, Zenon
  <2> HIDE DEF d
  <2>2. d[1] = c[1] /\ d[2] = c[2]
    BY <2>1
  <2>3. <<x, y, z>>[1] = x /\ <<x, y, z>>[2] = y
    OBVIOUS
  <2>4. d = <<x, y, z>>
    BY <1>3, Zenon DEF d
  <2> QED
    BY <2>2, <2>3, <2>4, Zenon
<1> QED
  BY <1>2, <1>3, Zenon

\* appending to and shortening small ones.
LEMMA SmallSequences ==
  ASSUME NEW S, NEW x \in S, NEW y \in S
  PROVE  /\ Append(<<>>, x) = <<x>> /\ Append(<<y>>, x) = <<y, x>>
         /\ <<>> \in Seq(S) /\ <<x>> \in Seq(S)
         /\ Front(<<x>>) = <<>> /\ Front(<<y, x>>) = <<y>>
<1>1. Append(<<>>, x) = <<x>>
  <2>1. <<>> \in Seq(S) /\ Len(<<>>) = 0
    BY EmptySeq, Zenon
  <2>2. Append(<<>>, x) \in Seq(S) /\ Len(Append(<<>>, x)) = 1 /\ Append(<<>>, x)[1] = x
    BY <2>1, AppendProperties
  <2> QED
    BY <2>2, ShortEqual, Zenon
<1>8. Append(<<y>>, x) = <<y, x>>
  <2>1. <<y>> \in Seq(S) /\ Len(<<y>>) = 1 /\ <<y>>[1] = y
    OBVIOUS
  <2>2. /\ Append(<<y>>, x) \in Seq(S) /\ Len(Append(<<y>>, x)) = 2
        /\ Append(<<y>>, x)[1] = y /\ Append(<<y>>, x)[2] = x
    BY <2>1, AppendProperties
  <2> DEFINE d == Append(<<y>>, x)
  <2> HIDE DEF d
  <2>3. d \in Seq(S) /\ Len(d) = 2 /\ d[1] = y /\ d[2] = x
    BY <2>2, Zenon DEF d
  <2>4. Len(d) = 2 /\ d[1] = y /\ d[2] = x => d = <<y, x>>
    BY <2>3, ShortEqual
  <2> QED
    BY <2>3, <2>4, Zenon DEF d
<1>2. <<>> \in Seq(S) /\ <<x>> \in Seq(S)
  OBVIOUS
<1>3. Len(<<x>>) = 1 /\ Len(<<y, x>>) = 2 /\ <<y, x>>[1] = y
  OBVIOUS
<1>4. Front(<<x>>) = SubSeq(<<x>>, 1, 0)
  BY <1>3 DEF Front
<1>5. SubSeq(<<x>>, 1, 0) = <<>>
  BY SubSeqEmpty
<1>6. Front(<<y, x>>) = SubSeq(<<y, x>>, 1, 1)
  BY <1>3 DEF Front
<1>7. SubSeq(<<y, x>>, 1, 1) = <<y>>
  <2> DEFINE d == SubSeq(<<y, x>>, 1, 1)
  <2>1. <<y, x>> \in Seq(S) /\ 1 <= Len(<<y, x>>) /\ 1 \in Nat
    BY <1>3, Tuple2
  <2>2. d \in Seq(S) /\ Len(d) = 1 /\ \A i \in 1 .. 1 : d[i] = <<y, x>>[i]
    BY <2>1, FirstPart, Zenon
  <2> HIDE DEF d
  <2>3. Len(d) = 1 /\ d[1] = <<y, x>>[1]
    BY <2>2
  <2>4. d = <<y>>
    BY <1>3, <2>2, <2>3, ShortEqual, Zenon
  <2> QED
    BY <2>4 DEF d
<1> QED
  BY <1>1, <1>8, <1>2, <1>4, <1>5, <1>6, <1>7, Zenon

\* A special scancode is complete or goes on.
LEMMA SpecialProcessed ==
  ASSUME NEW k \in Driver, NEW len \in Nat, NEW is_makecode \in BOOLEAN
  PROVE  Len(k.buf) = len \/ Stage("SPECIAL_RECEIVED", k.buf) =>
           DriverInv(keyboard_process_special_scancode(k, len, is_makecode))
<1> DEFINE new == keyboard_process_special_scancode(k, len, is_makecode)
<1>1. CASE Len(k.buf) = len
  <2>1. new = keyboard_process_scancode(k, is_makecode)
    BY <1>1, Zenon DEF keyboard_process_special_scancode
  <2> QED
    BY <2>1, Processed, Zenon
<1>2. CASE Len(k.buf) # len /\ Stage("SPECIAL_RECEIVED", k.buf)
  <2>1. new = [k EXCEPT !.keyboard_state = "SPECIAL_RECEIVED"]
    BY <1>2, Zenon DEF keyboard_process_special_scancode
  <2> HIDE DEF new
  <2>2. new \in Driver /\ new.keyboard_state = "SPECIAL_RECEIVED" /\ new.buf = k.buf
    BY <2>1 DEF Driver
  <2>3. DriverInv(new)
    BY <1>2, <2>2, Zenon DEF DriverInv
  <2> QED
    BY <2>3 DEF new
<1> QED
  BY <1>1, <1>2

\* What the buffers of special scancodes look like.
PauseCode(c) == Len(c) >= 1 /\ c[1] = 225
PrintMake(c) == Len(c) >= 2 /\ c[1] = 224 /\ c[2] = 18

\* The marks of the driver tell the same.
LEMMA Marks ==
  ASSUME NEW c \in Seq(Bytes)
  PROVE  /\ IS_PAUSE_MK(c) <=> PauseCode(c)
         /\ IS_PR_SC_MK(c) <=> PrintMake(c)
         /\ IS_PR_BR_MK(c) => Len(c) >= 3 /\ c[1] = 224 /\ c[2] = 240
<1>0. Len(c) \in Nat
  BY LenProperties, Zenon
<1>9. 224 \in Bytes /\ 18 \in Bytes /\ 240 \in Bytes /\ 124 \in Bytes
  BY DEF Bytes
<1>1. ASSUME Len(c) >= 2 PROVE SubSeq(c, 1, 2) = <<224, 18>> <=> c[1] = 224 /\ c[2] = 18
  BY <1>1, <1>9, FirstElements
<1>2. ASSUME Len(c) >= 3, SubSeq(c, 1, 3) = <<224, 240, 124>> PROVE c[1] = 224 /\ c[2] = 240
  BY <1>2, <1>9, FirstElements
<1> QED
  BY <1>1, <1>2, Zenon DEF IS_PAUSE_MK, IS_PR_SC_MK, IS_PR_BR_MK, PauseCode, PrintMake

\* How a byte is recognised that belongs to a special scancode,
LEMMA RecognisedSpecial ==
  ASSUME NEW k \in Driver
  PROVE  /\ PauseCode(k.buf) => Recognise(k) = keyboard_process_special_scancode(k, 8, TRUE)
         /\ PrintMake(k.buf) => Recognise(k) = keyboard_process_special_scancode(k, 4, TRUE)
<1>1. k.buf \in Seq(Bytes)
  BY DEF Driver
<1>2. /\ IS_PAUSE_MK(k.buf) <=> PauseCode(k.buf)
      /\ IS_PR_SC_MK(k.buf) <=> PrintMake(k.buf)
      /\ IS_PR_BR_MK(k.buf) => Len(k.buf) >= 3 /\ k.buf[1] = 224 /\ k.buf[2] = 240
  BY <1>1, Marks
<1>3. ~ (PauseCode(k.buf) /\ PrintMake(k.buf))
  BY DEF PauseCode, PrintMake
<1>4. PauseCode(k.buf) \/ PrintMake(k.buf) => ~ IS_PR_BR_MK(k.buf)
  BY <1>2 DEF PauseCode, PrintMake
<1>5. PauseCode(k.buf) => Recognise(k) = keyboard_process_special_scancode(k, 8, TRUE)
  <2>0. SUFFICES ASSUME PauseCode(k.buf)
                 PROVE  Recognise(k) = keyboard_process_special_scancode(k, 8, TRUE)
    OBVIOUS
  <2>1. IS_PAUSE_MK(k.buf) /\ ~ IS_PR_SC_MK(k.buf) /\ ~ IS_PR_BR_MK(k.buf)
    BY <1>2, <1>3, <1>4, <2>0, Zenon
  <2> QED
    BY <2>1 DEF Recognise
<1>6. PrintMake(k.buf) => Recognise(k) = keyboard_process_special_scancode(k, 4, TRUE)
  <2>0. SUFFICES ASSUME PrintMake(k.buf)
                 PROVE  Recognise(k) = keyboard_process_special_scancode(k, 4, TRUE)
    OBVIOUS
  <2>1. ~ IS_PAUSE_MK(k.buf) /\ IS_PR_SC_MK(k.buf) /\ ~ IS_PR_BR_MK(k.buf)
    BY <1>2, <1>3, <1>4, <2>0, Zenon
  <2> QED
    BY <2>1 DEF Recognise
<1> QED
  BY <1>5, <1>6

\* and one that does not.
Ordinary(c) == ~ PauseCode(c) /\ ~ PrintMake(c) /\ ~ IS_PR_BR_MK(c)

\* Recognising it changes its state or completes it.
LEMMA RecognisedOrdinary ==
  ASSUME NEW k \in Driver, Ordinary(k.buf), k.keyboard_state # "SPECIAL_RECEIVED"
  PROVE  \/ /\ Recognise(k) = [k EXCEPT !.keyboard_state = "BREAK_RECEIVED"]
            /\ k.keyboard_state \in {"START", "EXTENDED_RECEIVED"} /\ Last(k.buf) = BREAK_CODE
         \/ /\ Recognise(k) = [k EXCEPT !.keyboard_state = "EXTENDED_RECEIVED"]
            /\ k.keyboard_state = "START" /\ Last(k.buf) = EXTENDED_CODE
         \/ Recognise(k) = keyboard_process_scancode(k, k.keyboard_state # "BREAK_RECEIVED")
<1>1. k.buf \in Seq(Bytes)
  BY DEF Driver
<1>2. ~ IS_PAUSE_MK(k.buf) /\ ~ IS_PR_SC_MK(k.buf) /\ ~ IS_PR_BR_MK(k.buf)
  BY <1>1, Marks, Zenon DEF Ordinary
<1> DEFINE data == Last(k.buf)
<1>3. Recognise(k) =
        CASE k.keyboard_state \in {"START", "EXTENDED_RECEIVED"} /\ data = BREAK_CODE ->
               [k EXCEPT !.keyboard_state = "BREAK_RECEIVED"]
          [] k.keyboard_state = "START" /\ data = EXTENDED_CODE ->
               [k EXCEPT !.keyboard_state = "EXTENDED_RECEIVED"]
          [] k.keyboard_state = "SPECIAL_RECEIVED" -> k
          [] OTHER -> keyboard_process_scancode(k, k.keyboard_state # "BREAK_RECEIVED")
  BY <1>2 DEF Recognise
<1> HIDE DEF data
<1>4. BREAK_CODE # EXTENDED_CODE
  BY DEF BREAK_CODE, EXTENDED_CODE
<1>5. CASE k.keyboard_state \in {"START", "EXTENDED_RECEIVED"} /\ data = BREAK_CODE
  BY <1>3, <1>4, <1>5 DEF data
<1>6. CASE k.keyboard_state = "START" /\ data = EXTENDED_CODE
  BY <1>3, <1>4, <1>6 DEF data
<1>7. CASE /\ ~ (k.keyboard_state \in {"START", "EXTENDED_RECEIVED"} /\ data = BREAK_CODE)
           /\ ~ (k.keyboard_state = "START" /\ data = EXTENDED_CODE)
  BY <1>3, <1>7
<1> QED
  BY <1>5, <1>6, <1>7

\* The byte that follows BREAK_CODE takes its place, every other is appended.
Saved(k, data) ==
  [k EXCEPT !.buf = Append(IF k.keyboard_state = "BREAK_RECEIVED" THEN Front(@) ELSE @, data)]

\* A buffer of a special scancode that grows by a byte.
LEMMA LongerBuffer ==
  ASSUME NEW b \in Seq(Bytes), NEW data \in Bytes,
         \/ Len(b) \in {1, 2, 3, 4, 5, 6, 7} /\ b[1] = 225
         \/ Len(b) \in {2, 3} /\ b[1] = 224 /\ b[2] = 18
  PROVE  \/ Len(Append(b, data)) \in {2, 3, 4, 5, 6, 7, 8} /\ Append(b, data)[1] = 225
         \/ /\ Len(Append(b, data)) \in {3, 4}
            /\ Append(b, data)[1] = 224 /\ Append(b, data)[2] = 18
<1> DEFINE c == Append(b, data)
<1>1. Len(c) = Len(b) + 1
  BY AppendProperties
<1>5. \A i \in 1 .. Len(b) : c[i] = b[i]
  BY AppendProperties
<1>2. Len(b) \in Nat
  BY LenProperties, Zenon
<1> HIDE DEF c
<1>3. (Len(b) >= 1 => c[1] = b[1]) /\ (Len(b) >= 2 => c[2] = b[2])
  BY <1>2, <1>5
<1>4. \/ Len(c) \in {2, 3, 4, 5, 6, 7, 8} /\ c[1] = 225
      \/ Len(c) \in {3, 4} /\ c[1] = 224 /\ c[2] = 18
  <2>1. \A n \in {1, 2, 3, 4, 5, 6, 7} : n >= 1 /\ n + 1 \in {2, 3, 4, 5, 6, 7, 8}
    OBVIOUS
  <2>2. \A n \in {2, 3} : n >= 1 /\ n >= 2 /\ n + 1 \in {3, 4}
    OBVIOUS
  <2> QED
    BY <1>1, <1>3, <2>1, <2>2, ZenonT(40)
<1> QED
  BY <1>4 DEF c

\* A special scancode after a byte was saved.
Complete(c) == Len(c) \in {2, 3, 4, 5, 6, 7, 8} /\ c[1] = 225
Printing(c) == Len(c) \in {3, 4} /\ c[1] = 224 /\ c[2] = 18

\* What the buffer can be then.
LEMMA SavedBuffer ==
  ASSUME NEW k, DriverInv(k), NEW data \in Bytes
  PROVE  /\ Saved(k, data) \in Driver
         /\ Saved(k, data).keyboard_state = k.keyboard_state
         /\ \/ /\ k.keyboard_state \in {"START", "BREAK_RECEIVED"}
               /\ Saved(k, data).buf = <<data>>
            \/ /\ k.keyboard_state \in {"EXTENDED_RECEIVED", "BREAK_RECEIVED"}
               /\ Saved(k, data).buf = <<EXTENDED_CODE, data>>
            \/ /\ k.keyboard_state = "SPECIAL_RECEIVED"
               /\ Complete(Saved(k, data).buf) \/ Printing(Saved(k, data).buf)
<1> DEFINE start == IF k.keyboard_state = "BREAK_RECEIVED" THEN Front(k.buf) ELSE k.buf
           new == Saved(k, data)
<1>1. k \in Driver /\ Stage(k.keyboard_state, k.buf)
  BY Zenon DEF DriverInv
<1>2. /\ k.keyboard_state \in {"START", "BREAK_RECEIVED", "EXTENDED_RECEIVED", "SPECIAL_RECEIVED"}
      /\ k.buf \in Seq(Bytes)
  BY <1>1 DEF Driver
<1>3. new = [k EXCEPT !.buf = Append(start, data)]
  BY <1>1 DEF Saved, Driver
<1>4. EXTENDED_CODE \in Bytes /\ BREAK_CODE \in Bytes
  BY DEF EXTENDED_CODE, BREAK_CODE, Bytes
<1>5. ASSUME start \in Seq(Bytes)
      PROVE  /\ new \in Driver /\ new.keyboard_state = k.keyboard_state
             /\ new.buf = Append(start, data)
  <2> HIDE DEF start, new
  <2>1. Append(start, data) \in Seq(Bytes)
    BY <1>5
  <2> QED
    BY <1>1, <1>3, <2>1 DEF Driver
<1> HIDE DEF new
<1>6. CASE k.keyboard_state = "START"
  <2>1. start = <<>>
    BY <1>1, <1>6 DEF Stage
  <2>2. Append(<<>>, data) = <<data>> /\ <<>> \in Seq(Bytes)
    BY SmallSequences, Zenon
  <2> HIDE DEF start
  <2>3. new \in Driver /\ new.keyboard_state = k.keyboard_state /\ new.buf = <<data>>
    BY <1>5, <2>1, <2>2, Zenon
  <2> QED
    BY <1>6, <2>3 DEF new
<1>7. CASE k.keyboard_state = "EXTENDED_RECEIVED"
  <2>1. start = <<EXTENDED_CODE>>
    BY <1>1, <1>7 DEF Stage
  <2>2. /\ Append(<<EXTENDED_CODE>>, data) = <<EXTENDED_CODE, data>>
        /\ <<EXTENDED_CODE>> \in Seq(Bytes)
    BY <1>4, SmallSequences, Zenon
  <2> HIDE DEF start
  <2>3. /\ new \in Driver /\ new.keyboard_state = k.keyboard_state
        /\ new.buf = <<EXTENDED_CODE, data>>
    BY <1>5, <2>1, <2>2, Zenon
  <2> QED
    BY <1>7, <2>3 DEF new
<1>8. CASE k.keyboard_state = "BREAK_RECEIVED"
  <2>1. start = Front(k.buf)
    BY <1>8
  <2>2. k.buf = <<BREAK_CODE>> \/ k.buf = <<EXTENDED_CODE, BREAK_CODE>>
    BY <1>1, <1>8 DEF Stage
  <2>3. Front(<<BREAK_CODE>>) = <<>>
    BY <1>4, SmallSequences, Zenon
  <2>4. Front(<<EXTENDED_CODE, BREAK_CODE>>) = <<EXTENDED_CODE>>
    BY <1>4, SmallSequences, Zenon
  <2>5. /\ Append(<<>>, data) = <<data>> /\ <<>> \in Seq(Bytes)
        /\ Append(<<EXTENDED_CODE>>, data) = <<EXTENDED_CODE, data>>
        /\ <<EXTENDED_CODE>> \in Seq(Bytes)
    BY <1>4, SmallSequences, Zenon
  <2> HIDE DEF start
  <2>6. start = <<>> \/ start = <<EXTENDED_CODE>>
    BY <2>1, <2>2, <2>3, <2>4, Zenon
  <2>7. /\ new \in Driver /\ new.keyboard_state = k.keyboard_state
        /\ new.buf = <<data>> \/ new.buf = <<EXTENDED_CODE, data>>
    BY <1>5, <2>5, <2>6, Zenon
  <2> QED
    BY <1>8, <2>7 DEF new
<1>9. CASE k.keyboard_state = "SPECIAL_RECEIVED"
  <2>1. start = k.buf
    BY <1>9
  <2>2. \/ Len(k.buf) \in {1, 2, 3, 4, 5, 6, 7} /\ k.buf[1] = 225
        \/ Len(k.buf) \in {2, 3} /\ k.buf[1] = 224 /\ k.buf[2] = 18
    BY <1>1, <1>9, Zenon DEF Stage
  <2> HIDE DEF start
  <2>3. new \in Driver /\ new.keyboard_state = k.keyboard_state /\ new.buf = Append(k.buf, data)
    BY <1>2, <1>5, <2>1, Zenon
  <2> DEFINE b == k.buf
             c == Append(b, data)
  <2>4. \/ Len(c) \in {2, 3, 4, 5, 6, 7, 8} /\ c[1] = 225
        \/ Len(c) \in {3, 4} /\ c[1] = 224 /\ c[2] = 18
    BY <1>2, <2>2, LongerBuffer
  <2>5. /\ new \in Driver /\ new.keyboard_state = k.keyboard_state /\ new.buf = c
    BY <2>3
  <2> HIDE DEF b, c
  <2> QED
    BY <1>9, <2>5, <2>4, Zenon DEF new, Complete, Printing
<1> QED
  BY <1>2, <1>6, <1>7, <1>8, <1>9, Zenon

\* The last element of a short sequence.
LEMMA ShortLast ==
  ASSUME NEW S, NEW x \in S, NEW y \in S
  PROVE  /\ Last(<<x>>) = x /\ Len(<<x>>) = 1 /\ <<x>>[1] = x
         /\ Last(<<y, x>>) = x /\ Len(<<y, x>>) = 2 /\ <<y, x>>[1] = y /\ <<y, x>>[2] = x
BY DEF Last

\* A driver that goes on to another state.
LEMMA Restaged ==
  ASSUME NEW k \in Driver,
         NEW state \in {"START", "BREAK_RECEIVED", "EXTENDED_RECEIVED", "SPECIAL_RECEIVED"},
         Stage(state, k.buf)
  PROVE  DriverInv([k EXCEPT !.keyboard_state = state])
<1> DEFINE new == [k EXCEPT !.keyboard_state = state]
<1>1. new \in Driver /\ new.keyboard_state = state /\ new.buf = k.buf
  BY DEF Driver
<1> HIDE DEF new
<1>2. DriverInv(new)
  BY <1>1, Zenon DEF DriverInv
<1> QED
  BY <1>2 DEF new

\* What a buffer can look like after a byte was saved.
SavedForm(c, data) ==
  c = <<data>> \/ c = <<EXTENDED_CODE, data>> \/ Complete(c) \/ Printing(c)

\* Such a buffer is complete, or that of a special scancode, or of none.
LEMMA SpecialBuffers ==
  ASSUME NEW data \in Bytes, NEW c,
         SavedForm(c, data)
  PROVE  /\ PauseCode(c) => Len(c) = 8 \/ (Len(c) \in {1, 2, 3, 4, 5, 6, 7} /\ c[1] = 225)
         /\ PrintMake(c) => Len(c) = 4 \/ (Len(c) \in {2, 3} /\ c[1] = 224 /\ c[2] = 18)
         /\ ~ (Len(c) >= 3 /\ c[1] = 224 /\ c[2] = 240)
         /\ Complete(c) => PauseCode(c)
         /\ Printing(c) => PrintMake(c)
<1>1. CASE c = <<data>>
  <2>1. Len(c) = 1
    BY <1>1, ShortLast
  <2> QED
    BY <2>1 DEF PauseCode, PrintMake, Complete, Printing
<1>2. CASE c = <<EXTENDED_CODE, data>>
  <2>1. Len(c) = 2 /\ c[1] = EXTENDED_CODE
    BY <1>2, ShortLast
  <2> QED
    BY <2>1 DEF PauseCode, PrintMake, Complete, Printing, EXTENDED_CODE
<1>3. CASE Complete(c)
  BY <1>3 DEF PauseCode, PrintMake, Complete, Printing
<1>4. CASE Printing(c)
  BY <1>4 DEF PauseCode, PrintMake, Complete, Printing
<1> QED
  BY <1>1, <1>2, <1>3, <1>4 DEF SavedForm

\* The driver keeps its buffer within what its state says, whatever the bytes are.
LEMMA HandlesData ==
  ASSUME NEW k, DriverInv(k), NEW data \in Bytes
  PROVE  DriverInv(keyboard_handle_data(k, data))
<1> DEFINE new == Saved(k, data)
           c == new.buf
<1>0. keyboard_handle_data(k, data) = Recognise(new)
  BY DEF keyboard_handle_data, Saved
<1>1. /\ new \in Driver /\ new.keyboard_state = k.keyboard_state
      /\ \/ k.keyboard_state \in {"START", "BREAK_RECEIVED"} /\ c = <<data>>
         \/ /\ k.keyboard_state \in {"EXTENDED_RECEIVED", "BREAK_RECEIVED"}
            /\ c = <<EXTENDED_CODE, data>>
         \/ k.keyboard_state = "SPECIAL_RECEIVED" /\ (Complete(c) \/ Printing(c))
  BY SavedBuffer, Zenon
<1> HIDE DEF new
<1>2. SavedForm(c, data)
  BY <1>1, Zenon DEF SavedForm
<1>3. /\ PauseCode(c) => Len(c) = 8 \/ (Len(c) \in {1, 2, 3, 4, 5, 6, 7} /\ c[1] = 225)
      /\ PrintMake(c) => Len(c) = 4 \/ (Len(c) \in {2, 3} /\ c[1] = 224 /\ c[2] = 18)
      /\ ~ (Len(c) >= 3 /\ c[1] = 224 /\ c[2] = 240)
      /\ Complete(c) => PauseCode(c)
      /\ Printing(c) => PrintMake(c)
  BY <1>2, SpecialBuffers
<1>4. c \in Seq(Bytes)
  BY <1>1 DEF Driver
<1>5. EXTENDED_CODE \in Bytes /\ BREAK_CODE \in Bytes
  BY DEF EXTENDED_CODE, BREAK_CODE, Bytes
<1>6. CASE PauseCode(c)
  <2>1. Len(c) = 8 \/ Stage("SPECIAL_RECEIVED", c)
    BY <1>3, <1>6, Zenon DEF Stage
  <2> QED
    BY <1>0, <1>1, <1>6, <2>1, RecognisedSpecial, SpecialProcessed
<1>7. CASE PrintMake(c)
  <2>1. Len(c) = 4 \/ Stage("SPECIAL_RECEIVED", c)
    BY <1>3, <1>7, Zenon DEF Stage
  <2> QED
    BY <1>0, <1>1, <1>7, <2>1, RecognisedSpecial, SpecialProcessed
<1>8. CASE ~ PauseCode(c) /\ ~ PrintMake(c)
  <2>1. ~ IS_PR_BR_MK(c)
    BY <1>3, <1>4, Marks
  <2>2. Ordinary(c)
    BY <1>8, <2>1, Zenon DEF Ordinary
  <2>3. new.keyboard_state # "SPECIAL_RECEIVED"
    BY <1>1, <1>3, <1>8
  <2>4. /\ Last(<<data>>) = data /\ Last(<<EXTENDED_CODE, data>>) = data
    BY <1>5, ShortLast, Zenon
  <2>5. CASE /\ Recognise(new) = [new EXCEPT !.keyboard_state = "BREAK_RECEIVED"]
             /\ new.keyboard_state \in {"START", "EXTENDED_RECEIVED"} /\ Last(c) = BREAK_CODE
    <3>1. Stage("BREAK_RECEIVED", c)
      <4>1. c = <<BREAK_CODE>> \/ c = <<EXTENDED_CODE, BREAK_CODE>>
        BY <1>1, <2>3, <2>4, <2>5, Zenon
      <4> QED
        BY <4>1, Zenon DEF Stage
    <3> QED
      BY <1>0, <1>1, <2>5, <3>1, Restaged, Zenon
  <2>6. CASE /\ Recognise(new) = [new EXCEPT !.keyboard_state = "EXTENDED_RECEIVED"]
             /\ new.keyboard_state = "START" /\ Last(c) = EXTENDED_CODE
    <3>1. Stage("EXTENDED_RECEIVED", c)
      <4>1. c = <<EXTENDED_CODE>>
        BY <1>1, <2>4, <2>6
      <4> QED
        BY <4>1, Zenon DEF Stage
    <3> QED
      BY <1>0, <1>1, <2>6, <3>1, Restaged, Zenon
  <2>7. CASE Recognise(new) = keyboard_process_scancode(new, new.keyboard_state # "BREAK_RECEIVED")
    BY <1>0, <1>1, <2>7, Processed
  <2> QED
    BY <1>1, <2>2, <2>3, <2>5, <2>6, <2>7, RecognisedOrdinary, Zenon
<1> QED
  BY <1>6, <1>7, <1>8

-----------------------------------------------------------------------------
(* Type correctness.                                                       *)

\* What polling reads, what a keyboard may send, and what it has sent.
LatchTyped == latch \in Byte \union {NoByte}
InputTyped ==
  /\ device[0].queue = <<>> /\ device[1].queue \in Seq(Bytes)
  /\ outbuf.input => outbuf.port \in {1, 2} /\ (outbuf.port = 1 => outbuf.data \in Bytes)
UserTyped == down \subseteq KeyNames /\ strokes \in 0 .. MaxStrokes /\ packets \in 0 .. MaxPackets
HandlerTyped ==
  /\ irr \subseteq {1, 2} /\ polling \in {0, 1, 2} /\ packet_len \in {0, 1, 2} /\ astray \in BOOLEAN
TaskTyped == flushing \in BOOLEAN /\ reset_timeout \in ResetTimeouts /\ init_done \in BOOLEAN
LostTyped == lost \subseteq {1, 2}
Typed ==
  /\ LatchTyped /\ InputTyped /\ UserTyped /\ HandlerTyped /\ TaskTyped /\ LostTyped
  /\ DriverInv(driver)

\* Reading a byte keeps its type.
LEMMA ReadingTyped ==
  HardwareTyped /\ LatchTyped /\ inb =>
    LatchTyped' /\ outbuf' = NoByte /\ ~ outbuf'.input /\ Data \in Byte \union {NoByte}
<1>0. SUFFICES ASSUME HardwareTyped, LatchTyped, inb
               PROVE  LatchTyped' /\ outbuf' = NoByte /\ ~ outbuf'.input
                      /\ Data \in Byte \union {NoByte}
  OBVIOUS
<1>1. Data \in Byte \union {NoByte}
  BY <1>0, Zenon DEF HardwareTyped, LatchTyped, Data
<1>2. outbuf' = NoByte /\ latch' = Data
  BY <1>0, Zenon DEF inb
<1>3. ~ NoByte.input
  BY DEF NoByte
<1>4. latch' \in Byte \union {NoByte}
  BY <1>1, <1>2, Zenon
<1>5. LatchTyped'
  BY <1>4 DEF LatchTyped, Byte, NoByte
<1> QED
  BY <1>1, <1>2, <1>3, <1>5, Zenon

\* The steps of the task: input is only read or dropped.
TaskHears ==
  /\ (outbuf' = outbuf /\ latch' = latch) \/ inb
  /\ \A p \in {0, 1, 2} : device'[p].queue \in {device[p].queue, <<>>}
  /\ flushing' \in {TRUE, FALSE, flushing} /\ init_done' \in {TRUE, init_done}
  /\ reset_timeout' \in ResetTimeouts \union {reset_timeout}
  /\ lost' \subseteq lost \union {1, 2}

\* A step of the task is of this kind.
LEMMA TaskKeepsTypes ==
  HardwareTyped /\ Typed /\ TaskHears /\ UNCHANGED <<user, driver, packet_len>> /\ TaskStep
  => Typed'
<1>0. SUFFICES ASSUME HardwareTyped, Typed, TaskHears, TaskStep,
                      UNCHANGED <<user, driver, packet_len>>
               PROVE  Typed'
  OBVIOUS
<1>1. LatchTyped /\ InputTyped /\ UserTyped /\ HandlerTyped /\ TaskTyped /\ LostTyped
      /\ DriverInv(driver)
  BY <1>0, Zenon DEF Typed
<1>2. LatchTyped' /\ (outbuf' = outbuf \/ ~ outbuf'.input)
  <2>1. CASE inb
    BY <1>0, <1>1, <2>1, ReadingTyped, Zenon
  <2>2. CASE outbuf' = outbuf /\ latch' = latch
    BY <1>1, <2>2 DEF LatchTyped, Byte, NoByte
  <2> QED
    BY <1>0, <2>1, <2>2, Zenon DEF TaskHears
<1>3. InputTyped'
  <2>1. device'[0].queue = <<>>
    BY <1>0, <1>1 DEF TaskHears, InputTyped
  <2>2. device'[1].queue \in Seq(Bytes)
    <3>1. device'[1].queue = device[1].queue \/ device'[1].queue = <<>>
      BY <1>0 DEF TaskHears
    <3>2. <<>> \in Seq(Bytes)
      BY EmptySeq, Zenon
    <3> QED
      BY <1>1, <3>1, <3>2, Zenon DEF InputTyped
  <2>3. outbuf'.input => outbuf'.port \in {1, 2} /\ (outbuf'.port = 1 => outbuf'.data \in Bytes)
    BY <1>1, <1>2, Zenon DEF InputTyped
  <2> QED
    BY <2>1, <2>2, <2>3 DEF InputTyped, Bytes
<1>4. UserTyped'
  BY <1>0, <1>1 DEF UserTyped, user, KeyNames
<1>5. HandlerTyped'
  BY <1>0, <1>1 DEF HandlerTyped, TaskStep
<1>6. TaskTyped'
  BY <1>0, <1>1 DEF TaskTyped, TaskHears
<1>7. LostTyped'
  BY <1>0, <1>1 DEF LostTyped, TaskHears
<1>8. driver' = driver
  BY <1>0, Zenon
<1>9. DriverInv(driver')
  BY <1>1, <1>8, Zenon
<1> QED
  BY <1>2, <1>3, <1>4, <1>5, <1>6, <1>7, <1>9 DEF Typed

\* A command for a device leaves or clears its queue, and may lose what is in it.
LEMMA ObeyingHears ==
  ASSUME NEW op \in Commands, NEW port \in {0, 1, 2}
  PROVE  HardwareTyped /\ Obey(op, port) /\ (op \in {"reset", "disable"} => port \in {1, 2}) =>
           /\ \A p \in {0, 1, 2} : device'[p].queue \in {device[p].queue, <<>>}
           /\ lost' \subseteq lost \union {1, 2}
<1>0. SUFFICES ASSUME HardwareTyped, Obey(op, port), op \in {"reset", "disable"} => port \in {1, 2}
               PROVE  /\ \A p \in {0, 1, 2} : device'[p].queue \in {device[p].queue, <<>>}
                      /\ lost' \subseteq lost \union {1, 2}
  OBVIOUS
<1>1. lost' = IF op \in {"reset", "disable"} /\ device[port].queue # <<>>
              THEN lost \union {port} ELSE lost
  BY <1>0, Zenon DEF Obey
<1>2. /\ \A q \in {0, 1, 2} : q # port => device'[q] = device[q]
      /\ op \in {"reset", "disable"} => device'[port].queue = <<>>
      /\ op \in {"read config", "test", "set", "enable", "leds"} =>
           device'[port].queue = device[port].queue
  BY <1>0, Obeyed, Zenon
<1>3. \/ op \in {"reset", "disable"}
      \/ op \in {"read config", "test", "set", "enable", "leds"}
  BY DEF Commands
<1>4. device'[port].queue = device[port].queue \/ device'[port].queue = <<>>
  BY <1>2, <1>3, Zenon
<1>5. \A p \in {0, 1, 2} : device'[p].queue = device[p].queue \/ device'[p].queue = <<>>
  BY <1>2, <1>4, Zenon
<1>6. lost' = lost \/ (port \in {1, 2} /\ lost' = lost \union {port})
  BY <1>0, <1>1, Zenon
<1>7. lost' \subseteq lost \union {1, 2}
  BY <1>6
<1> QED
  BY <1>5, <1>7

\* A command of the task is for a port, unless it is for the controller.
LEMMA CommandHears ==
  ASSUME NEW op \in Commands
  PROVE  HardwareTyped /\ Command(op) => TaskHears
<1>0. SUFFICES ASSUME HardwareTyped, Command(op) PROVE TaskHears
  OBVIOUS
<1>1. /\ At(op)
      /\ op \in {"read config", "test"} => Obey(op, 0)
      /\ op \notin {"read config", "test"} => Obey(op, Program[pc].port)
  BY <1>0, Commanding, Zenon
<1>2. /\ outbuf' = outbuf /\ latch' = latch /\ flushing' = FALSE /\ init_done' = init_done
      /\ reset_timeout' = "unseen"
  BY <1>0 DEF Command, Proceed
<1>3. 0 \in {0, 1, 2} /\ Program[pc].port \in {0, 1, 2} /\ KnownPort(pc)
  <2>1. pc \in 1 .. 53 /\ KnownPort(pc)
    BY <1>0, <1>1, Where, Zenon
  <2> QED
    BY <2>1, PortsOfOperations, Zenon
<1>4. op \in {"reset", "disable"} => Program[pc].port \in {1, 2}
  <2>0. SUFFICES ASSUME op \in {"reset", "disable"} PROVE Program[pc].port \in {1, 2}
    OBVIOUS
  <2>1. At("reset") \/ At("disable")
    BY <1>1, <2>0, Zenon
  <2>2. pc \in {19, 21} \/ pc \in {24, 27}
    BY <1>0, <2>1, Places, Zenon
  <2>3. pc \in OnlyFirst \/ pc \in OnlySecond
    BY <2>2 DEF OnlyFirst, OnlySecond
  <2>4. Program[pc].port = 1 \/ Program[pc].port = 2
    BY <1>3, <2>3, Zenon DEF KnownPort
  <2> QED
    BY <2>4
<1>5. op \in {"read config", "test"} => op \notin {"reset", "disable"}
  OBVIOUS
<1>6. /\ \A p \in {0, 1, 2} : device'[p].queue \in {device[p].queue, <<>>}
      /\ lost' \subseteq lost \union {1, 2}
  <2>1. CASE op \in {"read config", "test"}
    BY <1>0, <1>1, <1>3, <1>5, <2>1, ObeyingHears, Zenon
  <2>2. CASE op \notin {"read config", "test"}
    BY <1>0, <1>1, <1>3, <1>4, <2>2, ObeyingHears, Zenon
  <2> QED
    BY <2>1, <2>2
<1> QED
  BY <1>2, <1>6 DEF TaskHears, ResetTimeouts

\* Polling loses what is read.
LEMMA PollHears ==
  InputTyped /\ Poll /\ flushing' \in {TRUE, FALSE, flushing} /\ init_done' = init_done
    /\ reset_timeout' \in ResetTimeouts \union {reset_timeout} => TaskHears
<1>0. SUFFICES ASSUME InputTyped, Poll, flushing' \in {TRUE, FALSE, flushing},
                      init_done' = init_done, reset_timeout' \in ResetTimeouts \union {reset_timeout}
               PROVE  TaskHears
  OBVIOUS
<1>1. inb /\ device' = device /\ lost' = IF outbuf.input THEN lost \union {outbuf.port} ELSE lost
  BY <1>0, Zenon DEF Poll
<1>2. outbuf.input => outbuf.port \in {1, 2}
  BY <1>0, Zenon DEF InputTyped
<1>3. lost' \subseteq lost \union {1, 2}
  BY <1>1, <1>2
<1>4. \A p \in {0, 1, 2} : device'[p].queue \in {device[p].queue, <<>>}
  BY <1>1
<1> QED
  BY <1>0, <1>1, <1>3, <1>4, Zenon DEF TaskHears

\* So no step of the task does more.
LEMMA TaskTypes == HardwareTyped /\ InputTyped /\ Task =>
                     TaskHears /\ UNCHANGED <<user, driver, packet_len>>
<1>0. SUFFICES ASSUME HardwareTyped, InputTyped, Task
               PROVE  TaskHears /\ UNCHANGED <<user, driver, packet_len>>
  OBVIOUS
<1> DEFINE Goal == TaskHears /\ UNCHANGED <<user, driver, packet_len>>
<1>1. ASSUME NEW op \in {"read config", "test", "reset", "disable", "set", "enable"}, Command(op)
      PROVE  Goal
  <2>1. op \in Commands
    BY <1>1, Zenon DEF Commands
  <2>2. UNCHANGED <<user, driver, packet_len>>
    BY <1>1 DEF Command, drivers
  <2> QED
    BY <1>0, <1>1, <2>1, <2>2, CommandHears, Zenon
<1> DEFINE Timed == reset_timeout' \in ResetTimeouts \union {reset_timeout}
<1>2. Proceed \/ Stay => flushing' \in {TRUE, FALSE, flushing} /\ init_done' = init_done
  BY DEF Proceed, Stay
<1>10. Proceed => Timed
  BY DEF Proceed, ResetTimeouts
<1>3. ASSUME NEW op, SwitchPort(op) PROVE Goal
  <2>1. Proceed /\ UNCHANGED <<outbuf, latch, device, drivers, user, lost>>
    BY <1>3 DEF SwitchPort
  <2> QED
    BY <1>2, <1>10, <2>1 DEF TaskHears, drivers
<1>4. Poll => UNCHANGED <<user, driver, packet_len>>
  BY DEF Poll, drivers
<1>5. ASSUME NEW op, NEW written, NEW supported, AwaitConfig(op, written, supported) PROVE Goal
  <2>1. Poll /\ flushing' = flushing /\ init_done' = init_done
    BY <1>5 DEF AwaitConfig
  <2>2. flushing' \in {TRUE, FALSE, flushing} /\ Timed
    BY <1>5, <2>1 DEF AwaitConfig
  <2> QED
    BY <1>0, <1>4, <2>1, <2>2, PollHears, Zenon
<1>6. DetectPort2 \/ TurnOn \/ TurnTranslationOff => Goal
  BY <1>5, Zenon DEF DetectPort2, TurnOn, TurnTranslationOff
<1>7. AwaitAnswer \/ AwaitAny \/ AwaitReset \/ FlushByte => Poll /\ (Proceed \/ Stay)
  BY Zenon DEF AwaitAnswer, AwaitAny, AwaitReset, FlushByte
<1>11. AwaitAnswer \/ AwaitAny \/ AwaitReset \/ FlushByte => Timed
  <2>1. AwaitAnswer \/ AwaitAny => Proceed
    BY DEF AwaitAnswer, AwaitAny
  <2>2. AwaitReset => Timed
    BY <1>10 DEF AwaitReset, ResetTimeouts
  <2>3. FlushByte => Timed
    BY DEF FlushByte
  <2> QED
    BY <1>10, <2>1, <2>2, <2>3, Zenon
<1>8. AwaitAnswer \/ AwaitAny \/ AwaitReset \/ FlushByte => Goal
  BY <1>0, <1>2, <1>4, <1>7, <1>11, PollHears, Zenon
<1>9. AwaitTimesOut \/ ps2_flush \/ SetInitDone => Goal
  <2>0. SUFFICES ASSUME AwaitTimesOut \/ ps2_flush \/ SetInitDone PROVE Goal
    OBVIOUS
  <2>1. UNCHANGED <<outbuf, latch, device, user, driver, packet_len, lost>>
    BY <2>0 DEF AwaitTimesOut, ps2_flush, SetInitDone, hardware, drivers
  <2>2. flushing' \in {TRUE, FALSE, flushing} /\ init_done' \in {TRUE, init_done}
    BY <2>0 DEF AwaitTimesOut, LookAfterTimeout, ps2_flush, SetInitDone, Proceed, Stay
  <2>3. Timed
    BY <1>10, <2>0 DEF AwaitTimesOut, LookAfterTimeout, ps2_flush, SetInitDone, ResetTimeouts
  <2> QED
    BY <2>1, <2>2, <2>3 DEF TaskHears
<1> QED
  BY <1>0, <1>1, <1>3, <1>6, <1>8, <1>9, Zenon DEF Task

\* Counting up to a bound.
LEMMA Counting ==
  /\ \A n \in 0 .. MaxStrokes : n < MaxStrokes => n + 1 \in 0 .. MaxStrokes
  /\ \A n \in 0 .. MaxPackets : n < MaxPackets => n + 1 \in 0 .. MaxPackets
<1>1. MaxStrokes \in Nat /\ MaxPackets \in Nat
  BY Ps2Assumption, Zenon
<1> QED
  BY <1>1

\* Users keep types.
LEMMA UserTypes ==
  HardwareTyped /\ Typed /\ User => Typed'
<1>0. SUFFICES ASSUME HardwareTyped, Typed, User PROVE Typed'
  OBVIOUS
<1>1. LatchTyped /\ InputTyped /\ UserTyped /\ HandlerTyped /\ TaskTyped /\ LostTyped
      /\ DriverInv(driver)
  BY <1>0, Zenon DEF Typed
<1>2. /\ \/ \E i \in DOMAIN KeyTable : Press(KeyTable[i]) \/ Release(KeyTable[i])
         \/ \E x, y \in Movements : Move(x, y)
      /\ UNCHANGED <<outbuf, latch, irr, task, drivers, lost, astray>>
  BY <1>0 DEF User, Press, Release, Move
<1>3. LatchTyped'
  BY <1>1, <1>2 DEF LatchTyped, Byte, NoByte
<1>4. HandlerTyped' /\ TaskTyped' /\ LostTyped'
  BY <1>1, <1>2 DEF HandlerTyped, TaskTyped, LostTyped, task, drivers
<1>5. driver' = driver
  BY <1>2 DEF drivers
<1>6. DriverInv(driver')
  BY <1>1, <1>5, Zenon
<1>7. ASSUME NEW x \in Movements, NEW y \in Movements, Move(x, y) PROVE InputTyped' /\ UserTyped'
  <2>1. <<FLAG_ALWAYS_ONE, x, y>> \in Seq(0 .. 255)
    <3>1. x \in 0 .. 255 /\ y \in 0 .. 255
      BY Ps2Assumption, Zenon
    <3>2. FLAG_ALWAYS_ONE \in 0 .. 255
      BY DEF FLAG_ALWAYS_ONE
    <3> QED
      BY <3>1, <3>2, Tuple3, Zenon
  <2>2. Send(2, <<FLAG_ALWAYS_ONE, x, y>>)
    BY <1>7 DEF Move
  <2>3. device'[0] = device[0] /\ device'[1] = device[1]
    <3>1. \A q \in {0, 1, 2} : q # 2 => device'[q] = device[q]
      BY <1>0, <2>1, <2>2, QueueGrows
    <3> QED
      BY <3>1
  <2>4. /\ down' = down /\ strokes' = strokes
        /\ packets < MaxPackets /\ packets' = packets + 1
    BY <1>7 DEF Move
  <2>5. packets' \in 0 .. MaxPackets
    BY <1>1, <2>4, Counting, Zenon DEF UserTyped
  <2>7. UserTyped'
    BY <1>1, <2>4, <2>5 DEF UserTyped, KeyNames
  <2>6. InputTyped'
    BY <1>1, <1>2, <2>3 DEF InputTyped, Bytes
  <2> QED
    BY <2>6, <2>7
<1>8. ASSUME NEW i \in DOMAIN KeyTable, Press(KeyTable[i]) \/ Release(KeyTable[i])
      PROVE  InputTyped' /\ UserTyped'
  <2>1. KeyTable[i].make \in Seq(Bytes) /\ KeyTable[i].break \in Seq(Bytes)
    BY KeyTableAssumption
  <2>2. PICK bytes \in Seq(Bytes) : Send(1, bytes)
    BY <1>8, <2>1 DEF Press, Release
  <2>3. bytes \in Seq(0 .. 255)
    BY <2>2 DEF Bytes
  <2>4. device'[0] = device[0] /\ device'[1].queue = device[1].queue \o bytes
    BY <1>0, <2>2, <2>3, QueueGrows
  <2>5. device'[1].queue \in Seq(Bytes)
    BY <1>1, <2>2, <2>4, Joined, Zenon DEF InputTyped
  <2>6. KeyTable[i].name \in KeyNames
    BY DEF KeyNames
  <2>7. /\ down' = down \union {KeyTable[i].name} \/ down' = down \ {KeyTable[i].name}
        /\ strokes < MaxStrokes /\ strokes' = strokes + 1 /\ packets' = packets
    BY <1>8 DEF Press, Release, CanType
  <2>8. down' \subseteq KeyNames
    BY <1>1, <2>6, <2>7 DEF UserTyped
  <2>9. strokes' \in 0 .. MaxStrokes /\ packets' \in 0 .. MaxPackets
    BY <1>1, <2>7, Counting, Zenon DEF UserTyped
  <2>10. UserTyped'
    BY <2>8, <2>9 DEF UserTyped, KeyNames
  <2>11. InputTyped'
    BY <1>1, <1>2, <2>4, <2>5 DEF InputTyped, Bytes
  <2> QED
    BY <2>10, <2>11
<1>9. InputTyped' /\ UserTyped'
  BY <1>2, <1>7, <1>8
<1> QED
  BY <1>3, <1>4, <1>6, <1>9 DEF Typed

\* What devices put into the output buffer.
LEMMA ControllerTypes ==
  HardwareTyped /\ Typed /\ Controller => Typed'
<1>0. SUFFICES ASSUME HardwareTyped, Typed, NEW p \in {0, 1, 2}, Answer(p) \/ Input(p)
               PROVE  Typed'
  BY DEF Controller, Ports, CONTROLLER
<1>1. LatchTyped /\ InputTyped /\ UserTyped /\ HandlerTyped /\ TaskTyped /\ LostTyped
      /\ DriverInv(driver)
  BY <1>0, Zenon DEF Typed
<1>2. /\ UNCHANGED <<latch, task, drivers, user, lost, astray>>
      /\ irr' \subseteq irr \union {1, 2}
  BY <1>0 DEF Answer, Input, Fill, IRQOf
<1>3. LatchTyped'
  BY <1>1, <1>2 DEF LatchTyped, Byte, NoByte
<1>4. HandlerTyped' /\ TaskTyped' /\ LostTyped' /\ UserTyped'
  BY <1>1, <1>2 DEF HandlerTyped, TaskTyped, LostTyped, UserTyped, task, drivers, user, KeyNames
<1>5. driver' = driver
  BY <1>2 DEF drivers
<1>6. DriverInv(driver')
  BY <1>1, <1>5, Zenon
<1>7. ASSUME Answer(p) PROVE InputTyped'
  <2>1. /\ outbuf' = [port |-> p, data |-> Head(device[p].answers), input |-> FALSE]
        /\ \A q \in {0, 1, 2} : q # p => device'[q] = device[q]
        /\ device'[p] = [device[p] EXCEPT !.answers = Tail(@)]
        /\ device[p] \in Device
    BY <1>0, <1>7, Answering DEF HardwareTyped
  <2>2. device'[p].queue = device[p].queue
    BY <2>1 DEF Device
  <2>3. device'[0].queue = device[0].queue /\ device'[1].queue = device[1].queue
    BY <2>1, <2>2
  <2>4. ~ outbuf'.input
    BY <2>1
  <2> QED
    BY <1>1, <2>3, <2>4 DEF InputTyped, Bytes
<1>8. ASSUME Input(p) PROVE InputTyped'
  <2>1. /\ device[p].queue # <<>>
        /\ outbuf' = [port |-> p, data |-> Head(device[p].queue), input |-> TRUE]
        /\ \A q \in {0, 1, 2} : q # p => device'[q] = device[q]
        /\ device'[p] = [device[p] EXCEPT !.queue = Tail(@)]
        /\ device[p] \in Device
    BY <1>0, <1>8, Inputting DEF HardwareTyped
  <2>2. device'[p].queue = Tail(device[p].queue)
    BY <2>1 DEF Device
  <2>3. p # 0 /\ device'[0].queue = <<>>
    BY <1>1, <2>1 DEF InputTyped
  <2>4. device'[1].queue \in Seq(Bytes) /\ (p = 1 => Head(device[1].queue) \in Bytes)
    <3>1. device[1].queue \in Seq(Bytes)
      BY <1>1, Zenon DEF InputTyped
    <3>2. CASE p = 1
      <4>1. /\ Head(device[1].queue) \in Bytes
            /\ Tail(device[1].queue) \in Seq(Bytes)
        BY <2>1, <3>1, <3>2, HeadTailProperties, Zenon
      <4> QED
        BY <2>2, <3>2, <4>1, Zenon
    <3>3. CASE p # 1
      BY <2>1, <3>1, <3>3
    <3> QED
      BY <3>2, <3>3
  <2>5. outbuf'.port = p /\ (p = 1 => outbuf'.data \in Bytes)
    BY <2>1, <2>4
  <2> QED
    BY <2>3, <2>4, <2>5 DEF InputTyped, Bytes
<1> QED
  BY <1>0, <1>3, <1>4, <1>6, <1>7, <1>8 DEF Typed

\* Obeying SET_LEDS leaves what has not been sent.
LEMMA LedsHear ==
  HardwareTyped /\ Obey("leds", 1) =>
    /\ device'[0].queue = device[0].queue /\ device'[1].queue = device[1].queue
    /\ lost' = lost
<1>0. SUFFICES ASSUME HardwareTyped, Obey("leds", 1)
               PROVE  /\ device'[0].queue = device[0].queue /\ device'[1].queue = device[1].queue
                      /\ lost' = lost
  OBVIOUS
<1>1. "leds" \in Commands /\ 1 \in {0, 1, 2}
  BY DEF Commands
<1>2. /\ \A q \in {0, 1, 2} : q # 1 => device'[q] = device[q]
      /\ "leds" \in {"read config", "test", "set", "enable", "leds"} =>
           device'[1].queue = device[1].queue
  BY <1>0, <1>1, Obeyed, Zenon
<1>3. lost' = lost
  BY <1>0 DEF Obey
<1> QED
  BY <1>2, <1>3

\* What a handler does to the drivers and to what is counted.
LEMMA HandlingTypes ==
  ASSUME NEW p, ps2_handle_interrupt(p)
  PROVE  /\ irr' = irr \ {p} /\ p \in irr /\ polling = 0
         /\ UNCHANGED <<task, user>>
         /\ \/ UNCHANGED <<outbuf, latch, device, polling, driver, packet_len, lost, astray>>
            \/ /\ init_done /\ inb
               /\ UNCHANGED <<device, polling, driver, packet_len, lost, astray>>
            \/ /\ init_done /\ inb /\ Data.data # DEVICE_ACK /\ Deliver(p, Data)
               /\ \/ polling' = 1 /\ Obey("leds", 1)
                  \/ polling' = 0 /\ UNCHANGED <<device, lost>>
BY DEF ps2_handle_interrupt, Handle, Handles, drivers

\* What a driver is given is of its type.
LEMMA DeliveredTypes ==
  ASSUME NEW p \in {1, 2}
  PROVE  /\ Deliver(p, Data) /\ DriverInv(driver) /\ packet_len \in {0, 1, 2}
         /\ astray \in BOOLEAN /\ (p = 1 => Data.data \in Bytes)
         => DriverInv(driver') /\ packet_len' \in {0, 1, 2} /\ astray' \in BOOLEAN
<1>0. SUFFICES ASSUME Deliver(p, Data), DriverInv(driver), packet_len \in {0, 1, 2},
                      astray \in BOOLEAN, p = 1 => Data.data \in Bytes
               PROVE  DriverInv(driver') /\ packet_len' \in {0, 1, 2} /\ astray' \in BOOLEAN
  OBVIOUS
<1>1. astray' = (astray \/ Data # outbuf \/ Data.port # p \/ ~ Data.input)
  BY <1>0, Zenon DEF Deliver
<1>2. astray' \in BOOLEAN
  BY <1>0, <1>1, Zenon
<1>3. CASE p = 1
  <2>1. driver' = keyboard_handle_data(driver, Data.data) /\ packet_len' = packet_len
    BY <1>0, <1>3, Zenon DEF Deliver
  <2> QED
    BY <1>0, <1>2, <1>3, <2>1, HandlesData, Zenon
<1>4. CASE p # 1
  <2>1. driver' = driver /\ packet_len' = mouse_handle_data(packet_len, Data.data)
    BY <1>0, <1>4, Zenon DEF Deliver
  <2>2. packet_len' \in {0, 1, 2}
    BY <1>0, <2>1 DEF mouse_handle_data, PACKET_LEN
  <2> QED
    BY <1>0, <1>2, <2>1, <2>2, Zenon
<1> QED
  BY <1>3, <1>4

\* What a handler that reads leaves.
HandlerHears ==
  /\ UNCHANGED <<task, user>> /\ irr' \subseteq irr
  /\ (outbuf' = outbuf /\ latch' = latch) \/ inb
  /\ device'[0].queue = device[0].queue /\ device'[1].queue = device[1].queue
  /\ polling' \in {0, 1, 2} /\ packet_len' \in {0, 1, 2} /\ astray' \in BOOLEAN
  /\ lost' \subseteq lost \union {1, 2} /\ DriverInv(driver')

\* It keeps types.
LEMMA HearingTypes == HardwareTyped /\ Typed /\ HandlerHears => Typed'
<1>0. SUFFICES ASSUME HardwareTyped, Typed, HandlerHears PROVE Typed'
  OBVIOUS
<1>1. LatchTyped /\ InputTyped /\ UserTyped /\ HandlerTyped /\ TaskTyped /\ LostTyped
  BY <1>0, Zenon DEF Typed
<1>2. LatchTyped' /\ (outbuf' = outbuf \/ ~ outbuf'.input)
  <2>1. CASE inb
    BY <1>0, <1>1, <2>1, ReadingTyped, Zenon
  <2>2. CASE outbuf' = outbuf /\ latch' = latch
    BY <1>1, <2>2 DEF LatchTyped, Byte, NoByte
  <2> QED
    BY <1>0, <2>1, <2>2, Zenon DEF HandlerHears
<1>3. InputTyped'
  <2>1. device'[0].queue = device[0].queue /\ device'[1].queue = device[1].queue
    BY <1>0, Zenon DEF HandlerHears
  <2>2. outbuf'.input => outbuf'.port \in {1, 2} /\ (outbuf'.port = 1 => outbuf'.data \in Bytes)
    BY <1>1, <1>2, Zenon DEF InputTyped
  <2> QED
    BY <1>1, <2>1, <2>2 DEF InputTyped, Bytes
<1>4. UserTyped' /\ TaskTyped'
  BY <1>0, <1>1 DEF UserTyped, TaskTyped, HandlerHears, task, user, KeyNames
<1>5. HandlerTyped' /\ LostTyped'
  BY <1>0, <1>1 DEF HandlerTyped, LostTyped, HandlerHears
<1>6. DriverInv(driver')
  BY <1>0, Zenon DEF HandlerHears
<1> QED
  BY <1>2, <1>3, <1>4, <1>5, <1>6 DEF Typed

\* Interrupts and polling in handlers are of this kind.
LEMMA InterruptTypes ==
  ASSUME NEW p
  PROVE  SetUpInv /\ Delivery /\ Typed /\ ps2_handle_interrupt(p) => HandlerHears
<1>0. SUFFICES ASSUME SetUpInv, Delivery, Typed, ps2_handle_interrupt(p) PROVE HandlerHears
  OBVIOUS
<1>1. /\ irr' = irr \ {p} /\ p \in irr /\ polling = 0 /\ UNCHANGED <<task, user>>
      /\ \/ UNCHANGED <<outbuf, latch, device, polling, driver, packet_len, lost, astray>>
         \/ /\ init_done /\ inb
            /\ UNCHANGED <<device, polling, driver, packet_len, lost, astray>>
         \/ /\ init_done /\ inb /\ Data.data # DEVICE_ACK /\ Deliver(p, Data)
            /\ \/ polling' = 1 /\ Obey("leds", 1)
               \/ polling' = 0 /\ UNCHANGED <<device, lost>>
  BY <1>0, HandlingTypes, Zenon
<1>2. /\ HardwareTyped /\ Requests /\ LateTraffic /\ InputTyped /\ HandlerTyped
      /\ DriverInv(driver)
  BY <1>0, Zenon DEF SetUpInv, Delivery, Typed
<1>3. irr' \subseteq irr
  BY <1>1
<1>4. CASE UNCHANGED <<device, polling, driver, packet_len, lost, astray>>
  <2>1. (outbuf' = outbuf /\ latch' = latch) \/ inb
    BY <1>1 DEF Deliver
  <2>2. DriverInv(driver')
    BY <1>2, <1>4, Zenon
  <2>3. polling' \in {0, 1, 2} /\ packet_len' \in {0, 1, 2} /\ astray' \in BOOLEAN
    BY <1>2, <1>4 DEF HandlerTyped
  <2>4. /\ device'[0].queue = device[0].queue /\ device'[1].queue = device[1].queue
        /\ lost' \subseteq lost \union {1, 2}
    BY <1>4
  <2> QED
    BY <1>1, <1>3, <2>1, <2>2, <2>3, <2>4, Zenon DEF HandlerHears
<1>5. CASE /\ init_done /\ inb /\ Data.data # DEVICE_ACK /\ Deliver(p, Data)
           /\ \/ polling' = 1 /\ Obey("leds", 1)
              \/ polling' = 0 /\ UNCHANGED <<device, lost>>
  <2>1. LateNow
    <3>1. pc >= 40
      BY <1>0, <1>5 DEF SetUpInv, NotYet, HardwareTyped
    <3> QED
      BY <1>2, <3>1, Zenon DEF LateTraffic
  <2>2. Data = outbuf /\ outbuf.port = p /\ outbuf.input
    BY <1>1, <1>2, <1>5, <2>1, Delivered, Zenon
  <2>3. p \in {1, 2} /\ (p = 1 => Data.data \in Bytes)
    BY <1>2, <2>2, Zenon DEF InputTyped
  <2>4. packet_len \in {0, 1, 2} /\ astray \in BOOLEAN
    BY <1>2, Zenon DEF HandlerTyped
  <2>5. DriverInv(driver') /\ packet_len' \in {0, 1, 2} /\ astray' \in BOOLEAN
    BY <1>2, <1>5, <2>3, <2>4, DeliveredTypes, Zenon
  <2>6. /\ device'[0].queue = device[0].queue /\ device'[1].queue = device[1].queue
        /\ lost' = lost
    BY <1>2, <1>5, LedsHear, Zenon
  <2>7. lost' \subseteq lost \union {1, 2} /\ polling' \in {0, 1, 2}
    BY <1>5, <2>6
  <2> QED
    BY <1>1, <1>3, <1>5, <2>5, <2>6, <2>7, Zenon DEF HandlerHears
<1> QED
  BY <1>1, <1>4, <1>5, Zenon

\* Polling in a handler.
LEMMA AwaitLedsTypes == HardwareTyped /\ Typed /\ AwaitLeds => HandlerHears
<1>0. SUFFICES ASSUME HardwareTyped, Typed, AwaitLeds PROVE HandlerHears
  OBVIOUS
<1>1. HandlerTyped /\ DriverInv(driver)
  BY <1>0, Zenon DEF Typed
<1>2. /\ inb /\ irr' = irr /\ UNCHANGED <<task, user>> /\ driver' = driver
      /\ packet_len' = packet_len /\ astray' = astray
      /\ polling' = (polling + 1) % 3
      /\ lost' = IF outbuf.input THEN lost \union {1} ELSE lost
      /\ \/ device' = [device EXCEPT ![1].answers = <<DEVICE_ACK>>, ![1].argument = FALSE]
         \/ device' = device
  BY <1>0 DEF AwaitLeds
<1>3. /\ polling' \in {0, 1, 2} /\ packet_len' \in {0, 1, 2} /\ astray' \in BOOLEAN
      /\ irr' \subseteq irr
  BY <1>1, <1>2 DEF HandlerTyped
<1>4. lost' \subseteq lost \union {1, 2}
  BY <1>2
<1>5. device'[0].queue = device[0].queue /\ device'[1].queue = device[1].queue
  <2>1. device \in [{0, 1, 2} -> Device]
    BY <1>0, Zenon DEF HardwareTyped
  <2>2. device[1] \in Device
    BY <2>1
  <2> DEFINE d == [device[1] EXCEPT !.answers = <<DEVICE_ACK>>, !.argument = FALSE]
  <2>3. d.queue = device[1].queue
    BY <2>2 DEF Device
  <2>4. device' = [device EXCEPT ![1] = d] \/ device' = device
    BY <1>2, <2>1
  <2> HIDE DEF d
  <2> QED
    BY <2>1, <2>3, <2>4
<1>6. DriverInv(driver')
  BY <1>1, <1>2, Zenon
<1> QED
  BY <1>2, <1>3, <1>4, <1>5, <1>6, Zenon DEF HandlerHears

\* A buffer that belongs to a state is shorter than SCANCODE_LEN.
LEMMA BufferFits == ASSUME NEW k, DriverInv(k) PROVE k \in Driver /\ Len(k.buf) < SCANCODE_LEN
<1>1. k \in Driver /\ Stage(k.keyboard_state, k.buf)
  BY Zenon DEF DriverInv
<1>2. k.keyboard_state \in {"START", "BREAK_RECEIVED", "EXTENDED_RECEIVED", "SPECIAL_RECEIVED"}
  BY <1>1 DEF Driver
<1>3. \/ k.buf = <<>> \/ k.buf = <<EXTENDED_CODE>> \/ k.buf = <<BREAK_CODE>>
      \/ k.buf = <<EXTENDED_CODE, BREAK_CODE>>
      \/ Len(k.buf) \in {1, 2, 3, 4, 5, 6, 7} \/ Len(k.buf) \in {2, 3}
  BY <1>1, <1>2, Zenon DEF Stage
<1>4. /\ EXTENDED_CODE \in Bytes /\ BREAK_CODE \in Bytes
  BY DEF EXTENDED_CODE, BREAK_CODE, Bytes
<1>5. /\ Len(<<EXTENDED_CODE>>) = 1 /\ Len(<<BREAK_CODE>>) = 1
      /\ Len(<<EXTENDED_CODE, BREAK_CODE>>) = 2 /\ Len(<<>>) = 0
  OBVIOUS
<1>6. Len(k.buf) \in {0, 1, 2, 3, 4, 5, 6, 7}
  BY <1>3, <1>5
<1>7. \A n \in {0, 1, 2, 3, 4, 5, 6, 7} : n < SCANCODE_LEN
  BY DEF SCANCODE_LEN
<1> QED
  BY <1>1, <1>6, <1>7, Zenon

(* Every variable keeps its type; in particular the buffer of the keyboard *)
(* driver never overflows: no sequence of bytes, be it a scancode or not,  *)
(* is longer before the driver takes it for complete.                      *)
THEOREM TypesKept ==
  ASSUME ~ EarlyKeys, Prompt
  PROVE  Spec /\ []NoLedsWithMouse => []TypeOK
<1>1. Init => Typed
  <2>0. SUFFICES ASSUME Init PROVE Typed
    OBVIOUS
  <2>1. /\ outbuf = NoByte /\ latch = NoByte /\ irr = {} /\ flushing = FALSE /\ init_done = FALSE
        /\ reset_timeout = "unseen" /\ polling = 0 /\ driver = InitialDriver /\ packet_len = 0
        /\ down = {} /\ strokes = 0 /\ packets = 0 /\ lost = {} /\ astray = FALSE
    BY <2>0, Zenon DEF Init
  <2>2. device[0].queue = <<>> /\ device[1].queue = <<>>
    BY <2>0, Start, Zenon DEF Init, SetUpInv, EarlyTraffic, Nothing
  <2>3. <<>> \in Seq(Bytes)
    BY EmptySeq, Zenon
  <2>4. InputTyped
    BY <2>1, <2>2, <2>3 DEF InputTyped, NoByte
  <2>5. MaxStrokes \in Nat /\ MaxPackets \in Nat
    BY Ps2Assumption, Zenon
  <2>6. UserTyped
    <3>1. 0 \in 0 .. MaxStrokes /\ 0 \in 0 .. MaxPackets
      BY <2>5
    <3> QED
      BY <2>1, <3>1 DEF UserTyped
  <2>8. HandlerTyped /\ TaskTyped /\ LostTyped /\ LatchTyped
    BY <2>1 DEF HandlerTyped, TaskTyped, LostTyped, LatchTyped, ResetTimeouts
  <2>7. DriverInv(InitialDriver)
    <3>1. InitialDriver \in Driver
      BY <2>3 DEF InitialDriver, Driver
    <3>2. InitialDriver.keyboard_state = "START" /\ InitialDriver.buf = <<>>
      BY DEF InitialDriver
    <3>3. Stage("START", <<>>)
      BY Zenon DEF Stage
    <3> QED
      BY <3>1, <3>2, <3>3, Zenon DEF DriverInv
  <2> QED
    BY <2>1, <2>4, <2>6, <2>7, <2>8, Zenon DEF Typed
<1>2. KeyboardInv /\ Delivery /\ Typed /\ [Next]_vars => Typed'
  <2>0. SUFFICES ASSUME KeyboardInv, Delivery, Typed, [Next]_vars PROVE Typed'
    OBVIOUS
  <2>1. SetUpInv /\ HardwareTyped /\ InputTyped
    BY <2>0, InvParts, Zenon DEF Typed
  <2>2. CASE UNCHANGED vars
    BY <2>0, <2>2 DEF vars, hardware, task, drivers, user, Typed, LatchTyped, InputTyped, UserTyped,
                      HandlerTyped, TaskTyped, LostTyped
  <2>3. Task => Typed'
    BY <2>0, <2>1, TaskTypes, TaskSteps, TaskKeepsTypes, Zenon
  <2>4. Handler => Typed'
    BY <2>0, <2>1, InterruptTypes, AwaitLedsTypes, HearingTypes, Zenon DEF Handler
  <2> QED
    BY <2>0, <2>1, <2>2, <2>3, <2>4, UserTypes, ControllerTypes, Zenon DEF Next
<1>3. KeyboardInv /\ Typed => TypeOK
  <2>0. SUFFICES ASSUME KeyboardInv, Typed PROVE TypeOK
    OBVIOUS
  <2>1. HardwareTyped /\ LatchTyped /\ UserTyped /\ HandlerTyped /\ TaskTyped /\ LostTyped
        /\ DriverInv(driver)
    BY <2>0, InvParts, Zenon DEF Typed
  <2>2. driver \in Driver /\ Len(driver.buf) < SCANCODE_LEN
    BY <2>1, BufferFits, Zenon
  <2>3. Len(Program) = 53
    BY Code, Zenon
  <2>4. Ports \union {CONTROLLER} = {0, 1, 2}
    BY DEF Ports, CONTROLLER
  <2>5. /\ second \in Port2 /\ port2_supported \in BOOLEAN
        /\ outbuf \in Byte \union {NoByte} /\ latch \in Byte \union {NoByte}
        /\ config \subseteq 0 .. 7
        /\ device \in [Ports \union {CONTROLLER} -> Device]
    BY <2>1, <2>4, Zenon DEF HardwareTyped, LatchTyped
  <2>6. pc \in 1 .. Len(Program) + 1
    BY <2>1, <2>3 DEF HardwareTyped
  <2>7. /\ irr \subseteq Ports /\ polling \in 0 .. 2 /\ packet_len \in 0 .. PACKET_LEN - 1
        /\ astray \in BOOLEAN /\ lost \subseteq Ports
    BY <2>1 DEF HandlerTyped, LostTyped, Ports, PACKET_LEN
  <2> QED
    BY <2>1, <2>2, <2>5, <2>6, <2>7, Zenon DEF TypeOK, UserTyped, TaskTyped
<1> QED
  BY <1>1, <1>2, <1>3, KeyboardSetUpKept, DeliveryKept, PTL DEF Spec

=============================================================================
