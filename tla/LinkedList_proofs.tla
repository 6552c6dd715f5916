-------------------------- MODULE LinkedList_proofs --------------------------
(***************************************************************************)
(* The lists of lib/list.c stay linked, and are sequences to their          *)
(* callers.  Loops that follow pointers are the difficulty: what a walk     *)
(* finds depends on all nodes it meets.  So the invariant names for each    *)
(* list the sequence of its nodes (Shape), walks are shown to find that     *)
(* sequence (WalksFind), and each function of list.c is shown to leave      *)
(* such sequences behind: the one of its list changed as the function       *)
(* says, those of the others as they were (Rethread).                       *)
(***************************************************************************)
EXTENDS LinkedList, FiniteSetTheorems, SequenceTheorems, WellFoundedInduction, TLAPS

(* A set of natural numbers has a least member.                             *)
LEMMA LeastMember ==
  ASSUME NEW T \in SUBSET Nat, T # {}
  PROVE  \E m \in T : \A n \in T : m <= n
<1> DEFINE Less == {ss \in Nat \X Nat : ss[1] < ss[2]}
<1>1. IsWellFoundedOn(Less, Nat)
  BY NatLessThanWellFounded, Zenon DEF OpToRel
<1> HIDE DEF Less
<1>2. PICK m \in T : \A n \in T : ~ (<<n, m>> \in Less)
  BY <1>1, WFMin, Zenon
<1>3. \A n \in T : ~ (n < m)
  BY <1>2 DEF Less
<1> QED
  BY <1>3
-----------------------------------------------------------------------------
(* The walk through a list.                                                 *)

Bound(nd) == Cardinality(DOMAIN nd) + 1

Visit(f, nd, n, link, i) ==
  IF i = 1 THEN n ELSE IF f[i - 1] = Null THEN Null ELSE nd[f[i - 1]][link]

Visits(nd, n, link) == CHOOSE f : f = [i \in 1 .. Bound(nd) |-> Visit(f, nd, n, link, i)]

WalkIn(nd, n, link) ==
  SubSeq(Visits(nd, n, link), 1,
         Cardinality({i \in DOMAIN Visits(nd, n, link) : Visits(nd, n, link)[i] # Null}))

(* Walk as an operator of the memory it reads, so that it can be told       *)
(* before and after a step.                                                 *)
LEMMA WalkUnfolds ==
  ASSUME NEW n, NEW link
  PROVE  Walk(n, link) = WalkIn(node, n, link)
BY Zenon DEF Walk, WalkIn, Visits, Visit, Bound

(* There is such a function: it can be extended visit by visit.             *)
LEMMA VisitsExist ==
  ASSUME NEW nd, IsFiniteSet(DOMAIN nd), NEW n, NEW link
  PROVE  /\ DOMAIN Visits(nd, n, link) = 1 .. Bound(nd)
         /\ \A i \in 1 .. Bound(nd) :
              Visits(nd, n, link)[i] = Visit(Visits(nd, n, link), nd, n, link, i)
<1>0. Bound(nd) \in Nat \ {0}
  BY FS_CardinalityType DEF Bound
<1> DEFINE Good(k) == \E f : f = [i \in 1 .. k |-> Visit(f, nd, n, link, i)]
           Bad == {k \in 1 .. Bound(nd) : ~ Good(k)}
<1>1. Good(1)
  <2>1. PICK f : f = [i \in 1 .. 1 |-> n]
    OBVIOUS
  <2>2. \A i \in 1 .. 1 : Visit(f, nd, n, link, i) = n
    BY DEF Visit
  <2>3. f = [i \in 1 .. 1 |-> Visit(f, nd, n, link, i)]
    BY <2>1, <2>2
  <2> QED
    BY <2>3
<1>2. ASSUME NEW k \in 1 .. Bound(nd) - 1, Good(k)
      PROVE  Good(k + 1)
  <2>1. PICK f : f = [i \in 1 .. k |-> Visit(f, nd, n, link, i)]
    BY <1>2
  <2>2. PICK g : g = [i \in 1 .. k + 1 |-> IF i <= k THEN f[i] ELSE Visit(f, nd, n, link, i)]
    OBVIOUS
  <2>3. ASSUME NEW i \in 1 .. k + 1
        PROVE  g[i] = Visit(g, nd, n, link, i)
    <3>1. i # 1 => i - 1 \in 1 .. k /\ g[i - 1] = f[i - 1]
      BY <1>0, <2>2
    <3>2. Visit(g, nd, n, link, i) = Visit(f, nd, n, link, i)
      BY <3>1 DEF Visit
    <3>3. CASE i <= k
      <4>1. i \in 1 .. k
        BY <3>3
      <4> QED
        BY <2>1, <2>2, <3>2, <3>3, <4>1
    <3>4. CASE ~ (i <= k)
      BY <2>2, <3>2, <3>4
    <3> QED
      BY <3>3, <3>4
  <2>4. g = [i \in 1 .. k + 1 |-> g[i]]
    BY <2>2
  <2>5. g = [i \in 1 .. k + 1 |-> Visit(g, nd, n, link, i)]
    BY <2>3, <2>4
  <2> QED
    BY <2>5
<1> HIDE DEF Good
<1>3. Bad = {}
  <2> SUFFICES ASSUME Bad # {} PROVE FALSE
    OBVIOUS
  <2>1. Bad \in SUBSET Nat
    BY <1>0
  <2>2. PICK m \in Bad : \A k \in Bad : m <= k
    BY <2>1, LeastMember
  <2>3. m # 1 /\ m - 1 \in 1 .. Bound(nd) - 1
    BY <1>0, <1>1, <2>2
  <2>4. Good(m - 1)
    BY <1>0, <2>2, <2>3
  <2>5. Good(m - 1 + 1) /\ m - 1 + 1 = m
    BY <1>0, <1>2, <2>2, <2>3, <2>4
  <2> QED
    BY <2>2, <2>5
<1>4. Good(Bound(nd))
  BY <1>0, <1>3
<1>5. Visits(nd, n, link)
      = [i \in 1 .. Bound(nd) |-> Visit(Visits(nd, n, link), nd, n, link, i)]
  BY <1>4, Zenon DEF Good, Visits
<1>6. PICK v : v = Visits(nd, n, link)
  OBVIOUS
<1>7. v = [i \in 1 .. Bound(nd) |-> Visit(v, nd, n, link, i)]
  BY <1>5, <1>6, Zenon
<1> QED
  BY <1>6, <1>7

(* A chain of nodes: from each the link leads to the one behind it, and     *)
(* from the last nowhere.                                                   *)
Chain(nd, s, link) ==
  \A i \in 1 .. Len(s) : nd[s[i]][link] = IF i = Len(s) THEN Null ELSE s[i + 1]

(* The numbers from 1 to k are k.                                           *)
LEMMA UpTo == \A k \in Nat : Cardinality(1 .. k) = k
<1> SUFFICES ASSUME NEW k \in Nat PROVE Cardinality(1 .. k) = k
  OBVIOUS
<1>1. 1 \in Int /\ k \in Int
  OBVIOUS
<1>2. Cardinality(1 .. k) = IF 1 > k THEN 0 ELSE k - 1 + 1
  BY <1>1, FS_Interval
<1> QED
  BY <1>2

(* The walk from the first node of a chain visits the chain.                *)
LEMMA WalkVisits ==
  ASSUME NEW nd, IsFiniteSet(DOMAIN nd), Null \notin DOMAIN nd, NEW link,
         NEW s \in Seq(DOMAIN nd), IsInjective(s), Chain(nd, s, link),
         NEW n, n = IF s = <<>> THEN Null ELSE s[1]
  PROVE  WalkIn(nd, n, link) = s
<1>1. Bound(nd) \in Nat /\ Len(s) \in Nat /\ DOMAIN s = 1 .. Len(s) /\ s \in [1 .. Len(s) -> DOMAIN nd]
  BY FS_CardinalityType, LenProperties DEF Bound
<1>2. Len(s) + 1 <= Bound(nd)
  <2>1. s \in Injection(1 .. Len(s), DOMAIN nd)
    BY <1>1 DEF Injection
  <2>2. Cardinality(1 .. Len(s)) <= Cardinality(DOMAIN nd) /\ IsFiniteSet(1 .. Len(s))
    BY <2>1, FS_Injection
  <2>3. Cardinality(1 .. Len(s)) = Len(s)
    BY <1>1, UpTo
  <2> QED
    BY <1>1, <2>2, <2>3, FS_CardinalityType DEF Bound
<1>3. s = <<>> <=> Len(s) = 0
  BY <1>1, EmptySeq
<1>4. PICK v : v = Visits(nd, n, link)
  OBVIOUS
<1>5. /\ DOMAIN v = 1 .. Bound(nd)
      /\ \A i \in 1 .. Bound(nd) : v[i] = Visit(v, nd, n, link, i)
  <2>1. IsFiniteSet(DOMAIN nd)
    OBVIOUS
  <2> QED
    BY <1>4, <2>1, VisitsExist
<1> DEFINE Good(i) == v[i] = IF i <= Len(s) THEN s[i] ELSE Null
           Bad == {i \in 1 .. Bound(nd) : ~ Good(i)}
<1>6. \A i \in 1 .. Bound(nd) : Good(i)
  <2> SUFFICES ASSUME Bad # {} PROVE FALSE
    OBVIOUS
  <2>1. Bad \in SUBSET Nat
    BY <1>1
  <2>2. PICK i \in Bad : \A k \in Bad : i <= k
    BY <2>1, LeastMember
  <2>3. i \in 1 .. Bound(nd) /\ ~ Good(i)
    BY <2>2
  <2>4. v[i] = Visit(v, nd, n, link, i)
    BY <1>5, <2>3
  <2>5. CASE i = 1
    BY <1>1, <1>3, <2>3, <2>4, <2>5 DEF Visit
  <2>6. CASE i # 1
    <3>1. i - 1 \in 1 .. Bound(nd) /\ ~ (i - 1 \in Bad)
      BY <1>1, <2>2, <2>3, <2>6
    <3>2. Good(i - 1)
      BY <3>1
    <3>3. v[i] = IF v[i - 1] = Null THEN Null ELSE nd[v[i - 1]][link]
      BY <2>4, <2>6 DEF Visit
    <3>4. CASE i - 1 <= Len(s)
      <4>1. i - 1 \in 1 .. Len(s) /\ s[i - 1] # Null
        BY <1>1, <2>3, <2>6, <3>4
      <4>2. nd[s[i - 1]][link] = IF i - 1 = Len(s) THEN Null ELSE s[i - 1 + 1]
        BY <4>1 DEF Chain
      <4>3. i - 1 + 1 = i
        BY <1>1, <2>3
      <4> QED
        BY <1>1, <2>3, <3>2, <3>3, <3>4, <4>1, <4>2, <4>3
    <3>5. CASE ~ (i - 1 <= Len(s))
      BY <1>1, <2>3, <3>2, <3>3, <3>5
    <3> QED
      BY <3>4, <3>5
  <2> QED
    BY <2>5, <2>6
<1>7. {i \in DOMAIN v : v[i] # Null} = 1 .. Len(s)
  <2>1. DOMAIN v = 1 .. Bound(nd)
    BY <1>5
  <2>2. \A i \in 1 .. Len(s) : i \in 1 .. Bound(nd) /\ s[i] # Null
    BY <1>1, <1>2
  <2> QED
    BY <1>1, <1>6, <2>1, <2>2
<1>8. Cardinality(1 .. Len(s)) = Len(s)
  BY <1>1, UpTo
<1>9. WalkIn(nd, n, link) = SubSeq(v, 1, Len(s))
  BY <1>4, <1>7, <1>8, Zenon DEF WalkIn
<1>10. \A i \in 1 .. Len(s) : v[i] = s[i] /\ s[i] \in DOMAIN nd
  BY <1>1, <1>2, <1>6
<1>11. /\ SubSeq(v, 1, Len(s)) \in Seq(DOMAIN nd)
       /\ Len(SubSeq(v, 1, Len(s))) = Len(s)
       /\ \A i \in 1 .. Len(s) : SubSeq(v, 1, Len(s))[i] = v[i]
  <2>1. \A i \in 1 .. Len(s) : v[i] \in DOMAIN nd
    BY <1>10
  <2>2. /\ SubSeq(v, 1, Len(s)) \in Seq(DOMAIN nd)
        /\ Len(SubSeq(v, 1, Len(s))) = IF 1 <= Len(s) THEN Len(s) - 1 + 1 ELSE 0
        /\ \A i \in 1 .. Len(s) - 1 + 1 : SubSeq(v, 1, Len(s))[i] = v[1 + i - 1]
    BY <1>1, <2>1, SubSeqProperties
  <2> QED
    BY <1>1, <2>2
<1> QED
  BY <1>9, <1>10, <1>11, SeqEqual
-----------------------------------------------------------------------------
(* The shape of the memory: the nodes of list l are those of c[l], in that  *)
(* order, linked both ways; no node is twice in the lists.                  *)

Threaded(nd, s, h, t) ==
  /\ h = IF Len(s) = 0 THEN Null ELSE s[1]
  /\ t = IF Len(s) = 0 THEN Null ELSE s[Len(s)]
  /\ \A i \in 1 .. Len(s) :
       /\ nd[s[i]].next = IF i = Len(s) THEN Null ELSE s[i + 1]
       /\ nd[s[i]].prev = IF i = 1 THEN Null ELSE s[i - 1]

Typed(hd, tl, nd) ==
  /\ DOMAIN hd \subseteq Lists
  /\ hd \in [DOMAIN hd -> Nodes \cup {Null}]
  /\ tl \in [DOMAIN hd -> Nodes \cup {Null}]
  /\ DOMAIN nd \subseteq Nodes
  /\ nd \in [DOMAIN nd -> Node]

Shape(hd, tl, nd, c) ==
  /\ Typed(hd, tl, nd)
  /\ c \in [DOMAIN hd -> Seq(DOMAIN nd)]
  /\ \A l \in DOMAIN hd : Threaded(nd, c[l], hd[l], tl[l])
  /\ \A l, k \in DOMAIN hd : \A i \in 1 .. Len(c[l]), j \in 1 .. Len(c[k]) :
       c[l][i] = c[k][j] => l = k /\ i = j

DataIn(nd, s) == [i \in 1 .. Len(s) |-> nd[s[i]].data]
Content(nd, c) == [l \in DOMAIN c |-> DataIn(nd, c[l])]

Holds(hd, tl, nd, c, ct) == Shape(hd, tl, nd, c) /\ Content(nd, c) = ct

(* What is known of the nodes of one list.                                  *)
LEMMA OfShape ==
  ASSUME NEW hd, NEW tl, NEW nd, NEW c, Shape(hd, tl, nd, c), NEW l \in DOMAIN hd
  PROVE  /\ c[l] \in Seq(DOMAIN nd) /\ Len(c[l]) \in Nat
         /\ DOMAIN c[l] = 1 .. Len(c[l])
         /\ \A i \in 1 .. Len(c[l]) : c[l][i] \in DOMAIN nd
         /\ IsInjective(c[l])
         /\ Null \notin DOMAIN nd /\ IsFiniteSet(DOMAIN nd)
         /\ DataIn(nd, c[l]) \in Seq(Data) /\ Len(DataIn(nd, c[l])) = Len(c[l])
<1>1. c[l] \in Seq(DOMAIN nd)
  BY DEF Shape
<1>2. Len(c[l]) \in Nat /\ DOMAIN c[l] = 1 .. Len(c[l]) /\ c[l] \in [1 .. Len(c[l]) -> DOMAIN nd]
  BY <1>1, LenProperties
<1>3. IsInjective(c[l])
  BY <1>2 DEF Shape, IsInjective
<1>4. Null \notin DOMAIN nd /\ IsFiniteSet(DOMAIN nd)
  BY AddressAssumption, FS_Subset DEF Shape, Typed
<1>5. nd \in [DOMAIN nd -> Node]
  BY DEF Shape, Typed
<1>6. \A i \in 1 .. Len(c[l]) : nd[c[l][i]].data \in Data
  BY <1>2, <1>5 DEF Node
<1>7. DataIn(nd, c[l]) \in Seq(Data) /\ Len(DataIn(nd, c[l])) = Len(c[l])
  BY <1>2, <1>6 DEF DataIn
<1> QED
  BY <1>1, <1>2, <1>3, <1>4, <1>7

(* Each walk finds the nodes of the list, backward in reverse.              *)
LEMMA WalksFind ==
  ASSUME NEW hd, NEW tl, NEW nd, NEW c, Shape(hd, tl, nd, c), NEW l \in DOMAIN hd
  PROVE  /\ WalkIn(nd, hd[l], "next") = c[l]
         /\ WalkIn(nd, tl[l], "prev") = Reverse(c[l])
<1>1. PICK s : s = c[l]
  OBVIOUS
<1>2. /\ s \in Seq(DOMAIN nd) /\ Len(s) \in Nat /\ DOMAIN s = 1 .. Len(s)
      /\ \A i \in 1 .. Len(s) : s[i] \in DOMAIN nd
      /\ IsInjective(s)
      /\ Null \notin DOMAIN nd /\ IsFiniteSet(DOMAIN nd)
  BY <1>1, OfShape
<1>3. Threaded(nd, s, hd[l], tl[l])
  BY <1>1 DEF Shape
<1>4. s = <<>> <=> Len(s) = 0
  BY <1>2, EmptySeq
<1>5. WalkIn(nd, hd[l], "next") = s
  <2>1. Chain(nd, s, "next")
    BY <1>3 DEF Chain, Threaded
  <2>2. hd[l] = IF s = <<>> THEN Null ELSE s[1]
    BY <1>3, <1>4 DEF Threaded
  <2> QED
    BY <1>2, <2>1, <2>2, WalkVisits
<1>6. PICK r : r = Reverse(s)
  OBVIOUS
<1>7. /\ r \in Seq(DOMAIN nd) /\ Len(r) = Len(s)
      /\ \A i \in 1 .. Len(s) : r[i] = s[Len(s) - i + 1]
  BY <1>2, <1>6 DEF Reverse
<1>8. WalkIn(nd, tl[l], "prev") = r
  <2>1. IsInjective(r)
    <3>1. DOMAIN r = 1 .. Len(s)
      BY <1>7, LenProperties
    <3>2. ASSUME NEW i \in 1 .. Len(s), NEW j \in 1 .. Len(s), r[i] = r[j]
          PROVE  i = j
      <4>1. Len(s) - i + 1 \in 1 .. Len(s) /\ Len(s) - j + 1 \in 1 .. Len(s)
        BY <1>2
      <4>2. s[Len(s) - i + 1] = s[Len(s) - j + 1]
        BY <1>7, <3>2
      <4>3. Len(s) - i + 1 = Len(s) - j + 1
        BY <1>2, <4>1, <4>2 DEF IsInjective
      <4> QED
        BY <1>2, <4>3
    <3> QED
      BY <3>1, <3>2 DEF IsInjective
  <2>2. Chain(nd, r, "prev")
    <3>0. PICK n \in Nat : n = Len(s)
      BY <1>2
    <3>1. ASSUME NEW i \in 1 .. n
          PROVE  nd[r[i]].prev = IF i = n THEN Null ELSE r[i + 1]
      <4>1. n - i + 1 \in 1 .. n /\ (n - i + 1 = 1 <=> i = n)
        OBVIOUS
      <4>2. nd[s[n - i + 1]].prev = IF n - i + 1 = 1 THEN Null ELSE s[n - i + 1 - 1]
        BY <1>3, <3>0, <4>1 DEF Threaded
      <4>3. i # n => i + 1 \in 1 .. n
        OBVIOUS
      <4>4. i # n => r[i + 1] = s[n - (i + 1) + 1]
        BY <1>7, <3>0, <4>3
      <4>5. n - (i + 1) + 1 = n - i + 1 - 1 /\ r[i] = s[n - i + 1]
        BY <1>7, <3>0
      <4> QED
        BY <4>1, <4>2, <4>4, <4>5
    <3> QED
      BY <1>7, <3>0, <3>1 DEF Chain
  <2>3. tl[l] = IF r = <<>> THEN Null ELSE r[1]
    <3>1. r = <<>> <=> Len(s) = 0
      BY <1>7, EmptySeq
    <3>2. Len(s) # 0 => r[1] = s[Len(s)]
      BY <1>2, <1>7
    <3> QED
      BY <1>3, <3>1, <3>2 DEF Threaded
  <2> QED
    BY <1>2, <1>7, <2>1, <2>2, <2>3, WalkVisits
<1> QED
  BY <1>1, <1>5, <1>6, <1>8

(* A sequence over S whose elements are in T is one over T.                 *)
LEMMA ElementsIn ==
  ASSUME NEW S, NEW T, NEW s \in Seq(S), \A i \in 1 .. Len(s) : s[i] \in T
  PROVE  s \in Seq(T)
<1>1. Len(s) \in Nat /\ s \in [1 .. Len(s) -> S]
  BY LenProperties
<1>2. s \in [1 .. Len(s) -> T]
  BY <1>1
<1> QED
  BY <1>1, <1>2, SeqDef

(* What a call that only touches list l has to keep of the other lists:     *)
(* their nodes, with what is in them, which it must not put into l.         *)
SameNode(nd2, nd, n) ==
  /\ n \in DOMAIN nd2
  /\ nd2[n].data = nd[n].data /\ nd2[n].next = nd[n].next /\ nd2[n].prev = nd[n].prev

KeepsOthers(nd2, nd, c, l, s) ==
  \A k \in DOMAIN c : k # l => \A j \in 1 .. Len(c[k]) :
    /\ SameNode(nd2, nd, c[k][j])
    /\ \A i \in 1 .. Len(s) : s[i] # c[k][j]

NodesTyped(nd) == DOMAIN nd \subseteq Nodes /\ nd \in [DOMAIN nd -> Node]

(* A call that leaves l with the nodes s, linked both ways, and keeps the   *)
(* nodes of the other lists, leaves the memory in shape.                    *)
LEMMA Rethread ==
  ASSUME NEW hd, NEW tl, NEW nd, NEW c, Shape(hd, tl, nd, c), NEW l \in DOMAIN hd,
         NEW nd2, NodesTyped(nd2), NEW s \in Seq(DOMAIN nd2), IsInjective(s),
         NEW h \in Nodes \cup {Null}, NEW t \in Nodes \cup {Null},
         Threaded(nd2, s, h, t), KeepsOthers(nd2, nd, c, l, s),
         NEW hd2, hd2 = [hd EXCEPT ![l] = h], NEW tl2, tl2 = [tl EXCEPT ![l] = t],
         NEW c2, c2 = [c EXCEPT ![l] = s],
         NEW ct, ct = [Content(nd, c) EXCEPT ![l] = DataIn(nd2, s)]
  PROVE  Holds(hd2, tl2, nd2, c2, ct)
<1>a. \A i, j \in 1 .. Len(s) : s[i] = s[j] => i = j
  BY LenProperties DEF IsInjective
<1>b. \A k \in DOMAIN hd : k # l => \A j \in 1 .. Len(c[k]) :
         /\ SameNode(nd2, nd, c[k][j])
         /\ \A i \in 1 .. Len(s) : s[i] # c[k][j]
  BY DEF KeepsOthers, Shape
<1>1. hd2 = [hd EXCEPT ![l] = h] /\ tl2 = [tl EXCEPT ![l] = t] /\ c2 = [c EXCEPT ![l] = s]
  OBVIOUS
<1>2. Typed(hd, tl, nd) /\ c \in [DOMAIN hd -> Seq(DOMAIN nd)]
  BY DEF Shape
<1>3. Typed(hd2, tl2, nd2) /\ DOMAIN hd2 = DOMAIN hd
  BY <1>1, <1>2 DEF Typed, NodesTyped
<1>4. DOMAIN c2 = DOMAIN hd /\ c2[l] = s /\ \A k \in DOMAIN hd : k # l => c2[k] = c[k]
  BY <1>1, <1>2
<1>5. hd2[l] = h /\ tl2[l] = t /\ \A k \in DOMAIN hd : k # l => hd2[k] = hd[k] /\ tl2[k] = tl[k]
  BY <1>1, <1>2 DEF Typed
<1>6. c2 \in [DOMAIN hd2 -> Seq(DOMAIN nd2)]
  <2>1. ASSUME NEW k \in DOMAIN hd, k # l PROVE c[k] \in Seq(DOMAIN nd2)
    <3>1. c[k] \in Seq(DOMAIN nd)
      BY <1>2
    <3>2. \A j \in 1 .. Len(c[k]) : c[k][j] \in DOMAIN nd2
      BY <1>b, <2>1 DEF SameNode
    <3> QED
      BY <3>1, <3>2, ElementsIn
  <2>2. \A k \in DOMAIN hd : c2[k] \in Seq(DOMAIN nd2)
    BY <1>4, <2>1
  <2> QED
    BY <1>1, <1>2, <1>3, <1>4, <2>2
<1>7. \A k \in DOMAIN hd2 : Threaded(nd2, c2[k], hd2[k], tl2[k])
  <2> SUFFICES ASSUME NEW k \in DOMAIN hd, k # l
               PROVE  Threaded(nd2, c[k], hd[k], tl[k])
    BY <1>3, <1>4, <1>5
  <2>1. Threaded(nd, c[k], hd[k], tl[k])
    BY DEF Shape
  <2>2. \A i \in 1 .. Len(c[k]) : SameNode(nd2, nd, c[k][i])
    BY <1>b
  <2> QED
    BY <2>1, <2>2 DEF Threaded, SameNode
<1>8. ASSUME NEW k \in DOMAIN hd2, NEW m \in DOMAIN hd2,
             NEW i \in 1 .. Len(c2[k]), NEW j \in 1 .. Len(c2[m]), c2[k][i] = c2[m][j]
      PROVE  k = m /\ i = j
  <2>1. CASE k = l /\ m = l
    BY <1>a, <1>4, <1>8, <2>1
  <2>2. CASE k = l /\ m # l
    BY <1>b, <1>3, <1>4, <1>8, <2>2
  <2>3. CASE k # l /\ m = l
    BY <1>b, <1>3, <1>4, <1>8, <2>3
  <2>4. CASE k # l /\ m # l
    BY <1>3, <1>4, <1>8, <2>4 DEF Shape
  <2> QED
    BY <2>1, <2>2, <2>3, <2>4
<1>9. Shape(hd2, tl2, nd2, c2)
  BY <1>3, <1>6, <1>7, <1>8 DEF Shape
<1>10. Content(nd2, c2) = [Content(nd, c) EXCEPT ![l] = DataIn(nd2, s)]
  <2>1. ASSUME NEW k \in DOMAIN hd, k # l PROVE DataIn(nd2, c[k]) = DataIn(nd, c[k])
    BY <1>b, <2>1 DEF DataIn, SameNode
  <2>2. DOMAIN c = DOMAIN hd
    BY <1>2
  <2>3. \A k \in DOMAIN hd : DataIn(nd2, c2[k]) = IF k = l THEN DataIn(nd2, s) ELSE DataIn(nd, c[k])
    BY <1>4, <2>1
  <2> QED
    BY <1>4, <2>2, <2>3 DEF Content
<1> QED
  BY <1>9, <1>10 DEF Holds
-----------------------------------------------------------------------------
(* The operations on sequences, element by element.                         *)

Cut(s, p) == [i \in 1 .. Len(s) - 1 |-> IF i < p THEN s[i] ELSE s[i + 1]]

(* What a sequence becomes when d is put before it ...                      *)
LEMMA InFront ==
  ASSUME NEW S, NEW s \in Seq(S), NEW d \in S
  PROVE  <<d>> \o s = [i \in 1 .. Len(s) + 1 |-> IF i = 1 THEN d ELSE s[i - 1]]
<1>1. PICK t : t = [i \in 1 .. Len(s) + 1 |-> IF i = 1 THEN d ELSE s[i - 1]]
  OBVIOUS
<1>2. t \in Seq(S) /\ Len(t) = Len(s) + 1
  BY <1>1, LenProperties
<1>3. /\ <<d>> \o s \in Seq(S) /\ Len(<<d>> \o s) = 1 + Len(s)
      /\ \A i \in 1 .. 1 + Len(s) : (<<d>> \o s)[i] = IF i <= 1 THEN d ELSE s[i - 1]
  <2>1. <<d>> \in Seq(S) /\ Len(<<d>>) = 1 /\ <<d>>[1] = d
    OBVIOUS
  <2> QED
    BY <2>1, ConcatProperties, LenProperties
<1>4. \A i \in 1 .. Len(t) : t[i] = (<<d>> \o s)[i]
  BY <1>1, <1>2, <1>3, LenProperties
<1> QED
  BY <1>1, <1>2, <1>3, <1>4, SeqEqual, LenProperties

(* ... and when d is put behind it.                                         *)
LEMMA AtEnd ==
  ASSUME NEW S, NEW s \in Seq(S), NEW d \in S
  PROVE  Append(s, d) = [i \in 1 .. Len(s) + 1 |-> IF i = Len(s) + 1 THEN d ELSE s[i]]
<1>1. PICK t : t = [i \in 1 .. Len(s) + 1 |-> IF i = Len(s) + 1 THEN d ELSE s[i]]
  OBVIOUS
<1>2. t \in Seq(S) /\ Len(t) = Len(s) + 1
  BY <1>1, LenProperties
<1>3. \A i \in 1 .. Len(t) : t[i] = Append(s, d)[i]
  BY <1>1, <1>2, AppendProperties, LenProperties
<1>4. Append(s, d) \in Seq(S) /\ Len(Append(s, d)) = Len(t)
  BY <1>2, AppendProperties
<1>5. Append(s, d) = t
  BY <1>2, <1>3, <1>4, SeqEqual
<1> QED
  BY <1>1, <1>5, Zenon

(* Tail, Front and RemoveAt take one element out: the first ...             *)
LEMMA CutFirst ==
  ASSUME NEW S, NEW s \in Seq(S), Len(s) # 0
  PROVE  Tail(s) = Cut(s, 1) /\ Head(s) = s[1]
<1>1. s # <<>> /\ Len(s) \in Nat
  BY EmptySeq, LenProperties
<1>2. Cut(s, 1) \in Seq(S) /\ Len(Cut(s, 1)) = Len(s) - 1
  BY <1>1, LenProperties DEF Cut
<1>3. \A i \in 1 .. Len(s) - 1 : Tail(s)[i] = Cut(s, 1)[i]
  BY <1>1, HeadTailProperties DEF Cut
<1> QED
  BY <1>1, <1>2, <1>3, HeadTailProperties, SeqEqual

(* ... the last ...                                                         *)
LEMMA CutLast ==
  ASSUME NEW S, NEW s \in Seq(S), Len(s) # 0
  PROVE  Front(s) = Cut(s, Len(s)) /\ Last(s) = s[Len(s)]
<1>1. Len(s) \in Nat /\ \A i \in 1 .. Len(s) : s[i] \in S
  BY LenProperties
<1>2. Cut(s, Len(s)) \in Seq(S) /\ Len(Cut(s, Len(s))) = Len(s) - 1
      /\ \A i \in 1 .. Len(s) - 1 : Cut(s, Len(s))[i] = s[i]
  BY <1>1, LenProperties DEF Cut
<1>3. /\ Front(s) \in Seq(S) /\ Len(Front(s)) = Len(s) - 1
      /\ \A i \in 1 .. Len(s) - 1 : Front(s)[i] = s[i]
  <2>1. PICK n \in Nat \ {0} : n = Len(s)
    BY <1>1
  <2>2. PICK t : t = SubSeq(s, 1, n - 1)
    OBVIOUS
  <2>3. \A i \in 1 .. n - 1 : s[i] \in S
    BY <1>1, <2>1
  <2>4. t \in Seq(S) /\ Len(t) = n - 1 /\ \A i \in 1 .. n - 1 : t[i] = s[i]
    BY <2>2, <2>3
  <2> QED
    BY <2>1, <2>2, <2>4, Zenon DEF Front
<1> QED
  BY <1>2, <1>3, SeqEqual DEF Last

(* ... or that at place p.                                                  *)
LEMMA CutAt ==
  ASSUME NEW S, NEW s \in Seq(S), NEW p \in 1 .. Len(s)
  PROVE  RemoveAt(s, p) = Cut(s, p)
<1>1. PICK n \in Nat : n = Len(s)
  BY LenProperties
<1>2. \A i \in 1 .. n : s[i] \in S
  BY <1>1, LenProperties
<1>3. PICK a, b : a = SubSeq(s, 1, p - 1) /\ b = SubSeq(s, p + 1, n)
  OBVIOUS
<1>4. a \in Seq(S) /\ Len(a) = p - 1 /\ \A i \in 1 .. p - 1 : a[i] = s[i]
  BY <1>1, <1>2, <1>3
<1>5. b \in Seq(S) /\ Len(b) = n - p /\ \A i \in 1 .. n - p : b[i] = s[p + i]
  BY <1>1, <1>2, <1>3
<1>6. /\ a \o b \in Seq(S) /\ Len(a \o b) = n - 1
      /\ \A i \in 1 .. n - 1 : (a \o b)[i] = IF i <= p - 1 THEN a[i] ELSE b[i - (p - 1)]
  <2>1. /\ a \o b \in Seq(S)
        /\ Len(a \o b) = Len(a) + Len(b)
        /\ \A i \in 1 .. Len(a) + Len(b) :
             (a \o b)[i] = IF i <= Len(a) THEN a[i] ELSE b[i - Len(a)]
    BY <1>4, <1>5, ConcatProperties
  <2>2. Len(a) = p - 1 /\ Len(a) + Len(b) = n - 1
    BY <1>1, <1>4, <1>5
  <2> QED
    BY <2>1, <2>2, Zenon
<1>7. PICK t : t = Cut(s, p)
  OBVIOUS
<1>8. /\ t \in Seq(S) /\ Len(t) = n - 1
      /\ \A i \in 1 .. n - 1 : t[i] = IF i < p THEN s[i] ELSE s[i + 1]
  BY <1>1, <1>2, <1>7 DEF Cut
<1>9. \A i \in 1 .. n - 1 : t[i] = (a \o b)[i]
  <2> SUFFICES ASSUME NEW i \in 1 .. n - 1 PROVE t[i] = (a \o b)[i]
    OBVIOUS
  <2>1. t[i] = IF i < p THEN s[i] ELSE s[i + 1]
    BY <1>8
  <2>2. (a \o b)[i] = IF i <= p - 1 THEN a[i] ELSE b[i - (p - 1)]
    BY <1>6
  <2>3. p \in 1 .. n
    BY <1>1
  <2>4. CASE i < p
    <3>1. i <= p - 1 /\ i \in 1 .. p - 1
      BY <2>3, <2>4
    <3> QED
      BY <1>4, <2>1, <2>2, <2>4, <3>1
  <2>5. CASE ~ (i < p)
    <3>1. ~ (i <= p - 1) /\ i - (p - 1) \in 1 .. n - p /\ p + (i - (p - 1)) = i + 1
      BY <2>3, <2>5
    <3> QED
      BY <1>5, <2>1, <2>2, <2>5, <3>1
  <2> QED
    BY <2>4, <2>5
<1> QED
  BY <1>1, <1>3, <1>6, <1>7, <1>8, <1>9, SeqEqual DEF RemoveAt
-----------------------------------------------------------------------------
(* The stores.                                                              *)

(* A store through a pointer that may be 0 changes one link at most, here   *)
(* node->prev ...                                                           *)
LEMMA StorePrev ==
  ASSUME NEW nd, nd \in [DOMAIN nd -> Node], Null \notin DOMAIN nd,
         NEW n \in DOMAIN nd \cup {Null}, NEW v \in Nodes \cup {Null},
         NEW nd2, nd2 = Store(nd, n, "prev", v)
  PROVE  /\ nd2 \in [DOMAIN nd -> Node]
         /\ \A m \in DOMAIN nd : /\ nd2[m].data = nd[m].data
                                 /\ nd2[m].next = nd[m].next
                                 /\ nd2[m].prev = IF m = n THEN v ELSE nd[m].prev
BY DEF Store, Node

(* ... and here node->next.                                                 *)
LEMMA StoreNext ==
  ASSUME NEW nd, nd \in [DOMAIN nd -> Node], Null \notin DOMAIN nd,
         NEW n \in DOMAIN nd \cup {Null}, NEW v \in Nodes \cup {Null},
         NEW nd2, nd2 = Store(nd, n, "next", v)
  PROVE  /\ nd2 \in [DOMAIN nd -> Node]
         /\ \A m \in DOMAIN nd : /\ nd2[m].data = nd[m].data
                                 /\ nd2[m].prev = nd[m].prev
                                 /\ nd2[m].next = IF m = n THEN v ELSE nd[m].next
BY DEF Store, Node

(* A node that is in no list goes to the front of one.                      *)
LEMMA PushFront ==
  ASSUME NEW hd, NEW tl, NEW nd, NEW c, Shape(hd, tl, nd, c), NEW l \in DOMAIN hd,
         NEW x \in Nodes \ DOMAIN nd, NEW d \in Data,
         NEW nd2, nd2 = With(Store(nd, hd[l], "prev", x), x, list_create_node(d, Null, hd[l]))
  PROVE  \E c2 : Holds([hd EXCEPT ![l] = x], [tl EXCEPT ![l] = IF @ = Null THEN x ELSE @], nd2, c2,
                       [Content(nd, c) EXCEPT ![l] = <<d>> \o Content(nd, c)[l]])
<1>1. PICK s : s = c[l]
  OBVIOUS
<1>2. /\ s \in Seq(DOMAIN nd) /\ Len(s) \in Nat
      /\ \A i \in 1 .. Len(s) : s[i] \in DOMAIN nd
      /\ \A i, j \in 1 .. Len(s) : s[i] = s[j] => i = j
      /\ Null \notin DOMAIN nd
      /\ DataIn(nd, s) \in Seq(Data) /\ Len(DataIn(nd, s)) = Len(s)
  BY <1>1, OfShape DEF IsInjective
<1>3. /\ nd \in [DOMAIN nd -> Node] /\ DOMAIN nd \subseteq Nodes
      /\ hd[l] \in Nodes \cup {Null} /\ tl[l] \in Nodes \cup {Null}
  BY DEF Shape, Typed
<1>4. Threaded(nd, s, hd[l], tl[l])
  BY <1>1 DEF Shape
<1>5. hd[l] \in DOMAIN nd \cup {Null}
  BY <1>2, <1>4 DEF Threaded
<1>6. PICK nd1 : nd1 = Store(nd, hd[l], "prev", x)
  OBVIOUS
<1>7. /\ nd1 \in [DOMAIN nd -> Node]
      /\ \A m \in DOMAIN nd : /\ nd1[m].data = nd[m].data
                              /\ nd1[m].next = nd[m].next
                              /\ nd1[m].prev = IF m = hd[l] THEN x ELSE nd[m].prev
  BY <1>2, <1>3, <1>5, <1>6, StorePrev
<1>8. /\ DOMAIN nd2 = DOMAIN nd \cup {x}
      /\ nd2 \in [DOMAIN nd2 -> Node]
      /\ nd2[x].data = d /\ nd2[x].prev = Null /\ nd2[x].next = hd[l]
      /\ \A m \in DOMAIN nd : nd2[m] = nd1[m]
  <2>1. DOMAIN nd1 = DOMAIN nd /\ nd1 \in [DOMAIN nd1 -> Node] /\ x \in Nodes \ DOMAIN nd1
    BY <1>7
  <2>2. PICK r : r = list_create_node(d, Null, hd[l])
    OBVIOUS
  <2>3. r \in Node /\ r.data = d /\ r.prev = Null /\ r.next = hd[l]
    BY <1>3, <2>2 DEF Node, list_create_node
  <2>4. nd2 = With(nd1, x, r)
    BY <1>6, <2>2
  <2> QED
    BY <2>1, <2>3, <2>4 DEF With
<1>9. PICK s2 : s2 = [i \in 1 .. Len(s) + 1 |-> IF i = 1 THEN x ELSE s[i - 1]]
  OBVIOUS
<1>10. s2 \in Seq(DOMAIN nd2) /\ Len(s2) = Len(s) + 1
  BY <1>2, <1>8, <1>9
<1>a. ASSUME NEW i \in 1 .. Len(s2)
      PROVE  \/ i = 1 /\ s2[i] = x
             \/ i # 1 /\ i - 1 \in 1 .. Len(s) /\ s2[i] = s[i - 1]
  BY <1>2, <1>9, <1>10
<1>11. PICK t : t = IF tl[l] = Null THEN x ELSE tl[l]
  OBVIOUS
<1>12. Threaded(nd2, s2, x, t)
  <2>1. t = s2[Len(s) + 1] /\ s2[1] = x
    BY <1>2, <1>4, <1>9, <1>11 DEF Threaded
  <2>2. ASSUME NEW i \in 1 .. Len(s) + 1
        PROVE  /\ nd2[s2[i]].next = IF i = Len(s) + 1 THEN Null ELSE s2[i + 1]
               /\ nd2[s2[i]].prev = IF i = 1 THEN Null ELSE s2[i - 1]
    <3>1. CASE i = 1
      BY <1>2, <1>4, <1>8, <1>9, <3>1 DEF Threaded
    <3>2. CASE i # 1
      <4>1. i - 1 \in 1 .. Len(s) /\ s2[i] = s[i - 1] /\ s[i - 1] \in DOMAIN nd
        BY <1>2, <1>9, <3>2
      <4>2. nd2[s2[i]].next = nd[s[i - 1]].next
        BY <1>7, <1>8, <4>1
      <4>3. nd2[s2[i]].prev = IF s[i - 1] = hd[l] THEN x ELSE nd[s[i - 1]].prev
        BY <1>7, <1>8, <4>1
      <4>4. s[i - 1] = hd[l] <=> i - 1 = 1
        BY <1>2, <1>4, <4>1 DEF Threaded
      <4>5. nd[s[i - 1]].next = IF i - 1 = Len(s) THEN Null ELSE s[i - 1 + 1]
        BY <1>4, <4>1 DEF Threaded
      <4>6. nd[s[i - 1]].prev = IF i - 1 = 1 THEN Null ELSE s[i - 1 - 1]
        BY <1>4, <4>1 DEF Threaded
      <4>7. nd2[s2[i]].next = IF i = Len(s) + 1 THEN Null ELSE s2[i + 1]
        BY <1>2, <1>9, <3>2, <4>1, <4>2, <4>5
      <4>8. nd2[s2[i]].prev = s2[i - 1]
        BY <1>2, <1>9, <3>2, <4>1, <4>3, <4>4, <4>6
      <4> QED
        BY <3>2, <4>7, <4>8
    <3> QED
      BY <3>1, <3>2
  <2> QED
    BY <1>2, <1>10, <2>1, <2>2 DEF Threaded
<1>13. IsInjective(s2)
  <2> SUFFICES ASSUME NEW i \in 1 .. Len(s2), NEW j \in 1 .. Len(s2), s2[i] = s2[j]
               PROVE  i = j
    BY <1>10, LenProperties DEF IsInjective
  <2>1. (i = 1 /\ s2[i] = x) \/ (i # 1 /\ i - 1 \in 1 .. Len(s) /\ s2[i] = s[i - 1])
    BY <1>a
  <2>2. (j = 1 /\ s2[j] = x) \/ (j # 1 /\ j - 1 \in 1 .. Len(s) /\ s2[j] = s[j - 1])
    BY <1>a
  <2>3. \A m \in 1 .. Len(s) : s[m] # x
    BY <1>2
  <2>4. i # 1 /\ j # 1 => i - 1 = j - 1
    BY <1>2, <2>1, <2>2
  <2> QED
    BY <1>10, <2>1, <2>2, <2>3, <2>4
<1>14. ASSUME NEW k \in DOMAIN hd, k # l, NEW j \in 1 .. Len(c[k])
       PROVE  SameNode(nd2, nd, c[k][j]) /\ \A i \in 1 .. Len(s2) : s2[i] # c[k][j]
  <2>1. c[k][j] \in DOMAIN nd
    BY OfShape
  <2>2. \A i \in 1 .. Len(s) : s[i] # c[k][j]
    BY <1>1, <1>14 DEF Shape
  <2>3. c[k][j] # hd[l]
    BY <1>2, <1>4, <2>1, <2>2 DEF Threaded
  <2>4. SameNode(nd2, nd, c[k][j])
    BY <1>7, <1>8, <2>1, <2>3 DEF SameNode
  <2>5. ASSUME NEW i \in 1 .. Len(s2) PROVE s2[i] # c[k][j]
    BY <1>a, <2>1, <2>2
  <2> QED
    BY <2>4, <2>5
<1>15. DataIn(nd2, s2) = <<d>> \o DataIn(nd, s)
  <2>1. PICK e : e = DataIn(nd, s)
    OBVIOUS
  <2>2. <<d>> \o e = [i \in 1 .. Len(e) + 1 |-> IF i = 1 THEN d ELSE e[i - 1]]
    BY <1>2, <2>1, InFront
  <2>3. ASSUME NEW i \in 1 .. Len(s2)
        PROVE  nd2[s2[i]].data = IF i = 1 THEN d ELSE e[i - 1]
    BY <1>2, <1>7, <1>8, <1>a, <2>1 DEF DataIn
  <2>4. 1 .. Len(e) + 1 = 1 .. Len(s2)
    BY <1>2, <1>10, <2>1
  <2>5. <<d>> \o e = [i \in 1 .. Len(s2) |-> IF i = 1 THEN d ELSE e[i - 1]]
    BY <2>2, <2>4
  <2>6. DataIn(nd2, s2) = <<d>> \o e
    BY <2>3, <2>5 DEF DataIn
  <2> QED
    BY <2>1, <2>6
<1>16. Content(nd, c)[l] = DataIn(nd, s)
  BY <1>1 DEF Content, Shape
<1>17. PICK hd2, tl2, c2, ct : /\ hd2 = [hd EXCEPT ![l] = x] /\ tl2 = [tl EXCEPT ![l] = t]
                               /\ c2 = [c EXCEPT ![l] = s2]
                               /\ ct = [Content(nd, c) EXCEPT ![l] = DataIn(nd2, s2)]
  OBVIOUS
<1>18. Holds(hd2, tl2, nd2, c2, ct)
  <2>1. NodesTyped(nd2) /\ t \in Nodes \cup {Null} /\ x \in Nodes \cup {Null}
    BY <1>3, <1>8, <1>11 DEF NodesTyped
  <2>2. KeepsOthers(nd2, nd, c, l, s2)
    BY <1>14 DEF KeepsOthers, Shape
  <2>3. Shape(hd, tl, nd, c) /\ l \in DOMAIN hd /\ s2 \in Seq(DOMAIN nd2)
    BY <1>10
  <2> QED
    BY <1>12, <1>13, <1>17, <2>1, <2>2, <2>3, Rethread, Zenon
<1>19. [tl EXCEPT ![l] = IF @ = Null THEN x ELSE @] = [tl EXCEPT ![l] = t]
  BY <1>11
<1> QED
  BY <1>15, <1>16, <1>17, <1>18, <1>19

(* A node that is in no list goes to the end of one.                        *)
LEMMA PushBack ==
  ASSUME NEW hd, NEW tl, NEW nd, NEW c, Shape(hd, tl, nd, c), NEW l \in DOMAIN hd,
         NEW x \in Nodes \ DOMAIN nd, NEW d \in Data,
         NEW nd2, nd2 = With(Store(nd, tl[l], "next", x), x, list_create_node(d, tl[l], Null))
  PROVE  \E c2 : Holds([hd EXCEPT ![l] = IF @ = Null THEN x ELSE @], [tl EXCEPT ![l] = x], nd2, c2,
                       [Content(nd, c) EXCEPT ![l] = Append(Content(nd, c)[l], d)])
<1>1. PICK s : s = c[l]
  OBVIOUS
<1>2. /\ s \in Seq(DOMAIN nd) /\ Len(s) \in Nat
      /\ \A i \in 1 .. Len(s) : s[i] \in DOMAIN nd
      /\ \A i, j \in 1 .. Len(s) : s[i] = s[j] => i = j
      /\ Null \notin DOMAIN nd
      /\ DataIn(nd, s) \in Seq(Data) /\ Len(DataIn(nd, s)) = Len(s)
  BY <1>1, OfShape DEF IsInjective
<1>3. /\ nd \in [DOMAIN nd -> Node] /\ DOMAIN nd \subseteq Nodes
      /\ hd[l] \in Nodes \cup {Null} /\ tl[l] \in Nodes \cup {Null}
  BY DEF Shape, Typed
<1>4. Threaded(nd, s, hd[l], tl[l])
  BY <1>1 DEF Shape
<1>5. tl[l] \in DOMAIN nd \cup {Null}
  BY <1>2, <1>4 DEF Threaded
<1>6. PICK nd1 : nd1 = Store(nd, tl[l], "next", x)
  OBVIOUS
<1>7. /\ nd1 \in [DOMAIN nd -> Node]
      /\ \A m \in DOMAIN nd : /\ nd1[m].data = nd[m].data
                              /\ nd1[m].prev = nd[m].prev
                              /\ nd1[m].next = IF m = tl[l] THEN x ELSE nd[m].next
  BY <1>2, <1>3, <1>5, <1>6, StoreNext
<1>8. /\ DOMAIN nd2 = DOMAIN nd \cup {x}
      /\ nd2 \in [DOMAIN nd2 -> Node]
      /\ nd2[x].data = d /\ nd2[x].prev = tl[l] /\ nd2[x].next = Null
      /\ \A m \in DOMAIN nd : nd2[m] = nd1[m]
  <2>1. DOMAIN nd1 = DOMAIN nd /\ nd1 \in [DOMAIN nd1 -> Node] /\ x \in Nodes \ DOMAIN nd1
    BY <1>7
  <2>2. PICK r : r = list_create_node(d, tl[l], Null)
    OBVIOUS
  <2>3. r \in Node /\ r.data = d /\ r.prev = tl[l] /\ r.next = Null
    BY <1>3, <2>2 DEF Node, list_create_node
  <2>4. nd2 = With(nd1, x, r)
    BY <1>6, <2>2
  <2> QED
    BY <2>1, <2>3, <2>4 DEF With
<1>9. PICK s2 : s2 = [i \in 1 .. Len(s) + 1 |-> IF i = Len(s) + 1 THEN x ELSE s[i]]
  OBVIOUS
<1>10. s2 \in Seq(DOMAIN nd2) /\ Len(s2) = Len(s) + 1
  BY <1>2, <1>8, <1>9
<1>a. ASSUME NEW i \in 1 .. Len(s2)
      PROVE  \/ i = Len(s) + 1 /\ s2[i] = x
             \/ i \in 1 .. Len(s) /\ s2[i] = s[i]
  BY <1>2, <1>9, <1>10
<1>11. PICK h : h = IF hd[l] = Null THEN x ELSE hd[l]
  OBVIOUS
<1>12. Threaded(nd2, s2, h, x)
  <2>1. h = s2[1] /\ s2[Len(s) + 1] = x
    BY <1>2, <1>4, <1>9, <1>11 DEF Threaded
  <2>2. ASSUME NEW i \in 1 .. Len(s) + 1
        PROVE  /\ nd2[s2[i]].next = IF i = Len(s) + 1 THEN Null ELSE s2[i + 1]
               /\ nd2[s2[i]].prev = IF i = 1 THEN Null ELSE s2[i - 1]
    <3>1. CASE i = Len(s) + 1
      BY <1>2, <1>4, <1>8, <1>9, <3>1 DEF Threaded
    <3>2. CASE i # Len(s) + 1
      <4>1. i \in 1 .. Len(s) /\ s2[i] = s[i] /\ s[i] \in DOMAIN nd
        BY <1>2, <1>9, <3>2
      <4>2. nd2[s2[i]].prev = nd[s[i]].prev
        BY <1>7, <1>8, <4>1
      <4>3. nd2[s2[i]].next = IF s[i] = tl[l] THEN x ELSE nd[s[i]].next
        BY <1>7, <1>8, <4>1
      <4>4. s[i] = tl[l] <=> i = Len(s)
        BY <1>2, <1>4, <4>1 DEF Threaded
      <4>5. nd[s[i]].next = IF i = Len(s) THEN Null ELSE s[i + 1]
        BY <1>4, <4>1 DEF Threaded
      <4>6. nd[s[i]].prev = IF i = 1 THEN Null ELSE s[i - 1]
        BY <1>4, <4>1 DEF Threaded
      <4>7. nd2[s2[i]].next = s2[i + 1]
        BY <1>2, <1>9, <3>2, <4>1, <4>3, <4>4, <4>5
      <4>8. nd2[s2[i]].prev = IF i = 1 THEN Null ELSE s2[i - 1]
        BY <1>2, <1>9, <3>2, <4>1, <4>2, <4>6
      <4> QED
        BY <3>2, <4>7, <4>8
    <3> QED
      BY <3>1, <3>2
  <2> QED
    BY <1>2, <1>10, <2>1, <2>2 DEF Threaded
<1>13. IsInjective(s2)
  <2> SUFFICES ASSUME NEW i \in 1 .. Len(s2), NEW j \in 1 .. Len(s2), s2[i] = s2[j]
               PROVE  i = j
    BY <1>10, LenProperties DEF IsInjective
  <2>1. (i = Len(s) + 1 /\ s2[i] = x) \/ (i \in 1 .. Len(s) /\ s2[i] = s[i])
    BY <1>a
  <2>2. (j = Len(s) + 1 /\ s2[j] = x) \/ (j \in 1 .. Len(s) /\ s2[j] = s[j])
    BY <1>a
  <2>3. \A m \in 1 .. Len(s) : s[m] # x
    BY <1>2
  <2> QED
    BY <1>2, <2>1, <2>2, <2>3
<1>14. ASSUME NEW k \in DOMAIN hd, k # l, NEW j \in 1 .. Len(c[k])
       PROVE  SameNode(nd2, nd, c[k][j]) /\ \A i \in 1 .. Len(s2) : s2[i] # c[k][j]
  <2>1. c[k][j] \in DOMAIN nd
    BY OfShape
  <2>2. \A i \in 1 .. Len(s) : s[i] # c[k][j]
    BY <1>1, <1>14 DEF Shape
  <2>3. c[k][j] # tl[l]
    BY <1>2, <1>4, <2>1, <2>2 DEF Threaded
  <2>4. SameNode(nd2, nd, c[k][j])
    BY <1>7, <1>8, <2>1, <2>3 DEF SameNode
  <2>5. ASSUME NEW i \in 1 .. Len(s2) PROVE s2[i] # c[k][j]
    BY <1>a, <2>1, <2>2
  <2> QED
    BY <2>4, <2>5
<1>15. DataIn(nd2, s2) = Append(DataIn(nd, s), d)
  <2>1. PICK e : e = DataIn(nd, s)
    OBVIOUS
  <2>2. Append(e, d) = [i \in 1 .. Len(e) + 1 |-> IF i = Len(e) + 1 THEN d ELSE e[i]]
    BY <1>2, <2>1, AtEnd
  <2>3. ASSUME NEW i \in 1 .. Len(s2)
        PROVE  nd2[s2[i]].data = IF i = Len(e) + 1 THEN d ELSE e[i]
    BY <1>2, <1>7, <1>8, <1>a, <2>1 DEF DataIn
  <2>4. 1 .. Len(e) + 1 = 1 .. Len(s2)
    BY <1>2, <1>10, <2>1
  <2>5. Append(e, d) = [i \in 1 .. Len(s2) |-> IF i = Len(e) + 1 THEN d ELSE e[i]]
    BY <2>2, <2>4
  <2>6. DataIn(nd2, s2) = Append(e, d)
    BY <2>3, <2>5 DEF DataIn
  <2> QED
    BY <2>1, <2>6
<1>16. Content(nd, c)[l] = DataIn(nd, s)
  BY <1>1 DEF Content, Shape
<1>17. PICK hd2, tl2, c2, ct : /\ hd2 = [hd EXCEPT ![l] = h] /\ tl2 = [tl EXCEPT ![l] = x]
                               /\ c2 = [c EXCEPT ![l] = s2]
                               /\ ct = [Content(nd, c) EXCEPT ![l] = DataIn(nd2, s2)]
  OBVIOUS
<1>18. Holds(hd2, tl2, nd2, c2, ct)
  <2>1. NodesTyped(nd2) /\ h \in Nodes \cup {Null} /\ x \in Nodes \cup {Null}
    BY <1>3, <1>8, <1>11 DEF NodesTyped
  <2>2. KeepsOthers(nd2, nd, c, l, s2)
    BY <1>14 DEF KeepsOthers, Shape
  <2>3. Shape(hd, tl, nd, c) /\ l \in DOMAIN hd /\ s2 \in Seq(DOMAIN nd2)
    BY <1>10
  <2> QED
    BY <1>12, <1>13, <1>17, <2>1, <2>2, <2>3, Rethread, Zenon
<1>19. [hd EXCEPT ![l] = IF @ = Null THEN x ELSE @] = [hd EXCEPT ![l] = h]
  BY <1>11
<1> QED
  BY <1>15, <1>16, <1>17, <1>18, <1>19

(* Node q is bypassed, whether or not it is freed.                          *)
Bypassed(nd2, nd, q) ==
  \A m \in DOMAIN nd : m # q =>
    /\ m \in DOMAIN nd2
    /\ nd2[m].data = nd[m].data
    /\ nd2[m].next = IF m = nd[q].prev THEN nd[q].next ELSE nd[m].next
    /\ nd2[m].prev = IF m = nd[q].next THEN nd[q].prev ELSE nd[m].prev

(* The rest of the list stays linked.                                       *)
LEMMA Bypass ==
  ASSUME NEW hd, NEW tl, NEW nd, NEW c, Shape(hd, tl, nd, c), NEW l \in DOMAIN hd,
         NEW p \in 1 .. Len(c[l]), NEW q, q = c[l][p],
         NEW nd2, NodesTyped(nd2), Bypassed(nd2, nd, q)
  PROVE  \E c2 : Holds([hd EXCEPT ![l] = IF nd[q].prev = Null THEN nd[q].next ELSE @],
                       [tl EXCEPT ![l] = IF nd[q].next = Null THEN nd[q].prev ELSE @], nd2, c2,
                       [Content(nd, c) EXCEPT ![l] = Cut(@, p)])
<1>1. PICK s : s = c[l]
  OBVIOUS
<1>2. /\ s \in Seq(DOMAIN nd) /\ Len(s) \in Nat
      /\ \A i \in 1 .. Len(s) : s[i] \in DOMAIN nd
      /\ \A i, j \in 1 .. Len(s) : s[i] = s[j] => i = j
      /\ Null \notin DOMAIN nd
      /\ DataIn(nd, s) \in Seq(Data) /\ Len(DataIn(nd, s)) = Len(s)
  BY <1>1, OfShape DEF IsInjective
<1>3. /\ nd \in [DOMAIN nd -> Node] /\ DOMAIN nd \subseteq Nodes
      /\ hd[l] \in Nodes \cup {Null} /\ tl[l] \in Nodes \cup {Null}
  BY DEF Shape, Typed
<1>4. Threaded(nd, s, hd[l], tl[l])
  BY <1>1 DEF Shape
<1>5. PICK n \in Nat : n = Len(s)
  BY <1>2
<1>6. p \in 1 .. n /\ q = s[p] /\ q \in DOMAIN nd
  BY <1>1, <1>2, <1>5
<1>7. PICK prv, nxt : prv = nd[q].prev /\ nxt = nd[q].next
  OBVIOUS
<1>8. /\ prv = IF p = 1 THEN Null ELSE s[p - 1]
      /\ nxt = IF p = n THEN Null ELSE s[p + 1]
  BY <1>4, <1>5, <1>6, <1>7 DEF Threaded
<1>9. /\ \A i \in 1 .. n : s[i] = prv <=> i = p - 1
      /\ \A i \in 1 .. n : s[i] = nxt <=> i = p + 1
      /\ prv = Null <=> p = 1
      /\ nxt = Null <=> p = n
  BY <1>2, <1>5, <1>6, <1>8
<1>10. \A i \in 1 .. n : i # p => s[i] # q
  BY <1>2, <1>5, <1>6
<1>11. ASSUME NEW i \in 1 .. n, i # p
       PROVE  /\ s[i] \in DOMAIN nd2
              /\ nd2[s[i]].data = nd[s[i]].data
              /\ nd2[s[i]].next = IF i = p - 1 THEN nxt ELSE IF i = n THEN Null ELSE s[i + 1]
              /\ nd2[s[i]].prev = IF i = p + 1 THEN prv ELSE IF i = 1 THEN Null ELSE s[i - 1]
  <2>1. s[i] \in DOMAIN nd /\ s[i] # q
    BY <1>2, <1>5, <1>10, <1>11
  <2>2. /\ s[i] \in DOMAIN nd2
        /\ nd2[s[i]].data = nd[s[i]].data
        /\ nd2[s[i]].next = IF s[i] = prv THEN nxt ELSE nd[s[i]].next
        /\ nd2[s[i]].prev = IF s[i] = nxt THEN prv ELSE nd[s[i]].prev
    BY <1>7, <2>1 DEF Bypassed
  <2>3. /\ nd[s[i]].next = IF i = n THEN Null ELSE s[i + 1]
        /\ nd[s[i]].prev = IF i = 1 THEN Null ELSE s[i - 1]
    BY <1>4, <1>5 DEF Threaded
  <2>4. (s[i] = prv <=> i = p - 1) /\ (s[i] = nxt <=> i = p + 1)
    BY <1>9
  <2> QED
    BY <2>2, <2>3, <2>4
<1>12. PICK s2 : s2 = Cut(s, p)
  OBVIOUS
<1>13. s2 = [i \in 1 .. n - 1 |-> IF i < p THEN s[i] ELSE s[i + 1]]
  BY <1>5, <1>12 DEF Cut
<1>14. \A i \in 1 .. n - 1 : \/ i < p /\ i \in 1 .. n /\ s2[i] = s[i]
                             \/ ~ (i < p) /\ i + 1 \in 1 .. n /\ i + 1 # p /\ s2[i] = s[i + 1]
  BY <1>6, <1>13
<1>15. s2 \in Seq(DOMAIN nd2) /\ Len(s2) = n - 1
  <2>1. \A i \in 1 .. n - 1 : s2[i] \in DOMAIN nd2
    BY <1>6, <1>11, <1>14
  <2> QED
    BY <1>6, <1>13, <2>1
<1>16. PICK h, t : /\ h = IF prv = Null THEN nxt ELSE hd[l]
                   /\ t = IF nxt = Null THEN prv ELSE tl[l]
  OBVIOUS
<1>17. Threaded(nd2, s2, h, t)
  <2>1. hd[l] = s[1] /\ tl[l] = s[n]
    BY <1>4, <1>5, <1>6 DEF Threaded
  <2>2. h = IF n - 1 = 0 THEN Null ELSE s2[1]
    BY <1>6, <1>8, <1>9, <1>13, <1>16, <2>1
  <2>3. t = IF n - 1 = 0 THEN Null ELSE s2[n - 1]
    BY <1>6, <1>8, <1>9, <1>13, <1>16, <2>1
  <2>4. ASSUME NEW i \in 1 .. n - 1
        PROVE  /\ nd2[s2[i]].next = IF i = n - 1 THEN Null ELSE s2[i + 1]
               /\ nd2[s2[i]].prev = IF i = 1 THEN Null ELSE s2[i - 1]
    <3>1. CASE i < p
      <4>1. i \in 1 .. n /\ i # p /\ i # p + 1 /\ s2[i] = s[i]
        BY <1>6, <1>13, <3>1
      <4>2. /\ nd2[s[i]].next = IF i = p - 1 THEN nxt ELSE IF i = n THEN Null ELSE s[i + 1]
            /\ nd2[s[i]].prev = IF i = 1 THEN Null ELSE s[i - 1]
        BY <1>11, <4>1
      <4>3. i # 1 => s2[i - 1] = s[i - 1]
        BY <1>6, <1>13, <3>1
      <4>4. i # n - 1 => s2[i + 1] = IF i = p - 1 THEN s[p + 1] ELSE s[i + 1]
        BY <1>6, <1>13, <3>1
      <4>5. i = p - 1 => nxt = IF i = n - 1 THEN Null ELSE s[p + 1]
        BY <1>6, <1>8
      <4>6. i # p - 1 => i # n - 1 /\ i # n
        BY <1>6, <3>1
      <4> QED
        BY <4>1, <4>2, <4>3, <4>4, <4>5, <4>6
    <3>2. CASE ~ (i < p)
      <4>1. i + 1 \in 1 .. n /\ i + 1 # p /\ i + 1 # p - 1 /\ i + 1 # 1 /\ s2[i] = s[i + 1]
        BY <1>6, <1>13, <3>2
      <4>2. /\ nd2[s[i + 1]].next = IF i + 1 = n THEN Null ELSE s[i + 1 + 1]
            /\ nd2[s[i + 1]].prev = IF i + 1 = p + 1 THEN prv ELSE s[i + 1 - 1]
        BY <1>11, <4>1
      <4>3. i # n - 1 => s2[i + 1] = s[i + 1 + 1]
        BY <1>6, <1>13, <3>2
      <4>4. i # 1 => s2[i - 1] = IF i = p THEN s[p - 1] ELSE s[i]
        BY <1>6, <1>13, <3>2
      <4>5. i = p => prv = IF i = 1 THEN Null ELSE s[p - 1]
        BY <1>6, <1>8
      <4>6. i # p => i # 1
        BY <1>6, <3>2
      <4>7. (i + 1 = n <=> i = n - 1) /\ (i + 1 = p + 1 <=> i = p) /\ i + 1 - 1 = i
        BY <1>6
      <4> QED
        BY <4>1, <4>2, <4>3, <4>4, <4>5, <4>6, <4>7
    <3> QED
      BY <3>1, <3>2
  <2> QED
    BY <1>15, <2>2, <2>3, <2>4 DEF Threaded
<1>18. IsInjective(s2)
  <2> SUFFICES ASSUME NEW i \in 1 .. n - 1, NEW j \in 1 .. n - 1, s2[i] = s2[j]
               PROVE  i = j
    BY <1>13 DEF IsInjective
  <2>1. \/ i < p /\ i \in 1 .. n /\ s2[i] = s[i]
        \/ ~ (i < p) /\ i + 1 \in 1 .. n /\ i + 1 # p /\ s2[i] = s[i + 1]
    BY <1>14
  <2>2. \/ j < p /\ j \in 1 .. n /\ s2[j] = s[j]
        \/ ~ (j < p) /\ j + 1 \in 1 .. n /\ j + 1 # p /\ s2[j] = s[j + 1]
    BY <1>14
  <2> QED
    BY <1>2, <1>5, <1>6, <2>1, <2>2
<1>19. ASSUME NEW k \in DOMAIN hd, k # l, NEW j \in 1 .. Len(c[k])
       PROVE  SameNode(nd2, nd, c[k][j]) /\ \A i \in 1 .. Len(s2) : s2[i] # c[k][j]
  <2>1. c[k][j] \in DOMAIN nd
    BY OfShape
  <2>2. \A i \in 1 .. Len(s) : s[i] # c[k][j]
    BY <1>1, <1>19 DEF Shape
  <2>3. c[k][j] # q /\ c[k][j] # prv /\ c[k][j] # nxt
    BY <1>2, <1>5, <1>6, <1>8, <2>1, <2>2
  <2>4. SameNode(nd2, nd, c[k][j])
    BY <1>7, <2>1, <2>3 DEF SameNode, Bypassed
  <2>5. ASSUME NEW i \in 1 .. Len(s2) PROVE s2[i] # c[k][j]
    BY <1>5, <1>14, <1>15, <2>2
  <2> QED
    BY <2>4, <2>5
<1>20. DataIn(nd2, s2) = Cut(DataIn(nd, s), p)
  <2>1. PICK e : e = DataIn(nd, s)
    OBVIOUS
  <2>2. Len(e) = n /\ \A i \in 1 .. n : e[i] = nd[s[i]].data
    BY <1>2, <1>5, <2>1 DEF DataIn
  <2>3. ASSUME NEW i \in 1 .. n - 1
        PROVE  nd2[s2[i]].data = IF i < p THEN e[i] ELSE e[i + 1]
    <3>1. \/ i < p /\ i \in 1 .. n /\ s2[i] = s[i]
          \/ ~ (i < p) /\ i + 1 \in 1 .. n /\ i + 1 # p /\ s2[i] = s[i + 1]
      BY <1>14
    <3> QED
      BY <1>6, <1>11, <2>2, <3>1
  <2>4. DataIn(nd2, s2) = [i \in 1 .. n - 1 |-> IF i < p THEN e[i] ELSE e[i + 1]]
    BY <1>15, <2>3 DEF DataIn
  <2> QED
    BY <2>1, <2>2, <2>4 DEF Cut
<1>21. Content(nd, c)[l] = DataIn(nd, s)
  BY <1>1 DEF Content, Shape
<1>22. PICK hd2, tl2, c2, ct : /\ hd2 = [hd EXCEPT ![l] = h] /\ tl2 = [tl EXCEPT ![l] = t]
                               /\ c2 = [c EXCEPT ![l] = s2]
                               /\ ct = [Content(nd, c) EXCEPT ![l] = DataIn(nd2, s2)]
  OBVIOUS
<1>23. Holds(hd2, tl2, nd2, c2, ct)
  <2>1. h \in Nodes \cup {Null} /\ t \in Nodes \cup {Null}
    BY <1>2, <1>3, <1>5, <1>6, <1>8, <1>16
  <2>2. KeepsOthers(nd2, nd, c, l, s2)
    BY <1>19 DEF KeepsOthers, Shape
  <2>3. Shape(hd, tl, nd, c) /\ l \in DOMAIN hd /\ s2 \in Seq(DOMAIN nd2) /\ NodesTyped(nd2)
    BY <1>15
  <2> QED
    BY <1>17, <1>18, <1>22, <2>1, <2>2, <2>3, Rethread, Zenon
<1>24. /\ [hd EXCEPT ![l] = IF nd[q].prev = Null THEN nd[q].next ELSE @] = hd2
       /\ [tl EXCEPT ![l] = IF nd[q].next = Null THEN nd[q].prev ELSE @] = tl2
  BY <1>7, <1>16, <1>22
<1>25. [Content(nd, c) EXCEPT ![l] = Cut(@, p)] = ct
  BY <1>20, <1>21, <1>22
<1> QED
  BY <1>23, <1>24, <1>25
-----------------------------------------------------------------------------
(* The states.                                                              *)

(* Nodes can be told for each list such that the memory has that shape.     *)
IInv == \E c : Shape(head, tail, node, c)

\* What the refinement mapping takes for the sequences.
Contents == [l \in DOMAIN head |-> DataOf(Forward(l))]

ContentsIn(hd, nd) ==
  [l \in DOMAIN hd |-> [i \in DOMAIN WalkIn(nd, hd[l], "next") |-> nd[WalkIn(nd, hd[l], "next")[i]].data]]

(* The contents of the lists, too, as an operator of the memory.            *)
LEMMA ContentsUnfolds == Contents = ContentsIn(head, node) /\ Contents' = ContentsIn(head', node')
BY Zenon DEF Contents, ContentsIn, DataOf, Forward, Walk, WalkIn, Visits, Visit, Bound

(* In a memory of that shape they are the data of the lists' nodes.         *)
LEMMA ContentsInIs ==
  ASSUME NEW hd, NEW tl, NEW nd, NEW c, Shape(hd, tl, nd, c)
  PROVE  ContentsIn(hd, nd) = Content(nd, c)
<1>1. DOMAIN c = DOMAIN hd
  BY DEF Shape
<1>2. ASSUME NEW l \in DOMAIN hd
      PROVE  WalkIn(nd, hd[l], "next") = c[l] /\ DOMAIN c[l] = 1 .. Len(c[l])
  BY WalksFind, OfShape
<1> QED
  BY <1>1, <1>2 DEF ContentsIn, Content, DataIn

(* The same of the present state, and what its walks find.                  *)
LEMMA StateShape ==
  ASSUME NEW c, Shape(head, tail, node, c)
  PROVE  /\ Contents = Content(node, c)
         /\ DOMAIN c = DOMAIN head
         /\ DOMAIN Contents = DOMAIN head
         /\ \A l \in DOMAIN head : /\ Forward(l) = c[l]
                                   /\ Walk(tail[l], "prev") = Reverse(c[l])
                                   /\ Contents[l] = DataIn(node, c[l])
                                   /\ DataOf(Forward(l)) = DataIn(node, c[l])
<1>1. Contents = Content(node, c)
  BY ContentsUnfolds, ContentsInIs
<1>2. DOMAIN c = DOMAIN head
  BY DEF Shape
<1>3. ASSUME NEW l \in DOMAIN head
      PROVE  Forward(l) = c[l] /\ Walk(tail[l], "prev") = Reverse(c[l])
  BY WalkUnfolds, WalksFind DEF Forward
<1>4. ASSUME NEW l \in DOMAIN head
      PROVE  Contents[l] = DataIn(node, c[l])
  BY <1>1, <1>2 DEF Content
<1>5. DOMAIN Contents = DOMAIN head
  BY DEF Contents
<1>6. ASSUME NEW l \in DOMAIN head
      PROVE  DataOf(Forward(l)) = DataIn(node, c[l])
  BY <1>3, OfShape DEF DataOf, DataIn
<1> QED
  BY <1>1, <1>2, <1>3, <1>4, <1>5, <1>6

(* What a step has to show.                                                 *)
LEMMA Reaches ==
  ASSUME NEW c2, NEW ct, Holds(head', tail', node', c2, ct)
  PROVE  IInv' /\ Contents' = ct
<1>1. Shape(head', tail', node', c2) /\ Content(node', c2) = ct
  BY DEF Holds
<1>2. Contents' = ct
  BY <1>1, ContentsUnfolds, ContentsInIs
<1> QED
  BY <1>1, <1>2 DEF IInv

(* list_create makes a list that is the empty sequence.                     *)
LEMMA CreateStep ==
  ASSUME IInv, NEW l \in Lists \ DOMAIN head, list_create(l)
  PROVE  IInv' /\ Contents' = [k \in DOMAIN Contents \cup {l} |-> IF k = l THEN <<>> ELSE Contents[k]]
<1>1. PICK c : Shape(head, tail, node, c)
  BY DEF IInv
<1>2. PICK c2 : c2 = [k \in DOMAIN head \cup {l} |-> IF k = l THEN <<>> ELSE c[k]]
  OBVIOUS
<1>3. /\ head' = [k \in DOMAIN head \cup {l} |-> IF k = l THEN Null ELSE head[k]]
      /\ tail' = [k \in DOMAIN head \cup {l} |-> IF k = l THEN Null ELSE tail[k]]
      /\ node' = node
  BY <1>1 DEF list_create, With, Shape, Typed
<1>4. Typed(head', tail', node')
  BY <1>1, <1>3 DEF Shape, Typed
<1>5. c2 \in [DOMAIN head' -> Seq(DOMAIN node')]
  <2>1. \A k \in DOMAIN head : c[k] \in Seq(DOMAIN node)
    BY <1>1 DEF Shape
  <2>2. <<>> \in Seq(DOMAIN node)
    BY EmptySeq
  <2>3. \A k \in DOMAIN head \cup {l} : c2[k] \in Seq(DOMAIN node)
    BY <1>2, <2>1, <2>2
  <2> QED
    BY <1>2, <1>3, <2>3
<1>6. ASSUME NEW k \in DOMAIN head' PROVE Threaded(node', c2[k], head'[k], tail'[k])
  <2>1. CASE k = l
    BY <1>2, <1>3, <2>1 DEF Threaded
  <2>2. CASE k # l
    BY <1>1, <1>2, <1>3, <2>2 DEF Shape
  <2> QED
    BY <2>1, <2>2
<1>7. ASSUME NEW k \in DOMAIN head', NEW m \in DOMAIN head',
             NEW i \in 1 .. Len(c2[k]), NEW j \in 1 .. Len(c2[m]), c2[k][i] = c2[m][j]
      PROVE  k = m /\ i = j
  <2>1. k # l /\ m # l
    BY <1>2, <1>3
  <2> QED
    BY <1>1, <1>2, <1>3, <1>7, <2>1 DEF Shape
<1>8. Shape(head', tail', node', c2)
  BY <1>4, <1>5, <1>6, <1>7 DEF Shape
<1>9. Content(node', c2) = [k \in DOMAIN Contents \cup {l} |-> IF k = l THEN <<>> ELSE Contents[k]]
  <2>1. DataIn(node', <<>>) = <<>>
    BY DEF DataIn
  <2> QED
    BY <1>1, <1>2, <1>3, <2>1, StateShape DEF Content
<1> QED
  BY <1>8, <1>9, Reaches DEF Holds

(* list_destroy frees the nodes of its list, all of them and no other.      *)
LEMMA DestroyStep ==
  ASSUME IInv, NEW l \in DOMAIN head, list_destroy(l)
  PROVE  IInv' /\ Contents' = [k \in DOMAIN Contents \ {l} |-> Contents[k]]
<1>1. PICK c : Shape(head, tail, node, c)
  BY DEF IInv
<1>2. PICK c2 : c2 = [k \in DOMAIN head \ {l} |-> c[k]]
  OBVIOUS
<1>3. /\ head' = [k \in DOMAIN head \ {l} |-> head[k]]
      /\ tail' = [k \in DOMAIN head \ {l} |-> tail[k]]
  BY <1>1 DEF list_destroy, Without, Shape, Typed
<1>4. node' = [n \in DOMAIN node \ {c[l][i] : i \in 1 .. Len(c[l])} |-> node[n]]
  <2>1. Forward(l) = c[l] /\ DOMAIN c[l] = 1 .. Len(c[l])
    BY <1>1, StateShape, OfShape
  <2> QED
    BY <2>1 DEF list_destroy, Without, ToSet
<1>5. Typed(head', tail', node')
  BY <1>1, <1>3, <1>4 DEF Shape, Typed
<1>6. ASSUME NEW k \in DOMAIN head', NEW i \in 1 .. Len(c[k])
      PROVE  c[k][i] \in DOMAIN node' /\ node'[c[k][i]] = node[c[k][i]]
  <2>1. k \in DOMAIN head /\ k # l
    BY <1>3
  <2>2. c[k][i] \in DOMAIN node
    BY <1>1, <2>1, OfShape
  <2>3. \A j \in 1 .. Len(c[l]) : c[l][j] # c[k][i]
    BY <1>1, <2>1 DEF Shape
  <2> QED
    BY <1>4, <2>2, <2>3
<1>7. ASSUME NEW k \in DOMAIN head' PROVE c2[k] \in Seq(DOMAIN node')
  <2>1. c[k] \in Seq(DOMAIN node) /\ c2[k] = c[k]
    BY <1>1, <1>2, <1>3 DEF Shape
  <2>2. \A i \in 1 .. Len(c[k]) : c[k][i] \in DOMAIN node'
    BY <1>6
  <2> QED
    BY <2>1, <2>2, ElementsIn
<1>8. c2 \in [DOMAIN head' -> Seq(DOMAIN node')]
  BY <1>2, <1>3, <1>7
<1>9. ASSUME NEW k \in DOMAIN head' PROVE Threaded(node', c2[k], head'[k], tail'[k])
  <2>1. k \in DOMAIN head /\ c2[k] = c[k] /\ head'[k] = head[k] /\ tail'[k] = tail[k]
    BY <1>2, <1>3
  <2>2. Threaded(node, c[k], head[k], tail[k])
    BY <1>1, <2>1 DEF Shape
  <2> QED
    BY <1>6, <2>1, <2>2 DEF Threaded
<1>10. ASSUME NEW k \in DOMAIN head', NEW m \in DOMAIN head',
              NEW i \in 1 .. Len(c2[k]), NEW j \in 1 .. Len(c2[m]), c2[k][i] = c2[m][j]
       PROVE  k = m /\ i = j
  BY <1>1, <1>2, <1>3, <1>10 DEF Shape
<1>11. Shape(head', tail', node', c2)
  BY <1>5, <1>8, <1>9, <1>10 DEF Shape
<1>12. Content(node', c2) = [k \in DOMAIN Contents \ {l} |-> Contents[k]]
  <2>1. ASSUME NEW k \in DOMAIN head' PROVE DataIn(node', c[k]) = DataIn(node, c[k])
    BY <1>6 DEF DataIn
  <2> QED
    BY <1>1, <1>2, <1>3, <2>1, StateShape DEF Content
<1> QED
  BY <1>11, <1>12, Reaches DEF Holds

(* list_push_front puts the datum before the sequence ...                   *)
LEMMA PushFrontStep ==
  ASSUME IInv, NEW l \in DOMAIN head, NEW d \in Data, list_push_front(l, d)
  PROVE  IInv' /\ Contents' = [Contents EXCEPT ![l] = <<d>> \o Contents[l]]
<1>1. PICK c : Shape(head, tail, node, c)
  BY DEF IInv
<1>2. PICK x \in Nodes \ DOMAIN node :
        /\ node' = With(Store(node, head[l], "prev", x), x, list_create_node(d, Null, head[l]))
        /\ head' = [head EXCEPT ![l] = x]
        /\ tail' = [tail EXCEPT ![l] = IF @ = Null THEN x ELSE @]
  BY DEF list_push_front
<1>3. \E c2 : Holds([head EXCEPT ![l] = x], [tail EXCEPT ![l] = IF @ = Null THEN x ELSE @], node', c2,
                    [Content(node, c) EXCEPT ![l] = <<d>> \o Content(node, c)[l]])
  BY <1>1, <1>2, PushFront
<1>4. Contents = Content(node, c)
  BY <1>1, StateShape
<1> QED
  BY <1>2, <1>3, <1>4, Reaches

(* ... and list_push_back behind it.                                        *)
LEMMA PushBackStep ==
  ASSUME IInv, NEW l \in DOMAIN head, NEW d \in Data, list_push_back(l, d)
  PROVE  IInv' /\ Contents' = [Contents EXCEPT ![l] = Append(Contents[l], d)]
<1>1. PICK c : Shape(head, tail, node, c)
  BY DEF IInv
<1>2. PICK x \in Nodes \ DOMAIN node :
        /\ node' = With(Store(node, tail[l], "next", x), x, list_create_node(d, tail[l], Null))
        /\ head' = [head EXCEPT ![l] = IF @ = Null THEN x ELSE @]
        /\ tail' = [tail EXCEPT ![l] = x]
  BY DEF list_push_back
<1>3. \E c2 : Holds([head EXCEPT ![l] = IF @ = Null THEN x ELSE @], [tail EXCEPT ![l] = x], node', c2,
                    [Content(node, c) EXCEPT ![l] = Append(Content(node, c)[l], d)])
  BY <1>1, <1>2, PushBack
<1>4. Contents = Content(node, c)
  BY <1>1, StateShape
<1> QED
  BY <1>2, <1>3, <1>4, Reaches

(* What Bypass asks of a pop or a removal, and what comes of it.            *)
LEMMA BypassStep ==
  ASSUME NEW c, Shape(head, tail, node, c), NEW l \in DOMAIN head,
         NEW p \in 1 .. Len(c[l]), NEW q, q = c[l][p],
         NodesTyped(node'), Bypassed(node', node, q),
         head' = [head EXCEPT ![l] = IF node[q].prev = Null THEN node[q].next ELSE @],
         tail' = [tail EXCEPT ![l] = IF node[q].next = Null THEN node[q].prev ELSE @],
         NEW ct, ct = [Contents EXCEPT ![l] = Cut(@, p)]
  PROVE  IInv' /\ Contents' = ct
<1>1. \E c2 : Holds([head EXCEPT ![l] = IF node[q].prev = Null THEN node[q].next ELSE @],
                    [tail EXCEPT ![l] = IF node[q].next = Null THEN node[q].prev ELSE @], node', c2,
                    [Content(node, c) EXCEPT ![l] = Cut(@, p)])
  BY Bypass
<1>2. Contents = Content(node, c)
  BY StateShape
<1> QED
  BY <1>1, <1>2, Reaches

(* list_pop_front takes the first element out and returns it: its node is   *)
(* read before it is freed, and the next one forgets it ...                 *)
LEMMA PopFrontStep ==
  ASSUME IInv, NEW l \in DOMAIN head, ~ list_empty(l), list_pop_front(l)
  PROVE  /\ IInv' /\ Contents' = [Contents EXCEPT ![l] = Tail(Contents[l])]
         /\ call' = <<"pop_front", l, Head(Contents[l])>>
<1>1. PICK c : Shape(head, tail, node, c)
  BY DEF IInv
<1>2. PICK s : s = c[l]
  OBVIOUS
<1>3. /\ Len(s) \in Nat /\ \A i \in 1 .. Len(s) : s[i] \in DOMAIN node
      /\ IsInjective(s) /\ DOMAIN s = 1 .. Len(s) /\ Null \notin DOMAIN node
      /\ DataIn(node, s) \in Seq(Data) /\ Len(DataIn(node, s)) = Len(s)
  BY <1>1, <1>2, OfShape
<1>4. Threaded(node, s, head[l], tail[l])
  BY <1>1, <1>2 DEF Shape
<1>5. /\ node \in [DOMAIN node -> Node] /\ DOMAIN node \subseteq Nodes
      /\ head \in [DOMAIN head -> Nodes \cup {Null}] /\ tail \in [DOMAIN head -> Nodes \cup {Null}]
  BY <1>1 DEF Shape, Typed
<1>6. Len(s) # 0 /\ 1 \in 1 .. Len(s) /\ head[l] = s[1]
  <2>1. PICK n \in Nat : n = Len(s)
    BY <1>3
  <2>2. n # 0 /\ head[l] = s[1]
    BY <1>4, <2>1 DEF list_empty, Threaded
  <2>3. 1 \in 1 .. n
    BY <2>2
  <2> QED
    BY <2>1, <2>2, <2>3
<1>7. PICK q, next : q = head[l] /\ next = node[q].next
  OBVIOUS
<1>8. q \in DOMAIN node /\ node[q].prev = Null /\ next = IF Len(s) = 1 THEN Null ELSE s[2]
  <2>1. /\ node[s[1]].next = IF 1 = Len(s) THEN Null ELSE s[1 + 1]
        /\ node[s[1]].prev = IF 1 = 1 THEN Null ELSE s[1 - 1]
    BY <1>4, <1>6 DEF Threaded
  <2> QED
    BY <1>3, <1>6, <1>7, <2>1
<1>9. next \in (DOMAIN node \ {q}) \cup {Null}
  <2>1. Len(s) # 1 => 2 \in 1 .. Len(s) /\ s[2] # s[1]
    BY <1>3, <1>6 DEF IsInjective
  <2> QED
    BY <1>3, <1>6, <1>7, <1>8, <2>1
<1>10. /\ head' = [head EXCEPT ![l] = next]
       /\ tail' = [tail EXCEPT ![l] = IF next = Null THEN Null ELSE @]
       /\ node' = Store(Without(node, {q}), next, "prev", Null)
       /\ call' = <<"pop_front", l, node[q].data>>
  BY <1>7 DEF list_pop_front
<1>11. PICK nd1 : nd1 = Without(node, {q})
  OBVIOUS
<1>12. /\ nd1 \in [DOMAIN node \ {q} -> Node] /\ DOMAIN nd1 = DOMAIN node \ {q}
       /\ \A m \in DOMAIN node \ {q} : nd1[m] = node[m]
  BY <1>5, <1>11 DEF Without
<1>13. /\ node' \in [DOMAIN nd1 -> Node]
       /\ \A m \in DOMAIN nd1 : /\ node'[m].data = nd1[m].data
                                /\ node'[m].next = nd1[m].next
                                /\ node'[m].prev = IF m = next THEN Null ELSE nd1[m].prev
  <2>1. nd1 \in [DOMAIN nd1 -> Node] /\ Null \notin DOMAIN nd1 /\ Null \in Nodes \cup {Null}
        /\ next \in DOMAIN nd1 \cup {Null}
    BY <1>3, <1>9, <1>12
  <2>2. node' = Store(nd1, next, "prev", Null)
    BY <1>10, <1>11
  <2> QED
    BY <2>1, <2>2, StorePrev
<1>14. NodesTyped(node')
  BY <1>5, <1>12, <1>13 DEF NodesTyped
<1>15. Bypassed(node', node, q)
  BY <1>3, <1>7, <1>8, <1>12, <1>13 DEF Bypassed
<1>16. /\ head' = [head EXCEPT ![l] = IF node[q].prev = Null THEN node[q].next ELSE @]
       /\ tail' = [tail EXCEPT ![l] = IF node[q].next = Null THEN node[q].prev ELSE @]
  BY <1>7, <1>8, <1>10
<1>17. IInv' /\ Contents' = [Contents EXCEPT ![l] = Cut(@, 1)]
  <2>1. PICK ct : ct = [Contents EXCEPT ![l] = Cut(@, 1)]
    OBVIOUS
  <2>2. l \in DOMAIN head /\ 1 \in 1 .. Len(c[l]) /\ q = c[l][1]
    BY <1>2, <1>6, <1>7
  <2>3. IInv' /\ Contents' = ct
    BY <1>1, <1>14, <1>15, <1>16, <2>1, <2>2, BypassStep
  <2> QED
    BY <2>1, <2>3
<1>18. Contents[l] = DataIn(node, s)
  BY <1>1, <1>2, StateShape
<1>19. Tail(Contents[l]) = Cut(Contents[l], 1) /\ Head(Contents[l]) = node[q].data
  <2>1. PICK e : e = DataIn(node, s)
    OBVIOUS
  <2>2. e \in Seq(Data) /\ Len(e) # 0 /\ e[1] = node[q].data
    BY <1>3, <1>6, <1>7, <2>1 DEF DataIn
  <2>3. Tail(e) = Cut(e, 1) /\ Head(e) = e[1]
    BY <2>2, CutFirst
  <2> QED
    BY <1>18, <2>1, <2>2, <2>3
<1> QED
  BY <1>10, <1>17, <1>19

(* ... and list_pop_back does so with the last.                             *)
LEMMA PopBackStep ==
  ASSUME IInv, NEW l \in DOMAIN head, ~ list_empty(l), list_pop_back(l)
  PROVE  /\ IInv' /\ Contents' = [Contents EXCEPT ![l] = Front(Contents[l])]
         /\ call' = <<"pop_back", l, Last(Contents[l])>>
<1>1. PICK c : Shape(head, tail, node, c)
  BY DEF IInv
<1>2. PICK s : s = c[l]
  OBVIOUS
<1>3. /\ Len(s) \in Nat /\ \A i \in 1 .. Len(s) : s[i] \in DOMAIN node
      /\ IsInjective(s) /\ DOMAIN s = 1 .. Len(s) /\ Null \notin DOMAIN node
      /\ DataIn(node, s) \in Seq(Data) /\ Len(DataIn(node, s)) = Len(s)
  BY <1>1, <1>2, OfShape
<1>4. Threaded(node, s, head[l], tail[l])
  BY <1>1, <1>2 DEF Shape
<1>5. /\ node \in [DOMAIN node -> Node] /\ DOMAIN node \subseteq Nodes
      /\ head \in [DOMAIN head -> Nodes \cup {Null}] /\ tail \in [DOMAIN head -> Nodes \cup {Null}]
  BY <1>1 DEF Shape, Typed
<1>6. PICK n \in Nat : n = Len(s)
  BY <1>3
<1>7. n # 0 /\ n \in 1 .. n /\ tail[l] = s[n]
  <2>1. n # 0 /\ tail[l] = s[n]
    BY <1>4, <1>6 DEF list_empty, Threaded
  <2> QED
    BY <2>1
<1>8. PICK q, prev : q = tail[l] /\ prev = node[q].prev
  OBVIOUS
<1>9. q \in DOMAIN node /\ node[q].next = Null /\ prev = IF n = 1 THEN Null ELSE s[n - 1]
  <2>1. /\ node[s[n]].next = IF n = n THEN Null ELSE s[n + 1]
        /\ node[s[n]].prev = IF n = 1 THEN Null ELSE s[n - 1]
    BY <1>4, <1>6, <1>7 DEF Threaded
  <2> QED
    BY <1>3, <1>6, <1>7, <1>8, <2>1
<1>10. prev \in (DOMAIN node \ {q}) \cup {Null}
  <2>1. n # 1 => n - 1 \in 1 .. n /\ n - 1 # n
    BY <1>7
  <2>2. n # 1 => s[n - 1] # s[n]
    BY <1>3, <1>6, <1>7, <2>1 DEF IsInjective
  <2> QED
    BY <1>3, <1>6, <1>7, <1>8, <1>9, <2>1, <2>2
<1>11. /\ tail' = [tail EXCEPT ![l] = prev]
       /\ head' = [head EXCEPT ![l] = IF prev = Null THEN Null ELSE @]
       /\ node' = Store(Without(node, {q}), prev, "next", Null)
       /\ call' = <<"pop_back", l, node[q].data>>
  BY <1>8 DEF list_pop_back
<1>12. PICK nd1 : nd1 = Without(node, {q})
  OBVIOUS
<1>13. /\ nd1 \in [DOMAIN node \ {q} -> Node] /\ DOMAIN nd1 = DOMAIN node \ {q}
       /\ \A m \in DOMAIN node \ {q} : nd1[m] = node[m]
  BY <1>5, <1>12 DEF Without
<1>14. /\ node' \in [DOMAIN nd1 -> Node]
       /\ \A m \in DOMAIN nd1 : /\ node'[m].data = nd1[m].data
                                /\ node'[m].prev = nd1[m].prev
                                /\ node'[m].next = IF m = prev THEN Null ELSE nd1[m].next
  <2>1. nd1 \in [DOMAIN nd1 -> Node] /\ Null \notin DOMAIN nd1 /\ Null \in Nodes \cup {Null}
        /\ prev \in DOMAIN nd1 \cup {Null}
    BY <1>3, <1>10, <1>13
  <2>2. node' = Store(nd1, prev, "next", Null)
    BY <1>11, <1>12
  <2> QED
    BY <2>1, <2>2, StoreNext
<1>15. NodesTyped(node')
  BY <1>5, <1>13, <1>14 DEF NodesTyped
<1>16. Bypassed(node', node, q)
  BY <1>3, <1>8, <1>9, <1>13, <1>14 DEF Bypassed
<1>17. /\ head' = [head EXCEPT ![l] = IF node[q].prev = Null THEN node[q].next ELSE @]
       /\ tail' = [tail EXCEPT ![l] = IF node[q].next = Null THEN node[q].prev ELSE @]
  BY <1>8, <1>9, <1>11
<1>18. IInv' /\ Contents' = [Contents EXCEPT ![l] = Cut(@, n)]
  <2>1. PICK ct : ct = [Contents EXCEPT ![l] = Cut(@, n)]
    OBVIOUS
  <2>2. l \in DOMAIN head /\ n \in 1 .. Len(c[l]) /\ q = c[l][n]
    BY <1>2, <1>6, <1>7, <1>8
  <2>3. IInv' /\ Contents' = ct
    BY <1>1, <1>15, <1>16, <1>17, <2>1, <2>2, BypassStep
  <2> QED
    BY <2>1, <2>3
<1>19. Contents[l] = DataIn(node, s)
  BY <1>1, <1>2, StateShape
<1>20. Front(Contents[l]) = Cut(Contents[l], n) /\ Last(Contents[l]) = node[q].data
  <2>1. PICK e : e = DataIn(node, s)
    OBVIOUS
  <2>2. e \in Seq(Data) /\ Len(e) = n /\ Len(e) # 0 /\ e[n] = node[q].data
    BY <1>3, <1>6, <1>7, <1>8, <2>1 DEF DataIn
  <2>3. Front(e) = Cut(e, n) /\ Last(e) = e[n]
    BY <2>2, CutLast
  <2> QED
    BY <1>19, <2>1, <2>2, <2>3
<1> QED
  BY <1>11, <1>18, <1>20

(* The first place of a datum in a sequence, 0 when it is not in it.        *)
Place(e, d) == SelectInSeq(e, LAMBDA x : x = d)

(* Removing a datum cuts the sequence at its first place, if it has one.    *)
LEMMA PlaceIs ==
  ASSUME NEW S, NEW e \in Seq(S), NEW d, NEW p, p = Place(e, d)
  PROVE  \/ p = 0 /\ (\A i \in 1 .. Len(e) : e[i] # d) /\ RemoveFirst(e, d) = e
         \/ p \in 1 .. Len(e) /\ e[p] = d /\ RemoveFirst(e, d) = Cut(e, p)
<1> DEFINE I == {i \in 1 .. Len(e) : e[i] = d}
<1>1. Len(e) \in Nat
  BY LenProperties
<1>2. p = IF I # {} THEN Min(I) ELSE 0
  BY DEF Place, SelectInSeq
<1>3. CASE I = {}
  BY <1>2, <1>3 DEF RemoveFirst
<1>4. CASE I # {}
  <2>1. I \in SUBSET Nat
    BY <1>1
  <2>2. \E m \in I : \A n \in I : m <= n
    BY <1>4, <2>1, LeastMember
  <2>3. Min(I) \in I
    BY <2>2 DEF Min
  <2>4. p \in 1 .. Len(e) /\ e[p] = d
    BY <1>2, <1>4, <2>3
  <2>5. RemoveFirst(e, d) = RemoveAt(e, p)
    BY <2>4 DEF RemoveFirst, Place
  <2> QED
    BY <2>4, <2>5, CutAt
<1> QED
  BY <1>3, <1>4

(* The search ends at the node at that place.                               *)
LEMMA SearchEnds ==
  ASSUME NEW c, Shape(head, tail, node, c), NEW l \in DOMAIN head, NEW d,
         NEW p, p = Place(Contents[l], d)
  PROVE  Search(l, d) = IF p = 0 THEN Null ELSE c[l][p]
<1>1. Forward(l) = c[l] /\ DataOf(Forward(l)) = Contents[l]
  BY StateShape
<1> QED
  BY <1>1 DEF Search, Place

(* list_remove takes out the first node with the datum, wherever it is;     *)
(* its memory is not freed.                                                 *)
LEMMA RemoveStep ==
  ASSUME IInv, NEW l \in DOMAIN head, NEW d \in Data, list_remove(l, d)
  PROVE  IInv' /\ Contents' = [Contents EXCEPT ![l] = RemoveFirst(@, d)]
<1>1. PICK c : Shape(head, tail, node, c)
  BY DEF IInv
<1>2. PICK p, s : p = Place(Contents[l], d) /\ s = c[l]
  OBVIOUS
<1>3. /\ s \in Seq(DOMAIN node) /\ Len(s) \in Nat
      /\ \A i \in 1 .. Len(s) : s[i] \in DOMAIN node
      /\ IsInjective(s) /\ DOMAIN s = 1 .. Len(s) /\ Null \notin DOMAIN node
      /\ DataIn(node, s) \in Seq(Data) /\ Len(DataIn(node, s)) = Len(s)
  BY <1>1, <1>2, OfShape
<1>4. Contents[l] = DataIn(node, s) /\ DOMAIN Contents = DOMAIN head
  BY <1>1, <1>2, StateShape
<1>5. \/ p = 0 /\ RemoveFirst(Contents[l], d) = Contents[l]
      \/ p \in 1 .. Len(s) /\ RemoveFirst(Contents[l], d) = Cut(Contents[l], p)
  <2>1. Contents[l] \in Seq(Data) /\ Len(Contents[l]) = Len(s)
    BY <1>3, <1>4
  <2>2. \/ p = 0 /\ (\A i \in 1 .. Len(Contents[l]) : Contents[l][i] # d)
                 /\ RemoveFirst(Contents[l], d) = Contents[l]
        \/ p \in 1 .. Len(Contents[l]) /\ Contents[l][p] = d
                 /\ RemoveFirst(Contents[l], d) = Cut(Contents[l], p)
    BY <1>2, <2>1, PlaceIs
  <2> QED
    BY <2>1, <2>2
<1>6. PICK q : q = Search(l, d)
  OBVIOUS
<1>7. q = IF p = 0 THEN Null ELSE s[p]
  BY <1>1, <1>2, <1>6, SearchEnds
<1>8. CASE p = 0
  <2>1. RemoveFirst(Contents[l], d) = Contents[l]
    BY <1>3, <1>5, <1>8
  <2>2. UNCHANGED <<head, node, tail>>
    BY <1>6, <1>7, <1>8 DEF list_remove
  <2>3. Holds(head', tail', node', c, Contents)
    BY <1>1, <2>2, StateShape DEF Holds
  <2>4. [Contents EXCEPT ![l] = RemoveFirst(@, d)] = Contents
    BY <2>1 DEF Contents
  <2> QED
    BY <2>3, <2>4, Reaches
<1>9. CASE p # 0
  <2>1. PICK n \in Nat : n = Len(s)
    BY <1>3
  <2>2. p \in 1 .. n /\ q = s[p] /\ q \in DOMAIN node /\ q # Null
    BY <1>3, <1>5, <1>7, <1>9, <2>1
  <2>3. PICK prev, next : prev = node[q].prev /\ next = node[q].next
    OBVIOUS
  <2>4. /\ node' = Store(Store(node, prev, "next", next), next, "prev", prev)
        /\ head' = [head EXCEPT ![l] = IF prev = Null THEN next ELSE @]
        /\ tail' = [tail EXCEPT ![l] = IF next = Null THEN prev ELSE @]
    BY <1>6, <2>2, <2>3 DEF list_remove
  <2>5. node \in [DOMAIN node -> Node] /\ DOMAIN node \subseteq Nodes
    BY <1>1 DEF Shape, Typed
  <2>6. Threaded(node, s, head[l], tail[l])
    BY <1>1, <1>2 DEF Shape
  <2>7. /\ prev = IF p = 1 THEN Null ELSE s[p - 1]
        /\ next = IF p = n THEN Null ELSE s[p + 1]
    BY <2>1, <2>2, <2>3, <2>6 DEF Threaded
  <2>8. /\ prev \in DOMAIN node \cup {Null} /\ next \in DOMAIN node \cup {Null}
        /\ prev \in Nodes \cup {Null} /\ next \in Nodes \cup {Null}
    <3>1. /\ p # 1 => p - 1 \in 1 .. n
          /\ p # n => p + 1 \in 1 .. n
      BY <2>2
    <3> QED
      BY <1>3, <2>1, <2>5, <2>7, <3>1
  <2>9. PICK nd1 : nd1 = Store(node, prev, "next", next)
    OBVIOUS
  <2>10. /\ nd1 \in [DOMAIN node -> Node]
         /\ \A m \in DOMAIN node : /\ nd1[m].data = node[m].data
                                   /\ nd1[m].prev = node[m].prev
                                   /\ nd1[m].next = IF m = prev THEN next ELSE node[m].next
    BY <1>3, <2>5, <2>8, <2>9, StoreNext
  <2>11. /\ node' \in [DOMAIN nd1 -> Node]
         /\ \A m \in DOMAIN nd1 : /\ node'[m].data = nd1[m].data
                                  /\ node'[m].next = nd1[m].next
                                  /\ node'[m].prev = IF m = next THEN prev ELSE nd1[m].prev
    <3>1. nd1 \in [DOMAIN nd1 -> Node] /\ Null \notin DOMAIN nd1 /\ next \in DOMAIN nd1 \cup {Null}
      BY <1>3, <2>8, <2>10
    <3>2. node' = Store(nd1, next, "prev", prev)
      BY <2>4, <2>9
    <3> QED
      BY <2>8, <3>1, <3>2, StorePrev
  <2>12. NodesTyped(node')
    BY <2>5, <2>10, <2>11 DEF NodesTyped
  <2>13. Bypassed(node', node, q)
    BY <2>3, <2>10, <2>11 DEF Bypassed
  <2>14. /\ head' = [head EXCEPT ![l] = IF node[q].prev = Null THEN node[q].next ELSE @]
         /\ tail' = [tail EXCEPT ![l] = IF node[q].next = Null THEN node[q].prev ELSE @]
    BY <2>3, <2>4
  <2>15. PICK ct : ct = [Contents EXCEPT ![l] = Cut(@, p)]
    OBVIOUS
  <2>16. l \in DOMAIN head /\ p \in 1 .. Len(c[l]) /\ q = c[l][p]
    BY <1>2, <2>1, <2>2
  <2>17. IInv' /\ Contents' = ct
    BY <1>1, <2>12, <2>13, <2>14, <2>15, <2>16, BypassStep
  <2>18. RemoveFirst(Contents[l], d) = Cut(Contents[l], p)
    BY <1>5, <1>9
  <2> QED
    BY <2>15, <2>17, <2>18
<1> QED
  BY <1>8, <1>9

(* What is left as it is stays in shape.                                    *)
LEMMA SameState ==
  ASSUME IInv, UNCHANGED <<head, tail, node>>
  PROVE  IInv' /\ Contents' = Contents
<1>1. PICK c : Shape(head, tail, node, c)
  BY DEF IInv
<1>2. Holds(head', tail', node', c, Contents)
  BY <1>1, StateShape DEF Holds
<1> QED
  BY <1>2, Reaches

(* What the questions answer.                                               *)
LEMMA Answers ==
  ASSUME IInv, NEW l \in DOMAIN head
  PROVE  /\ list_size(l) = Len(Contents[l])
         /\ list_empty(l) <=> Contents[l] = <<>>
         /\ \A d : list_find(l, d) <=> d \in ToSet(Contents[l])
         /\ ~ list_empty(l) => /\ node[head[l]].data = Head(Contents[l])
                               /\ node[tail[l]].data = Last(Contents[l])
<1>1. PICK c : Shape(head, tail, node, c)
  BY DEF IInv
<1>2. PICK s, e : s = c[l] /\ e = Contents[l]
  OBVIOUS
<1>3. /\ Len(s) \in Nat /\ \A i \in 1 .. Len(s) : s[i] \in DOMAIN node
      /\ Null \notin DOMAIN node
      /\ DataIn(node, s) \in Seq(Data) /\ Len(DataIn(node, s)) = Len(s)
  BY <1>1, <1>2, OfShape
<1>4. Forward(l) = s /\ e = DataIn(node, s)
  BY <1>1, <1>2, StateShape
<1>5. Threaded(node, s, head[l], tail[l])
  BY <1>1, <1>2 DEF Shape
<1>6. /\ e \in Seq(Data) /\ Len(e) = Len(s) /\ DOMAIN e = 1 .. Len(s)
      /\ \A i \in 1 .. Len(s) : e[i] = node[s[i]].data
  BY <1>3, <1>4 DEF DataIn
<1>7. list_size(l) = Len(e)
  BY <1>4, <1>6 DEF list_size
<1>8. list_empty(l) <=> Len(s) = 0
  <2>1. PICK n \in Nat : n = Len(s)
    BY <1>3
  <2>2. CASE n = 0
    BY <1>5, <2>1, <2>2 DEF list_empty, Threaded
  <2>3. CASE n # 0
    <3>1. 1 \in 1 .. n /\ head[l] = s[1]
      BY <1>5, <2>1, <2>3 DEF Threaded
    <3> QED
      BY <1>3, <2>1, <2>3, <3>1 DEF list_empty
  <2> QED
    BY <2>2, <2>3
<1>9. list_empty(l) <=> e = <<>>
  BY <1>6, <1>8, EmptySeq
<1>10. ASSUME NEW d
       PROVE  list_find(l, d) <=> d \in ToSet(e)
  <2>1. PICK p : p = Place(e, d)
    OBVIOUS
  <2>2. \/ p = 0 /\ (\A i \in 1 .. Len(e) : e[i] # d) /\ RemoveFirst(e, d) = e
        \/ p \in 1 .. Len(e) /\ e[p] = d /\ RemoveFirst(e, d) = Cut(e, p)
    BY <1>6, <2>1, PlaceIs
  <2>3. Search(l, d) = IF p = 0 THEN Null ELSE s[p]
    BY <1>1, <1>2, <2>1, SearchEnds
  <2>4. CASE p = 0
    BY <1>6, <2>2, <2>3, <2>4 DEF list_find, ToSet
  <2>5. CASE p # 0
    BY <1>3, <1>6, <2>2, <2>3, <2>5 DEF list_find, ToSet
  <2> QED
    BY <2>4, <2>5
<1>11. ASSUME ~ list_empty(l)
       PROVE  /\ node[head[l]].data = Head(e)
              /\ node[tail[l]].data = Last(e)
  <2>1. PICK n \in Nat : n = Len(s)
    BY <1>3
  <2>2. n # 0 /\ head[l] = s[1] /\ tail[l] = s[n]
    BY <1>5, <1>8, <1>11, <2>1 DEF Threaded
  <2>3. e[1] = node[s[1]].data /\ e[n] = node[s[n]].data
    BY <1>6, <2>1, <2>2
  <2>4. Head(e) = e[1] /\ Last(e) = e[n]
    BY <1>6, <2>1, <2>2, CutFirst, CutLast
  <2> QED
    BY <2>2, <2>3, <2>4
<1> QED
  BY <1>2, <1>7, <1>9, <1>10, <1>11

(* The operators of the community modules, as the mapping instantiates them. *)
LEMMA SameOperators ==
  ASSUME NEW s, NEW d
  PROVE  /\ Sequence!Front(s) = Front(s) /\ Sequence!Last(s) = Last(s)
         /\ Sequence!ToSet(s) = ToSet(s)
         /\ Sequence!RemoveFirst(s, d) = RemoveFirst(s, d)
<1>1. Sequence!Front(s) = Front(s) /\ Sequence!Last(s) = Last(s) /\ Sequence!ToSet(s) = ToSet(s)
  BY DEF Sequence!Front, Front, Sequence!Last, Last, Sequence!ToSet, ToSet
<1>2. \A i : Sequence!RemoveAt(s, i) = RemoveAt(s, i)
  BY DEF Sequence!RemoveAt, RemoveAt
<1>3. Sequence!SelectInSeq(s, LAMBDA v : v = d) = SelectInSeq(s, LAMBDA v : v = d)
  BY DEF Sequence!SelectInSeq, SelectInSeq, Sequence!Min, Min
<1>4. Sequence!RemoveFirst(s, d) = RemoveFirst(s, d)
  BY <1>2, <1>3 DEF Sequence!RemoveFirst, RemoveFirst
<1> QED
  BY <1>1, <1>4

(* list_find, list_size, list_empty, list_front and list_back change        *)
(* nothing and answer as a sequence would.                                  *)
LEMMA AskStep ==
  ASSUME IInv, NEW l \in DOMAIN head, Ask(l)
  PROVE  IInv' /\ Sequence!Ask(l)
<1>1. IInv' /\ Contents' = Contents
  BY SameState DEF Ask
<1>2. /\ list_size(l) = Len(Contents[l])
      /\ list_empty(l) <=> Contents[l] = <<>>
      /\ \A d : list_find(l, d) <=> d \in ToSet(Contents[l])
      /\ ~ list_empty(l) => /\ node[head[l]].data = Head(Contents[l])
                            /\ node[tail[l]].data = Last(Contents[l])
  BY Answers
<1>3. \/ \E d \in Data : call' = <<"find", l, d, d \in ToSet(Contents[l])>>
      \/ call' = <<"size", l, Len(Contents[l])>>
      \/ call' = <<"empty", l, Contents[l] = <<>>>>
      \/ Contents[l] # <<>> /\ call' = <<"front", l, Head(Contents[l])>>
      \/ Contents[l] # <<>> /\ call' = <<"back", l, Last(Contents[l])>>
  <2>1. CASE \E d \in Data : call' = <<"find", l, d, list_find(l, d)>>
    <3>1. PICK d \in Data : call' = <<"find", l, d, list_find(l, d)>>
      BY <2>1
    <3>2. list_find(l, d) = (d \in ToSet(Contents[l]))
      <4>1. list_find(l, d) <=> d \in ToSet(Contents[l])
        BY <1>2
      <4> QED
        BY <4>1 DEF list_find
    <3> QED
      BY <3>1, <3>2, Zenon
  <2>2. CASE call' = <<"size", l, list_size(l)>>
    BY <1>2, <2>2, Zenon
  <2>3. CASE call' = <<"empty", l, list_empty(l)>>
    <3>1. list_empty(l) = (Contents[l] = <<>>)
      BY <1>2, Zenon DEF list_empty
    <3> QED
      BY <2>3, <3>1, Zenon
  <2>4. CASE ~ list_empty(l) /\ call' = <<"front", l, node[head[l]].data>>
    BY <1>2, <2>4, Zenon
  <2>5. CASE ~ list_empty(l) /\ call' = <<"back", l, node[tail[l]].data>>
    BY <1>2, <2>5, Zenon
  <2> QED
    BY <2>1, <2>2, <2>3, <2>4, <2>5, Zenon DEF Ask
<1> QED
  BY <1>1, <1>3, SameOperators, Zenon DEF Sequence!Ask, Contents
-----------------------------------------------------------------------------
(* The specification.                                                       *)

(* There are no lists at first.                                             *)
LEMMA InitShape == Init => IInv /\ Sequence!SInit
<1> SUFFICES ASSUME Init PROVE IInv /\ Sequence!SInit
  OBVIOUS
<1>1. Shape(head, tail, node, Empty)
  BY DEF Init, Empty, Shape, Typed
<1>2. Contents = [l \in {} |-> <<>>]
  BY DEF Contents, Init, Empty
<1>3. call = <<Null>>
  BY DEF Init
<1> QED
  BY <1>1, <1>2, <1>3 DEF IInv, Sequence!SInit, Contents

(* A step keeps the lists linked, and is the step of the sequences.         *)
LEMMA StepsMap == IInv /\ [Next]_vars => IInv' /\ [Sequence!SNext]_(Sequence!svars)
<1> SUFFICES ASSUME IInv, [Next]_vars PROVE IInv' /\ [Sequence!SNext]_(Sequence!svars)
  OBVIOUS
<1>0. DOMAIN Contents = DOMAIN head
  BY DEF Contents
<1>1. ASSUME NEW l \in Lists \ DOMAIN head, list_create(l)
      PROVE  IInv' /\ Sequence!Create(l)
  <2>1. IInv' /\ Contents' = [k \in DOMAIN Contents \cup {l} |-> IF k = l THEN <<>> ELSE Contents[k]]
    BY <1>1, CreateStep
  <2>2. call' = <<"create", l>>
    BY <1>1 DEF list_create
  <2> QED
    BY <2>1, <2>2, Zenon DEF Sequence!Create, Contents
<1>2. ASSUME NEW l \in DOMAIN head, list_destroy(l)
      PROVE  IInv' /\ Sequence!Destroy(l)
  <2>1. IInv' /\ Contents' = [k \in DOMAIN Contents \ {l} |-> Contents[k]]
    BY <1>2, DestroyStep
  <2>2. call' = <<"destroy", l>>
    BY <1>2 DEF list_destroy
  <2> QED
    BY <2>1, <2>2, Zenon DEF Sequence!Destroy, Contents
<1>3. ASSUME NEW l \in DOMAIN head, NEW d \in Data, list_push_front(l, d)
      PROVE  IInv' /\ Sequence!PushFront(l, d)
  <2>1. IInv' /\ Contents' = [Contents EXCEPT ![l] = <<d>> \o Contents[l]]
    BY <1>3, PushFrontStep
  <2>2. call' = <<"push_front", l, d>>
    BY <1>3 DEF list_push_front
  <2> QED
    BY <2>1, <2>2, Zenon DEF Sequence!PushFront, Sequence!Put, Contents
<1>4. ASSUME NEW l \in DOMAIN head, NEW d \in Data, list_push_back(l, d)
      PROVE  IInv' /\ Sequence!PushBack(l, d)
  <2>1. IInv' /\ Contents' = [Contents EXCEPT ![l] = Append(Contents[l], d)]
    BY <1>4, PushBackStep
  <2>2. call' = <<"push_back", l, d>>
    BY <1>4 DEF list_push_back
  <2> QED
    BY <2>1, <2>2, Zenon DEF Sequence!PushBack, Sequence!Put, Contents
<1>5. ASSUME NEW l \in DOMAIN head, ~ list_empty(l), list_pop_front(l)
      PROVE  IInv' /\ Sequence!PopFront(l)
  BY <1>5, PopFrontStep, Zenon DEF Sequence!PopFront, Sequence!Put, Contents
<1>6. ASSUME NEW l \in DOMAIN head, ~ list_empty(l), list_pop_back(l)
      PROVE  IInv' /\ Sequence!PopBack(l)
  BY <1>6, PopBackStep, SameOperators, Zenon DEF Sequence!PopBack, Sequence!Put, Contents
<1>7. ASSUME NEW l \in DOMAIN head, NEW d \in Data, list_remove(l, d)
      PROVE  IInv' /\ Sequence!Drop(l, d)
  <2>1. IInv' /\ Contents' = [Contents EXCEPT ![l] = RemoveFirst(@, d)]
    BY <1>7, RemoveStep
  <2>2. call' = <<"remove", l, d>>
    BY <1>7 DEF list_remove
  <2> QED
    BY <2>1, <2>2, SameOperators, Zenon DEF Sequence!Drop, Sequence!Put, Contents
<1>8. ASSUME NEW l \in DOMAIN head, Ask(l)
      PROVE  IInv' /\ Sequence!Ask(l)
  BY <1>8, AskStep
<1>9. CASE UNCHANGED vars
  <2>1. IInv' /\ Contents' = Contents /\ call' = call
    BY <1>9, SameState DEF vars
  <2> QED
    BY <2>1 DEF Sequence!svars, Contents
<1>10. CASE Next
  <2>1. \A l \in DOMAIN head : list_empty(l) <=> Contents[l] = <<>>
    BY Answers
  <2>2. IInv' /\ Sequence!SNext
    BY <1>0, <1>1, <1>2, <1>3, <1>4, <1>5, <1>6, <1>7, <1>8, <1>10, <2>1
       DEF Next, Sequence!SNext, Contents
  <2> QED
    BY <2>2
<1> QED
  BY <1>9, <1>10

(* In every state there is for each list a sequence of allocated nodes that *)
(* its pointers thread both ways, and no node is in two of them, whatever the *)
(* functions of list.c were called for and whatever nodes vmm_alloc chose.  *)
THEOREM ListsStayShaped == Spec => []IInv
<1>1. Init => IInv
  BY InitShape
<1>2. IInv /\ [Next]_vars => IInv'
  BY StepsMap
<1> QED
  BY <1>1, <1>2, PTL DEF Spec

(* Each call of a function of list.c returns what the same call on a sequence *)
(* would, and changes its list, and no other, as it would the sequence.     *)
THEOREM ListsImplementSequences == Spec => ImplementsSequences
<1>1. Init => Sequence!SInit
  BY InitShape
<1>2. IInv /\ [Next]_vars => [Sequence!SNext]_(Sequence!svars)
  BY StepsMap
<1> QED
  BY <1>1, <1>2, ListsStayShaped, PTL DEF Spec, ImplementsSequences, Sequence!SSpec

(* The shape says what kind of value everything is ...                      *)
LEMMA ShapedTyped == IInv => TypeOK
BY DEF IInv, Shape, Typed, TypeOK

(* No pointer of a list or a node ever leads to anything but a node's address *)
(* or 0 (lib/list.c).                                                       *)
THEOREM TypeCorrect == Spec => []TypeOK
BY ListsStayShaped, ShapedTyped, PTL

(* ... and what the walks find.                                             *)
LEMMA ShapedLinked == IInv => WellLinked
<1> SUFFICES ASSUME IInv PROVE WellLinked
  OBVIOUS
<1>1. PICK c : Shape(head, tail, node, c)
  BY DEF IInv
<1>2. ASSUME NEW l \in DOMAIN head
      PROVE  /\ Forward(l) = c[l] /\ IsInjective(c[l]) /\ DOMAIN c[l] = 1 .. Len(c[l])
             /\ Walk(tail[l], "prev") = Reverse(c[l])
  BY <1>1, StateShape, OfShape
<1>3. ASSUME NEW l \in DOMAIN head, NEW k \in DOMAIN head, l # k
      PROVE  ToSet(Forward(l)) \cap ToSet(Forward(k)) = {}
  BY <1>1, <1>2, <1>3 DEF Shape, ToSet
<1> QED
  BY <1>2, <1>3 DEF WellLinked

(* In every state of lib/list.c walking a list forward ends, visits each node *)
(* once, and walking it backward visits the same nodes in reverse; two lists *)
(* share no node.                                                           *)
THEOREM AlwaysWellLinked == Spec => []WellLinked
BY ListsStayShaped, ShapedLinked, PTL
=============================================================================
