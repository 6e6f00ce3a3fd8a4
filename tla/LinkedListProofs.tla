-------------------------- MODULE LinkedListProofs --------------------------
(***************************************************************************)
(* Theorems of LinkedList: for every set of nodes, the pointers stay sound *)
(* and the list is the sequence with a cursor of SeqList.                  *)
(*                                                                         *)
(* The invariant says that there is a numbering c of the allocated nodes,  *)
(* 1..n, that the pointers follow in both directions.  Each operation      *)
(* turns one numbering into another; that the walk of Chain finds it is    *)
(* shown once, by induction.                                               *)
(***************************************************************************)
EXTENDS LinkedList, FiniteSetTheorems, WellFoundedInduction, TLAPS

(***************************************************************************)
(* Induction over numbers, with a set in the place of the predicate: the   *)
(* theorems of NaturalsInduction take an operator, which no prover at hand *)
(* instantiates; a set {n \in Nat : P(n)} does the same work.              *)
(***************************************************************************)
(* A set of natural numbers that has an element has a least one. *)
LEMMA LeastNat ==
  ASSUME NEW T, T \subseteq Nat, T # {}
  PROVE  \E x \in T : \A y \in T : x <= y
<1> DEFINE Below == {p \in Nat \X Nat : p[1] < p[2]}
<1>1. IsWellFoundedOn(Below, Nat)
  BY NatLessThanWellFounded DEF OpToRel
<1> HIDE DEF Below
<1>2. \E x \in T : \A y \in T : <<y, x>> \notin Below
  BY <1>1, WFMin, Zenon
<1>3. PICK x \in T : \A y \in T : <<y, x>> \notin Below
  BY <1>2
<1>4. ASSUME NEW y \in T PROVE x <= y
  <2>1. x \in Nat /\ y \in Nat /\ <<y, x>> \notin Below
    BY <1>3
  <2>2. y < x => <<y, x>> \in Below
    BY <2>1 DEF Below
  <2> QED BY <2>1, <2>2
<1> QED BY <1>4

(* Induction from a number a, up to b. *)
LEMMA InductUpTo ==
  ASSUME NEW a \in Int, NEW b \in Int, NEW S, a \in S,
         \A k \in a..(b - 1) : k \in S => k + 1 \in S
  PROVE  a..b \subseteq S
<1> SUFFICES ASSUME NEW m \in a..b, m \notin S PROVE FALSE
  OBVIOUS
<1> DEFINE Out == {n \in Nat : a + n \in a..b /\ a + n \notin S}
<1>1. Out \subseteq Nat /\ m - a \in Out
  <2>1. m - a \in Nat /\ a + (m - a) = m
    OBVIOUS
  <2> QED BY <2>1
<1>2. \A n \in Nat : n \in Out <=> a + n \in a..b /\ a + n \notin S
  OBVIOUS
<1> HIDE DEF Out
<1>3. PICK x \in Out : \A y \in Out : x <= y
  BY <1>1, LeastNat
<1>4. x \in Nat /\ a + x \in a..b /\ a + x \notin S
  BY <1>1, <1>2
<1>5. x - 1 \in Nat /\ a + (x - 1) \in a..(b - 1) /\ (a + (x - 1)) + 1 = a + x
  <2>1. x # 0
    BY <1>4
  <2> QED BY <1>4, <2>1
<1>6. x - 1 \notin Out
  BY <1>3, <1>4, <1>5
<1> QED BY <1>2, <1>4, <1>5, <1>6

(* The nodes of heap h, numbered in the order of their pointers. *)
Linked(n, c, h, hd, tl) ==
  /\ c \in [1..n -> DOMAIN h]
  /\ \A a \in DOMAIN h : \E k \in 1..n : c[k] = a
  /\ \A j, k \in 1..n : c[j] = c[k] => j = k
  /\ hd = IF n = 0 THEN None ELSE c[1]
  /\ tl = IF n = 0 THEN None ELSE c[n]
  /\ \A k \in 1..n : h[c[k]].next = IF k = n THEN None ELSE c[k + 1]
  /\ \A k \in 1..n : h[c[k]].prev = IF k = 1 THEN None ELSE c[k - 1]

(* Nodes whose pointers go to P. *)
Rec(P) == [data : Items, prev : P, next : P]

(* The inductive invariant. *)
IInv == /\ TypeOK /\ CursorLive
        /\ heap \in [DOMAIN heap -> Rec(Live)]
        /\ \E n \in 0..Cardinality(Nodes) :
             \E c \in [1..n -> DOMAIN heap] : Linked(n, c, heap, head, tail)
-----------------------------------------------------------------------------
(* The walk from the head of a numbered heap finds the numbering. *)
LEMMA WalkFinds ==
  ASSUME NEW n \in 0..Cardinality(Nodes), NEW c, NEW h, NEW hd, NEW tl,
         None \notin DOMAIN h, Linked(n, c, h, hd, tl)
  PROVE  ChainOf(h, hd) = c
<1> DEFINE N == Cardinality(Nodes)
           at == CHOOSE at : at = [k \in 1..N |->
                   IF k = 1 THEN hd
                   ELSE IF at[k - 1] = None THEN None ELSE h[at[k - 1]].next]
           g == [k \in 1..N |-> IF k <= n THEN c[k] ELSE None]
<1>0. N \in Nat /\ n \in Nat /\ n <= N
  BY FS_CardinalityType, NodesAssumption
<1>1. \A k \in 1..N : g[k] = IF k = 1 THEN hd
                              ELSE IF g[k - 1] = None THEN None ELSE h[g[k - 1]].next
  BY <1>0 DEF Linked
<1>2. g = [k \in 1..N |->
             IF k = 1 THEN hd
             ELSE IF g[k - 1] = None THEN None ELSE h[g[k - 1]].next]
  BY <1>1
<1> HIDE DEF g
<1>3. at = [k \in 1..N |-> IF k = 1 THEN hd
                           ELSE IF at[k - 1] = None THEN None ELSE h[at[k - 1]].next]
  BY <1>2
<1> HIDE DEF at
<1>4. \A k \in 1..N : at[k] = g[k]
  <2>1. CASE N = 0
    BY <2>1
  <2>2. CASE N # 0
    <3> DEFINE S == {k \in 1..N : at[k] = g[k]}
    <3>1. 1 \in S
      BY <1>0, <1>2, <1>3, <2>2
    <3>2. ASSUME NEW k \in 1..(N - 1), k \in S PROVE k + 1 \in S
      <4>1. k + 1 \in 1..N /\ (k + 1) - 1 = k /\ k + 1 # 1 /\ at[k] = g[k]
        BY <1>0, <3>2
      <4>2. at[k + 1] = IF at[k] = None THEN None ELSE h[at[k]].next
        BY <1>3, <4>1
      <4>3. g[k + 1] = IF g[k] = None THEN None ELSE h[g[k]].next
        BY <1>2, <4>1
      <4> QED BY <4>1, <4>2, <4>3
    <3> HIDE DEF S
    <3>3. 1 \in Int /\ N \in Int
      BY <1>0
    <3>4. 1..N \subseteq S
      BY <3>1, <3>2, <3>3, InductUpTo, Zenon
    <3> QED BY <3>4 DEF S
  <2> QED BY <2>1, <2>2
<1>5. \A k \in 1..N : at[k] # None <=> k <= n
  BY <1>0, <1>4 DEF g, Linked
<1>6. {k \in 1..N : at[k] # None} = 1..n
  BY <1>0, <1>5
<1>7. Cardinality({k \in 1..N : at[k] # None}) = n
  <2>1. Cardinality(1..n) = n
    BY <1>0, FS_Interval
  <2> QED BY <1>6, <2>1
<1>8. [k \in 1..n |-> at[k]] = c
  <2>1. \A k \in 1..n : at[k] = c[k]
    BY <1>0, <1>4 DEF g
  <2> QED BY <2>1 DEF Linked
<1> QED BY <1>7, <1>8 DEF ChainOf, at

(* Where the cursor is, in a numbering. *)
LEMMA PlaceIs ==
  ASSUME NEW n \in Nat, NEW c, NEW h, NEW hd, NEW tl,
         None \notin DOMAIN h, Linked(n, c, h, hd, tl)
  PROVE  /\ PlaceOf(c, None) = 0
         /\ \A k \in 1..n : PlaceOf(c, c[k]) = k
<1>1. DOMAIN c = 1..n
  BY DEF Linked
<1>2. ASSUME NEW k \in 1..n PROVE PlaceOf(c, c[k]) = k
  <2>1. c[k] # None
    BY DEF Linked
  <2>2. \A j \in 1..n : c[j] = c[k] => j = k
    BY DEF Linked
  <2>3. (CHOOSE j \in 1..n : c[j] = c[k]) = k
    BY <2>2
  <2> QED BY <1>1, <2>1, <2>3 DEF PlaceOf
<1> QED BY <1>2 DEF PlaceOf

(* Setting one field of one node, or of none. *)
LEMMA SetNextIs ==
  ASSUME NEW D, NEW P, NEW h \in [D -> Rec(P)], NEW a \in D \cup {None}, NEW q \in P,
         None \notin D
  PROVE  /\ SetNext(h, a, q) \in [D -> Rec(P)]
         /\ \A x \in D : /\ SetNext(h, a, q)[x].data = h[x].data
                         /\ SetNext(h, a, q)[x].prev = h[x].prev
                         /\ SetNext(h, a, q)[x].next = IF x = a THEN q ELSE h[x].next
BY DEF SetNext, Rec

(* What setting a prev pointer changes, and what it leaves. *)
LEMMA SetPrevIs ==
  ASSUME NEW D, NEW P, NEW h \in [D -> Rec(P)], NEW a \in D \cup {None}, NEW q \in P,
         None \notin D
  PROVE  /\ SetPrev(h, a, q) \in [D -> Rec(P)]
         /\ \A x \in D : /\ SetPrev(h, a, q)[x].data = h[x].data
                         /\ SetPrev(h, a, q)[x].next = h[x].next
                         /\ SetPrev(h, a, q)[x].prev = IF x = a THEN q ELSE h[x].prev
BY DEF SetPrev, Rec

(* A numbered heap has its pointers where TypeOK wants them, and no more nodes
   than there is memory for. *)
LEMMA LinkedTyped ==
  ASSUME NEW n \in Nat, NEW c, NEW P, NEW D, NEW h \in [D -> Rec(P)], NEW hd, NEW tl,
         None \notin D, Linked(n, c, h, hd, tl)
  PROVE  /\ \A a \in D : h[a] \in [data : Items, prev : D \cup {None}, next : D \cup {None}]
         /\ {hd, tl} \subseteq D \cup {None}
         /\ hd = None <=> tl = None
<1>1. DOMAIN h = D
  OBVIOUS
<1>2. ASSUME NEW a \in D
      PROVE  h[a] \in [data : Items, prev : D \cup {None}, next : D \cup {None}]
  <2>1. PICK k \in 1..n : c[k] = a
    BY <1>1 DEF Linked
  <2>2. h[c[k]].next \in D \cup {None} /\ h[c[k]].prev \in D \cup {None}
    BY <1>1 DEF Linked
  <2>3. h[a] \in Rec(P)
    OBVIOUS
  <2> QED BY <2>1, <2>2, <2>3 DEF Rec
<1>3. {hd, tl} \subseteq D \cup {None} /\ (hd = None <=> tl = None)
  BY <1>1 DEF Linked
<1> QED BY <1>2, <1>3

(* A chain is no longer than there are nodes. *)
LEMMA LinkedFits ==
  ASSUME NEW n \in Nat, NEW c, NEW h, NEW hd, NEW tl,
         DOMAIN h \subseteq Nodes, Linked(n, c, h, hd, tl)
  PROVE  n \in 0..Cardinality(Nodes)
<1>1. c \in Injection(1..n, Nodes)
  BY DEF Linked, Injection, IsInjective
<1>2. Cardinality(1..n) <= Cardinality(Nodes)
  BY <1>1, FS_Injection, NodesAssumption
<1>3. Cardinality(1..n) = n /\ Cardinality(Nodes) \in Nat
  BY FS_Interval, FS_CardinalityType, NodesAssumption
<1> QED BY <1>2, <1>3
-----------------------------------------------------------------------------
(* What each operation does to the numbering.  The heap keeps what the nodes
   hold (Kept). *)
Typed == /\ DOMAIN heap \subseteq Nodes
         /\ heap \in [DOMAIN heap -> Rec(Live)]
Kept(D) == \A x \in D : heap'[x].data = heap[x].data

(* A node behind the last one. *)
Longer(n, c, a)  == [k \in 1..n + 1 |-> IF k = n + 1 THEN a ELSE c[k]]
(* One before the first. *)
Shifted(n, c, a) == [k \in 1..n + 1 |-> IF k = 1 THEN a ELSE c[k - 1]]
(* One less, at i. *)
Without(n, c, i) == [k \in 1..n - 1 |-> IF k < i THEN c[k] ELSE c[k + 1]]

(* Adding at the tail keeps the chain. *)
LEMMA PushTailStep ==
  ASSUME Typed, NEW n \in Nat, NEW c, Linked(n, c, heap, head, tail),
         NEW a \in Nodes, NEW v \in Items, PushTail(a, v)
  PROVE  /\ Linked(n + 1, Longer(n, c, a), heap', head', tail')
         /\ heap' \in [DOMAIN heap \cup {a} -> Rec(Live \cup {a})]
         /\ Kept(DOMAIN heap) /\ heap'[a].data = v
<1> DEFINE D == DOMAIN heap \cup {a}  P == Live \cup {a}
           h == Alloc(a, Node(v, tail, None))
           d == Longer(n, c, a)
<1>1. /\ a \notin DOMAIN heap /\ None \notin D
      /\ tail \in DOMAIN heap \cup {None} /\ tail # a
  BY NoneAssumption DEF PushTail, Linked, Typed
<1>2. /\ h \in [D -> Rec(P)]
      /\ h[a].data = v /\ h[a].prev = tail /\ h[a].next = None
      /\ \A x \in DOMAIN heap : h[x] = heap[x]
  BY <1>1 DEF Alloc, Node, Rec, Typed, Live
<1>3. heap' = SetNext(h, tail, a) /\ tail' = a
      /\ head' = IF tail = None THEN a ELSE head
  BY DEF PushTail
<1> HIDE DEF h
<1>4. /\ heap' \in [D -> Rec(P)]
      /\ \A x \in D : /\ heap'[x].data = h[x].data
                       /\ heap'[x].prev = h[x].prev
                       /\ heap'[x].next = IF x = tail THEN a ELSE h[x].next
  <2>1. tail \in D \cup {None} /\ a \in P
    BY <1>1
  <2> HIDE DEF D, P
  <2> QED BY <1>1, <1>2, <1>3, <2>1, SetNextIs
<1>5. DOMAIN heap' = D
  BY <1>4
<1>6. d \in [1..n + 1 -> D] /\ \A k \in 1..n : d[k] = c[k] /\ d[k] \in DOMAIN heap
      /\ d[n + 1] = a
  BY DEF Longer, Linked
<1>7. \A x \in D : \E k \in 1..n + 1 : d[k] = x
  BY <1>6 DEF Linked
<1>8. \A j, k \in 1..n + 1 : d[j] = d[k] => j = k
  <2>1. \A j, k \in 1..n : d[j] = d[k] => j = k
    BY <1>6 DEF Linked
  <2>2. \A k \in 1..n : d[k] # d[n + 1]
    BY <1>1, <1>6
  <2> QED BY <2>1, <2>2
<1>9. head' = d[1] /\ tail' = d[n + 1]
  BY <1>1, <1>3, <1>6 DEF Linked
<1>10. ASSUME NEW k \in 1..n + 1
       PROVE  /\ heap'[d[k]].next = IF k = n + 1 THEN None ELSE d[k + 1]
              /\ heap'[d[k]].prev = IF k = 1 THEN None ELSE d[k - 1]
  <2>1. CASE k = n + 1
    BY <1>1, <1>2, <1>4, <1>6, <2>1 DEF Linked
  <2>2. CASE k \in 1..n
    <3>1. d[k] \in DOMAIN heap /\ h[d[k]] = heap[c[k]] /\ d[k] = c[k] /\ d[k] \in D
      BY <1>2, <1>6, <2>2
    <3>2. (d[k] = tail) <=> k = n
      BY <1>1, <2>2, <3>1 DEF Linked
    <3>3. heap'[d[k]].prev = heap[c[k]].prev
          /\ heap'[d[k]].next = IF k = n THEN a ELSE heap[c[k]].next
      BY <1>4, <3>1, <3>2
    <3>4. /\ heap[c[k]].next = IF k = n THEN None ELSE c[k + 1]
          /\ heap[c[k]].prev = IF k = 1 THEN None ELSE c[k - 1]
      BY <2>2 DEF Linked
    <3>5. heap'[d[k]].next = d[k + 1]
      <4>1. CASE k = n
        BY <1>6, <3>3, <4>1
      <4>2. CASE k # n
        <5>1. k + 1 \in 1..n
          BY <2>2, <4>2
        <5>2. d[k + 1] = c[k + 1]
          BY <1>6, <5>1
        <5> QED BY <3>3, <3>4, <4>2, <5>2
      <4> QED BY <4>1, <4>2
    <3>6. heap'[d[k]].prev = IF k = 1 THEN None ELSE d[k - 1]
      <4>1. CASE k = 1
        BY <3>3, <3>4, <4>1
      <4>2. CASE k # 1
        <5>1. k - 1 \in 1..n
          BY <2>2, <4>2
        <5>2. d[k - 1] = c[k - 1]
          BY <1>6, <5>1
        <5> QED BY <3>3, <3>4, <4>2, <5>2
      <4> QED BY <4>1, <4>2
    <3>7. k # n + 1
      BY <2>2
    <3> QED BY <3>5, <3>6, <3>7
  <2> QED BY <2>1, <2>2
<1>11. Linked(n + 1, d, heap', head', tail')
  <2> HIDE DEF d, D, P
  <2> QED BY <1>5, <1>6, <1>7, <1>8, <1>9, <1>10 DEF Linked
<1> QED BY <1>1, <1>2, <1>4, <1>11 DEF Kept

(* Adding at the head keeps the chain. *)
LEMMA PushHeadStep ==
  ASSUME Typed, NEW n \in Nat, NEW c, Linked(n, c, heap, head, tail),
         NEW a \in Nodes, NEW v \in Items, PushHead(a, v)
  PROVE  /\ Linked(n + 1, Shifted(n, c, a), heap', head', tail')
         /\ heap' \in [DOMAIN heap \cup {a} -> Rec(Live \cup {a})]
         /\ Kept(DOMAIN heap) /\ heap'[a].data = v
<1> DEFINE D == DOMAIN heap \cup {a}  P == Live \cup {a}
           h == Alloc(a, Node(v, None, head))
           d == Shifted(n, c, a)
<1>1. /\ a \notin DOMAIN heap /\ None \notin D
      /\ head \in DOMAIN heap \cup {None} /\ head # a
  BY NoneAssumption DEF PushHead, Linked, Typed
<1>2. /\ h \in [D -> Rec(P)]
      /\ h[a].data = v /\ h[a].prev = None /\ h[a].next = head
      /\ \A x \in DOMAIN heap : h[x] = heap[x]
  BY <1>1 DEF Alloc, Node, Rec, Typed, Live
<1>3. heap' = SetPrev(h, head, a) /\ head' = a
      /\ tail' = IF head = None THEN a ELSE tail
  BY DEF PushHead
<1> HIDE DEF h
<1>4. /\ heap' \in [D -> Rec(P)]
      /\ \A x \in D : /\ heap'[x].data = h[x].data
                       /\ heap'[x].next = h[x].next
                       /\ heap'[x].prev = IF x = head THEN a ELSE h[x].prev
  <2>1. head \in D \cup {None} /\ a \in P
    BY <1>1
  <2> HIDE DEF D, P
  <2> QED BY <1>1, <1>2, <1>3, <2>1, SetPrevIs
<1>5. DOMAIN heap' = D
  BY <1>4
<1>6. d \in [1..n + 1 -> D] /\ d[1] = a
      /\ \A k \in 2..n + 1 : d[k] = c[k - 1] /\ d[k] \in DOMAIN heap
  BY DEF Shifted, Linked
<1>7. \A x \in D : \E k \in 1..n + 1 : d[k] = x
  <2>1. ASSUME NEW x \in DOMAIN heap PROVE \E k \in 1..n + 1 : d[k] = x
    <3>1. PICK k \in 1..n : c[k] = x
      BY DEF Linked
    <3>2. k + 1 \in 2..n + 1 /\ d[k + 1] = x
      BY <1>6, <3>1
    <3> QED BY <3>2
  <2> QED BY <1>6, <2>1
<1>8. \A j, k \in 1..n + 1 : d[j] = d[k] => j = k
  <2>1. \A j, k \in 2..n + 1 : d[j] = d[k] => j = k
    BY <1>6 DEF Linked
  <2>2. \A k \in 2..n + 1 : d[k] # d[1]
    BY <1>1, <1>6
  <2> QED BY <2>1, <2>2
<1>9. head' = d[1] /\ tail' = d[n + 1]
  BY <1>1, <1>3, <1>6 DEF Linked
<1>10. ASSUME NEW k \in 1..n + 1
       PROVE  /\ heap'[d[k]].next = IF k = n + 1 THEN None ELSE d[k + 1]
              /\ heap'[d[k]].prev = IF k = 1 THEN None ELSE d[k - 1]
  <2>1. CASE k = 1
    BY <1>1, <1>2, <1>4, <1>6, <2>1 DEF Linked
  <2>2. CASE k \in 2..n + 1
    <3> DEFINE j == k - 1
    <3>1. /\ j \in 1..n /\ d[k] \in DOMAIN heap /\ d[k] = c[j]
          /\ h[d[k]] = heap[c[j]] /\ d[k] \in D
      BY <1>2, <1>6, <2>2
    <3>2. (d[k] = head) <=> j = 1
      BY <1>1, <3>1 DEF Linked
    <3>3. heap'[d[k]].next = heap[c[j]].next
          /\ heap'[d[k]].prev = IF j = 1 THEN a ELSE heap[c[j]].prev
      BY <1>4, <3>1, <3>2
    <3>4. heap[c[j]].next = (IF j = n THEN None ELSE c[j + 1])
          /\ heap[c[j]].prev = IF j = 1 THEN None ELSE c[j - 1]
      BY <3>1 DEF Linked
    <3>5. k # n + 1 => d[k + 1] = c[j + 1]
      BY <1>6, <2>2
    <3>6. j # 1 => d[k - 1] = c[j - 1]
      BY <1>6, <2>2
    <3> QED BY <1>6, <2>2, <3>3, <3>4, <3>5, <3>6
  <2> QED BY <2>1, <2>2
<1>11. Linked(n + 1, d, heap', head', tail')
  <2> HIDE DEF d, D, P
  <2> QED BY <1>5, <1>6, <1>7, <1>8, <1>9, <1>10 DEF Linked
<1> QED BY <1>1, <1>2, <1>4, <1>11 DEF Kept

(* The nodes without the i-th are numbered by Without. *)
LEMMA WithoutOne ==
  ASSUME NEW n \in Nat, NEW c, NEW h, NEW hd, NEW tl, Linked(n, c, h, hd, tl),
         NEW i \in 1..n
  PROVE  LET d == Without(n, c, i)  D == DOMAIN h \ {c[i]} IN
         /\ d \in [1..n - 1 -> D]
         /\ \A x \in D : \E k \in 1..n - 1 : d[k] = x
         /\ \A j, k \in 1..n - 1 : d[j] = d[k] => j = k
<1> DEFINE d == Without(n, c, i)  D == DOMAIN h \ {c[i]}
<1>1. \A k \in 1..n - 1 : /\ d[k] = c[IF k < i THEN k ELSE k + 1]
                          /\ (IF k < i THEN k ELSE k + 1) \in 1..n \ {i}
  BY DEF Without
<1>2. d \in [1..n - 1 -> D]
  <2>1. \A k \in 1..n : k # i => c[k] \in D
    BY DEF Linked
  <2>2. \A k \in 1..n - 1 : d[k] \in D
    BY <1>1, <2>1
  <2> QED BY <2>2 DEF Without
<1>3. ASSUME NEW x \in D PROVE \E k \in 1..n - 1 : d[k] = x
  <2>1. PICK k \in 1..n : c[k] = x
    BY DEF Linked
  <2>2. k # i
    BY <2>1
  <2>3. CASE k < i
    <3>1. k \in 1..n - 1 /\ d[k] = x
      BY <1>1, <2>1, <2>3
    <3> QED BY <3>1
  <2>4. CASE k > i
    <3>1. k - 1 \in 1..n - 1 /\ d[k - 1] = x
      BY <1>1, <2>1, <2>4
    <3> QED BY <3>1
  <2> QED BY <2>2, <2>3, <2>4
<1>4. ASSUME NEW j \in 1..n - 1, NEW k \in 1..n - 1, d[j] = d[k] PROVE j = k
  <2> DEFINE m(x) == IF x < i THEN x ELSE x + 1
  <2>1. d[j] = c[m(j)] /\ d[k] = c[m(k)] /\ m(j) \in 1..n /\ m(k) \in 1..n
    BY <1>1
  <2>2. m(j) = m(k)
    <3> HIDE DEF m, d
    <3> QED BY <1>4, <2>1 DEF Linked
  <2> QED BY <2>2
<1> QED BY <1>2, <1>3, <1>4

(* Taking the head keeps the chain of the others. *)
LEMMA TakeHeadStep ==
  ASSUME Typed, NEW n \in Nat, NEW c, Linked(n, c, heap, head, tail),
         head # None, TakeHead
  PROVE  /\ n # 0 /\ head = c[1]
         /\ Linked(n - 1, Without(n, c, 1), heap', head', tail')
         /\ heap' \in [DOMAIN heap \ {head} -> Rec(Live)]
         /\ Kept(DOMAIN heap \ {head})
         /\ popped' = heap[head].data /\ current' = head'
<1> DEFINE D == DOMAIN heap \ {head}
           h == Free(head)
           d == Without(n, c, 1)
           r == heap[head].next
<1>1. /\ n # 0 /\ n \in 1..n /\ 1 \in 1..n /\ head = c[1] /\ head \in DOMAIN heap
      /\ None \notin DOMAIN heap
  BY NoneAssumption DEF Linked, Typed
<1>2. r = (IF n = 1 THEN None ELSE c[2]) /\ r \in D \cup {None}
  BY <1>1 DEF Linked
<1>3. h \in [D -> Rec(Live)] /\ \A x \in D : h[x] = heap[x]
  BY DEF Free, Typed
<1>4. /\ heap' = SetPrev(h, r, None) /\ head' = r /\ current' = r
      /\ popped' = heap[head].data /\ tail' = IF r = None THEN None ELSE tail
  BY DEF TakeHead
<1> HIDE DEF h, r
<1>5. /\ heap' \in [D -> Rec(Live)]
      /\ \A x \in D : /\ heap'[x].data = h[x].data
                       /\ heap'[x].next = h[x].next
                       /\ heap'[x].prev = IF x = r THEN None ELSE h[x].prev
  <2>1. None \in Live /\ None \notin D
    BY <1>1 DEF Live
  <2> HIDE DEF D
  <2> QED BY <1>2, <1>3, <1>4, <2>1, SetPrevIs
<1>6. /\ d \in [1..n - 1 -> D]
      /\ \A x \in D : \E k \in 1..n - 1 : d[k] = x
      /\ \A j, k \in 1..n - 1 : d[j] = d[k] => j = k
  BY <1>1, WithoutOne
<1>7. \A k \in 1..n - 1 : d[k] = c[k + 1] /\ d[k] \in D
  BY <1>6 DEF Without
<1>8. head' = (IF n - 1 = 0 THEN None ELSE d[1])
      /\ tail' = IF n - 1 = 0 THEN None ELSE d[n - 1]
  BY <1>1, <1>2, <1>4, <1>7 DEF Linked
<1>9. ASSUME NEW k \in 1..n - 1
      PROVE  /\ heap'[d[k]].next = IF k = n - 1 THEN None ELSE d[k + 1]
             /\ heap'[d[k]].prev = IF k = 1 THEN None ELSE d[k - 1]
  <2> DEFINE j == k + 1
  <2>1. j \in 1..n /\ d[k] = c[j] /\ h[d[k]] = heap[c[j]] /\ d[k] \in D
    BY <1>3, <1>7
  <2>2. (d[k] = r) <=> k = 1
    BY <1>1, <1>2, <2>1 DEF Linked
  <2>3. heap'[d[k]].next = heap[c[j]].next
        /\ heap'[d[k]].prev = IF k = 1 THEN None ELSE heap[c[j]].prev
    BY <1>5, <2>1, <2>2
  <2>4. heap[c[j]].next = (IF j = n THEN None ELSE c[j + 1])
        /\ heap[c[j]].prev = IF j = 1 THEN None ELSE c[j - 1]
    BY <2>1 DEF Linked
  <2>5. (k # n - 1 => d[k + 1] = c[j + 1]) /\ (k # 1 => d[k - 1] = c[j - 1])
    BY <1>7
  <2> QED BY <2>3, <2>4, <2>5
<1>10. Linked(n - 1, d, heap', head', tail')
  <2>1. DOMAIN heap' = D
    BY <1>5
  <2> HIDE DEF d, D
  <2> QED BY <1>6, <1>8, <1>9, <2>1 DEF Linked
<1> QED BY <1>1, <1>3, <1>4, <1>5, <1>10 DEF Kept

(* Taking the tail keeps the chain of the others. *)
LEMMA TakeTailStep ==
  ASSUME Typed, NEW n \in Nat, NEW c, Linked(n, c, heap, head, tail),
         tail # None, TakeTail
  PROVE  /\ n # 0 /\ tail = c[n]
         /\ Linked(n - 1, Without(n, c, n), heap', head', tail')
         /\ heap' \in [DOMAIN heap \ {tail} -> Rec(Live)]
         /\ Kept(DOMAIN heap \ {tail})
         /\ popped' = heap[tail].data /\ current' = tail'
<1> DEFINE D == DOMAIN heap \ {tail}
           h == Free(tail)
           d == Without(n, c, n)
           l == heap[tail].prev
<1>1. /\ n # 0 /\ n \in 1..n /\ tail = c[n] /\ tail \in DOMAIN heap
      /\ None \notin DOMAIN heap
  BY NoneAssumption DEF Linked, Typed
<1>2. l = (IF n = 1 THEN None ELSE c[n - 1]) /\ l \in D \cup {None}
  BY <1>1 DEF Linked
<1>3. h \in [D -> Rec(Live)] /\ \A x \in D : h[x] = heap[x]
  BY DEF Free, Typed
<1>4. /\ heap' = SetNext(h, l, None) /\ tail' = l /\ current' = l
      /\ popped' = heap[tail].data /\ head' = IF l = None THEN None ELSE head
  BY DEF TakeTail
<1> HIDE DEF h, l
<1>5. /\ heap' \in [D -> Rec(Live)]
      /\ \A x \in D : /\ heap'[x].data = h[x].data
                       /\ heap'[x].prev = h[x].prev
                       /\ heap'[x].next = IF x = l THEN None ELSE h[x].next
  <2>1. None \in Live /\ None \notin D
    BY <1>1 DEF Live
  <2> HIDE DEF D
  <2> QED BY <1>2, <1>3, <1>4, <2>1, SetNextIs
<1>6. /\ d \in [1..n - 1 -> D]
      /\ \A x \in D : \E k \in 1..n - 1 : d[k] = x
      /\ \A j, k \in 1..n - 1 : d[j] = d[k] => j = k
  BY <1>1, WithoutOne
<1>7. \A k \in 1..n - 1 : d[k] = c[k] /\ d[k] \in D
  BY <1>6 DEF Without
<1>8. head' = (IF n - 1 = 0 THEN None ELSE d[1])
      /\ tail' = IF n - 1 = 0 THEN None ELSE d[n - 1]
  BY <1>1, <1>2, <1>4, <1>7 DEF Linked
<1>9. ASSUME NEW k \in 1..n - 1
      PROVE  /\ heap'[d[k]].next = IF k = n - 1 THEN None ELSE d[k + 1]
             /\ heap'[d[k]].prev = IF k = 1 THEN None ELSE d[k - 1]
  <2>1. k \in 1..n /\ d[k] = c[k] /\ h[d[k]] = heap[c[k]] /\ d[k] \in D
    BY <1>3, <1>7
  <2>2. (d[k] = l) <=> k = n - 1
    BY <1>1, <1>2, <2>1 DEF Linked
  <2>3. heap'[d[k]].prev = heap[c[k]].prev
        /\ heap'[d[k]].next = IF k = n - 1 THEN None ELSE heap[c[k]].next
    BY <1>5, <2>1, <2>2
  <2>4. heap[c[k]].next = (IF k = n THEN None ELSE c[k + 1])
        /\ heap[c[k]].prev = IF k = 1 THEN None ELSE c[k - 1]
    BY <2>1 DEF Linked
  <2>5. (k # n - 1 => d[k + 1] = c[k + 1]) /\ (k # 1 => d[k - 1] = c[k - 1])
    BY <1>7
  <2> QED BY <2>3, <2>4, <2>5
<1>10. Linked(n - 1, d, heap', head', tail')
  <2>1. DOMAIN heap' = D
    BY <1>5
  <2> HIDE DEF d, D
  <2> QED BY <1>6, <1>8, <1>9, <2>1 DEF Linked
<1> QED BY <1>1, <1>3, <1>4, <1>5, <1>10 DEF Kept

(* Taking a node with neighbours on both sides links them to each other. *)
LEMMA TakeMiddleStep ==
  ASSUME Typed, NEW n \in Nat, NEW c, Linked(n, c, heap, head, tail),
         NEW i \in 1..n, current = c[i], current # head, current # tail, TakeMiddle
  PROVE  /\ i \in 2..n - 1
         /\ Linked(n - 1, Without(n, c, i), heap', head', tail')
         /\ heap' \in [DOMAIN heap \ {current} -> Rec(Live)]
         /\ Kept(DOMAIN heap \ {current})
         /\ popped' = heap[current].data /\ current' = c[i - 1]
<1> DEFINE D == DOMAIN heap \ {current}
           h == Free(current)
           g == SetNext(h, heap[current].prev, heap[current].next)
           d == Without(n, c, i)
           l == heap[current].prev
           r == heap[current].next
<1>1. /\ i \in 2..n - 1 /\ n \in 1..n /\ 1 \in 1..n
      /\ head = c[1] /\ tail = c[n] /\ current \in DOMAIN heap
      /\ None \notin DOMAIN heap
  BY NoneAssumption DEF Linked, Typed
<1>2. l = c[i - 1] /\ r = c[i + 1] /\ l \in D /\ r \in D /\ l # r
  BY <1>1 DEF Linked
<1>3. h \in [D -> Rec(Live)] /\ \A x \in D : h[x] = heap[x]
  BY DEF Free, Typed
<1>4. /\ heap' = SetPrev(g, r, l) /\ current' = l /\ head' = head /\ tail' = tail
      /\ popped' = heap[current].data
  BY DEF TakeMiddle
<1>5. g = SetNext(h, l, r)
  OBVIOUS
<1> HIDE DEF h, l, r, g
<1>6. /\ None \notin D /\ l \in D \cup {None} /\ r \in D \cup {None}
      /\ l \in Live /\ r \in Live
  BY <1>1, <1>2 DEF Live
<1>7. /\ g \in [D -> Rec(Live)]
      /\ \A x \in D : /\ g[x].data = h[x].data
                       /\ g[x].prev = h[x].prev
                       /\ g[x].next = IF x = l THEN r ELSE h[x].next
  <2> HIDE DEF D
  <2> QED BY <1>3, <1>5, <1>6, SetNextIs
<1>8. /\ heap' \in [D -> Rec(Live)]
      /\ \A x \in D : /\ heap'[x].data = g[x].data
                       /\ heap'[x].next = g[x].next
                       /\ heap'[x].prev = IF x = r THEN l ELSE g[x].prev
  <2> HIDE DEF D
  <2> QED BY <1>4, <1>6, <1>7, SetPrevIs
<1>9. /\ d \in [1..n - 1 -> D]
      /\ \A x \in D : \E k \in 1..n - 1 : d[k] = x
      /\ \A j, k \in 1..n - 1 : d[j] = d[k] => j = k
  <2>1. D = DOMAIN heap \ {c[i]}
    OBVIOUS
  <2> HIDE DEF D
  <2> QED BY <2>1, WithoutOne
<1>10. \A k \in 1..n - 1 : d[k] = (IF k < i THEN c[k] ELSE c[k + 1]) /\ d[k] \in D
  BY <1>9 DEF Without
<1>11. head' = (IF n - 1 = 0 THEN None ELSE d[1])
       /\ tail' = IF n - 1 = 0 THEN None ELSE d[n - 1]
  BY <1>1, <1>4, <1>10
<1>12. ASSUME NEW k \in 1..n - 1
       PROVE  /\ heap'[d[k]].next = IF k = n - 1 THEN None ELSE d[k + 1]
              /\ heap'[d[k]].prev = IF k = 1 THEN None ELSE d[k - 1]
  <2> DEFINE j == IF k < i THEN k ELSE k + 1
  <2>1. j \in 1..n /\ d[k] = c[j] /\ h[d[k]] = heap[c[j]] /\ d[k] \in D
    BY <1>3, <1>10
  <2>2. ((d[k] = l) <=> j = i - 1) /\ ((d[k] = r) <=> j = i + 1)
    <3> HIDE DEF j, d
    <3>1. i - 1 \in 1..n /\ i + 1 \in 1..n
      BY <1>1
    <3> QED BY <1>2, <2>1, <3>1 DEF Linked
  <2>3. /\ heap'[d[k]].next = IF j = i - 1 THEN r ELSE heap[c[j]].next
        /\ heap'[d[k]].prev = IF j = i + 1 THEN l ELSE heap[c[j]].prev
    BY <1>7, <1>8, <2>1, <2>2
  <2>4. heap[c[j]].next = (IF j = n THEN None ELSE c[j + 1])
        /\ heap[c[j]].prev = IF j = 1 THEN None ELSE c[j - 1]
    BY <2>1 DEF Linked
  <2>5. /\ k # n - 1 => d[k + 1] = IF k + 1 < i THEN c[k + 1] ELSE c[k + 2]
        /\ k # 1 => d[k - 1] = IF k - 1 < i THEN c[k - 1] ELSE c[k]
    BY <1>10
  <2>6. CASE k < i - 1
    BY <1>1, <2>3, <2>4, <2>5, <2>6
  <2>7. CASE k = i - 1
    BY <1>1, <1>2, <2>3, <2>4, <2>5, <2>7
  <2>8. CASE k = i
    BY <1>1, <1>2, <2>3, <2>4, <2>5, <2>8
  <2>9. CASE k > i
    BY <1>1, <2>3, <2>4, <2>5, <2>9
  <2> QED BY <1>1, <2>6, <2>7, <2>8, <2>9
<1>13. Linked(n - 1, d, heap', head', tail')
  <2>1. DOMAIN heap' = D
    BY <1>8
  <2> HIDE DEF d, D
  <2> QED BY <1>1, <1>9, <1>11, <1>12, <2>1 DEF Linked
<1> QED BY <1>1, <1>2, <1>3, <1>4, <1>7, <1>8, <1>13 DEF Kept
-----------------------------------------------------------------------------
(* What a caller sees of a numbered heap. *)
LEMMA ViewIs ==
  ASSUME NEW n \in 0..Cardinality(Nodes), NEW c, NEW h, NEW hd, NEW tl,
         None \notin DOMAIN h, Linked(n, c, h, hd, tl),
         \A a \in DOMAIN h : h[a].data \in Items
  PROVE  /\ ChainOf(h, hd) = c
         /\ ItemsOf(h, c) = [k \in 1..n |-> h[c[k]].data]
         /\ ItemsOf(h, c) \in Seq(Items) /\ Len(ItemsOf(h, c)) = n
         /\ PlaceOf(c, None) = 0 /\ \A k \in 1..n : PlaceOf(c, c[k]) = k
<1>1. n \in Nat
  OBVIOUS
<1>2. ChainOf(h, hd) = c
  BY WalkFinds
<1>3. DOMAIN c = 1..n /\ \A k \in 1..n : c[k] \in DOMAIN h
  BY DEF Linked
<1>4. ItemsOf(h, c) = [k \in 1..n |-> h[c[k]].data]
  BY <1>3 DEF ItemsOf
<1>5. ItemsOf(h, c) \in [1..n -> Items]
  BY <1>3, <1>4
<1>6. ItemsOf(h, c) \in Seq(Items) /\ Len(ItemsOf(h, c)) = n
  BY <1>1, <1>5
<1>7. PlaceOf(c, None) = 0 /\ \A k \in 1..n : PlaceOf(c, c[k]) = k
  BY <1>1, PlaceIs
<1> QED BY <1>2, <1>4, <1>6, <1>7

(* A numbering with everything that is known beside it. *)
View(n, c) ==
  /\ n \in 0..Cardinality(Nodes) /\ n \in Nat
  /\ Linked(n, c, heap, head, tail)
  /\ Chain = c /\ c \in [1..n -> DOMAIN heap]
  /\ ItemsOf(heap, Chain) = [k \in 1..n |-> heap[c[k]].data]
  /\ ItemsOf(heap, Chain) \in Seq(Items) /\ Len(ItemsOf(heap, Chain)) = n
  /\ current = None => PlaceOf(Chain, current) = 0
  /\ \A k \in 1..n : current = c[k] => PlaceOf(Chain, current) = k
  /\ current # None => \E k \in 1..n : current = c[k]

(* The invariant gives a chain to view the heap by. *)
LEMMA InvView ==
  ASSUME IInv
  PROVE  /\ None \notin DOMAIN heap
         /\ \E n \in Nat : \E c : View(n, c)
<1>1. None \notin DOMAIN heap
  BY NoneAssumption DEF IInv, TypeOK
<1>2. PICK n \in 0..Cardinality(Nodes) :
        \E c \in [1..n -> DOMAIN heap] : Linked(n, c, heap, head, tail)
  BY DEF IInv
<1>3. PICK c \in [1..n -> DOMAIN heap] : Linked(n, c, heap, head, tail)
  BY <1>2
<1>4. \A a \in DOMAIN heap : heap[a].data \in Items
  BY DEF IInv, TypeOK
<1>5. n \in Nat
  OBVIOUS
<1>6. /\ ChainOf(heap, head) = c
      /\ ItemsOf(heap, c) = [k \in 1..n |-> heap[c[k]].data]
      /\ ItemsOf(heap, c) \in Seq(Items) /\ Len(ItemsOf(heap, c)) = n
      /\ PlaceOf(c, None) = 0 /\ \A k \in 1..n : PlaceOf(c, c[k]) = k
  BY <1>1, <1>3, <1>4, ViewIs
<1>7. current # None => \E k \in 1..n : current = c[k]
  BY <1>3 DEF IInv, CursorLive, Live, Linked
<1>8. View(n, c)
  BY <1>3, <1>5, <1>6, <1>7 DEF View, Chain
<1> QED BY <1>1, <1>5, <1>8

(* The invariant holds behind a step that has a numbering. *)
LEMMA InvFrom ==
  ASSUME NEW n \in Nat, NEW c, NEW D, NEW P, heap' \in [D -> Rec(P)], D \subseteq Nodes,
         Linked(n, c, heap', head', tail'),
         current' \in D \cup {None}, popped' \in Items \cup {None}
  PROVE  IInv' /\ View(n, c)'
<1>1. DOMAIN heap' = D /\ None \notin D
  BY NoneAssumption
<1>2. /\ \A a \in D : heap'[a] \in [data : Items, prev : D \cup {None}, next : D \cup {None}]
      /\ {head', tail'} \subseteq D \cup {None}
      /\ head' = None <=> tail' = None
  BY <1>1, LinkedTyped
<1>3. TypeOK' /\ CursorLive'
  BY <1>1, <1>2 DEF TypeOK, CursorLive, Live
<1>4. n \in 0..Cardinality(Nodes)
  BY <1>1, LinkedFits
<1>5. c \in [1..n -> DOMAIN heap']
  BY DEF Linked
<1>6. IInv'
  <2>1. heap' \in [D -> Rec(D \cup {None})]
    BY <1>2 DEF Rec
  <2> QED BY <1>1, <1>3, <1>4, <1>5, <2>1 DEF IInv, Live
<1>7. \A a \in DOMAIN heap' : heap'[a].data \in Items
  BY <1>1, <1>2
<1>8. /\ ChainOf(heap', head') = c
      /\ ItemsOf(heap', c) = [k \in 1..n |-> heap'[c[k]].data]
      /\ ItemsOf(heap', c) \in Seq(Items) /\ Len(ItemsOf(heap', c)) = n
      /\ PlaceOf(c, None) = 0 /\ \A k \in 1..n : PlaceOf(c, c[k]) = k
  BY <1>1, <1>4, <1>7, ViewIs
<1>9. current' # None => \E k \in 1..n : current' = c[k]
  BY <1>1 DEF Linked
<1> QED BY <1>4, <1>5, <1>6, <1>8, <1>9 DEF View, Chain

(* The invariant has the types among its conjuncts. *)
LEMMA InvTyped == IInv => Typed
BY DEF IInv, TypeOK, Typed
-----------------------------------------------------------------------------
(* The list and the cursor as a caller sees them. *)
its   == ItemsOf(heap, Chain)
place == PlaceOf(Chain, current)

(* Sequences with the same items are equal. *)
LEMMA SameSequence ==
  ASSUME NEW s \in Seq(Items), NEW t \in Seq(Items), Len(s) = Len(t),
         \A k \in 1..Len(s) : s[k] = t[k]
  PROVE  s = t
OBVIOUS

(* An item that is pushed is the last, or the first, of the sequence, and the
   cursor stays on its item. *)
LEMMA PushTailRefines ==
  ASSUME IInv, NEW a \in Nodes, NEW v \in Items, PushTail(a, v)
  PROVE  IInv' /\ Sequence!PushTail(v)
<1>1. PICK n \in Nat : \E c : View(n, c)
  BY InvView
<1>2. PICK c : View(n, c)
  BY <1>1
<1> DEFINE d == Longer(n, c, a)
<1>3. Linked(n, c, heap, head, tail) /\ Typed
  BY <1>2, InvTyped DEF View
<1>4. /\ Linked(n + 1, d, heap', head', tail')
      /\ heap' \in [DOMAIN heap \cup {a} -> Rec(Live \cup {a})]
      /\ Kept(DOMAIN heap) /\ heap'[a].data = v
  BY <1>3, PushTailStep
<1>5. current' = current /\ popped' = popped
  BY DEF PushTail
<1>6. DOMAIN heap \cup {a} \subseteq Nodes /\ current' \in DOMAIN heap \cup {a} \cup {None}
      /\ popped' \in Items \cup {None}
  BY <1>5 DEF IInv, TypeOK, CursorLive, Live
<1>7. IInv' /\ View(n + 1, d)'
  <2>1. n + 1 \in Nat
    OBVIOUS
  <2> HIDE DEF d
  <2> QED BY <1>4, <1>6, <2>1, InvFrom
<1>8. d[n + 1] = a /\ \A k \in 1..n : d[k] = c[k] /\ c[k] \in DOMAIN heap
  BY <1>2 DEF Longer, View
<1> HIDE DEF d
<1>9. its' = Append(its, v)
  <2>1. /\ its \in Seq(Items) /\ Len(its) = n /\ \A k \in 1..n : its[k] = heap[c[k]].data
        /\ its' \in Seq(Items) /\ Len(its') = n + 1
        /\ \A k \in 1..n + 1 : its'[k] = heap'[d[k]].data
    BY <1>2, <1>7 DEF View, its
  <2>2. \A k \in 1..n : its'[k] = its[k]
    BY <1>4, <1>8, <2>1 DEF Kept
  <2>3. its'[n + 1] = v
    BY <1>4, <1>8, <2>1
  <2> QED BY <2>1, <2>2, <2>3
<1>10. place' = place
  <2>1. CASE current = None
    BY <1>2, <1>5, <1>7, <2>1 DEF View, place
  <2>2. CASE current # None
    <3>1. PICK k \in 1..n : current = c[k]
      BY <1>2, <2>2 DEF View
    <3>2. k \in 1..n + 1 /\ current' = d[k]
      BY <1>5, <1>8, <3>1
    <3> QED BY <1>2, <1>7, <3>1, <3>2 DEF View, place
  <2> QED BY <2>1, <2>2
<1> QED BY <1>5, <1>7, <1>9, <1>10 DEF Sequence!PushTail, its, place

(* Adding at the head is the abstract addition. *)
LEMMA PushHeadRefines ==
  ASSUME IInv, NEW a \in Nodes, NEW v \in Items, PushHead(a, v)
  PROVE  IInv' /\ Sequence!PushHead(v)
<1>1. PICK n \in Nat : \E c : View(n, c)
  BY InvView
<1>2. PICK c : View(n, c)
  BY <1>1
<1> DEFINE d == Shifted(n, c, a)
<1>3. Linked(n, c, heap, head, tail) /\ Typed
  BY <1>2, InvTyped DEF View
<1>4. /\ Linked(n + 1, d, heap', head', tail')
      /\ heap' \in [DOMAIN heap \cup {a} -> Rec(Live \cup {a})]
      /\ Kept(DOMAIN heap) /\ heap'[a].data = v
  BY <1>3, PushHeadStep
<1>5. current' = current /\ popped' = popped
  BY DEF PushHead
<1>6. DOMAIN heap \cup {a} \subseteq Nodes /\ current' \in DOMAIN heap \cup {a} \cup {None}
      /\ popped' \in Items \cup {None}
  BY <1>5 DEF IInv, TypeOK, CursorLive, Live
<1>7. IInv' /\ View(n + 1, d)'
  <2>1. n + 1 \in Nat
    OBVIOUS
  <2> HIDE DEF d
  <2> QED BY <1>4, <1>6, <2>1, InvFrom
<1>8. d[1] = a /\ \A k \in 1..n : d[k + 1] = c[k] /\ c[k] \in DOMAIN heap
  BY <1>2 DEF Shifted, View
<1> HIDE DEF d
<1>9. its' = <<v>> \o its
  <2>1. /\ its \in Seq(Items) /\ Len(its) = n /\ \A k \in 1..n : its[k] = heap[c[k]].data
        /\ its' \in Seq(Items) /\ Len(its') = n + 1
        /\ \A k \in 1..n + 1 : its'[k] = heap'[d[k]].data
    BY <1>2, <1>7 DEF View, its
  <2>2. \A k \in 1..n : its'[k + 1] = its[k]
    BY <1>4, <1>8, <2>1 DEF Kept
  <2>3. its'[1] = v
    BY <1>4, <1>8, <2>1
  <2>4. /\ <<v>> \o its \in Seq(Items) /\ Len(<<v>> \o its) = n + 1
        /\ \A k \in 1..n + 1 : (<<v>> \o its)[k] = IF k = 1 THEN v ELSE its[k - 1]
    BY <2>1
  <2>5. \A k \in 1..n + 1 : its'[k] = (<<v>> \o its)[k]
    <3>1. \A k \in 2..n + 1 : k - 1 \in 1..n /\ (k - 1) + 1 = k
      OBVIOUS
    <3> QED BY <2>2, <2>3, <2>4, <3>1
  <2> QED BY <2>1, <2>4, <2>5, SameSequence
<1>10. place' = IF place = 0 THEN 0 ELSE place + 1
  <2>1. CASE current = None
    BY <1>2, <1>5, <1>7, <2>1 DEF View, place
  <2>2. CASE current # None
    <3>1. PICK k \in 1..n : current = c[k]
      BY <1>2, <2>2 DEF View
    <3>2. k + 1 \in 1..n + 1 /\ current' = d[k + 1]
      BY <1>5, <1>8, <3>1
    <3> QED BY <1>2, <1>7, <3>1, <3>2 DEF View, place
  <2> QED BY <2>1, <2>2
<1> QED BY <1>5, <1>7, <1>9, <1>10 DEF Sequence!PushHead, its, place

(* What is left of the items when the i-th node is gone. *)
LEMMA ItemsLeft ==
  ASSUME NEW n \in Nat, NEW c, NEW i \in 1..n, View(n, c),
         View(n - 1, Without(n, c, i))', Kept(DOMAIN heap \ {c[i]})
  PROVE  /\ its \in Seq(Items) /\ Len(its) = n /\ its[i] = heap[c[i]].data
         /\ its' \in Seq(Items) /\ Len(its') = n - 1
         /\ \A k \in 1..n - 1 : its'[k] = IF k < i THEN its[k] ELSE its[k + 1]
<1> DEFINE d == Without(n, c, i)
<1>1. /\ its \in Seq(Items) /\ Len(its) = n /\ \A k \in 1..n : its[k] = heap[c[k]].data
      /\ its' \in Seq(Items) /\ Len(its') = n - 1
      /\ \A k \in 1..n - 1 : its'[k] = heap'[d[k]].data
  BY DEF View, its
<1>2. /\ c \in [1..n -> DOMAIN heap]
      /\ \A j, k \in 1..n : c[j] = c[k] => j = k
  BY DEF View, Linked
<1>3. ASSUME NEW k \in 1..n - 1
      PROVE  its'[k] = IF k < i THEN its[k] ELSE its[k + 1]
  <2>1. CASE k < i
    <3>1. k \in 1..n /\ d[k] = c[k] /\ c[k] \in DOMAIN heap \ {c[i]}
      BY <1>2, <2>1 DEF Without
    <3> HIDE DEF d
    <3> QED BY <1>1, <2>1, <3>1 DEF Kept
  <2>2. CASE ~(k < i)
    <3>1. k + 1 \in 1..n /\ d[k] = c[k + 1] /\ c[k + 1] \in DOMAIN heap \ {c[i]}
      BY <1>2, <2>2 DEF Without
    <3> HIDE DEF d
    <3> QED BY <1>1, <2>2, <3>1 DEF Kept
  <2> QED BY <2>1, <2>2
<1> QED BY <1>1, <1>3

(* A node that is taken out at an end takes the cursor to that end; one taken
   out in the middle leaves it on the node before. *)
LEMMA TakeHeadRefines ==
  ASSUME IInv, head # None, TakeHead
  PROVE  IInv' /\ Sequence!PopHead
<1>1. PICK n \in Nat : \E c : View(n, c)
  BY InvView
<1>2. PICK c : View(n, c)
  BY <1>1
<1> DEFINE d == Without(n, c, 1)
<1>3. Linked(n, c, heap, head, tail) /\ Typed
  BY <1>2, InvTyped DEF View
<1>4. /\ n # 0 /\ head = c[1]
      /\ Linked(n - 1, d, heap', head', tail')
      /\ heap' \in [DOMAIN heap \ {head} -> Rec(Live)]
      /\ Kept(DOMAIN heap \ {head})
      /\ popped' = heap[head].data /\ current' = head'
  BY <1>3, TakeHeadStep
<1>5. n - 1 \in Nat /\ 1 \in 1..n
  BY <1>4
<1>6. /\ DOMAIN heap \ {head} \subseteq Nodes
      /\ current' \in (DOMAIN heap \ {head}) \cup {None}
      /\ popped' \in Items \cup {None}
      /\ current' = IF n - 1 = 0 THEN None ELSE d[1]
  <2>1. current' = IF n - 1 = 0 THEN None ELSE d[1]
    BY <1>4 DEF Linked
  <2>2. head \in DOMAIN heap
    BY <1>2, <1>4, <1>5 DEF View
  <2>3. d \in [1..n - 1 -> DOMAIN heap \ {head}]
    BY <1>4 DEF Linked
  <2> HIDE DEF d
  <2>4. n - 1 # 0 => 1 \in 1..n - 1
    BY <1>5
  <2>5. current' \in (DOMAIN heap \ {head}) \cup {None}
    BY <2>1, <2>3, <2>4
  <2>6. popped' \in Items \cup {None}
    BY <1>4, <2>2 DEF IInv, TypeOK
  <2> QED BY <2>1, <2>5, <2>6 DEF IInv, TypeOK
<1>7. IInv' /\ View(n - 1, d)'
  <2> HIDE DEF d
  <2> QED BY <1>4, <1>5, <1>6, InvFrom
<1>8. /\ its \in Seq(Items) /\ Len(its) = n /\ its[1] = heap[head].data
      /\ its' \in Seq(Items) /\ Len(its') = n - 1
      /\ \A k \in 1..n - 1 : its'[k] = its[k + 1]
  <2>1. Kept(DOMAIN heap \ {c[1]})
    BY <1>4
  <2>2. /\ its \in Seq(Items) /\ Len(its) = n /\ its[1] = heap[c[1]].data
        /\ its' \in Seq(Items) /\ Len(its') = n - 1
        /\ \A k \in 1..n - 1 : its'[k] = IF k < 1 THEN its[k] ELSE its[k + 1]
    BY <1>2, <1>5, <1>7, <2>1, ItemsLeft
  <2> QED BY <1>4, <2>2
<1> HIDE DEF d
<1>9. its' = Tail(its) /\ popped' = Head(its) /\ its # <<>>
  <2>1. its # <<>> /\ Head(its) = its[1]
    BY <1>4, <1>8
  <2>2. /\ Tail(its) \in Seq(Items) /\ Len(Tail(its)) = n - 1
        /\ \A k \in 1..n - 1 : Tail(its)[k] = its[k + 1]
    BY <1>8, <2>1
  <2> QED BY <1>4, <1>8, <2>1, <2>2, SameSequence
<1>10. place' = IF n = 1 THEN 0 ELSE 1
  BY <1>4, <1>5, <1>6, <1>7 DEF View, place
<1> QED BY <1>7, <1>8, <1>9, <1>10 DEF Sequence!PopHead, its, place

(* Taking the tail is the abstract removal of the last item. *)
LEMMA TakeTailRefines ==
  ASSUME IInv, tail # None, TakeTail
  PROVE  IInv' /\ Sequence!PopTail
<1>1. PICK n \in Nat : \E c : View(n, c)
  BY InvView
<1>2. PICK c : View(n, c)
  BY <1>1
<1> DEFINE d == Without(n, c, n)
<1>3. Linked(n, c, heap, head, tail) /\ Typed
  BY <1>2, InvTyped DEF View
<1>4. /\ n # 0 /\ tail = c[n]
      /\ Linked(n - 1, d, heap', head', tail')
      /\ heap' \in [DOMAIN heap \ {tail} -> Rec(Live)]
      /\ Kept(DOMAIN heap \ {tail})
      /\ popped' = heap[tail].data /\ current' = tail'
  BY <1>3, TakeTailStep
<1>5. n - 1 \in Nat /\ n \in 1..n
  BY <1>4
<1>6. /\ DOMAIN heap \ {tail} \subseteq Nodes
      /\ current' \in (DOMAIN heap \ {tail}) \cup {None}
      /\ popped' \in Items \cup {None}
      /\ current' = IF n - 1 = 0 THEN None ELSE d[n - 1]
  <2>1. current' = IF n - 1 = 0 THEN None ELSE d[n - 1]
    BY <1>4 DEF Linked
  <2>2. tail \in DOMAIN heap
    BY <1>2, <1>4, <1>5 DEF View
  <2>3. d \in [1..n - 1 -> DOMAIN heap \ {tail}]
    BY <1>4 DEF Linked
  <2> HIDE DEF d
  <2>4. n - 1 # 0 => n - 1 \in 1..n - 1
    BY <1>5
  <2>5. current' \in (DOMAIN heap \ {tail}) \cup {None}
    BY <2>1, <2>3, <2>4
  <2>6. popped' \in Items \cup {None}
    BY <1>4, <2>2 DEF IInv, TypeOK
  <2> QED BY <2>1, <2>5, <2>6 DEF IInv, TypeOK
<1>7. IInv' /\ View(n - 1, d)'
  <2> HIDE DEF d
  <2> QED BY <1>4, <1>5, <1>6, InvFrom
<1>8. /\ its \in Seq(Items) /\ Len(its) = n /\ its[n] = heap[tail].data
      /\ its' \in Seq(Items) /\ Len(its') = n - 1
      /\ \A k \in 1..n - 1 : its'[k] = its[k]
  <2>1. Kept(DOMAIN heap \ {c[n]})
    BY <1>4
  <2>2. /\ its \in Seq(Items) /\ Len(its) = n /\ its[n] = heap[c[n]].data
        /\ its' \in Seq(Items) /\ Len(its') = n - 1
        /\ \A k \in 1..n - 1 : its'[k] = IF k < n THEN its[k] ELSE its[k + 1]
    BY <1>2, <1>5, <1>7, <2>1, ItemsLeft
  <2> QED BY <1>4, <2>2
<1> HIDE DEF d
<1>9. its' = SubSeq(its, 1, Len(its) - 1) /\ popped' = its[Len(its)] /\ its # <<>>
  <2>1. its # <<>>
    BY <1>4, <1>8
  <2>2. /\ SubSeq(its, 1, n - 1) \in Seq(Items) /\ Len(SubSeq(its, 1, n - 1)) = n - 1
        /\ \A k \in 1..n - 1 : SubSeq(its, 1, n - 1)[k] = its[k]
    BY <1>5, <1>8
  <2> QED BY <1>4, <1>8, <2>1, <2>2, SameSequence
<1>10. place' = n - 1
  BY <1>4, <1>5, <1>6, <1>7 DEF View, place
<1> QED BY <1>7, <1>8, <1>9, <1>10 DEF Sequence!PopTail, its, place

(* Taking a node in between is the abstract removal at its place. *)
LEMMA TakeMiddleRefines ==
  ASSUME IInv, current \notin {None, head, tail}, TakeMiddle
  PROVE  IInv' /\ Sequence!PopMiddle
<1>1. PICK n \in Nat : \E c : View(n, c)
  BY InvView
<1>2. PICK c : View(n, c)
  BY <1>1
<1>3. PICK i \in 1..n : current = c[i]
  BY <1>2 DEF View
<1> DEFINE d == Without(n, c, i)
<1>4. Linked(n, c, heap, head, tail) /\ Typed
  BY <1>2, InvTyped DEF View
<1>5. /\ i \in 2..n - 1
      /\ Linked(n - 1, d, heap', head', tail')
      /\ heap' \in [DOMAIN heap \ {current} -> Rec(Live)]
      /\ Kept(DOMAIN heap \ {current})
      /\ popped' = heap[current].data /\ current' = c[i - 1]
  BY <1>3, <1>4, TakeMiddleStep, ZenonT(60)
<1>6. n - 1 \in Nat /\ i - 1 \in 1..n - 1 /\ d[i - 1] = c[i - 1]
  BY <1>5 DEF Without
<1>7. /\ DOMAIN heap \ {current} \subseteq Nodes
      /\ current' \in (DOMAIN heap \ {current}) \cup {None}
      /\ popped' \in Items \cup {None}
  <2>1. current \in DOMAIN heap
    BY <1>2, <1>3 DEF View
  <2>2. d \in [1..n - 1 -> DOMAIN heap \ {current}]
    BY <1>5 DEF Linked
  <2> HIDE DEF d
  <2> QED BY <1>5, <1>6, <2>1, <2>2 DEF IInv, TypeOK
<1>8. IInv' /\ View(n - 1, d)'
  <2> HIDE DEF d
  <2> QED BY <1>5, <1>6, <1>7, InvFrom
<1>9. /\ its \in Seq(Items) /\ Len(its) = n /\ its[i] = heap[current].data
      /\ its' \in Seq(Items) /\ Len(its') = n - 1
      /\ \A k \in 1..n - 1 : its'[k] = IF k < i THEN its[k] ELSE its[k + 1]
  BY <1>2, <1>3, <1>5, <1>8, ItemsLeft
<1> HIDE DEF d
<1>10. its' = SubSeq(its, 1, i - 1) \o SubSeq(its, i + 1, Len(its))
  <2> DEFINE l == SubSeq(its, 1, i - 1)  r == SubSeq(its, i + 1, n)
  <2>1. /\ l \in Seq(Items) /\ Len(l) = i - 1
        /\ \A k \in 1..i - 1 : l[k] = its[k]
    BY <1>5, <1>9
  <2>2. /\ r \in Seq(Items) /\ Len(r) = n - i
        /\ \A k \in 1..n - i : r[k] = its[k + i]
    BY <1>5, <1>9
  <2> HIDE DEF l, r
  <2>3. /\ l \o r \in Seq(Items) /\ Len(l \o r) = n - 1
        /\ \A k \in 1..n - 1 : (l \o r)[k] = IF k <= i - 1 THEN l[k] ELSE r[k - (i - 1)]
    <3>1. (i - 1) + (n - i) = n - 1 /\ i - 1 \in Nat /\ n - i \in Nat
      BY <1>5
    <3>2. l \o r \in Seq(Items) /\ Len(l \o r) = Len(l) + Len(r)
      BY <2>1, <2>2, SMTT(30)
    <3>3. \A k \in 1..Len(l) + Len(r) :
            (l \o r)[k] = IF k <= Len(l) THEN l[k] ELSE r[k - Len(l)]
      BY <2>1, <2>2
    <3> QED BY <2>1, <2>2, <3>1, <3>2, <3>3
  <2>4. ASSUME NEW k \in 1..n - 1 PROVE its'[k] = (l \o r)[k]
    <3>1. CASE k < i
      BY <1>9, <2>1, <2>3, <3>1
    <3>2. CASE ~(k < i)
      <4>1. k - (i - 1) \in 1..n - i /\ (k - (i - 1)) + i = k + 1
        BY <1>5, <3>2
      <4>2. (l \o r)[k] = r[k - (i - 1)]
        BY <1>5, <2>3, <3>2
      <4>3. r[k - (i - 1)] = its[k + 1]
        BY <2>2, <4>1
      <4> QED BY <1>9, <3>2, <4>2, <4>3
    <3> QED BY <3>1, <3>2
  <2>5. its' = l \o r
    BY <1>9, <2>3, <2>4, SameSequence
  <2> QED BY <1>9, <2>5 DEF l, r
<1>11. place = i /\ place' = i - 1
  BY <1>2, <1>3, <1>5, <1>6, <1>8 DEF View, place
<1> QED BY <1>5, <1>8, <1>9, <1>10, <1>11 DEF Sequence!PopMiddle, its, place

-----------------------------------------------------------------------------
(* The cursor walks the numbering in both directions. *)
LEMMA CursorRefines ==
  ASSUME IInv, Forward \/ Back \/ Start \/ End
  PROVE  IInv' /\ Sequence!Next
<1>1. PICK n \in Nat : \E c : View(n, c)
  BY InvView
<1>2. PICK c : View(n, c)
  BY <1>1
<1>3. /\ heap' = heap /\ head' = head /\ tail' = tail /\ popped' = popped
  BY DEF Forward, Back, Start, End
<1>4. Linked(n, c, heap, head, tail) /\ Typed
  BY <1>2, InvTyped DEF View
<1>5. /\ c \in [1..n -> DOMAIN heap]
      /\ head = (IF n = 0 THEN None ELSE c[1])
      /\ tail = (IF n = 0 THEN None ELSE c[n])
      /\ \A k \in 1..n : heap[c[k]].next = IF k = n THEN None ELSE c[k + 1]
      /\ \A k \in 1..n : heap[c[k]].prev = IF k = 1 THEN None ELSE c[k - 1]
  BY <1>4 DEF Linked
<1>6. ASSUME current' \in DOMAIN heap \cup {None}
      PROVE  IInv' /\ View(n, c)' /\ its' = its
  <2>1. heap' \in [DOMAIN heap -> Rec(Live)] /\ DOMAIN heap \subseteq Nodes
    BY <1>3, <1>4 DEF Typed
  <2>2. Linked(n, c, heap', head', tail')
    BY <1>3, <1>4
  <2>3. popped' \in Items \cup {None}
    BY <1>3 DEF IInv, TypeOK
  <2>4. IInv' /\ View(n, c)'
    BY <1>6, <2>1, <2>2, <2>3, InvFrom
  <2>5. its' = its
    BY <1>3 DEF its, Chain
  <2> QED BY <2>4, <2>5
<1>7. /\ Len(its) = n /\ its \in Seq(Items) /\ (its = <<>> <=> n = 0)
      /\ current = None => place = 0
      /\ \A k \in 1..n : current = c[k] => place = k
      /\ current # None => \E k \in 1..n : current = c[k]
  <2>1. Len(its) = n /\ its \in Seq(Items)
    BY <1>2 DEF View, its
  <2> QED BY <1>2, <2>1 DEF View, place
<1>8. ASSUME View(n, c)'
      PROVE  /\ current' = None => place' = 0
             /\ \A k \in 1..n : current' = c[k] => place' = k
  BY <1>8 DEF View, place
<1>9. ASSUME Forward PROVE IInv' /\ Sequence!Forward
  <2>1. PICK k \in 1..n : current = c[k]
    BY <1>7, <1>9 DEF Forward
  <2>2. current' = IF k = n THEN None ELSE c[k + 1]
    BY <1>5, <1>9, <2>1 DEF Forward
  <2>3. k # n => k + 1 \in 1..n
    OBVIOUS
  <2>4. current' \in DOMAIN heap \cup {None}
    BY <1>5, <2>2, <2>3
  <2>5. IInv' /\ View(n, c)' /\ its' = its
    BY <1>6, <2>4
  <2>6. place = k /\ place # 0 /\ place' = IF k = n THEN 0 ELSE k + 1
    BY <1>7, <1>8, <2>1, <2>2, <2>3, <2>5
  <2> QED BY <1>3, <1>7, <2>5, <2>6 DEF Sequence!Forward, its, place
<1>10. ASSUME Back PROVE IInv' /\ Sequence!Back
  <2>1. PICK k \in 1..n : current = c[k]
    BY <1>7, <1>10 DEF Back
  <2>2. current' = IF k = 1 THEN None ELSE c[k - 1]
    BY <1>5, <1>10, <2>1 DEF Back
  <2>3. k # 1 => k - 1 \in 1..n
    OBVIOUS
  <2>4. current' \in DOMAIN heap \cup {None}
    BY <1>5, <2>2, <2>3
  <2>5. IInv' /\ View(n, c)' /\ its' = its
    BY <1>6, <2>4
  <2>6. place = k /\ place # 0 /\ place' = k - 1
    BY <1>7, <1>8, <2>1, <2>2, <2>3, <2>5
  <2> QED BY <1>3, <2>5, <2>6 DEF Sequence!Back, its, place
<1>11. ASSUME Start PROVE IInv' /\ Sequence!Start
  <2>1. current' = (IF n = 0 THEN None ELSE c[1]) /\ (n # 0 => 1 \in 1..n)
    BY <1>5, <1>11 DEF Start
  <2>2. current' \in DOMAIN heap \cup {None}
    BY <1>5, <2>1
  <2>3. IInv' /\ View(n, c)' /\ its' = its
    BY <1>6, <2>2
  <2>4. place' = IF n = 0 THEN 0 ELSE 1
    BY <1>8, <2>1, <2>3
  <2> QED BY <1>3, <1>7, <2>3, <2>4 DEF Sequence!Start, its, place
<1>12. ASSUME End PROVE IInv' /\ Sequence!End
  <2>1. current' = (IF n = 0 THEN None ELSE c[n]) /\ (n # 0 => n \in 1..n)
    BY <1>5, <1>12 DEF End
  <2>2. current' \in DOMAIN heap \cup {None}
    BY <1>5, <2>1
  <2>3. IInv' /\ View(n, c)' /\ its' = its
    BY <1>6, <2>2
  <2>4. place' = n
    BY <1>8, <2>1, <2>3
  <2> QED BY <1>3, <1>7, <2>3, <2>4 DEF Sequence!End, its, place
<1> QED BY <1>9, <1>10, <1>11, <1>12 DEF Sequence!Next

(* A pop from an empty list, or at a cursor that is on no item, says so and
   changes nothing. *)
LEMMA PopNoneRefines ==
  ASSUME IInv, PopNone
  PROVE  /\ IInv' /\ Sequence!PopNone
         /\ head = None \/ tail = None => its = <<>>
         /\ current = None => place = 0
<1>1. PICK n \in Nat : \E c : View(n, c)
  BY InvView
<1>2. PICK c : View(n, c)
  BY <1>1
<1>3. Linked(n, c, heap, head, tail) /\ Typed
  BY <1>2, InvTyped DEF View
<1>4. /\ heap' = heap /\ head' = head /\ tail' = tail /\ current' = current
      /\ popped' = None
  BY DEF PopNone
<1>5. /\ heap' \in [DOMAIN heap -> Rec(Live)] /\ DOMAIN heap \subseteq Nodes
      /\ Linked(n, c, heap', head', tail')
      /\ current' \in DOMAIN heap \cup {None}
  BY <1>3, <1>4 DEF Typed, IInv, CursorLive, Live
<1>6. IInv'
  BY <1>4, <1>5, InvFrom
<1>7. its' = its /\ place' = place
  BY <1>4 DEF its, place, Chain
<1>8. head = None \/ tail = None => its = <<>>
  <2>1. its \in Seq(Items) /\ Len(its) = n
    BY <1>2 DEF View, its
  <2>2. head = None \/ tail = None => n = 0
    <3>1. None \notin DOMAIN heap
      BY InvView
    <3>2. n # 0 => 1 \in 1..n /\ n \in 1..n
      OBVIOUS
    <3> QED BY <1>3, <3>1, <3>2 DEF Linked
  <2> QED BY <2>1, <2>2
<1>9. current = None => place = 0
  BY <1>2 DEF View, place
<1> QED BY <1>4, <1>6, <1>7, <1>8, <1>9 DEF Sequence!PopNone, its, place

(* Each step of the list is a step of the sequence. *)
LEMMA StepRefines ==
  ASSUME IInv, Next
  PROVE  IInv' /\ Sequence!Next
<1>1. ASSUME NEW a \in Nodes, NEW v \in Items, PushTail(a, v)
      PROVE  IInv' /\ Sequence!Next
  BY <1>1, PushTailRefines DEF Sequence!Next
<1>2. ASSUME NEW a \in Nodes, NEW v \in Items, PushHead(a, v)
      PROVE  IInv' /\ Sequence!Next
  BY <1>2, PushHeadRefines DEF Sequence!Next
<1>3. ASSUME Forward \/ Back \/ Start \/ End
      PROVE  IInv' /\ Sequence!Next
  BY <1>3, CursorRefines
<1>4. ASSUME PopNone, head = None \/ tail = None \/ current = None
      PROVE  IInv' /\ Sequence!Next
  BY <1>4, PopNoneRefines DEF Sequence!Next, its, place
<1>5. ASSUME head # None, TakeHead PROVE IInv' /\ Sequence!Next
  BY <1>5, TakeHeadRefines DEF Sequence!Next
<1>6. ASSUME tail # None, TakeTail PROVE IInv' /\ Sequence!Next
  BY <1>6, TakeTailRefines DEF Sequence!Next
<1>7. ASSUME current \notin {None, head, tail}, TakeMiddle PROVE IInv' /\ Sequence!Next
  BY <1>7, TakeMiddleRefines DEF Sequence!Next
<1>8. CASE PopHead
  BY <1>4, <1>5, <1>8 DEF PopHead
<1>9. CASE PopTail
  BY <1>4, <1>6, <1>9 DEF PopTail
<1>10. CASE PopCurrent
  BY <1>4, <1>5, <1>6, <1>7, <1>10 DEF PopCurrent
<1> QED BY <1>1, <1>2, <1>3, <1>8, <1>9, <1>10 DEF Next

(* The empty list satisfies the invariant, and is the empty sequence. *)
LEMMA InitInv == Init => IInv /\ Sequence!Init
<1> SUFFICES ASSUME Init PROVE IInv /\ Sequence!Init
  OBVIOUS
<1> DEFINE e == [x \in {} |-> x]
<1>1. heap = e /\ DOMAIN heap = {} /\ DOMAIN e = {}
      /\ head = None /\ tail = None /\ current = None /\ popped = None
  BY DEF Init
<1>2. Linked(0, e, heap, head, tail)
  BY <1>1 DEF Linked
<1>3. 0 \in 0..Cardinality(Nodes)
  BY FS_CardinalityType, NodesAssumption
<1>4. TypeOK /\ CursorLive /\ heap \in [DOMAIN heap -> Rec(Live)]
  BY <1>1 DEF TypeOK, CursorLive, Live
<1>5. e \in [1..0 -> DOMAIN heap]
  BY <1>1
<1>6. IInv
  BY <1>2, <1>3, <1>4, <1>5 DEF IInv
<1>7. None \notin DOMAIN heap /\ \A a \in DOMAIN heap : heap[a].data \in Items
  BY <1>1
<1>8. /\ ChainOf(heap, head) = e
      /\ ItemsOf(heap, e) \in Seq(Items) /\ Len(ItemsOf(heap, e)) = 0
      /\ PlaceOf(e, None) = 0
  BY <1>2, <1>3, <1>7, ViewIs
<1> QED BY <1>1, <1>6, <1>8 DEF Sequence!Init, Chain

(* A step that changes nothing. *)
LEMMA IdleStep ==
  ASSUME IInv, UNCHANGED llVars
  PROVE  IInv' /\ UNCHANGED Sequence!listVars
<1>1. /\ heap' = heap /\ head' = head /\ tail' = tail /\ current' = current
      /\ popped' = popped
  BY DEF llVars
<1>2. IInv'
  BY <1>1 DEF IInv, TypeOK, CursorLive, Live, Linked, Rec
<1>3. UNCHANGED Sequence!listVars
  BY <1>1 DEF Sequence!listVars, Chain
<1> QED BY <1>2, <1>3

(* The invariant holds in every state of the list. *)
THEOREM Inductive == Spec => []IInv
<1>1. Init => IInv
  BY InitInv
<1>2. IInv /\ [Next]_llVars => IInv'
  BY StepRefines, IdleStep
<1> QED BY <1>1, <1>2, PTL DEF Spec

(* The pointers go to nodes that are allocated, and the list has either both
   ends or none: linkedlist.c never leaves a pointer on a freed node. *)
THEOREM TypeCorrect == Spec => []TypeOK
<1>1. IInv => TypeOK
  BY DEF IInv
<1> QED BY <1>1, Inductive, PTL

(* The cursor survives every pop, whichever of the three functions took the
   node it was on. *)
THEOREM CursorSound == Spec => []CursorLive
<1>1. IInv => CursorLive
  BY DEF IInv
<1> QED BY <1>1, Inductive, PTL

(* Walking forward and walking back meet the same nodes, and none is lost. *)
THEOREM WalksAgree == Spec => []BothWaysAlike
<1>1. ASSUME IInv PROVE BothWaysAlike
  <2>1. PICK n \in Nat : \E c : View(n, c)
    BY <1>1, InvView
  <2>2. PICK c : View(n, c)
    BY <2>1
  <2>3. /\ Chain = c /\ c \in [1..n -> DOMAIN heap] /\ Linked(n, c, heap, head, tail)
    BY <2>2 DEF View
  <2>4. Len(c) = n /\ DOMAIN c = 1..n /\ (c # <<>> => n # 0)
    BY <2>3
  <2>5. DOMAIN heap = {c[k] : k \in 1..n}
    BY <2>3 DEF Linked
  <2>6. n # 0 => heap[head].prev = None /\ tail = c[n]
    BY <2>3 DEF Linked
  <2>7. \A k \in 2..n : heap[c[k]].prev = c[k - 1]
    BY <2>3 DEF Linked
  <2> QED BY <2>3, <2>4, <2>5, <2>6, <2>7 DEF BothWaysAlike
<1> QED BY <1>1, Inductive, PTL

(* The doubly linked list implements the sequence with a cursor that its
   callers use it as: every operation does to the items and to the cursor what
   SeqList says, and every pop answers what SeqList answers. *)
THEOREM Implements == Spec => ImplementsSequence
<1>1. Init => Sequence!Init
  BY InitInv
<1>2. IInv /\ [Next]_llVars => [Sequence!Next]_(Sequence!listVars)
  BY StepRefines, IdleStep
<1> QED BY <1>1, <1>2, Inductive, PTL DEF Spec, ImplementsSequence, Sequence!Spec
=============================================================================
