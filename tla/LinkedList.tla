----------------------------- MODULE LinkedList -----------------------------
(***************************************************************************)
(* src/src/lib/linkedlist.c: a doubly linked list with a cursor, node by   *)
(* node.  `heap` is the nodes that are allocated; a freed node can be the  *)
(* next one that malloc returns.                                           *)
(***************************************************************************)
EXTENDS Integers, Sequences, FiniteSets

CONSTANTS Nodes,   \* bound: the nodes there is memory for
          Items,   \* what the list holds
          None     \* NULL, both as a node and as an item

ASSUME NoneAssumption == None \notin Nodes /\ None \notin Items
ASSUME NodesAssumption == IsFiniteSet(Nodes)

VARIABLES heap,                  \* the allocated nodes, by address
          head, tail, current,   \* the fields of LinkedList
          popped                 \* what the last pop returned

llVars == <<heap, head, tail, current, popped>>

Node(v, p, n) == [data |-> v, prev |-> p, next |-> n]
Free(a)       == [x \in DOMAIN heap \ {a} |-> heap[x]]

(* heap with the field of a node set; NULL has no fields. *)
SetNext(h, a, n) == IF a = None THEN h ELSE [h EXCEPT ![a].next = n]
SetPrev(h, a, p) == IF a = None THEN h ELSE [h EXCEPT ![a].prev = p]
Alloc(a, node)   == [x \in DOMAIN heap \cup {a} |->
                       IF x = a THEN node ELSE heap[x]]
-----------------------------------------------------------------------------
Init == /\ heap = <<>> /\ head = None /\ tail = None /\ current = None
        /\ popped = None

PushTail(a, v) ==
  /\ a \in Nodes \ DOMAIN heap
  /\ heap' = SetNext(Alloc(a, Node(v, tail, None)), tail, a)
  /\ head' = IF tail = None THEN a ELSE head
  /\ tail' = a
  /\ UNCHANGED <<current, popped>>

(* Mutation: the old head does not learn of the new one. *)
MutPushHead(a, v) ==
  /\ a \in Nodes \ DOMAIN heap
  /\ heap' = Alloc(a, Node(v, None, head))
  /\ tail' = IF head = None THEN a ELSE tail
  /\ head' = a
  /\ UNCHANGED <<current, popped>>

PushHead(a, v) ==
  /\ a \in Nodes \ DOMAIN heap
  /\ heap' = SetPrev(Alloc(a, Node(v, None, head)), head, a)
  /\ tail' = IF head = None THEN a ELSE tail
  /\ head' = a
  /\ UNCHANGED <<current, popped>>

Forward == /\ current # None /\ current' = heap[current].next
           /\ UNCHANGED <<heap, head, tail, popped>>
Back    == /\ current # None /\ current' = heap[current].prev
           /\ UNCHANGED <<heap, head, tail, popped>>
Start   == current' = head /\ UNCHANGED <<heap, head, tail, popped>>
End     == current' = tail /\ UNCHANGED <<heap, head, tail, popped>>

PopNone == popped' = None /\ UNCHANGED <<heap, head, tail, current>>

(* Mutation: the tail is not cleared with the last item. *)
MutTakeHead ==
  LET newHead == heap[head].next IN
  /\ popped' = heap[head].data
  /\ heap' = SetPrev(Free(head), newHead, None)
  /\ head' = newHead /\ current' = newHead
  /\ UNCHANGED tail

TakeHead ==
  LET newHead == heap[head].next IN
  /\ popped' = heap[head].data
  /\ heap' = SetPrev(Free(head), newHead, None)
  /\ head' = newHead /\ current' = newHead
  /\ tail' = IF newHead = None THEN None ELSE tail

(* Mutation: the cursor stays where it is, also on the node that is freed. *)
MutTakeTail ==
  LET newTail == heap[tail].prev IN
  /\ popped' = heap[tail].data
  /\ heap' = SetNext(Free(tail), newTail, None)
  /\ tail' = newTail /\ UNCHANGED current
  /\ head' = IF newTail = None THEN None ELSE head

TakeTail ==
  LET newTail == heap[tail].prev IN
  /\ popped' = heap[tail].data
  /\ heap' = SetNext(Free(tail), newTail, None)
  /\ tail' = newTail /\ current' = newTail
  /\ head' = IF newTail = None THEN None ELSE head

PopHead == IF head = None THEN PopNone ELSE TakeHead
PopTail == IF tail = None THEN PopNone ELSE TakeTail

(* Mutation: the cursor goes on to the item behind the one that is removed. *)
MutTakeMiddle ==
  LET left == heap[current].prev  right == heap[current].next IN
  /\ popped' = heap[current].data
  /\ heap' = SetPrev(SetNext(Free(current), left, right), right, left)
  /\ current' = right
  /\ UNCHANGED <<head, tail>>

TakeMiddle ==
  LET left == heap[current].prev  right == heap[current].next IN
  /\ popped' = heap[current].data
  /\ heap' = SetPrev(SetNext(Free(current), left, right), right, left)
  /\ current' = left
  /\ UNCHANGED <<head, tail>>

PopCurrent == CASE current = None -> PopNone
                [] current # None /\ current = head -> TakeHead
                [] current \notin {None, head} /\ current = tail -> TakeTail
                [] OTHER -> TakeMiddle

Next == \/ \E a \in Nodes, v \in Items : PushTail(a, v) \/ PushHead(a, v)
        \/ Forward \/ Back \/ Start \/ End
        \/ PopHead \/ PopTail \/ PopCurrent

Spec == Init /\ [][Next]_llVars
-----------------------------------------------------------------------------
Live == DOMAIN heap \cup {None}

(* The type of the list: its three pointers and those of its nodes point to
   allocated nodes or nowhere, and an end is missing only when both are. *)
TypeOK ==
  /\ DOMAIN heap \subseteq Nodes
  /\ \A a \in DOMAIN heap : heap[a] \in [data: Items, prev: Live, next: Live]
  /\ {head, tail} \subseteq Live /\ (head = None <=> tail = None)
  /\ popped \in Items \cup {None}

(* The cursor survives every pop: it is never left on a node that was freed,
   through whichever of the three pops the node went. *)
CursorLive == current \in Live

(* The nodes of a heap from one on, in order. *)
ChainOf(h, first) ==
  LET at[k \in 1..Cardinality(Nodes)] ==
        IF k = 1 THEN first
        ELSE IF at[k - 1] = None THEN None ELSE h[at[k - 1]].next
      length == Cardinality({k \in 1..Cardinality(Nodes) : at[k] # None})
  IN  [k \in 1..length |-> at[k]]
Chain == ChainOf(heap, head)

(* Walking back from the tail meets the same nodes as walking forward from the
   head, and no node is lost: what is allocated is on the way. *)
BothWaysAlike ==
  /\ DOMAIN heap = {Chain[k] : k \in DOMAIN Chain}
  /\ Chain # <<>> => heap[head].prev = None /\ tail = Chain[Len(Chain)]
  /\ \A k \in 2..Len(Chain) : heap[Chain[k]].prev = Chain[k - 1]

(* What the nodes of a chain hold, and where in it one of them is. *)
ItemsOf(h, chain)   == [k \in DOMAIN chain |-> h[chain[k]].data]
PlaceOf(chain, cur) == IF cur = None THEN 0
                       ELSE CHOOSE k \in DOMAIN chain : chain[k] = cur

(* The list implements a sequence with a cursor, the answers of pop included. *)
Sequence == INSTANCE SeqList WITH
  items <- ItemsOf(heap, Chain), pos <- PlaceOf(Chain, current), popped <- popped
ImplementsSequence == Sequence!Spec
=============================================================================
