------------------------------- MODULE SeqList -------------------------------
(***************************************************************************)
(* What src/src/lib/linkedlist.c promises its callers: a sequence of items *)
(* with one cursor in it.  Lists are shared as queues (lexer, lister), as  *)
(* stacks, and as tables that are walked by their cursor (the back ends).  *)
(***************************************************************************)
EXTENDS Integers, Sequences

CONSTANTS Items,   \* what the lists hold
          None     \* NULL, returned when there is nothing to return

VARIABLES items,   \* the list
          pos,     \* where the cursor is, 0 when it is on no item
          popped   \* what the last pop returned

listVars == <<items, pos, popped>>

Init == items = <<>> /\ pos = 0 /\ popped = None

PushTail(v) == items' = Append(items, v) /\ UNCHANGED <<pos, popped>>

(* The cursor stays on its item. *)
PushHead(v) == /\ items' = <<v>> \o items
               /\ pos' = IF pos = 0 THEN 0 ELSE pos + 1
               /\ UNCHANGED popped

Forward == /\ pos # 0
           /\ pos' = IF pos = Len(items) THEN 0 ELSE pos + 1
           /\ UNCHANGED <<items, popped>>
Back    == /\ pos # 0 /\ pos' = pos - 1
           /\ UNCHANGED <<items, popped>>
Start   == /\ pos' = IF items = <<>> THEN 0 ELSE 1
           /\ UNCHANGED <<items, popped>>
End     == pos' = Len(items) /\ UNCHANGED <<items, popped>>

(* Popping at an end takes the cursor along to that end. *)
PopHead == /\ items # <<>>
           /\ items' = Tail(items) /\ popped' = Head(items)
           /\ pos' = IF Len(items) = 1 THEN 0 ELSE 1
PopTail == /\ items # <<>>
           /\ items' = SubSeq(items, 1, Len(items) - 1)
           /\ popped' = items[Len(items)]
           /\ pos' = Len(items) - 1
PopNone == popped' = None /\ UNCHANGED <<items, pos>>

(* Popping in the middle leaves the cursor on the item before. *)
PopMiddle == /\ pos \in 2..(Len(items) - 1)
             /\ items' = SubSeq(items, 1, pos - 1)
                         \o SubSeq(items, pos + 1, Len(items))
             /\ popped' = items[pos] /\ pos' = pos - 1

Next == \/ \E v \in Items : PushTail(v) \/ PushHead(v)
        \/ Forward \/ Back \/ Start \/ End
        \/ PopHead \/ PopTail \/ PopMiddle
        \/ items = <<>> /\ PopNone
        \/ pos = 0 /\ PopNone

Spec == Init /\ [][Next]_listVars
=============================================================================
