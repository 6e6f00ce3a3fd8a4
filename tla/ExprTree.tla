------------------------------ MODULE ExprTree ------------------------------
(***************************************************************************)
(* The tree the parser builds for an arithmetic expression: expr_helper,   *)
(* term_helper, fact_helper and n_exponent, right recursive as the grammar *)
(* is, and invert_expr, which turns a chain of sums round afterwards.      *)
(*                                                                         *)
(* The expressions are written one token at a time; an operand is known by *)
(* its position.  What the tree should be is read off the text: sums group *)
(* to the left, products and powers as the grammar says, and a group is an *)
(* operand.  The module is for TLC only: its definitions are recursive.    *)
(***************************************************************************)
EXTENDS Integers, Sequences, FiniteSets

CONSTANTS Ops,     \* the operators that occur
          MaxLen   \* bound: tokens of an expression

SumOps  == {"+", "-"}
ProdOps == {"*", "/", "%"}
ASSUME OpsAssumption == Ops \subseteq SumOps \cup ProdOps \cup {"^"}
ASSUME MaxLenAssumption == MaxLen \in Nat

VARIABLE text

Leaf(i)        == [op |-> "id", at |-> i]
Node(op, l, r) == [op |-> op, left |-> l, right |-> r]
Token(i)       == IF i <= Len(text) THEN text[i] ELSE "end"

-----------------------------------------------------------------------------
(* Mutation: the inversion stops after its first step. *)
MutInvert(a) ==
  IF a.right.op \notin SumOps THEN a
  ELSE [a.right EXCEPT !.left = [a EXCEPT !.right = a.right.left]]

(* invert_expr: the right child's left child is swapped with the node, down the
   right spine for as long as it has sums. *)
RECURSIVE Invert(_)
Invert(a) ==
  IF a.right.op \notin SumOps THEN a
  ELSE Invert([a.right EXCEPT !.left = [a EXCEPT !.right = a.right.left]])

(* Each of these returns the tree, and the position p->c is at afterwards. *)
RECURSIVE Expr(_, _), Term(_), Fact(_), Exponent(_)

(* expr_helper: only the outermost call of a chain inverts. *)
Expr(i, isRoot) ==
  LET left == Term(i) IN
  IF Token(left.at) \notin SumOps THEN left
  ELSE LET rest == Expr(left.at + 1, FALSE)
           node == Node(Token(left.at), left.tree, rest.tree)
       IN  [tree |-> IF isRoot THEN Invert(node) ELSE node, at |-> rest.at]

(* term_helper is never called as a root: its chain stays as it is. *)
Term(i) ==
  LET left == Fact(i) IN
  IF Token(left.at) \notin ProdOps THEN left
  ELSE LET rest == Term(left.at + 1)
       IN  [tree |-> Node(Token(left.at), left.tree, rest.tree), at |-> rest.at]

Fact(i) ==
  LET left == Exponent(i) IN
  IF Token(left.at) # "^" THEN left
  ELSE LET rest == Fact(left.at + 1)
       IN  [tree |-> Node("^", left.tree, rest.tree), at |-> rest.at]

Exponent(i) ==
  IF Token(i) = "(" THEN LET inner == Expr(i + 1, TRUE)
                         IN  [tree |-> inner.tree, at |-> inner.at + 1]
  ELSE [tree |-> Leaf(i), at |-> i + 1]

-----------------------------------------------------------------------------
Depth(lo, k) == Cardinality({j \in lo..k : text[j] = "("})
                - Cardinality({j \in lo..k : text[j] = ")"})
Open == Depth(1, Len(text))
AfterOperand == text # <<>> /\ text[Len(text)] \in {"id", ")"}
Complete == AfterOperand /\ Open = 0

Write(t) == Len(text) < MaxLen /\ text' = Append(text, t)

Init == text = <<>>
Next == \/ ~AfterOperand /\ \E t \in {"id", "("} : Write(t)
        \/ AfterOperand /\ \E t \in Ops : Write(t)
        \/ AfterOperand /\ Open > 0 /\ Write(")")
        \/ Len(text) = MaxLen /\ UNCHANGED text

Spec == Init /\ [][Next]_text
-----------------------------------------------------------------------------
(* The operators of a kind in lo..hi that stand outside every group. *)
TopLevel(lo, hi, ops) == {k \in lo..hi : text[k] \in ops /\ Depth(lo, k) = 0}
First(S) == CHOOSE k \in S : \A j \in S : k <= j
Last(S)  == CHOOSE k \in S : \A j \in S : k >= j

(* The tree of the expression written in lo..hi. *)
RECURSIVE Meant(_, _)
Meant(lo, hi) ==
  LET at(k)  == Node(text[k], Meant(lo, k - 1), Meant(k + 1, hi))
      sums   == TopLevel(lo, hi, SumOps)
      prods  == TopLevel(lo, hi, ProdOps)
      powers == TopLevel(lo, hi, {"^"})
  IN  CASE sums # {}   -> at(Last(sums))
        [] sums = {} /\ prods # {} -> at(First(prods))
        [] sums \cup prods = {} /\ powers # {} -> at(First(powers))
        [] sums \cup prods \cup powers = {} ->
             IF text[lo] = "(" THEN Meant(lo + 1, hi - 1) ELSE Leaf(lo)

Parsed == Expr(1, TRUE)

(* "3-1-1-1 parses as expected" (README.md:11): an expression whose groups are
   all followed by an operator is read to its end, its sums group to the left,
   and every group stays one operand. *)
GroupsGoOn == \A i \in DOMAIN text : text[i] = ")" => Token(i + 1) \in Ops
SumsGroupLeft ==
  Complete /\ GroupsGoOn =>
    Parsed = [tree |-> Meant(1, Len(text)), at |-> Len(text) + 1]

(* "turn a recursive descent expr tree valid" (parser.c:1187): the tree of every
   expression is the one its text means, the last operand a group or not. *)
TreeIsMeant == Complete => Parsed.tree = Meant(1, Len(text))
=============================================================================
