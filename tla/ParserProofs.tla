---------------------------- MODULE ParserProofs ----------------------------
(***************************************************************************)
(* Proofs about the parser: its types, that the whole file is read, that   *)
(* the verdict agrees with the reports, that what is accepted is balanced, *)
(* and that the sections follow each other.                                *)
(*                                                                         *)
(* All of it rests on what the stack of calls in progress may hold.  Every *)
(* name on it has a latest section it may be reached in and a section it   *)
(* may lead to, which keeps them in order; before an error, a production   *)
(* is replaced by items that open and close the same, so that what is open *)
(* is what the stack will close.                                           *)
(***************************************************************************)
EXTENDS Parser, TLAPS, SequenceTheorems

(***************************************************************************)
(* The order of the sections: the last one an item may be reached in, and  *)
(* the one it may lead to.                                                 *)
(***************************************************************************)
Latest(x) ==
  IF x \in {"n_program", "globals", "n_globals", "sync1"} THEN 1
  ELSE IF x \in {"types", "n_typelist", "typelist", "sync2"} THEN 2
  ELSE IF x \in {"arrays", "n_arrdecls", "arrdecls", "sync3"} THEN 3
  ELSE IF x \in {"n_funcs", "n_func", "sync5", "afterend"} THEN 10
  ELSE IF x = "sync6" THEN 6
  ELSE IF x \in {"rettype", "sync8"} THEN 8
  ELSE IF x = "sync9" THEN 9
  ELSE IF x \in {"n_mainbody", "sync11"} THEN 11
  ELSE 12

Reaches(x) ==
  IF x \in {"globals", "n_globals", "arrays", "n_arrdecls", "arrdecls", "sync3"}
  THEN 3
  ELSE IF x \in {"types", "n_typelist", "typelist", "sync2"} THEN 2
  ELSE IF x \in {"afterend", "sync5"} THEN 5
  ELSE IF x = "sync1" THEN 1
  ELSE IF x = "sync6" THEN 6
  ELSE IF x \in {"rettype", "sync8"} THEN 8
  ELSE IF x \in {"n_funcs", "n_func", "sync9"} THEN 9
  ELSE IF x = "sync11" THEN 11
  ELSE IF x \in {"n_program", "n_mainbody", "sync12"} THEN 12
  ELSE 0

(* Only the mark of a function's beginning, which goes back from a body, is not
   yet where the items behind it may be reached; it comes first. *)
Orderly(s, at) ==
  /\ \A i \in DOMAIN s : at <= Latest(s[i]) \/ (i > 1 /\ s[1] = "sync5")
  /\ \A i, j \in DOMAIN s : i < j => Reaches(s[i]) <= Latest(s[j])
  /\ \A i \in DOMAIN s : i > 1 => s[i] # "sync5"

(***************************************************************************)
(* What a sequence of items opens and closes.                              *)
(***************************************************************************)
Kinds == {"paren", "brkt", "end"}

Weight(k, x) ==
  IF k = "paren" THEN (IF x = "TLPAR" THEN 1 ELSE IF x = "TRPAR" THEN -1 ELSE 0)
  ELSE IF k = "brkt"
  THEN (IF x = "TLBRK" THEN 1 ELSE IF x = "TRBRK" THEN -1 ELSE 0)
  ELSE (IF x \in {"TBEGN", "TIFTH", "TTFOR"} THEN 1
        ELSE IF x = "TTEND" THEN -1 ELSE 0)

(* Running totals from 0 to m. *)
Opens(k, s, m) ==
  \E b \in [0..Len(s) -> Int] :
    /\ b[0] = 0 /\ b[Len(s)] = m
    /\ \A i \in 1..Len(s) : b[i] = b[i - 1] + Weight(k, s[i])

(* Sequences over S that close what they open. *)
Even(s, S, K) == s \in Seq(S) /\ \A k \in K : Opens(k, s, 0)

Brackets == {"paren", "brkt"}

(* What the sections before a function's heading, or main's, may put on the
   stack, and what may be there behind it. *)
Common == Lex \cup ValueNames \cup ExprNames \cup {"n_sdecl", "sdecltype",
          "n_arrdecl", "elist", "vlist", "prlist", "declare", "skip", "error", "abort"}
Early  == Common \cup {"globals", "n_globals", "consts", "types", "arrays",
          "n_initlist", "n_init", "n_typelist", "typelist", "n_type", "typebody",
          "n_fields", "n_arrdecls", "initlist", "fields", "arrdecls", "sync1", "sync2", "sync3"}
Late   == Common \cup SimpleNames \cup StatNames \cup FuncNames
          \cup {"n_mainbody", "n_slist", "slist", "params", "dlist", "asgnlist",
                "scope", "sync5", "sync6", "sync8", "sync9", "sync11", "sync12"}

Function == <<"sync5", "scope", "TFUNC", "TIDEN", "TLPAR", "sync6", "n_plist",
              "TRPAR", "TCOLN", "rettype", "sync8", "n_locals", "TBEGN", "sync9",
              "n_stats", "TTEND", "declare">>
Main     == <<"scope", "TMAIN", "sync11", "n_slist", "sync12", "TBEGN",
              "n_stats", "TTEND", "TCD25", "TIDEN">>
Rest     == <<"n_funcs", "n_mainbody", "T_EOF">>

(* The stack behind the sections before the first heading. *)
Headings == {Rest, <<"n_func">> \o Rest, Function \o Rest, Tail(Function) \o Rest,
             <<"n_mainbody", "T_EOF">>, Main \o <<"T_EOF">>}

(***************************************************************************)
(* The inductive invariant.                                                *)
(***************************************************************************)
(* Nothing but the grammar is on the stack before an error. *)
StackTyped == ~recovering => todo \in Seq(Grammar)

(* An error has been reported when, and only when, it is recovered from. *)
Blame == /\ outcome = "null" => recovering
         /\ outcome = "tree" => ~recovering
         /\ outcome # "parsing" => todo = <<>>
         /\ recovering <=> reported
         /\ ~recovering => fresh

(* The end of the file is asked for last, and read only once. *)
EndAsked == /\ c = "T_EOF" => n = "T_EOF"
            /\ outcome = "null" => c = "T_EOF"
            /\ ~recovering => \/ todo = <<"n_program">>
                              \/ todo # <<>> /\ todo[Len(todo)] = "T_EOF"
                              \/ todo = <<>> /\ c = "T_EOF"

Ordered == Orderly(todo, progress)

AtStart == todo = <<"n_program">> /\ scope = 0 /\ open = Closed

BeforeHeading ==
  /\ scope = 0 /\ open.end = 0
  /\ \E a \in Seq(Early), h \in Headings :
       todo = a \o h /\ \A k \in Brackets : Opens(k, a, -open[k])

WithinBody ==
  /\ scope > 0 /\ todo \in Seq(Late)
  /\ \A k \in Kinds : Opens(k, todo, -open[k])

Balance == ~recovering => AtStart \/ BeforeHeading \/ WithinBody

IInv == TypeOK /\ StackTyped /\ Blame /\ EndAsked /\ Ordered /\ Balance

(***************************************************************************)
(* Sequences.                                                              *)
(***************************************************************************)
(* A sequence that is not empty is its head before its tail. *)
LEMMA HeadAndTail ==
  ASSUME NEW S, NEW s \in Seq(S), s # <<>>
  PROVE  /\ Head(s) = s[1] /\ s[1] \in S /\ 1 \in DOMAIN s
         /\ Tail(s) \in Seq(S) /\ Len(s) \in Nat \ {0}
         /\ Len(Tail(s)) = Len(s) - 1 /\ DOMAIN s = 1..Len(s)
         /\ DOMAIN Tail(s) = 1..(Len(s) - 1)
         /\ \A i \in 1..(Len(s) - 1) : Tail(s)[i] = s[i + 1]
  OBVIOUS

(* The elements of a concatenation. *)
LEMMA Concatenation ==
  ASSUME NEW S, NEW s \in Seq(S), NEW t \in Seq(S)
  PROVE  /\ s \o t \in Seq(S) /\ Len(s \o t) = Len(s) + Len(t)
         /\ Len(s) \in Nat /\ Len(t) \in Nat
         /\ DOMAIN (s \o t) = 1..(Len(s) + Len(t))
         /\ \A i \in 1..Len(s) : (s \o t)[i] = s[i]
         /\ \A i \in (Len(s) + 1)..(Len(s) + Len(t)) :
               (s \o t)[i] = t[i - Len(s)]
  OBVIOUS

(* A sequence over a set is one over every larger set. *)
LEMMA Widen ==
  ASSUME NEW S, NEW T, S \subseteq T, NEW s \in Seq(S)
  PROVE  s \in Seq(T)
  OBVIOUS

(***************************************************************************)
(* What is opened.                                                         *)
(***************************************************************************)
(* A weight is an integer. *)
LEMMA WeightInt == ASSUME NEW k, NEW x PROVE Weight(k, x) \in Int
  BY DEF Weight

(* Nothing opens nothing. *)
LEMMA OpensNone ==
  ASSUME NEW k
  PROVE  Opens(k, <<>>, 0) /\ \A m : Opens(k, <<>>, m) => m = 0
<1>1. Len(<<>>) = 0
  OBVIOUS
<1>2. Opens(k, <<>>, 0)
  <2> DEFINE b == [i \in 0..0 |-> 0]
  <2>1. b \in [0..0 -> Int] /\ b[0] = 0
    OBVIOUS
  <2>2. \A i \in 1..0 : b[i] = b[i - 1] + Weight(k, <<>>[i])
    OBVIOUS
  <2> HIDE DEF b
  <2> QED BY <1>1, <2>1, <2>2 DEF Opens
<1>3. ASSUME NEW m, Opens(k, <<>>, m) PROVE m = 0
  BY <1>1, <1>3 DEF Opens
<1> QED BY <1>2, <1>3

(* Sequences one after the other open what they open together. *)
LEMMA OpensConcat ==
  ASSUME NEW k, NEW S, NEW s \in Seq(S), NEW t \in Seq(S),
         NEW m \in Int, NEW l \in Int, Opens(k, s, m), Opens(k, t, l)
  PROVE  Opens(k, s \o t, m + l)
<1>1. PICK b \in [0..Len(s) -> Int] :
        /\ b[0] = 0 /\ b[Len(s)] = m
        /\ \A i \in 1..Len(s) : b[i] = b[i - 1] + Weight(k, s[i])
  BY DEF Opens
<1>2. PICK d \in [0..Len(t) -> Int] :
        /\ d[0] = 0 /\ d[Len(t)] = l
        /\ \A i \in 1..Len(t) : d[i] = d[i - 1] + Weight(k, t[i])
  BY DEF Opens
<1> DEFINE e == [i \in 0..(Len(s) + Len(t)) |->
                  IF i <= Len(s) THEN b[i] ELSE m + d[i - Len(s)]]
<1>3. /\ Len(s) \in Nat /\ Len(t) \in Nat /\ Len(s \o t) = Len(s) + Len(t)
      /\ \A i \in 1..Len(s) : (s \o t)[i] = s[i]
      /\ \A i \in (Len(s) + 1)..(Len(s) + Len(t)) :
            (s \o t)[i] = t[i - Len(s)]
  BY Concatenation
<1>4. e \in [0..(Len(s) + Len(t)) -> Int]
  BY <1>1, <1>2, <1>3
<1>5. e[0] = 0
  BY <1>1, <1>3
<1>6. e[Len(s) + Len(t)] = m + l
  <2>1. CASE Len(t) = 0
    BY <1>1, <1>2, <1>3, <2>1
  <2>2. CASE Len(t) # 0
    BY <1>2, <1>3, <2>2
  <2> QED BY <2>1, <2>2
<1>7. ASSUME NEW i \in 1..(Len(s) + Len(t))
      PROVE  e[i] = e[i - 1] + Weight(k, (s \o t)[i])
  <2>1. CASE i <= Len(s)
    <3>1. i \in 1..Len(s) /\ i - 1 \in 0..(Len(s) + Len(t)) /\ i - 1 <= Len(s)
      BY <1>3, <2>1
    <3>2. e[i] = b[i] /\ e[i - 1] = b[i - 1]
      BY <1>3, <2>1, <3>1
    <3> QED BY <1>1, <1>3, <3>1, <3>2
  <2>2. CASE i > Len(s)
    <3>1. /\ i - Len(s) \in 1..Len(t) /\ i \in 0..(Len(s) + Len(t))
          /\ i - 1 \in 0..(Len(s) + Len(t))
          /\ (i - Len(s)) - 1 = (i - 1) - Len(s)
          /\ (i - Len(s)) - 1 \in 0..Len(t)
          /\ (i - 1 = Len(s) \/ i - 1 > Len(s))
      <4> DEFINE p == Len(s)
                 q == Len(t)
      <4>1. p \in Nat /\ q \in Nat /\ i \in 1..(p + q) /\ i > p
        BY <1>3, <2>2
      <4> HIDE DEF p, q, e
      <4>2. /\ i - p \in 1..q /\ i \in 0..(p + q) /\ i - 1 \in 0..(p + q)
            /\ (i - p) - 1 = (i - 1) - p /\ (i - p) - 1 \in 0..q
            /\ (i - 1 = p \/ i - 1 > p)
        BY <4>1
      <4> QED BY <4>2 DEF p, q
    <3>2. e[i] = m + d[i - Len(s)]
      BY <2>2, <3>1, <1>3
    <3>3. e[i - 1] = m + d[(i - Len(s)) - 1]
      <4>1. CASE i - 1 = Len(s)
        BY <1>1, <1>2, <1>3, <3>1, <4>1
      <4>2. CASE i - 1 > Len(s)
        BY <1>3, <3>1, <4>2
      <4> HIDE DEF e
      <4> QED BY <3>1, <4>1, <4>2
    <3>4. d[i - Len(s)] = d[(i - Len(s)) - 1] + Weight(k, t[i - Len(s)])
      BY <1>2, <3>1
    <3>5. (s \o t)[i] = t[i - Len(s)]
      BY <1>3, <2>2
    <3>6. d[(i - Len(s)) - 1] \in Int /\ Weight(k, t[i - Len(s)]) \in Int
      <4>1. Weight(k, t[i - Len(s)]) \in Int
        BY WeightInt
      <4> QED BY <3>1, <4>1
    <3> HIDE DEF e
    <3>7. Weight(k, (s \o t)[i]) = Weight(k, t[i - Len(s)])
      BY <3>5
    <3> QED BY <3>2, <3>3, <3>4, <3>6, <3>7
  <2> QED BY <1>3, <2>1, <2>2
<1> HIDE DEF e
<1> QED BY <1>3, <1>4, <1>5, <1>6, <1>7 DEF Opens

(* Without its head a sequence opens what its head did not. *)
LEMMA OpensTail ==
  ASSUME NEW k, NEW S, NEW s \in Seq(S), s # <<>>, NEW m \in Int, Opens(k, s, m)
  PROVE  Opens(k, Tail(s), m - Weight(k, s[1]))
<1>1. PICK b \in [0..Len(s) -> Int] :
        /\ b[0] = 0 /\ b[Len(s)] = m
        /\ \A i \in 1..Len(s) : b[i] = b[i - 1] + Weight(k, s[i])
  BY DEF Opens
<1>2. /\ Len(s) \in Nat \ {0} /\ Len(Tail(s)) = Len(s) - 1
      /\ \A i \in 1..(Len(s) - 1) : Tail(s)[i] = s[i + 1]
  BY HeadAndTail
<1>3. Weight(k, s[1]) \in Int
  BY WeightInt
<1>4. b[1] = Weight(k, s[1])
  BY <1>1, <1>2, <1>3
<1> DEFINE e == [i \in 0..(Len(s) - 1) |-> b[i + 1] - Weight(k, s[1])]
<1>5. e \in [0..(Len(s) - 1) -> Int]
  BY <1>2, <1>3
<1>6. e[0] = 0 /\ e[Len(s) - 1] = m - Weight(k, s[1])
  BY <1>1, <1>2, <1>3, <1>4
<1>7. ASSUME NEW i \in 1..(Len(s) - 1)
      PROVE  e[i] = e[i - 1] + Weight(k, Tail(s)[i])
  <2>1. i + 1 \in 1..Len(s) /\ i \in 0..Len(s) /\ i + 1 \in 0..Len(s)
    BY <1>2
  <2>2. b[i + 1] = b[i] + Weight(k, s[i + 1])
    BY <1>1, <2>1
  <2>3. e[i] = b[i + 1] - Weight(k, s[1]) /\ e[i - 1] = b[i] - Weight(k, s[1])
    BY <1>2
  <2>4. Weight(k, s[i + 1]) \in Int /\ b[i] \in Int /\ Tail(s)[i] = s[i + 1]
    BY WeightInt, <2>1, <1>2
  <2> QED BY <1>3, <2>2, <2>3, <2>4
<1> HIDE DEF e
<1> QED BY <1>2, <1>5, <1>6, <1>7 DEF Opens

(* Items without a weight open nothing. *)
LEMMA OpensFlat ==
  ASSUME NEW k, NEW S, NEW s \in Seq(S),
         \A i \in 1..Len(s) : Weight(k, s[i]) = 0
  PROVE  Opens(k, s, 0)
<1> DEFINE b == [i \in 0..Len(s) |-> 0]
<1>1. b \in [0..Len(s) -> Int] /\ b[0] = 0 /\ b[Len(s)] = 0
  OBVIOUS
<1>2. ASSUME NEW i \in 1..Len(s) PROVE b[i] = b[i - 1] + Weight(k, s[i])
  OBVIOUS
<1> HIDE DEF b
<1> QED BY <1>1, <1>2 DEF Opens

(* One item opens its weight. *)
LEMMA OpensOne ==
  ASSUME NEW k, NEW x PROVE Opens(k, <<x>>, Weight(k, x))
<1> DEFINE b == [i \in 0..1 |-> IF i = 0 THEN 0 ELSE Weight(k, x)]
<1>1. Weight(k, x) \in Int
  BY WeightInt
<1>2. b \in [0..1 -> Int] /\ b[0] = 0 /\ b[1] = Weight(k, x)
  BY <1>1
<1>3. Len(<<x>>) = 1 /\ <<x>>[1] = x
  OBVIOUS
<1> HIDE DEF b
<1>4. \A i \in 1..1 : b[i] = b[i - 1] + Weight(k, <<x>>[i])
  BY <1>1, <1>2, <1>3
<1> QED BY <1>2, <1>3, <1>4 DEF Opens

(* Sequences that close what they open, one after the other. *)
LEMMA EvenConcat ==
  ASSUME NEW S, NEW K, NEW s, NEW t, Even(s, S, K), Even(t, S, K)
  PROVE  Even(s \o t, S, K)
<1>1. s \in Seq(S) /\ t \in Seq(S) /\ s \o t \in Seq(S)
  BY Concatenation DEF Even
<1>2. ASSUME NEW k \in K PROVE Opens(k, s \o t, 0)
  <2>1. Opens(k, s, 0) /\ Opens(k, t, 0)
    BY DEF Even
  <2>2. 0 \in Int /\ 0 + 0 = 0
    OBVIOUS
  <2>3. Opens(k, s \o t, 0 + 0)
    BY <1>1, <2>1, <2>2, OpensConcat, Zenon
  <2> QED BY <2>2, <2>3
<1> QED BY <1>1, <1>2 DEF Even

(* It is enough to say between which items something is open, once. *)
LEMMA EvenInside ==
  ASSUME NEW S, NEW K, NEW s \in Seq(S), NEW inside,
         \A k \in K : \A i \in 1..Len(s) :
           (IF i \in inside[k] THEN 1 ELSE 0)
           = (IF i - 1 \in inside[k] THEN 1 ELSE 0) + Weight(k, s[i]),
         \A k \in K : 0 \notin inside[k] /\ Len(s) \notin inside[k]
  PROVE  Even(s, S, K)
<1>1. ASSUME NEW k \in K PROVE Opens(k, s, 0)
  <2> DEFINE b == [i \in 0..Len(s) |-> IF i \in inside[k] THEN 1 ELSE 0]
  <2>1. b \in [0..Len(s) -> Int] /\ b[0] = 0 /\ b[Len(s)] = 0
    OBVIOUS
  <2>2. ASSUME NEW i \in 1..Len(s) PROVE b[i] = b[i - 1] + Weight(k, s[i])
    <3>1. i \in 0..Len(s) /\ i - 1 \in 0..Len(s)
      OBVIOUS
    <3> QED BY <3>1
  <2> HIDE DEF b
  <2> QED BY <2>1, <2>2 DEF Opens
<1> QED BY <1>1 DEF Even

(* Nothing, and one item without a weight. *)
LEMMA EvenOne ==
  ASSUME NEW S, NEW K
  PROVE  /\ Even(<<>>, S, K)
         /\ \A x \in S : (\A k \in K : Weight(k, x) = 0) => Even(<<x>>, S, K)
<1>1. Even(<<>>, S, K)
  BY OpensNone DEF Even
<1>2. ASSUME NEW x \in S, \A k \in K : Weight(k, x) = 0 PROVE Even(<<x>>, S, K)
  <2>1. \A k \in K : Opens(k, <<x>>, 0)
    BY <1>2, OpensOne
  <2> QED BY <2>1 DEF Even
<1> QED BY <1>1, <1>2

(* Items without a weight close what they open. *)
LEMMA EvenFlat ==
  ASSUME NEW S, NEW K, NEW s \in Seq(S),
         \A k \in K : \A i \in 1..Len(s) : Weight(k, s[i]) = 0
  PROVE  Even(s, S, K)
  BY OpensFlat DEF Even

(* What closes what it opens does so over more items, and for fewer kinds. *)
LEMMA EvenWiden ==
  ASSUME NEW S, NEW T, S \subseteq T, NEW K, NEW L, L \subseteq K, NEW s,
         Even(s, S, K)
  PROVE  Even(s, T, L)
  BY Widen DEF Even

(***************************************************************************)
(* What a production is replaced by.                                       *)
(***************************************************************************)
Body == Common \cup SimpleNames \cup StatNames \cup {"asgnlist"}

(* An operand is put together from operands; what it opens it closes. *)
LEMMA ValueStep ==
  ASSUME c \in Lex, n \in Lex, NEW p \in ValueNames
  PROVE  Even(ValueItems(p), Common, Kinds)
<1> DEFINE Flat(s) == /\ s \in Seq(Common)
                      /\ \A k \in Kinds : \A i \in 1..Len(s) : Weight(k, s[i]) = 0
<1>1. \A s : Flat(s) => Even(s, Common, Kinds)
  BY EvenFlat
<1>2. CASE p = "n_exponent"
  <2>1. CASE c \in Literals
    <3>1. Flat(<<c>>)
      BY <2>1 DEF Literals, Common, Lex, Kinds, Weight
    <3> QED BY <1>1, <1>2, <2>1, <3>1 DEF ValueItems, Literals
  <2>2. CASE c = "TLPAR"
    <3> DEFINE s == <<"TLPAR", "n_bool", "TRPAR">>
               inside == [k \in Kinds |-> IF k = "paren" THEN {1, 2} ELSE {}]
    <3>1. s \in Seq(Common)
      BY DEF Common, Lex, TokenTypes, ExprNames
    <3>2. \A k \in Kinds : \A i \in 1..Len(s) :
           (IF i \in inside[k] THEN 1 ELSE 0)
           = (IF i - 1 \in inside[k] THEN 1 ELSE 0) + Weight(k, s[i])
      BY DEF Weight, Kinds
    <3>3. \A k \in Kinds : 0 \notin inside[k] /\ Len(s) \notin inside[k]
      BY DEF Kinds
    <3>4. Even(s, Common, Kinds)
      <4> HIDE DEF s, inside
      <4> QED BY <3>1, <3>2, <3>3, EvenInside
    <3> QED BY <1>2, <2>2, <3>4 DEF ValueItems, Literals
  <2>3. CASE c = "TIDEN"
    <3>1. Flat(<<"n_fncall">>) /\ Flat(<<"n_var">>)
      BY DEF Common, ExprNames, ValueNames, Kinds, Weight
    <3> QED BY <1>1, <1>2, <2>3, <3>1 DEF ValueItems, Literals
  <2>4. CASE c \notin Literals \cup {"TLPAR", "TIDEN"}
    <3>1. Flat(<<"skip", "error">>)
      BY DEF Common, Kinds, Weight
    <3> QED BY <1>1, <1>2, <2>4, <3>1 DEF ValueItems
  <2> QED BY <2>1, <2>2, <2>3, <2>4
<1>3. CASE p = "n_fncall"
  <2> DEFINE s == <<"TIDEN", "TLPAR", "args", "TRPAR">>
             inside == [k \in Kinds |-> IF k = "paren" THEN {2, 3} ELSE {}]
  <2>1. s \in Seq(Common)
    BY DEF Common, Lex, TokenTypes, ValueNames, StatStart
  <2>2. \A k \in Kinds : \A i \in 1..Len(s) :
         (IF i \in inside[k] THEN 1 ELSE 0)
         = (IF i - 1 \in inside[k] THEN 1 ELSE 0) + Weight(k, s[i])
    BY DEF Weight, Kinds
  <2>3. \A k \in Kinds : 0 \notin inside[k] /\ Len(s) \notin inside[k]
    BY DEF Kinds
  <2>4. Even(s, Common, Kinds)
    <3> HIDE DEF s, inside
    <3> QED BY <2>1, <2>2, <2>3, EvenInside
  <2> QED BY <1>3, <2>4 DEF ValueItems
<1>4. CASE p = "args"
  <2>1. CASE c = "TRPAR"
    <3>1. Flat(<<>>)
      BY <2>1 DEF Common, Lex, TokenTypes, ValueNames, ExprNames, StatStart, Kinds, Weight
    <3> QED BY <1>1, <1>4, <2>1, <3>1 DEF ValueItems, Opt
  <2>2. CASE c # "TRPAR"
    <3>1. Flat(<<"n_elist">>)
      BY <2>2 DEF Common, Lex, TokenTypes, ValueNames, ExprNames, StatStart, Kinds, Weight
    <3> QED BY <1>1, <1>4, <2>2, <3>1 DEF ValueItems, Opt
  <2> QED BY <2>1, <2>2
<1>5. CASE p = "n_prlist"
  <2>1. Flat(<<"n_printitem", "prlist">>)
    BY DEF Common, Lex, TokenTypes, ValueNames, ExprNames, StatStart, Kinds, Weight
  <2> QED BY <1>1, <1>5, <2>1 DEF ValueItems
<1>6. CASE p = "n_printitem"
  <2>1. CASE c = "TSTRG"
    <3>1. Flat(<<"TSTRG">>)
      BY <2>1 DEF Common, Lex, TokenTypes, ValueNames, ExprNames, StatStart, Kinds, Weight
    <3> QED BY <1>1, <1>6, <2>1, <3>1 DEF ValueItems
  <2>2. CASE c # "TSTRG"
    <3>1. Flat(<<"n_expr">>)
      BY <2>2 DEF Common, Lex, TokenTypes, ValueNames, ExprNames, StatStart, Kinds, Weight
    <3> QED BY <1>1, <1>6, <2>2, <3>1 DEF ValueItems
  <2> QED BY <2>1, <2>2
<1> QED BY <1>2, <1>3, <1>4, <1>5, <1>6 DEF ValueNames

(* So are expressions and the lists of variables and of operands. *)
LEMMA ExprStep ==
  ASSUME c \in Lex, n \in Lex, NEW p \in ExprNames \cup ValueNames
  PROVE  Even(ExprItems(p), Common, Kinds)
<1> DEFINE Flat(s) == /\ s \in Seq(Common)
                      /\ \A k \in Kinds : \A i \in 1..Len(s) : Weight(k, s[i]) = 0
<1>1. \A s : Flat(s) => Even(s, Common, Kinds)
  BY EvenFlat
<1>2. CASE p \in ValueNames
  BY <1>2, ValueStep DEF ExprItems, ValueNames
<1>3. CASE p = "n_vlist"
  <2>1. Flat(<<"n_var", "vlist">>)
    BY DEF Common, Lex, TokenTypes, ValueNames, ExprNames, StatStart, Kinds, Weight
  <2> QED BY <1>1, <1>3, <2>1 DEF ExprItems
<1>4. CASE p = "n_var"
  <2>1. CASE n = "TLBRK"
    <3> DEFINE s == <<"TIDEN", "TLBRK", "n_expr", "TRBRK", "field">>
               inside == [k \in Kinds |-> IF k = "brkt" THEN {2, 3} ELSE {}]
    <3>1. s \in Seq(Common)
      BY DEF Common, Lex, TokenTypes, ExprNames, StatStart
    <3>2. \A k \in Kinds : \A i \in 1..Len(s) :
           (IF i \in inside[k] THEN 1 ELSE 0)
           = (IF i - 1 \in inside[k] THEN 1 ELSE 0) + Weight(k, s[i])
      BY DEF Weight, Kinds
    <3>3. \A k \in Kinds : 0 \notin inside[k] /\ Len(s) \notin inside[k]
      BY DEF Kinds
    <3>4. Even(s, Common, Kinds)
      <4> HIDE DEF s, inside
      <4> QED BY <3>1, <3>2, <3>3, EvenInside
    <3> QED BY <1>4, <2>1, <3>4 DEF ExprItems
  <2>2. CASE n # "TLBRK"
    <3>1. Flat(<<"TIDEN">>)
      BY DEF Common, Lex, TokenTypes, StatStart, Kinds, Weight
    <3> QED BY <1>1, <1>4, <2>2, <3>1 DEF ExprItems
  <2> QED BY <2>1, <2>2
<1>5. CASE p = "field"
  <2>1. CASE c = "TDOTT"
    <3>1. Flat(<<"TDOTT", "TIDEN">>)
      BY <2>1 DEF Common, Lex, TokenTypes, ValueNames, ExprNames, StatStart, Kinds, Weight
    <3> QED BY <1>1, <1>5, <2>1, <3>1 DEF ExprItems, Opt
  <2>2. CASE c # "TDOTT"
    <3>1. Flat(<<>>)
      BY <2>2 DEF Common, Lex, TokenTypes, ValueNames, ExprNames, StatStart, Kinds, Weight
    <3> QED BY <1>1, <1>5, <2>2, <3>1 DEF ExprItems, Opt
  <2> QED BY <2>1, <2>2
<1>6. CASE p = "n_elist"
  <2>1. Flat(<<"n_bool", "elist">>)
    BY DEF Common, Lex, TokenTypes, ValueNames, ExprNames, StatStart, Kinds, Weight
  <2> QED BY <1>1, <1>6, <2>1 DEF ExprItems
<1>7. CASE p = "n_bool"
  <2>1. Flat(<<"n_rel", "bool">>)
    BY DEF Common, Lex, TokenTypes, ValueNames, ExprNames, StatStart, Kinds, Weight
  <2> QED BY <1>1, <1>7, <2>1 DEF ExprItems
<1>8. CASE p = "bool"
  <2>1. CASE c \in LogOps
    <3>1. Flat(<<c, "n_bool">>)
      BY <2>1 DEF Common, Lex, TokenTypes, ValueNames, ExprNames, StatStart, Kinds, Weight, LogOps
    <3> QED BY <1>1, <1>8, <2>1, <3>1 DEF ExprItems, Opt
  <2>2. CASE c \notin LogOps
    <3>1. Flat(<<>>)
      BY <2>2 DEF Common, Lex, TokenTypes, ValueNames, ExprNames, StatStart, Kinds, Weight, LogOps
    <3> QED BY <1>1, <1>8, <2>2, <3>1 DEF ExprItems, Opt
  <2> QED BY <2>1, <2>2
<1>9. CASE p = "n_rel"
  <2>1. CASE c = "TNOTT"
    <3>1. Flat(<<"TNOTT", "n_expr", "n_relop", "n_expr">>)
      BY <2>1 DEF Common, Lex, TokenTypes, ValueNames, ExprNames, StatStart, Kinds, Weight
    <3> QED BY <1>1, <1>9, <2>1, <3>1 DEF ExprItems
  <2>2. CASE c # "TNOTT"
    <3>1. Flat(<<"n_expr", "rel">>)
      BY <2>2 DEF Common, Lex, TokenTypes, ValueNames, ExprNames, StatStart, Kinds, Weight
    <3> QED BY <1>1, <1>9, <2>2, <3>1 DEF ExprItems
  <2> QED BY <2>1, <2>2
<1>10. CASE p = "rel"
  <2>1. CASE c \in RelOps
    <3>1. Flat(<<"n_relop", "n_rel">>)
      BY <2>1 DEF Common, Lex, TokenTypes, ValueNames, ExprNames, StatStart, Kinds, Weight
    <3> QED BY <1>1, <1>10, <2>1, <3>1 DEF ExprItems, Opt
  <2>2. CASE c \notin RelOps
    <3>1. Flat(<<>>)
      BY <2>2 DEF Common, Lex, TokenTypes, ValueNames, ExprNames, StatStart, Kinds, Weight
    <3> QED BY <1>1, <1>10, <2>2, <3>1 DEF ExprItems, Opt
  <2> QED BY <2>1, <2>2
<1>11. CASE p = "n_relop"
  <2>1. CASE c \in RelOps
    <3>1. Flat(<<"skip">>)
      BY <2>1 DEF Common, Lex, TokenTypes, ValueNames, ExprNames, StatStart, Kinds, Weight
    <3> QED BY <1>1, <1>11, <2>1, <3>1 DEF ExprItems
  <2>2. CASE c \notin RelOps
    <3>1. Flat(<<"error">>)
      BY <2>2 DEF Common, Lex, TokenTypes, ValueNames, ExprNames, StatStart, Kinds, Weight
    <3> QED BY <1>1, <1>11, <2>2, <3>1 DEF ExprItems
  <2> QED BY <2>1, <2>2
<1>12. CASE p = "n_expr"
  <2>1. Flat(<<"n_exponent", "expr">>)
    BY DEF Common, Lex, TokenTypes, ValueNames, ExprNames, StatStart, Kinds, Weight
  <2> QED BY <1>1, <1>12, <2>1 DEF ExprItems
<1>13. CASE p = "expr"
  <2>1. CASE c \in ArithOps
    <3>1. Flat(<<c, "n_expr">>)
      BY <2>1 DEF Common, Lex, TokenTypes, ValueNames, ExprNames, StatStart, Kinds, Weight, ArithOps
    <3> QED BY <1>1, <1>13, <2>1, <3>1 DEF ExprItems, Opt
  <2>2. CASE c \notin ArithOps
    <3>1. Flat(<<>>)
      BY <2>2 DEF Common, Lex, TokenTypes, ValueNames, ExprNames, StatStart, Kinds, Weight, ArithOps
    <3> QED BY <1>1, <1>13, <2>2, <3>1 DEF ExprItems, Opt
  <2> QED BY <2>1, <2>2
<1> QED BY <1>2, <1>3, <1>4, <1>5, <1>6, <1>7, <1>8, <1>9, <1>10, <1>11, <1>12, <1>13 DEF ExprNames

(* Statements without a body. *)
LEMMA SimpleStep ==
  ASSUME c \in Lex, n \in Lex, NEW p \in SimpleNames \cup ExprNames \cup ValueNames
  PROVE  Even(SimpleItems(p), Body, Kinds)
<1> DEFINE Flat(s) == /\ s \in Seq(Body)
                      /\ \A k \in Kinds : \A i \in 1..Len(s) : Weight(k, s[i]) = 0
<1>1. \A s : Flat(s) => Even(s, Body, Kinds)
  BY EvenFlat
<1>2. CASE p \in ExprNames \cup ValueNames
  <2>1. Even(ExprItems(p), Common, Kinds)
    BY <1>2, ExprStep
  <2>2. SimpleItems(p) = ExprItems(p)
    BY <1>2 DEF SimpleItems, ExprNames, ValueNames
  <2>3. Common \subseteq Body
    BY DEF Body
  <2> QED BY <2>1, <2>2, <2>3, EvenWiden
<1>3. CASE p = "n_asgnstat"
  <2>1. Flat(<<"n_var", "asgnop", "n_bool">>)
    BY DEF Body, SimpleNames, StatNames, Common, Lex, TokenTypes, ValueNames, ExprNames, StatStart, Kinds, Weight
  <2> QED BY <1>1, <1>3, <2>1 DEF SimpleItems
<1>4. CASE p = "asgnop"
  <2>1. CASE c \in AsgnOps
    <3>1. Flat(<<"skip">>)
      BY <2>1 DEF Body, SimpleNames, StatNames, Common, Lex, TokenTypes, ValueNames, ExprNames, StatStart, Kinds, Weight
    <3> QED BY <1>1, <1>4, <2>1, <3>1 DEF SimpleItems
  <2>2. CASE c \notin AsgnOps
    <3>1. Flat(<<"error">>)
      BY <2>2 DEF Body, SimpleNames, StatNames, Common, Lex, TokenTypes, ValueNames, ExprNames, StatStart, Kinds, Weight
    <3> QED BY <1>1, <1>4, <2>2, <3>1 DEF SimpleItems
  <2> QED BY <2>1, <2>2
<1>5. CASE p = "n_iostat"
  <2>1. CASE c = "TINPT"
    <3>1. Flat(<<"TINPT", "TGRGR", "n_vlist">>)
      BY <2>1 DEF Body, SimpleNames, StatNames, Common, Lex, TokenTypes, ValueNames, ExprNames, StatStart, Kinds, Weight
    <3> QED BY <1>1, <1>5, <2>1, <3>1 DEF SimpleItems
  <2>2. CASE c # "TINPT"
    <3>1. Flat(<<"TOUTP", "TLSLS", "output">>)
      BY <2>2 DEF Body, SimpleNames, StatNames, Common, Lex, TokenTypes, ValueNames, ExprNames, StatStart, Kinds, Weight
    <3> QED BY <1>1, <1>5, <2>2, <3>1 DEF SimpleItems
  <2> QED BY <2>1, <2>2
<1>6. CASE p = "output"
  <2>1. CASE c = "TOUTL"
    <3>1. Flat(<<"TOUTL">>)
      BY <2>1 DEF Body, SimpleNames, StatNames, Common, Lex, TokenTypes, ValueNames, ExprNames, StatStart, Kinds, Weight
    <3> QED BY <1>1, <1>6, <2>1, <3>1 DEF SimpleItems
  <2>2. CASE c # "TOUTL"
    <3>1. Flat(<<"n_prlist", "line">>)
      BY <2>2 DEF Body, SimpleNames, StatNames, Common, Lex, TokenTypes, ValueNames, ExprNames, StatStart, Kinds, Weight
    <3> QED BY <1>1, <1>6, <2>2, <3>1 DEF SimpleItems
  <2> QED BY <2>1, <2>2
<1>7. CASE p = "line"
  <2>1. CASE c = "TLSLS"
    <3>1. Flat(<<"TLSLS", "TOUTL">>)
      BY <2>1 DEF Body, SimpleNames, StatNames, Common, Lex, TokenTypes, ValueNames, ExprNames, StatStart, Kinds, Weight
    <3> QED BY <1>1, <1>7, <2>1, <3>1 DEF SimpleItems, Opt
  <2>2. CASE c # "TLSLS"
    <3>1. Flat(<<>>)
      BY <2>2 DEF Body, SimpleNames, StatNames, Common, Lex, TokenTypes, ValueNames, ExprNames, StatStart, Kinds, Weight
    <3> QED BY <1>1, <1>7, <2>2, <3>1 DEF SimpleItems, Opt
  <2> QED BY <2>1, <2>2
<1>8. CASE p = "n_callstat"
  <2> DEFINE s == <<"TIDEN", "TLPAR", "args", "TRPAR">>
             inside == [k \in Kinds |-> IF k = "paren" THEN {2, 3} ELSE {}]
  <2>1. s \in Seq(Body)
    BY DEF Body, Common, Lex, TokenTypes, ValueNames, StatStart
  <2>2. \A k \in Kinds : \A i \in 1..Len(s) :
         (IF i \in inside[k] THEN 1 ELSE 0)
         = (IF i - 1 \in inside[k] THEN 1 ELSE 0) + Weight(k, s[i])
    BY DEF Weight, Kinds
  <2>3. \A k \in Kinds : 0 \notin inside[k] /\ Len(s) \notin inside[k]
    BY DEF Kinds
  <2>4. Even(s, Body, Kinds)
    <3> HIDE DEF s, inside
    <3> QED BY <2>1, <2>2, <2>3, EvenInside
  <2> QED BY <1>8, <2>4 DEF SimpleItems
<1>9. CASE p = "n_returnstat"
  <2>1. Flat(<<"TRETN", "value">>)
    BY DEF Body, SimpleNames, StatNames, Common, Lex, TokenTypes, ValueNames, ExprNames, StatStart, Kinds, Weight
  <2> QED BY <1>1, <1>9, <2>1 DEF SimpleItems
<1>10. CASE p = "value"
  <2>1. CASE c = "TVOID"
    <3>1. Flat(<<"TVOID">>)
      BY <2>1 DEF Body, SimpleNames, StatNames, Common, Lex, TokenTypes, ValueNames, ExprNames, StatStart, Kinds, Weight
    <3> QED BY <1>1, <1>10, <2>1, <3>1 DEF SimpleItems
  <2>2. CASE c # "TVOID"
    <3>1. Flat(<<"n_expr">>)
      BY <2>2 DEF Body, SimpleNames, StatNames, Common, Lex, TokenTypes, ValueNames, ExprNames, StatStart, Kinds, Weight
    <3> QED BY <1>1, <1>10, <2>2, <3>1 DEF SimpleItems
  <2> QED BY <2>1, <2>2
<1> QED BY <1>2, <1>3, <1>4, <1>5, <1>6, <1>7, <1>8, <1>9, <1>10 DEF SimpleNames

(* Statements with one, and their lists. *)
LEMMA StatStep ==
  ASSUME c \in Lex, n \in Lex,
         NEW p \in StatNames \cup SimpleNames \cup ExprNames \cup ValueNames
  PROVE  Even(StatItems(p), Body, Kinds)
<1> DEFINE Flat(s) == /\ s \in Seq(Body)
                      /\ \A k \in Kinds : \A i \in 1..Len(s) : Weight(k, s[i]) = 0
<1>1. \A s : Flat(s) => Even(s, Body, Kinds)
  BY EvenFlat
<1>2. CASE p \in SimpleNames \cup ExprNames \cup ValueNames
  <2>1. StatItems(p) = SimpleItems(p)
    BY <1>2 DEF StatItems, SimpleNames, ExprNames, ValueNames
  <2> QED BY <1>2, <2>1, SimpleStep
<1>3. CASE p = "n_stats"
  <2>1. Flat(<<"n_stat", "stats">>)
    BY DEF Body, SimpleNames, StatNames, Common, Lex, TokenTypes, ValueNames, ExprNames, StatStart, Kinds, Weight
  <2> QED BY <1>1, <1>3, <2>1 DEF StatItems
<1>4. CASE p = "stats"
  <2>1. CASE c \in StatStart
    <3>1. Flat(<<"n_stats">>)
      BY <2>1 DEF Body, SimpleNames, StatNames, Common, Lex, TokenTypes, ValueNames, ExprNames, StatStart, Kinds, Weight
    <3> QED BY <1>1, <1>4, <2>1, <3>1 DEF StatItems, Opt
  <2>2. CASE c \notin StatStart
    <3>1. Flat(<<>>)
      BY <2>2 DEF Body, SimpleNames, StatNames, Common, Lex, TokenTypes, ValueNames, ExprNames, StatStart, Kinds, Weight
    <3> QED BY <1>1, <1>4, <2>2, <3>1 DEF StatItems, Opt
  <2> QED BY <2>1, <2>2
<1>5. CASE p = "n_stat"
  <2>1. CASE c = "TTFOR"
    <3>1. Flat(<<"n_forstat">>)
      BY <2>1 DEF Body, SimpleNames, StatNames, Common, Lex, TokenTypes, ValueNames, ExprNames, StatStart, Kinds, Weight
    <3> QED BY <1>1, <1>5, <2>1, <3>1 DEF StatItems, StatStart
  <2>2. CASE c = "TIFTH"
    <3>1. Flat(<<"n_ifstat">>)
      BY <2>2 DEF Body, SimpleNames, StatNames, Common, Lex, TokenTypes, ValueNames, ExprNames, StatStart, Kinds, Weight
    <3> QED BY <1>1, <1>5, <2>2, <3>1 DEF StatItems, StatStart
  <2>3. CASE c = "TREPT"
    <3>1. Flat(<<"n_repstat", "TSEMI">>)
      BY <2>3 DEF Body, SimpleNames, StatNames, Common, Lex, TokenTypes, ValueNames, ExprNames, StatStart, Kinds, Weight
    <3> QED BY <1>1, <1>5, <2>3, <3>1 DEF StatItems, StatStart
  <2>4. CASE c \in {"TINPT", "TOUTP"}
    <3>1. Flat(<<"n_iostat", "TSEMI">>)
      BY <2>4 DEF Body, SimpleNames, StatNames, Common, Lex, TokenTypes, ValueNames, ExprNames, StatStart, Kinds, Weight
    <3> QED BY <1>1, <1>5, <2>4, <3>1 DEF StatItems, StatStart
  <2>5. CASE c = "TRETN"
    <3>1. Flat(<<"n_returnstat", "TSEMI">>)
      BY <2>5 DEF Body, SimpleNames, StatNames, Common, Lex, TokenTypes, ValueNames, ExprNames, StatStart, Kinds, Weight
    <3> QED BY <1>1, <1>5, <2>5, <3>1 DEF StatItems, StatStart
  <2>6. CASE c = "TIDEN" /\ n = "TLPAR"
    <3>1. Flat(<<"n_callstat", "TSEMI">>)
      BY <2>6 DEF Body, SimpleNames, StatNames, Common, Lex, TokenTypes, ValueNames, ExprNames, StatStart, Kinds, Weight
    <3> QED BY <1>1, <1>5, <2>6, <3>1 DEF StatItems, StatStart
  <2>7. CASE c = "TIDEN" /\ n # "TLPAR"
    <3>1. Flat(<<"n_asgnstat", "TSEMI">>)
      BY <2>7 DEF Body, SimpleNames, StatNames, Common, Lex, TokenTypes, ValueNames, ExprNames, StatStart, Kinds, Weight
    <3> QED BY <1>1, <1>5, <2>7, <3>1 DEF StatItems, StatStart
  <2>8. CASE c \notin StatStart
    <3>1. Flat(<<"error">>)
      BY <2>8 DEF Body, SimpleNames, StatNames, Common, Lex, TokenTypes, ValueNames, ExprNames, StatStart, Kinds, Weight
    <3> QED BY <1>1, <1>5, <2>8, <3>1 DEF StatItems, StatStart
  <2> QED BY <2>1, <2>2, <2>3, <2>4, <2>5, <2>6, <2>7, <2>8 DEF StatStart
<1>6. CASE p = "n_forstat"
  <2> DEFINE s == <<"TTFOR", "TLPAR", "n_asgnlist", "TSEMI", "n_bool",
                "TRPAR", "n_stats", "TTEND">>
             inside == [k \in Kinds |-> IF k = "paren" THEN 2..5 ELSE IF k = "end" THEN 1..7 ELSE {}]
  <2>1. s \in Seq(Body)
    BY DEF Body, Common, Lex, TokenTypes, ExprNames, StatNames, StatStart
  <2>2. \A k \in Kinds : \A i \in 1..Len(s) :
         (IF i \in inside[k] THEN 1 ELSE 0)
         = (IF i - 1 \in inside[k] THEN 1 ELSE 0) + Weight(k, s[i])
    BY DEF Weight, Kinds
  <2>3. \A k \in Kinds : 0 \notin inside[k] /\ Len(s) \notin inside[k]
    BY DEF Kinds
  <2>4. Even(s, Body, Kinds)
    <3> HIDE DEF s, inside
    <3> QED BY <2>1, <2>2, <2>3, EvenInside
  <2> QED BY <1>6, <2>4 DEF StatItems
<1>7. CASE p = "n_repstat"
  <2> DEFINE s == <<"TREPT", "TLPAR", "n_asgnlist", "TRPAR", "n_stats",
                "TUNTL", "n_bool">>
             inside == [k \in Kinds |-> IF k = "paren" THEN {2, 3} ELSE {}]
  <2>1. s \in Seq(Body)
    BY DEF Body, Common, Lex, TokenTypes, ExprNames, StatNames, StatStart
  <2>2. \A k \in Kinds : \A i \in 1..Len(s) :
         (IF i \in inside[k] THEN 1 ELSE 0)
         = (IF i - 1 \in inside[k] THEN 1 ELSE 0) + Weight(k, s[i])
    BY DEF Weight, Kinds
  <2>3. \A k \in Kinds : 0 \notin inside[k] /\ Len(s) \notin inside[k]
    BY DEF Kinds
  <2>4. Even(s, Body, Kinds)
    <3> HIDE DEF s, inside
    <3> QED BY <2>1, <2>2, <2>3, EvenInside
  <2> QED BY <1>7, <2>4 DEF StatItems
<1>8. CASE p = "n_asgnlist"
  <2>1. CASE c = "TIDEN"
    <3>1. Flat(<<"n_asgnstat", "asgnlist">>)
      BY <2>1 DEF Body, SimpleNames, StatNames, Common, Lex, TokenTypes, ValueNames, ExprNames, StatStart, Kinds, Weight
    <3> QED BY <1>1, <1>8, <2>1, <3>1 DEF StatItems, Opt
  <2>2. CASE c # "TIDEN"
    <3>1. Flat(<<>>)
      BY <2>2 DEF Body, SimpleNames, StatNames, Common, Lex, TokenTypes, ValueNames, ExprNames, StatStart, Kinds, Weight
    <3> QED BY <1>1, <1>8, <2>2, <3>1 DEF StatItems, Opt
  <2> QED BY <2>1, <2>2
<1>9. CASE p = "n_ifstat"
  <2> DEFINE s == <<"TIFTH", "TLPAR", "n_bool", "TRPAR", "n_stats",
                "else", "TTEND">>
             inside == [k \in Kinds |-> IF k = "paren" THEN {2, 3} ELSE IF k = "end" THEN 1..6 ELSE {}]
  <2>1. s \in Seq(Body)
    BY DEF Body, Common, Lex, TokenTypes, ExprNames, StatNames, StatStart
  <2>2. \A k \in Kinds : \A i \in 1..Len(s) :
         (IF i \in inside[k] THEN 1 ELSE 0)
         = (IF i - 1 \in inside[k] THEN 1 ELSE 0) + Weight(k, s[i])
    BY DEF Weight, Kinds
  <2>3. \A k \in Kinds : 0 \notin inside[k] /\ Len(s) \notin inside[k]
    BY DEF Kinds
  <2>4. Even(s, Body, Kinds)
    <3> HIDE DEF s, inside
    <3> QED BY <2>1, <2>2, <2>3, EvenInside
  <2> QED BY <1>9, <2>4 DEF StatItems
<1>10. CASE p = "else"
  <2>1. CASE c = "TELSE"
    <3>1. Flat(<<"TELSE", "n_stats">>)
      BY <2>1 DEF Body, SimpleNames, StatNames, Common, Lex, TokenTypes, ValueNames, ExprNames, StatStart, Kinds, Weight
    <3> QED BY <1>1, <1>10, <2>1, <3>1 DEF StatItems, Opt
  <2>2. CASE c # "TELSE"
    <3>1. Flat(<<>>)
      BY <2>2 DEF Body, SimpleNames, StatNames, Common, Lex, TokenTypes, ValueNames, ExprNames, StatStart, Kinds, Weight
    <3> QED BY <1>1, <1>10, <2>2, <3>1 DEF StatItems, Opt
  <2> QED BY <2>1, <2>2
<1> QED BY <1>2, <1>3, <1>4, <1>5, <1>6, <1>7, <1>8, <1>9, <1>10 DEF StatNames

(***************************************************************************)
(* The order.                                                              *)
(***************************************************************************)
(* What may replace x on the stack. *)
Fits(t, x) ==
  /\ \A i \in DOMAIN t : Reaches(t[i]) <= Reaches(x)
  /\ \A i \in DOMAIN t : Latest(x) <= Latest(t[i]) \/ (i > 1 /\ t[1] = "sync5")
  /\ \A i, j \in DOMAIN t : i < j => Reaches(t[i]) <= Latest(t[j])
  /\ \A i \in DOMAIN t : i > 1 => t[i] # "sync5"

(* The names that the order of the sections is about. *)
Headed == {"n_program", "globals", "n_globals", "types", "n_typelist", "typelist",
           "arrays", "n_arrdecls", "arrdecls", "n_funcs", "n_func", "rettype",
           "n_mainbody", "afterend", "sync1", "sync2", "sync3", "sync5", "sync6",
           "sync8", "sync9", "sync11", "sync12"}

(* Every name has its two sections; most have the widest. *)
LEMMA Sections ==
  ASSUME NEW x
  PROVE  /\ Latest(x) \in 0..12 /\ Reaches(x) \in 0..12
         /\ x \notin Headed => Latest(x) = 12 /\ Reaches(x) = 0
<1>1. Latest(x) \in 0..12
  BY DEF Latest
<1>2. Reaches(x) \in 0..12
  BY DEF Reaches
<1>3. x \notin Headed => Latest(x) = 12
  BY DEF Latest, Headed
<1>4. x \notin Headed => Reaches(x) = 0
  BY DEF Reaches, Headed
<1> QED BY <1>1, <1>2, <1>3, <1>4

(* Items that no section is about fit anywhere. *)
LEMMA CalmFits ==
  ASSUME NEW S, S \cap Headed = {}, NEW t \in Seq(S), NEW x
  PROVE  Fits(t, x)
<1>1. \A i \in DOMAIN t : t[i] \in S /\ t[i] \notin Headed /\ i \in Int
  OBVIOUS
<1>2. \A i \in DOMAIN t : t[i] # "sync5"
  BY <1>1 DEF Headed
<1>3. Latest(x) \in 0..12 /\ Reaches(x) \in 0..12
  BY Sections
<1>4. \A i \in DOMAIN t : Latest(t[i]) = 12 /\ Reaches(t[i]) = 0
  BY <1>1, Sections
<1> QED BY <1>2, <1>3, <1>4 DEF Fits

(* A stack in order stays so without its head ... *)
LEMMA OrderlyTail ==
  ASSUME NEW S, NEW s \in Seq(S), s # <<>>, NEW at \in Int, Orderly(s, at),
         s[1] # "sync5"
  PROVE  Orderly(Tail(s), at)
<1>1. /\ Len(s) \in Nat \ {0} /\ DOMAIN s = 1..Len(s)
      /\ DOMAIN Tail(s) = 1..(Len(s) - 1)
      /\ \A i \in 1..(Len(s) - 1) : Tail(s)[i] = s[i + 1]
  BY HeadAndTail
<1>2. \A i \in 1..(Len(s) - 1) : i + 1 \in 1..Len(s) /\ i + 1 > 1
  BY <1>1
<1>3. \A i \in 1..(Len(s) - 1) : at <= Latest(s[i + 1]) /\ s[i + 1] # "sync5"
  BY <1>1, <1>2 DEF Orderly
<1>4. \A i, j \in 1..(Len(s) - 1) :
        i < j => Reaches(s[i + 1]) <= Latest(s[j + 1])
  <2>1. \A i, j \in 1..(Len(s) - 1) : i < j => i + 1 < j + 1
    BY <1>1
  <2> QED BY <1>1, <1>2, <2>1 DEF Orderly
<1> QED BY <1>1, <1>3, <1>4 DEF Orderly

(* ... also when its head was the mark of a section that has been reached ... *)
LEMMA OrderlySync ==
  ASSUME NEW S, NEW s \in Seq(S), s # <<>>, NEW at \in Int, Orderly(s, at)
  PROVE  Orderly(Tail(s), Reaches(s[1]))
<1>1. /\ Len(s) \in Nat \ {0} /\ DOMAIN s = 1..Len(s)
      /\ DOMAIN Tail(s) = 1..(Len(s) - 1)
      /\ \A i \in 1..(Len(s) - 1) : Tail(s)[i] = s[i + 1]
  BY HeadAndTail
<1>2. \A i \in 1..(Len(s) - 1) : i + 1 \in 1..Len(s) /\ i + 1 > 1
  BY <1>1
<1>3. \A i \in 1..(Len(s) - 1) :
        Reaches(s[1]) <= Latest(s[i + 1]) /\ s[i + 1] # "sync5"
  <2>1. 1 \in 1..Len(s)
    BY <1>1
  <2> QED BY <1>1, <1>2, <2>1 DEF Orderly
<1>4. \A i, j \in 1..(Len(s) - 1) :
        i < j => Reaches(s[i + 1]) <= Latest(s[j + 1])
  <2>1. \A i, j \in 1..(Len(s) - 1) : i < j => i + 1 < j + 1
    BY <1>1
  <2> QED BY <1>1, <1>2, <2>1 DEF Orderly
<1> QED BY <1>1, <1>3, <1>4 DEF Orderly

(* ... and when what fits replaces it. *)
LEMMA OrderlyReplace ==
  ASSUME NEW S, NEW s \in Seq(S), s # <<>>, NEW at \in Int, Orderly(s, at),
         s[1] # "sync5", NEW t \in Seq(S), Fits(t, s[1])
  PROVE  Orderly(t \o Tail(s), at)
<1> DEFINE r == Tail(s)
<1>1. /\ Len(s) \in Nat \ {0} /\ DOMAIN s = 1..Len(s) /\ r \in Seq(S)
      /\ Len(r) = Len(s) - 1 /\ \A i \in 1..Len(r) : r[i] = s[i + 1]
  BY HeadAndTail
<1> HIDE DEF r
<1>2. /\ DOMAIN (t \o r) = 1..(Len(t) + Len(r)) /\ Len(t) \in Nat /\ Len(r) \in Nat
      /\ \A i \in 1..Len(t) : (t \o r)[i] = t[i]
      /\ \A i \in (Len(t) + 1)..(Len(t) + Len(r)) : (t \o r)[i] = r[i - Len(t)]
  <2>1. t \in Seq(S) /\ r \in Seq(S)
    BY <1>1
  <2> QED BY ONLY <2>1, Concatenation
<1>3. DOMAIN t = 1..Len(t)
  OBVIOUS
<1>4. ASSUME NEW x PROVE Latest(x) \in Int /\ Reaches(x) \in Int
  <2>1. Latest(x) \in 0..12 /\ Reaches(x) \in 0..12
    BY Sections
  <2> HIDE DEF Latest, Reaches
  <2> QED BY ONLY <2>1, SMT
<1>5. 1 \in DOMAIN s /\ at <= Latest(s[1])
  BY <1>1 DEF Orderly
<1>6. ASSUME NEW i \in (Len(t) + 1)..(Len(t) + Len(r))
      PROVE  /\ (i - Len(t)) + 1 \in DOMAIN s /\ (i - Len(t)) + 1 > 1
             /\ (t \o r)[i] = s[(i - Len(t)) + 1]
  <2> DEFINE p == Len(t)
             q == Len(r)
  <2>1. p \in Nat /\ q \in Nat /\ i \in (p + 1)..(p + q) /\ DOMAIN s = 1..(q + 1)
    BY <1>1, <1>2
  <2>2. i - p \in 1..q => r[i - p] = s[(i - p) + 1]
    BY <1>1
  <2>3. (t \o r)[i] = r[i - p]
    BY <1>2
  <2> HIDE DEF p, q
  <2>4. i - p \in 1..q /\ (i - p) + 1 \in DOMAIN s /\ (i - p) + 1 > 1
    BY <2>1
  <2>5. (t \o r)[i] = s[(i - p) + 1]
    BY <2>2, <2>3, <2>4
  <2> QED BY <2>4, <2>5 DEF p
<1>7. ASSUME NEW i \in 1..(Len(t) + Len(r))
      PROVE  /\ at <= Latest((t \o r)[i]) \/ (i > 1 /\ (t \o r)[1] = "sync5")
             /\ i > 1 => (t \o r)[i] # "sync5"
  <2>1. CASE i \in 1..Len(t)
    <3>1. (t \o r)[i] = t[i] /\ (t \o r)[1] = t[1]
      BY <1>2, <2>1
    <3>2. Latest(s[1]) <= Latest(t[i]) \/ (i > 1 /\ t[1] = "sync5")
      BY <1>3, <2>1 DEF Fits
    <3>3. i > 1 => t[i] # "sync5"
      BY <1>3, <2>1 DEF Fits
    <3> QED BY <1>4, <1>5, <3>1, <3>2, <3>3
  <2>2. CASE i \in (Len(t) + 1)..(Len(t) + Len(r))
    <3>1. at <= Latest(s[(i - Len(t)) + 1]) /\ s[(i - Len(t)) + 1] # "sync5"
      BY <1>6, <2>2 DEF Orderly
    <3> QED BY <1>6, <2>2, <3>1
  <2> QED BY <1>2, <2>1, <2>2
<1>8. ASSUME NEW i \in 1..(Len(t) + Len(r)), NEW j \in 1..(Len(t) + Len(r)), i < j
      PROVE  Reaches((t \o r)[i]) <= Latest((t \o r)[j])
  <2>1. CASE j \in 1..Len(t)
    <3>1. i \in 1..Len(t)
      BY <1>2, <1>8, <2>1
    <3> QED BY <1>2, <1>3, <1>8, <2>1, <3>1 DEF Fits
  <2>2. CASE i \in 1..Len(t) /\ j \in (Len(t) + 1)..(Len(t) + Len(r))
    <3>1. Reaches(t[i]) <= Reaches(s[1])
      BY <1>3, <2>2 DEF Fits
    <3>2. Reaches(s[1]) <= Latest(s[(j - Len(t)) + 1])
      BY <1>5, <1>6, <2>2 DEF Orderly
    <3>3. (t \o r)[i] = t[i] /\ (t \o r)[j] = s[(j - Len(t)) + 1]
      BY <1>2, <1>6, <2>2
    <3> QED BY <1>4, <3>1, <3>2, <3>3
  <2>3. CASE i \in (Len(t) + 1)..(Len(t) + Len(r))
             /\ j \in (Len(t) + 1)..(Len(t) + Len(r))
    <3>1. (i - Len(t)) + 1 < (j - Len(t)) + 1
      BY <1>2, <1>8
    <3>2. Reaches(s[(i - Len(t)) + 1]) <= Latest(s[(j - Len(t)) + 1])
      BY <1>6, <2>3, <3>1 DEF Orderly
    <3> QED BY <1>6, <2>3, <3>2
  <2> QED BY <1>2, <1>8, <2>1, <2>2, <2>3
<1>9. Orderly(t \o r, at)
  BY <1>2, <1>7, <1>8 DEF Orderly
<1> QED BY <1>9 DEF r

(***************************************************************************)
(* The sections.                                                           *)
(***************************************************************************)
Inner      == ValueNames \cup ExprNames \cup SimpleNames \cup StatNames
LateProds  == Inner \cup FuncNames
              \cup {"n_sdecl", "sdecltype", "n_arrdecl", "n_mainbody", "n_slist",
                    "slist", "params", "dlist", "asgnlist", "elist", "vlist",
                    "prlist"}
EarlyProds == ValueNames \cup ExprNames
              \cup {"n_sdecl", "sdecltype", "n_arrdecl", "elist", "vlist", "prlist",
                    "globals", "n_globals", "consts", "types", "arrays",
                    "n_initlist", "n_init", "n_typelist", "typelist", "n_type",
                    "typebody", "n_fields", "n_arrdecls", "initlist", "fields",
                    "arrdecls"}

(* The productions of statements and expressions are reached through the others. *)
LEMMA ItemsWithin ==
  ASSUME NEW p \in Inner
  PROVE  Items(p) = StatItems(p)
<1>1. p \notin DOMAIN More
  BY DEF More, Inner, ValueNames, ExprNames, SimpleNames, StatNames
<1>2. Items(p) = TypeItems(p)
  BY <1>1 DEF Items, Inner, ValueNames, ExprNames, SimpleNames, StatNames
<1>3. TypeItems(p) = FuncItems(p)
  BY DEF TypeItems, Inner, ValueNames, ExprNames, SimpleNames, StatNames
<1>4. FuncItems(p) = StatItems(p)
  BY DEF FuncItems, Inner, ValueNames, ExprNames, SimpleNames, StatNames
<1> QED BY <1>2, <1>3, <1>4

(* A pair is its elements one after the other. *)
LEMMA PairOf == ASSUME NEW x, NEW y PROVE <<x>> \o <<y>> = <<x, y>>
<1> DEFINE s == <<x>> \o <<y>>
           t == <<x, y>>
<1>1. /\ s \in Seq({x, y}) /\ t \in Seq({x, y}) /\ Len(s) = 2 /\ Len(t) = 2
      /\ s[1] = t[1] /\ s[2] = t[2]
  OBVIOUS
<1> HIDE DEF s, t
<1>2. s = [i \in 1..2 |-> s[i]] /\ t = [i \in 1..2 |-> t[i]]
  BY <1>1
<1>3. \A i \in 1..2 : s[i] = t[i]
  BY <1>1
<1>4. s = t
  BY <1>2, <1>3
<1> QED BY <1>4 DEF s, t

(* No section is reached from within a statement. *)
LEMMA BodyIsCalm == Body \cap Headed = {}
  BY DEF Body, Common, Lex, TokenTypes, Types, AsgnOps, RelOps, LogOps, ArithOps,
         Literals, StatStart, ValueNames, ExprNames, SimpleNames, StatNames, Headed

(* What functions and main are replaced by closes what it opens and leads to no
   section before the one it may be reached in. *)
LEMMA LateStep ==
  ASSUME c \in Lex, n \in Lex, NEW p \in LateProds
  PROVE  Even(Items(p), Late, Kinds) /\ Fits(Items(p), p)
<1> DEFINE Calm(s) == /\ s \in Seq(Late \ Headed)
                      /\ \A k \in Kinds : \A i \in 1..Len(s) : Weight(k, s[i]) = 0
<1>1. \A s : Calm(s) => Even(s, Late, Kinds) /\ Fits(s, p)
  <2>1. ASSUME NEW s, Calm(s) PROVE Even(s, Late, Kinds) /\ Fits(s, p)
    <3>1. s \in Seq(Late)
      BY <2>1
    <3>2. Even(s, Late, Kinds)
      BY <2>1, <3>1, EvenFlat
    <3>3. (Late \ Headed) \cap Headed = {}
      OBVIOUS
    <3>4. Fits(s, p)
      BY <2>1, <3>3, CalmFits
    <3> QED BY <3>2, <3>4
  <2> QED BY <2>1
<1>2. CASE p \in Inner
  <2>1. Even(Items(p), Body, Kinds)
    BY <1>2, ItemsWithin, StatStep DEF Inner
  <2>2. Body \subseteq Late
    BY DEF Body, Late
  <2>3. Even(Items(p), Late, Kinds)
    BY <2>1, <2>2, EvenWiden
  <2>4. Items(p) \in Seq(Body)
    BY <2>1 DEF Even
  <2>5. Fits(Items(p), p)
    BY <2>4, BodyIsCalm, CalmFits
  <2> QED BY <2>3, <2>5
<1>3. CASE p = "n_funcs"
  <2>1. CASE c = "TFUNC"
    <3>1. <<"n_func", "n_funcs">> \in Seq(Late)
      BY <2>1 DEF Late, Headed, SimpleNames, StatNames, FuncNames, Common, Lex, TokenTypes, ValueNames, ExprNames, StatStart, Kinds, Brackets, Weight
    <3>2. \A k \in Kinds : \A i \in 1..Len(<<"n_func", "n_funcs">>) : Weight(k, <<"n_func", "n_funcs">>[i]) = 0
      BY <2>1 DEF Late, Headed, SimpleNames, StatNames, FuncNames, Common, Lex, TokenTypes, ValueNames, ExprNames, StatStart, Kinds, Brackets, Weight
    <3>3. Even(<<"n_func", "n_funcs">>, Late, Kinds)
      BY <3>1, <3>2, EvenFlat
    <3>4. Fits(<<"n_func", "n_funcs">>, p)
      BY <2>1, <1>3 DEF Fits, Latest, Reaches
    <3>5. Items(p) = <<"n_func", "n_funcs">>
      BY <1>3, <2>1 DEF Items, TypeItems, FuncItems, More, Types, Opt
    <3> QED BY <3>3, <3>4, <3>5
  <2>2. CASE c # "TFUNC"
    <3>1. <<>> \in Seq(Late)
      BY <2>2 DEF Late, Headed, SimpleNames, StatNames, FuncNames, Common, Lex, TokenTypes, ValueNames, ExprNames, StatStart, Kinds, Brackets, Weight
    <3>2. \A k \in Kinds : \A i \in 1..Len(<<>>) : Weight(k, <<>>[i]) = 0
      BY <2>2 DEF Late, Headed, SimpleNames, StatNames, FuncNames, Common, Lex, TokenTypes, ValueNames, ExprNames, StatStart, Kinds, Brackets, Weight
    <3>3. Even(<<>>, Late, Kinds)
      BY <3>1, <3>2, EvenFlat
    <3>4. Fits(<<>>, p)
      BY <2>2, <1>3 DEF Fits, Latest, Reaches
    <3>5. Items(p) = <<>>
      BY <1>3, <2>2 DEF Items, TypeItems, FuncItems, More, Types, Opt
    <3> QED BY <3>3, <3>4, <3>5
  <2> QED BY <2>1, <2>2
<1>4. CASE p = "n_func"
  <2> DEFINE s == <<"sync5", "scope", "TFUNC", "TIDEN", "TLPAR", "sync6",
                "n_plist", "TRPAR", "TCOLN", "rettype", "sync8", "n_locals",
                "TBEGN", "sync9", "n_stats", "TTEND", "declare">>
             inside == [k \in Kinds |-> IF k = "paren" THEN 5..7 ELSE IF k = "end" THEN 13..15 ELSE {}]
  <2>1. s \in Seq(Late)
    BY DEF Late, Headed, SimpleNames, StatNames, FuncNames, Common, Lex, TokenTypes, ValueNames, ExprNames, StatStart, Kinds, Brackets, Weight
  <2>2. \A k \in Kinds : \A i \in 1..Len(s) :
         (IF i \in inside[k] THEN 1 ELSE 0)
         = (IF i - 1 \in inside[k] THEN 1 ELSE 0) + Weight(k, s[i])
    BY DEF Weight, Kinds
  <2>3. \A k \in Kinds : 0 \notin inside[k] /\ Len(s) \notin inside[k]
    BY DEF Kinds
  <2>4. Even(s, Late, Kinds)
    <3> HIDE DEF s, inside
    <3> QED BY <2>1, <2>2, <2>3, EvenInside
  <2> DEFINE reach == <<5, 0, 0, 0, 0, 6, 0, 0, 0, 8, 8, 0, 0, 9, 0, 0, 0>>
             late  == <<10, 12, 12, 12, 12, 6, 12, 12, 12, 8, 8, 12, 12, 9, 12, 12, 12>>
  <2>5. \A i \in 1..17 : Reaches(s[i]) = reach[i]
    BY DEF Reaches
  <2>6. \A i \in 1..17 : Latest(s[i]) = late[i]
    BY DEF Latest
  <2>7. DOMAIN s = 1..17
    OBVIOUS
  <2>8. \A i, j \in 1..17 : i < j => reach[i] <= late[j]
    OBVIOUS
  <2>9. /\ \A i \in 1..17 : reach[i] <= Reaches(p)
        /\ \A i \in 1..17 : Latest(p) <= late[i] \/ (i > 1 /\ s[1] = "sync5")
    BY <1>4 DEF Reaches, Latest
  <2>10. \A i \in 1..17 : i > 1 => s[i] # "sync5"
    OBVIOUS
  <2>11. Fits(s, p)
    <3> HIDE DEF s, reach, late
    <3> QED BY <2>5, <2>6, <2>7, <2>8, <2>9, <2>10 DEF Fits
  <2>12. Items(p) = s
    BY <1>4 DEF Items, TypeItems, FuncItems, More, Types
  <2> QED BY <2>4, <2>11, <2>12
<1>5. CASE p = "rettype"
  <2>1. CASE c \in Types \cup {"TVOID"}
    <3>1. <<c>> \in Seq(Late)
      BY <2>1 DEF Late, Headed, SimpleNames, StatNames, FuncNames, Common, Lex, TokenTypes, ValueNames, ExprNames, StatStart, Kinds, Brackets, Weight, Types
    <3>2. \A k \in Kinds : \A i \in 1..Len(<<c>>) : Weight(k, <<c>>[i]) = 0
      BY <2>1 DEF Late, Headed, SimpleNames, StatNames, FuncNames, Common, Lex, TokenTypes, ValueNames, ExprNames, StatStart, Kinds, Brackets, Weight, Types
    <3>3. Even(<<c>>, Late, Kinds)
      BY <3>1, <3>2, EvenFlat
    <3>4. Fits(<<c>>, p)
      BY <2>1, <1>5 DEF Fits, Latest, Reaches, TokenTypes, Lex, Types
    <3>5. Items(p) = <<c>>
      BY <1>5, <2>1 DEF Items, TypeItems, FuncItems, More, Types
    <3> QED BY <3>3, <3>4, <3>5
  <2>2. CASE c \notin Types \cup {"TVOID"}
    <3>1. <<"sync8", "error">> \in Seq(Late)
      BY <2>2 DEF Late, Headed, SimpleNames, StatNames, FuncNames, Common, Lex, TokenTypes, ValueNames, ExprNames, StatStart, Kinds, Brackets, Weight, Types
    <3>2. \A k \in Kinds : \A i \in 1..Len(<<"sync8", "error">>) : Weight(k, <<"sync8", "error">>[i]) = 0
      BY <2>2 DEF Late, Headed, SimpleNames, StatNames, FuncNames, Common, Lex, TokenTypes, ValueNames, ExprNames, StatStart, Kinds, Brackets, Weight, Types
    <3>3. Even(<<"sync8", "error">>, Late, Kinds)
      BY <3>1, <3>2, EvenFlat
    <3>4. Fits(<<"sync8", "error">>, p)
      BY <2>2, <1>5 DEF Fits, Latest, Reaches
    <3>5. Items(p) = <<"sync8", "error">>
      BY <1>5, <2>2 DEF Items, TypeItems, FuncItems, More, Types
    <3> QED BY <3>3, <3>4, <3>5
  <2> QED BY <2>1, <2>2
<1>6. CASE p = "n_plist"
  <2>1. CASE c = "TRPAR"
    <3>1. Calm(<<>>)
      BY <2>1 DEF Late, Headed, SimpleNames, StatNames, FuncNames, Common, Lex, TokenTypes, ValueNames, ExprNames, StatStart, Kinds, Brackets, Weight
    <3>2. Items(p) = <<>>
      BY <1>6, <2>1 DEF Items, TypeItems, FuncItems, More, Types, Opt
    <3> QED BY <1>1, <3>1, <3>2
  <2>2. CASE c # "TRPAR"
    <3>1. Calm(<<"n_params">>)
      BY <2>2 DEF Late, Headed, SimpleNames, StatNames, FuncNames, Common, Lex, TokenTypes, ValueNames, ExprNames, StatStart, Kinds, Brackets, Weight
    <3>2. Items(p) = <<"n_params">>
      BY <1>6, <2>2 DEF Items, TypeItems, FuncItems, More, Types, Opt
    <3> QED BY <1>1, <3>1, <3>2
  <2> QED BY <2>1, <2>2
<1>7. CASE p = "n_params"
  <2>1. Calm(<<"n_param", "params">>)
    BY DEF Late, Headed, SimpleNames, StatNames, FuncNames, Common, Lex, TokenTypes, ValueNames, ExprNames, StatStart, Kinds, Brackets, Weight
  <2>2. Items(p) = <<"n_param", "params">>
    BY <1>7 DEF Items, TypeItems, FuncItems, More, Types
  <2> QED BY <1>1, <2>1, <2>2
<1>8. CASE p = "n_param"
  <2>1. CASE c = "TCNST"
    <3>1. Calm(<<"TCNST", "n_arrdecl">>)
      BY <2>1 DEF Late, Headed, SimpleNames, StatNames, FuncNames, Common, Lex, TokenTypes, ValueNames, ExprNames, StatStart, Kinds, Brackets, Weight
    <3>2. Items(p) = <<"TCNST", "n_arrdecl">>
      BY <1>8, <2>1 DEF Items, TypeItems, FuncItems, More, Types
    <3> QED BY <1>1, <3>1, <3>2
  <2>2. CASE c # "TCNST"
    <3>1. Calm(<<"n_decl">>)
      BY <2>2 DEF Late, Headed, SimpleNames, StatNames, FuncNames, Common, Lex, TokenTypes, ValueNames, ExprNames, StatStart, Kinds, Brackets, Weight
    <3>2. Items(p) = <<"n_decl">>
      BY <1>8, <2>2 DEF Items, TypeItems, FuncItems, More, Types
    <3> QED BY <1>1, <3>1, <3>2
  <2> QED BY <2>1, <2>2
<1>9. CASE p = "n_locals"
  <2>1. CASE c = "TIDEN"
    <3>1. Calm(<<"n_dlist">>)
      BY <2>1 DEF Late, Headed, SimpleNames, StatNames, FuncNames, Common, Lex, TokenTypes, ValueNames, ExprNames, StatStart, Kinds, Brackets, Weight
    <3>2. Items(p) = <<"n_dlist">>
      BY <1>9, <2>1 DEF Items, TypeItems, FuncItems, More, Types, Opt
    <3> QED BY <1>1, <3>1, <3>2
  <2>2. CASE c # "TIDEN"
    <3>1. Calm(<<>>)
      BY <2>2 DEF Late, Headed, SimpleNames, StatNames, FuncNames, Common, Lex, TokenTypes, ValueNames, ExprNames, StatStart, Kinds, Brackets, Weight
    <3>2. Items(p) = <<>>
      BY <1>9, <2>2 DEF Items, TypeItems, FuncItems, More, Types, Opt
    <3> QED BY <1>1, <3>1, <3>2
  <2> QED BY <2>1, <2>2
<1>10. CASE p = "n_dlist"
  <2>1. Calm(<<"n_decl", "dlist">>)
    BY DEF Late, Headed, SimpleNames, StatNames, FuncNames, Common, Lex, TokenTypes, ValueNames, ExprNames, StatStart, Kinds, Brackets, Weight
  <2>2. Items(p) = <<"n_decl", "dlist">>
    BY <1>10 DEF Items, TypeItems, FuncItems, More, Types
  <2> QED BY <1>1, <2>1, <2>2
<1>11. CASE p = "n_decl"
  <2>1. Calm(<<"TIDEN", "TCOLN", "decltype">>)
    BY DEF Late, Headed, SimpleNames, StatNames, FuncNames, Common, Lex, TokenTypes, ValueNames, ExprNames, StatStart, Kinds, Brackets, Weight
  <2>2. Items(p) = <<"TIDEN", "TCOLN", "decltype">>
    BY <1>11 DEF Items, TypeItems, FuncItems, More, Types
  <2> QED BY <1>1, <2>1, <2>2
<1>12. CASE p = "decltype"
  <2>1. CASE c \in Types \cup {"TIDEN"}
    <3>1. Calm(<<"declare", c>>)
      BY <2>1 DEF Late, Headed, SimpleNames, StatNames, FuncNames, Common, Lex, TokenTypes, ValueNames, ExprNames, StatStart, Kinds, Brackets, Weight, Types
    <3>2. Items(p) = <<"declare", c>>
      BY <1>12, <2>1 DEF Items, TypeItems, FuncItems, More, Types
    <3> QED BY <1>1, <3>1, <3>2
  <2>2. CASE c \notin Types \cup {"TIDEN"}
    <3>1. Calm(<<"abort">>)
      BY <2>2 DEF Late, Headed, SimpleNames, StatNames, FuncNames, Common, Lex, TokenTypes, ValueNames, ExprNames, StatStart, Kinds, Brackets, Weight, Types
    <3>2. Items(p) = <<"abort">>
      BY <1>12, <2>2 DEF Items, TypeItems, FuncItems, More, Types
    <3> QED BY <1>1, <3>1, <3>2
  <2> QED BY <2>1, <2>2
<1>13. CASE p = "n_sdecl"
  <2>1. Calm(<<"TIDEN", "TCOLN", "sdecltype">>)
    BY DEF Late, Headed, SimpleNames, StatNames, FuncNames, Common, Lex, TokenTypes, ValueNames, ExprNames, StatStart, Kinds, Brackets, Weight
  <2>2. Items(p) = <<"TIDEN", "TCOLN", "sdecltype">>
    BY <1>13 DEF Items, TypeItems, FuncItems, More, Types
  <2> QED BY <1>1, <2>1, <2>2
<1>14. CASE p = "sdecltype"
  <2>1. CASE c \in Types /\ scope # 0
    <3>1. Calm(<<"declare", c>>)
      BY <2>1 DEF Late, Headed, SimpleNames, StatNames, FuncNames, Common, Lex, TokenTypes, ValueNames, ExprNames, StatStart, Kinds, Brackets, Weight, Types
    <3>2. Items(p) = <<"declare", c>>
      BY <1>14, <2>1, PairOf DEF Items, TypeItems, FuncItems, More, Types, Opt
    <3> QED BY <1>1, <3>1, <3>2
  <2>2. CASE c \in Types /\ scope = 0
    <3>1. Calm(<<c>>)
      BY <2>2 DEF Late, Headed, SimpleNames, StatNames, FuncNames, Common, Lex, TokenTypes, ValueNames, ExprNames, StatStart, Kinds, Brackets, Weight, Types
    <3>2. Items(p) = <<c>>
      BY <1>14, <2>2 DEF Items, TypeItems, FuncItems, More, Types, Opt
    <3> QED BY <1>1, <3>1, <3>2
  <2>3. CASE c \notin Types
    <3>1. Calm(<<"error">>)
      BY <2>3 DEF Late, Headed, SimpleNames, StatNames, FuncNames, Common, Lex, TokenTypes, ValueNames, ExprNames, StatStart, Kinds, Brackets, Weight, Types
    <3>2. Items(p) = <<"error">>
      BY <1>14, <2>3 DEF Items, TypeItems, FuncItems, More, Types, Opt
    <3> QED BY <1>1, <3>1, <3>2
  <2> QED BY <2>1, <2>2, <2>3
<1>15. CASE p = "n_arrdecl"
  <2>1. Calm(<<"TIDEN", "TCOLN", "TIDEN", "declare">>)
    BY DEF Late, Headed, SimpleNames, StatNames, FuncNames, Common, Lex, TokenTypes, ValueNames, ExprNames, StatStart, Kinds, Brackets, Weight
  <2>2. Items(p) = <<"TIDEN", "TCOLN", "TIDEN", "declare">>
    BY <1>15 DEF Items, TypeItems, FuncItems, More, Types
  <2> QED BY <1>1, <2>1, <2>2
<1>16. CASE p = "n_mainbody"
  <2> DEFINE s == <<"scope", "TMAIN", "sync11", "n_slist", "sync12", "TBEGN",
                "n_stats", "TTEND", "TCD25", "TIDEN">>
             inside == [k \in Kinds |-> IF k = "end" THEN {6, 7} ELSE {}]
  <2>1. s \in Seq(Late)
    BY DEF Late, Headed, SimpleNames, StatNames, FuncNames, Common, Lex, TokenTypes, ValueNames, ExprNames, StatStart, Kinds, Brackets, Weight
  <2>2. \A k \in Kinds : \A i \in 1..Len(s) :
         (IF i \in inside[k] THEN 1 ELSE 0)
         = (IF i - 1 \in inside[k] THEN 1 ELSE 0) + Weight(k, s[i])
    BY DEF Weight, Kinds
  <2>3. \A k \in Kinds : 0 \notin inside[k] /\ Len(s) \notin inside[k]
    BY DEF Kinds
  <2>4. Even(s, Late, Kinds)
    <3> HIDE DEF s, inside
    <3> QED BY <2>1, <2>2, <2>3, EvenInside
  <2> DEFINE reach == <<0, 0, 11, 0, 12, 0, 0, 0, 0, 0>>
             late  == <<12, 12, 11, 12, 12, 12, 12, 12, 12, 12>>
  <2>5. \A i \in 1..10 : Reaches(s[i]) = reach[i]
    BY DEF Reaches
  <2>6. \A i \in 1..10 : Latest(s[i]) = late[i]
    BY DEF Latest
  <2>7. DOMAIN s = 1..10
    OBVIOUS
  <2>8. \A i, j \in 1..10 : i < j => reach[i] <= late[j]
    OBVIOUS
  <2>9. /\ \A i \in 1..10 : reach[i] <= Reaches(p)
        /\ \A i \in 1..10 : Latest(p) <= late[i] \/ (i > 1 /\ s[1] = "sync5")
    BY <1>16 DEF Reaches, Latest
  <2>10. \A i \in 1..10 : i > 1 => s[i] # "sync5"
    OBVIOUS
  <2>11. Fits(s, p)
    <3> HIDE DEF s, reach, late
    <3> QED BY <2>5, <2>6, <2>7, <2>8, <2>9, <2>10 DEF Fits
  <2>12. Items(p) = s
    BY <1>16 DEF Items, TypeItems, FuncItems, More, Types
  <2> QED BY <2>4, <2>11, <2>12
<1>17. CASE p = "n_slist"
  <2>1. Calm(<<"n_sdecl", "slist">>)
    BY DEF Late, Headed, SimpleNames, StatNames, FuncNames, Common, Lex, TokenTypes, ValueNames, ExprNames, StatStart, Kinds, Brackets, Weight
  <2>2. Items(p) = <<"n_sdecl", "slist">>
    BY <1>17 DEF Items, TypeItems, FuncItems, More, Types
  <2> QED BY <1>1, <2>1, <2>2
<1>18. CASE p = "slist"
  <2>1. CASE c = "TCOMA"
    <3>1. Calm(<<"TCOMA", "n_slist">>)
      BY <2>1 DEF Late, Headed, SimpleNames, StatNames, FuncNames, Common, Lex, TokenTypes, ValueNames, ExprNames, StatStart, Kinds, Brackets, Weight
    <3>2. Items(p) = <<"TCOMA", "n_slist">>
      BY <1>18, <2>1 DEF Items, TypeItems, FuncItems, More, Types, Opt
    <3> QED BY <1>1, <3>1, <3>2
  <2>2. CASE c # "TCOMA"
    <3>1. Calm(<<>>)
      BY <2>2 DEF Late, Headed, SimpleNames, StatNames, FuncNames, Common, Lex, TokenTypes, ValueNames, ExprNames, StatStart, Kinds, Brackets, Weight
    <3>2. Items(p) = <<>>
      BY <1>18, <2>2 DEF Items, TypeItems, FuncItems, More, Types, Opt
    <3> QED BY <1>1, <3>1, <3>2
  <2> QED BY <2>1, <2>2
<1>19. CASE p = "params"
  <2>1. CASE c = "TCOMA"
    <3>1. Calm(<<"TCOMA", "n_params">>)
      BY <2>1 DEF Late, Headed, SimpleNames, StatNames, FuncNames, Common, Lex, TokenTypes, ValueNames, ExprNames, StatStart, Kinds, Brackets, Weight
    <3>2. Items(p) = <<"TCOMA", "n_params">>
      BY <1>19, <2>1 DEF Items, TypeItems, FuncItems, More, Types, Opt
    <3> QED BY <1>1, <3>1, <3>2
  <2>2. CASE c # "TCOMA"
    <3>1. Calm(<<>>)
      BY <2>2 DEF Late, Headed, SimpleNames, StatNames, FuncNames, Common, Lex, TokenTypes, ValueNames, ExprNames, StatStart, Kinds, Brackets, Weight
    <3>2. Items(p) = <<>>
      BY <1>19, <2>2 DEF Items, TypeItems, FuncItems, More, Types, Opt
    <3> QED BY <1>1, <3>1, <3>2
  <2> QED BY <2>1, <2>2
<1>20. CASE p = "dlist"
  <2>1. CASE c = "TCOMA"
    <3>1. Calm(<<"TCOMA", "n_dlist">>)
      BY <2>1 DEF Late, Headed, SimpleNames, StatNames, FuncNames, Common, Lex, TokenTypes, ValueNames, ExprNames, StatStart, Kinds, Brackets, Weight
    <3>2. Items(p) = <<"TCOMA", "n_dlist">>
      BY <1>20, <2>1 DEF Items, TypeItems, FuncItems, More, Types, Opt
    <3> QED BY <1>1, <3>1, <3>2
  <2>2. CASE c # "TCOMA"
    <3>1. Calm(<<>>)
      BY <2>2 DEF Late, Headed, SimpleNames, StatNames, FuncNames, Common, Lex, TokenTypes, ValueNames, ExprNames, StatStart, Kinds, Brackets, Weight
    <3>2. Items(p) = <<>>
      BY <1>20, <2>2 DEF Items, TypeItems, FuncItems, More, Types, Opt
    <3> QED BY <1>1, <3>1, <3>2
  <2> QED BY <2>1, <2>2
<1>21. CASE p = "asgnlist"
  <2>1. CASE c = "TCOMA"
    <3>1. Calm(<<"TCOMA", "n_asgnlist">>)
      BY <2>1 DEF Late, Headed, SimpleNames, StatNames, FuncNames, Common, Lex, TokenTypes, ValueNames, ExprNames, StatStart, Kinds, Brackets, Weight
    <3>2. Items(p) = <<"TCOMA", "n_asgnlist">>
      BY <1>21, <2>1 DEF Items, TypeItems, FuncItems, More, Types, Opt
    <3> QED BY <1>1, <3>1, <3>2
  <2>2. CASE c # "TCOMA"
    <3>1. Calm(<<>>)
      BY <2>2 DEF Late, Headed, SimpleNames, StatNames, FuncNames, Common, Lex, TokenTypes, ValueNames, ExprNames, StatStart, Kinds, Brackets, Weight
    <3>2. Items(p) = <<>>
      BY <1>21, <2>2 DEF Items, TypeItems, FuncItems, More, Types, Opt
    <3> QED BY <1>1, <3>1, <3>2
  <2> QED BY <2>1, <2>2
<1>22. CASE p = "elist"
  <2>1. CASE c = "TCOMA"
    <3>1. Calm(<<"TCOMA", "n_elist">>)
      BY <2>1 DEF Late, Headed, SimpleNames, StatNames, FuncNames, Common, Lex, TokenTypes, ValueNames, ExprNames, StatStart, Kinds, Brackets, Weight
    <3>2. Items(p) = <<"TCOMA", "n_elist">>
      BY <1>22, <2>1 DEF Items, TypeItems, FuncItems, More, Types, Opt
    <3> QED BY <1>1, <3>1, <3>2
  <2>2. CASE c # "TCOMA"
    <3>1. Calm(<<>>)
      BY <2>2 DEF Late, Headed, SimpleNames, StatNames, FuncNames, Common, Lex, TokenTypes, ValueNames, ExprNames, StatStart, Kinds, Brackets, Weight
    <3>2. Items(p) = <<>>
      BY <1>22, <2>2 DEF Items, TypeItems, FuncItems, More, Types, Opt
    <3> QED BY <1>1, <3>1, <3>2
  <2> QED BY <2>1, <2>2
<1>23. CASE p = "vlist"
  <2>1. CASE c = "TCOMA"
    <3>1. Calm(<<"TCOMA", "n_vlist">>)
      BY <2>1 DEF Late, Headed, SimpleNames, StatNames, FuncNames, Common, Lex, TokenTypes, ValueNames, ExprNames, StatStart, Kinds, Brackets, Weight
    <3>2. Items(p) = <<"TCOMA", "n_vlist">>
      BY <1>23, <2>1 DEF Items, TypeItems, FuncItems, More, Types, Opt
    <3> QED BY <1>1, <3>1, <3>2
  <2>2. CASE c # "TCOMA"
    <3>1. Calm(<<>>)
      BY <2>2 DEF Late, Headed, SimpleNames, StatNames, FuncNames, Common, Lex, TokenTypes, ValueNames, ExprNames, StatStart, Kinds, Brackets, Weight
    <3>2. Items(p) = <<>>
      BY <1>23, <2>2 DEF Items, TypeItems, FuncItems, More, Types, Opt
    <3> QED BY <1>1, <3>1, <3>2
  <2> QED BY <2>1, <2>2
<1>24. CASE p = "prlist"
  <2>1. CASE c = "TCOMA"
    <3>1. Calm(<<"TCOMA", "n_prlist">>)
      BY <2>1 DEF Late, Headed, SimpleNames, StatNames, FuncNames, Common, Lex, TokenTypes, ValueNames, ExprNames, StatStart, Kinds, Brackets, Weight
    <3>2. Items(p) = <<"TCOMA", "n_prlist">>
      BY <1>24, <2>1 DEF Items, TypeItems, FuncItems, More, Types, Opt
    <3> QED BY <1>1, <3>1, <3>2
  <2>2. CASE c # "TCOMA"
    <3>1. Calm(<<>>)
      BY <2>2 DEF Late, Headed, SimpleNames, StatNames, FuncNames, Common, Lex, TokenTypes, ValueNames, ExprNames, StatStart, Kinds, Brackets, Weight
    <3>2. Items(p) = <<>>
      BY <1>24, <2>2 DEF Items, TypeItems, FuncItems, More, Types, Opt
    <3> QED BY <1>1, <3>1, <3>2
  <2> QED BY <2>1, <2>2
<1> QED BY <1>2, <1>3, <1>4, <1>5, <1>6, <1>7, <1>8, <1>9, <1>10, <1>11, <1>12, <1>13, <1>14, <1>15, <1>16, <1>17, <1>18, <1>19, <1>20, <1>21, <1>22, <1>23, <1>24 DEF LateProds, FuncNames

(* So do the sections before them, but for the ends of types. *)
LEMMA EarlyStep ==
  ASSUME c \in Lex, n \in Lex, NEW p \in EarlyProds
  PROVE  Even(Items(p), Early, Brackets) /\ Fits(Items(p), p)
<1> DEFINE Calm(s) == /\ s \in Seq(Early \ Headed)
                      /\ \A k \in Brackets : \A i \in 1..Len(s) : Weight(k, s[i]) = 0
<1>1. \A s : Calm(s) => Even(s, Early, Brackets) /\ Fits(s, p)
  <2>1. ASSUME NEW s, Calm(s) PROVE Even(s, Early, Brackets) /\ Fits(s, p)
    <3>1. s \in Seq(Early)
      BY <2>1
    <3>2. Even(s, Early, Brackets)
      BY <2>1, <3>1, EvenFlat
    <3>3. (Early \ Headed) \cap Headed = {}
      OBVIOUS
    <3>4. Fits(s, p)
      BY <2>1, <3>3, CalmFits
    <3> QED BY <3>2, <3>4
  <2> QED BY <2>1
<1>2. CASE p \in ValueNames \cup ExprNames
  <2>1. Even(Items(p), Common, Kinds)
    <3>1. Items(p) = StatItems(p)
      BY <1>2, ItemsWithin DEF Inner
    <3>2. StatItems(p) = ExprItems(p)
      BY <1>2 DEF StatItems, SimpleItems, ValueNames, ExprNames
    <3> QED BY <1>2, <3>1, <3>2, ExprStep
  <2>2. Common \subseteq Early /\ Common \subseteq Body /\ Brackets \subseteq Kinds
    BY DEF Early, Body, Brackets, Kinds
  <2>3. Even(Items(p), Early, Brackets)
    BY <2>1, <2>2, EvenWiden
  <2>4. Items(p) \in Seq(Body)
    BY <2>1, <2>2, Widen DEF Even
  <2>5. Fits(Items(p), p)
    BY <2>4, BodyIsCalm, CalmFits
  <2> QED BY <2>3, <2>5
<1>3. CASE p = "n_sdecl"
  <2>1. Calm(<<"TIDEN", "TCOLN", "sdecltype">>)
    BY DEF Early, Headed, Common, Lex, TokenTypes, ValueNames, ExprNames, StatStart, Kinds, Brackets, Weight
  <2>2. Items(p) = <<"TIDEN", "TCOLN", "sdecltype">>
    BY <1>3 DEF Items, TypeItems, FuncItems, More, Types
  <2> QED BY <1>1, <2>1, <2>2
<1>4. CASE p = "sdecltype"
  <2>1. CASE c \in Types /\ scope # 0
    <3>1. Calm(<<"declare", c>>)
      BY <2>1 DEF Early, Headed, Common, Lex, TokenTypes, ValueNames, ExprNames, StatStart, Kinds, Brackets, Weight, Types
    <3>2. Items(p) = <<"declare", c>>
      BY <1>4, <2>1, PairOf DEF Items, TypeItems, FuncItems, More, Types, Opt
    <3> QED BY <1>1, <3>1, <3>2
  <2>2. CASE c \in Types /\ scope = 0
    <3>1. Calm(<<c>>)
      BY <2>2 DEF Early, Headed, Common, Lex, TokenTypes, ValueNames, ExprNames, StatStart, Kinds, Brackets, Weight, Types
    <3>2. Items(p) = <<c>>
      BY <1>4, <2>2 DEF Items, TypeItems, FuncItems, More, Types, Opt
    <3> QED BY <1>1, <3>1, <3>2
  <2>3. CASE c \notin Types
    <3>1. Calm(<<"error">>)
      BY <2>3 DEF Early, Headed, Common, Lex, TokenTypes, ValueNames, ExprNames, StatStart, Kinds, Brackets, Weight, Types
    <3>2. Items(p) = <<"error">>
      BY <1>4, <2>3 DEF Items, TypeItems, FuncItems, More, Types, Opt
    <3> QED BY <1>1, <3>1, <3>2
  <2> QED BY <2>1, <2>2, <2>3
<1>5. CASE p = "n_arrdecl"
  <2>1. Calm(<<"TIDEN", "TCOLN", "TIDEN", "declare">>)
    BY DEF Early, Headed, Common, Lex, TokenTypes, ValueNames, ExprNames, StatStart, Kinds, Brackets, Weight
  <2>2. Items(p) = <<"TIDEN", "TCOLN", "TIDEN", "declare">>
    BY <1>5 DEF Items, TypeItems, FuncItems, More, Types
  <2> QED BY <1>1, <2>1, <2>2
<1>6. CASE p = "elist"
  <2>1. CASE c = "TCOMA"
    <3>1. Calm(<<"TCOMA", "n_elist">>)
      BY <2>1 DEF Early, Headed, Common, Lex, TokenTypes, ValueNames, ExprNames, StatStart, Kinds, Brackets, Weight
    <3>2. Items(p) = <<"TCOMA", "n_elist">>
      BY <1>6, <2>1 DEF Items, TypeItems, FuncItems, More, Types, Opt
    <3> QED BY <1>1, <3>1, <3>2
  <2>2. CASE c # "TCOMA"
    <3>1. Calm(<<>>)
      BY <2>2 DEF Early, Headed, Common, Lex, TokenTypes, ValueNames, ExprNames, StatStart, Kinds, Brackets, Weight
    <3>2. Items(p) = <<>>
      BY <1>6, <2>2 DEF Items, TypeItems, FuncItems, More, Types, Opt
    <3> QED BY <1>1, <3>1, <3>2
  <2> QED BY <2>1, <2>2
<1>7. CASE p = "vlist"
  <2>1. CASE c = "TCOMA"
    <3>1. Calm(<<"TCOMA", "n_vlist">>)
      BY <2>1 DEF Early, Headed, Common, Lex, TokenTypes, ValueNames, ExprNames, StatStart, Kinds, Brackets, Weight
    <3>2. Items(p) = <<"TCOMA", "n_vlist">>
      BY <1>7, <2>1 DEF Items, TypeItems, FuncItems, More, Types, Opt
    <3> QED BY <1>1, <3>1, <3>2
  <2>2. CASE c # "TCOMA"
    <3>1. Calm(<<>>)
      BY <2>2 DEF Early, Headed, Common, Lex, TokenTypes, ValueNames, ExprNames, StatStart, Kinds, Brackets, Weight
    <3>2. Items(p) = <<>>
      BY <1>7, <2>2 DEF Items, TypeItems, FuncItems, More, Types, Opt
    <3> QED BY <1>1, <3>1, <3>2
  <2> QED BY <2>1, <2>2
<1>8. CASE p = "prlist"
  <2>1. CASE c = "TCOMA"
    <3>1. Calm(<<"TCOMA", "n_prlist">>)
      BY <2>1 DEF Early, Headed, Common, Lex, TokenTypes, ValueNames, ExprNames, StatStart, Kinds, Brackets, Weight
    <3>2. Items(p) = <<"TCOMA", "n_prlist">>
      BY <1>8, <2>1 DEF Items, TypeItems, FuncItems, More, Types, Opt
    <3> QED BY <1>1, <3>1, <3>2
  <2>2. CASE c # "TCOMA"
    <3>1. Calm(<<>>)
      BY <2>2 DEF Early, Headed, Common, Lex, TokenTypes, ValueNames, ExprNames, StatStart, Kinds, Brackets, Weight
    <3>2. Items(p) = <<>>
      BY <1>8, <2>2 DEF Items, TypeItems, FuncItems, More, Types, Opt
    <3> QED BY <1>1, <3>1, <3>2
  <2> QED BY <2>1, <2>2
<1>9. CASE p = "globals"
  <2>1. CASE c \in {"TCONS", "TTYPS", "TARRS"}
    <3>1. <<"n_globals">> \in Seq(Early)
      BY <2>1 DEF Early, Headed, Common, Lex, TokenTypes, ValueNames, ExprNames, StatStart, Kinds, Brackets, Weight
    <3>2. \A k \in Brackets : \A i \in 1..Len(<<"n_globals">>) : Weight(k, <<"n_globals">>[i]) = 0
      BY <2>1 DEF Early, Headed, Common, Lex, TokenTypes, ValueNames, ExprNames, StatStart, Kinds, Brackets, Weight
    <3>3. Even(<<"n_globals">>, Early, Brackets)
      BY <3>1, <3>2, EvenFlat
    <3>4. Fits(<<"n_globals">>, p)
      BY <2>1, <1>9 DEF Fits, Latest, Reaches
    <3>5. Items(p) = <<"n_globals">>
      BY <1>9, <2>1 DEF Items, TypeItems, FuncItems, More, Types, Opt
    <3> QED BY <3>3, <3>4, <3>5
  <2>2. CASE c \notin {"TCONS", "TTYPS", "TARRS"}
    <3>1. <<>> \in Seq(Early)
      BY <2>2 DEF Early, Headed, Common, Lex, TokenTypes, ValueNames, ExprNames, StatStart, Kinds, Brackets, Weight
    <3>2. \A k \in Brackets : \A i \in 1..Len(<<>>) : Weight(k, <<>>[i]) = 0
      BY <2>2 DEF Early, Headed, Common, Lex, TokenTypes, ValueNames, ExprNames, StatStart, Kinds, Brackets, Weight
    <3>3. Even(<<>>, Early, Brackets)
      BY <3>1, <3>2, EvenFlat
    <3>4. Fits(<<>>, p)
      BY <2>2, <1>9 DEF Fits, Latest, Reaches
    <3>5. Items(p) = <<>>
      BY <1>9, <2>2 DEF Items, TypeItems, FuncItems, More, Types, Opt
    <3> QED BY <3>3, <3>4, <3>5
  <2> QED BY <2>1, <2>2
<1>10. CASE p = "n_globals"
  <2>1. <<"sync1", "consts", "types", "arrays">> \in Seq(Early)
    BY DEF Early, Headed, Common, Lex, TokenTypes, ValueNames, ExprNames, StatStart, Kinds, Brackets, Weight
  <2>2. \A k \in Brackets : \A i \in 1..Len(<<"sync1", "consts", "types", "arrays">>) : Weight(k, <<"sync1", "consts", "types", "arrays">>[i]) = 0
    BY DEF Early, Headed, Common, Lex, TokenTypes, ValueNames, ExprNames, StatStart, Kinds, Brackets, Weight
  <2>3. Even(<<"sync1", "consts", "types", "arrays">>, Early, Brackets)
    BY <2>1, <2>2, EvenFlat
  <2>4. Fits(<<"sync1", "consts", "types", "arrays">>, p)
    BY <1>10 DEF Fits, Latest, Reaches
  <2>5. Items(p) = <<"sync1", "consts", "types", "arrays">>
    BY <1>10 DEF Items, TypeItems, FuncItems, More, Types, Opt
  <2> QED BY <2>3, <2>4, <2>5
<1>11. CASE p = "consts"
  <2>1. CASE c = "TCONS"
    <3>1. Calm(<<"TCONS", "n_initlist">>)
      BY <2>1 DEF Early, Headed, Common, Lex, TokenTypes, ValueNames, ExprNames, StatStart, Kinds, Brackets, Weight
    <3>2. Items(p) = <<"TCONS", "n_initlist">>
      BY <1>11, <2>1 DEF Items, TypeItems, FuncItems, More, Types, Opt
    <3> QED BY <1>1, <3>1, <3>2
  <2>2. CASE c # "TCONS"
    <3>1. Calm(<<>>)
      BY <2>2 DEF Early, Headed, Common, Lex, TokenTypes, ValueNames, ExprNames, StatStart, Kinds, Brackets, Weight
    <3>2. Items(p) = <<>>
      BY <1>11, <2>2 DEF Items, TypeItems, FuncItems, More, Types, Opt
    <3> QED BY <1>1, <3>1, <3>2
  <2> QED BY <2>1, <2>2
<1>12. CASE p = "types"
  <2>1. CASE c = "TTYPS"
    <3>1. <<"TTYPS", "n_typelist">> \in Seq(Early)
      BY <2>1 DEF Early, Headed, Common, Lex, TokenTypes, ValueNames, ExprNames, StatStart, Kinds, Brackets, Weight
    <3>2. \A k \in Brackets : \A i \in 1..Len(<<"TTYPS", "n_typelist">>) : Weight(k, <<"TTYPS", "n_typelist">>[i]) = 0
      BY <2>1 DEF Early, Headed, Common, Lex, TokenTypes, ValueNames, ExprNames, StatStart, Kinds, Brackets, Weight
    <3>3. Even(<<"TTYPS", "n_typelist">>, Early, Brackets)
      BY <3>1, <3>2, EvenFlat
    <3>4. Fits(<<"TTYPS", "n_typelist">>, p)
      BY <2>1, <1>12 DEF Fits, Latest, Reaches
    <3>5. Items(p) = <<"TTYPS", "n_typelist">>
      BY <1>12, <2>1 DEF Items, TypeItems, FuncItems, More, Types, Opt
    <3> QED BY <3>3, <3>4, <3>5
  <2>2. CASE c # "TTYPS"
    <3>1. <<>> \in Seq(Early)
      BY <2>2 DEF Early, Headed, Common, Lex, TokenTypes, ValueNames, ExprNames, StatStart, Kinds, Brackets, Weight
    <3>2. \A k \in Brackets : \A i \in 1..Len(<<>>) : Weight(k, <<>>[i]) = 0
      BY <2>2 DEF Early, Headed, Common, Lex, TokenTypes, ValueNames, ExprNames, StatStart, Kinds, Brackets, Weight
    <3>3. Even(<<>>, Early, Brackets)
      BY <3>1, <3>2, EvenFlat
    <3>4. Fits(<<>>, p)
      BY <2>2, <1>12 DEF Fits, Latest, Reaches
    <3>5. Items(p) = <<>>
      BY <1>12, <2>2 DEF Items, TypeItems, FuncItems, More, Types, Opt
    <3> QED BY <3>3, <3>4, <3>5
  <2> QED BY <2>1, <2>2
<1>13. CASE p = "arrays"
  <2>1. CASE c = "TARRS"
    <3>1. <<"TARRS", "n_arrdecls">> \in Seq(Early)
      BY <2>1 DEF Early, Headed, Common, Lex, TokenTypes, ValueNames, ExprNames, StatStart, Kinds, Brackets, Weight
    <3>2. \A k \in Brackets : \A i \in 1..Len(<<"TARRS", "n_arrdecls">>) : Weight(k, <<"TARRS", "n_arrdecls">>[i]) = 0
      BY <2>1 DEF Early, Headed, Common, Lex, TokenTypes, ValueNames, ExprNames, StatStart, Kinds, Brackets, Weight
    <3>3. Even(<<"TARRS", "n_arrdecls">>, Early, Brackets)
      BY <3>1, <3>2, EvenFlat
    <3>4. Fits(<<"TARRS", "n_arrdecls">>, p)
      BY <2>1, <1>13 DEF Fits, Latest, Reaches
    <3>5. Items(p) = <<"TARRS", "n_arrdecls">>
      BY <1>13, <2>1 DEF Items, TypeItems, FuncItems, More, Types, Opt
    <3> QED BY <3>3, <3>4, <3>5
  <2>2. CASE c # "TARRS"
    <3>1. <<>> \in Seq(Early)
      BY <2>2 DEF Early, Headed, Common, Lex, TokenTypes, ValueNames, ExprNames, StatStart, Kinds, Brackets, Weight
    <3>2. \A k \in Brackets : \A i \in 1..Len(<<>>) : Weight(k, <<>>[i]) = 0
      BY <2>2 DEF Early, Headed, Common, Lex, TokenTypes, ValueNames, ExprNames, StatStart, Kinds, Brackets, Weight
    <3>3. Even(<<>>, Early, Brackets)
      BY <3>1, <3>2, EvenFlat
    <3>4. Fits(<<>>, p)
      BY <2>2, <1>13 DEF Fits, Latest, Reaches
    <3>5. Items(p) = <<>>
      BY <1>13, <2>2 DEF Items, TypeItems, FuncItems, More, Types, Opt
    <3> QED BY <3>3, <3>4, <3>5
  <2> QED BY <2>1, <2>2
<1>14. CASE p = "n_initlist"
  <2>1. Calm(<<"n_init", "initlist">>)
    BY DEF Early, Headed, Common, Lex, TokenTypes, ValueNames, ExprNames, StatStart, Kinds, Brackets, Weight
  <2>2. Items(p) = <<"n_init", "initlist">>
    BY <1>14 DEF Items, TypeItems, FuncItems, More, Types, Opt
  <2> QED BY <1>1, <2>1, <2>2
<1>15. CASE p = "n_init"
  <2>1. Calm(<<"TIDEN", "TTTIS", "n_expr">>)
    BY DEF Early, Headed, Common, Lex, TokenTypes, ValueNames, ExprNames, StatStart, Kinds, Brackets, Weight
  <2>2. Items(p) = <<"TIDEN", "TTTIS", "n_expr">>
    BY <1>15 DEF Items, TypeItems, FuncItems, More, Types, Opt
  <2> QED BY <1>1, <2>1, <2>2
<1>16. CASE p = "n_typelist"
  <2>1. <<"sync2", "n_type", "typelist">> \in Seq(Early)
    BY DEF Early, Headed, Common, Lex, TokenTypes, ValueNames, ExprNames, StatStart, Kinds, Brackets, Weight
  <2>2. \A k \in Brackets : \A i \in 1..Len(<<"sync2", "n_type", "typelist">>) : Weight(k, <<"sync2", "n_type", "typelist">>[i]) = 0
    BY DEF Early, Headed, Common, Lex, TokenTypes, ValueNames, ExprNames, StatStart, Kinds, Brackets, Weight
  <2>3. Even(<<"sync2", "n_type", "typelist">>, Early, Brackets)
    BY <2>1, <2>2, EvenFlat
  <2>4. Fits(<<"sync2", "n_type", "typelist">>, p)
    BY <1>16 DEF Fits, Latest, Reaches
  <2>5. Items(p) = <<"sync2", "n_type", "typelist">>
    BY <1>16 DEF Items, TypeItems, FuncItems, More, Types, Opt
  <2> QED BY <2>3, <2>4, <2>5
<1>17. CASE p = "typelist"
  <2>1. CASE c = "TIDEN"
    <3>1. <<"n_typelist">> \in Seq(Early)
      BY <2>1 DEF Early, Headed, Common, Lex, TokenTypes, ValueNames, ExprNames, StatStart, Kinds, Brackets, Weight
    <3>2. \A k \in Brackets : \A i \in 1..Len(<<"n_typelist">>) : Weight(k, <<"n_typelist">>[i]) = 0
      BY <2>1 DEF Early, Headed, Common, Lex, TokenTypes, ValueNames, ExprNames, StatStart, Kinds, Brackets, Weight
    <3>3. Even(<<"n_typelist">>, Early, Brackets)
      BY <3>1, <3>2, EvenFlat
    <3>4. Fits(<<"n_typelist">>, p)
      BY <2>1, <1>17 DEF Fits, Latest, Reaches
    <3>5. Items(p) = <<"n_typelist">>
      BY <1>17, <2>1 DEF Items, TypeItems, FuncItems, More, Types, Opt
    <3> QED BY <3>3, <3>4, <3>5
  <2>2. CASE c # "TIDEN"
    <3>1. <<>> \in Seq(Early)
      BY <2>2 DEF Early, Headed, Common, Lex, TokenTypes, ValueNames, ExprNames, StatStart, Kinds, Brackets, Weight
    <3>2. \A k \in Brackets : \A i \in 1..Len(<<>>) : Weight(k, <<>>[i]) = 0
      BY <2>2 DEF Early, Headed, Common, Lex, TokenTypes, ValueNames, ExprNames, StatStart, Kinds, Brackets, Weight
    <3>3. Even(<<>>, Early, Brackets)
      BY <3>1, <3>2, EvenFlat
    <3>4. Fits(<<>>, p)
      BY <2>2, <1>17 DEF Fits, Latest, Reaches
    <3>5. Items(p) = <<>>
      BY <1>17, <2>2 DEF Items, TypeItems, FuncItems, More, Types, Opt
    <3> QED BY <3>3, <3>4, <3>5
  <2> QED BY <2>1, <2>2
<1>18. CASE p = "n_type"
  <2>1. Calm(<<"TIDEN", "TTTIS", "typebody">>)
    BY DEF Early, Headed, Common, Lex, TokenTypes, ValueNames, ExprNames, StatStart, Kinds, Brackets, Weight
  <2>2. Items(p) = <<"TIDEN", "TTTIS", "typebody">>
    BY <1>18 DEF Items, TypeItems, FuncItems, More, Types, Opt
  <2> QED BY <1>1, <2>1, <2>2
<1>19. CASE p = "typebody"
  <2>1. CASE c = "TIDEN"
    <3>1. Calm(<<"n_fields", "declare", "TTEND">>)
      BY DEF Early, Headed, Common, Lex, TokenTypes, ValueNames, ExprNames, StatStart, Kinds, Brackets, Weight
    <3>2. Items(p) = <<"n_fields", "declare", "TTEND">>
      BY <1>19, <2>1 DEF Items, TypeItems, FuncItems, More, Types
    <3> QED BY <1>1, <3>1, <3>2
  <2>2. CASE c = "TARAY"
    <3> DEFINE s == <<"TARAY", "TLBRK", "n_expr", "TRBRK", "TTTOF",
                  "declare", "TIDEN", "TTEND">>
               inside == [k \in Brackets |-> IF k = "brkt" THEN {2, 3} ELSE {}]
    <3>1. s \in Seq(Early)
      BY DEF Early, Headed, Common, Lex, TokenTypes, ValueNames, ExprNames, StatStart, Kinds, Brackets, Weight
    <3>2. \A k \in Brackets : \A i \in 1..Len(s) :
           (IF i \in inside[k] THEN 1 ELSE 0)
           = (IF i - 1 \in inside[k] THEN 1 ELSE 0) + Weight(k, s[i])
      BY DEF Weight, Brackets
    <3>3. \A k \in Brackets : 0 \notin inside[k] /\ Len(s) \notin inside[k]
      BY DEF Brackets
    <3>4. Even(s, Early, Brackets)
      <4> HIDE DEF s, inside
      <4> QED BY <3>1, <3>2, <3>3, EvenInside
    <3>5. s \in Seq(Early \ Headed)
      BY DEF Early, Headed, Common, Lex, TokenTypes, ValueNames, ExprNames, StatStart, Kinds, Brackets, Weight
    <3>6. (Early \ Headed) \cap Headed = {}
      OBVIOUS
    <3>7. Fits(s, p)
      <4> HIDE DEF s
      <4> QED BY <3>5, <3>6, CalmFits
    <3>8. Items(p) = s
      BY <1>19, <2>2 DEF Items, TypeItems, FuncItems, More, Types
    <3> QED BY <3>4, <3>7, <3>8
  <2>3. CASE c \notin {"TIDEN", "TARAY"}
    <3>1. Calm(<<>>)
      OBVIOUS
    <3>2. Items(p) = <<>>
      BY <1>19, <2>3 DEF Items, TypeItems, FuncItems, More, Types
    <3> QED BY <1>1, <3>1, <3>2
  <2> QED BY <2>1, <2>2, <2>3
<1>20. CASE p = "n_fields"
  <2>1. Calm(<<"n_sdecl", "fields">>)
    BY DEF Early, Headed, Common, Lex, TokenTypes, ValueNames, ExprNames, StatStart, Kinds, Brackets, Weight
  <2>2. Items(p) = <<"n_sdecl", "fields">>
    BY <1>20 DEF Items, TypeItems, FuncItems, More, Types, Opt
  <2> QED BY <1>1, <2>1, <2>2
<1>21. CASE p = "n_arrdecls"
  <2>1. <<"sync3", "n_arrdecl", "arrdecls">> \in Seq(Early)
    BY DEF Early, Headed, Common, Lex, TokenTypes, ValueNames, ExprNames, StatStart, Kinds, Brackets, Weight
  <2>2. \A k \in Brackets : \A i \in 1..Len(<<"sync3", "n_arrdecl", "arrdecls">>) : Weight(k, <<"sync3", "n_arrdecl", "arrdecls">>[i]) = 0
    BY DEF Early, Headed, Common, Lex, TokenTypes, ValueNames, ExprNames, StatStart, Kinds, Brackets, Weight
  <2>3. Even(<<"sync3", "n_arrdecl", "arrdecls">>, Early, Brackets)
    BY <2>1, <2>2, EvenFlat
  <2>4. Fits(<<"sync3", "n_arrdecl", "arrdecls">>, p)
    BY <1>21 DEF Fits, Latest, Reaches
  <2>5. Items(p) = <<"sync3", "n_arrdecl", "arrdecls">>
    BY <1>21 DEF Items, TypeItems, FuncItems, More, Types, Opt
  <2> QED BY <2>3, <2>4, <2>5
<1>22. CASE p = "initlist"
  <2>1. CASE c = "TCOMA"
    <3>1. Calm(<<"TCOMA", "n_initlist">>)
      BY <2>1 DEF Early, Headed, Common, Lex, TokenTypes, ValueNames, ExprNames, StatStart, Kinds, Brackets, Weight
    <3>2. Items(p) = <<"TCOMA", "n_initlist">>
      BY <1>22, <2>1 DEF Items, TypeItems, FuncItems, More, Types, Opt
    <3> QED BY <1>1, <3>1, <3>2
  <2>2. CASE c # "TCOMA"
    <3>1. Calm(<<>>)
      BY <2>2 DEF Early, Headed, Common, Lex, TokenTypes, ValueNames, ExprNames, StatStart, Kinds, Brackets, Weight
    <3>2. Items(p) = <<>>
      BY <1>22, <2>2 DEF Items, TypeItems, FuncItems, More, Types, Opt
    <3> QED BY <1>1, <3>1, <3>2
  <2> QED BY <2>1, <2>2
<1>23. CASE p = "fields"
  <2>1. CASE c = "TCOMA"
    <3>1. Calm(<<"TCOMA", "n_fields">>)
      BY <2>1 DEF Early, Headed, Common, Lex, TokenTypes, ValueNames, ExprNames, StatStart, Kinds, Brackets, Weight
    <3>2. Items(p) = <<"TCOMA", "n_fields">>
      BY <1>23, <2>1 DEF Items, TypeItems, FuncItems, More, Types, Opt
    <3> QED BY <1>1, <3>1, <3>2
  <2>2. CASE c # "TCOMA"
    <3>1. Calm(<<>>)
      BY <2>2 DEF Early, Headed, Common, Lex, TokenTypes, ValueNames, ExprNames, StatStart, Kinds, Brackets, Weight
    <3>2. Items(p) = <<>>
      BY <1>23, <2>2 DEF Items, TypeItems, FuncItems, More, Types, Opt
    <3> QED BY <1>1, <3>1, <3>2
  <2> QED BY <2>1, <2>2
<1>24. CASE p = "arrdecls"
  <2>1. CASE c = "TCOMA"
    <3>1. <<"TCOMA", "n_arrdecls">> \in Seq(Early)
      BY <2>1 DEF Early, Headed, Common, Lex, TokenTypes, ValueNames, ExprNames, StatStart, Kinds, Brackets, Weight
    <3>2. \A k \in Brackets : \A i \in 1..Len(<<"TCOMA", "n_arrdecls">>) : Weight(k, <<"TCOMA", "n_arrdecls">>[i]) = 0
      BY <2>1 DEF Early, Headed, Common, Lex, TokenTypes, ValueNames, ExprNames, StatStart, Kinds, Brackets, Weight
    <3>3. Even(<<"TCOMA", "n_arrdecls">>, Early, Brackets)
      BY <3>1, <3>2, EvenFlat
    <3>4. Fits(<<"TCOMA", "n_arrdecls">>, p)
      BY <2>1, <1>24 DEF Fits, Latest, Reaches
    <3>5. Items(p) = <<"TCOMA", "n_arrdecls">>
      BY <1>24, <2>1 DEF Items, TypeItems, FuncItems, More, Types, Opt
    <3> QED BY <3>3, <3>4, <3>5
  <2>2. CASE c # "TCOMA"
    <3>1. <<>> \in Seq(Early)
      BY <2>2 DEF Early, Headed, Common, Lex, TokenTypes, ValueNames, ExprNames, StatStart, Kinds, Brackets, Weight
    <3>2. \A k \in Brackets : \A i \in 1..Len(<<>>) : Weight(k, <<>>[i]) = 0
      BY <2>2 DEF Early, Headed, Common, Lex, TokenTypes, ValueNames, ExprNames, StatStart, Kinds, Brackets, Weight
    <3>3. Even(<<>>, Early, Brackets)
      BY <3>1, <3>2, EvenFlat
    <3>4. Fits(<<>>, p)
      BY <2>2, <1>24 DEF Fits, Latest, Reaches
    <3>5. Items(p) = <<>>
      BY <1>24, <2>2 DEF Items, TypeItems, FuncItems, More, Types, Opt
    <3> QED BY <3>3, <3>4, <3>5
  <2> QED BY <2>1, <2>2
<1> QED BY <1>2, <1>3, <1>4, <1>5, <1>6, <1>7, <1>8, <1>9, <1>10, <1>11, <1>12, <1>13, <1>14, <1>15, <1>16, <1>17, <1>18, <1>19, <1>20, <1>21, <1>22, <1>23, <1>24 DEF EarlyProds

(***************************************************************************)
(* The recovery.                                                           *)
(***************************************************************************)
Points == {0, 1, 2, 3, 5, 6, 8, 9, 11, 12}

(* The marks of the sections, each the number it leads to. *)
LEMMA SyncsNamed ==
  /\ SyncNames = {"sync1", "sync2", "sync3", "sync5", "sync6", "sync8", "sync9",
                  "sync11", "sync12"}
  /\ \A x \in SyncNames : SyncPoint[x] = Reaches(x) /\ SyncPoint[x] \in Points
<1>1. SyncNames = {"sync1", "sync2", "sync3", "sync5", "sync6", "sync8", "sync9",
                   "sync11", "sync12"}
  BY DEF SyncNames, SyncPoint
<1>2. \A x \in SyncNames : SyncPoint[x] = Reaches(x) /\ SyncPoint[x] \in Points
  BY <1>1 DEF SyncPoint, Reaches, Points
<1> QED BY <1>1, <1>2

(* The tails of the lists. *)
LEMMA ListsNamed ==
  ListNames = {"initlist", "slist", "fields", "arrdecls", "params", "dlist",
               "asgnlist", "vlist", "elist", "prlist"}
  BY DEF ListNames, More

(* A turn of the recovery loop puts on the stack what may come in the section
   it is in. *)
LEMMA TurnStep ==
  ASSUME c \in Lex, progress \in Points
  PROVE  Turn \in Seq(Names) /\ Orderly(Turn, progress)
<1>1. CASE progress \in {0, 1}
  <2>1. CASE c = "TCNST"
    <3>1. <<"TCNST", "n_init">> \in Seq(Names)
      BY SyncsNamed DEF Names, Grammar, Lex, TokenTypes, StatStart, ValueNames, ExprNames, SimpleNames, StatNames, FuncNames, TypeNames, TopNames, RestNames
    <3>2. Orderly(<<"TCNST", "n_init">>, progress)
      BY <1>1 DEF Orderly, Latest, Reaches
    <3>3. Turn = <<"TCNST", "n_init">>
      BY <1>1, <2>1 DEF Turn, GlobalRecovery
    <3> QED BY <3>1, <3>2, <3>3
  <2>2. CASE c = "TCOMA"
    <3>1. <<"TCOMA", "n_init">> \in Seq(Names)
      BY SyncsNamed DEF Names, Grammar, Lex, TokenTypes, StatStart, ValueNames, ExprNames, SimpleNames, StatNames, FuncNames, TypeNames, TopNames, RestNames
    <3>2. Orderly(<<"TCOMA", "n_init">>, progress)
      BY <1>1 DEF Orderly, Latest, Reaches
    <3>3. Turn = <<"TCOMA", "n_init">>
      BY <1>1, <2>2 DEF Turn, GlobalRecovery
    <3> QED BY <3>1, <3>2, <3>3
  <2>3. CASE c = "TTYPS"
    <3>1. <<"sync2">> \in Seq(Names)
      BY SyncsNamed DEF Names, Grammar, Lex, TokenTypes, StatStart, ValueNames, ExprNames, SimpleNames, StatNames, FuncNames, TypeNames, TopNames, RestNames
    <3>2. Orderly(<<"sync2">>, progress)
      BY <1>1 DEF Orderly, Latest, Reaches
    <3>3. Turn = <<"sync2">>
      BY <1>1, <2>3 DEF Turn, GlobalRecovery
    <3> QED BY <3>1, <3>2, <3>3
  <2>4. CASE c = "TARRS"
    <3>1. <<"sync3">> \in Seq(Names)
      BY SyncsNamed DEF Names, Grammar, Lex, TokenTypes, StatStart, ValueNames, ExprNames, SimpleNames, StatNames, FuncNames, TypeNames, TopNames, RestNames
    <3>2. Orderly(<<"sync3">>, progress)
      BY <1>1 DEF Orderly, Latest, Reaches
    <3>3. Turn = <<"sync3">>
      BY <1>1, <2>4 DEF Turn, GlobalRecovery
    <3> QED BY <3>1, <3>2, <3>3
  <2>5. CASE c = "TFUNC"
    <3>1. <<"sync5">> \in Seq(Names)
      BY SyncsNamed DEF Names, Grammar, Lex, TokenTypes, StatStart, ValueNames, ExprNames, SimpleNames, StatNames, FuncNames, TypeNames, TopNames, RestNames
    <3>2. Orderly(<<"sync5">>, progress)
      BY <1>1 DEF Orderly, Latest, Reaches
    <3>3. Turn = <<"sync5">>
      BY <1>1, <2>5 DEF Turn, GlobalRecovery
    <3> QED BY <3>1, <3>2, <3>3
  <2>6. CASE c = "TMAIN"
    <3>1. <<"sync11">> \in Seq(Names)
      BY SyncsNamed DEF Names, Grammar, Lex, TokenTypes, StatStart, ValueNames, ExprNames, SimpleNames, StatNames, FuncNames, TypeNames, TopNames, RestNames
    <3>2. Orderly(<<"sync11">>, progress)
      BY <1>1 DEF Orderly, Latest, Reaches
    <3>3. Turn = <<"sync11">>
      BY <1>1, <2>6 DEF Turn, GlobalRecovery
    <3> QED BY <3>1, <3>2, <3>3
  <2>7. CASE c \notin {"TCNST", "TCOMA", "TTYPS", "TARRS", "TFUNC", "TMAIN"}
    <3>1. <<"skip">> \in Seq(Names)
      BY SyncsNamed DEF Names, Grammar, Lex, TokenTypes, StatStart, ValueNames, ExprNames, SimpleNames, StatNames, FuncNames, TypeNames, TopNames, RestNames
    <3>2. Orderly(<<"skip">>, progress)
      BY <1>1 DEF Orderly, Latest, Reaches
    <3>3. Turn = <<"skip">>
      BY <1>1, <2>7 DEF Turn, GlobalRecovery
    <3> QED BY <3>1, <3>2, <3>3
  <2> QED BY <2>1, <2>2, <2>3, <2>4, <2>5, <2>6, <2>7
<1>2. CASE progress = 2
  <2>1. CASE c = "TTYPS"
    <3>1. <<"TTYPS", "n_type">> \in Seq(Names)
      BY SyncsNamed DEF Names, Grammar, Lex, TokenTypes, StatStart, ValueNames, ExprNames, SimpleNames, StatNames, FuncNames, TypeNames, TopNames, RestNames
    <3>2. Orderly(<<"TTYPS", "n_type">>, progress)
      BY <1>2 DEF Orderly, Latest, Reaches
    <3>3. Turn = <<"TTYPS", "n_type">>
      BY <1>2, <2>1 DEF Turn, GlobalRecovery
    <3> QED BY <3>1, <3>2, <3>3
  <2>2. CASE c = "TIDEN"
    <3>1. <<"n_type">> \in Seq(Names)
      BY SyncsNamed DEF Names, Grammar, Lex, TokenTypes, StatStart, ValueNames, ExprNames, SimpleNames, StatNames, FuncNames, TypeNames, TopNames, RestNames
    <3>2. Orderly(<<"n_type">>, progress)
      BY <1>2 DEF Orderly, Latest, Reaches
    <3>3. Turn = <<"n_type">>
      BY <1>2, <2>2 DEF Turn, GlobalRecovery
    <3> QED BY <3>1, <3>2, <3>3
  <2>3. CASE c = "TARRS"
    <3>1. <<"sync3">> \in Seq(Names)
      BY SyncsNamed DEF Names, Grammar, Lex, TokenTypes, StatStart, ValueNames, ExprNames, SimpleNames, StatNames, FuncNames, TypeNames, TopNames, RestNames
    <3>2. Orderly(<<"sync3">>, progress)
      BY <1>2 DEF Orderly, Latest, Reaches
    <3>3. Turn = <<"sync3">>
      BY <1>2, <2>3 DEF Turn, GlobalRecovery
    <3> QED BY <3>1, <3>2, <3>3
  <2>4. CASE c = "TFUNC"
    <3>1. <<"sync5">> \in Seq(Names)
      BY SyncsNamed DEF Names, Grammar, Lex, TokenTypes, StatStart, ValueNames, ExprNames, SimpleNames, StatNames, FuncNames, TypeNames, TopNames, RestNames
    <3>2. Orderly(<<"sync5">>, progress)
      BY <1>2 DEF Orderly, Latest, Reaches
    <3>3. Turn = <<"sync5">>
      BY <1>2, <2>4 DEF Turn, GlobalRecovery
    <3> QED BY <3>1, <3>2, <3>3
  <2>5. CASE c = "TMAIN"
    <3>1. <<"sync11">> \in Seq(Names)
      BY SyncsNamed DEF Names, Grammar, Lex, TokenTypes, StatStart, ValueNames, ExprNames, SimpleNames, StatNames, FuncNames, TypeNames, TopNames, RestNames
    <3>2. Orderly(<<"sync11">>, progress)
      BY <1>2 DEF Orderly, Latest, Reaches
    <3>3. Turn = <<"sync11">>
      BY <1>2, <2>5 DEF Turn, GlobalRecovery
    <3> QED BY <3>1, <3>2, <3>3
  <2>6. CASE c \notin {"TTYPS", "TIDEN", "TARRS", "TFUNC", "TMAIN"}
    <3>1. <<"skip">> \in Seq(Names)
      BY SyncsNamed DEF Names, Grammar, Lex, TokenTypes, StatStart, ValueNames, ExprNames, SimpleNames, StatNames, FuncNames, TypeNames, TopNames, RestNames
    <3>2. Orderly(<<"skip">>, progress)
      BY <1>2 DEF Orderly, Latest, Reaches
    <3>3. Turn = <<"skip">>
      BY <1>2, <2>6 DEF Turn, GlobalRecovery
    <3> QED BY <3>1, <3>2, <3>3
  <2> QED BY <2>1, <2>2, <2>3, <2>4, <2>5, <2>6
<1>3. CASE progress = 3
  <2>1. CASE c = "TARRS"
    <3>1. <<"TARRS", "n_arrdecl">> \in Seq(Names)
      BY SyncsNamed DEF Names, Grammar, Lex, TokenTypes, StatStart, ValueNames, ExprNames, SimpleNames, StatNames, FuncNames, TypeNames, TopNames, RestNames
    <3>2. Orderly(<<"TARRS", "n_arrdecl">>, progress)
      BY <1>3 DEF Orderly, Latest, Reaches
    <3>3. Turn = <<"TARRS", "n_arrdecl">>
      BY <1>3, <2>1 DEF Turn, GlobalRecovery
    <3> QED BY <3>1, <3>2, <3>3
  <2>2. CASE c = "TCOMA"
    <3>1. <<"TCOMA", "n_arrdecl">> \in Seq(Names)
      BY SyncsNamed DEF Names, Grammar, Lex, TokenTypes, StatStart, ValueNames, ExprNames, SimpleNames, StatNames, FuncNames, TypeNames, TopNames, RestNames
    <3>2. Orderly(<<"TCOMA", "n_arrdecl">>, progress)
      BY <1>3 DEF Orderly, Latest, Reaches
    <3>3. Turn = <<"TCOMA", "n_arrdecl">>
      BY <1>3, <2>2 DEF Turn, GlobalRecovery
    <3> QED BY <3>1, <3>2, <3>3
  <2>3. CASE c = "TFUNC"
    <3>1. <<"sync5">> \in Seq(Names)
      BY SyncsNamed DEF Names, Grammar, Lex, TokenTypes, StatStart, ValueNames, ExprNames, SimpleNames, StatNames, FuncNames, TypeNames, TopNames, RestNames
    <3>2. Orderly(<<"sync5">>, progress)
      BY <1>3 DEF Orderly, Latest, Reaches
    <3>3. Turn = <<"sync5">>
      BY <1>3, <2>3 DEF Turn, GlobalRecovery
    <3> QED BY <3>1, <3>2, <3>3
  <2>4. CASE c = "TMAIN"
    <3>1. <<"sync11">> \in Seq(Names)
      BY SyncsNamed DEF Names, Grammar, Lex, TokenTypes, StatStart, ValueNames, ExprNames, SimpleNames, StatNames, FuncNames, TypeNames, TopNames, RestNames
    <3>2. Orderly(<<"sync11">>, progress)
      BY <1>3 DEF Orderly, Latest, Reaches
    <3>3. Turn = <<"sync11">>
      BY <1>3, <2>4 DEF Turn, GlobalRecovery
    <3> QED BY <3>1, <3>2, <3>3
  <2>5. CASE c \notin {"TARRS", "TCOMA", "TFUNC", "TMAIN"}
    <3>1. <<"skip">> \in Seq(Names)
      BY SyncsNamed DEF Names, Grammar, Lex, TokenTypes, StatStart, ValueNames, ExprNames, SimpleNames, StatNames, FuncNames, TypeNames, TopNames, RestNames
    <3>2. Orderly(<<"skip">>, progress)
      BY <1>3 DEF Orderly, Latest, Reaches
    <3>3. Turn = <<"skip">>
      BY <1>3, <2>5 DEF Turn, GlobalRecovery
    <3> QED BY <3>1, <3>2, <3>3
  <2> QED BY <2>1, <2>2, <2>3, <2>4, <2>5
<1>4. CASE progress = 5
  <2>1. CASE c = "TFUNC"
    <3>1. <<"TFUNC", "TIDEN", "TLPAR", "sync6">> \in Seq(Names)
      BY SyncsNamed DEF Names, Grammar, Lex, TokenTypes, StatStart, ValueNames, ExprNames, SimpleNames, StatNames, FuncNames, TypeNames, TopNames, RestNames
    <3>2. Orderly(<<"TFUNC", "TIDEN", "TLPAR", "sync6">>, progress)
      BY <1>4 DEF Orderly, Latest, Reaches
    <3>3. Turn = <<"TFUNC", "TIDEN", "TLPAR", "sync6">>
      BY <1>4, <2>1 DEF Turn, FuncRecovery
    <3> QED BY <3>1, <3>2, <3>3
  <2>2. CASE c = "TMAIN"
    <3>1. <<"sync11">> \in Seq(Names)
      BY SyncsNamed DEF Names, Grammar, Lex, TokenTypes, StatStart, ValueNames, ExprNames, SimpleNames, StatNames, FuncNames, TypeNames, TopNames, RestNames
    <3>2. Orderly(<<"sync11">>, progress)
      BY <1>4 DEF Orderly, Latest, Reaches
    <3>3. Turn = <<"sync11">>
      BY <1>4, <2>2 DEF Turn, FuncRecovery
    <3> QED BY <3>1, <3>2, <3>3
  <2>3. CASE c \notin {"TFUNC", "TMAIN"}
    <3>1. <<"skip">> \in Seq(Names)
      BY SyncsNamed DEF Names, Grammar, Lex, TokenTypes, StatStart, ValueNames, ExprNames, SimpleNames, StatNames, FuncNames, TypeNames, TopNames, RestNames
    <3>2. Orderly(<<"skip">>, progress)
      BY <1>4 DEF Orderly, Latest, Reaches
    <3>3. Turn = <<"skip">>
      BY <1>4, <2>3 DEF Turn, FuncRecovery
    <3> QED BY <3>1, <3>2, <3>3
  <2> QED BY <2>1, <2>2, <2>3
<1>5. CASE progress = 6
  <2>1. CASE c = "TIDEN"
    <3>1. <<"n_param", "comma">> \in Seq(Names)
      BY SyncsNamed DEF Names, Grammar, Lex, TokenTypes, StatStart, ValueNames, ExprNames, SimpleNames, StatNames, FuncNames, TypeNames, TopNames, RestNames
    <3>2. Orderly(<<"n_param", "comma">>, progress)
      BY <1>5 DEF Orderly, Latest, Reaches
    <3>3. Turn = <<"n_param", "comma">>
      BY <1>5, <2>1 DEF Turn, FuncRecovery
    <3> QED BY <3>1, <3>2, <3>3
  <2>2. CASE c = "TRPAR"
    <3>1. <<"TRPAR", "TCOLN", "anytype", "sync8">> \in Seq(Names)
      BY SyncsNamed DEF Names, Grammar, Lex, TokenTypes, StatStart, ValueNames, ExprNames, SimpleNames, StatNames, FuncNames, TypeNames, TopNames, RestNames
    <3>2. Orderly(<<"TRPAR", "TCOLN", "anytype", "sync8">>, progress)
      BY <1>5 DEF Orderly, Latest, Reaches
    <3>3. Turn = <<"TRPAR", "TCOLN", "anytype", "sync8">>
      BY <1>5, <2>2 DEF Turn, FuncRecovery
    <3> QED BY <3>1, <3>2, <3>3
  <2>3. CASE c = "TFUNC"
    <3>1. <<"sync5">> \in Seq(Names)
      BY SyncsNamed DEF Names, Grammar, Lex, TokenTypes, StatStart, ValueNames, ExprNames, SimpleNames, StatNames, FuncNames, TypeNames, TopNames, RestNames
    <3>2. Orderly(<<"sync5">>, progress)
      BY <1>5 DEF Orderly, Latest, Reaches
    <3>3. Turn = <<"sync5">>
      BY <1>5, <2>3 DEF Turn, FuncRecovery
    <3> QED BY <3>1, <3>2, <3>3
  <2>4. CASE c = "TMAIN"
    <3>1. <<"sync11">> \in Seq(Names)
      BY SyncsNamed DEF Names, Grammar, Lex, TokenTypes, StatStart, ValueNames, ExprNames, SimpleNames, StatNames, FuncNames, TypeNames, TopNames, RestNames
    <3>2. Orderly(<<"sync11">>, progress)
      BY <1>5 DEF Orderly, Latest, Reaches
    <3>3. Turn = <<"sync11">>
      BY <1>5, <2>4 DEF Turn, FuncRecovery
    <3> QED BY <3>1, <3>2, <3>3
  <2>5. CASE c \notin {"TIDEN", "TRPAR", "TFUNC", "TMAIN"}
    <3>1. <<"skip">> \in Seq(Names)
      BY SyncsNamed DEF Names, Grammar, Lex, TokenTypes, StatStart, ValueNames, ExprNames, SimpleNames, StatNames, FuncNames, TypeNames, TopNames, RestNames
    <3>2. Orderly(<<"skip">>, progress)
      BY <1>5 DEF Orderly, Latest, Reaches
    <3>3. Turn = <<"skip">>
      BY <1>5, <2>5 DEF Turn, FuncRecovery
    <3> QED BY <3>1, <3>2, <3>3
  <2> QED BY <2>1, <2>2, <2>3, <2>4, <2>5
<1>6. CASE progress = 8
  <2>1. CASE c = "TIDEN"
    <3>1. <<"n_decl", "comma">> \in Seq(Names)
      BY SyncsNamed DEF Names, Grammar, Lex, TokenTypes, StatStart, ValueNames, ExprNames, SimpleNames, StatNames, FuncNames, TypeNames, TopNames, RestNames
    <3>2. Orderly(<<"n_decl", "comma">>, progress)
      BY <1>6 DEF Orderly, Latest, Reaches
    <3>3. Turn = <<"n_decl", "comma">>
      BY <1>6, <2>1 DEF Turn, FuncRecovery
    <3> QED BY <3>1, <3>2, <3>3
  <2>2. CASE c = "TBEGN"
    <3>1. <<"TBEGN", "sync9", "n_stat">> \in Seq(Names)
      BY SyncsNamed DEF Names, Grammar, Lex, TokenTypes, StatStart, ValueNames, ExprNames, SimpleNames, StatNames, FuncNames, TypeNames, TopNames, RestNames
    <3>2. Orderly(<<"TBEGN", "sync9", "n_stat">>, progress)
      BY <1>6 DEF Orderly, Latest, Reaches
    <3>3. Turn = <<"TBEGN", "sync9", "n_stat">>
      BY <1>6, <2>2 DEF Turn, FuncRecovery
    <3> QED BY <3>1, <3>2, <3>3
  <2>3. CASE c = "TFUNC"
    <3>1. <<"sync5">> \in Seq(Names)
      BY SyncsNamed DEF Names, Grammar, Lex, TokenTypes, StatStart, ValueNames, ExprNames, SimpleNames, StatNames, FuncNames, TypeNames, TopNames, RestNames
    <3>2. Orderly(<<"sync5">>, progress)
      BY <1>6 DEF Orderly, Latest, Reaches
    <3>3. Turn = <<"sync5">>
      BY <1>6, <2>3 DEF Turn, FuncRecovery
    <3> QED BY <3>1, <3>2, <3>3
  <2>4. CASE c = "TMAIN"
    <3>1. <<"sync11">> \in Seq(Names)
      BY SyncsNamed DEF Names, Grammar, Lex, TokenTypes, StatStart, ValueNames, ExprNames, SimpleNames, StatNames, FuncNames, TypeNames, TopNames, RestNames
    <3>2. Orderly(<<"sync11">>, progress)
      BY <1>6 DEF Orderly, Latest, Reaches
    <3>3. Turn = <<"sync11">>
      BY <1>6, <2>4 DEF Turn, FuncRecovery
    <3> QED BY <3>1, <3>2, <3>3
  <2>5. CASE c \notin {"TIDEN", "TBEGN", "TFUNC", "TMAIN"}
    <3>1. <<"skip">> \in Seq(Names)
      BY SyncsNamed DEF Names, Grammar, Lex, TokenTypes, StatStart, ValueNames, ExprNames, SimpleNames, StatNames, FuncNames, TypeNames, TopNames, RestNames
    <3>2. Orderly(<<"skip">>, progress)
      BY <1>6 DEF Orderly, Latest, Reaches
    <3>3. Turn = <<"skip">>
      BY <1>6, <2>5 DEF Turn, FuncRecovery
    <3> QED BY <3>1, <3>2, <3>3
  <2> QED BY <2>1, <2>2, <2>3, <2>4, <2>5
<1>7. CASE progress = 9
  <2>1. CASE c = "TSEMI"
    <3>1. <<"TSEMI", "unlessend">> \in Seq(Names)
      BY SyncsNamed DEF Names, Grammar, Lex, TokenTypes, StatStart, ValueNames, ExprNames, SimpleNames, StatNames, FuncNames, TypeNames, TopNames, RestNames
    <3>2. Orderly(<<"TSEMI", "unlessend">>, progress)
      BY <1>7 DEF Orderly, Latest, Reaches
    <3>3. Turn = <<"TSEMI", "unlessend">>
      BY <1>7, <2>1 DEF Turn, FuncRecovery
    <3> QED BY <3>1, <3>2, <3>3
  <2>2. CASE c = "TTEND"
    <3>1. <<"TTEND", "afterend">> \in Seq(Names)
      BY SyncsNamed DEF Names, Grammar, Lex, TokenTypes, StatStart, ValueNames, ExprNames, SimpleNames, StatNames, FuncNames, TypeNames, TopNames, RestNames
    <3>2. Orderly(<<"TTEND", "afterend">>, progress)
      BY <1>7 DEF Orderly, Latest, Reaches
    <3>3. Turn = <<"TTEND", "afterend">>
      BY <1>7, <2>2 DEF Turn, FuncRecovery
    <3> QED BY <3>1, <3>2, <3>3
  <2>3. CASE c = "TMAIN"
    <3>1. <<"sync11">> \in Seq(Names)
      BY SyncsNamed DEF Names, Grammar, Lex, TokenTypes, StatStart, ValueNames, ExprNames, SimpleNames, StatNames, FuncNames, TypeNames, TopNames, RestNames
    <3>2. Orderly(<<"sync11">>, progress)
      BY <1>7 DEF Orderly, Latest, Reaches
    <3>3. Turn = <<"sync11">>
      BY <1>7, <2>3 DEF Turn, FuncRecovery
    <3> QED BY <3>1, <3>2, <3>3
  <2>4. CASE c \notin {"TSEMI", "TTEND", "TMAIN"}
    <3>1. <<"skip">> \in Seq(Names)
      BY SyncsNamed DEF Names, Grammar, Lex, TokenTypes, StatStart, ValueNames, ExprNames, SimpleNames, StatNames, FuncNames, TypeNames, TopNames, RestNames
    <3>2. Orderly(<<"skip">>, progress)
      BY <1>7 DEF Orderly, Latest, Reaches
    <3>3. Turn = <<"skip">>
      BY <1>7, <2>4 DEF Turn, FuncRecovery
    <3> QED BY <3>1, <3>2, <3>3
  <2> QED BY <2>1, <2>2, <2>3, <2>4
<1>8. CASE progress = 11
  <2>1. CASE c = "TMAIN"
    <3>1. <<"TMAIN", "n_sdecl">> \in Seq(Names)
      BY SyncsNamed DEF Names, Grammar, Lex, TokenTypes, StatStart, ValueNames, ExprNames, SimpleNames, StatNames, FuncNames, TypeNames, TopNames, RestNames
    <3>2. Orderly(<<"TMAIN", "n_sdecl">>, progress)
      BY <1>8 DEF Orderly, Latest, Reaches
    <3>3. Turn = <<"TMAIN", "n_sdecl">>
      BY <1>8, <2>1 DEF Turn, MainRecovery
    <3> QED BY <3>1, <3>2, <3>3
  <2>2. CASE c = "TCOMA"
    <3>1. <<"TCOMA", "n_sdecl">> \in Seq(Names)
      BY SyncsNamed DEF Names, Grammar, Lex, TokenTypes, StatStart, ValueNames, ExprNames, SimpleNames, StatNames, FuncNames, TypeNames, TopNames, RestNames
    <3>2. Orderly(<<"TCOMA", "n_sdecl">>, progress)
      BY <1>8 DEF Orderly, Latest, Reaches
    <3>3. Turn = <<"TCOMA", "n_sdecl">>
      BY <1>8, <2>2 DEF Turn, MainRecovery
    <3> QED BY <3>1, <3>2, <3>3
  <2>3. CASE c = "TBEGN"
    <3>1. <<"sync12", "TBEGN", "n_stat">> \in Seq(Names)
      BY SyncsNamed DEF Names, Grammar, Lex, TokenTypes, StatStart, ValueNames, ExprNames, SimpleNames, StatNames, FuncNames, TypeNames, TopNames, RestNames
    <3>2. Orderly(<<"sync12", "TBEGN", "n_stat">>, progress)
      BY <1>8 DEF Orderly, Latest, Reaches
    <3>3. Turn = <<"sync12", "TBEGN", "n_stat">>
      BY <1>8, <2>3 DEF Turn, MainRecovery
    <3> QED BY <3>1, <3>2, <3>3
  <2>4. CASE c \notin {"TMAIN", "TCOMA", "TBEGN"}
    <3>1. <<"skip">> \in Seq(Names)
      BY SyncsNamed DEF Names, Grammar, Lex, TokenTypes, StatStart, ValueNames, ExprNames, SimpleNames, StatNames, FuncNames, TypeNames, TopNames, RestNames
    <3>2. Orderly(<<"skip">>, progress)
      BY <1>8 DEF Orderly, Latest, Reaches
    <3>3. Turn = <<"skip">>
      BY <1>8, <2>4 DEF Turn, MainRecovery
    <3> QED BY <3>1, <3>2, <3>3
  <2> QED BY <2>1, <2>2, <2>3, <2>4
<1>9. CASE progress = 12
  <2>1. CASE c = "TSEMI"
    <3>1. <<"TSEMI", "laststat">> \in Seq(Names)
      BY SyncsNamed DEF Names, Grammar, Lex, TokenTypes, StatStart, ValueNames, ExprNames, SimpleNames, StatNames, FuncNames, TypeNames, TopNames, RestNames
    <3>2. Orderly(<<"TSEMI", "laststat">>, progress)
      BY <1>9 DEF Orderly, Latest, Reaches
    <3>3. Turn = <<"TSEMI", "laststat">>
      BY <1>9, <2>1 DEF Turn, MainRecovery
    <3> QED BY <3>1, <3>2, <3>3
  <2>2. CASE c = "TTEND"
    <3>1. <<"TTEND", "lastend">> \in Seq(Names)
      BY SyncsNamed DEF Names, Grammar, Lex, TokenTypes, StatStart, ValueNames, ExprNames, SimpleNames, StatNames, FuncNames, TypeNames, TopNames, RestNames
    <3>2. Orderly(<<"TTEND", "lastend">>, progress)
      BY <1>9 DEF Orderly, Latest, Reaches
    <3>3. Turn = <<"TTEND", "lastend">>
      BY <1>9, <2>2 DEF Turn, MainRecovery
    <3> QED BY <3>1, <3>2, <3>3
  <2>3. CASE c \notin {"TSEMI", "TTEND"}
    <3>1. <<"skip">> \in Seq(Names)
      BY SyncsNamed DEF Names, Grammar, Lex, TokenTypes, StatStart, ValueNames, ExprNames, SimpleNames, StatNames, FuncNames, TypeNames, TopNames, RestNames
    <3>2. Orderly(<<"skip">>, progress)
      BY <1>9 DEF Orderly, Latest, Reaches
    <3>3. Turn = <<"skip">>
      BY <1>9, <2>3 DEF Turn, MainRecovery
    <3> QED BY <3>1, <3>2, <3>3
  <2> QED BY <2>1, <2>2, <2>3
<1> QED BY <1>1, <1>2, <1>3, <1>4, <1>5, <1>6, <1>7, <1>8, <1>9 DEF Points

(* So does the rest of a turn. *)
LEMMA RestStep ==
  ASSUME c \in Lex, n \in Lex, NEW p \in RestNames
  PROVE  RestOfTurn(p) \in Seq(Names) /\ Fits(RestOfTurn(p), p)
<1>1. CASE p = "comma"
  <2>1. CASE c = "TCOMA"
    <3>1. <<"TCOMA">> \in Seq(Names)
      BY SyncsNamed DEF Names, Grammar, Lex, TokenTypes, StatStart, ValueNames, ExprNames, SimpleNames, StatNames, FuncNames, TypeNames, TopNames, RestNames
    <3>2. Fits(<<"TCOMA">>, p)
      BY <1>1 DEF Fits, Latest, Reaches
    <3>3. RestOfTurn(p) = <<"TCOMA">>
      BY <1>1, <2>1 DEF RestOfTurn, Opt
    <3> QED BY <3>1, <3>2, <3>3
  <2>2. CASE c # "TCOMA"
    <3>1. <<>> \in Seq(Names)
      BY SyncsNamed DEF Names, Grammar, Lex, TokenTypes, StatStart, ValueNames, ExprNames, SimpleNames, StatNames, FuncNames, TypeNames, TopNames, RestNames
    <3>2. Fits(<<>>, p)
      BY <1>1 DEF Fits, Latest, Reaches
    <3>3. RestOfTurn(p) = <<>>
      BY <1>1, <2>2 DEF RestOfTurn, Opt
    <3> QED BY <3>1, <3>2, <3>3
  <2> QED BY <2>1, <2>2
<1>2. CASE p = "anytype"
  <2>1. CASE c \in Types \cup {"TVOID"}
    <3>1. <<"skip">> \in Seq(Names)
      BY SyncsNamed DEF Names, Grammar, Lex, TokenTypes, StatStart, ValueNames, ExprNames, SimpleNames, StatNames, FuncNames, TypeNames, TopNames, RestNames
    <3>2. Fits(<<"skip">>, p)
      BY <1>2 DEF Fits, Latest, Reaches
    <3>3. RestOfTurn(p) = <<"skip">>
      BY <1>2, <2>1 DEF RestOfTurn, Opt
    <3> QED BY <3>1, <3>2, <3>3
  <2>2. CASE c \notin Types \cup {"TVOID"}
    <3>1. <<"report", "skip">> \in Seq(Names)
      BY SyncsNamed DEF Names, Grammar, Lex, TokenTypes, StatStart, ValueNames, ExprNames, SimpleNames, StatNames, FuncNames, TypeNames, TopNames, RestNames
    <3>2. Fits(<<"report", "skip">>, p)
      BY <1>2 DEF Fits, Latest, Reaches
    <3>3. RestOfTurn(p) = <<"report", "skip">>
      BY <1>2, <2>2, PairOf DEF RestOfTurn, Opt
    <3> QED BY <3>1, <3>2, <3>3
  <2> QED BY <2>1, <2>2
<1>3. CASE p = "unlessend"
  <2>1. CASE c # "TTEND"
    <3>1. <<"n_stat">> \in Seq(Names)
      BY SyncsNamed DEF Names, Grammar, Lex, TokenTypes, StatStart, ValueNames, ExprNames, SimpleNames, StatNames, FuncNames, TypeNames, TopNames, RestNames
    <3>2. Fits(<<"n_stat">>, p)
      BY <1>3 DEF Fits, Latest, Reaches
    <3>3. RestOfTurn(p) = <<"n_stat">>
      BY <1>3, <2>1 DEF RestOfTurn, Opt
    <3> QED BY <3>1, <3>2, <3>3
  <2>2. CASE c = "TTEND"
    <3>1. <<>> \in Seq(Names)
      BY SyncsNamed DEF Names, Grammar, Lex, TokenTypes, StatStart, ValueNames, ExprNames, SimpleNames, StatNames, FuncNames, TypeNames, TopNames, RestNames
    <3>2. Fits(<<>>, p)
      BY <1>3 DEF Fits, Latest, Reaches
    <3>3. RestOfTurn(p) = <<>>
      BY <1>3, <2>2 DEF RestOfTurn, Opt
    <3> QED BY <3>1, <3>2, <3>3
  <2> QED BY <2>1, <2>2
<1>4. CASE p = "afterend"
  <2>1. CASE c = "TFUNC"
    <3>1. <<"sync5">> \in Seq(Names)
      BY SyncsNamed DEF Names, Grammar, Lex, TokenTypes, StatStart, ValueNames, ExprNames, SimpleNames, StatNames, FuncNames, TypeNames, TopNames, RestNames
    <3>2. Fits(<<"sync5">>, p)
      BY <1>4 DEF Fits, Latest, Reaches
    <3>3. RestOfTurn(p) = <<"sync5">>
      BY <1>4, <2>1 DEF RestOfTurn, Opt
    <3> QED BY <3>1, <3>2, <3>3
  <2>2. CASE c = "TMAIN"
    <3>1. <<>> \in Seq(Names)
      BY SyncsNamed DEF Names, Grammar, Lex, TokenTypes, StatStart, ValueNames, ExprNames, SimpleNames, StatNames, FuncNames, TypeNames, TopNames, RestNames
    <3>2. Fits(<<>>, p)
      BY <1>4 DEF Fits, Latest, Reaches
    <3>3. RestOfTurn(p) = <<>>
      BY <1>4, <2>2 DEF RestOfTurn, Opt
    <3> QED BY <3>1, <3>2, <3>3
  <2>3. CASE c \notin {"TFUNC", "TMAIN"}
    <3>1. <<"n_stat">> \in Seq(Names)
      BY SyncsNamed DEF Names, Grammar, Lex, TokenTypes, StatStart, ValueNames, ExprNames, SimpleNames, StatNames, FuncNames, TypeNames, TopNames, RestNames
    <3>2. Fits(<<"n_stat">>, p)
      BY <1>4 DEF Fits, Latest, Reaches
    <3>3. RestOfTurn(p) = <<"n_stat">>
      BY <1>4, <2>3 DEF RestOfTurn, Opt
    <3> QED BY <3>1, <3>2, <3>3
  <2> QED BY <2>1, <2>2, <2>3
<1>5. CASE p = "laststat"
  <2>1. CASE c = "TTEND" /\ n = "TCD25"
    <3>1. <<"TTEND", "TCD25", "TIDEN">> \in Seq(Names)
      BY SyncsNamed DEF Names, Grammar, Lex, TokenTypes, StatStart, ValueNames, ExprNames, SimpleNames, StatNames, FuncNames, TypeNames, TopNames, RestNames
    <3>2. Fits(<<"TTEND", "TCD25", "TIDEN">>, p)
      BY <1>5 DEF Fits, Latest, Reaches
    <3>3. RestOfTurn(p) = <<"TTEND", "TCD25", "TIDEN">>
      BY <1>5, <2>1 DEF RestOfTurn, Opt
    <3> QED BY <3>1, <3>2, <3>3
  <2>2. CASE ~(c = "TTEND" /\ n = "TCD25")
    <3>1. <<"n_stat">> \in Seq(Names)
      BY SyncsNamed DEF Names, Grammar, Lex, TokenTypes, StatStart, ValueNames, ExprNames, SimpleNames, StatNames, FuncNames, TypeNames, TopNames, RestNames
    <3>2. Fits(<<"n_stat">>, p)
      BY <1>5 DEF Fits, Latest, Reaches
    <3>3. RestOfTurn(p) = <<"n_stat">>
      BY <1>5, <2>2 DEF RestOfTurn, Opt
    <3> QED BY <3>1, <3>2, <3>3
  <2> QED BY <2>1, <2>2
<1>6. CASE p = "lastend"
  <2>1. CASE c = "TCD25"
    <3>1. <<"TCD25", "TIDEN">> \in Seq(Names)
      BY SyncsNamed DEF Names, Grammar, Lex, TokenTypes, StatStart, ValueNames, ExprNames, SimpleNames, StatNames, FuncNames, TypeNames, TopNames, RestNames
    <3>2. Fits(<<"TCD25", "TIDEN">>, p)
      BY <1>6 DEF Fits, Latest, Reaches
    <3>3. RestOfTurn(p) = <<"TCD25", "TIDEN">>
      BY <1>6, <2>1 DEF RestOfTurn, Opt
    <3> QED BY <3>1, <3>2, <3>3
  <2>2. CASE c # "TCD25"
    <3>1. <<"n_stat">> \in Seq(Names)
      BY SyncsNamed DEF Names, Grammar, Lex, TokenTypes, StatStart, ValueNames, ExprNames, SimpleNames, StatNames, FuncNames, TypeNames, TopNames, RestNames
    <3>2. Fits(<<"n_stat">>, p)
      BY <1>6 DEF Fits, Latest, Reaches
    <3>3. RestOfTurn(p) = <<"n_stat">>
      BY <1>6, <2>2 DEF RestOfTurn, Opt
    <3> QED BY <3>1, <3>2, <3>3
  <2> QED BY <2>1, <2>2
<1> QED BY <1>1, <1>2, <1>3, <1>4, <1>5, <1>6 DEF RestNames

(* The names of the grammar. *)
LEMMA NamesKnown ==
  /\ Early \subseteq Grammar /\ Late \subseteq Grammar /\ Grammar \subseteq Names
  /\ RestNames \cap Grammar = {} /\ "report" \notin Grammar
<1>1. Early \subseteq Grammar
  BY ListsNamed, SyncsNamed DEF Early, Common, Grammar, TypeNames, TopNames
<1>2. Late \subseteq Grammar
  BY ListsNamed, SyncsNamed DEF Late, Common, Grammar, TypeNames, TopNames
<1>3. Grammar \subseteq Names
  BY DEF Names
<1>4. RestNames \cap Grammar = {} /\ "report" \notin Grammar
  BY ListsNamed, SyncsNamed DEF RestNames, Grammar, Lex, TokenTypes, Types, AsgnOps,
     RelOps, LogOps, ArithOps, Literals, StatStart, ValueNames, ExprNames,
     SimpleNames, StatNames, FuncNames, TypeNames, TopNames
<1> QED BY <1>1, <1>2, <1>3, <1>4

(* A name on the stack that is a production is one of those above. *)
LEMMA Productions ==
  ASSUME NEW p, p \notin Lex \cup SyncNames \cup Marks
  PROVE  /\ p \in Late => p \in LateProds
         /\ p \in Early => p \in EarlyProds
         /\ p \in Names => p \in RestNames \/ p \in LateProds \/ p \in EarlyProds
                           \/ p = "n_program"
<1>1. p \in Late => p \in LateProds
  BY SyncsNamed DEF Late, Common, LateProds, Inner, Marks
<1>2. p \in Early => p \in EarlyProds
  BY SyncsNamed DEF Early, Common, EarlyProds, Marks
<1>3. p \in Names => p \in RestNames \/ p \in LateProds \/ p \in EarlyProds
                    \/ p = "n_program"
  BY ListsNamed DEF Names, Grammar, LateProds, EarlyProds, Inner, Marks, TypeNames,
     TopNames
<1> QED BY <1>1, <1>2, <1>3

(* The program is replaced by its parts. *)
LEMMA ProgramItems ==
  /\ Items("n_program") = Program /\ Program \in Seq(Grammar)
  /\ Fits(Program, "n_program")
<1>1. Items("n_program") = Program
  BY DEF Items, More
<1>2. Program \in Seq(Grammar)
  BY DEF Program, Grammar, Lex, TokenTypes, StatStart, TopNames, FuncNames
<1>3. Fits(Program, "n_program")
  BY DEF Program, Fits, Latest, Reaches
<1> QED BY <1>1, <1>2, <1>3

(* What replaces a name is made of names, and fits. *)
LEMMA Replacement ==
  ASSUME c \in Lex, n \in Lex, NEW p \in Names, p \notin Lex \cup SyncNames \cup Marks,
         NEW t, t = IF p \in RestNames THEN RestOfTurn(p) ELSE Items(p)
  PROVE  t \in Seq(Names) /\ Fits(t, p) /\ (p \in Grammar => t \in Seq(Grammar))
<1>1. Grammar \subseteq Names /\ Late \subseteq Grammar /\ Early \subseteq Grammar
      /\ RestNames \cap Grammar = {}
  BY NamesKnown
<1>2. CASE p \in RestNames
  BY <1>1, <1>2, RestStep
<1>3. CASE p \notin RestNames
  <2>1. Items(p) \in Seq(Grammar) /\ Fits(Items(p), p)
    <3>1. CASE p \in LateProds
      <4>1. Items(p) \in Seq(Late) /\ Fits(Items(p), p)
        BY <3>1, LateStep DEF Even
      <4> QED BY <1>1, <4>1, Widen
    <3>2. CASE p \in EarlyProds
      <4>1. Items(p) \in Seq(Early) /\ Fits(Items(p), p)
        BY <3>2, EarlyStep DEF Even
      <4> QED BY <1>1, <4>1, Widen
    <3>3. CASE p = "n_program"
      BY <3>3, ProgramItems
    <3> QED BY <1>3, <3>1, <3>2, <3>3, Productions
  <2>2. Items(p) \in Seq(Names)
    BY <1>1, <2>1, Widen
  <2> QED BY <1>3, <2>1, <2>2
<1> QED BY <1>2, <1>3

(***************************************************************************)
(* The steps of the parser.                                                *)
(***************************************************************************)
LEMMA Given ==
  ASSUME TypeOK
  PROVE  /\ c \in Lex /\ n \in Lex /\ progress \in Points /\ progress \in Int
         /\ todo \in Seq(Names) /\ scope \in Nat /\ open \in [Kinds -> Int]
         /\ recovering \in BOOLEAN /\ fresh \in BOOLEAN /\ reported \in BOOLEAN
         /\ valid \in BOOLEAN
<1>1. c \in Tokens \cup {"T_EOF"} /\ n \in Tokens \cup {"T_EOF"}
  BY DEF TypeOK
<1>2. c \in Lex /\ n \in Lex
  BY <1>1, TokensAssumption DEF Lex
<1>3. progress \in Points /\ progress \in Int /\ todo \in Seq(Names) /\ scope \in Nat
  BY DEF TypeOK, Points
<1>4. open \in [Kinds -> Int]
  BY DEF TypeOK, Kinds
<1>5. /\ recovering \in BOOLEAN /\ fresh \in BOOLEAN /\ reported \in BOOLEAN
      /\ valid \in BOOLEAN
  BY DEF TypeOK
<1> QED BY <1>2, <1>3, <1>4, <1>5

(* The head of the stack and what is behind it. *)
LEMMA Stack ==
  ASSUME TypeOK, StackTyped, Running
  PROVE  /\ todo # <<>> /\ outcome = "parsing" /\ Now = todo[1] /\ todo[1] \in Names
         /\ todo \in Seq(Names) /\ Tail(todo) \in Seq(Names)
         /\ <<>> \o Tail(todo) = Tail(todo)
         /\ ~recovering => todo[1] \in Grammar /\ Tail(todo) \in Seq(Grammar)
<1>1. todo \in Seq(Names) /\ todo # <<>> /\ outcome = "parsing"
  BY Given DEF Running
<1>2. Now = todo[1] /\ todo[1] \in Names /\ Tail(todo) \in Seq(Names)
  BY <1>1, HeadAndTail DEF Now
<1>3. <<>> \o Tail(todo) = Tail(todo)
  BY <1>2, ConcatEmptySeq
<1>4. ~recovering => todo[1] \in Grammar /\ Tail(todo) \in Seq(Grammar)
  BY <1>1, HeadAndTail DEF StackTyped
<1> QED BY <1>1, <1>2, <1>3, <1>4

(* The file is read a token at a time, and its end stays. *)
LEMMA Reads ==
  ASSUME TypeOK, NextToken
  PROVE  /\ c' = n /\ {c', n'} \subseteq Tokens \cup {"T_EOF"}
         /\ n = "T_EOF" => n' = "T_EOF"
<1>1. c' = n /\ n' \in Lexed
  BY DEF NextToken
<1>2. n' \in Tokens \cup {"T_EOF"} /\ (n = "T_EOF" => n' = "T_EOF")
  BY <1>1 DEF Lexed
<1> QED BY <1>1, <1>2 DEF TypeOK

(* What a token opens is its weight, but that an end before the first heading
   is a type's. *)
LEMMA LedgerIs ==
  ASSUME TypeOK, NEW tok, NEW k \in Kinds
  PROVE  /\ Ledger(tok)[k] \in Int
         /\ k # "end" \/ scope # 0 => Ledger(tok)[k] = Weight(k, tok)
         /\ k = "end" /\ scope = 0 => Ledger(tok)[k] = 0
<1>1. k = "paren" \/ k = "brkt" \/ k = "end"
  BY DEF Kinds
<1>2. CASE k = "paren"
  BY <1>2 DEF Ledger, Weight
<1>3. CASE k = "brkt"
  BY <1>3 DEF Ledger, Weight
<1>4. CASE k = "end"
  <2>1. CASE scope = 0
    BY <1>4, <2>1 DEF Ledger, Weight
  <2>2. CASE scope # 0
    BY <1>4, <2>2 DEF Ledger, Weight
  <2> QED BY <2>1, <2>2
<1> QED BY <1>1, <1>2, <1>3, <1>4

(* The types. *)
LEMMA TypeStep ==
  ASSUME TypeOK, StackTyped, [Next]_parserVars
  PROVE  TypeOK' /\ StackTyped'
<1>0. /\ {c, n} \subseteq Tokens \cup {"T_EOF"}
      /\ progress \in {0, 1, 2, 3, 5, 6, 8, 9, 11, 12} /\ scope \in Nat
      /\ {fresh, recovering, valid, reported} \subseteq BOOLEAN
      /\ outcome \in {"parsing", "tree", "null"}
      /\ open \in [{"paren", "brkt", "end"} -> Int] /\ todo \in Seq(Names)
  BY DEF TypeOK
<1>1. c \in Lex /\ n \in Lex /\ progress \in Points
  BY Given
<1>2. Closed \in [{"paren", "brkt", "end"} -> Int]
  BY DEF Closed
<1>3. CASE Match
  <2>1. todo' = Tail(todo) /\ NextToken /\ Running
    BY <1>3, Stack DEF Match, GoOn
  <2>2. open' \in [{"paren", "brkt", "end"} -> Int]
    <3>1. CASE recovering
      BY <1>2, <1>3, <3>1 DEF Match
    <3>2. CASE ~recovering
      <4>1. open' = [k \in DOMAIN open |-> open[k] + Ledger(c)[k]]
        BY <1>3, <3>2 DEF Match
      <4>2. DOMAIN open = Kinds /\ \A k \in Kinds : open[k] \in Int
        BY <1>0 DEF Kinds
      <4>3. \A k \in Kinds : Ledger(c)[k] \in Int
        BY LedgerIs
      <4>4. open' \in [Kinds -> Int]
        BY <4>1, <4>2, <4>3
      <4> QED BY <4>4 DEF Kinds
    <3> QED BY <3>1, <3>2
  <2>3. UNCHANGED <<progress, scope, fresh, recovering, valid, reported, outcome>>
    BY <1>3 DEF Match
  <2> QED BY <1>0, <2>1, <2>2, <2>3, Reads, Stack DEF TypeOK, StackTyped
<1>4. CASE Panic
  <2>1. /\ todo' = <<>> /\ fresh' = FALSE /\ reported' = TRUE /\ valid' = FALSE
        /\ recovering' = TRUE /\ open' = Closed
        /\ UNCHANGED <<c, n, progress, scope, outcome>>
    BY <1>4 DEF Panic
  <2>2. {fresh', recovering', valid', reported'} \subseteq BOOLEAN
    BY <2>1
  <2>3. /\ todo' \in Seq(Names) /\ {c', n'} \subseteq Tokens \cup {"T_EOF"}
        /\ open' \in [{"paren", "brkt", "end"} -> Int]
    BY <1>0, <1>2, <2>1
  <2> QED BY <1>0, <2>1, <2>2, <2>3 DEF TypeOK, StackTyped
<1>5. CASE Pass
  <2>1. /\ todo' = Tail(todo) /\ NextToken /\ Running /\ fresh' = FALSE
        /\ reported' = (reported \/ fresh)
        /\ UNCHANGED <<progress, scope, recovering, valid, outcome, open>>
    BY <1>5, Stack DEF Pass, Mismatch, GoOn
  <2> QED BY <1>0, <2>1, Reads, Stack DEF TypeOK, StackTyped
<1>6. CASE Fail
  <2>1. /\ todo' = <<>> /\ reported' = TRUE /\ valid' = FALSE
        /\ recovering' = TRUE /\ open' = Closed
        /\ UNCHANGED <<c, n, progress, scope, fresh, outcome>>
    BY <1>6 DEF Fail
  <2>2. {fresh', recovering', valid', reported'} \subseteq BOOLEAN
    BY <1>0, <2>1
  <2>3. /\ todo' \in Seq(Names) /\ {c', n'} \subseteq Tokens \cup {"T_EOF"}
        /\ open' \in [{"paren", "brkt", "end"} -> Int]
    BY <1>0, <1>2, <2>1
  <2> QED BY <1>0, <2>1, <2>2, <2>3 DEF TypeOK, StackTyped
<1>7. CASE Abort
  <2>1. /\ todo' = <<>> /\ reported' = TRUE
        /\ recovering' = TRUE /\ open' = Closed
        /\ UNCHANGED <<c, n, progress, scope, fresh, valid, outcome>>
    BY <1>7 DEF Abort
  <2> QED BY <1>0, <1>2, <2>1 DEF TypeOK, StackTyped
<1>8. CASE Report
  <2>1. /\ todo' = Tail(todo) /\ Running /\ reported' = TRUE
        /\ UNCHANGED <<c, n, progress, scope, fresh, recovering, valid, outcome, open>>
    BY <1>8, Stack DEF Report, GoOn
  <2> QED BY <1>0, <2>1, Stack DEF TypeOK, StackTyped
<1>9. CASE Skip
  <2>1. /\ todo' = Tail(todo) /\ Running /\ NextToken
        /\ UNCHANGED <<progress, scope, fresh, recovering, valid, reported, outcome, open>>
    BY <1>9, Stack DEF Skip, GoOn
  <2> QED BY <1>0, <2>1, Reads, Stack DEF TypeOK, StackTyped
<1>10. CASE Sync
  <2>1. /\ todo' = Tail(todo) /\ Running /\ progress' \in Points
        /\ UNCHANGED <<c, n, scope, fresh, recovering, valid, reported, outcome, open>>
    BY <1>10, Stack, SyncsNamed DEF Sync, GoOn, SyncNames
  <2> QED BY <1>0, <2>1, Stack DEF TypeOK, StackTyped, Points
<1>11. CASE EnterScope
  <2>1. /\ todo' = Tail(todo) /\ Running /\ scope' = scope + 1
        /\ UNCHANGED <<c, n, progress, fresh, recovering, valid, reported, outcome, open>>
    BY <1>11, Stack DEF EnterScope, GoOn
  <2> QED BY <1>0, <2>1, Stack DEF TypeOK, StackTyped
<1>12. CASE Declare
  <2>1. /\ todo' = Tail(todo) /\ Running /\ valid' \in BOOLEAN
        /\ UNCHANGED <<c, n, progress, scope, fresh, recovering, reported, outcome, open>>
    BY <1>0, <1>12, Stack DEF Declare, GoOn
  <2> QED BY <1>0, <2>1, Stack DEF TypeOK, StackTyped
<1>13. CASE Step
  <2> DEFINE t == IF Now \in RestNames THEN RestOfTurn(Now) ELSE Items(Now)
  <2>1. /\ todo' = t \o Tail(todo) /\ Running
        /\ Now \notin Lex \cup SyncNames \cup Marks
        /\ UNCHANGED <<c, n, progress, scope, fresh, recovering, valid, reported,
                       outcome, open>>
    BY <1>13 DEF Step, GoOn, Lex, SyncNames
  <2>2. t \in Seq(Names) /\ (Now \in Grammar => t \in Seq(Grammar))
    <3> DEFINE p == Now
    <3>1. p \in Names /\ p \notin Lex \cup SyncNames \cup Marks
      BY <2>1, Stack
    <3>2. t = IF p \in RestNames THEN RestOfTurn(p) ELSE Items(p)
      OBVIOUS
    <3> HIDE DEF p, t
    <3>3. t \in Seq(Names) /\ (p \in Grammar => t \in Seq(Grammar))
      BY <1>1, <3>1, <3>2, Replacement
    <3> QED BY <3>3 DEF p
  <2> HIDE DEF t
  <2>3. todo' \in Seq(Names)
    BY <2>1, <2>2, Stack, ConcatProperties
  <2>4. ~recovering' => todo' \in Seq(Grammar)
    BY <2>1, <2>2, Stack, ConcatProperties
  <2> QED BY <1>0, <2>1, <2>3, <2>4 DEF TypeOK, StackTyped
<1>14. CASE Resync
  <2>1. /\ todo' = Turn /\ fresh' = TRUE /\ recovering
        /\ UNCHANGED <<c, n, progress, scope, recovering, valid, reported, outcome, open>>
    BY <1>14 DEF Resync
  <2> QED BY <1>0, <1>1, <2>1, TurnStep DEF TypeOK, StackTyped
<1>15. CASE GiveUp
  BY <1>0, <1>15 DEF GiveUp, TypeOK, StackTyped
<1>16. CASE Accept
  BY <1>0, <1>16 DEF Accept, TypeOK, StackTyped
<1>17. CASE UNCHANGED parserVars
  BY <1>17 DEF parserVars, TypeOK, StackTyped
<1> QED
  BY <1>3, <1>4, <1>5, <1>6, <1>7, <1>8, <1>9, <1>10, <1>11, <1>12, <1>13, <1>14,
     <1>15, <1>16, <1>17 DEF Next, Done

(* Errors, reports and the recovery. *)
LEMMA BlameStep ==
  ASSUME TypeOK, StackTyped, Blame, [Next]_parserVars
  PROVE  Blame'
<1>0. recovering \in BOOLEAN /\ reported \in BOOLEAN /\ fresh \in BOOLEAN
  BY Given
<1>1. CASE Match \/ Skip \/ Sync \/ EnterScope \/ Declare \/ Step
  <2>1. Running /\ UNCHANGED <<fresh, recovering, reported, outcome>>
    BY <1>1 DEF Match, Skip, Sync, EnterScope, Declare, Step
  <2> QED BY <2>1 DEF Blame, Running
<1>2. CASE Panic \/ Fail \/ Abort
  <2>1. /\ Running /\ recovering' = TRUE /\ reported' = TRUE /\ todo' = <<>>
        /\ outcome' = outcome
    BY <1>2 DEF Panic, Mismatch, Fail, Abort
  <2> QED BY <2>1 DEF Blame, Running
<1>3. CASE Pass
  <2>1. /\ Running /\ (recovering \/ ~fresh) /\ reported' = (reported \/ fresh)
        /\ UNCHANGED <<recovering, outcome>>
    BY <1>3 DEF Pass, Mismatch
  <2>2. recovering
    BY <2>1 DEF Blame
  <2> QED BY <2>1, <2>2 DEF Blame, Running
<1>4. CASE Report
  <2>1. /\ Running /\ Now = "report" /\ reported' = TRUE
        /\ UNCHANGED <<recovering, fresh, outcome>>
    BY <1>4 DEF Report
  <2>2. recovering
    BY <2>1, Stack, NamesKnown
  <2> QED BY <2>1, <2>2 DEF Blame, Running
<1>5. CASE Resync
  <2>1. /\ outcome = "parsing" /\ recovering /\ UNCHANGED <<recovering, reported, outcome>>
    BY <1>5 DEF Resync
  <2> QED BY <2>1 DEF Blame
<1>6. CASE GiveUp
  BY <1>6 DEF GiveUp, Blame
<1>7. CASE Accept
  BY <1>7 DEF Accept, Blame
<1>8. CASE UNCHANGED parserVars
  BY <1>8 DEF parserVars, Blame
<1> QED
  BY <1>1, <1>2, <1>3, <1>4, <1>5, <1>6, <1>7, <1>8 DEF Next, Done

(* The last element of a stack whose head is taken off or replaced. *)
LEMMA LastStays ==
  ASSUME NEW S, NEW s \in Seq(S), s # <<>>, NEW t \in Seq(S), Tail(s) # <<>>
  PROVE  t \o Tail(s) # <<>> /\ (t \o Tail(s))[Len(t \o Tail(s))] = s[Len(s)]
<1> DEFINE r == Tail(s)
<1>1. /\ r \in Seq(S) /\ r # <<>> /\ Len(s) \in Nat \ {0} /\ Len(r) = Len(s) - 1
      /\ \A i \in 1..(Len(s) - 1) : r[i] = s[i + 1]
  BY HeadAndTail
<1>2. Len(r) \in Nat \ {0}
  BY <1>1
<1> HIDE DEF r
<1>3. r[Len(r)] = s[Len(s)]
  BY <1>1, <1>2
<1>4. /\ Len(t) \in Nat /\ Len(t \o r) = Len(t) + Len(r) /\ t \o r \in Seq(S)
      /\ \A i \in (Len(t) + 1)..(Len(t) + Len(r)) : (t \o r)[i] = r[i - Len(t)]
  <2>1. t \in Seq(S) /\ r \in Seq(S)
    BY <1>1
  <2> QED BY ONLY <2>1, Concatenation
<1>5. (t \o r)[Len(t) + Len(r)] = r[Len(r)]
  <2> DEFINE p == Len(t)
             q == Len(r)
  <2>1. p \in Nat /\ q \in Nat \ {0}
    BY <1>2, <1>4
  <2>2. \A i \in (p + 1)..(p + q) : (t \o r)[i] = r[i - p]
    BY <1>4
  <2> HIDE DEF p, q
  <2>3. p + q \in (p + 1)..(p + q) /\ (p + q) - p = q
    BY <2>1
  <2>4. (t \o r)[p + q] = r[q]
    BY <2>2, <2>3
  <2> QED BY <2>4 DEF p, q
<1>6. t \o r # <<>>
  <2>1. Len(t \o r) # 0
    BY <1>2, <1>4
  <2> QED BY <1>4, <2>1
<1> QED BY <1>3, <1>4, <1>5, <1>6 DEF r

Ending(s) == s # <<>> /\ s[Len(s)] = "T_EOF"

(* A stack that ends with the end of the file does so until that is all of
   it. *)
LEMMA EndingTail ==
  ASSUME NEW S, NEW s \in Seq(S), Ending(s), NEW t \in Seq(S)
  PROVE  /\ s[1] # "T_EOF" => Ending(t \o Tail(s)) /\ Ending(Tail(s))
         /\ s[1] = "T_EOF" => Tail(s) = <<>> \/ Ending(Tail(s))
<1>1. s # <<>>
  BY DEF Ending
<1>2. Tail(s) \in Seq(S) /\ Len(s) \in Nat \ {0} /\ Len(Tail(s)) = Len(s) - 1
  BY <1>1, HeadAndTail
<1>3. Tail(s) = <<>> => Len(s) = 1
  <2>1. \A r \in Seq(S) : r = <<>> => Len(r) = 0
    OBVIOUS
  <2>2. Tail(s) = <<>> => Len(Tail(s)) = 0
    BY <1>2, <2>1
  <2> QED BY <1>2, <2>2
<1>4. s[1] # "T_EOF" => Tail(s) # <<>>
  BY <1>3 DEF Ending
<1>5. <<>> \in Seq(S) /\ <<>> \o Tail(s) = Tail(s)
  BY <1>2, ConcatEmptySeq
<1>6. Tail(s) # <<>> => Ending(t \o Tail(s))
  BY <1>1, LastStays DEF Ending
<1>7. Tail(s) # <<>> => Ending(<<>> \o Tail(s))
  BY <1>1, <1>5, LastStays DEF Ending
<1> QED BY <1>4, <1>5, <1>6, <1>7

(* The end of the file. *)
LEMMA EndStep ==
  ASSUME TypeOK, StackTyped, Blame, EndAsked, [Next]_parserVars
  PROVE  EndAsked'
<1>0. /\ c = "T_EOF" => n = "T_EOF"
      /\ outcome = "null" => c = "T_EOF"
      /\ ~recovering => todo = <<"n_program">> \/ Ending(todo) \/ (todo = <<>> /\ c = "T_EOF")
  BY DEF EndAsked, Ending
<1>1. ASSUME Running, Now \notin Lex, Now # "n_program", ~recovering,
             NEW t \in Seq(Names)
      PROVE  Ending(t \o Tail(todo)) /\ Ending(Tail(todo))
  <2>1. todo # <<>> /\ Now = todo[1] /\ todo \in Seq(Names)
    BY <1>1, Stack
  <2>2. todo # <<"n_program">> /\ todo[1] # "T_EOF"
    BY <1>1, <2>1 DEF Lex
  <2>3. Ending(todo)
    BY <1>0, <1>1, <2>1, <2>2
  <2> QED BY <2>1, <2>2, <2>3, EndingTail
<1>2. CASE Match
  <2>1. /\ Running /\ NextToken /\ todo' = Tail(todo) /\ Now = c /\ Now = todo[1]
        /\ UNCHANGED <<recovering, outcome>> /\ outcome = "parsing" /\ todo # <<>>
        /\ todo \in Seq(Names)
    BY <1>2, Stack DEF Match, GoOn
  <2>2. c' = "T_EOF" => n' = "T_EOF"
    BY <2>1, Reads
  <2>3. ASSUME ~recovering
        PROVE  Ending(todo') \/ (todo' = <<>> /\ c' = "T_EOF")
    <3>1. c \in Lex /\ "n_program" \notin Lex
      BY Given DEF Lex, TokenTypes, Types, AsgnOps, RelOps, LogOps, ArithOps,
         Literals, StatStart
    <3>2. Ending(todo)
      BY <1>0, <2>1, <2>3, <3>1
    <3>3. <<>> \in Seq(Names)
      OBVIOUS
    <3>4. CASE c = "T_EOF"
      <4>1. c' = "T_EOF"
        BY <1>0, <2>1, <3>4, Reads
      <4>2. Tail(todo) = <<>> \/ Ending(Tail(todo))
        BY <2>1, <3>2, <3>3, <3>4, EndingTail
      <4> QED BY <2>1, <4>1, <4>2
    <3>5. CASE c # "T_EOF"
      BY <2>1, <3>2, <3>3, <3>5, EndingTail
    <3> QED BY <3>4, <3>5
  <2> QED BY <2>1, <2>2, <2>3 DEF EndAsked, Ending
<1>3. CASE Panic \/ Fail \/ Abort
  <2>1. Running /\ recovering' = TRUE /\ UNCHANGED <<c, n, outcome>>
    BY <1>3 DEF Panic, Mismatch, Fail, Abort
  <2> QED BY <1>0, <2>1 DEF EndAsked
<1>4. CASE Pass
  <2>1. /\ Running /\ NextToken /\ UNCHANGED <<recovering, outcome>> /\ Now \in Lex
        /\ Now # c /\ todo' = Tail(todo) /\ outcome = "parsing" /\ Now = todo[1]
        /\ todo \in Seq(Names) /\ todo # <<>>
    BY <1>4, Stack DEF Pass, Mismatch, GoOn, Lex
  <2>2. c' = "T_EOF" => n' = "T_EOF"
    BY <2>1, Reads
  <2>3. recovering
    BY <1>4 DEF Pass, Blame
  <2> QED BY <2>1, <2>2, <2>3 DEF EndAsked
<1>5. CASE Report \/ Sync \/ EnterScope \/ Declare
  <2>1. /\ Running /\ UNCHANGED <<c, n, recovering, outcome>> /\ todo' = Tail(todo)
        /\ Now \in SyncNames \cup Marks
    BY <1>5, Stack DEF Report, Sync, EnterScope, Declare, GoOn, SyncNames, Marks
  <2>2. Now \notin Lex /\ Now # "n_program"
    BY <2>1, SyncsNamed DEF Lex, TokenTypes, Types, AsgnOps, RelOps, LogOps, ArithOps,
         Literals, StatStart, Marks
  <2>3. ~recovering => Ending(todo')
    BY <1>1, <2>1, <2>2, EmptySeq
  <2> QED BY <1>0, <2>1, <2>3 DEF EndAsked, Ending
<1>6. CASE Skip
  <2>1. /\ Running /\ NextToken /\ UNCHANGED <<recovering, outcome>>
        /\ todo' = Tail(todo) /\ Now = "skip" /\ outcome = "parsing"
    BY <1>6, Stack DEF Skip, GoOn
  <2>2. Now \notin Lex /\ Now # "n_program"
    BY <2>1 DEF Lex, TokenTypes, Types, AsgnOps, RelOps, LogOps, ArithOps,
         Literals, StatStart
  <2>3. ~recovering => Ending(todo')
    BY <1>1, <2>1, <2>2, EmptySeq
  <2>4. c' = "T_EOF" => n' = "T_EOF"
    BY <2>1, Reads
  <2> QED BY <2>1, <2>3, <2>4 DEF EndAsked, Ending
<1>7. CASE Step
  <2> DEFINE t == IF Now \in RestNames THEN RestOfTurn(Now) ELSE Items(Now)
  <2>1. /\ Running /\ UNCHANGED <<c, n, recovering, outcome>>
        /\ todo' = t \o Tail(todo) /\ Now \notin Lex \cup SyncNames \cup Marks
    BY <1>7 DEF Step, GoOn, Lex, SyncNames
  <2>2. Now \in Names /\ Now = todo[1] /\ todo \in Seq(Names) /\ todo # <<>>
        /\ Tail(todo) \in Seq(Names)
    BY <2>1, Stack
  <2>3. t \in Seq(Names)
    <3> DEFINE p == Now
    <3>1. p \in Names /\ p \notin Lex \cup SyncNames \cup Marks /\ c \in Lex /\ n \in Lex
      BY <2>1, <2>2, Given
    <3>2. t = IF p \in RestNames THEN RestOfTurn(p) ELSE Items(p)
      OBVIOUS
    <3> HIDE DEF p, t
    <3> QED BY <3>1, <3>2, Replacement
  <2>4. ASSUME ~recovering, Now = "n_program" PROVE Ending(todo')
    <3>1. t = Program /\ Ending(Program) /\ Len(Program) = 6
      BY <2>4, ProgramItems DEF RestNames, Program, Ending
    <3>2. CASE Tail(todo) = <<>>
      <4>1. todo' = Program
        BY <2>1, <2>3, <3>1, <3>2, ConcatEmptySeq
      <4> QED BY <3>1, <4>1
    <3>3. CASE Tail(todo) # <<>>
      <4>1. todo # <<"n_program">> /\ todo # <<>>
        <5>1. Tail(<<"n_program">>) = <<>>
          <6>1. <<"n_program">> \in Seq({"n_program"}) /\ <<"n_program">> # <<>>
                /\ Len(<<"n_program">>) = 1
            OBVIOUS
          <6>2. Tail(<<"n_program">>) \in Seq({"n_program"}) /\ Len(Tail(<<"n_program">>)) = 0
            BY <6>1, HeadAndTail
          <6> QED BY <6>2
        <5> QED BY <3>3, <2>2, <5>1
      <4>2. Ending(todo) /\ todo[1] # "T_EOF"
        BY <1>0, <2>2, <2>4, <4>1
      <4> HIDE DEF t
      <4> QED BY <2>1, <2>2, <2>3, <4>2, EndingTail
    <3> QED BY <3>2, <3>3
  <2> HIDE DEF t
  <2>5. ~recovering => Ending(todo')
    BY <1>1, <2>1, <2>3, <2>4
  <2> QED BY <1>0, <2>1, <2>5 DEF EndAsked, Ending
<1>8. CASE Resync \/ GiveUp
  <2>1. recovering /\ UNCHANGED <<c, n, recovering>> /\ (outcome' = outcome \/ c = "T_EOF")
    BY <1>8 DEF Resync, GiveUp
  <2> QED BY <1>0, <2>1 DEF EndAsked
<1>9. CASE Accept
  BY <1>9 DEF Accept, EndAsked
<1>10. CASE UNCHANGED parserVars
  BY <1>10 DEF parserVars, EndAsked
<1> QED
  BY <1>2, <1>3, <1>4, <1>5, <1>6, <1>7, <1>8, <1>9, <1>10 DEF Next, Done

(* The order of the sections. *)
LEMMA OrderStep ==
  ASSUME TypeOK, StackTyped, Ordered, [Next]_parserVars
  PROVE  /\ Ordered'
         /\ progress' >= progress \/ (progress < 11 /\ progress' = 5)
<1>0. progress \in Int /\ progress \in Points /\ c \in Lex /\ n \in Lex
  BY Given
<1>1. \A at : Orderly(<<>>, at)
  BY DEF Orderly
<1>2. ASSUME Running, Now # "sync5", todo' = Tail(todo), progress' = progress
      PROVE  Ordered'
  <2>1. todo \in Seq(Names) /\ todo # <<>> /\ todo[1] # "sync5"
    BY <1>2, Stack
  <2> QED BY <1>0, <1>2, <2>1, OrderlyTail DEF Ordered
<1>3. CASE Match \/ Pass \/ Report \/ Skip \/ EnterScope \/ Declare
  <2>1. /\ Running /\ todo' = Tail(todo) /\ progress' = progress
        /\ Now \in Lex \cup Marks
    BY <1>0, <1>3, Stack DEF Match, Pass, Mismatch, Report, Skip, EnterScope, Declare,
       GoOn, Lex, Marks
  <2>2. Now # "sync5"
    BY <2>1 DEF Lex, TokenTypes, Types, AsgnOps, RelOps, LogOps, ArithOps, Literals,
       StatStart, Marks
  <2> QED BY <1>0, <1>2, <2>1, <2>2
<1>4. CASE Panic \/ Fail \/ Abort
  <2>1. todo' = <<>> /\ progress' = progress
    BY <1>4 DEF Panic, Fail, Abort
  <2> QED BY <1>0, <1>1, <2>1 DEF Ordered
<1>5. CASE Sync
  <2>1. /\ Running /\ todo' = Tail(todo) /\ Now \in SyncNames
        /\ progress' = SyncPoint[Now]
    BY <1>5, Stack DEF Sync, GoOn, SyncNames
  <2>2. Now = todo[1] /\ todo \in Seq(Names) /\ todo # <<>> /\ 1 \in DOMAIN todo
    BY <2>1, Stack, HeadAndTail
  <2>3. progress' = Reaches(todo[1])
    BY <2>1, <2>2, SyncsNamed
  <2>4. Ordered'
    BY <1>0, <2>1, <2>2, <2>3, OrderlySync DEF Ordered
  <2>5. progress <= Latest(todo[1])
    BY <2>2 DEF Ordered, Orderly
  <2>6. \A x \in SyncNames : Latest(x) \in Int /\ Reaches(x) \in Int
           /\ (Latest(x) <= Reaches(x) \/ (Latest(x) = 10 /\ Reaches(x) = 5))
    BY SyncsNamed DEF Latest, Reaches
  <2> QED BY <1>0, <2>1, <2>2, <2>3, <2>4, <2>5, <2>6
<1>6. CASE Step
  <2> DEFINE t == IF Now \in RestNames THEN RestOfTurn(Now) ELSE Items(Now)
             p == Now
  <2>1. /\ Running /\ progress' = progress /\ todo' = t \o Tail(todo)
        /\ p \notin Lex \cup SyncNames \cup Marks
    BY <1>6 DEF Step, GoOn, Lex, SyncNames
  <2>2. p \in Names /\ p = todo[1] /\ todo \in Seq(Names) /\ todo # <<>>
    BY <2>1, Stack
  <2>3. t = IF p \in RestNames THEN RestOfTurn(p) ELSE Items(p)
    OBVIOUS
  <2> HIDE DEF t, p
  <2>4. t \in Seq(Names) /\ Fits(t, p)
    BY <1>0, <2>1, <2>2, <2>3, Replacement
  <2>5. todo[1] # "sync5"
    BY <2>1, <2>2, SyncsNamed
  <2>6. Orderly(t \o Tail(todo), progress)
    BY <1>0, <2>2, <2>4, <2>5, OrderlyReplace DEF Ordered
  <2> QED BY <1>0, <2>1, <2>6 DEF Ordered
<1>7. CASE Resync
  <2>1. todo' = Turn /\ progress' = progress
    BY <1>7 DEF Resync
  <2> QED BY <1>0, <2>1, TurnStep DEF Ordered
<1>8. CASE GiveUp \/ Accept \/ UNCHANGED parserVars
  <2>1. todo' = todo /\ progress' = progress
    BY <1>8 DEF GiveUp, Accept, parserVars
  <2> QED BY <1>0, <2>1 DEF Ordered
<1> QED
  BY <1>3, <1>4, <1>5, <1>6, <1>7, <1>8 DEF Next, Done

(* The head and the tail of sequences that are put together. *)
LEMMA TailOfConcat ==
  ASSUME NEW S, NEW s \in Seq(S), NEW t \in Seq(S), s # <<>>
  PROVE  s \o t # <<>> /\ (s \o t)[1] = s[1] /\ Tail(s \o t) = Tail(s) \o t
<1> DEFINE r == Tail(s)
           u == s \o t
<1>1. /\ r \in Seq(S) /\ Len(s) \in Nat \ {0} /\ Len(r) = Len(s) - 1
      /\ \A i \in 1..(Len(s) - 1) : r[i] = s[i + 1]
  BY HeadAndTail
<1>2. /\ u \in Seq(S) /\ Len(u) = Len(s) + Len(t) /\ Len(t) \in Nat
      /\ \A i \in 1..Len(s) : u[i] = s[i]
      /\ \A i \in (Len(s) + 1)..(Len(s) + Len(t)) : u[i] = t[i - Len(s)]
  BY ONLY s \in Seq(S), t \in Seq(S), Concatenation
<1> HIDE DEF u
<1>3. u # <<>>
  <2>1. \A v \in Seq(S) : v = <<>> => Len(v) = 0
    OBVIOUS
  <2>2. Len(u) # 0
    BY <1>1, <1>2
  <2> QED BY <1>2, <2>1, <2>2
<1>4. u[1] = s[1]
  BY <1>1, <1>2
<1>5. /\ Tail(u) \in Seq(S) /\ Len(Tail(u)) = Len(u) - 1
      /\ \A i \in 1..(Len(u) - 1) : Tail(u)[i] = u[i + 1]
  BY <1>2, <1>3, HeadAndTail
<1> HIDE DEF r
<1>6. /\ r \o t \in Seq(S) /\ Len(r \o t) = Len(r) + Len(t)
      /\ \A i \in 1..Len(r) : (r \o t)[i] = r[i]
      /\ \A i \in (Len(r) + 1)..(Len(r) + Len(t)) : (r \o t)[i] = t[i - Len(r)]
  <2>1. r \in Seq(S) /\ t \in Seq(S)
    BY <1>1
  <2> QED BY ONLY <2>1, Concatenation
<1>7. Len(Tail(u)) = Len(r \o t)
  BY <1>1, <1>2, <1>5, <1>6
<1>8. ASSUME NEW i \in 1..Len(Tail(u)) PROVE Tail(u)[i] = (r \o t)[i]
  <2> DEFINE p == Len(r)
             q == Len(t)
  <2>1. p \in Nat /\ q \in Nat /\ Len(s) = p + 1 /\ Len(u) = (p + 1) + q
    BY <1>1, <1>2
  <2>2. i \in 1..(p + q)
    BY <1>5, <2>1
  <2>3. Tail(u)[i] = u[i + 1]
    BY <1>5, <2>1, <2>2
  <2>4. CASE i <= p
    <3>1. i + 1 \in 1..Len(s) /\ i \in 1..(Len(s) - 1) /\ i \in 1..p
      BY <2>1, <2>2, <2>4
    <3> QED BY <1>1, <1>2, <1>6, <2>3, <3>1
  <2>5. CASE i > p
    <3>1. /\ i + 1 \in (Len(s) + 1)..(Len(s) + Len(t)) /\ i \in (p + 1)..(p + q)
          /\ (i + 1) - Len(s) = i - p
      BY <2>1, <2>2, <2>5
    <3>2. u[i + 1] = t[(i + 1) - Len(s)]
      BY <1>2, <3>1
    <3>3. (r \o t)[i] = t[i - p]
      BY <1>6, <3>1
    <3> QED BY <2>3, <3>1, <3>2, <3>3
  <2> QED BY <2>1, <2>2, <2>4, <2>5
<1>9. Tail(u) = r \o t
  BY <1>5, <1>6, <1>7, <1>8, SeqEqual
<1> QED BY <1>3, <1>4, <1>9 DEF r, u

(* The head of a pair, and of more. *)
LEMMA TailOfTuple ==
  /\ \A x : <<x>> # <<>> /\ <<x>>[1] = x /\ Tail(<<x>>) = <<>>
  /\ \A x, y : <<x, y>> # <<>> /\ <<x, y>>[1] = x /\ Tail(<<x, y>>) = <<y>>
  /\ \A x, y, z : <<x, y, z>> # <<>> /\ <<x, y, z>>[1] = x /\ Tail(<<x, y, z>>) = <<y, z>>
<1>1. ASSUME NEW x PROVE <<x>> # <<>> /\ <<x>>[1] = x /\ Tail(<<x>>) = <<>>
  <2>1. <<x>> \in Seq({x}) /\ <<x>> # <<>> /\ Len(<<x>>) = 1
    OBVIOUS
  <2>2. Tail(<<x>>) \in Seq({x}) /\ Len(Tail(<<x>>)) = 0
    BY <2>1, HeadAndTail
  <2> QED BY <2>2
<1>2. ASSUME NEW x, NEW y
      PROVE  <<x, y>> # <<>> /\ <<x, y>>[1] = x /\ Tail(<<x, y>>) = <<y>>
  <2>1. <<x>> \in Seq({x, y}) /\ <<y>> \in Seq({x, y})
    OBVIOUS
  <2>2. <<x>> \o <<y>> = <<x, y>>
    BY PairOf
  <2>3. Tail(<<x>> \o <<y>>) = Tail(<<x>>) \o <<y>> /\ <<x>> \o <<y>> # <<>>
    BY <1>1, <2>1, TailOfConcat
  <2>4. <<>> \o <<y>> = <<y>>
    BY <2>1, ConcatEmptySeq
  <2> QED BY <1>1, <2>2, <2>3, <2>4
<1>3. ASSUME NEW x, NEW y, NEW z
      PROVE  <<x, y, z>> # <<>> /\ <<x, y, z>>[1] = x /\ Tail(<<x, y, z>>) = <<y, z>>
  <2> DEFINE s == <<x, y, z>>
             S == {x, y, z}
  <2>1. /\ s \in Seq(S) /\ s # <<>> /\ Len(s) = 3 /\ s[1] = x /\ s[2] = y /\ s[3] = z
        /\ <<y, z>> \in Seq(S) /\ Len(<<y, z>>) = 2 /\ <<y, z>>[1] = y /\ <<y, z>>[2] = z
    OBVIOUS
  <2>2. /\ Tail(s) \in Seq(S) /\ Len(Tail(s)) = Len(s) - 1
        /\ \A i \in 1..(Len(s) - 1) : Tail(s)[i] = s[i + 1]
    BY <2>1, HeadAndTail
  <2> HIDE DEF s, S
  <2>3. Len(Tail(s)) = Len(<<y, z>>) /\ Len(Tail(s)) = 2
    BY <2>1, <2>2
  <2>5. Tail(s)[1] = y
    <3>1. 1 \in 1..(Len(s) - 1) /\ 1 + 1 = 2
      BY <2>1
    <3> QED BY <2>1, <2>2, <3>1
  <2>6. Tail(s)[2] = z
    <3>1. 2 \in 1..(Len(s) - 1) /\ 2 + 1 = 3
      BY <2>1
    <3> QED BY <2>1, <2>2, <3>1
  <2>7. \A i \in 1..2 : i = 1 \/ i = 2
    OBVIOUS
  <2>4. Tail(s) = <<y, z>>
    BY <2>1, <2>2, <2>3, <2>5, <2>6, <2>7, SeqEqual
  <2> QED BY <2>1, <2>4 DEF s
<1> QED BY <1>1, <1>2, <1>3

(* A sequence that closes what it opens does so behind a head without a weight. *)
LEMMA EvenTail ==
  ASSUME NEW S, NEW K, NEW s, Even(s, S, K), s # <<>>,
         \A k \in K : Weight(k, s[1]) = 0
  PROVE  Even(Tail(s), S, K)
<1>1. s \in Seq(S) /\ Tail(s) \in Seq(S)
  BY HeadAndTail DEF Even
<1>2. ASSUME NEW k \in K PROVE Opens(k, Tail(s), 0)
  <2>1. Opens(k, s, 0) /\ 0 \in Int /\ 0 - 0 = 0
    BY DEF Even
  <2>2. Opens(k, Tail(s), 0 - Weight(k, s[1]))
    BY <1>1, <2>1, OpensTail, Zenon
  <2> QED BY <2>1, <2>2
<1> QED BY <1>1, <1>2 DEF Even

(* The second element is the head of the tail. *)
LEMMA SecondHead ==
  ASSUME NEW S, NEW s \in Seq(S), Len(s) = 17
  PROVE  Tail(s) # <<>> /\ Tail(s)[1] = s[2]
<1>1. \A v \in Seq(S) : v = <<>> => Len(v) = 0
  OBVIOUS
<1>2. s # <<>>
  <2>1. s = <<>> => Len(s) = 0
    BY <1>1, Zenon
  <2>2. Len(s) # 0
    OBVIOUS
  <2> QED BY <2>1, <2>2, Zenon
<1>3. /\ Tail(s) \in Seq(S) /\ Len(Tail(s)) = Len(s) - 1
      /\ \A i \in 1..(Len(s) - 1) : Tail(s)[i] = s[i + 1]
  BY <1>2, HeadAndTail
<1>4. 17 - 1 # 0 /\ 1 \in 1..(17 - 1) /\ 1 + 1 = 2
  OBVIOUS
<1>5. Tail(s) # <<>>
  BY <1>1, <1>3, <1>4
<1>6. Tail(s)[1] = s[2]
  BY <1>3, <1>4
<1> QED BY <1>5, <1>6

(* The functions' headings, main's and what is behind them close what they open. *)
LEMMA HeadingParts ==
  ASSUME c \in Lex, n \in Lex
  PROVE  /\ Items("n_func") = Function /\ Items("n_mainbody") = Main
         /\ Even(Function, Late, Kinds) /\ Even(Tail(Function), Late, Kinds)
         /\ Even(Tail(Tail(Function)), Late, Kinds) /\ Even(Main, Late, Kinds)
         /\ Even(Tail(Main), Late, Kinds) /\ Even(Rest, Late, Kinds)
         /\ Even(<<"T_EOF">>, Late, Kinds)
         /\ Function # <<>> /\ Function[1] = "sync5"
         /\ Tail(Function) # <<>> /\ Tail(Function)[1] = "scope"
         /\ Main # <<>> /\ Main[1] = "scope"
         /\ <<"n_mainbody", "T_EOF">> \in Seq(Late)
<1>1. Items("n_func") = Function /\ Items("n_mainbody") = Main
  BY DEF Items, TypeItems, FuncItems, More, Function, Main
<1>2. "n_func" \in LateProds /\ "n_mainbody" \in LateProds
  BY DEF LateProds, FuncNames
<1>3. Even(Function, Late, Kinds) /\ Even(Main, Late, Kinds)
  BY <1>1, <1>2, LateStep
<1>4. Function # <<>> /\ Function[1] = "sync5" /\ Main # <<>> /\ Main[1] = "scope"
      /\ Function[2] = "scope" /\ Len(Function) = 17
  BY DEF Function, Main
<1>5. \A k \in Kinds : Weight(k, "sync5") = 0 /\ Weight(k, "scope") = 0
  BY DEF Kinds, Weight
<1>6. Even(Tail(Function), Late, Kinds) /\ Even(Tail(Main), Late, Kinds)
  BY <1>3, <1>4, <1>5, EvenTail
<1>7. Tail(Function) # <<>> /\ Tail(Function)[1] = "scope"
  <2>1. Function \in Seq(Late)
    BY <1>3 DEF Even
  <2> QED BY <1>4, <2>1, SecondHead
<1>8. Even(Tail(Tail(Function)), Late, Kinds)
  BY <1>5, <1>6, <1>7, EvenTail
<1>9. Even(Rest, Late, Kinds)
  <2>1. Rest \in Seq(Late)
    BY DEF Rest, Late, Common, Lex, FuncNames
  <2>2. \A k \in Kinds : \A i \in 1..Len(Rest) : Weight(k, Rest[i]) = 0
    BY DEF Rest, Kinds, Weight
  <2> QED BY <2>1, <2>2, EvenFlat
<1>10. Even(<<"T_EOF">>, Late, Kinds) /\ <<"n_mainbody", "T_EOF">> \in Seq(Late)
  <2>1. <<"T_EOF">> \in Seq(Late) /\ <<"n_mainbody", "T_EOF">> \in Seq(Late)
    BY DEF Late, Common, Lex
  <2>2. \A k \in Kinds : \A i \in 1..Len(<<"T_EOF">>) : Weight(k, <<"T_EOF">>[i]) = 0
    BY DEF Kinds, Weight
  <2> QED BY <2>1, <2>2, EvenFlat
<1> QED BY <1>1, <1>3, <1>4, <1>6, <1>7, <1>8, <1>9, <1>10

(* From a heading the parser goes on to the next one, or into a body. *)
LEMMA HeadingStep ==
  ASSUME TypeOK, StackTyped, ~recovering, ~recovering', scope = 0, open.end = 0,
         \A k \in Brackets : open[k] = 0, todo \in Headings, Running, Next
  PROVE  BeforeHeading' \/ WithinBody'
<1>0. c \in Lex /\ n \in Lex
  BY Given
<1>1. \A k \in Kinds : open[k] = 0
  BY DEF Kinds, Brackets
<1>2. ASSUME todo' \in Headings, scope' = 0, open' = open PROVE BeforeHeading'
  <2>1. <<>> \in Seq(Early) /\ <<>> \o todo' = todo'
    <3>1. todo' \in Seq(Names)
      BY TypeStep DEF TypeOK
    <3> QED BY <3>1, ConcatEmptySeq
  <2>2. \A k \in Brackets : -open'[k] = 0
    BY <1>2
  <2>3. \A k \in Brackets : Opens(k, <<>>, -open'[k])
    BY <2>2, OpensNone
  <2> QED BY <1>2, <2>1, <2>3 DEF BeforeHeading
<1>3. ASSUME Even(todo', Late, Kinds), scope' = scope + 1, open' = open PROVE WithinBody'
  <2>1. \A k \in Kinds : -open'[k] = 0
    BY <1>1, <1>3
  <2>2. \A k \in Kinds : Opens(k, todo', -open'[k])
    BY <1>3, <2>1 DEF Even
  <2> QED BY <1>3, <2>2 DEF WithinBody, Even
<1>4. /\ Rest \in Seq(Late) /\ Function \in Seq(Late) /\ Tail(Function) \in Seq(Late)
      /\ Main \in Seq(Late) /\ <<"T_EOF">> \in Seq(Late) /\ <<"n_func">> \in Seq(Late)
  BY <1>0, HeadingParts DEF Even, Late, FuncNames
<1>5. Now = todo[1] /\ <<>> \o Tail(todo) = Tail(todo)
  BY Stack
<1>6. ASSUME Now \in SyncNames \cup {"scope"}
      PROVE  /\ todo' = Tail(todo) /\ open' = open
             /\ Now \in SyncNames => scope' = scope
             /\ Now = "scope" => scope' = scope + 1
  <2>1. /\ Now \notin Lex /\ Now \notin Marks \ {"scope"}
        /\ (Now = "scope" => Now \notin SyncNames)
    BY <1>6, SyncsNamed DEF Lex, TokenTypes, Types, AsgnOps, RelOps, LogOps, ArithOps,
       Literals, StatStart, Marks
  <2>2. Sync \/ EnterScope
    BY <1>0, <1>6, <2>1 DEF Next, Match, Panic, Pass, Mismatch, Fail, Abort, Report, Skip,
       Declare, Step, Resync, GiveUp, Accept, Done, Running, Lex, Marks, SyncNames
  <2> QED BY <1>5, <2>1, <2>2 DEF Sync, EnterScope, GoOn, SyncNames
<1>7. ASSUME Now \in {"n_funcs", "n_func", "n_mainbody"}
      PROVE  /\ todo' = Items(Now) \o Tail(todo) /\ open' = open /\ scope' = scope
  <2>1. Now \notin Lex \cup SyncNames \cup Marks \cup RestNames
    BY <1>7, SyncsNamed DEF Lex, TokenTypes, Types, AsgnOps, RelOps, LogOps, ArithOps,
       Literals, StatStart, Marks, RestNames
  <2>2. Step
    BY <1>0, <2>1 DEF Next, Match, Panic, Pass, Mismatch, Fail, Abort, Report, Skip, Sync,
       EnterScope, Declare, Resync, GiveUp, Accept, Done, Running, Lex, Marks, SyncNames
  <2> QED BY <2>1, <2>2 DEF Step, GoOn
<1>8. CASE todo = Rest
  <2>1. Now = "n_funcs" /\ Tail(todo) = <<"n_mainbody", "T_EOF">>
    BY <1>5, <1>8, TailOfTuple DEF Rest
  <2>2. Items("n_funcs") = Opt(c = "TFUNC", <<"n_func", "n_funcs">>)
    BY DEF Items, TypeItems, FuncItems, More
  <2>3. <<"n_mainbody", "T_EOF">> \in Seq(Late)
    BY <1>0, HeadingParts
  <2>4. CASE c = "TFUNC"
    <3>1. todo' = <<"n_func", "n_funcs">> \o <<"n_mainbody", "T_EOF">>
      BY <1>7, <2>1, <2>2, <2>4 DEF Opt
    <3>2. <<"n_func", "n_funcs">> \o <<"n_mainbody", "T_EOF">> = <<"n_func">> \o Rest
      <4>1. <<"n_func">> \o <<"n_funcs">> = <<"n_func", "n_funcs">>
        BY PairOf
      <4>2. <<"n_funcs">> \o <<"n_mainbody", "T_EOF">> = Rest
        <5>1. /\ <<"n_funcs">> \in Seq(Late) /\ <<"n_mainbody", "T_EOF">> \in Seq(Late)
              /\ Len(<<"n_funcs">>) = 1 /\ Len(<<"n_mainbody", "T_EOF">>) = 2
          BY <2>3 DEF Late, FuncNames
        <5> DEFINE u == <<"n_funcs">> \o <<"n_mainbody", "T_EOF">>
        <5>2. /\ u \in Seq(Late) /\ Len(u) = 3 /\ u[1] = "n_funcs"
              /\ u[2] = "n_mainbody" /\ u[3] = "T_EOF"
          BY <5>1
        <5>3. Rest \in Seq(Late) /\ Len(Rest) = 3 /\ Rest[1] = "n_funcs"
              /\ Rest[2] = "n_mainbody" /\ Rest[3] = "T_EOF"
          BY <1>4 DEF Rest
        <5>4. \A i \in 1..3 : i = 1 \/ i = 2 \/ i = 3
          OBVIOUS
        <5> HIDE DEF u
        <5>5. u = Rest
          BY <5>2, <5>3, <5>4, SeqEqual
        <5> QED BY <5>5 DEF u
      <4>3. <<"n_func">> \in Seq(Late) /\ <<"n_funcs">> \in Seq(Late)
        BY DEF Late, FuncNames
      <4> DEFINE f == <<"n_func">>
                 g == <<"n_funcs">>
                 h == <<"n_mainbody", "T_EOF">>
      <4>4. (f \o g) \o h = f \o (g \o h)
        <5>1. f \in Seq(Late) /\ g \in Seq(Late) /\ h \in Seq(Late)
          BY <2>3, <4>3
        <5> HIDE DEF f, g, h
        <5> QED BY <5>1, ConcatAssociative
      <4> HIDE DEF h
      <4>5. f \o g = <<"n_func", "n_funcs">> /\ g \o h = Rest
        BY <4>1, <4>2 DEF h
      <4> HIDE DEF f, g
      <4>6. <<"n_func", "n_funcs">> \o h = f \o Rest
        BY <4>4, <4>5
      <4> QED BY <4>6 DEF f, h
    <3> QED BY <1>2, <1>7, <2>1, <3>1, <3>2 DEF Headings
  <2>5. CASE c # "TFUNC"
    <3>1. todo' = <<>> \o <<"n_mainbody", "T_EOF">>
      BY <1>7, <2>1, <2>2, <2>5 DEF Opt
    <3>2. todo' = <<"n_mainbody", "T_EOF">>
      BY <2>3, <3>1, ConcatEmptySeq
    <3> QED BY <1>2, <1>7, <2>1, <3>2 DEF Headings
  <2> QED BY <2>4, <2>5
<1>9. CASE todo = <<"n_func">> \o Rest
  <2>1. <<"n_func">> # <<>> /\ <<"n_func">>[1] = "n_func" /\ Tail(<<"n_func">>) = <<>>
    BY TailOfTuple
  <2>2. Now = "n_func" /\ Tail(todo) = <<>> \o Rest
    BY <1>4, <1>5, <1>9, <2>1, TailOfConcat, SMTT(30)
  <2>3. Tail(todo) = Rest
    BY <1>4, <2>2, ConcatEmptySeq
  <2>4. todo' = Function \o Rest
    BY <1>0, <1>7, <2>2, <2>3, HeadingParts
  <2> QED BY <1>2, <1>7, <2>2, <2>4 DEF Headings
<1>10. CASE todo = Function \o Rest
  <2>1. Now = "sync5" /\ Tail(todo) = Tail(Function) \o Rest
    BY <1>0, <1>4, <1>5, <1>10, HeadingParts, TailOfConcat, SMTT(30)
  <2>2. todo' = Tail(Function) \o Rest /\ scope' = 0 /\ open' = open
    BY <1>6, <2>1, SyncsNamed
  <2> QED BY <1>2, <2>2 DEF Headings
<1>11. CASE todo = Tail(Function) \o Rest
  <2>1. Now = "scope" /\ Tail(todo) = Tail(Tail(Function)) \o Rest
    BY <1>0, <1>4, <1>5, <1>11, HeadingParts, TailOfConcat, ZenonT(60)
  <2>2. todo' = Tail(Tail(Function)) \o Rest /\ scope' = scope + 1 /\ open' = open
    BY <1>6, <2>1
  <2>3. Even(todo', Late, Kinds)
    BY <1>0, <2>2, HeadingParts, EvenConcat
  <2> QED BY <1>3, <2>2, <2>3
<1>12. CASE todo = <<"n_mainbody", "T_EOF">>
  <2>1. Now = "n_mainbody" /\ Tail(todo) = <<"T_EOF">>
    BY <1>5, <1>12, TailOfTuple
  <2>2. todo' = Main \o <<"T_EOF">>
    BY <1>0, <1>7, <2>1, HeadingParts
  <2> QED BY <1>2, <1>7, <2>1, <2>2 DEF Headings
<1>13. CASE todo = Main \o <<"T_EOF">>
  <2>1. Now = "scope" /\ Tail(todo) = Tail(Main) \o <<"T_EOF">>
    BY <1>0, <1>4, <1>5, <1>13, HeadingParts, TailOfConcat, SMTT(30)
  <2>2. todo' = Tail(Main) \o <<"T_EOF">> /\ scope' = scope + 1 /\ open' = open
    BY <1>6, <2>1
  <2>3. Even(todo', Late, Kinds)
    BY <1>0, <2>2, HeadingParts, EvenConcat
  <2> QED BY <1>3, <2>2, <2>3
<1> QED BY <1>8, <1>9, <1>10, <1>11, <1>12, <1>13 DEF Headings

(* What a step that reports no error does to the stack. *)
Takes ==
  /\ Now \in Lex \cup SyncNames \cup Marks /\ todo' = Tail(todo)
  /\ scope' = IF Now = "scope" THEN scope + 1 ELSE scope
  /\ \A k \in Kinds : open'[k] = open[k] + (IF k = "end" /\ scope = 0 THEN 0
                                            ELSE Weight(k, Now))

Replaces ==
  /\ Now \notin Lex \cup SyncNames \cup Marks \cup RestNames
  /\ todo' = Items(Now) \o Tail(todo) /\ open' = open /\ scope' = scope

(* What is done but a production's items is done once, and counted. *)
LEMMA Moves ==
  ASSUME TypeOK, StackTyped, Blame, ~recovering, ~recovering', Running, Next
  PROVE  Takes \/ Replaces
<1>0. c \in Lex /\ n \in Lex /\ open \in [Kinds -> Int] /\ fresh
  BY Given DEF Blame
<1>1. Now = todo[1] /\ Now \in Grammar /\ <<>> \o Tail(todo) = Tail(todo) /\ todo # <<>>
      /\ outcome = "parsing"
  BY Stack
<1>2. Now \notin RestNames /\ Now # "report"
  BY <1>1, NamesKnown
<1>3. \A k \in Kinds : \A x \in SyncNames \cup Marks : Weight(k, x) = 0
  BY SyncsNamed DEF Weight, Kinds, Marks
<1>4. \A k \in Kinds : open[k] \in Int /\ open[k] + 0 = open[k]
  BY <1>0
<1>5. ASSUME Now \in SyncNames \cup Marks, open' = open PROVE
        \A k \in Kinds : open'[k] = open[k] + (IF k = "end" /\ scope = 0 THEN 0
                                               ELSE Weight(k, Now))
  BY <1>3, <1>4, <1>5
<1>6. CASE Match
  <2>1. /\ Now = c /\ todo' = Tail(todo) /\ scope' = scope
        /\ open' = [k \in DOMAIN open |-> open[k] + Ledger(c)[k]]
    BY <1>1, <1>6 DEF Match, GoOn
  <2>2. \A k \in Kinds : Ledger(c)[k] = (IF k = "end" /\ scope = 0 THEN 0
                                         ELSE Weight(k, c))
    BY LedgerIs
  <2>3. Now # "scope"
    BY <1>0, <2>1 DEF Lex, TokenTypes, Types, AsgnOps, RelOps, LogOps, ArithOps,
         Literals, StatStart
  <2> QED BY <1>0, <2>1, <2>2, <2>3 DEF Takes
<1>7. CASE Sync
  <2>1. /\ Now \in SyncNames /\ todo' = Tail(todo) /\ scope' = scope /\ open' = open
        /\ Now # "scope"
    BY <1>1, <1>7, SyncsNamed DEF Sync, GoOn, SyncNames
  <2> QED BY <1>5, <2>1 DEF Takes
<1>8. CASE EnterScope
  <2>1. /\ Now = "scope" /\ todo' = Tail(todo) /\ scope' = scope + 1 /\ open' = open
        /\ Now \in Marks
    BY <1>1, <1>8 DEF EnterScope, GoOn, Marks
  <2> QED BY <1>5, <2>1 DEF Takes
<1>9. CASE Skip \/ Declare
  <2>1. /\ Now \in Marks /\ Now # "scope" /\ todo' = Tail(todo) /\ scope' = scope
        /\ open' = open
    BY <1>1, <1>9 DEF Skip, Declare, GoOn, Marks
  <2> QED BY <1>5, <2>1 DEF Takes
<1>10. CASE Step
  <2>1. /\ Now \notin Lex \cup SyncNames \cup Marks /\ open' = open /\ scope' = scope
        /\ todo' = Items(Now) \o Tail(todo)
    BY <1>2, <1>10 DEF Step, GoOn, Lex, SyncNames
  <2> QED BY <1>2, <2>1 DEF Replaces
<1> QED
  BY <1>0, <1>1, <1>2, <1>6, <1>7, <1>8, <1>9, <1>10
  DEF Next, Panic, Pass, Fail, Abort, Report, Resync, GiveUp, Accept, Done

(* The items of a sequence, and what they are replaced by. *)
LEMMA OpensReplace ==
  ASSUME NEW k, NEW S, NEW s \in Seq(S), s # <<>>, NEW m \in Int, Opens(k, s, m),
         Weight(k, s[1]) = 0, NEW t \in Seq(S), Opens(k, t, 0)
  PROVE  Opens(k, t \o Tail(s), m)
<1>1. Tail(s) \in Seq(S)
  BY HeadAndTail
<1>2. m - 0 = m /\ 0 + m = m /\ 0 \in Int
  OBVIOUS
<1>3. Opens(k, Tail(s), m - Weight(k, s[1]))
  BY OpensTail
<1>4. Opens(k, Tail(s), m)
  BY <1>2, <1>3
<1>5. Opens(k, t \o Tail(s), 0 + m)
  BY <1>1, <1>2, <1>4, OpensConcat, Zenon
<1> QED BY <1>2, <1>5

(* Within a body what is open is what the stack will close. *)
LEMMA BodyStep ==
  ASSUME TypeOK, StackTyped, Blame, ~recovering, ~recovering', Running, Next,
         WithinBody
  PROVE  WithinBody'
<1>0. /\ c \in Lex /\ n \in Lex /\ scope \in Nat /\ scope > 0 /\ todo \in Seq(Late)
      /\ \A k \in Kinds : open[k] \in Int /\ -open[k] \in Int /\ Opens(k, todo, -open[k])
  BY Given DEF WithinBody
<1>1. Now = todo[1] /\ todo # <<>>
  BY Stack
<1>2. todo[1] \in Late /\ Tail(todo) \in Seq(Late)
  BY <1>0, <1>1, HeadAndTail
<1>3. CASE Takes
  <2>1. todo' = Tail(todo) /\ scope' > 0
    BY <1>0, <1>3 DEF Takes
  <2>2. ASSUME NEW k \in Kinds PROVE Opens(k, todo', -open'[k])
    <3>1. open'[k] = open[k] + Weight(k, Now)
      BY <1>0, <1>3 DEF Takes
    <3>2. Opens(k, Tail(todo), (-open[k]) - Weight(k, todo[1]))
      BY <1>0, <1>1, OpensTail
    <3>3. Weight(k, todo[1]) \in Int
      BY WeightInt
    <3>4. (-open[k]) - Weight(k, todo[1]) = -open'[k]
      BY <1>0, <1>1, <3>1, <3>3
    <3> QED BY <2>1, <3>2, <3>4
  <2> QED BY <1>2, <2>1, <2>2 DEF WithinBody
<1>4. CASE Replaces
  <2> DEFINE p == Now
             t == Items(p)
  <2>1. /\ p \notin Lex \cup SyncNames \cup Marks /\ todo' = t \o Tail(todo)
        /\ open' = open /\ scope' = scope
    BY <1>4 DEF Replaces
  <2>2. p \in LateProds
    BY <1>1, <1>2, <2>1, Productions
  <2> HIDE DEF p
  <2>3. Even(t, Late, Kinds)
    BY <1>0, <2>2, LateStep
  <2> HIDE DEF t
  <2>4. ASSUME NEW k \in Kinds PROVE Opens(k, todo', -open'[k])
    <3>1. Weight(k, todo[1]) = 0
      <4>1. todo[1] \notin Lex
        BY <1>1, <2>1 DEF p
      <4> QED BY <4>1 DEF Weight, Lex, TokenTypes, Types, AsgnOps, RelOps, LogOps, ArithOps,
         Literals, StatStart
    <3>2. t \in Seq(Late) /\ Opens(k, t, 0)
      BY <2>3 DEF Even
    <3>3. Opens(k, t \o Tail(todo), -open[k])
      BY <1>0, <1>1, <3>1, <3>2, OpensReplace
    <3> QED BY <2>1, <3>3
  <2>5. t \o Tail(todo) \in Seq(Late)
    BY <1>2, <2>3, Concatenation DEF Even
  <2> QED BY <1>0, <2>1, <2>4, <2>5 DEF WithinBody
<1> QED BY <1>3, <1>4, Moves

(* Every heading is a stack. *)
LEMMA HeadingsAre ==
  ASSUME c \in Lex, n \in Lex, NEW h \in Headings
  PROVE  h \in Seq(Late)
<1>1. /\ Rest \in Seq(Late) /\ Function \in Seq(Late) /\ Tail(Function) \in Seq(Late)
      /\ Main \in Seq(Late) /\ <<"T_EOF">> \in Seq(Late) /\ <<"n_func">> \in Seq(Late)
      /\ <<"n_mainbody", "T_EOF">> \in Seq(Late)
  BY HeadingParts DEF Even, Late, FuncNames
<1>2. \A s \in Seq(Late), t \in Seq(Late) : s \o t \in Seq(Late)
  BY Concatenation
<1> QED BY <1>1, <1>2 DEF Headings

(* Before a heading the brackets close themselves, until the heading is reached. *)
LEMMA BeforeStep ==
  ASSUME TypeOK, StackTyped, Blame, ~recovering, ~recovering', Running, Next,
         BeforeHeading
  PROVE  BeforeHeading' \/ WithinBody'
<1>0. /\ c \in Lex /\ n \in Lex /\ scope = 0 /\ open.end = 0
      /\ \A k \in Kinds : open[k] \in Int /\ -open[k] \in Int
  BY Given DEF BeforeHeading
<1>1. Now = todo[1] /\ todo # <<>>
  BY Stack
<1>2. PICK a \in Seq(Early), h \in Headings :
        todo = a \o h /\ \A k \in Brackets : Opens(k, a, -open[k])
  BY DEF BeforeHeading
<1>3. Brackets \subseteq Kinds /\ "end" \in Kinds
  BY DEF Brackets, Kinds
<1>4. CASE a = <<>>
  <2>1. todo = h
    <3>1. h \in Seq(Late)
      BY <1>0, HeadingsAre
    <3>2. <<>> \o h = h
      BY <3>1, ConcatEmptySeq
    <3> QED BY <1>2, <1>4, <3>2
  <2>2. ASSUME NEW k \in Brackets PROVE open[k] = 0
    <3>1. -open[k] = 0
      BY <1>2, <1>4, OpensNone
    <3> QED BY <1>0, <1>3, <3>1
  <2> QED BY <1>0, <2>1, <2>2, HeadingStep
<1>5. CASE a # <<>>
  <2>1. /\ a \in Seq(Names) /\ h \in Seq(Names) /\ Early \subseteq Names
    <3>1. Early \subseteq Names /\ Late \subseteq Names
      BY NamesKnown
    <3>2. h \in Seq(Late)
      BY <1>0, HeadingsAre
    <3> QED BY <3>1, <3>2, Widen
  <2>2. todo[1] = a[1] /\ Tail(todo) = Tail(a) \o h
    BY <1>2, <1>5, <2>1, TailOfConcat
  <2>3. a[1] \in Early /\ Tail(a) \in Seq(Early)
    BY <1>5, HeadAndTail
  <2>4. Now = a[1] /\ Now # "scope"
    <3>1. "scope" \notin Early
      BY DEF Early, Common, Lex, TokenTypes, Types, AsgnOps, RelOps, LogOps, ArithOps,
         Literals, StatStart, ValueNames, ExprNames
    <3> QED BY <1>1, <2>2, <2>3, <3>1
  <2>5. CASE Takes
    <3>1. todo' = Tail(a) \o h /\ scope' = 0 /\ open'.end = 0
      <4>1. open'["end"] = open["end"] + 0
        BY <1>0, <1>3, <2>5 DEF Takes
      <4> QED BY <1>0, <2>2, <2>4, <2>5, <4>1 DEF Takes
    <3>2. ASSUME NEW k \in Brackets PROVE Opens(k, Tail(a), -open'[k])
      <4>1. k \in Kinds /\ k # "end"
        BY DEF Brackets, Kinds
      <4>2. open'[k] = open[k] + Weight(k, Now)
        BY <4>1, <2>5 DEF Takes
      <4>3. open[k] \in Int /\ -open[k] \in Int /\ Opens(k, a, -open[k])
        BY <1>0, <1>2, <4>1
      <4>4. Opens(k, Tail(a), (-open[k]) - Weight(k, a[1]))
        BY <1>5, <4>3, OpensTail
      <4>5. Weight(k, a[1]) \in Int
        BY WeightInt
      <4>6. (-open[k]) - Weight(k, a[1]) = -open'[k]
        BY <2>4, <4>2, <4>3, <4>5
      <4> QED BY <4>4, <4>6
    <3> QED BY <2>3, <3>1, <3>2 DEF BeforeHeading
  <2>6. CASE Replaces
    <3> DEFINE p == Now
               t == Items(p)
    <3>1. /\ p \notin Lex \cup SyncNames \cup Marks /\ todo' = t \o Tail(todo)
          /\ open' = open /\ scope' = 0
      BY <1>0, <2>6 DEF Replaces
    <3>2. p \in EarlyProds
      BY <2>3, <2>4, <3>1, Productions
    <3>3. p = a[1]
      BY <2>4
    <3> HIDE DEF p
    <3>4. Even(t, Early, Brackets)
      BY <1>0, <3>2, EarlyStep
    <3> HIDE DEF t
    <3>5. ASSUME NEW k \in Brackets PROVE Opens(k, t \o Tail(a), -open'[k])
      <4>1. Weight(k, a[1]) = 0
        BY <3>1, <3>3 DEF Weight, Lex, TokenTypes, Types, AsgnOps, RelOps, LogOps, ArithOps,
         Literals, StatStart
      <4>2. t \in Seq(Early) /\ Opens(k, t, 0)
        BY <3>4 DEF Even
      <4>3. -open[k] \in Int /\ Opens(k, a, -open[k])
        BY <1>0, <1>2, <1>3
      <4>4. Opens(k, t \o Tail(a), -open[k])
        BY <1>5, <4>1, <4>2, <4>3, OpensReplace
      <4> QED BY <3>1, <4>4
    <3>6. t \in Seq(Early) /\ t \o Tail(a) \in Seq(Early)
      BY <2>3, <3>4, Concatenation DEF Even
    <3>7. todo' = (t \o Tail(a)) \o h
      <4> DEFINE r == Tail(a)
      <4>1. t \in Seq(Names) /\ r \in Seq(Names)
        BY <2>1, <2>3, <3>6, Widen
      <4>2. todo' = t \o (r \o h)
        BY <2>2, <3>1
      <4> HIDE DEF r
      <4>3. (t \o r) \o h = t \o (r \o h)
        BY <2>1, <4>1, ConcatAssociative
      <4> QED BY <4>2, <4>3 DEF r
    <3> DEFINE b == t \o Tail(a)
    <3>8. b \in Seq(Early) /\ todo' = b \o h /\ \A k \in Brackets : Opens(k, b, -open'[k])
      BY <3>5, <3>6, <3>7
    <3> HIDE DEF b
    <3> QED BY <1>0, <3>1, <3>8 DEF BeforeHeading
  <2> QED BY <2>5, <2>6, Moves
<1> QED BY <1>4, <1>5

(* The program begins with its name, before any heading. *)
LEMMA StartStep ==
  ASSUME TypeOK, StackTyped, Blame, ~recovering, ~recovering', Running, Next, AtStart
  PROVE  BeforeHeading'
<1>1. Now = todo[1] /\ todo = <<"n_program">> /\ scope = 0 /\ open = Closed
  BY Stack DEF AtStart
<1>2. Now = "n_program" /\ Tail(todo) = <<>>
  BY <1>1, TailOfTuple
<1>3. Now \notin Lex \cup SyncNames \cup Marks
  BY <1>2, SyncsNamed DEF Lex, TokenTypes, Types, AsgnOps, RelOps, LogOps, ArithOps,
         Literals, StatStart, Marks
<1>4. todo' = Items(Now) \o Tail(todo) /\ open' = open /\ scope' = scope
  BY <1>3, Moves DEF Takes, Replaces
<1>5. todo' = Program
  BY <1>2, <1>4, ProgramItems, ConcatEmptySeq
<1> DEFINE a == <<"TCD25", "TIDEN", "globals">>
           u == a \o Rest
<1>6. a \in Seq(Early) /\ \A k \in Brackets : \A i \in 1..Len(a) : Weight(k, a[i]) = 0
  BY DEF Early, Common, Lex, TokenTypes, Types, AsgnOps, RelOps, LogOps, ArithOps,
         Literals, StatStart, Brackets, Weight
<1>7. Program = u
  <2>1. /\ a \in Seq(Grammar) /\ Rest \in Seq(Grammar) /\ Program \in Seq(Grammar)
        /\ Len(a) = 3 /\ Len(Rest) = 3 /\ Len(Program) = 6
        /\ a[1] = Program[1] /\ a[2] = Program[2] /\ a[3] = Program[3]
        /\ Rest[1] = Program[4] /\ Rest[2] = Program[5] /\ Rest[3] = Program[6]
    <3>1. Rest \in Seq(Grammar) /\ a \in Seq(Grammar)
      BY DEF Rest, Grammar, Lex, TokenTypes, Types, AsgnOps, RelOps, LogOps, ArithOps,
         Literals, StatStart, FuncNames, TopNames
    <3> QED BY <3>1, ProgramItems DEF Rest, Program
  <2> HIDE DEF a
  <2>2. /\ u \in Seq(Grammar) /\ Len(u) = 6
        /\ \A i \in 1..3 : u[i] = a[i]
        /\ \A i \in 4..6 : u[i] = Rest[i - 3]
    <3>1. a \in Seq(Grammar) /\ Rest \in Seq(Grammar)
      BY <2>1
    <3>2. /\ u \in Seq(Grammar) /\ Len(u) = Len(a) + Len(Rest)
          /\ \A i \in 1..Len(a) : u[i] = a[i]
          /\ \A i \in (Len(a) + 1)..(Len(a) + Len(Rest)) : u[i] = Rest[i - Len(a)]
      BY ONLY <3>1, Concatenation
    <3> HIDE DEF u
    <3>3. 3 + 3 = 6 /\ 3 + 1 = 4
      OBVIOUS
    <3> QED BY <2>1, <3>2, <3>3
  <2> HIDE DEF u
  <2>3. u[1] = Program[1] /\ u[2] = Program[2] /\ u[3] = Program[3]
    BY <2>1, <2>2
  <2>4. u[4] = Program[4] /\ u[5] = Program[5] /\ u[6] = Program[6]
    <3>1. u[4] = Rest[4 - 3] /\ u[5] = Rest[5 - 3] /\ u[6] = Rest[6 - 3]
      BY <2>2
    <3>2. 4 - 3 = 1 /\ 5 - 3 = 2 /\ 6 - 3 = 3
      OBVIOUS
    <3> QED BY <2>1, <3>1, <3>2
  <2>5. \A i \in 1..6 : i = 1 \/ i = 2 \/ i = 3 \/ i = 4 \/ i = 5 \/ i = 6
    OBVIOUS
  <2> QED BY <2>1, <2>2, <2>3, <2>4, <2>5, SeqEqual
<1> HIDE DEF a
<1>8. scope' = 0 /\ open'.end = 0 /\ \A k \in Brackets : open'[k] = 0
  BY <1>1, <1>4 DEF Closed, Brackets
<1>9. \A k \in Brackets : -open'[k] = 0
  BY <1>8
<1>10. \A k \in Brackets : Opens(k, a, 0)
  BY <1>6, OpensFlat
<1>11. \A k \in Brackets : Opens(k, a, -open'[k])
  BY <1>9, <1>10
<1> QED BY <1>5, <1>6, <1>7, <1>8, <1>11 DEF BeforeHeading, Headings

(* What is open, and what is left to close it. *)
LEMMA BalanceStep ==
  ASSUME TypeOK, StackTyped, Blame, Balance, [Next]_parserVars
  PROVE  Balance'
<1> SUFFICES ASSUME ~recovering' PROVE AtStart' \/ BeforeHeading' \/ WithinBody'
  BY DEF Balance
<1>1. CASE UNCHANGED parserVars \/ Accept
  <2>1. todo' = todo /\ scope' = scope /\ open' = open /\ recovering' = recovering
    BY <1>1 DEF parserVars, Accept
  <2> QED BY <2>1 DEF Balance, AtStart, BeforeHeading, WithinBody
<1>2. CASE Next /\ ~(UNCHANGED parserVars) /\ ~Accept
  <2>1. ~recovering
    <3>1. recovering' = recovering \/ recovering' = TRUE
      BY <1>2 DEF Next, Match, Panic, Pass, Fail, Abort, Report, Skip, Sync, EnterScope,
         Declare, Step, Resync, GiveUp, Done
    <3> QED BY <3>1, Given
  <2>2. Running
    BY <1>2, <2>1 DEF Next, Match, Panic, Pass, Mismatch, Fail, Abort, Report, Skip, Sync,
       EnterScope, Declare, Step, Resync, GiveUp, Done
  <2> QED BY <1>2, <2>1, <2>2, StartStep, BeforeStep, BodyStep DEF Balance
<1> QED BY <1>1, <1>2

(***************************************************************************)
(* The theorems.                                                           *)
(***************************************************************************)
(* The parser starts with the program on its stack and nothing read of it. *)
LEMMA Starts == Init => IInv
<1> SUFFICES ASSUME Init PROVE IInv
  OBVIOUS
<1>1. /\ todo = <<"n_program">> /\ progress = 0 /\ scope = 0 /\ open = Closed
      /\ c \in Tokens \cup {"T_EOF"} /\ n \in Tokens \cup {"T_EOF"}
      /\ c = "T_EOF" => n = "T_EOF"
      /\ fresh = TRUE /\ recovering = FALSE /\ valid = TRUE /\ reported = FALSE
      /\ outcome = "parsing"
  BY DEF Init
<1>2. "n_program" \in Grammar /\ Grammar \subseteq Names
  BY NamesKnown DEF Grammar, TopNames
<1>3. todo \in Seq(Grammar) /\ todo \in Seq(Names)
  BY <1>1, <1>2
<1>4. TypeOK
  <2>1. Closed \in [{"paren", "brkt", "end"} -> Int]
    BY DEF Closed
  <2>2. /\ {c, n} \subseteq Tokens \cup {"T_EOF"}
        /\ {fresh, recovering, valid, reported} \subseteq BOOLEAN
    BY <1>1
  <2>3. /\ progress \in {0, 1, 2, 3, 5, 6, 8, 9, 11, 12} /\ scope \in Nat
        /\ outcome \in {"parsing", "tree", "null"}
    BY <1>1
  <2> QED BY <1>1, <1>3, <2>1, <2>2, <2>3 DEF TypeOK
<1>5. Ordered
  <2>1. Len(todo) = 1 /\ todo[1] = "n_program" /\ DOMAIN todo = 1..1
    BY <1>1
  <2>2. progress <= Latest("n_program")
    BY <1>1 DEF Latest
  <2>3. \A i \in 1..1 : i = 1
    OBVIOUS
  <2> QED BY <2>1, <2>2, <2>3 DEF Ordered, Orderly
<1>6. StackTyped /\ Blame /\ EndAsked /\ Balance
  BY <1>1, <1>3 DEF StackTyped, Blame, EndAsked, Balance, AtStart
<1> QED BY <1>4, <1>5, <1>6 DEF IInv

(* Whatever is read, the stack stays typed, in order and, before an error,
   balanced with what is open: every step of the parser and of its recovery keeps
   the conjunction. *)
THEOREM Inductive == Spec => []IInv
<1>1. IInv /\ [Next]_parserVars => IInv'
  BY TypeStep, BlameStep, EndStep, OrderStep, BalanceStep DEF IInv
<1> QED BY Starts, <1>1, PTL DEF Spec

(* The stack holds nothing that no case of the parser is for, and p->progress is
   always a number that error_recovery has a case for. *)
THEOREM TypeCorrect == Spec => []TypeOK
<1>1. IInv => TypeOK
  BY DEF IInv
<1> QED BY <1>1, Inductive, PTL

(* Whatever becomes of a file, it has been read to its end. *)
THEOREM WholeFile == Spec => []WholeFileRead
<1>1. IInv => WholeFileRead
  <2> SUFFICES ASSUME IInv, outcome # "parsing" PROVE c = "T_EOF" /\ n = "T_EOF"
    BY DEF WholeFileRead
  <2>1. outcome = "tree" \/ outcome = "null"
    BY DEF IInv, TypeOK
  <2>2. todo = <<>>
    BY DEF IInv, Blame
  <2>3. todo # <<"n_program">>
    BY <2>2, TailOfTuple
  <2>4. c = "T_EOF"
    BY <2>1, <2>2, <2>3 DEF IInv, Blame, EndAsked
  <2> QED BY <2>4 DEF IInv, EndAsked
<1> QED BY <1>1, Inductive, PTL

(* A program is rejected exactly when the lister has a syntax error for it: the
   parser reports nothing without recovering, and what recovers ends without a
   tree. *)
THEOREM VerdictRight == Spec => []VerdictMatchesReports
<1>1. IInv => VerdictMatchesReports
  BY DEF IInv, TypeOK, Blame, VerdictMatchesReports
<1> QED BY <1>1, Inductive, PTL

(* What an accepted program opens it closes. *)
THEOREM Balanced == Spec => []AcceptedIsBalanced
<1>1. IInv => AcceptedIsBalanced
  <2> SUFFICES ASSUME IInv, outcome = "tree" PROVE open = Closed
    BY DEF AcceptedIsBalanced
  <2>1. /\ ~recovering /\ todo = <<>> /\ TypeOK /\ Balance
    BY DEF IInv, Blame
  <2>2. ~AtStart
    BY <2>1, TailOfTuple DEF AtStart
  <2>3. ~BeforeHeading
    <3>1. SUFFICES ASSUME NEW a \in Seq(Early), NEW h \in Headings, todo = a \o h
                   PROVE  FALSE
      BY DEF BeforeHeading
    <3>2. c \in Lex /\ n \in Lex
      BY <2>1, Given
    <3>3. /\ h \in Seq(Late) /\ h # <<>>
      <4>1. h \in Seq(Late)
        BY <3>2, HeadingsAre
      <4>2. /\ Rest \in Seq(Late) /\ Function \in Seq(Late) /\ Tail(Function) \in Seq(Late)
            /\ Main \in Seq(Late) /\ <<"T_EOF">> \in Seq(Late) /\ <<"n_func">> \in Seq(Late)
            /\ Function # <<>> /\ Tail(Function) # <<>> /\ Main # <<>>
        BY <3>2, HeadingParts DEF Even, Late, FuncNames
      <4>3. <<"n_func">> # <<>> /\ Rest # <<>> /\ <<"n_mainbody", "T_EOF">> # <<>>
        BY TailOfTuple DEF Rest
      <4>4. \A s \in Seq(Late), t \in Seq(Late) : s # <<>> => s \o t # <<>>
        BY TailOfConcat
      <4> QED BY <4>1, <4>2, <4>3, <4>4 DEF Headings
    <3>4. a \in Seq(Names) /\ h \in Seq(Names)
      <4>1. Early \subseteq Names /\ Late \subseteq Names
        BY NamesKnown
      <4> QED BY <3>3, <4>1, Widen
    <3>5. CASE a = <<>>
      BY <2>1, <3>1, <3>3, <3>4, <3>5, ConcatEmptySeq
    <3>6. CASE a # <<>>
      BY <2>1, <3>1, <3>4, <3>6, TailOfConcat
    <3> QED BY <3>5, <3>6
  <2>4. WithinBody
    BY <2>1, <2>2, <2>3 DEF Balance
  <2>5. ASSUME NEW k \in Kinds PROVE open[k] = 0
    <3>1. Opens(k, <<>>, -open[k]) /\ open[k] \in Int
      BY <2>1, <2>4, Given DEF WithinBody
    <3>2. -open[k] = 0
      BY <3>1, OpensNone
    <3> QED BY <3>1, <3>2
  <2>6. open \in [Kinds -> Int]
    BY <2>1, Given
  <2>7. Closed \in [Kinds -> Int] /\ \A k \in Kinds : Closed[k] = 0
    BY DEF Closed, Kinds
  <2> QED BY <2>5, <2>6, <2>7
<1> QED BY <1>1, Inductive, PTL

(* The sections follow each other in the order of the grammar, also while errors
   are recovered from: what is on the stack is never behind where the parser is. *)
THEOREM SectionsInOrder == Spec => SectionsForward
<1>1. IInv /\ [Next]_parserVars
      => [progress' >= progress \/ (progress < 11 /\ progress' = 5)]_parserVars
  BY OrderStep DEF IInv
<1> QED BY <1>1, Inductive, PTL DEF Spec, SectionsForward
=============================================================================
