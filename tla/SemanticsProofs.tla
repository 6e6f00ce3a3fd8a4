--------------------------- MODULE SemanticsProofs ---------------------------
(***************************************************************************)
(* Theorems of Semantics: for every set of declarations and every program  *)
(* over them, however deep its expressions.                                *)
(*                                                                         *)
(* The invariant speaks of one node at a time (Good, Typed), so that each  *)
(* kind of node has a lemma of its own: if its children are good, so is    *)
(* it.                                                                     *)
(***************************************************************************)
EXTENDS Semantics, TLAPS

(* What is said of a node agrees with what it is. *)
Good(n) ==
  /\ n.meant # Wrong => ~n.reported /\ (n.crashed => n.negated)
  /\ Sound(n) => n.meant # Wrong
  /\ n.checked => n.reported \/ n.crashed

(* An expression that is right has the type that it is meant to have, and its
   name leads to the rest of it; its constants are what they are taken for. *)
Typed(n) ==
  n.meant # Wrong =>
    /\ n.meant = Of(n.type, n.meant.of) /\ n.type # "SERROR"
    /\ n.type \in Primitive => n.meant.of = NULL
    /\ n.type = "SARRAY" => Attribute(n.name).data = n.meant.of /\ Known(n.name)
    /\ n.type = "SSTRUCT" => n.name = n.meant.of /\ Known(n.name)
    /\ n.ints => n.meant \in {Integer, Bool}
    /\ n.meant = Integer => (n.ints <=> n.compiletime)

(* A sequence of good expressions. *)
Goods(s) == /\ s \in Seq({s[k] : k \in DOMAIN s})
            /\ \A k \in DOMAIN s : Good(s[k]) /\ Typed(s[k])

(* The inductive invariant. *)
IInv == Goods(stack) /\ Good(stat)
-----------------------------------------------------------------------------
(* The types of the language are what they are called. *)
LEMMA Types ==
  /\ \A t, e : Of(t, e).type = t /\ Of(t, e).of = e
  /\ \A t, e : Of(t, e) = Wrong <=> t = "SERROR" /\ e = NULL
  /\ \A t, e : Of(t, e) = Integer <=> t = "SINT" /\ e = NULL
  /\ \A t, e : Of(t, e) = Float <=> t = "SREAL" /\ e = NULL
  /\ \A t, e : Of(t, e) = Bool <=> t = "SBOOL" /\ e = NULL
  /\ \A t, e : Of(t, e) = Void <=> t = "SVOID" /\ e = NULL
BY DEF Of, Wrong, Integer, Float, Bool, Void

(* What the node above is told by each of its children. *)
Over(n, kids, report, crash, meant, checked) ==
  /\ n.meant = IF Right(kids) THEN meant ELSE Wrong
  /\ n.reported <=> report \/ \E k \in DOMAIN kids : kids[k].reported
  /\ n.crashed <=> crash \/ \E k \in DOMAIN kids : kids[k].crashed
  /\ n.checked <=> \/ Right(kids) /\ meant = Wrong /\ checked
                   \/ \E k \in DOMAIN kids : kids[k].checked
  /\ n.unchecked <=> \/ Right(kids) /\ meant = Wrong /\ ~checked
                     \/ \E k \in DOMAIN kids : kids[k].unchecked

(* What a node says of its children. *)
LEMMA NodeIsOver ==
  ASSUME NEW kids, NEW type, NEW name, NEW report, NEW crash, NEW meant, NEW checked
  PROVE  LET n == Node(kids, type, name, report, crash, meant, checked) IN
         /\ Over(n, kids, report, crash, meant, checked)
         /\ n.type = type /\ n.name = name
         /\ n.negated <=> \E k \in DOMAIN kids : kids[k].negated
         /\ n.compiletime <=> \A k \in DOMAIN kids : kids[k].compiletime
         /\ n.ints <=> kids # <<>> /\ \A k \in DOMAIN kids : kids[k].ints
BY DEF Node, Over

(* A node is good when its own report and its own fault agree. *)
LEMMA GoodOver ==
  ASSUME NEW n, NEW kids, NEW report, NEW crash, NEW meant, NEW checked,
         \A k \in DOMAIN kids : Good(kids[k]),
         Over(n, kids, report, crash, meant, checked),
         \A k \in DOMAIN kids : kids[k].negated => n.negated,
         Right(kids) /\ meant # Wrong => ~report /\ (crash => n.negated),
         Right(kids) /\ meant = Wrong /\ checked => report \/ crash
  PROVE  Good(n)
<1>1. ASSUME n.meant # Wrong PROVE ~n.reported /\ (n.crashed => n.negated)
  <2>1. Right(kids) /\ meant # Wrong
    BY <1>1 DEF Over
  <2>2. \A k \in DOMAIN kids : ~kids[k].reported /\ (kids[k].crashed => kids[k].negated)
    BY <2>1 DEF Good, Right
  <2> QED BY <2>1, <2>2 DEF Over
<1>2. ASSUME Sound(n) PROVE n.meant # Wrong
  <2>1. \A k \in DOMAIN kids : Sound(kids[k])
    BY <1>2 DEF Over, Sound
  <2>2. Right(kids)
    BY <2>1 DEF Good, Right
  <2> QED BY <1>2, <2>2 DEF Over, Sound
<1>3. ASSUME n.checked PROVE n.reported \/ n.crashed
  BY <1>3 DEF Over, Good
<1> QED BY <1>1, <1>2, <1>3 DEF Good
-----------------------------------------------------------------------------
(* Leaves. *)
LEMMA LeafIs ==
  ASSUME NEW type, NEW name, NEW report, NEW meant, NEW checked
  PROVE  LET n == Node(<<>>, type, name, report, FALSE, meant, checked) IN
         /\ n.meant = meant /\ (n.reported <=> report) /\ ~n.crashed /\ ~n.negated
         /\ n.checked <=> meant = Wrong /\ checked
         /\ n.unchecked <=> meant = Wrong /\ ~checked
         /\ n.type = type /\ n.name = name /\ n.compiletime /\ ~n.ints
<1>1. DOMAIN <<>> = {}
  OBVIOUS
<1>2. Right(<<>>)
  BY <1>1 DEF Right
<1> DEFINE n == Node(<<>>, type, name, report, FALSE, meant, checked)
<1>3. /\ Over(n, <<>>, report, FALSE, meant, checked)
      /\ n.type = type /\ n.name = name
      /\ n.negated <=> \E k \in DOMAIN <<>> : <<>>[k].negated
      /\ n.compiletime <=> \A k \in DOMAIN <<>> : <<>>[k].compiletime
      /\ n.ints <=> <<>> # <<>> /\ \A k \in DOMAIN <<>> : <<>>[k].ints
  BY NodeIsOver, Zenon
<1> HIDE DEF n
<1>4. /\ n.meant = meant /\ (n.reported <=> report) /\ ~n.crashed /\ ~n.negated
      /\ n.checked <=> meant = Wrong /\ checked
      /\ n.unchecked <=> meant = Wrong /\ ~checked
      /\ n.type = type /\ n.name = name /\ n.compiletime /\ ~n.ints
  BY <1>1, <1>2, <1>3 DEF Over
<1> QED BY <1>4 DEF n

(* Literals have the type they mean. *)
LEMMA LiteralsGood ==
  /\ Good(NILIT) /\ Typed(NILIT)
  /\ Good(NFLIT) /\ Typed(NFLIT)
  /\ Good(NTRUE) /\ Typed(NTRUE)
<1>1. ASSUME NEW n, NEW t,
             n.meant = Of(t, NULL), t \in Primitive, n.type = t, ~n.reported, ~n.crashed,
             ~n.checked, ~n.unchecked, n.compiletime, n.ints <=> t = "SINT"
      PROVE  Good(n) /\ Typed(n)
  <2>1. /\ n.meant # Wrong /\ n.meant.of = NULL
        /\ (n.meant = Integer <=> t = "SINT")
    BY <1>1, Types DEF Primitive
  <2> QED BY <1>1, <2>1 DEF Good, Typed, Sound, Primitive
<1>2. Good(NFLIT) /\ Typed(NFLIT)
  <2> DEFINE n == NFLIT
  <2>0. /\ n.meant = Float /\ (n.reported <=> FALSE) /\ ~n.crashed /\ ~n.negated
        /\ n.checked <=> Float = Wrong /\ TRUE
        /\ n.unchecked <=> Float = Wrong /\ ~TRUE
        /\ n.type = "SREAL" /\ n.name = NULL /\ n.compiletime /\ ~n.ints
    BY LeafIs, Zenon DEF NFLIT
  <2>1. /\ n.meant = Of("SREAL", NULL) /\ n.type = "SREAL" /\ ~n.reported /\ ~n.crashed
        /\ ~n.checked /\ ~n.unchecked /\ n.compiletime /\ ~n.ints
    BY <2>0, Types DEF Float
  <2> HIDE DEF n
  <2>2. Good(n) /\ Typed(n)
    BY <1>1, <2>1 DEF Primitive
  <2> QED BY <2>2 DEF n
<1>3. Good(NTRUE) /\ Typed(NTRUE)
  <2> DEFINE n == NTRUE
  <2>0. /\ n.meant = Bool /\ (n.reported <=> FALSE) /\ ~n.crashed /\ ~n.negated
        /\ n.checked <=> Bool = Wrong /\ TRUE
        /\ n.unchecked <=> Bool = Wrong /\ ~TRUE
        /\ n.type = "SBOOL" /\ n.name = NULL /\ n.compiletime /\ ~n.ints
    BY LeafIs, Zenon DEF NTRUE
  <2>1. /\ n.meant = Of("SBOOL", NULL) /\ n.type = "SBOOL" /\ ~n.reported /\ ~n.crashed
        /\ ~n.checked /\ ~n.unchecked /\ n.compiletime /\ ~n.ints
    BY <2>0, Types DEF Bool
  <2> HIDE DEF n
  <2>2. Good(n) /\ Typed(n)
    BY <1>1, <2>1 DEF Primitive
  <2> QED BY <2>2 DEF n
<1>4. Good(NILIT) /\ Typed(NILIT)
  <2> DEFINE m == Node(<<>>, "SINT", NULL, FALSE, FALSE, Integer, TRUE)  n == NILIT
  <2>0. /\ m.meant = Integer /\ (m.reported <=> FALSE) /\ ~m.crashed /\ ~m.negated
        /\ m.checked <=> Integer = Wrong /\ TRUE
        /\ m.unchecked <=> Integer = Wrong /\ ~TRUE
        /\ m.type = "SINT" /\ m.name = NULL /\ m.compiletime /\ ~m.ints
    BY LeafIs, Zenon
  <2>1. /\ m.meant = Of("SINT", NULL) /\ m.type = "SINT" /\ ~m.reported /\ ~m.crashed
        /\ ~m.checked /\ ~m.unchecked /\ m.compiletime
    BY <2>0, Types DEF Integer
  <2>2. /\ n.meant = m.meant /\ n.type = m.type /\ n.reported = m.reported
        /\ n.crashed = m.crashed /\ n.checked = m.checked /\ n.unchecked = m.unchecked
        /\ n.compiletime = m.compiletime /\ n.ints = TRUE
    BY DEF NILIT, Node
  <2> HIDE DEF n, m
  <2>3. Good(n) /\ Typed(n)
    BY <1>1, <2>1, <2>2 DEF Primitive
  <2> QED BY <2>3 DEF n
<1> QED BY <1>2, <1>3, <1>4

(* So has a name, unless it is none of a primitive type. *)
LEMMA NameGood ==
  ASSUME NEW n
  PROVE  /\ Good(NSIMV(n)) /\ Typed(NSIMV(n))
         /\ IsArray(n) => NSIMV(n).meant # Wrong
<1> DEFINE atr == Attribute(n)
           no == ~Known(n) \/ (atr.type \notin {"SSTRUCT", "SARRAY"} /\ atr.data # NULL)
           meant == IF no \/ atr.type = "SSTRUCT" THEN Wrong ELSE Of(atr.type, atr.data)
           v == NSIMV(n)
           m == Node(<<>>, atr.type, n, no, FALSE, meant, no)
<1>1. /\ m.type = atr.type /\ m.name = n /\ m.meant = meant
      /\ m.reported <=> no
      /\ ~m.crashed /\ ~m.negated
      /\ m.checked <=> meant = Wrong /\ no
      /\ m.unchecked <=> meant = Wrong /\ ~no
      /\ m.compiletime
  <2> HIDE DEF atr, no, meant
  <2>1. /\ m.meant = meant /\ (m.reported <=> no) /\ ~m.crashed /\ ~m.negated
        /\ m.checked <=> meant = Wrong /\ no
        /\ m.unchecked <=> meant = Wrong /\ ~no
        /\ m.type = atr.type /\ m.name = n /\ m.compiletime /\ ~m.ints
    BY LeafIs, Zenon
  <2> HIDE DEF m
  <2> QED BY <2>1
<1>2. /\ v.type = m.type /\ v.name = m.name /\ v.meant = m.meant
      /\ v.reported = m.reported /\ v.crashed = m.crashed /\ v.negated = m.negated
      /\ v.checked = m.checked /\ v.unchecked = m.unchecked
      /\ v.compiletime = m.compiletime /\ v.ints = (atr.type = "SINT")
  BY DEF NSIMV, Node
<1> HIDE DEF v, m
<1>3. no => meant = Wrong
  OBVIOUS
<1>4. Good(v)
  <2> HIDE DEF no, meant
  <2> QED BY <1>1, <1>2, <1>3 DEF Good, Sound
<1>5. ASSUME v.meant # Wrong
      PROVE  /\ Known(n) /\ atr.type # "SSTRUCT" /\ v.meant = Of(atr.type, atr.data)
             /\ atr.type # "SARRAY" => atr.data = NULL
  BY <1>1, <1>2, <1>5
<1>6. Typed(v)
  <2>1. SUFFICES ASSUME v.meant # Wrong
                 PROVE  /\ v.meant = Of(v.type, v.meant.of) /\ v.type # "SERROR"
                        /\ v.type \in Primitive => v.meant.of = NULL
                        /\ v.type = "SARRAY" => Attribute(v.name).data = v.meant.of /\ Known(v.name)
                        /\ v.type # "SSTRUCT"
                        /\ v.ints => v.meant = Integer
                        /\ v.meant = Integer => (v.ints <=> v.compiletime)
    BY DEF Typed
  <2>2. v.meant = Of(atr.type, atr.data) /\ v.meant.of = atr.data
    BY <1>5, <2>1, Types
  <2>3. /\ atr.type # "SERROR" /\ atr.type # "SSTRUCT"
        /\ atr.type # "SARRAY" => atr.data = NULL
    BY <1>5, <2>1, <2>2, Types
  <2>4. v.meant = Integer <=> atr.type = "SINT" /\ atr.data = NULL
    BY <2>2, Types
  <2>5. v.name = n /\ v.type = atr.type /\ (v.ints <=> atr.type = "SINT") /\ v.compiletime
    BY <1>1, <1>2
  <2>6. Attribute(v.name).data = atr.data /\ Known(v.name)
    BY <1>5, <2>1, <2>5
  <2> HIDE DEF no, meant, atr
  <2> QED BY <2>2, <2>3, <2>4, <2>5, <2>6 DEF Primitive
<1>7. IsArray(n) => v.meant # Wrong
  <2>1. SUFFICES ASSUME IsArray(n) PROVE v.meant # Wrong
    OBVIOUS
  <2>2. Known(n) /\ atr.type = "SARRAY"
    BY <2>1 DEF IsArray, Attribute, Known
  <2>3. meant = Of("SARRAY", atr.data)
    BY <2>2
  <2> QED BY <1>1, <1>2, <2>3, Types
<1> QED BY <1>4, <1>6, <1>7 DEF v
-----------------------------------------------------------------------------
(* Operators. *)

(* What the type of an expression says when the expression is right. *)
LEMMA RightType ==
  ASSUME NEW n, Typed(n), n.meant # Wrong
  PROVE  /\ n.type # "SERROR" /\ n.meant.type = n.type
         /\ n.meant = Integer <=> n.type = "SINT"
         /\ n.meant = Float <=> n.type = "SREAL"
         /\ n.meant = Bool <=> n.type = "SBOOL"
         /\ n.meant \in Numeric <=> n.type \in Num
<1>1. n.meant = Of(n.type, n.meant.of) /\ (n.type \in Primitive => n.meant.of = NULL)
      /\ n.type # "SERROR"
  BY DEF Typed
<1>2. n.meant.type = n.type
  BY <1>1, Types
<1>3. /\ n.meant = Integer <=> n.type = "SINT"
      /\ n.meant = Float <=> n.type = "SREAL"
      /\ n.meant = Bool <=> n.type = "SBOOL"
  <2> DEFINE t == n.type  e == n.meant.of
  <2>1. /\ Of(t, e) = Integer <=> t = "SINT" /\ e = NULL
        /\ Of(t, e) = Float <=> t = "SREAL" /\ e = NULL
        /\ Of(t, e) = Bool <=> t = "SBOOL" /\ e = NULL
    BY Types
  <2> HIDE DEF t, e
  <2> QED BY <1>1, <2>1 DEF Primitive, t, e
<1>4. n.meant \in Numeric <=> n.type \in Num
  BY <1>3 DEF Numeric, Num
<1> QED BY <1>1, <1>2, <1>3, <1>4

(* A primitive type is meant by itself. *)
LEMMA MeantTyped ==
  ASSUME NEW n, NEW t \in Primitive, n.meant # Wrong => n.meant = Of(t, NULL) /\ n.type = t,
         n.ints /\ n.meant # Wrong => t # "SREAL",
         n.meant # Wrong /\ t = "SINT" => (n.ints <=> n.compiletime)
  PROVE  Typed(n)
<1>1. SUFFICES ASSUME n.meant # Wrong PROVE Typed(n)
  BY DEF Typed
<1>2. n.meant = Of(t, NULL) /\ n.type = t /\ n.meant.of = NULL
  BY <1>1, Types
<1>3. /\ Of(t, NULL) = Integer <=> t = "SINT"
      /\ Of(t, NULL) = Bool <=> t = "SBOOL"
  BY Types
<1> QED BY <1>1, <1>2, <1>3 DEF Typed, Primitive

(* What the node above is told by two children. *)
PairOver(n, l, r, type, report, crash, meant, checked) ==
  /\ Over(n, <<l, r>>, report, crash, meant, checked)
  /\ n.meant = IF l.meant # Wrong /\ r.meant # Wrong THEN meant ELSE Wrong
  /\ n.type = type
  /\ n.negated <=> l.negated \/ r.negated
  /\ n.compiletime <=> l.compiletime /\ r.compiletime
  /\ n.ints <=> l.ints /\ r.ints

(* A node with two children is one over both of them. *)
LEMMA PairIs ==
  ASSUME NEW l, NEW r, NEW type, NEW name, NEW report, NEW crash, NEW meant, NEW checked
  PROVE  PairOver(Node(<<l, r>>, type, name, report, crash, meant, checked),
                  l, r, type, report, crash, meant, checked)
<1>1. DOMAIN <<l, r>> = {1, 2} /\ <<l, r>>[1] = l /\ <<l, r>>[2] = r /\ <<l, r>> # <<>>
  OBVIOUS
<1>2. Right(<<l, r>>) <=> l.meant # Wrong /\ r.meant # Wrong
  BY <1>1 DEF Right
<1> DEFINE n == Node(<<l, r>>, type, name, report, crash, meant, checked)
<1>3. /\ Over(n, <<l, r>>, report, crash, meant, checked)
      /\ n.type = type /\ n.name = name
      /\ n.negated <=> \E k \in DOMAIN <<l, r>> : <<l, r>>[k].negated
      /\ n.compiletime <=> \A k \in DOMAIN <<l, r>> : <<l, r>>[k].compiletime
      /\ n.ints <=> <<l, r>> # <<>> /\ \A k \in DOMAIN <<l, r>> : <<l, r>>[k].ints
  BY NodeIsOver, Zenon
<1> HIDE DEF n
<1>4. n.meant = IF l.meant # Wrong /\ r.meant # Wrong THEN meant ELSE Wrong
  BY <1>2, <1>3 DEF Over
<1>5. /\ n.negated <=> l.negated \/ r.negated
      /\ n.compiletime <=> l.compiletime /\ r.compiletime
      /\ n.ints <=> l.ints /\ r.ints
  BY <1>1, <1>3
<1>6. PairOver(n, l, r, type, report, crash, meant, checked)
  BY <1>3, <1>4, <1>5 DEF PairOver
<1> QED BY <1>6 DEF n

(* It is good if it reports what is wrong with its own type and nothing else. *)
LEMMA PairGood ==
  ASSUME NEW l, NEW r, NEW n, NEW report, NEW crash, NEW meant, NEW checked,
         NEW type,
         Good(l), Good(r), PairOver(n, l, r, type, report, crash, meant, checked),
         l.meant # Wrong /\ r.meant # Wrong /\ meant # Wrong => ~report /\ (crash => n.negated),
         l.meant # Wrong /\ r.meant # Wrong /\ meant = Wrong /\ checked => report \/ crash
  PROVE  Good(n)
<1>1. DOMAIN <<l, r>> = {1, 2} /\ <<l, r>>[1] = l /\ <<l, r>>[2] = r
  OBVIOUS
<1>2. Right(<<l, r>>) <=> l.meant # Wrong /\ r.meant # Wrong
  BY <1>1 DEF Right
<1> DEFINE kids == <<l, r>>
<1>3. /\ \A k \in DOMAIN kids : Good(kids[k])
      /\ \A k \in DOMAIN kids : kids[k].negated => n.negated
  BY <1>1 DEF PairOver
<1>4. /\ Over(n, kids, report, crash, meant, checked)
      /\ Right(kids) /\ meant # Wrong => ~report /\ (crash => n.negated)
      /\ Right(kids) /\ meant = Wrong /\ checked => report \/ crash
  BY <1>2 DEF PairOver
<1> HIDE DEF kids
<1> QED BY <1>3, <1>4, GoodOver

(* The sums, products and quotients. *)
LEMMA ArithGood ==
  ASSUME NEW l, NEW r, Good(l), Good(r), Typed(l), Typed(r)
  PROVE  Good(Arith(l, r)) /\ Typed(Arith(l, r))
<1> DEFINE meant == IF {l.meant, r.meant} \subseteq Numeric
                    THEN (IF Float \in {l.meant, r.meant} THEN Float ELSE Integer) ELSE Wrong
           type == update_addsubmuldiv(l, r)
           n == Arith(l, r)
<1> HIDE DEF type, meant
<1>1. PairOver(n, l, r, type, FALSE, FALSE, meant, FALSE)
  <2>1. n = Node(<<l, r>>, type, NULL, FALSE, FALSE, meant, FALSE)
    BY DEF Arith, type, meant
  <2> HIDE DEF n
  <2> QED BY <2>1, PairIs
<1> HIDE DEF n
<1>2. Good(n)
  BY <1>1, PairGood
<1>3. ASSUME n.meant # Wrong
      PROVE  /\ l.meant # Wrong /\ r.meant # Wrong
             /\ l.meant \in Numeric /\ r.meant \in Numeric
             /\ n.meant = IF Float \in {l.meant, r.meant} THEN Float ELSE Integer
  BY <1>1, <1>3 DEF meant, PairOver
<1>4. ASSUME n.meant # Wrong
      PROVE  /\ type = "SREAL" \/ type = "SINT"
             /\ n.meant = Of(type, NULL)
             /\ type = "SINT" => l.meant = Integer /\ r.meant = Integer
             /\ type = "SREAL" => l.meant = Float \/ r.meant = Float
  <2>1. /\ l.meant \in Numeric /\ r.meant \in Numeric
        /\ l.type \in Num /\ r.type \in Num
        /\ l.meant = Float <=> l.type = "SREAL"
        /\ r.meant = Float <=> r.type = "SREAL"
    BY <1>3, <1>4, RightType
  <2>2. type = IF Float \in {l.meant, r.meant} THEN "SREAL" ELSE "SINT"
    BY <2>1 DEF update_addsubmuldiv, Num, type
  <2> QED BY <1>3, <1>4, <2>1, <2>2 DEF Numeric, Float, Integer
<1>5. ASSUME n.meant # Wrong PROVE n.ints => type # "SREAL"
  <2>1. ASSUME n.ints PROVE l.meant # Float /\ r.meant # Float
    BY <1>1, <1>3, <1>5, <2>1, Types DEF Typed, Float, Integer, Bool, PairOver
  <2> QED BY <1>4, <1>5, <2>1
<1>6. ASSUME n.meant # Wrong, type = "SINT" PROVE n.ints <=> n.compiletime
  BY <1>1, <1>3, <1>4, <1>6 DEF Typed, PairOver
<1>7. Typed(n)
  <2>1. CASE n.meant = Wrong
    BY <2>1 DEF Typed
  <2>2. CASE n.meant # Wrong
    <3>1. type \in Primitive
      BY <1>4, <2>2 DEF Primitive
    <3> QED BY <1>1, <1>4, <1>5, <1>6, <2>2, <3>1, MeantTyped DEF PairOver
  <2> QED BY <2>1, <2>2
<1> QED BY <1>2, <1>7 DEF n

(* The operators on integers. *)
LEMMA IntOpGood ==
  ASSUME NEW l, NEW r, NEW type, Good(l), Good(r), Typed(l), Typed(r),
         l.type = "SINT" /\ r.type = "SINT" => type = "SINT"
  PROVE  Good(IntOp(l, r, type)) /\ Typed(IntOp(l, r, type))
<1> DEFINE meant == IF {l.meant, r.meant} = {Integer} THEN Integer ELSE Wrong
           report == IntsOnly(l, r)
           n == IntOp(l, r, type)
<1> HIDE DEF meant, report
<1>1. PairOver(n, l, r, type, report, FALSE, meant, TRUE)
  <2>1. n = Node(<<l, r>>, type, NULL, report, FALSE, meant, TRUE)
    BY DEF IntOp, report, meant
  <2> HIDE DEF n
  <2> QED BY <2>1, PairIs
<1> HIDE DEF n
<1>2. Integer # Wrong
  BY Types DEF Integer
<1>3. meant # Wrong => l.meant = Integer /\ r.meant = Integer /\ meant = Integer
  BY DEF meant
<1>4. ASSUME l.meant # Wrong, r.meant # Wrong PROVE report <=> meant = Wrong
  <2>1. /\ l.type # "SERROR" /\ r.type # "SERROR"
        /\ l.meant = Integer <=> l.type = "SINT"
        /\ r.meant = Integer <=> r.type = "SINT"
    BY <1>4, RightType
  <2> QED BY <1>2, <2>1 DEF report, meant, IntsOnly
<1>5. Good(n)
  BY <1>1, <1>4, PairGood
<1>6. ASSUME n.meant # Wrong
      PROVE  /\ n.meant = Of("SINT", NULL) /\ n.type = "SINT"
             /\ n.ints <=> n.compiletime
  <2>1. l.meant = Integer /\ r.meant = Integer /\ n.meant = Integer
    BY <1>1, <1>3, <1>6 DEF PairOver
  <2>2. l.type = "SINT" /\ r.type = "SINT"
    BY <1>2, <2>1, RightType
  <2> QED BY <1>1, <1>2, <2>1, <2>2 DEF PairOver, Typed, Integer
<1>7. Typed(n)
  BY <1>6, MeantTyped DEF Primitive
<1> QED BY <1>5, <1>7 DEF n

(* The comparisons. *)
LEMMA RelopGood ==
  ASSUME NEW l, NEW r, Good(l), Good(r), Typed(l), Typed(r)
  PROVE  Good(Relop(l, r)) /\ Typed(Relop(l, r))
<1> DEFINE meant == IF {l.meant, r.meant} \subseteq Numeric THEN Bool ELSE Wrong
           report == analyse_relop(l, r)
           checked == {l.meant, r.meant} \cap Numeric = {}
           n == Relop(l, r)
<1> HIDE DEF meant, report, checked
<1>1. PairOver(n, l, r, "SBOOL", report, FALSE, meant, checked)
  <2>1. n = Node(<<l, r>>, "SBOOL", NULL, report, FALSE, meant, checked)
    BY DEF Relop, report, meant, checked
  <2> HIDE DEF n
  <2> QED BY <2>1, PairIs
<1> HIDE DEF n
<1>2. Bool # Wrong
  BY Types DEF Bool
<1>3. ASSUME l.meant # Wrong, r.meant # Wrong
      PROVE  (meant # Wrong => ~report) /\ (checked => report)
  <2>1. /\ l.type # "SERROR" /\ r.type # "SERROR"
        /\ l.meant \in Numeric <=> l.type \in Num
        /\ r.meant \in Numeric <=> r.type \in Num
    BY <1>3, RightType
  <2> QED BY <2>1 DEF report, meant, checked, analyse_relop
<1>4. Good(n)
  BY <1>1, <1>3, PairGood
<1>5. ASSUME n.meant # Wrong PROVE n.meant = Of("SBOOL", NULL) /\ n.type = "SBOOL"
  BY <1>1, <1>5 DEF PairOver, meant, Bool
<1>6. Typed(n)
  BY <1>5, MeantTyped DEF Primitive
<1> QED BY <1>4, <1>6 DEF n

(* The logical operators. *)
LEMMA NBOOLGood ==
  ASSUME NEW l, NEW r, Good(l), Good(r), Typed(l), Typed(r)
  PROVE  Good(NBOOL(l, r)) /\ Typed(NBOOL(l, r))
<1> DEFINE meant == IF {l.meant, r.meant} = {Bool} THEN Bool ELSE Wrong
           m == Node(<<l, r>>, "SBOOL", NULL, FALSE, FALSE, meant, FALSE)
           n == NBOOL(l, r)
<1> HIDE DEF meant
<1>1. PairOver(m, l, r, "SBOOL", FALSE, FALSE, meant, FALSE)
  BY PairIs
<1>2. /\ n.meant = m.meant /\ n.type = m.type /\ n.reported = m.reported
      /\ n.crashed = m.crashed /\ n.negated = m.negated
      /\ n.checked = m.checked /\ n.unchecked = m.unchecked
  BY DEF NBOOL, Node, meant
<1> HIDE DEF n, m
<1>3. Good(m)
  BY <1>1, PairGood
<1>4. Good(n)
  BY <1>2, <1>3 DEF Good, Sound
<1>5. ASSUME n.meant # Wrong PROVE n.meant = Of("SBOOL", NULL) /\ n.type = "SBOOL"
  BY <1>1, <1>2, <1>5 DEF PairOver, meant, Bool
<1>6. Typed(n)
  BY <1>5, MeantTyped DEF Primitive
<1> QED BY <1>4, <1>6 DEF n

(* A `not` ends the compiler, and says so. *)
LEMMA NNOTGood ==
  ASSUME NEW l, NEW r, Good(l), Good(r), Typed(l), Typed(r)
  PROVE  Good(NNOT(l, r)) /\ Typed(NNOT(l, r))
<1> DEFINE meant == IF {l.meant, r.meant} \subseteq Numeric THEN Bool ELSE Wrong
           m == Node(<<l, r>>, "SBOOL", NULL, FALSE, TRUE, meant, FALSE)
           n == NNOT(l, r)
<1> HIDE DEF meant
<1>1. PairOver(m, l, r, "SBOOL", FALSE, TRUE, meant, FALSE)
  BY PairIs
<1>2. /\ n.meant = m.meant /\ n.type = m.type /\ n.reported = m.reported
      /\ n.crashed = m.crashed /\ n.negated = TRUE
      /\ n.checked = m.checked /\ n.unchecked = m.unchecked
  BY DEF NNOT, Node, meant
<1> HIDE DEF n, m
<1>3. /\ n.meant = (IF l.meant # Wrong /\ r.meant # Wrong THEN meant ELSE Wrong)
      /\ Over(m, <<l, r>>, FALSE, TRUE, meant, FALSE)
  BY <1>1, <1>2 DEF PairOver
<1>4. Over(n, <<l, r>>, FALSE, TRUE, meant, FALSE)
  BY <1>2, <1>3 DEF Over
<1>5. Good(n)
  <2> DEFINE kids == <<l, r>>
  <2>1. DOMAIN kids = {1, 2} /\ kids[1] = l /\ kids[2] = r
    OBVIOUS
  <2>2. \A k \in DOMAIN kids : Good(kids[k])
    BY <2>1
  <2>3. n.negated
    BY <1>2
  <2>4. Over(n, kids, FALSE, TRUE, meant, FALSE)
    BY <1>4
  <2> HIDE DEF kids
  <2> QED BY <2>2, <2>3, <2>4, GoodOver
<1>6. ASSUME n.meant # Wrong PROVE n.meant = Of("SBOOL", NULL) /\ n.type = "SBOOL"
  BY <1>1, <1>2, <1>3, <1>6 DEF PairOver, meant, Bool
<1>7. Typed(n)
  BY <1>6, MeantTyped DEF Primitive
<1> QED BY <1>5, <1>7 DEF n

(* All operators with two operands. *)
LEMMA BinaryGood ==
  ASSUME NEW l, NEW r, Good(l), Good(r), Typed(l), Typed(r)
  PROVE  \A n \in Binary(l, r) : Good(n) /\ Typed(n)
<1>1. l.type = "SINT" /\ r.type = "SINT" => update_mod(l, r) = "SINT" /\ update_pow(l, r) = "SINT"
  BY DEF update_mod, update_pow, Num
<1>2. /\ Good(IntOp(l, r, update_mod(l, r))) /\ Typed(IntOp(l, r, update_mod(l, r)))
      /\ Good(IntOp(l, r, update_pow(l, r))) /\ Typed(IntOp(l, r, update_pow(l, r)))
  BY <1>1, IntOpGood
<1> QED BY <1>2, ArithGood, RelopGood, NBOOLGood DEF Binary
-----------------------------------------------------------------------------
(* Elements of arrays. *)
LEMMA NAELTGood ==
  ASSUME NEW x, NEW index, Good(index), Typed(index)
  PROVE  Good(NAELT(x, index)) /\ Typed(NAELT(x, index))
<1> DEFINE atr == Attribute(x)
           array == IsArray(x)
           type == IF array THEN "SSTRUCT" ELSE "SERROR"
           name == IF array THEN atr.data ELSE NULL
           meant == IF array /\ index.meant = Integer THEN Of("SSTRUCT", atr.data) ELSE Wrong
           v == NSIMV(x)
           m == Node(<<v, index>>, type, name, ~array, FALSE, meant, ~array)
           n == NAELT(x, index)
<1>1. n = Element(m)
  BY DEF NAELT
<1> HIDE DEF atr, type, name, meant, array, v
<1>2. PairOver(m, v, index, type, ~array, FALSE, meant, ~array)
  BY PairIs
<1>3. m.name = name
  BY DEF Node
<1>4. /\ n.meant = m.meant /\ n.type = m.type /\ n.name = m.name
      /\ n.reported = m.reported /\ n.crashed = m.crashed /\ n.negated = m.negated
      /\ n.checked = m.checked /\ n.unchecked = m.unchecked
      /\ n.ints = FALSE /\ n.compiletime = FALSE
  BY <1>1 DEF Element, Node
<1> HIDE DEF n, m
<1>5. Good(v)
  BY NameGood DEF v
<1>6. meant # Wrong => array
  BY DEF meant
<1>7. Good(m)
  BY <1>2, <1>5, <1>6, PairGood
<1>8. Good(n)
  BY <1>4, <1>7 DEF Good, Sound
<1>9. ASSUME n.meant # Wrong
      PROVE  /\ n.meant = Of("SSTRUCT", atr.data) /\ n.type = "SSTRUCT" /\ n.name = atr.data
             /\ Known(atr.data)
  <2>1. array /\ n.meant = Of("SSTRUCT", atr.data)
    BY <1>2, <1>4, <1>9 DEF PairOver, meant
  <2>2. Known(atr.data)
    BY <2>1, ParserAssumption DEF array, atr, IsArray, Attribute, Known
  <2> QED BY <1>2, <1>3, <1>4, <2>1, <2>2 DEF PairOver, type, name
<1>10. Typed(n)
  <2>1. Of("SSTRUCT", atr.data) # Integer
    BY Types
  <2>2. Of("SSTRUCT", atr.data).of = atr.data
    BY Types
  <2> QED BY <1>4, <1>9, <2>1, <2>2 DEF Typed, Primitive
<1> QED BY <1>8, <1>10 DEF n

(* An element of an array. *)
LEMMA NARRVGood ==
  ASSUME NEW x, NEW index, NEW field, Good(index), Typed(index)
  PROVE  Good(NARRV(x, index, field)) /\ Typed(NARRV(x, index, field))
<1> DEFINE typed == IsArray(x) /\ field \in DOMAIN Fields
           type == IF typed THEN Fields[field] ELSE "SERROR"
           meant == IF typed /\ index.meant = Integer THEN Of(Fields[field], NULL) ELSE Wrong
           v == NSIMV(x)
           m == Node(<<v, index>>, type, field, FALSE, FALSE, meant, FALSE)
           n == NARRV(x, index, field)
<1>1. n = Element(m)
  BY DEF NARRV
<1> HIDE DEF typed, type, meant, v
<1>2. PairOver(m, v, index, type, FALSE, FALSE, meant, FALSE)
  BY PairIs
<1>3. /\ n.meant = m.meant /\ n.type = m.type
      /\ n.reported = m.reported /\ n.crashed = m.crashed /\ n.negated = m.negated
      /\ n.checked = m.checked /\ n.unchecked = m.unchecked
      /\ n.ints = FALSE /\ n.compiletime = FALSE
  BY <1>1 DEF Element, Node
<1> HIDE DEF n, m
<1>4. Good(m)
  <2>1. Good(v)
    BY NameGood DEF v
  <2> QED BY <1>2, <2>1, PairGood
<1>5. Good(n)
  BY <1>3, <1>4 DEF Good, Sound
<1>6. ASSUME n.meant # Wrong
      PROVE  typed /\ n.meant = Of(Fields[field], NULL) /\ n.type = Fields[field]
  BY <1>2, <1>3, <1>6 DEF PairOver, meant, type
<1>7. Typed(n)
  <2>1. CASE n.meant = Wrong
    BY <2>1 DEF Typed
  <2>2. CASE n.meant # Wrong
    <3>1. Fields[field] \in Primitive
      BY <1>6, <2>2, ParserAssumption DEF typed
    <3> QED BY <1>3, <1>6, <2>2, <3>1, MeantTyped
  <2> QED BY <2>1, <2>2
<1> QED BY <1>5, <1>7 DEF n
-----------------------------------------------------------------------------
(* Calls. *)

(* The arguments that are right fit just when none of them is reported. *)
LEMMA FitsChecked ==
  ASSUME NEW x, Known(x), NEW args, DOMAIN args = 1..Len(args),
         \A k \in DOMAIN args : Typed(args[k]), Right(args)
  PROVE  LET params == Attribute(x).params IN
         Fits(params, args) <=> ~analyse_function_params(params, args)
<1> DEFINE params == Attribute(x).params
<1>1. /\ DOMAIN params = 1..Len(params)
      /\ \A k \in DOMAIN params :
           params[k].type = "SARRAY" \/ (params[k].type \in Primitive /\ params[k].data = NULL)
  BY ParserAssumption DEF Attribute, Known
<1> HIDE DEF params
<1>2. ASSUME NEW k \in DOMAIN params, k \in DOMAIN args
      PROVE  (\/ args[k].meant = Of(params[k].type, params[k].data)
              \/ args[k].meant = Integer /\ params[k].type = "SREAL")
             <=> ~compare_arg(params[k], args[k])
  <2> DEFINE p == params[k]  a == args[k]
  <2>1. Typed(a) /\ a.meant # Wrong
    BY <1>2 DEF Right
  <2>2. p.type = "SARRAY" \/ (p.type \in Primitive /\ p.data = NULL)
    BY <1>1
  <2> HIDE DEF p, a
  <2>3. /\ a.type # "SERROR" /\ a.meant.type = a.type
        /\ a.meant = Integer <=> a.type = "SINT"
        /\ a.meant = Float <=> a.type = "SREAL"
        /\ a.meant = Bool <=> a.type = "SBOOL"
    BY <2>1, RightType
  <2>4. CASE p.type = "SREAL"
    <3>1. Of(p.type, p.data) = Float
      BY <2>2, <2>4 DEF Float
    <3>2. compare_arg(p, a) <=> a.type \notin Num
      BY <2>3, <2>4 DEF compare_arg
    <3> QED BY <2>3, <2>4, <3>1, <3>2 DEF Num, p, a
  <2>5. CASE p.type \in {"SINT", "SBOOL"}
    <3>1. Of(p.type, p.data) = IF p.type = "SINT" THEN Integer ELSE Bool
      BY <2>2, <2>5 DEF Integer, Bool
    <3>2. compare_arg(p, a) <=> a.type # p.type
      BY <2>3, <2>5 DEF compare_arg
    <3> QED BY <2>3, <2>5, <3>1, <3>2 DEF p, a
  <2>6. CASE p.type = "SARRAY"
    <3>1. compare_arg(p, a) <=> a.type # "SARRAY" \/ Attribute(a.name).data # p.data
      BY <2>3, <2>6 DEF compare_arg
    <3>2. a.type = "SARRAY" => a.meant = Of("SARRAY", Attribute(a.name).data)
      BY <2>1 DEF Typed
    <3>3. a.meant = Of(p.type, p.data) => a.type = "SARRAY"
      BY <2>3, <2>6, Types
    <3>4. Of("SARRAY", Attribute(a.name).data) = Of("SARRAY", p.data)
          => Attribute(a.name).data = p.data
      BY DEF Of
    <3> QED BY <2>3, <2>6, <3>1, <3>2, <3>3, <3>4 DEF p, a
  <2> QED BY <2>2, <2>4, <2>5, <2>6 DEF Primitive
<1>3. Fits(params, args) <=> ~analyse_function_params(params, args)
  <2>1. CASE Len(args) # Len(params)
    BY <2>1 DEF Fits, analyse_function_params
  <2>2. CASE Len(args) = Len(params)
    <3>1. DOMAIN params = DOMAIN args
      BY <1>1, <2>2
    <3> QED BY <1>2, <2>2, <3>1 DEF Fits, analyse_function_params
  <2> QED BY <2>1, <2>2
<1> QED BY <1>3 DEF params

(* A call whose value is used. *)
LEMMA NFCALLGood ==
  ASSUME NEW x, NEW args, DOMAIN args = 1..Len(args),
         \A k \in DOMAIN args : Good(args[k]) /\ Typed(args[k])
  PROVE  Good(NFCALL(x, args)) /\ Typed(NFCALL(x, args))
<1> DEFINE atr == Attribute(x)
           isFn == Known(x) /\ atr.data # NULL /\ atr.type \in {"SREAL", "SBOOL", "SINT"}
           report == ~isFn \/ analyse_function_params(atr.params, args)
           meant == IF isFn /\ Fits(atr.params, args) THEN Of(atr.type, NULL) ELSE Wrong
           m == Node(args, atr.type, x, report, FALSE, meant, TRUE)
           n == NFCALL(x, args)
<1> HIDE DEF atr, isFn, report, meant
<1>1. Over(m, args, report, FALSE, meant, TRUE) /\ m.type = atr.type
      /\ (m.negated <=> \E k \in DOMAIN args : args[k].negated)
  <2>1. Over(m, args, report, FALSE, meant, TRUE)
    BY NodeIsOver, Zenon
  <2>2. m.type = atr.type
    BY DEF Node
  <2>3. m.negated <=> \E k \in DOMAIN args : args[k].negated
    BY NodeIsOver, Zenon
  <2> QED BY <2>1, <2>2, <2>3
<1>2. /\ n.meant = m.meant /\ n.type = m.type
      /\ n.reported = m.reported /\ n.crashed = m.crashed /\ n.negated = m.negated
      /\ n.checked = m.checked /\ n.unchecked = m.unchecked
      /\ n.ints = FALSE /\ n.compiletime = FALSE
  BY DEF NFCALL, Node, atr, isFn, report, meant
<1> HIDE DEF n, m
<1>3. isFn => atr.type \in Primitive /\ Known(x)
  BY DEF isFn, Primitive
<1>4. ASSUME Right(args) PROVE report <=> meant = Wrong
  <2>1. isFn => (Fits(atr.params, args) <=> ~analyse_function_params(atr.params, args))
    BY <1>3, <1>4, FitsChecked DEF atr
  <2>2. isFn => Of(atr.type, NULL) # Wrong
    BY <1>3, Types DEF Primitive
  <2> QED BY <2>1, <2>2 DEF report, meant
<1>5. Good(m)
  BY <1>1, <1>4, GoodOver
<1>6. Good(n)
  BY <1>2, <1>5 DEF Good, Sound
<1>7. ASSUME n.meant # Wrong
      PROVE  n.meant = Of(atr.type, NULL) /\ n.type = atr.type /\ atr.type \in Primitive
  BY <1>1, <1>2, <1>3, <1>7 DEF Over, meant
<1>8. Typed(n)
  <2>1. CASE n.meant = Wrong
    BY <2>1 DEF Typed
  <2>2. CASE n.meant # Wrong
    BY <1>2, <1>7, <2>2, MeantTyped
  <2> QED BY <2>1, <2>2
<1> QED BY <1>6, <1>8 DEF n

(* A call that is a statement. *)
LEMMA NCALLGood ==
  ASSUME NEW x, NEW args, DOMAIN args = 1..Len(args),
         \A k \in DOMAIN args : Good(args[k]) /\ Typed(args[k])
  PROVE  Good(NCALL(x, args))
<1> DEFINE atr == Attribute(x)
           isProc == Known(x) /\ atr.type = "SVOID"
           report == Known(x) /\ (~isProc \/ analyse_function_params(atr.params, args))
           crash == ~Known(x)
           meant == IF isProc /\ Fits(atr.params, args) THEN Void ELSE Wrong
           n == NCALL(x, args)
<1>1. n = Node(args, "SNONE", x, report, crash, meant, TRUE)
  BY DEF NCALL
<1> HIDE DEF atr, isProc, report, crash, meant
<1> DEFINE m == Node(args, "SNONE", x, report, crash, meant, TRUE)
<1>2. Over(m, args, report, crash, meant, TRUE)
      /\ (m.negated <=> \E k \in DOMAIN args : args[k].negated)
  <2>1. Over(m, args, report, crash, meant, TRUE)
    BY NodeIsOver, Zenon
  <2>2. m.negated <=> \E k \in DOMAIN args : args[k].negated
    BY NodeIsOver, Zenon
  <2> QED BY <2>1, <2>2
<1> HIDE DEF n, m
<1>3. ASSUME Right(args)
      PROVE  /\ meant # Wrong => ~report /\ ~crash
             /\ meant = Wrong => report \/ crash
  <2>1. Known(x) => (Fits(atr.params, args) <=> ~analyse_function_params(atr.params, args))
    BY <1>3, FitsChecked DEF atr
  <2>2. Void # Wrong
    BY Types DEF Void
  <2> QED BY <2>1, <2>2 DEF report, crash, meant, isProc
<1>4. Good(m)
  BY <1>2, <1>3, GoodOver
<1> QED BY <1>1, <1>4 DEF n, m
-----------------------------------------------------------------------------
(* Statements, constants and sizes. *)
LEMMA NASGNGood ==
  ASSUME NEW l, NEW r, Good(l), Good(r), Typed(l), Typed(r)
  PROVE  Good(NASGN(l, r))
<1> DEFINE compound == l.type = r.type /\ l.type \in {"SARRAY", "SSTRUCT"}
           report == \/ l.type # r.type /\ l.type # "SERROR" /\ r.type # "SERROR"
                     \/ compound /\ Attribute(l.name).data # Attribute(l.name).data
           crash == compound /\ ~Known(l.name)
           meant == IF l.meant = r.meant THEN Void ELSE Wrong
           checked == l.meant.type # r.meant.type
           n == NASGN(l, r)
<1>1. n = Node(<<l, r>>, "SNONE", NULL, report, crash, meant, checked)
  BY DEF NASGN
<1> HIDE DEF compound, report, crash, meant, checked
<1>2. PairOver(n, l, r, "SNONE", report, crash, meant, checked)
  <2> HIDE DEF n
  <2> QED BY <1>1, PairIs
<1> HIDE DEF n
<1>3. ASSUME l.meant # Wrong, r.meant # Wrong
      PROVE  /\ meant # Wrong => ~report /\ ~crash
             /\ meant = Wrong /\ checked => report
  <2>1. /\ l.type # "SERROR" /\ r.type # "SERROR"
        /\ l.meant.type = l.type /\ r.meant.type = r.type
    BY <1>3, RightType
  <2>2. meant = Wrong /\ checked => report
    BY <2>1 DEF checked, report
  <2>3. ASSUME meant # Wrong PROVE ~report /\ ~crash
    <3>1. l.meant = r.meant /\ l.type = r.type
      BY <2>1, <2>3 DEF meant
    <3>2. l.type = "SSTRUCT" => Known(l.name)
      BY <1>3 DEF Typed
    <3>3. l.type = "SARRAY" => Known(l.name)
      BY <1>3 DEF Typed
    <3> QED BY <3>1, <3>2, <3>3 DEF report, crash, compound
  <2> QED BY <2>2, <2>3
<1>4. Good(n)
  BY <1>2, <1>3, PairGood
<1> QED BY <1>4 DEF n

(* What the node above is told by its one child. *)
LEMMA OneGood ==
  ASSUME NEW e, Good(e), NEW type, NEW name, NEW report, NEW crash, NEW meant, NEW checked,
         e.meant # Wrong /\ meant # Wrong => ~report /\ ~crash,
         e.meant # Wrong /\ meant = Wrong /\ checked => report \/ crash
  PROVE  Good(Node(<<e>>, type, name, report, crash, meant, checked))
<1> DEFINE kids == <<e>>
           n == Node(kids, type, name, report, crash, meant, checked)
<1>1. DOMAIN kids = {1} /\ kids[1] = e
  OBVIOUS
<1>2. Right(kids) <=> e.meant # Wrong
  BY <1>1 DEF Right
<1>3. \A k \in DOMAIN kids : Good(kids[k])
  BY <1>1
<1> HIDE DEF kids
<1>4. /\ Over(n, kids, report, crash, meant, checked)
      /\ (n.negated <=> \E k \in DOMAIN kids : kids[k].negated)
  <2>1. Over(n, kids, report, crash, meant, checked)
    BY NodeIsOver, Zenon
  <2>2. n.negated <=> \E k \in DOMAIN kids : kids[k].negated
    BY NodeIsOver, Zenon
  <2> QED BY <2>1, <2>2
<1> HIDE DEF n
<1>5. Good(n)
  BY <1>2, <1>3, <1>4, GoodOver
<1> QED BY <1>5 DEF n, kids

(* Output. *)
LEMMA NOUTPGood ==
  ASSUME NEW e, Good(e), Typed(e)
  PROVE  Good(NOUTP(e))
<1> DEFINE report == e.type \notin Num
           crash == e.type \notin Num /\ ~e.left
           meant == IF e.meant \in Numeric THEN Void ELSE Wrong
<1>1. Void # Wrong
  BY Types DEF Void
<1>2. ASSUME e.meant # Wrong PROVE (meant # Wrong => ~report /\ ~crash) /\ (meant = Wrong => report)
  <2>1. e.meant \in Numeric <=> e.type \in Num
    BY <1>2, RightType
  <2> QED BY <1>1, <2>1
<1>3. NOUTP(e) = Node(<<e>>, "SNONE", NULL, report, crash, meant, TRUE)
  BY DEF NOUTP
<1> HIDE DEF report, crash, meant
<1>4. Good(Node(<<e>>, "SNONE", NULL, report, crash, meant, TRUE))
  BY <1>2, OneGood
<1> QED BY <1>3, <1>4

(* A constant. *)
LEMMA NINITGood ==
  ASSUME NEW e, Good(e), Typed(e)
  PROVE  Good(NINIT(e))
<1> DEFINE report == ~e.compiletime
           meant == IF e.compiletime /\ e.meant \in Numeric \cup {Bool} THEN Void ELSE Wrong
<1>1. meant # Wrong => ~report
  OBVIOUS
<1>2. NINIT(e) = Node(<<e>>, "SNONE", NULL, report, FALSE, meant, report)
  BY DEF NINIT
<1> HIDE DEF report, meant
<1>3. Good(Node(<<e>>, "SNONE", NULL, report, FALSE, meant, report))
  BY <1>1, OneGood
<1> QED BY <1>2, <1>3

(* The size of an array type. *)
LEMMA NATYPEGood ==
  ASSUME NEW e, Good(e), Typed(e)
  PROVE  Good(NATYPE(e))
<1> DEFINE report == ~e.ints
           meant == IF e.compiletime /\ e.meant = Integer THEN Void ELSE Wrong
           checked == e.meant # Bool \/ ~e.ints
<1>1. Void # Wrong /\ Integer # Wrong
  BY Types DEF Void, Integer
<1>2. meant # Wrong => ~report
  BY <1>1 DEF Typed
<1>3. e.meant # Wrong /\ meant = Wrong /\ checked => report
  BY <1>1 DEF Typed
<1>4. NATYPE(e) = Node(<<e>>, "SNONE", NULL, report, FALSE, meant, checked)
  BY DEF NATYPE
<1> HIDE DEF report, meant, checked
<1>5. Good(Node(<<e>>, "SNONE", NULL, report, FALSE, meant, checked))
  BY <1>2, <1>3, OneGood
<1> QED BY <1>4, <1>5

(* No statement at all. *)
LEMMA NoneGood == Good(None)
<1>1. Void # Wrong
  BY Types DEF Void
<1> DEFINE n == None
<1>2. /\ n.meant = Void /\ (n.reported <=> FALSE) /\ ~n.crashed /\ ~n.negated
      /\ n.checked <=> Void = Wrong /\ TRUE
      /\ n.unchecked <=> Void = Wrong /\ ~TRUE
      /\ n.type = "SNONE" /\ n.name = NULL /\ n.compiletime /\ ~n.ints
  BY LeafIs, Zenon DEF None
<1> HIDE DEF n
<1>3. Good(n)
  BY <1>1, <1>2 DEF Good, Sound
<1> QED BY <1>3 DEF n
-----------------------------------------------------------------------------
(* The stack. *)

(* k nodes make place for one. *)
LEMMA ReplaceGood ==
  ASSUME NEW s, Goods(s), NEW k \in 0..Len(s), NEW n, Good(n), Typed(n)
  PROVE  Goods(Append(SubSeq(s, 1, Len(s) - k), n))
<1> DEFINE S == {s[i] : i \in DOMAIN s}
           t == Append(SubSeq(s, 1, Len(s) - k), n)
           m == Len(s) - k
<1>1. s \in Seq(S) /\ Len(s) \in Nat /\ m \in 0..Len(s)
      /\ \A i \in 1..Len(s) : Good(s[i]) /\ Typed(s[i])
  BY DEF Goods
<1> HIDE DEF S
<1>2. /\ SubSeq(s, 1, m) \in Seq(S) /\ Len(SubSeq(s, 1, m)) = m
      /\ \A i \in 1..m : SubSeq(s, 1, m)[i] = s[i]
  BY <1>1
<1>3. /\ Len(t) = m + 1 /\ DOMAIN t = 1..m + 1 /\ t[m + 1] = n
      /\ \A i \in 1..m : t[i] = s[i]
  BY <1>1, <1>2
<1>4. \A i \in DOMAIN t : Good(t[i]) /\ Typed(t[i])
  <2>1. \A i \in 1..m + 1 : (i \in 1..m /\ i \in 1..Len(s)) \/ i = m + 1
    BY <1>1
  <2> HIDE DEF t, m
  <2> QED BY <1>1, <1>3, <2>1
<1>5. t \in Seq({t[i] : i \in DOMAIN t})
  <2> DEFINE T == {t[i] : i \in DOMAIN t}
  <2>1. \A i \in 1..m + 1 : t[i] \in T
    BY <1>3
  <2>2. t \in Seq(S \cup {n})
    BY <1>1, <1>2
  <2> HIDE DEF t, T
  <2>3. t = [i \in 1..m + 1 |-> t[i]]
    BY <1>1, <1>3, <2>2
  <2>4. t \in [1..m + 1 -> T]
    BY <2>1, <2>3
  <2>5. t \in Seq(T)
    BY <1>1, <2>4
  <2> QED BY <2>5 DEF T
<1> QED BY <1>4, <1>5 DEF Goods

(* A good operand may be pushed on good ones. *)
LEMMA PushGood ==
  ASSUME NEW s, Goods(s), NEW n, Good(n), Typed(n)
  PROVE  Goods(Append(s, n))
<1> DEFINE S == {s[i] : i \in DOMAIN s}
<1>1. s \in Seq(S)
  BY DEF Goods
<1> HIDE DEF S
<1>2. SubSeq(s, 1, Len(s) - 0) = s /\ 0 \in 0..Len(s)
  BY <1>1
<1>3. Goods(Append(SubSeq(s, 1, Len(s) - 0), n))
  BY <1>2, ReplaceGood
<1> QED BY <1>2, <1>3

(* The arguments of a call are good. *)
LEMMA ArgsGood ==
  ASSUME NEW s, Goods(s), NEW k \in 0..Len(s)
  PROVE  LET args == SubSeq(s, Len(s) - k + 1, Len(s)) IN
         /\ DOMAIN args = 1..Len(args)
         /\ \A i \in DOMAIN args : Good(args[i]) /\ Typed(args[i])
<1> DEFINE S == {s[i] : i \in DOMAIN s}
           m == Len(s) - k
           args == SubSeq(s, m + 1, Len(s))
<1>1. s \in Seq(S) /\ Len(s) \in Nat /\ m \in 0..Len(s)
      /\ \A i \in 1..Len(s) : Good(s[i]) /\ Typed(s[i])
  BY DEF Goods
<1> HIDE DEF S
<1>2. /\ DOMAIN args = 1..Len(args) /\ Len(args) = k
      /\ \A i \in 1..k : args[i] = s[i + m]
  BY <1>1
<1>3. \A i \in 1..k : i + m \in 1..Len(s)
  BY <1>1
<1>4. \A i \in DOMAIN args : Good(args[i]) /\ Typed(args[i])
  BY <1>1, <1>2, <1>3
<1> QED BY <1>2, <1>4

(* The analysis starts with nothing. *)
LEMMA InitInv == Init => IInv
<1> SUFFICES ASSUME Init PROVE IInv
  OBVIOUS
<1>1. stack = <<>> /\ stat = None
  BY DEF Init
<1>2. <<>> \in Seq({<<>>[k] : k \in DOMAIN <<>>}) /\ DOMAIN <<>> = {}
  OBVIOUS
<1>3. Goods(<<>>)
  BY <1>2 DEF Goods
<1> QED BY <1>1, <1>3, NoneGood DEF IInv

(* Every step keeps the operands and the statement good. *)
LEMMA StepInv ==
  ASSUME IInv, Next
  PROVE  IInv'
<1>1. Goods(stack) /\ Good(stat)
  BY DEF IInv
<1>2. Len(stack) \in Nat /\ DOMAIN stack = 1..Len(stack)
  <2> DEFINE S == {stack[k] : k \in DOMAIN stack}
  <2>1. stack \in Seq(S)
    BY <1>1 DEF Goods
  <2> HIDE DEF S
  <2> QED BY <2>1
<1>3. \A k \in 1..Len(stack) : Good(stack[k]) /\ Typed(stack[k])
  BY <1>1, <1>2 DEF Goods
<1>4. ASSUME NEW n, Good(n), Typed(n), Push(n), UNCHANGED stat PROVE IInv'
  <2>1. Goods(stack')
    BY <1>1, <1>4, PushGood DEF Push
  <2> QED BY <1>1, <1>4, <2>1 DEF IInv
<1>5. ASSUME NEW n, Good(n), Typed(n), NEW k \in 0..Len(stack), Replace(k, n), UNCHANGED stat
      PROVE  IInv'
  <2>1. Goods(stack')
    BY <1>1, <1>5, ReplaceGood DEF Replace
  <2> QED BY <1>1, <1>5, <2>1 DEF IInv
<1>6. ASSUME NEW n, Good(n), Statement(n) PROVE IInv'
  <2>1. Goods(<<>>)
    <3>1. <<>> \in Seq({<<>>[k] : k \in DOMAIN <<>>}) /\ DOMAIN <<>> = {}
      OBVIOUS
    <3> QED BY <3>1 DEF Goods
  <2> QED BY <1>6, <2>1 DEF IInv, Statement
<1>7. CASE Leaf
  <2>1. \/ Push(NILIT) \/ Push(NFLIT) \/ Push(NTRUE)
        \/ \E x \in Names : Push(NSIMV(x))
    BY <1>7 DEF Leaf
  <2>2. UNCHANGED stat
    BY <1>7 DEF Leaf
  <2> QED BY <1>4, <2>1, <2>2, LiteralsGood, NameGood
<1>8. CASE Index
  <2>1. Good(Top) /\ Typed(Top) /\ 1 \in 0..Len(stack) /\ UNCHANGED stat
    <3>1. stack # <<>> /\ UNCHANGED stat
      BY <1>8 DEF Index
    <3>2. Len(stack) # 0
      <4> DEFINE S == {stack[k] : k \in DOMAIN stack}
      <4>1. stack \in Seq(S)
        BY <1>1 DEF Goods
      <4> HIDE DEF S
      <4> QED BY <3>1, <4>1
    <3> QED BY <1>2, <1>3, <3>1, <3>2 DEF Top
  <2>2. PICK x \in Names : \/ Replace(1, NAELT(x, Top))
                            \/ \E f \in DOMAIN Fields \cup {NULL} : Replace(1, NARRV(x, Top, f))
    BY <1>8 DEF Index
  <2>3. CASE Replace(1, NAELT(x, Top))
    BY <1>5, <2>1, <2>3, NAELTGood
  <2>4. CASE \E f \in DOMAIN Fields \cup {NULL} : Replace(1, NARRV(x, Top, f))
    BY <1>5, <2>1, <2>4, NARRVGood
  <2> QED BY <2>2, <2>3, <2>4
<1>9. CASE Operator
  <2> DEFINE l == stack[Len(stack) - 1]
  <2>1. /\ Good(Top) /\ Typed(Top) /\ Good(l) /\ Typed(l)
        /\ 2 \in 0..Len(stack) /\ UNCHANGED stat
    BY <1>2, <1>3, <1>9 DEF Operator, Top
  <2>2. \/ \E node \in Binary(l, Top) : Replace(2, node)
        \/ Replace(2, NNOT(l, Top))
    BY <1>9 DEF Operator
  <2> HIDE DEF l
  <2> QED BY <1>5, <2>1, <2>2, BinaryGood, NNOTGood
<1>10. CASE Call
  <2>1. PICK x \in Names, k \in 0..Len(stack) :
          Replace(k, NFCALL(x, SubSeq(stack, Len(stack) - k + 1, Len(stack))))
    BY <1>10 DEF Call
  <2> DEFINE args == SubSeq(stack, Len(stack) - k + 1, Len(stack))
  <2>2. /\ DOMAIN args = 1..Len(args)
        /\ \A i \in DOMAIN args : Good(args[i]) /\ Typed(args[i])
    BY <1>1, ArgsGood
  <2>3. Replace(k, NFCALL(x, args)) /\ UNCHANGED stat
    BY <1>10, <2>1 DEF Call
  <2> HIDE DEF args
  <2>4. Good(NFCALL(x, args)) /\ Typed(NFCALL(x, args))
    BY <2>2, NFCALLGood
  <2> QED BY <1>5, <2>3, <2>4
<1>11. CASE Whole
  <2>1. CASE \E x \in Names : Statement(NCALL(x, stack))
    <3>1. \A x : Good(NCALL(x, stack))
      BY <1>2, <1>3, NCALLGood
    <3> QED BY <1>6, <2>1, <3>1
  <2>2. CASE /\ Len(stack) = 1
             /\ Statement(NOUTP(Top)) \/ Statement(NINIT(Top)) \/ Statement(NATYPE(Top))
    <3>1. Good(Top) /\ Typed(Top)
      BY <1>3, <2>2 DEF Top
    <3> QED BY <1>6, <2>2, <3>1, NOUTPGood, NINITGood, NATYPEGood
  <2>3. CASE Len(stack) = 2 /\ Statement(NASGN(stack[1], stack[2]))
    <3>1. Good(NASGN(stack[1], stack[2]))
      BY <1>3, <2>3, NASGNGood
    <3> QED BY <1>6, <2>3, <3>1
  <2> QED BY <1>11, <2>1, <2>2, <2>3 DEF Whole
<1>12. CASE NextStatement
  BY <1>1, <1>12, NoneGood DEF NextStatement, IInv
<1> QED BY <1>7, <1>8, <1>9, <1>10, <1>11, <1>12 DEF Next

(* The invariant holds of every tree that the passes come to. *)
THEOREM Inductive == Spec => []IInv
<1>1. Init => IInv
  BY InitInv
<1>2. IInv /\ [Next]_vars => IInv'
  <2>1. ASSUME IInv, UNCHANGED vars PROVE IInv'
    BY <2>1 DEF IInv, vars
  <2> QED BY <2>1, StepInv
<1> QED BY <1>1, <1>2, PTL DEF Spec

(* What the language has nothing against is not reported by update_ and
   analyse_ functions of semantic_analysis.c, and without a `not` they do not
   end the compiler either. *)
THEOREM NothingFalse == Spec => []NoFalseReports
<1>1. ASSUME IInv PROVE NoFalseReports
  BY <1>1 DEF IInv, Goods, Good, NoFalseReports, Subtrees
<1> QED BY <1>1, Inductive, PTL

(* A fault that the analysis has a check for stops the compilation, in however
   deep an expression it is. *)
THEOREM NothingThrough == Spec => []FaultsStop
<1>1. ASSUME IInv PROVE FaultsStop
  BY <1>1 DEF IInv, Goods, Good, FaultsStop, Subtrees, Accepted
<1> QED BY <1>1, Inductive, PTL

(* The type that the three-address code reads in a node is the type of the
   expression. *)
THEOREM TypesRight == Spec => []TypesMeant
<1>1. ASSUME IInv PROVE TypesMeant
  <2>1. ASSUME NEW k \in DOMAIN stack, Sound(stack[k])
        PROVE  stack[k].type = stack[k].meant.type
    <3>1. Good(stack[k]) /\ Typed(stack[k])
      BY <1>1 DEF IInv, Goods
    <3>2. stack[k].meant # Wrong
      BY <2>1, <3>1 DEF Good
    <3> QED BY <3>1, <3>2, RightType
  <2> QED BY <2>1 DEF TypesMeant
<1> QED BY <1>1, Inductive, PTL
=============================================================================
