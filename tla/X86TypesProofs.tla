---------------------------- MODULE X86TypesProofs ----------------------------
(***************************************************************************)
(* The types of operands: every operation of a finished program works on   *)
(* operands of its type, for every set of programs, bound and number of    *)
(* registers.                                                              *)
(*                                                                         *)
(* The expressions of the code are typed by what the caller asks for and   *)
(* by what the callee gives back, which are the frames of the stack here:  *)
(* a frame asks for an operand of some type, holds those it was given, and *)
(* gives one to the frame below.  The lines are typed as they are written, *)
(* each from the frame that writes it.                                     *)
(***************************************************************************)
EXTENDS X86CodegenProofs

(***************************************************************************)
(* Types of operands.                                                      *)
(***************************************************************************)
(* A line works on what it is for; a parameter and a result need more than the
   line itself: its call, and its function. *)
Well(l) ==
  LET L == l.left.ty
      M == l.middle.ty
      R == l.right.ty
  IN  /\ l.op = "ADDI"  => M \in {"int", "ptr"} /\ L = M /\ R = "int"
      /\ l.op = "MULI"  => L = "int" /\ M = "int" /\ R = "int"
      /\ l.op = "ADDF"  => L = "real" /\ M = "real" /\ R = "real"
      /\ l.op = "GTI"   => L = "bool" /\ M = "int" /\ R = "int"
      /\ l.op = "GTF"   => L = "bool" /\ M = "real" /\ R = "real"
      /\ l.op = "AND"   => L = "bool" /\ M = "bool" /\ R = "bool"
      /\ l.op = "NOT"   => L = "bool" /\ R = "bool"
      /\ l.op = "ITOF"  => L = "real" /\ R = "int"
      /\ l.op = "ASIGN" => L = R /\ L \in Values
      /\ l.op = "STORE" => L = "ptr" /\ R \in Values
      /\ l.op = "DEREF" => L \in Values /\ R = "ptr"
      /\ l.op = "PRINTI" => L = "int"
      /\ l.op \in {"PRINTF", "READF"} => L = "real"
      /\ l.op = "READI" => L \in {"int", "bool"}
      /\ l.op = "GOTOF" => R = "bool"
      /\ l.op \in {"TRUE", "FALSE"} => L = "bool"
Callee(l) == IF l.op = "CALL" THEN l.left.val ELSE l.middle.val
(* Line i is in the function of this name. *)
InFunc(s, i, name) ==
  \E j \in 1..i : s[j].op = "FUNC" /\ NoFunc(s, j, i) /\ s[j].left.val = name
TypedAt(s, i) ==
  /\ Well(s[i])
  /\ s[i].op = "RVAL"  => \E f \in Funcs : InFunc(s, i, f) /\ s[i].left.ty = sigs[f].ret
  /\ s[i].op = "PARAM" =>
       s[i].left.ty = sigs[Callee(s[i + s[i].ref[3]])].pars[s[i].ref[3]]
AllTyped(s) == \A i \in 1..Len(s) : TypedAt(s, i)

(* The type that a frame gives to the one below it, and whether that takes it: an
   address where a place is asked for, and anywhere in a print. *)
Result(f) == IF f.k = "arith" THEN f.ty ELSE IF f.out.type = "TMP" THEN f.out.ty ELSE "ptr"
Accepts(g, w, ty) == IF w \in {"place", "whole"} THEN ty = "ptr"
                     ELSE ty = w \/ (g.k = "print" /\ ty = "ptr")

(* What a frame asks for, by its kind. *)
Suited(f) ==
  /\ f.k \in {"arith", "relop", "not", "update"} =>
       /\ f.ty \in Numeric /\ f.tys[1] \in Numeric /\ f.tys[2] \in Numeric
       /\ f.ty = "int" => f.tys[1] = "int" /\ f.tys[2] = "int"
  /\ f.k = "logic" => f.ty = "int" /\ f.tys[1] = "bool" /\ f.tys[2] = "bool"
  /\ f.k \in {"relop", "not", "logic"} => f.out.ty = "bool"
  /\ f.k = "elem" => /\ f.tys[1] = "ptr" /\ f.tys[2] = "int"
                     /\ f.out.type = "TMP" => f.out.ty \in Values /\ f.field # 0
  /\ f.k \in {"call", "fncall"} => f.tys = sigs[f.name].pars
  /\ f.k = "asgn" => f.tys[2] \in Values /\ f.tys[1] \in {"place", f.tys[2]}
  /\ f.k = "update" => f.tys[1] = f.ty
  /\ f.k = "copy" => f.tys[1] = "whole" /\ f.tys[2] = "whole"
  /\ f.k = "print" => f.ty \in Numeric /\ f.tys[1] = f.ty
  /\ f.k = "read" => f.ty \in Values /\ f.tys[1] = "place"
  /\ f.k \in FlowKinds /\ Len(f.tys) # 0 => f.tys[1] = "bool"

(* The operands it has: those of an operator are made real, but for the last one
   before the frame goes on. *)
Widened(f, m) == IF f.ty = "real" /\ f.tys[m] = "int" THEN "real" ELSE f.tys[m]
Filled(f) ==
  \A m \in 1..Len(f.adrs) :
    IF f.k \in Ops2
    THEN f.adrs[m].ty = IF f.want = "step" /\ m = Len(f.adrs) THEN f.tys[m] ELSE Widened(f, m)
    ELSE Accepts(f, f.tys[m], f.adrs[m].ty)
TypedFrame(f) ==
  Suited(f) /\ Filled(f) /\ (f.want \in Wants => f.want = f.tys[Len(f.adrs) + 1])

TypedStack(fs) ==
  /\ \A i \in 1..Len(fs) : TypedFrame(fs[i])
  /\ \A i \in 2..Len(fs) :
       fs[i].k \in ExprKinds => Accepts(fs[i - 1], fs[i - 1].want, Result(fs[i]))
  /\ \A i \in 1..Len(fs) : fs[i].k = "return" =>
       fs[1].name \in Funcs /\ fs[i].tys[1] = sigs[fs[1].name].ret

TypesOK(t, fs) ==
  /\ AllTyped(t.lines) /\ TypedStack(fs)
  /\ fs # <<>> => InFunc(t.lines, Len(t.lines), fs[1].name)
WellTyped == uses \cap Odd = {} => TypesOK(ts, frames)

(***************************************************************************)
(* Lines.                                                                  *)
(***************************************************************************)
(* A line that needs no more than itself. *)
Proper(l) == l.op \notin {"FUNC", "RVAL", "PARAM"} /\ Well(l)
HasLines(t) == "lines" \in DOMAIN t /\ \E S : t.lines \in Seq(S)
(* u has the lines of t, and proper ones after them. *)
Gains(t, u) ==
  /\ HasLines(u) /\ Longer(t, u) /\ Len(t.lines) \in Nat
  /\ \A i \in (Len(t.lines) + 1)..Len(u.lines) : Proper(u.lines[i])

(* One line more, of any kind. *)
LEMMA EmitLines ==
  ASSUME NEW t, HasLines(t), NEW l, NEW u, u = Emit1(t, l)
  PROVE  /\ HasLines(u) /\ Len(t.lines) \in Nat /\ Len(u.lines) = Len(t.lines) + 1
         /\ u.lines[Len(t.lines) + 1] = l
         /\ \A i \in 1..Len(t.lines) : u.lines[i] = t.lines[i]
<1>1. u = [t EXCEPT !.lines = t.lines \o <<l>>]
  BY DEF Emit1, Emit
<1>2. "lines" \in DOMAIN u /\ u.lines = t.lines \o <<l>>
  BY <1>1 DEF HasLines
<1>3. PICK S : t.lines \in Seq(S)
  BY DEF HasLines
<1>4. t.lines \in Seq(S \cup {l}) /\ <<l>> \in Seq(S \cup {l})
  <2>1. t.lines \in [1..Len(t.lines) -> S] /\ Len(t.lines) \in Nat
    BY <1>3
  <2>2. t.lines \in [1..Len(t.lines) -> S \cup {l}]
    BY <2>1
  <2> QED BY <2>1, <2>2
<1>5. /\ u.lines \in Seq(S \cup {l}) /\ Len(t.lines) \in Nat
      /\ Len(u.lines) = Len(t.lines) + 1 /\ u.lines[Len(t.lines) + 1] = l
      /\ \A i \in 1..Len(t.lines) : u.lines[i] = t.lines[i]
  BY <1>2, <1>4
<1> QED BY <1>2, <1>5 DEF HasLines

(* A T_S has lines. *)
LEMMA AtFirst == ASSUME NEW t, TSok(t) PROVE HasLines(t) /\ Gains(t, t)
<1>1. t.lines \in Seq(LineSet) /\ "lines" \in DOMAIN t
  BY DEF TSok
<1>2. HasLines(t) /\ Len(t.lines) \in Nat
  BY <1>1 DEF HasLines
<1> QED BY <1>2 DEF Gains, Longer

(* Each of the steps adds no other line. *)
LEMMA GainsEmit ==
  ASSUME NEW t, NEW u, Gains(t, u), NEW l, Proper(l)
  PROVE  Gains(t, Emit1(u, l))
<1> DEFINE w == Emit1(u, l)
<1>1. /\ HasLines(w) /\ Len(u.lines) \in Nat /\ Len(w.lines) = Len(u.lines) + 1
      /\ w.lines[Len(u.lines) + 1] = l
      /\ \A i \in 1..Len(u.lines) : w.lines[i] = u.lines[i]
  BY EmitLines DEF Gains
<1> HIDE DEF w
<1>2. /\ Len(t.lines) \in Nat /\ Len(t.lines) <= Len(u.lines)
      /\ \A i \in 1..Len(t.lines) : u.lines[i] = t.lines[i]
      /\ \A i \in (Len(t.lines) + 1)..Len(u.lines) : Proper(u.lines[i])
  BY DEF Gains, Longer
<1>3. Longer(t, w)
  BY <1>1, <1>2 DEF Longer
<1>4. ASSUME NEW i \in (Len(t.lines) + 1)..Len(w.lines) PROVE Proper(w.lines[i])
  <2>1. i = Len(u.lines) + 1 \/ i \in (Len(t.lines) + 1)..Len(u.lines)
    BY <1>1, <1>2
  <2>2. i \in (Len(t.lines) + 1)..Len(u.lines) => i \in 1..Len(u.lines)
    BY <1>1, <1>2
  <2> QED BY <1>1, <1>2, <2>1, <2>2
<1> QED BY <1>1, <1>2, <1>3, <1>4 DEF Gains, w

LEMMA GainsSame ==
  ASSUME NEW t, NEW u, Gains(t, u), NEW w, HasLines(w), w.lines = u.lines
  PROVE  Gains(t, w)
BY DEF Gains, Longer

LEMMA GainsTakes ==
  ASSUME NEW t, NEW u, Gains(t, u)
  PROVE  Gains(t, TookTmp(u))
<1> DEFINE w == TookTmp(u)
<1>1. HasLines(w) /\ w.lines = u.lines
  BY DEF TookTmp, HasLines, Gains
<1> HIDE DEF w
<1>2. Gains(t, w)
  BY <1>1, GainsSame
<1> QED BY <1>2 DEF w

LEMMA GainsLabels ==
  ASSUME NEW t, NEW u, Gains(t, u), NEW n
  PROVE  Gains(t, [u EXCEPT !.label = @ + n])
<1> DEFINE w == [u EXCEPT !.label = @ + n]
<1>1. HasLines(w) /\ w.lines = u.lines
  BY DEF HasLines, Gains
<1> HIDE DEF w
<1>2. Gains(t, w)
  BY <1>1, GainsSame
<1> QED BY <1>2 DEF w

LEMMA GainsIntern ==
  ASSUME NEW t, NEW u, Gains(t, u), NEW q, NEW v
  PROVE  Gains(t, Intern(u, q, v))
<1> DEFINE w == Intern(u, q, v)
<1>1. HasLines(w) /\ w.lines = u.lines
  BY DEF Intern, HasLines, Gains
<1> HIDE DEF w
<1>2. Gains(t, w)
  BY <1>1, GainsSame
<1> QED BY <1>2 DEF w

(* A line is in the function that the one before it is in. *)
LEMMA InFuncOn ==
  ASSUME NEW t, NEW u, HasLines(u), Longer(t, u), Len(t.lines) \in Nat,
         \A i \in (Len(t.lines) + 1)..Len(u.lines) : u.lines[i].op # "FUNC",
         NEW name, InFunc(t.lines, Len(t.lines), name)
  PROVE  \A i \in Len(t.lines)..Len(u.lines) : InFunc(u.lines, i, name)
<1> DEFINE s == t.lines
           r == u.lines
<1>1. /\ Len(s) \in Nat /\ Len(s) <= Len(r) /\ \A i \in 1..Len(s) : r[i] = s[i]
      /\ \A i \in (Len(s) + 1)..Len(r) : r[i].op # "FUNC"
      /\ Len(r) \in Nat
  BY DEF Longer, HasLines
<1>2. PICK j \in 1..Len(s) : s[j].op = "FUNC" /\ NoFunc(s, j, Len(s)) /\ s[j].left.val = name
  BY DEF InFunc
<1> TAKE i \in Len(t.lines)..Len(u.lines)
<1>a. i \in Len(s)..Len(r)
  OBVIOUS
<1> HIDE DEF s, r
<1>3. ASSUME NEW k \in (j + 1)..i PROVE r[k].op # "FUNC"
  <2>1. k \in (j + 1)..Len(s) \/ k \in (Len(s) + 1)..Len(r)
    <3>1. Len(s) \in Nat /\ Len(r) \in Nat /\ k \in (j + 1)..i /\ k \in Int
      BY <1>1, <1>3
    <3> QED BY ONLY <1>a, <3>1, j \in 1..Len(s)
  <2>2. CASE k \in (j + 1)..Len(s)
    <3>1. k \in 1..Len(s)
      BY <1>1, <2>2
    <3> QED BY <1>1, <1>2, <2>2, <3>1 DEF NoFunc
  <2>3. CASE k \in (Len(s) + 1)..Len(r)
    BY <1>1, <2>3
  <2> QED BY <2>1, <2>2, <2>3
<1>4. j \in 1..i
  BY <1>1, <1>a
<1>5. InFunc(r, i, name)
  BY <1>1, <1>2, <1>3, <1>4 DEF InFunc, NoFunc
<1> QED BY <1>5 DEF r

LEMMA GainsFunc ==
  ASSUME NEW t, NEW u, Gains(t, u), NEW name, InFunc(t.lines, Len(t.lines), name)
  PROVE  \A i \in Len(t.lines)..Len(u.lines) : InFunc(u.lines, i, name)
<1>1. \A i \in (Len(t.lines) + 1)..Len(u.lines) : u.lines[i].op # "FUNC"
  BY DEF Gains, Proper
<1> QED BY <1>1, InFuncOn DEF Gains

(* What was said of the lines that are there still holds with more of them. *)
LEMMA StillTyped ==
  ASSUME NEW s, NEW r, Len(s) \in Nat, Len(s) <= Len(r), Len(r) \in Nat, AllTyped(s), Blocks(s),
         \A i \in 1..Len(s) : r[i] = s[i]
  PROVE  \A i \in 1..Len(s) : TypedAt(r, i)
<1> TAKE i \in 1..Len(s)
<1>1. TypedAt(s, i) /\ r[i] = s[i]
  BY DEF AllTyped
<1>2. ASSUME NEW f, InFunc(s, i, f) PROVE InFunc(r, i, f)
  <2>1. PICK j \in 1..i : s[j].op = "FUNC" /\ NoFunc(s, j, i) /\ s[j].left.val = f
    BY <1>2 DEF InFunc
  <2>2. \A k \in (j + 1)..i : k \in 1..Len(s)
    OBVIOUS
  <2>3. NoFunc(r, j, i) /\ r[j] = s[j]
    BY <2>1, <2>2 DEF NoFunc
  <2> QED BY <2>1, <2>3 DEF InFunc
<1>3. ASSUME s[i].op = "PARAM"
      PROVE  r[i + r[i].ref[3]] = s[i + s[i].ref[3]]
  <2>1. s[i].ref[3] \in 1..(Len(s) - i)
    BY <1>3 DEF Blocks, InBlock
  <2>2. i + s[i].ref[3] \in 1..Len(s)
    BY <2>1
  <2> QED BY <1>1, <2>2
<1> QED BY <1>1, <1>2, <1>3 DEF TypedAt

(* So with proper ones. *)
LEMMA GainsTyped ==
  ASSUME NEW t, NEW u, Gains(t, u), AllTyped(t.lines), Blocks(t.lines)
  PROVE  AllTyped(u.lines)
<1> DEFINE s == t.lines
           r == u.lines
<1>1. /\ Len(s) \in Nat /\ Len(s) <= Len(r) /\ \A i \in 1..Len(s) : r[i] = s[i]
      /\ \A i \in (Len(s) + 1)..Len(r) : Proper(r[i])
  BY DEF Gains, Longer
<1>2. Len(r) \in Nat
  BY DEF Gains, HasLines
<1> HIDE DEF s, r
<1>3. \A i \in 1..Len(s) : TypedAt(r, i)
  BY <1>1, <1>2, StillTyped DEF s
<1>4. ASSUME NEW i \in (Len(s) + 1)..Len(r) PROVE TypedAt(r, i)
  BY <1>1, <1>4 DEF Proper, TypedAt
<1>5. \A i \in 1..Len(r) : i \in 1..Len(s) \/ i \in (Len(s) + 1)..Len(r)
  BY <1>1, <1>2
<1> QED BY <1>3, <1>4, <1>5 DEF AllTyped, r

(***************************************************************************)
(* The stack.                                                              *)
(***************************************************************************)
(* Where the results and the returned values of a stack go. *)
Linked(fs) ==
  \A i \in 2..Len(fs) :
    fs[i].k \in ExprKinds => Accepts(fs[i - 1], fs[i - 1].want, Result(fs[i]))
Returning(fs) ==
  \A i \in 1..Len(fs) : fs[i].k = "return" =>
    fs[1].name \in Funcs /\ fs[i].tys[1] = sigs[fs[1].name].ret
LEMMA StackIs ==
  ASSUME NEW fs
  PROVE  TypedStack(fs) <=> /\ \A i \in 1..Len(fs) : TypedFrame(fs[i])
                            /\ Linked(fs) /\ Returning(fs)
BY DEF TypedStack, Linked, Returning

(* g may stand for the frame on top. *)
Stands(f, g) == /\ g.k = f.k /\ g.name = f.name /\ Result(g) = Result(f)
                /\ g.k = "return" => g.tys = f.tys
LEMMA TypedTop ==
  ASSUME NEW fs \in Seq(FrameSet), fs # <<>>, TypedStack(fs),
         NEW g, TypedFrame(g), Stands(Last(fs), g), NEW gs, Topped(fs, g, gs)
  PROVE  TypedStack(gs) /\ gs # <<>> /\ gs[1].name = fs[1].name
<1> DEFINE n == Len(fs)
<1>1. n \in Nat /\ n # 0 /\ n \in 1..n /\ 1 \in 1..n /\ Last(fs) = fs[n]
  BY DEF Last
<1>2. /\ Len(gs) = n /\ gs[n] = g /\ DOMAIN gs = 1..n
      /\ \A i \in 1..n : i # n => gs[i] = fs[i]
  BY <1>1 DEF Topped
<1>3. gs # <<>>
  BY <1>1, <1>2
<1> HIDE DEF n
<1>4. \A i \in 1..n : Stands(fs[i], gs[i])
  BY <1>1, <1>2 DEF Stands
<1>5. \A i \in 1..n : TypedFrame(gs[i])
  BY <1>2 DEF TypedStack, n
<1>6. Linked(gs)
  <2>1. ASSUME NEW i \in 2..n, gs[i].k \in ExprKinds
        PROVE  Accepts(gs[i - 1], gs[i - 1].want, Result(gs[i]))
    <3>1. i \in 1..n /\ i - 1 \in 1..n /\ i - 1 # n
      BY <1>1
    <3>2. gs[i - 1] = fs[i - 1] /\ gs[i].k = fs[i].k /\ Result(gs[i]) = Result(fs[i])
      BY <1>2, <1>4, <3>1 DEF Stands
    <3> QED BY <2>1, <3>2 DEF TypedStack, n
  <2> QED BY <1>2, <2>1 DEF Linked
<1>7. Returning(gs)
  <2>1. ASSUME NEW i \in 1..n, gs[i].k = "return"
        PROVE  gs[1].name \in Funcs /\ gs[i].tys[1] = sigs[gs[1].name].ret
    <3>1. /\ gs[i].k = fs[i].k /\ gs[1].name = fs[1].name
          /\ gs[i].tys = fs[i].tys
      BY <1>1, <1>2, <1>4, <2>1 DEF Stands
    <3> QED BY <2>1, <3>1 DEF TypedStack, n
  <2> QED BY <1>2, <2>1 DEF Returning
<1> QED BY <1>1, <1>2, <1>3, <1>4, <1>5, <1>6, <1>7, StackIs DEF Stands

(* A frame more; what it gives is taken by the one below. *)
LEMMA TypedPush ==
  ASSUME NEW fs \in Seq(FrameSet), fs # <<>>, TypedStack(fs),
         NEW g, TypedFrame(g),
         g.k \in ExprKinds => Accepts(Last(fs), Last(fs).want, Result(g)),
         g.k = "return" => fs[1].name \in Funcs /\ g.tys[1] = sigs[fs[1].name].ret,
         NEW gs, gs = Append(fs, g)
  PROVE  TypedStack(gs) /\ gs # <<>> /\ gs[1].name = fs[1].name
<1> DEFINE n == Len(fs)
<1>1. n \in Nat /\ n # 0 /\ n \in 1..n /\ 1 \in 1..n /\ Last(fs) = fs[n]
  BY DEF Last
<1>2. /\ Len(gs) = n + 1 /\ gs[n + 1] = g
      /\ \A i \in 1..n : gs[i] = fs[i]
  BY <1>1
<1>3. gs # <<>>
  BY <1>1, <1>2
<1> HIDE DEF n
<1>4. \A i \in 1..(n + 1) : i \in 1..n \/ i = n + 1
  BY <1>1
<1>5. \A i \in 1..(n + 1) : TypedFrame(gs[i])
  BY <1>2, <1>4 DEF TypedStack, n
<1>6. Linked(gs)
  <2>1. ASSUME NEW i \in 2..(n + 1), gs[i].k \in ExprKinds
        PROVE  Accepts(gs[i - 1], gs[i - 1].want, Result(gs[i]))
    <3>1. CASE i \in 2..n
      <4>1. i \in 1..n /\ i - 1 \in 1..n
        BY <1>1, <3>1
      <4>2. gs[i - 1] = fs[i - 1] /\ gs[i] = fs[i]
        BY <1>2, <4>1
      <4> QED BY <2>1, <3>1, <4>2 DEF TypedStack, n
    <3>2. CASE i = n + 1
      <4>1. i - 1 = n
        BY <1>1, <3>2
      <4>2. gs[i - 1] = Last(fs) /\ gs[i] = g
        BY <1>1, <1>2, <3>2, <4>1
      <4> QED BY <2>1, <4>2
    <3>3. i \in 2..n \/ i = n + 1
      BY <1>1
    <3> QED BY <3>1, <3>2, <3>3
  <2> QED BY <1>2, <2>1 DEF Linked
<1>7. Returning(gs)
  <2>1. ASSUME NEW i \in 1..(n + 1), gs[i].k = "return"
        PROVE  gs[1].name \in Funcs /\ gs[i].tys[1] = sigs[gs[1].name].ret
    <3>1. gs[1] = fs[1]
      BY <1>1, <1>2
    <3>2. CASE i \in 1..n
      BY <1>2, <2>1, <3>1, <3>2 DEF TypedStack, n
    <3>3. CASE i = n + 1
      BY <1>2, <2>1, <3>1, <3>3
    <3> QED BY <1>4, <3>2, <3>3
  <2> QED BY <1>2, <2>1 DEF Returning
<1> QED BY <1>1, <1>2, <1>3, <1>5, <1>6, <1>7, StackIs

(* A frame less. *)
LEMMA TypedPop ==
  ASSUME NEW fs \in Seq(FrameSet), Len(fs) > 1, TypedStack(fs), NEW gs, gs = Front(fs)
  PROVE  /\ TypedStack(gs) /\ gs # <<>> /\ gs[1].name = fs[1].name /\ gs \in Seq(FrameSet)
         /\ Last(fs).k \in ExprKinds => Accepts(Last(gs), Last(gs).want, Result(Last(fs)))
<1> DEFINE n == Len(fs)
<1>1. n \in Nat /\ n > 1 /\ n \in 2..n /\ Last(fs) = fs[n]
  BY DEF Last
<1>2. /\ gs \in Seq(FrameSet) /\ Len(gs) = n - 1 /\ \A i \in 1..(n - 1) : gs[i] = fs[i]
      /\ gs # <<>> /\ Last(gs) = fs[n - 1]
  <2>1. gs = SubSeq(fs, 1, n - 1)
    BY DEF Front
  <2>2. gs \in Seq(FrameSet) /\ Len(gs) = n - 1 /\ \A i \in 1..(n - 1) : gs[i] = fs[i]
    BY <1>1, <2>1
  <2>3. Len(gs) # 0 /\ n - 1 \in 1..(n - 1)
    BY <1>1, <2>2
  <2> QED BY <2>2, <2>3 DEF Last
<1> HIDE DEF n
<1>3. \A i \in 1..(n - 1) : i \in 1..n
  BY <1>1
<1>4. \A i \in 1..(n - 1) : TypedFrame(gs[i])
  BY <1>2, <1>3 DEF TypedStack, n
<1>5. Linked(gs)
  <2>1. ASSUME NEW i \in 2..(n - 1), gs[i].k \in ExprKinds
        PROVE  Accepts(gs[i - 1], gs[i - 1].want, Result(gs[i]))
    <3>1. i \in 2..n /\ i \in 1..(n - 1) /\ i - 1 \in 1..(n - 1)
      BY <1>1
    <3>2. gs[i - 1] = fs[i - 1] /\ gs[i] = fs[i]
      BY <1>2, <3>1
    <3> QED BY <2>1, <3>1, <3>2 DEF TypedStack, n
  <2> QED BY <1>2, <2>1 DEF Linked
<1>6. Returning(gs)
  <2>1. 1 \in 1..(n - 1)
    BY <1>1
  <2> QED BY <1>2, <1>3, <2>1 DEF TypedStack, Returning, n
<1>7. TypedStack(gs)
  BY <1>2, <1>4, <1>5, <1>6, StackIs
<1>8. 1 \in 1..(n - 1)
  BY <1>1
<1> QED BY <1>1, <1>2, <1>7, <1>8 DEF TypedStack, n

(* The frame on top gets an operand that it accepts. *)
LEMMA TypedGive ==
  ASSUME NEW fs \in Seq(FrameSet), fs # <<>>, TypedStack(fs), Shaped(Last(fs)),
         Last(fs).want \in Wants, NEW a, Accepts(Last(fs), Last(fs).want, a.ty),
         NEW gs, gs = Given(fs, a)
  PROVE  TypedStack(gs) /\ gs # <<>> /\ gs[1].name = fs[1].name
<1> DEFINE f == Last(fs)
           n == Len(f.adrs) + 1
           want == IF n < Len(f.tys) /\ f.k \notin Ops2 THEN f.tys[n + 1] ELSE "step"
           g == [f EXCEPT !.adrs = Append(@, a), !.want = want]
<1>1. f \in FrameSet /\ TypedFrame(f)
  <2>1. Len(fs) \in 1..Len(fs)
    OBVIOUS
  <2> QED BY <2>1 DEF Last, TypedStack
<1>2. f.adrs \in Seq(Adrs) /\ f.tys \in Seq(Wants) /\ n \in Nat /\ n # 0
  BY <1>1, SMTT(30) DEF FrameSet
<1>3. Topped(fs, g, gs)
  BY DEF Given, Topped
<1>4. f.want = f.tys[n] /\ Accepts(f, f.tys[n], a.ty) /\ f.want # "step"
  BY <1>1 DEF TypedFrame, Wants
<1> HIDE DEF want
<1>5. /\ g.adrs = Append(f.adrs, a) /\ g.want = want
      /\ g.k = f.k /\ g.name = f.name /\ g.out = f.out /\ g.tys = f.tys /\ g.ty = f.ty
      /\ g.field = f.field
  BY <1>1 DEF FrameSet
<1> HIDE DEF g
<1>6. Len(g.adrs) = n /\ g.adrs[n] = a /\ \A m \in 1..(n - 1) : g.adrs[m] = f.adrs[m]
  BY <1>2, <1>5
<1>7. want \in Wants => want = f.tys[n + 1]
  BY DEF want, Wants
<1>8. f.k \in Ops2 => want = "step" /\ a.ty = f.tys[n]
  <2>1. CASE f.k \in Ops2
    <3>1. Len(f.adrs) < Len(f.tys) /\ Len(f.tys) = 2
      BY <2>1 DEF Shaped
    <3>2. n \in {1, 2}
      BY <1>2, <3>1
    <3>3. f.tys[n] \notin {"place", "whole"} /\ f.k # "print"
      BY <1>1, <2>1, <3>2 DEF TypedFrame, Suited, Ops2, Numeric
    <3> QED BY <1>4, <2>1, <3>3 DEF Accepts, want
  <2> QED BY <2>1
<1> HIDE DEF f
<1>9. Filled(g)
  <2>1. ASSUME NEW m \in 1..n, f.k \in Ops2
        PROVE  g.adrs[m].ty = IF m = n THEN f.tys[m] ELSE Widened(f, m)
    <3>1. CASE m = n
      BY <1>6, <1>8, <2>1, <3>1
    <3>2. CASE m # n
      <4>1. m \in 1..(n - 1) /\ n - 1 = Len(f.adrs)
        BY <1>2, <3>2 DEF n
      <4> QED BY <1>1, <1>4, <1>6, <2>1, <3>2, <4>1 DEF TypedFrame, Filled
    <3> QED BY <3>1, <3>2
  <2>2. ASSUME NEW m \in 1..n, f.k \notin Ops2
        PROVE  Accepts(f, f.tys[m], g.adrs[m].ty)
    <3>1. CASE m = n
      BY <1>4, <1>6, <3>1
    <3>2. CASE m # n
      <4>1. m \in 1..(n - 1) /\ n - 1 = Len(f.adrs)
        BY <1>2, <3>2 DEF n
      <4> QED BY <1>1, <1>6, <2>2, <4>1 DEF TypedFrame, Filled
    <3> QED BY <3>1, <3>2
  <2>3. \A m : Widened(g, m) = Widened(f, m)
    BY <1>5 DEF Widened
  <2>4. \A w, ty : Accepts(g, w, ty) <=> Accepts(f, w, ty)
    BY <1>5 DEF Accepts
  <2> QED BY <1>5, <1>6, <1>8, <2>1, <2>2, <2>3, <2>4 DEF Filled
<1>10. Suited(g)
  BY <1>1, <1>5 DEF TypedFrame, Suited
<1>11. TypedFrame(g)
  BY <1>5, <1>6, <1>7, <1>9, <1>10 DEF TypedFrame
<1>12. Stands(Last(fs), g)
  BY <1>5 DEF Stands, Result, f
<1> QED BY <1>3, <1>11, <1>12, TypedTop

(***************************************************************************)
(* The ways in which an action goes on.                                    *)
(***************************************************************************)
Checked == uses \cap Odd = {} /\ Now /\ TypesOK(ts, frames)
After   == TypesOK(ts', frames')

(* What is known while a function is generated. *)
LEMMA AtChecked ==
  ASSUME Checked, InCode
  PROVE  /\ frames \in Seq(FrameSet) /\ frames # <<>> /\ TypedStack(frames)
         /\ Top = Last(frames) /\ Top \in FrameSet /\ Shaped(Top)
         /\ TypedFrame(Top) /\ Suited(Top) /\ Filled(Top)
         /\ Top.want \in Wants => Top.want = Top.tys[Len(Top.adrs) + 1]
         /\ Top.k # "func" => Len(frames) > 1
         /\ Gains(ts, ts) /\ TSok(ts) /\ Blocks(ts.lines) /\ AllTyped(ts.lines)
         /\ InFunc(ts.lines, Len(ts.lines), frames[1].name)
<1>1. /\ frames # <<>> /\ Top = Last(frames) /\ Top \in FrameSet /\ Shaped(Top) /\ TSok(ts)
      /\ Inv(ts, frames, land, uses)
  BY AtTop DEF Checked
<1>2. frames \in Seq(FrameSet) /\ Blocks(ts.lines) /\ frames[1].k = "func"
  BY <1>1 DEF Inv, Framed, Stacked1
<1>3. Len(frames) \in 1..Len(frames) /\ Top = frames[Len(frames)]
  BY <1>1, <1>2 DEF Last
<1>4. /\ TypedStack(frames) /\ AllTyped(ts.lines)
      /\ InFunc(ts.lines, Len(ts.lines), frames[1].name)
  BY <1>1 DEF Checked, TypesOK
<1>5. TypedFrame(Top)
  BY <1>3, <1>4 DEF TypedStack
<1>6. Top.k # "func" => Len(frames) > 1
  BY <1>2, <1>3
<1> QED BY <1>1, <1>2, <1>4, <1>5, <1>6, AtFirst DEF TypedFrame

(* Only proper lines are added. *)
LEMMA Gained ==
  ASSUME Checked, InCode, Gains(ts, ts'), TypedStack(frames'),
         frames' # <<>> => frames'[1].name = frames[1].name
  PROVE  After
<1>1. AllTyped(ts'.lines)
  BY AtChecked, GainsTyped
<1>2. Len(ts.lines) <= Len(ts'.lines) /\ Len(ts'.lines) \in Nat /\ Len(ts.lines) \in Nat
  BY DEF Gains, Longer, HasLines
<1>3. InFunc(ts'.lines, Len(ts'.lines), frames[1].name)
  <2>1. Len(ts'.lines) \in Len(ts.lines)..Len(ts'.lines)
    BY <1>2
  <2> QED BY <2>1, AtChecked, GainsFunc
<1> QED BY <1>1, <1>3 DEF After, TypesOK

(* An operand, an operator's result, an operator begun. *)
LEMMA Gives ==
  ASSUME Checked, InCode, Top.want \in Wants, Gains(ts, ts'), NEW a,
         Accepts(Top, Top.want, a.ty), frames' = Given(frames, a)
  PROVE  After
<1>1. TypedStack(frames') /\ frames'[1].name = frames[1].name
  BY AtChecked, TypedGive
<1> QED BY <1>1, Gained

LEMMA Pops ==
  ASSUME Checked, InCode, Top.k \in ExprKinds, NEW gs, gs = Front(frames)
  PROVE  /\ TypedStack(gs) /\ gs # <<>> /\ gs[1].name = frames[1].name
         /\ gs \in Seq(FrameSet) /\ Shaped(Last(gs)) /\ Last(gs).want \in Wants
         /\ Accepts(Last(gs), Last(gs).want, Result(Top))
<1>1. Top.k # "func" /\ Top.k \notin StatKinds
  BY DEF ExprKinds, StatKinds, FlowKinds, Ops2
<1>2. Top = Last(frames) /\ Framed(ts, frames, uses) /\ frames # <<>>
  BY AtChecked DEF Checked, Now, Inv
<1>3. Framed(ts, gs, uses) /\ gs # <<>> /\ OnTop(Last(frames), Last(gs))
  BY <1>1, <1>2, MovePop
<1>4. gs \in Seq(FrameSet) /\ Shaped(Last(gs)) /\ Last(gs).want \in Wants
  <2>1. Len(gs) \in 1..Len(gs) /\ gs \in Seq(FrameSet)
    BY <1>3 DEF Framed
  <2> QED BY <1>1, <1>2, <1>3, <2>1 DEF Framed, Last, OnTop
<1> QED BY <1>1, <1>2, <1>4, AtChecked, TypedPop

LEMMA Returns ==
  ASSUME Checked, InCode, Top.k \in ExprKinds, Gains(ts, ts'), NEW a, a.ty = Result(Top),
         frames' = Given(Front(frames), a)
  PROVE  After
<1>1. PICK gs : gs = Front(frames)
  OBVIOUS
<1>2. /\ TypedStack(gs) /\ gs # <<>> /\ gs[1].name = frames[1].name
      /\ gs \in Seq(FrameSet) /\ Shaped(Last(gs)) /\ Last(gs).want \in Wants
      /\ Accepts(Last(gs), Last(gs).want, a.ty)
  BY <1>1, Pops
<1>3. TypedStack(frames') /\ frames'[1].name = gs[1].name
  BY <1>1, <1>2, TypedGive
<1> QED BY <1>2, <1>3, Gained

LEMMA Opens ==
  ASSUME Checked, InCode, Gains(ts, ts'), NEW g, TypedFrame(g), g.k \in ExprKinds,
         Accepts(Top, Top.want, Result(g)), frames' = Append(frames, g)
  PROVE  After
<1>1. g.k # "return"
  BY DEF ExprKinds, Ops2
<1>2. TypedStack(frames') /\ frames'[1].name = frames[1].name
  BY <1>1, AtChecked, TypedPush
<1> QED BY <1>2, Gained

(* The frame on top changes. *)
LEMMA Changes ==
  ASSUME Checked, InCode, Gains(ts, ts'), NEW g, TypedFrame(g), Stands(Top, g),
         frames' = SetTop(g)
  PROVE  After
<1>1. Topped(frames, g, frames')
  BY DEF Topped, SetTop
<1>2. TypedStack(frames') /\ frames'[1].name = frames[1].name
  BY <1>1, AtChecked, TypedTop
<1> QED BY <1>2, Gained

(* A stack with another frame on top is one. *)
LEMMA StackOf ==
  ASSUME NEW fs \in Seq(FrameSet), fs # <<>>, NEW g \in FrameSet, NEW gs, Topped(fs, g, gs)
  PROVE  gs \in Seq(FrameSet)
<1>1. Len(fs) \in Nat /\ Len(fs) # 0 /\ Len(fs) \in 1..Len(fs)
  OBVIOUS
<1> QED BY <1>1 DEF Topped

(* It has a statement. *)
LEMMA HasSome ==
  ASSUME Checked, InCode, NEW gs, gs = SetTop([Top EXCEPT !.some = TRUE])
  PROVE  TypedStack(gs) /\ gs # <<>> /\ gs[1].name = frames[1].name /\ gs \in Seq(FrameSet)
<1> DEFINE f == Top
           g == [f EXCEPT !.some = TRUE]
<1>1. f \in FrameSet /\ TypedFrame(f) /\ frames \in Seq(FrameSet) /\ frames # <<>>
  BY AtChecked
<1>2. Topped(frames, g, gs)
  BY DEF Topped, SetTop
<1>3. /\ g \in FrameSet /\ g.k = f.k /\ g.name = f.name /\ g.out = f.out /\ g.tys = f.tys
      /\ g.ty = f.ty /\ g.adrs = f.adrs /\ g.want = f.want /\ g.field = f.field
  BY <1>1 DEF FrameSet
<1>a. gs \in Seq(FrameSet)
  <2>1. g \in FrameSet
    BY <1>3
  <2> HIDE DEF g, f
  <2> QED BY <1>1, <1>2, <2>1, StackOf
<1>b. f = Last(frames)
  BY AtChecked
<1> HIDE DEF g, f
<1>4. TypedFrame(g)
  BY <1>1, <1>3 DEF TypedFrame, Suited, Filled, Widened, Accepts
<1>5. Stands(Last(frames), g)
  BY <1>3, <1>b DEF Stands, Result
<1> QED BY <1>1, <1>2, <1>4, <1>5, <1>a, AtChecked, TypedTop

LEMMA Wholes ==
  ASSUME Checked, InCode, Gains(ts, ts'), frames' = SetTop([Top EXCEPT !.some = TRUE])
  PROVE  After
BY HasSome, Gained

(* A statement begins, or ends. *)
LEMMA Begins ==
  ASSUME Checked, InCode, Gains(ts, ts'), NEW g, TypedFrame(g), g.k \in StatKinds,
         g.k = "return" => frames[1].name \in Funcs /\ g.tys[1] = sigs[frames[1].name].ret,
         frames' = Append(SetTop([Top EXCEPT !.some = TRUE]), g)
  PROVE  After
<1>1. g.k \notin ExprKinds
  BY DEF ExprKinds, StatKinds, FlowKinds, Ops2
<1>2. PICK gs : gs = SetTop([Top EXCEPT !.some = TRUE])
  OBVIOUS
<1>3. TypedStack(gs) /\ gs # <<>> /\ gs[1].name = frames[1].name /\ gs \in Seq(FrameSet)
  BY <1>2, HasSome
<1>4. TypedStack(frames') /\ frames'[1].name = gs[1].name
  BY <1>1, <1>2, <1>3, TypedPush
<1> QED BY <1>3, <1>4, Gained

LEMMA Ends ==
  ASSUME Checked, InCode, Gains(ts, ts'), Top.k # "func", frames' = Front(frames)
  PROVE  After
<1>1. TypedStack(frames') /\ frames'[1].name = frames[1].name
  BY AtChecked, TypedPop
<1> QED BY <1>1, Gained

(***************************************************************************)
(* Operands.                                                               *)
(***************************************************************************)
(* An operand of the type asked for. *)
LEMMA GivesIt ==
  ASSUME Checked, NEW ty \in {"int", "real", "bool", "ptr"}, Waits(ty), Gains(ts, ts'),
         NEW a, a.ty = ty, frames' = Given(frames, a)
  PROVE  After
<1>1. InCode /\ Top.want = ty /\ Top.want \in Wants /\ Accepts(Top, Top.want, a.ty)
  BY DEF Waits, Wants, Accepts
<1> QED BY <1>1, Gives

(* tac_resolve_boolean takes no line. *)
LEMMA AheadGains ==
  ASSUME Checked, InCode, NEW ty
  PROVE  Gains(ts, Ahead(ty))
BY AtChecked, GainsTakes DEF Ahead

LEMMA VariableTyped ==
  ASSUME Checked, NEW i \in DOMAIN Locals, Variable(i)
  PROVE  After
<1> DEFINE a == Adr("VAR", i - 1, Locals[i], 0)
<1>1. Waits(Locals[i]) /\ InCode /\ ts' = Ahead(Top.want) /\ frames' = Given(frames, a)
  BY DEF Variable, Give, Waits
<1>2. Locals[i] \in {"int", "real", "bool"}
  BY DEF Locals
<1>3. a.ty = Locals[i]
  BY DEF Adr
<1> HIDE DEF a
<1>4. Gains(ts, ts')
  BY <1>1, AheadGains
<1> QED BY <1>1, <1>2, <1>3, <1>4, GivesIt

LEMMA ParameterTyped ==
  ASSUME Checked, NEW i, Parameter(i)
  PROVE  After
<1> DEFINE ty == Pars[i]
           a == Adr("PARAM", i - 1, ty, 0)
<1>1. /\ Waits(ty) /\ InCode /\ i \in DOMAIN Pars
      /\ ts' = Ahead(Top.want) /\ frames' = Given(frames, a)
  BY DEF Parameter, Give, Waits
<1>2. ty \in {"int", "real", "ptr"}
  <2> DEFINE p == Pars
  <2>1. p \in Seq({"int", "real", "ptr"}) /\ i \in DOMAIN p
    BY <1>1, ParsAre DEF Checked, InCode
  <2> HIDE DEF p
  <2>2. p[i] \in {"int", "real", "ptr"}
    BY <2>1
  <2> QED BY <2>2 DEF p
<1> HIDE DEF ty
<1>3. a.ty = ty
  BY DEF Adr
<1> HIDE DEF a
<1>4. Gains(ts, ts')
  BY <1>1, AheadGains
<1> QED BY <1>1, <1>2, <1>3, <1>4, GivesIt

LEMMA WholeArrayTyped ==
  ASSUME Checked, WholeArray
  PROVE  After
<1> DEFINE a == Adr("ARRAY", 0, "ptr", 0)
<1>1. Waits("ptr") /\ InCode /\ ts' = ts /\ frames' = Given(frames, a)
  BY DEF WholeArray, Give, Waits
<1>2. a.ty = "ptr"
  BY DEF Adr
<1> HIDE DEF a
<1> QED BY <1>1, <1>2, AtChecked, GivesIt

LEMMA LiteralTyped ==
  ASSUME Checked, NEW q \in Numeric, NEW v, Literal(q, v)
  PROVE  After
<1> DEFINE a == AdrOf(ts, q, v)
<1>1. Waits(q) /\ InCode /\ ts' = Intern(ts, q, v) /\ frames' = Given(frames, a)
  BY DEF Literal, Give, Waits
<1>2. a.ty = q
  BY DEF AdrOf, Adr
<1> HIDE DEF a
<1>3. Gains(ts, ts')
  BY <1>1, AtChecked, GainsIntern
<1> QED BY <1>1, <1>2, <1>3, GivesIt DEF Numeric

LEMMA ConstantTyped ==
  ASSUME Checked, NEW c \in DOMAIN ts.consts, Constant(c)
  PROVE  After
<1> DEFINE ty == c[1]
           a == Adr(LitType(c[1]), ts.consts[c], ty, c[2])
<1>1. Waits(ty) /\ InCode /\ ts' = ts /\ frames' = Given(frames, a)
  BY DEF Constant, Give, Waits
<1>2. ty \in {"int", "real"}
  BY <1>1, AtChecked DEF TSok
<1>3. a.ty = ty
  BY DEF Adr
<1> HIDE DEF a, ty
<1> QED BY <1>1, <1>2, <1>3, AtChecked, GivesIt

LEMMA TrueValueTyped ==
  ASSUME Checked, TrueValue
  PROVE  After
<1> DEFINE a == Tmp(ts, "bool")
           l == Line("TRUE", a, Blank, Blank)
<1>1. Waits("bool") /\ InCode /\ ts' = Emit1(TookTmp(ts), l) /\ frames' = Given(frames, a)
  BY DEF TrueValue, Give, Waits, Emit1, Unary
<1>2. a.ty = "bool"
  BY DEF Tmp, Adr
<1>3. Proper(l)
  BY <1>2 DEF Proper, Well, Line
<1> HIDE DEF a, l
<1>4. Gains(ts, ts')
  BY <1>1, <1>3, AtChecked, GainsTakes, GainsEmit
<1> QED BY <1>1, <1>2, <1>4, GivesIt

LEMMA OperandTyped ==
  ASSUME Checked, Operand
  PROVE  After
<1>1. ASSUME NEW v, IntegerForReal(v) PROVE FALSE
  BY <1>1 DEF IntegerForReal, ArgTypes, Uses, Checked, Odd
<1> QED BY <1>1, VariableTyped, ParameterTyped, WholeArrayTyped, LiteralTyped, ConstantTyped,
           TrueValueTyped DEF Operand

(***************************************************************************)
(* Operators.                                                              *)
(***************************************************************************)
(* A frame that has nothing yet has nothing of another type. *)
LEMMA Unfilled ==
  ASSUME NEW f, Len(f.adrs) = 0, Suited(f), f.want = f.tys[1]
  PROVE  TypedFrame(f)
BY DEF TypedFrame, Filled

(* What an operator asks for. *)
LEMMA OpTyped ==
  ASSUME NEW k \in Ops2, NEW a \in Wants, NEW b \in Wants, NEW ty \in Numeric, NEW out \in Adrs,
         IF k = "logic" THEN ty = "int" /\ a = "bool" /\ b = "bool"
         ELSE a \in Numeric /\ b \in Numeric /\ (ty = "int" => a = "int" /\ b = "int"),
         k # "arith" => out.ty = "bool",
         NEW f, f = OpFrame(k, a, b, out, ty)
  PROVE  TypedFrame(f) /\ f.k = k /\ f.ty = ty /\ f.out = out
<1> DEFINE g == Two(k, a, b)
<1>1. k \in Kinds /\ k \in {"arith", "relop", "not", "logic"}
  BY DEF ExprKinds, Kinds, Ops2
<1>2. /\ g \in FrameSet /\ g.k = k /\ g.want = a /\ Len(g.adrs) = 0
      /\ g.tys[1] = a /\ g.tys[2] = b
  BY <1>1, FramesAre DEF Fresh
<1>3. f = [g EXCEPT !.out = out, !.ty = ty]
  BY DEF OpFrame
<1> HIDE DEF g
<1>4. /\ f.k = k /\ f.tys = g.tys /\ f.adrs = g.adrs /\ f.out = out /\ f.ty = ty
      /\ f.want = a
  BY <1>2, <1>3 DEF FrameSet
<1>5. Suited(f)
  BY <1>1, <1>2, <1>4 DEF Suited, FlowKinds
<1>6. TypedFrame(f)
  BY <1>2, <1>4, <1>5, Unfilled
<1> QED BY <1>4, <1>6

LEMMA OpenArithTyped ==
  ASSUME Checked, NEW ty \in Numeric, NEW a \in Numeric, NEW b \in Numeric,
         OpenArith(ty, <<a, b>>)
  PROVE  After
<1> DEFINE f == [Two("arith", a, b) EXCEPT !.ty = ty]
           g == OpFrame("arith", a, b, Blank, ty)
<1>1. /\ Waits(ty) /\ ts' = ts /\ frames' = Append(frames, f) /\ InCode
      /\ ty = "int" => <<a, b>> = <<"int", "int">>
  BY DEF OpenArith, Open, Two, Waits
<1>2. /\ ty \in Wants /\ a \in Wants /\ b \in Wants /\ "arith" \in Ops2
      /\ ty = "int" => a = "int" /\ b = "int"
  BY <1>1 DEF Numeric, Wants, Ops2
<1>3. Blank \in Adrs
  BY PlainAdrs
<1>4. f = g
  <2> DEFINE h == Two("arith", a, b)
  <2>1. h \in FrameSet /\ h.out = Blank
    <3>2. "arith" \in Kinds
      BY DEF ExprKinds, Ops2, Kinds
    <3> QED BY <1>2, <3>2, FramesAre DEF Fresh
  <2> HIDE DEF h
  <2>2. [h EXCEPT !.ty = ty] = [h EXCEPT !.out = Blank, !.ty = ty]
    BY <2>1 DEF FrameSet
  <2> QED BY <2>2 DEF h, OpFrame
<1> HIDE DEF f
<1>5. TypedFrame(g) /\ g.k = "arith" /\ g.ty = ty
  BY <1>2, <1>3, OpTyped
<1> HIDE DEF g
<1>6. Accepts(Top, Top.want, Result(g)) /\ g.k \in ExprKinds
  BY <1>1, <1>5 DEF Waits, Accepts, Result, Numeric, ExprKinds, Ops2
<1> QED BY <1>1, <1>4, <1>5, <1>6, AtChecked, Opens

LEMMA OpenBoolTyped ==
  ASSUME Checked, NEW k \in {"relop", "not", "logic"}, NEW a \in Wants, NEW b \in Wants,
         IF k = "logic" THEN a = "bool" /\ b = "bool" ELSE a \in Numeric /\ b \in Numeric,
         OpenBool(k, <<a, b>>)
  PROVE  After
<1> DEFINE out == Tmp(ts, "bool")
           ty == IF "real" \in ToSet(<<a, b>>) THEN "real" ELSE "int"
           f == OpFrame(k, a, b, out, ty)
<1>1. Waits("bool") /\ ts' = TookTmp(ts) /\ frames' = Append(frames, f) /\ InCode
  BY DEF OpenBool, Open, Waits, OpFrame, Two
<1>2. ToSet(<<a, b>>) = {a, b}
  BY DEF ToSet
<1>3. /\ ty \in Numeric /\ k \in Ops2
      /\ IF k = "logic" THEN ty = "int" ELSE ty = "int" => a = "int" /\ b = "int"
  BY <1>2 DEF Numeric, Ops2
<1> HIDE DEF ty
<1>4. out \in Adrs /\ out.ty = "bool" /\ out.type = "TMP"
  <2>1. ts.tmp \in Nat /\ "bool" \in Types
    BY <1>1, AtChecked DEF TSok, Types
  <2> QED BY <2>1, PlainAdrs
<1> HIDE DEF out
<1>5. TypedFrame(f) /\ f.k = k /\ f.out = out
  BY <1>3, <1>4, OpTyped
<1> HIDE DEF f
<1>6. Accepts(Top, Top.want, Result(f)) /\ f.k \in ExprKinds
  BY <1>1, <1>4, <1>5 DEF Waits, Accepts, Result, ExprKinds, Ops2
<1>7. Gains(ts, ts')
  BY <1>1, AtChecked, GainsTakes
<1> QED BY <1>1, <1>5, <1>6, <1>7, Opens

(* An operand is made real, in a line of its own, just when it has to be. *)
LEMMA PromotedTyped ==
  ASSUME NEW t, TSok(t), NEW f, NEW a, a.ty = f.tys[Len(f.adrs)]
  PROVE  /\ Gains(t, Promoted(t, f, a))
         /\ Promotion(t, f, a).ty = Widened(f, Len(f.adrs))
<1> DEFINE m == Len(f.adrs)
           l == Line("ITOF", Tmp(t, "real"), Blank, a)
           u == TookTmp(t)
           w == Emit1(u, l)
<1>1. Gains(t, t) /\ HasLines(u) /\ Gains(t, u)
  BY AtFirst, GainsTakes DEF Gains
<1>2. CASE f.ty = "real" /\ f.tys[m] = "int"
  <2>1. Promoted(t, f, a) = w
    BY <1>2 DEF Promoted, Binary, Emit1
  <2>2. Proper(l)
    BY <1>2 DEF Proper, Well, Line, Tmp, Adr
  <2> HIDE DEF l
  <2>3. Gains(t, w)
    BY <1>1, <2>2, GainsEmit
  <2>4. w # t
    <3>1. Len(w.lines) = Len(u.lines) + 1 /\ Len(u.lines) \in Nat
      BY <1>1, EmitLines
    <3>2. u.lines = t.lines
      BY DEF TookTmp, TSok
    <3> HIDE DEF w, u
    <3> QED BY <3>1, <3>2
  <2>5. Promotion(t, f, a) = Tmp(t, "real")
    BY <2>1, <2>4 DEF Promotion
  <2> QED BY <1>2, <2>1, <2>3, <2>5 DEF Widened, Tmp, Adr
<1>3. CASE ~(f.ty = "real" /\ f.tys[m] = "int")
  <2>1. Promoted(t, f, a) = t
    BY <1>3 DEF Promoted
  <2> QED BY <1>1, <1>3, <2>1 DEF Promotion, Widened
<1> QED BY <1>2, <1>3

LEMMA LeftOperandTyped ==
  ASSUME Checked, LeftOperand
  PROVE  After
<1> DEFINE a == Top.adrs[1]
           b == Promotion(ts, Top, a)
           g == [Top EXCEPT !.adrs = <<b>>, !.want = Top.tys[2]]
<1>1. /\ InCode /\ Top.k \in Ops2 /\ Top.want = "step" /\ Len(Top.adrs) = 1
      /\ ts' = Promoted(ts, Top, a) /\ frames' = SetTop(g)
  BY DEF LeftOperand
<1>2. Top \in FrameSet /\ Shaped(Top) /\ Suited(Top) /\ Filled(Top) /\ TSok(ts)
  BY <1>1, AtChecked
<1>3. a.ty = Top.tys[1]
  BY <1>1, <1>2 DEF Filled
<1>4. Gains(ts, ts') /\ b.ty = Widened(Top, 1)
  <2>1. a.ty = Top.tys[Len(Top.adrs)]
    BY <1>1, <1>3
  <2> HIDE DEF a
  <2>2. Gains(ts, Promoted(ts, Top, a)) /\ Promotion(ts, Top, a).ty = Widened(Top, Len(Top.adrs))
    BY <1>2, <2>1, PromotedTyped
  <2> QED BY <1>1, <2>2
<1> HIDE DEF b
<1>5. Top.tys[2] \in Wants
  <2>1. Len(Top.tys) = 2 /\ Top.tys \in Seq(Wants)
    BY <1>1, <1>2 DEF Shaped, FrameSet
  <2> QED BY <2>1
<1>6. /\ g.adrs = <<b>> /\ g.want = Top.tys[2] /\ g.k = Top.k /\ g.name = Top.name
      /\ g.out = Top.out /\ g.tys = Top.tys /\ g.ty = Top.ty /\ g.field = Top.field
  BY <1>2 DEF FrameSet
<1> HIDE DEF g
<1>7. Len(g.adrs) = 1 /\ g.adrs[1] = b
  BY <1>6
<1>8. Suited(g)
  BY <1>2, <1>6 DEF Suited
<1>9. Filled(g)
  BY <1>1, <1>4, <1>5, <1>6, <1>7 DEF Filled, Widened, Wants
<1>10. TypedFrame(g)
  BY <1>6, <1>7, <1>8, <1>9 DEF TypedFrame
<1>11. Stands(Top, g)
  BY <1>6 DEF Stands, Result
<1> QED BY <1>1, <1>4, <1>10, <1>11, Changes

(* The operation of an operator works on what it is for. *)
LEMMA OpOfTyped ==
  ASSUME NEW f, f.k \in Ops2, Suited(f), NEW x, NEW y, x.ty = Widened(f, 1), y.ty = Widened(f, 2),
         NEW out, out.ty = IF f.k = "arith" THEN f.ty ELSE "bool"
  PROVE  Proper(Line(OpOf(f), out, x, y))
<1> DEFINE l == Line(OpOf(f), out, x, y)
<1>1. l.op = OpOf(f) /\ l.left = out /\ l.middle = x /\ l.right = y
  BY DEF Line
<1> SUFFICES Proper(l)
  OBVIOUS
<1> HIDE DEF l
<1>2. f.k \in {"arith", "relop", "not", "logic"}
  BY DEF Ops2
<1>3. CASE f.k = "logic"
  <2>1. l.op = "AND" /\ x.ty = "bool" /\ y.ty = "bool" /\ out.ty = "bool"
    BY <1>1, <1>3 DEF OpOf, Suited, Widened
  <2>2. l.op = "AND" /\ l.left.ty = "bool" /\ l.middle.ty = "bool" /\ l.right.ty = "bool"
    BY <1>1, <2>1
  <2> QED BY ONLY <2>2 DEF Proper, Well
<1>4. CASE f.k # "logic" /\ f.ty = "int"
  <2>1. /\ l.op = IF f.k = "arith" THEN "ADDI" ELSE "GTI"
        /\ x.ty = "int" /\ y.ty = "int"
    BY <1>1, <1>2, <1>4 DEF OpOf, Suited, Widened
  <2>2. /\ \/ l.op = "ADDI" /\ l.left.ty = "int"
           \/ l.op = "GTI" /\ l.left.ty = "bool"
        /\ l.middle.ty = "int" /\ l.right.ty = "int"
    BY <1>1, <1>4, <2>1
  <2> QED BY ONLY <2>2 DEF Proper, Well
<1>5. CASE f.k # "logic" /\ f.ty = "real"
  <2>1. /\ l.op = IF f.k = "arith" THEN "ADDF" ELSE "GTF"
        /\ x.ty = "real" /\ y.ty = "real"
    BY <1>1, <1>2, <1>5 DEF OpOf, Suited, Widened, Numeric
  <2>2. /\ \/ l.op = "ADDF" /\ l.left.ty = "real"
           \/ l.op = "GTF" /\ l.left.ty = "bool"
        /\ l.middle.ty = "real" /\ l.right.ty = "real"
    BY <1>1, <1>5, <2>1
  <2> QED BY ONLY <2>2 DEF Proper, Well
<1>6. f.k # "logic" => f.ty \in {"int", "real"}
  BY <1>2 DEF Suited, Numeric
<1> QED BY <1>3, <1>4, <1>5, <1>6

LEMMA RightOperandTyped ==
  ASSUME Checked, RightOperand
  PROVE  After
<1> DEFINE a   == Top.adrs[2]
           x   == Top.adrs[1]
           t   == Promoted(ts, Top, a)
           b   == Promotion(ts, Top, a)
           op  == OpOf(Top)
<1>1. InCode /\ Top.k \in Ops2 /\ Top.want = "step" /\ Len(Top.adrs) = 2
  BY DEF RightOperand
<1>2. Top \in FrameSet /\ Shaped(Top) /\ Suited(Top) /\ Filled(Top) /\ TSok(ts)
  BY <1>1, AtChecked
<1>3. a.ty = Top.tys[2] /\ x.ty = Widened(Top, 1)
  <2>1. 1 \in 1..Len(Top.adrs) /\ 2 \in 1..Len(Top.adrs) /\ Len(Top.adrs) # 1
    BY <1>1
  <2> QED BY <1>1, <1>2, <2>1 DEF Filled
<1>4. Gains(ts, t) /\ b.ty = Widened(Top, 2)
  <2>1. a.ty = Top.tys[Len(Top.adrs)]
    BY <1>1, <1>3
  <2> HIDE DEF a
  <2>2. Gains(ts, Promoted(ts, Top, a)) /\ Promotion(ts, Top, a).ty = Widened(Top, Len(Top.adrs))
    BY <1>2, <2>1, PromotedTyped
  <2> QED BY <1>1, <2>2
<1>5. Top.k \in ExprKinds
  BY <1>1 DEF ExprKinds
<1> HIDE DEF a, x, t, b
<1>6. CASE Top.k = "arith"
  <2> DEFINE out == Tmp(t, Top.ty)
             l   == Line(op, out, x, b)
  <2>1. ts' = Emit1(TookTmp(t), l) /\ frames' = Given(Front(frames), out)
    BY <1>6 DEF RightOperand, Return, Emit1, t, a, x, b
  <2>2. out.ty = Top.ty
    BY DEF Tmp, Adr
  <2> HIDE DEF out
  <2>3. Proper(l)
    BY <1>1, <1>2, <1>3, <1>4, <1>6, <2>2, OpOfTyped
  <2> HIDE DEF l
  <2>4. Gains(ts, ts')
    BY <1>4, <2>1, <2>3, GainsTakes, GainsEmit
  <2>5. out.ty = Result(Top)
    BY <1>6, <2>2 DEF Result
  <2> QED BY <1>1, <1>5, <2>1, <2>4, <2>5, Returns
<1>7. CASE Top.k # "arith"
  <2> DEFINE out == Top.out
             l   == Line(op, out, x, b)
             u   == Emit1(t, l)
  <2>1. out.type = "TMP" /\ out.ty = "bool" /\ Result(Top) = "bool"
    <3>1. ShapedOp(Top)
      BY <1>1, <1>2, ShapedOps
    <3>2. Top.k \in {"relop", "not", "logic"}
      BY <1>1, <1>7 DEF Ops2
    <3> QED BY <1>2, <1>7, <3>1, <3>2 DEF ShapedOp, Suited, Result
  <2>2. Proper(l)
    BY <1>1, <1>2, <1>3, <1>4, <1>7, <2>1, OpOfTyped
  <2>3. Gains(ts, u)
    BY <1>4, <2>2, GainsEmit
  <2>4. CASE Top.k = "not"
    <3> DEFINE c == Tmp(u, "bool")
               n == Line("NOT", c, Blank, out)
    <3>1. ts' = Emit1(TookTmp(u), n) /\ frames' = Given(Front(frames), c)
      BY <1>7, <2>4 DEF RightOperand, Return, Emit1, Binary, t, a, x, b
    <3> HIDE DEF u
    <3>2. c.ty = "bool" /\ Proper(n)
      BY <2>1 DEF Proper, Well, Line, Tmp, Adr
    <3> HIDE DEF n, c
    <3>3. Gains(ts, ts')
      BY <2>3, <3>1, <3>2, GainsTakes, GainsEmit
    <3> QED BY <1>1, <1>5, <2>1, <3>1, <3>2, <3>3, Returns
  <2>5. CASE Top.k # "not"
    <3>1. ts' = u /\ frames' = Given(Front(frames), out)
      BY <1>7, <2>5 DEF RightOperand, Return, Emit1, t, a, x, b
    <3> HIDE DEF u
    <3> QED BY <1>1, <1>5, <2>1, <2>3, <3>1, Returns
  <2> QED BY <2>4, <2>5
<1> QED BY <1>6, <1>7

(***************************************************************************)
(* Addresses of elements, and calls in expressions.                        *)
(***************************************************************************)
(* The frame of an element's address has its array, and asks for the index. *)
LEMMA ElemTyped ==
  ASSUME NEW base \in Adrs, base.ty = "ptr", NEW i \in 0..3, NEW out \in Adrs,
         out.type = "TMP" => out.ty \in Values /\ i # 0,
         NEW f, f = ElemFrame(base, i, out)
  PROVE  TypedFrame(f) /\ f.k = "elem" /\ f.out = out
<1> DEFINE g == Half("elem", "ptr", "int", base)
<1>1. "elem" \in Kinds /\ "ptr" \in Wants /\ "int" \in Wants
  BY DEF Kinds, ExprKinds, Wants
<1>2. /\ g \in FrameSet /\ g.k = "elem" /\ g.want = "int" /\ Len(g.adrs) = 1 /\ g.adrs[1] = base
      /\ g.tys[1] = "ptr" /\ g.tys[2] = "int"
  BY <1>1, FramesAre DEF Fresh
<1>3. f = [g EXCEPT !.field = i, !.out = out]
  BY DEF ElemFrame
<1> HIDE DEF g
<1>4. /\ f.k = "elem" /\ f.tys = g.tys /\ f.adrs = g.adrs /\ f.out = out /\ f.want = "int"
      /\ f.field = i
  BY <1>2, <1>3 DEF FrameSet
<1>5. Suited(f)
  BY <1>2, <1>4 DEF Suited, FlowKinds
<1>6. Filled(f)
  BY <1>2, <1>4 DEF Filled, Accepts, Ops2
<1>7. TypedFrame(f)
  <2>1. f.want = f.tys[2]
    BY <1>2, <1>4
  <2>2. Len(f.adrs) = 1
    BY <1>2, <1>4
  <2> QED BY <1>5, <1>6, <2>1, <2>2 DEF TypedFrame
<1> QED BY <1>4, <1>7

LEMMA BasesTyped ==
  ASSUME NEW base \in Bases
  PROVE  base.ty = "ptr"
BY DEF Bases, Adr

LEMMA OpenElemTyped ==
  ASSUME Checked, NEW base \in Bases, NEW i \in 1..3, OpenElem(base, i)
  PROVE  After
<1> DEFINE value == Top.want \in {"int", "real"} /\ Top.k # "print"
           ty    == IF Top.want = "place" THEN Top.ty ELSE Top.want
           out   == IF value THEN Tmp(ts, ty) ELSE Blank
           f     == ElemFrame(base, i, out)
<1>1. /\ InCode /\ Top.want \in Values \cup {"place"}
      /\ ty = "bool" /\ Top.want = "bool" => "boolelem" \in uses
      /\ ts' = IF value \/ Top.want = "bool" THEN TookTmp(ts) ELSE ts
      /\ frames' = Append(frames, f)
  BY DEF OpenElem, Open, Half, ElemFrame, Uses
<1>2. Top.want \in {"int", "real", "place"}
  BY <1>1 DEF Checked, Odd, Values
<1>3. Gains(ts, ts')
  BY <1>1, AtChecked, GainsTakes
<1>4. base \in Adrs /\ base.ty = "ptr"
  BY <1>1, BasesHave, BasesTyped DEF Checked, InCode
<1>5. /\ out \in Adrs
      /\ IF value THEN out.type = "TMP" /\ out.ty = Top.want ELSE out.type # "TMP"
  <2>1. ts.tmp \in Nat
    BY <1>1, AtChecked DEF TSok
  <2>2. CASE value
    <3>1. ty = Top.want /\ ty \in Types
      BY <2>2 DEF Types
    <3> QED BY <2>1, <2>2, <3>1, PlainAdrs
  <2>3. CASE ~value
    BY <2>3, PlainAdrs
  <2> QED BY <2>2, <2>3
<1> HIDE DEF out
<1>6. TypedFrame(f) /\ f.k = "elem" /\ f.out = out
  <2>1. i \in 0..3 /\ i # 0
    OBVIOUS
  <2>2. out.type = "TMP" => out.ty \in Values
    BY <1>5 DEF Values
  <2> QED BY <1>4, <1>5, <2>1, <2>2, ElemTyped
<1> HIDE DEF f
<1>7. Accepts(Top, Top.want, Result(f)) /\ f.k \in ExprKinds
  BY <1>2, <1>5, <1>6 DEF Accepts, Result, ExprKinds
<1> QED BY <1>1, <1>3, <1>6, <1>7, Opens

LEMMA OpenWholeTyped ==
  ASSUME Checked, InCode, NEW base \in Bases, OpenWhole(base)
  PROVE  After
<1> DEFINE h == Half("elem", "ptr", "int", base)
           f == ElemFrame(base, 0, Blank)
<1>1. Waits("whole") /\ ts' = ts /\ frames' = Append(frames, h)
  BY DEF OpenWhole, Open, Half
<1>2. Blank \in Adrs /\ Blank.type = "EMPTY" /\ 0 \in 0..3
  BY PlainAdrs
<1>3. base \in Adrs /\ base.ty = "ptr"
  BY BasesHave, BasesTyped DEF Checked, InCode
<1>4. h = f
  <2>1. "elem" \in Kinds /\ "ptr" \in Wants /\ "int" \in Wants
    BY DEF Kinds, ExprKinds, Wants
  <2>2. h \in FrameSet /\ h.out = Blank /\ h.field = 0
    BY <1>3, <2>1, FramesAre DEF Fresh
  <2> HIDE DEF h
  <2>3. h = [h EXCEPT !.field = 0, !.out = Blank]
    BY <2>2 DEF FrameSet
  <2> QED BY <2>3 DEF h, ElemFrame
<1> HIDE DEF h
<1>5. TypedFrame(f) /\ f.k = "elem" /\ f.out = Blank
  BY <1>2, <1>3, ElemTyped
<1> HIDE DEF f
<1>6. Accepts(Top, Top.want, Result(f)) /\ f.k \in ExprKinds
  BY <1>1, <1>2, <1>5 DEF Waits, Accepts, Result, ExprKinds
<1> QED BY <1>1, <1>4, <1>5, <1>6, AtChecked, Opens

(* What a frame but an operator's has, once it goes on. *)
LEMMA ReadyTyped ==
  ASSUME Checked, InCode, Top.k \in PlainKinds, Top.want = "step"
  PROVE  /\ Len(Top.adrs) = Len(Top.tys) /\ Suited(Top) /\ ShapedPlain(Top)
         /\ \A m \in 1..Len(Top.adrs) : Accepts(Top, Top.tys[m], Top.adrs[m].ty)
<1>1. Shaped(Top) /\ Suited(Top) /\ Filled(Top)
  BY AtChecked
<1>2. ShapedPlain(Top)
  BY <1>1, ShapedPlains
<1>3. Top.k \notin Ops2
  BY DEF PlainKinds, Ops2
<1> QED BY <1>1, <1>2, <1>3 DEF ShapedPlain, Filled

LEMMA CloseElemTyped ==
  ASSUME Checked, CloseElem
  PROVE  After
<1> DEFINE base  == Top.adrs[1]
           index == Top.adrs[2]
           t1    == Intern(ts, "int", StructSize)
           k     == AdrOf(ts, "int", StructSize)
           m     == Tmp(t1, "int")
           l1    == Line("MULI", m, index, k)
           t2    == Emit1(TookTmp(t1), l1)
           e     == Tmp(t2, "ptr")
           l2    == Line("ADDI", e, base, m)
           t3    == Emit1(TookTmp(t2), l2)
           place == 8 * (Top.field - 1)
           t4    == Intern(t3, "int", place)
           p     == AdrOf(t3, "int", place)
           a     == Tmp(t4, "ptr")
           l3    == Line("ADDI", a, e, p)
           t5    == Emit1(TookTmp(t4), l3)
           l4    == Line("DEREF", Top.out, Blank, a)
           t6    == Emit1(t5, l4)
<1>1. InCode /\ Top.k = "elem" /\ Top.want = "step"
  BY DEF CloseElem, Ready
<1>2. /\ Top.field = 0 => ts' = t3 /\ frames' = Given(Front(frames), e)
      /\ Top.field # 0 /\ Top.out.type = "TMP" =>
           ts' = t6 /\ frames' = Given(Front(frames), Top.out)
      /\ Top.field # 0 /\ Top.out.type # "TMP" => ts' = t5 /\ frames' = Given(Front(frames), a)
  BY DEF CloseElem, Return, Emit1, Binary
<1>3. /\ base.ty = "ptr" /\ index.ty = "int"
      /\ Top.out.type = "TMP" => Top.out.ty \in Values /\ Top.field # 0
  <2>1. /\ Len(Top.adrs) = 2 /\ Suited(Top)
        /\ \A n \in 1..Len(Top.adrs) : Accepts(Top, Top.tys[n], Top.adrs[n].ty)
    BY <1>1, ReadyTyped DEF PlainKinds, ShapedPlain
  <2>2. Top.tys[1] = "ptr" /\ Top.tys[2] = "int"
    BY <1>1, <2>1 DEF Suited
  <2>3. Accepts(Top, "ptr", base.ty) /\ Accepts(Top, "int", index.ty)
    BY <2>1, <2>2
  <2> QED BY <1>1, <2>1, <2>3 DEF Accepts, Suited
<1>4. m.ty = "int" /\ k.ty = "int" /\ e.ty = "ptr" /\ p.ty = "int" /\ a.ty = "ptr"
  BY DEF Tmp, AdrOf, Adr
<1>5. /\ Proper(l1) /\ Proper(l2) /\ Proper(l3)
      /\ Top.out.type = "TMP" => Proper(l4)
  <2> HIDE DEF m, k, e, p, a, base, index
  <2>1. Proper(l1)
    BY <1>3, <1>4 DEF Proper, Well, Line
  <2>2. Proper(l2)
    BY <1>3, <1>4 DEF Proper, Well, Line
  <2>3. Proper(l3)
    BY <1>3, <1>4 DEF Proper, Well, Line
  <2>4. Top.out.type = "TMP" => Proper(l4)
    BY <1>3, <1>4 DEF Proper, Well, Line
  <2> QED BY <2>1, <2>2, <2>3, <2>4
<1> HIDE DEF l1, l2, l3, l4
<1>6. Gains(ts, t3) /\ Gains(ts, t5) /\ (Top.out.type = "TMP" => Gains(ts, t6))
  <2>1. Gains(ts, t1)
    BY <1>1, AtChecked, GainsIntern
  <2> HIDE DEF t1
  <2>2. Gains(ts, t2)
    BY <1>5, <2>1, GainsTakes, GainsEmit
  <2> HIDE DEF t2
  <2>3. Gains(ts, t3)
    BY <1>5, <2>2, GainsTakes, GainsEmit
  <2> HIDE DEF t3
  <2>4. Gains(ts, t4)
    BY <2>3, GainsIntern
  <2> HIDE DEF t4
  <2>5. Gains(ts, t5)
    BY <1>5, <2>4, GainsTakes, GainsEmit
  <2> HIDE DEF t5
  <2> QED BY <1>5, <2>3, <2>5, GainsEmit
<1> HIDE DEF t3, t5, t6, e, a
<1>7. Result(Top) = IF Top.out.type = "TMP" THEN Top.out.ty ELSE "ptr"
  BY <1>1 DEF Result
<1>8. Top.k \in ExprKinds
  BY <1>1 DEF ExprKinds
<1>9. CASE Top.field = 0
  BY <1>1, <1>2, <1>3, <1>4, <1>6, <1>7, <1>8, <1>9, Returns
<1>10. CASE Top.field # 0 /\ Top.out.type = "TMP"
  <2> DEFINE out == Top.out
  <2>1. out.ty = Result(Top) /\ frames' = Given(Front(frames), out) /\ Gains(ts, ts')
    BY <1>2, <1>6, <1>7, <1>10
  <2> HIDE DEF out
  <2> QED BY <1>1, <1>8, <2>1, Returns
<1>11. CASE Top.field # 0 /\ Top.out.type # "TMP"
  BY <1>1, <1>2, <1>4, <1>6, <1>7, <1>8, <1>11, Returns
<1> QED BY <1>9, <1>10, <1>11

(* The frame of a call asks for what the function takes. *)
LEMMA CallTyped ==
  ASSUME Checked, InCode, NEW f \in Funcs, NEW k \in {"call", "fncall"}, NEW out \in Adrs,
         NEW g, g = CalledFrame(f, k, out)
  PROVE  TypedFrame(g) /\ g.k = k /\ g.out = out
<1> DEFINE pars == sigs[f].pars
           none == <<>>
           h    == Frame(k, pars, none)
           call == <<Here, Len(frames)>>
<1>1. pars \in Seq(Wants) /\ Len(pars) > 0
  <2>1. pars \in Seq({"int", "real", "ptr"}) /\ pars # <<>>
    BY ParsAre DEF Checked, InCode
  <2> HIDE DEF pars
  <2>2. {"int", "real", "ptr"} \subseteq Wants
    BY DEF Wants
  <2>3. pars \in Seq(Wants)
    BY <2>1, <2>2
  <2> QED BY <2>1, <2>3
<1>2. k \in Kinds /\ none \in Seq(Adrs) /\ Len(none) = 0
  BY DEF Kinds, ExprKinds, StatKinds
<1>3. g = [[h EXCEPT !.name = f, !.call = call] EXCEPT !.out = out]
  BY DEF CalledFrame, CallFrame
<1> HIDE DEF pars, none, call
<1>4. Fresh(h, k) /\ h.tys = pars /\ h.adrs = none /\ h.want = pars[1]
  <2>1. MadeOf(h, k, pars, none)
    BY ONLY <1>1, <1>2, FrameIs
  <2>2. Wanted(pars, none) = pars[1]
    BY <1>1, <1>2 DEF Wanted
  <2> QED BY <2>1, <2>2 DEF MadeOf
<1> HIDE DEF h
<1>5. /\ g.k = k /\ g.tys = pars /\ g.adrs = none /\ g.name = f /\ g.out = out
      /\ g.want = pars[1]
  BY <1>3, <1>4 DEF FrameSet, Fresh
<1>6. Suited(g)
  BY <1>5 DEF Suited, FlowKinds, pars
<1>7. TypedFrame(g)
  BY <1>2, <1>5, <1>6, Unfilled
<1> QED BY <1>5, <1>7

LEMMA OpenFnCallTyped ==
  ASSUME Checked, NEW f \in Funcs, OpenFnCall(f)
  PROVE  After
<1> DEFINE t   == Ahead(Top.want)
           out == Tmp(t, Top.want)
           g   == CalledFrame(f, "fncall", out)
<1>1. /\ InCode /\ sigs[f].ret = Top.want /\ ts' = TookTmp(t) /\ frames' = Append(frames, g)
  BY DEF OpenFnCall, Open, CalledFrame
<1>2. Top.want \in {"int", "real"} /\ Top.want \in Types
  <2>1. Top.want \in {"int", "real", "none"}
    BY <1>1, ParsAre DEF Checked, InCode
  <2>2. Top.want \in Wants \cup {"step", "stats"}
    BY <1>1, AtChecked DEF FrameSet
  <2> QED BY <2>1, <2>2 DEF Wants, Types
<1>3. Gains(ts, t) /\ t.tmp \in Nat
  <2>1. t = ts
    BY <1>2 DEF Ahead
  <2> QED BY <1>1, <2>1, AtChecked DEF TSok
<1> HIDE DEF t
<1>4. out \in Adrs /\ out.type = "TMP" /\ out.ty = Top.want
  BY <1>2, <1>3, PlainAdrs
<1> HIDE DEF out
<1>5. TypedFrame(g) /\ g.k = "fncall" /\ g.out = out
  BY <1>1, <1>4, CallTyped
<1> HIDE DEF g
<1>6. Accepts(Top, Top.want, Result(g)) /\ g.k \in ExprKinds
  BY <1>2, <1>4, <1>5 DEF Accepts, Result, ExprKinds
<1>7. Gains(ts, ts')
  BY <1>1, <1>3, GainsTakes
<1> QED BY <1>1, <1>5, <1>6, <1>7, Opens

LEMMA OperatorTyped ==
  ASSUME Checked, Operator
  PROVE  After
<1>1. ASSUME NEW ty \in Numeric, NEW a \in Numeric, NEW b \in Numeric, OpenArith(ty, <<a, b>>)
      PROVE  After
  BY <1>1, OpenArithTyped
<1>2. ASSUME NEW k \in {"relop", "not"}, NEW a \in Numeric, NEW b \in Numeric,
             OpenBool(k, <<a, b>>)
      PROVE  After
  <2>1. a \in Wants /\ b \in Wants /\ k \in {"relop", "not", "logic"} /\ k # "logic"
    BY DEF Numeric, Wants
  <2> QED BY <1>2, <2>1, OpenBoolTyped
<1>3. ASSUME OpenBool("logic", <<"bool", "bool">>) PROVE After
  <2>1. "bool" \in Wants
    BY DEF Wants
  <2> QED BY <1>3, <2>1, OpenBoolTyped
<1>4. ASSUME InCode, NEW base \in Bases, NEW i \in DOMAIN Fields, OpenElem(base, i) PROVE After
  BY <1>4, ThreeOfEach, OpenElemTyped
<1>5. ASSUME InCode, NEW base \in Bases, OpenWhole(base) PROVE After
  BY <1>5, OpenWholeTyped
<1>6. ASSUME NEW f \in Funcs, OpenFnCall(f) PROVE After
  BY <1>6, OpenFnCallTyped
<1> QED BY <1>1, <1>2, <1>3, <1>4, <1>5, <1>6, LeftOperandTyped, RightOperandTyped,
           CloseElemTyped DEF Operator

(***************************************************************************)
(* Statements.                                                             *)
(***************************************************************************)
LEMMA GainsTwo ==
  ASSUME NEW t, NEW u, Gains(t, u), NEW l, Proper(l), NEW m, Proper(m)
  PROVE  Gains(t, Emit(u, <<l, m>>))
<1> DEFINE v == Emit1(Emit1(u, l), m)
           w == Emit(u, <<l, m>>)
           s == u.lines
<1>1. Gains(t, v)
  BY GainsEmit
<1>2. PICK S : s \in Seq(S) /\ "lines" \in DOMAIN u
  BY DEF Gains, HasLines
<1>3. PICK R : s \in Seq(R) /\ l \in R /\ m \in R
  <2> DEFINE R == S \cup {l, m}
  <2>1. s \in [1..Len(s) -> S] /\ Len(s) \in Nat
    BY <1>2
  <2> HIDE DEF s
  <2>2. s \in [1..Len(s) -> R]
    BY <2>1
  <2>3. s \in Seq(R) /\ l \in R /\ m \in R
    BY <2>1, <2>2
  <2> QED BY <2>3 DEF s
<1>4. w.lines = s \o <<l, m>> /\ "lines" \in DOMAIN w
  BY <1>2 DEF Emit
<1>5. v.lines = (s \o <<l>>) \o <<m>>
  BY <1>2 DEF Emit1, Emit
<1> HIDE DEF v, w, s
<1>6. s \o <<l, m>> \in Seq(R) /\ (s \o <<l>>) \o <<m>> \in Seq(R)
  BY <1>3
<1>7. s \o <<l, m>> = (s \o <<l>>) \o <<m>>
  <2> DEFINE x == s \o <<l, m>>
             y == (s \o <<l>>) \o <<m>>
  <2>1. /\ Len(x) = Len(s) + 2 /\ Len(y) = Len(s) + 2
        /\ \A i \in 1..(Len(s) + 2) : x[i] = y[i]
    BY <1>3
  <2>2. x \in Seq(R) /\ y \in Seq(R)
    BY <1>6
  <2> HIDE DEF x, y
  <2>3. x = y
    BY <2>1, <2>2, SeqEqual
  <2> QED BY <2>3 DEF x, y
<1>8. HasLines(w) /\ w.lines = v.lines
  BY <1>4, <1>5, <1>6, <1>7 DEF HasLines
<1> QED BY <1>1, <1>8, GainsSame DEF w

(* The frames of statements but calls. *)
LEMMA HalfTyped ==
  ASSUME NEW k \in {"asgn", "update"}, NEW a \in Values, NEW b \in Values,
         k = "asgn" => a = b,
         k = "update" => a \in Numeric /\ b \in Numeric /\ (a = "int" => b = "int"),
         NEW x \in Adrs, x.ty = a, NEW f, f = WithTy(Half(k, a, b, x), a)
  PROVE  TypedFrame(f) /\ f.k = k
<1> DEFINE g == Half(k, a, b, x)
<1>1. k \in Kinds /\ a \in Wants /\ b \in Wants
  BY DEF Kinds, StatKinds, Wants, Values
<1>2. /\ g \in FrameSet /\ g.k = k /\ g.want = b /\ Len(g.adrs) = 1 /\ g.adrs[1] = x
      /\ g.tys[1] = a /\ g.tys[2] = b
  BY <1>1, FramesAre DEF Fresh
<1>3. f = [g EXCEPT !.ty = a]
  BY DEF WithTy
<1> HIDE DEF g
<1>4. f.k = k /\ f.tys = g.tys /\ f.adrs = g.adrs /\ f.want = b /\ f.ty = a
  BY <1>2, <1>3 DEF FrameSet
<1>5. Suited(f)
  BY <1>2, <1>4 DEF Suited, FlowKinds
<1>6. Filled(f)
  BY <1>2, <1>4 DEF Filled, Accepts, Ops2, Values
<1>7. f.want = f.tys[2] /\ Len(f.adrs) = 1
  BY <1>2, <1>4
<1> QED BY <1>4, <1>5, <1>6, <1>7 DEF TypedFrame

LEMMA TwoTyped ==
  ASSUME NEW b \in Values,
         NEW f, \/ f = WithTy(Two("asgn", "place", b), b)
                \/ f = Two("copy", "whole", "whole")
  PROVE  TypedFrame(f) /\ f.k \in {"asgn", "copy"}
<1>0. "asgn" \in Kinds /\ "copy" \in Kinds /\ {"place", "whole", b} \subseteq Wants
  BY DEF Kinds, StatKinds, Wants, Values
<1>1. CASE f = WithTy(Two("asgn", "place", b), b)
  <2> DEFINE g == Two("asgn", "place", b)
  <2>1. /\ g \in FrameSet /\ g.k = "asgn" /\ g.want = "place" /\ Len(g.adrs) = 0
        /\ g.tys[1] = "place" /\ g.tys[2] = b
    BY <1>0, FramesAre DEF Fresh
  <2>2. f = [g EXCEPT !.ty = b]
    BY <1>1 DEF WithTy
  <2> HIDE DEF g
  <2>3. f.k = "asgn" /\ f.tys = g.tys /\ f.adrs = g.adrs /\ f.want = "place"
    BY <2>1, <2>2 DEF FrameSet
  <2>4. Suited(f)
    BY <2>1, <2>3 DEF Suited, FlowKinds
  <2> QED BY <2>1, <2>3, <2>4, Unfilled
<1>2. CASE f = Two("copy", "whole", "whole")
  <2>1. /\ f.k = "copy" /\ f.want = "whole" /\ Len(f.adrs) = 0
        /\ f.tys[1] = "whole" /\ f.tys[2] = "whole"
    BY <1>0, <1>2, FramesAre DEF Fresh
  <2>2. Suited(f)
    BY <2>1 DEF Suited, FlowKinds
  <2> QED BY <2>1, <2>2, Unfilled
<1> QED BY <1>1, <1>2

LEMMA OneTyped ==
  ASSUME NEW k \in {"print", "read", "return"}, NEW a \in Wants, NEW ty \in Values,
         k = "print" => ty \in Numeric /\ a = ty, k = "read" => a = "place",
         NEW f, f = WithTy(One(k, a), ty)
  PROVE  TypedFrame(f) /\ f.k = k /\ f.tys[1] = a
<1> DEFINE g == One(k, a)
<1>1. k \in Kinds
  BY DEF Kinds, StatKinds
<1>2. /\ g \in FrameSet /\ g.k = k /\ g.want = a /\ Len(g.adrs) = 0 /\ g.tys[1] = a
  BY <1>1, FramesAre DEF Fresh
<1>3. f = [g EXCEPT !.ty = ty]
  BY DEF WithTy
<1> HIDE DEF g
<1>4. f.k = k /\ f.tys = g.tys /\ f.adrs = g.adrs /\ f.want = a /\ f.ty = ty
  BY <1>2, <1>3 DEF FrameSet
<1>5. Suited(f)
  BY <1>2, <1>4 DEF Suited, FlowKinds
<1> QED BY <1>2, <1>4, <1>5, Unfilled

(* A statement is begun, with proper lines. *)
LEMMA BeginsWith ==
  ASSUME Checked, Stats, Gains(ts, ts'), NEW g, TypedFrame(g), g.k \in StatKinds,
         g.k # "return", frames' = Append(SetTop([Top EXCEPT !.some = TRUE]), g)
  PROVE  After
BY Begins DEF Stats

LEMMA OpenCallStatTyped ==
  ASSUME Checked, NEW f \in Funcs, OpenCallStat(f)
  PROVE  After
<1> DEFINE g == CallFrame(f, "call")
           h == CalledFrame(f, "call", Blank)
<1>1. /\ Stats /\ InCode /\ ts' = ts /\ frames' = Append(SetTop([Top EXCEPT !.some = TRUE]), g)
  BY DEF OpenCallStat, Begin, Stats
<1>2. Blank \in Adrs
  BY PlainAdrs
<1>3. h = g
  BY <1>1, <1>2, CallFrameIs DEF Checked, InCode
<1>4. TypedFrame(h) /\ h.k = "call"
  BY <1>1, <1>2, CallTyped
<1> HIDE DEF g, h
<1>5. g.k \in StatKinds /\ g.k # "return"
  BY <1>3, <1>4 DEF StatKinds
<1> QED BY <1>1, <1>3, <1>4, <1>5, AtChecked, BeginsWith

LEMMA VarTyped ==
  ASSUME Checked, Stats, HasLocals, NEW i \in DOMAIN Locals, NEW x,
         x = Adr("VAR", i - 1, Locals[i], 0)
  PROVE  x \in Adrs /\ x.ty = Locals[i] /\ Locals[i] \in Values
<1>1. x \in Adrs
  BY LocalsHas DEF Checked, Stats, InCode
<1> QED BY <1>1 DEF Adr, Locals, Values

LEMMA OpenAssignTyped ==
  ASSUME Checked, NEW i \in DOMAIN Locals, OpenAssign(i)
  PROVE  After
<1> DEFINE a == Locals[i]
           x == Adr("VAR", i - 1, Locals[i], 0)
           f == WithTy(Half("asgn", a, a, x), a)
<1>1. /\ Stats /\ InCode /\ HasLocals /\ ts' = ts
      /\ frames' = Append(SetTop([Top EXCEPT !.some = TRUE]), f)
  BY DEF OpenAssign, Begin, Stats, WithTy, Half
<1>2. x \in Adrs /\ x.ty = a /\ a \in Values
  BY <1>1, VarTyped
<1> HIDE DEF a, x
<1>3. TypedFrame(f) /\ f.k = "asgn"
  BY <1>2, HalfTyped
<1> HIDE DEF f
<1> QED BY <1>1, <1>3, AtChecked, BeginsWith DEF StatKinds

LEMMA OpenUpdateTyped ==
  ASSUME Checked, NEW i \in {1, 2}, NEW ty \in Numeric, OpenUpdate(i, ty)
  PROVE  After
<1> DEFINE a == Locals[i]
           x == Adr("VAR", i - 1, Locals[i], 0)
           f == WithTy(Half("update", a, ty, x), a)
<1>1. /\ Stats /\ InCode /\ HasLocals /\ ts' = ts
      /\ frames' = Append(SetTop([Top EXCEPT !.some = TRUE]), f)
      /\ a = "int" /\ ty = "real" => "mixupdate" \in uses
  BY DEF OpenUpdate, Begin, Stats, WithTy, Half, Uses
<1>2. i \in DOMAIN Locals /\ a \in Numeric /\ ty \in Values
  BY DEF Locals, Numeric, Values
<1>3. x \in Adrs /\ x.ty = a /\ a \in Values
  BY <1>1, <1>2, VarTyped
<1>4. a = "int" => ty = "int"
  BY <1>1 DEF Checked, Odd, Numeric
<1> HIDE DEF a, x
<1>5. TypedFrame(f) /\ f.k = "update"
  BY <1>2, <1>3, <1>4, HalfTyped
<1> HIDE DEF f
<1> QED BY <1>1, <1>5, AtChecked, BeginsWith DEF StatKinds

LEMMA OpenStoreTyped ==
  ASSUME Checked, NEW ty \in Values, OpenStore(ty)
  PROVE  After
<1> DEFINE f == WithTy(Two("asgn", "place", ty), ty)
<1>1. /\ Stats /\ InCode /\ ts' = ts
      /\ frames' = Append(SetTop([Top EXCEPT !.some = TRUE]), f)
  BY DEF OpenStore, Begin, Stats, WithTy, Two
<1>2. TypedFrame(f) /\ f.k \in {"asgn", "copy"}
  BY TwoTyped
<1> HIDE DEF f
<1> QED BY <1>1, <1>2, AtChecked, BeginsWith DEF StatKinds

LEMMA OpenCopyTyped ==
  ASSUME Checked, OpenCopy
  PROVE  After
<1> DEFINE f == Two("copy", "whole", "whole")
<1>1. /\ Stats /\ InCode /\ ts' = ts
      /\ frames' = Append(SetTop([Top EXCEPT !.some = TRUE]), f)
  BY DEF OpenCopy, Begin, Stats, Two
<1>2. TypedFrame(f) /\ f.k \in {"asgn", "copy"}
  BY TwoTyped DEF Values
<1> HIDE DEF f
<1> QED BY <1>1, <1>2, AtChecked, BeginsWith DEF StatKinds

LEMMA OpenUpdateElemTyped ==
  ASSUME Checked, NEW ty, OpenUpdateElem(ty)
  PROVE  After
BY DEF OpenUpdateElem, Checked, Odd, Uses

LEMMA OpenReadElemTyped ==
  ASSUME Checked, NEW ty \in Values, OpenReadElem(ty)
  PROVE  After
<1> DEFINE f == WithTy(One("read", "place"), ty)
<1>1. /\ Stats /\ InCode /\ ts' = ts
      /\ frames' = Append(SetTop([Top EXCEPT !.some = TRUE]), f)
  BY DEF OpenReadElem, Begin, Stats, WithTy, One
<1>2. TypedFrame(f) /\ f.k = "read"
  BY OneTyped DEF Wants
<1> HIDE DEF f
<1> QED BY <1>1, <1>2, AtChecked, BeginsWith DEF StatKinds

LEMMA OpenPrintTyped ==
  ASSUME Checked, NEW ty \in Numeric, OpenPrint(ty)
  PROVE  After
<1> DEFINE f == WithTy(One("print", ty), ty)
           l == Line("PRINTSPC", Blank, Blank, Blank)
<1>1. /\ Stats /\ InCode /\ ts' = Emit1(ts, l)
      /\ frames' = Append(SetTop([Top EXCEPT !.some = TRUE]), f)
  BY DEF OpenPrint, Begin, Stats, WithTy, One, Emit1, Unary
<1>2. TypedFrame(f) /\ f.k = "print"
  BY OneTyped DEF Wants, Numeric, Values
<1>3. Proper(l)
  BY DEF Proper, Well, Line
<1> HIDE DEF f, l
<1>4. Gains(ts, ts')
  BY <1>1, <1>3, AtChecked, GainsEmit
<1> QED BY <1>1, <1>2, <1>4, BeginsWith DEF StatKinds

LEMMA OpenReturnTyped ==
  ASSUME Checked, OpenReturn
  PROVE  After
<1> DEFINE ty == sigs[frames[1].name].ret
           f == WithTy(One("return", ty), ty)
<1>1. /\ Stats /\ InCode /\ ts' = ts /\ frames[1].name \in Funcs /\ ty # "none"
      /\ frames' = Append(SetTop([Top EXCEPT !.some = TRUE]), f)
  BY DEF OpenReturn, Begin, Stats, WithTy, One
<1>2. ty \in Values /\ ty \in Wants
  BY <1>1, ParsAre DEF Checked, InCode, Values, Wants
<1> HIDE DEF ty
<1>3. TypedFrame(f) /\ f.k = "return" /\ f.tys[1] = ty
  BY <1>2, OneTyped
<1> HIDE DEF f
<1>4. f.k \in StatKinds
  BY <1>3 DEF StatKinds
<1> QED BY <1>1, <1>3, <1>4, AtChecked, Begins DEF ty

(* A statement of one line. *)
LEMMA WholesWith ==
  ASSUME Checked, Stats, NEW u, Gains(ts, u), NEW l, Proper(l), ts' = Emit1(u, l),
         frames' = SetTop([Top EXCEPT !.some = TRUE])
  PROVE  After
<1>1. InCode /\ Gains(ts, ts')
  BY GainsEmit DEF Stats
<1> QED BY <1>1, Wholes

LEMMA PrintLineTyped ==
  ASSUME Checked, PrintLine
  PROVE  After
<1> DEFINE l == Line("PRINTLN", Blank, Blank, Blank)
<1>1. /\ Stats /\ InCode /\ ts' = Emit1(ts, l) /\ frames' = SetTop([Top EXCEPT !.some = TRUE])
  BY DEF PrintLine, Whole, Emit1, Unary, Stats
<1>2. Proper(l)
  BY DEF Proper, Well, Line
<1> HIDE DEF l
<1> QED BY <1>1, <1>2, AtChecked, WholesWith

LEMMA Return0Typed ==
  ASSUME Checked, Return0
  PROVE  After
<1> DEFINE l == Line("RETN", Blank, Blank, Blank)
<1>1. /\ Stats /\ InCode /\ ts' = Emit1(ts, l) /\ frames' = SetTop([Top EXCEPT !.some = TRUE])
  BY DEF Return0, Whole, Emit1, Unary, Stats
<1>2. Proper(l)
  BY DEF Proper, Well, Line
<1> HIDE DEF l
<1> QED BY <1>1, <1>2, AtChecked, WholesWith

LEMMA PrintStringTyped ==
  ASSUME Checked, NEW s, PrintString(s)
  PROVE  After
<1> DEFINE u == Intern(ts, "str", s)
           l == Line("PRINTSTR", AdrOf(ts, "str", s), Blank, Blank)
<1>1. /\ Stats /\ InCode /\ ts' = Emit1(u, l) /\ frames' = SetTop([Top EXCEPT !.some = TRUE])
  BY DEF PrintString, Whole, Emit1, Unary, Stats
<1>2. Proper(l)
  BY DEF Proper, Well, Line
<1>3. Gains(ts, u)
  BY <1>1, AtChecked, GainsIntern
<1> HIDE DEF l, u
<1> QED BY <1>1, <1>2, <1>3, WholesWith

(* What is read has the type of what it is read into. *)
LEMMA ReadOpTyped ==
  ASSUME NEW ty \in Values, NEW x, x.ty = ty
  PROVE  Proper(Line(ReadOp(ty), x, Blank, Blank))
<1> DEFINE l == Line(ReadOp(ty), x, Blank, Blank)
<1>1. /\ l.left.ty = ty /\ ty \in {"int", "real", "bool"}
      /\ l.op = IF ty = "real" THEN "READF" ELSE "READI"
  BY DEF Line, ReadOp, Values
<1> SUFFICES Proper(l)
  OBVIOUS
<1> HIDE DEF l
<1> QED BY ONLY <1>1 DEF Proper, Well

LEMMA ReadVariableTyped ==
  ASSUME Checked, NEW i \in DOMAIN Locals, ReadVariable(i)
  PROVE  After
<1> DEFINE x == Adr("VAR", i - 1, Locals[i], 0)
           l == Line(ReadOp(Locals[i]), x, Blank, Blank)
<1>1. /\ Stats /\ InCode /\ HasLocals
      /\ ts' = Emit1(ts, l) /\ frames' = SetTop([Top EXCEPT !.some = TRUE])
  BY DEF ReadVariable, Whole, Emit1, Unary, Stats
<1>2. x.ty = Locals[i] /\ Locals[i] \in Values
  BY <1>1, VarTyped
<1> HIDE DEF x
<1>3. Proper(l)
  BY <1>2, ReadOpTyped
<1> HIDE DEF l
<1> QED BY <1>1, <1>3, AtChecked, WholesWith

(* What a statement has when it is ready. *)
LEMMA ReadyStat ==
  ASSUME Checked, NEW k \in PlainStats, Ready(k)
  PROVE  /\ InCode /\ Top.k = k /\ Top.k # "func" /\ Len(Top.adrs) = Len(Top.tys) /\ Suited(Top)
         /\ \A m \in 1..Len(Top.adrs) : Accepts(Top, Top.tys[m], Top.adrs[m].ty)
         /\ k \in TwoKinds => Len(Top.adrs) = 2
         /\ k \in {"print", "read", "return"} => Len(Top.adrs) = 1
         /\ Gains(ts, ts)
<1>1. InCode /\ Top.k = k /\ Top.want = "step" /\ k \in PlainKinds
  BY PlainStatsAre DEF Ready
<1>2. k # "func"
  BY DEF PlainStats, TwoKinds
<1> QED BY <1>1, <1>2, ReadyTyped, AtChecked DEF ShapedPlain, TwoKinds

LEMMA CloseAssignTyped ==
  ASSUME Checked, CloseAssign
  PROVE  After
<1> DEFINE op == IF Top.tys[1] = "place" THEN "STORE" ELSE "ASIGN"
           x  == Top.adrs[1]
           a  == Top.adrs[2]
           l  == Line(op, x, Blank, a)
<1>1. Ready("asgn") /\ ts' = Emit1(ts, l) /\ frames' = Front(frames)
  BY DEF CloseAssign, EndStat, Emit1, Binary
<1>2. /\ InCode /\ Top.k = "asgn" /\ Top.k # "func" /\ Len(Top.adrs) = 2 /\ Suited(Top)
      /\ \A m \in 1..Len(Top.adrs) : Accepts(Top, Top.tys[m], Top.adrs[m].ty)
      /\ Gains(ts, ts)
  BY <1>1, ReadyStat DEF PlainStats, TwoKinds
<1>3. /\ Top.tys[2] \in Values /\ Top.tys[1] \in {"place", Top.tys[2]}
      /\ Accepts(Top, Top.tys[1], x.ty) /\ Accepts(Top, Top.tys[2], a.ty)
  BY <1>2 DEF Suited
<1>4. /\ a.ty \in Values
      /\ x.ty = IF Top.tys[1] = "place" THEN "ptr" ELSE a.ty
  BY <1>2, <1>3 DEF Accepts, Values
<1> HIDE DEF x, a
<1>5. l.op = op /\ l.left = x /\ l.right = a
  BY DEF Line
<1>6. Proper(l)
  <2> HIDE DEF l
  <2>1. CASE Top.tys[1] = "place"
    <3>1. l.op = "STORE" /\ l.left.ty = "ptr" /\ l.right.ty \in Values
      BY <1>4, <1>5, <2>1
    <3> QED BY ONLY <3>1 DEF Proper, Well
  <2>2. CASE Top.tys[1] # "place"
    <3>1. l.op = "ASIGN" /\ l.left.ty = l.right.ty /\ l.right.ty \in Values
      BY <1>4, <1>5, <2>2
    <3> QED BY ONLY <3>1 DEF Proper, Well
  <2> QED BY <2>1, <2>2
<1> HIDE DEF l
<1>7. Gains(ts, ts')
  BY <1>1, <1>2, <1>6, GainsEmit
<1> QED BY <1>1, <1>2, <1>7, Ends

LEMMA ClosePrintTyped ==
  ASSUME Checked, ClosePrint
  PROVE  After
<1> DEFINE a    == Top.adrs[1]
           x    == Tmp(ts, Top.ty)
           d    == Line("DEREF", x, Blank, a)
           from == IF a.ty = "ptr" THEN x ELSE a
           t    == IF a.ty = "ptr" THEN Emit1(TookTmp(ts), d) ELSE ts
           op   == IF Top.ty = "int" THEN "PRINTI" ELSE "PRINTF"
           l    == Line(op, from, Blank, Blank)
<1>1. Ready("print") /\ ts' = Emit1(t, l) /\ frames' = Front(frames)
  BY DEF ClosePrint, EndStat, Emit1, Binary, Unary
<1>2. /\ InCode /\ Top.k = "print" /\ Top.k # "func" /\ Len(Top.adrs) = 1 /\ Suited(Top)
      /\ \A m \in 1..Len(Top.adrs) : Accepts(Top, Top.tys[m], Top.adrs[m].ty)
      /\ Gains(ts, ts)
  BY <1>1, ReadyStat DEF PlainStats
<1>3. Top.ty \in Numeric /\ Accepts(Top, Top.ty, a.ty)
  BY <1>2 DEF Suited
<1>4. a.ty \in {"ptr", Top.ty} /\ x.ty = Top.ty
  BY <1>3 DEF Accepts, Numeric, Tmp, Adr
<1> HIDE DEF a, x
<1>5. a.ty = "ptr" => Proper(d)
  BY <1>3, <1>4 DEF Proper, Well, Line, Numeric, Values
<1> HIDE DEF d
<1>6. Gains(ts, t)
  BY <1>2, <1>5, GainsTakes, GainsEmit
<1>7. from.ty = Top.ty
  BY <1>4
<1> HIDE DEF t, from
<1>8. Proper(l)
  <2>1. l.op = op /\ l.left.ty = Top.ty
    BY <1>7 DEF Line
  <2>2. \/ l.op = "PRINTI" /\ l.left.ty = "int"
        \/ l.op = "PRINTF" /\ l.left.ty = "real"
    BY <1>3, <2>1 DEF Numeric
  <2> HIDE DEF l
  <2> QED BY ONLY <2>2 DEF Proper, Well
<1> HIDE DEF l
<1>9. Gains(ts, ts')
  BY <1>1, <1>6, <1>8, GainsEmit
<1> QED BY <1>1, <1>2, <1>9, Ends

LEMMA CloseReadElemTyped ==
  ASSUME Checked, CloseReadElem
  PROVE  After
<1> DEFINE x == Tmp(ts, Top.ty)
           a == Top.adrs[1]
           l == Line(ReadOp(Top.ty), x, Blank, Blank)
           m == Line("STORE", a, Blank, x)
<1>1. Ready("read") /\ ts' = Emit(TookTmp(ts), <<l, m>>) /\ frames' = Front(frames)
  BY DEF CloseReadElem, EndStat, Binary, Unary
<1>2. /\ InCode /\ Top.k = "read" /\ Top.k # "func" /\ Len(Top.adrs) = 1 /\ Suited(Top)
      /\ \A n \in 1..Len(Top.adrs) : Accepts(Top, Top.tys[n], Top.adrs[n].ty)
      /\ Gains(ts, ts)
  BY <1>1, ReadyStat DEF PlainStats
<1>3. Top.ty \in Values /\ Accepts(Top, "place", a.ty)
  BY <1>2 DEF Suited
<1>4. a.ty = "ptr" /\ x.ty = Top.ty
  BY <1>3 DEF Accepts, Tmp, Adr
<1> HIDE DEF a, x
<1>5. Proper(l)
  BY <1>3, <1>4, ReadOpTyped
<1>6. Proper(m)
  BY <1>3, <1>4 DEF Proper, Well, Line
<1> HIDE DEF l, m
<1>7. Gains(ts, ts')
  BY <1>1, <1>2, <1>5, <1>6, GainsTakes, GainsTwo
<1> QED BY <1>1, <1>2, <1>7, Ends

LEMMA CloseUpdateTyped ==
  ASSUME Checked, CloseUpdate
  PROVE  After
<1> DEFINE x  == Top.adrs[1]
           a  == Top.adrs[2]
           t  == Promoted(ts, Top, a)
           b  == Promotion(ts, Top, a)
           op == IF Top.ty = "real" THEN "ADDF" ELSE "ADDI"
           l  == Line(op, x, x, b)
<1>1. Ready("update") /\ ts' = Emit1(t, l) /\ frames' = Front(frames)
  BY DEF CloseUpdate, EndStat, Emit1
<1>2. /\ InCode /\ Top.k = "update" /\ Top.k # "func" /\ Len(Top.adrs) = 2 /\ Suited(Top)
      /\ \A m \in 1..Len(Top.adrs) : Accepts(Top, Top.tys[m], Top.adrs[m].ty)
  BY <1>1, ReadyStat DEF PlainStats, TwoKinds
<1>3. /\ Top.ty \in {"int", "real"} /\ Top.tys[1] = Top.ty /\ Top.tys[2] \in {"int", "real"}
      /\ Top.ty = "int" => Top.tys[2] = "int"
  BY <1>2 DEF Suited, Numeric
<1>4. Accepts(Top, Top.tys[1], x.ty) /\ Accepts(Top, Top.tys[2], a.ty)
  BY <1>2
<1>5. x.ty = Top.ty /\ a.ty = Top.tys[2]
  BY <1>2, <1>3, <1>4 DEF Accepts
<1> HIDE DEF x, a
<1>6. Gains(ts, t) /\ b.ty = Widened(Top, 2)
  <2>1. a.ty = Top.tys[Len(Top.adrs)]
    BY <1>2, <1>5
  <2>2. Gains(ts, Promoted(ts, Top, a)) /\ Promotion(ts, Top, a).ty = Widened(Top, Len(Top.adrs))
    BY <1>2, <2>1, AtChecked, PromotedTyped
  <2> QED BY <1>2, <2>2
<1>7. b.ty = Top.ty
  BY <1>3, <1>6 DEF Widened
<1> HIDE DEF t, b
<1>8. Proper(l)
  <2>1. l.op = op /\ l.left.ty = Top.ty /\ l.middle.ty = Top.ty /\ l.right.ty = Top.ty
    BY <1>5, <1>7 DEF Line
  <2>2. \/ l.op = "ADDF" /\ l.left.ty = "real" /\ l.middle.ty = "real" /\ l.right.ty = "real"
        \/ l.op = "ADDI" /\ l.left.ty = "int" /\ l.middle.ty = "int" /\ l.right.ty = "int"
    BY <1>3, <2>1
  <2> HIDE DEF l
  <2> QED BY ONLY <2>2 DEF Proper, Well
<1> HIDE DEF l
<1>9. Gains(ts, ts')
  BY <1>1, <1>6, <1>8, GainsEmit
<1> QED BY <1>1, <1>2, <1>9, Ends

(* A word of a struct. *)
LEMMA WordTyped ==
  ASSUME NEW t, Gains(ts, t), NEW place \in {0, 8, 16},
         Top.adrs[1].ty = "ptr", Top.adrs[2].ty = "ptr"
  PROVE  Gains(ts, CopiedWord(t, place))
<1> DEFINE lhs == Top.adrs[1]
           rhs == Top.adrs[2]
           k   == AdrOf(t, "int", place)
           t0  == Intern(t, "int", place)
           a   == Tmp(t0, "ptr")
           l1  == Line("ADDI", a, lhs, k)
           t1  == Emit1(TookTmp(t0), l1)
           b   == Tmp(t1, "ptr")
           l2  == Line("ADDI", b, rhs, k)
           t2  == Emit1(TookTmp(t1), l2)
           ty  == Fields[(place \div 8) + 1]
           v   == Tmp(t2, ty)
           l3  == Binary("DEREF", v, b)
           l4  == Binary("STORE", a, v)
           w   == Emit(TookTmp(t2), <<l3, l4>>)
<1>1. CopiedWord(t, place) = w
  BY DEF CopiedWord, Emit1
<1>2. ty \in Values
  BY DEF Fields, Values
<1> HIDE DEF ty
<1>3. k.ty = "int" /\ a.ty = "ptr" /\ b.ty = "ptr" /\ v.ty = ty /\ lhs.ty = "ptr" /\ rhs.ty = "ptr"
  BY DEF AdrOf, Tmp, Adr
<1> HIDE DEF k, a, b, v, lhs, rhs
<1>4. Proper(l1)
  BY <1>3 DEF Proper, Well, Line
<1>5. Proper(l2)
  BY <1>3 DEF Proper, Well, Line
<1>6. Proper(l3)
  BY <1>2, <1>3 DEF Proper, Well, Line, Binary
<1>7. Proper(l4)
  BY <1>2, <1>3 DEF Proper, Well, Line, Binary
<1> HIDE DEF l1, l2, l3, l4
<1>8. Gains(ts, t0)
  BY GainsIntern
<1> HIDE DEF t0
<1>9. Gains(ts, t1)
  BY <1>4, <1>8, GainsTakes, GainsEmit
<1> HIDE DEF t1
<1>10. Gains(ts, t2)
  BY <1>5, <1>9, GainsTakes, GainsEmit
<1> HIDE DEF t2
<1> QED BY <1>1, <1>6, <1>7, <1>10, GainsTakes, GainsTwo

LEMMA CloseCopyTyped ==
  ASSUME Checked, CloseCopy
  PROVE  After
<1> DEFINE t1 == CopiedWord(ts, 0)
           t2 == CopiedWord(t1, 8)
<1>1. Ready("copy") /\ ts' = CopiedWord(t2, 16) /\ frames' = Front(frames)
  BY DEF CloseCopy, EndStat
<1>2. /\ InCode /\ Top.k = "copy" /\ Top.k # "func" /\ Len(Top.adrs) = 2 /\ Suited(Top)
      /\ \A m \in 1..Len(Top.adrs) : Accepts(Top, Top.tys[m], Top.adrs[m].ty)
      /\ Gains(ts, ts)
  BY <1>1, ReadyStat DEF PlainStats, TwoKinds
<1>3. Top.tys[1] = "whole" /\ Top.tys[2] = "whole"
  BY <1>2 DEF Suited
<1>4. Top.adrs[1].ty = "ptr" /\ Top.adrs[2].ty = "ptr"
  BY <1>2, <1>3 DEF Accepts
<1>5. Gains(ts, t1)
  BY <1>2, <1>4, WordTyped
<1> HIDE DEF t1
<1>6. Gains(ts, t2)
  BY <1>4, <1>5, WordTyped
<1> HIDE DEF t2
<1>7. Gains(ts, ts')
  BY <1>1, <1>4, <1>6, WordTyped
<1> QED BY <1>1, <1>2, <1>7, Ends


(* Lines that are not proper by themselves are added. *)
LEMMA Added ==
  ASSUME Checked, InCode, HasLines(ts'), Longer(ts, ts'),
         \A i \in (Len(ts.lines) + 1)..Len(ts'.lines) :
           ts'.lines[i].op # "FUNC" /\ TypedAt(ts'.lines, i),
         TypedStack(frames'), frames' # <<>> => frames'[1].name = frames[1].name
  PROVE  After
<1> DEFINE s == ts.lines
           r == ts'.lines
<1>1. /\ Gains(ts, ts) /\ Blocks(s) /\ AllTyped(s) /\ InFunc(s, Len(s), frames[1].name)
  BY AtChecked
<1>2. /\ Len(s) \in Nat /\ Len(r) \in Nat /\ Len(s) <= Len(r)
      /\ \A i \in 1..Len(s) : r[i] = s[i]
  BY <1>1 DEF Gains, HasLines, Longer
<1>3. \A i \in 1..Len(s) : TypedAt(r, i)
  BY <1>1, <1>2, StillTyped
<1>4. AllTyped(r)
  <2>1. \A i \in 1..Len(r) : i \in 1..Len(s) \/ i \in (Len(s) + 1)..Len(r)
    BY <1>2
  <2> QED BY <1>3, <2>1 DEF AllTyped
<1>5. InFunc(r, Len(r), frames[1].name)
  <2>1. Len(r) \in Len(s)..Len(r)
    BY <1>2
  <2> QED BY <1>1, <1>2, <2>1, InFuncOn
<1> QED BY <1>4, <1>5 DEF After, TypesOK

LEMMA CloseReturnTyped ==
  ASSUME Checked, CloseReturn
  PROVE  After
<1> DEFINE a == Top.adrs[1]
           l == Line("RVAL", a, Blank, Blank)
           s == ts.lines
           u == ts'
           f == frames[1].name
<1>1. Ready("return") /\ u = Emit1(ts, l) /\ frames' = Front(frames)
  BY DEF CloseReturn, EndStat, Emit1, Unary
<1>2. /\ InCode /\ Top.k = "return" /\ Top.k # "func" /\ Len(Top.adrs) = 1
      /\ \A m \in 1..Len(Top.adrs) : Accepts(Top, Top.tys[m], Top.adrs[m].ty)
  BY <1>1, ReadyStat DEF PlainStats
<1>3. /\ frames \in Seq(FrameSet) /\ frames # <<>> /\ TypedStack(frames) /\ Top = Last(frames)
      /\ Len(frames) > 1 /\ InFunc(s, Len(s), f) /\ HasLines(ts) /\ Len(s) \in Nat
  BY <1>2, AtChecked DEF Gains
<1>4. f \in Funcs /\ Top.tys[1] = sigs[f].ret
  <2>1. Len(frames) \in 1..Len(frames) /\ Top = frames[Len(frames)]
    BY <1>3 DEF Last
  <2> QED BY <1>2, <1>3, <2>1 DEF TypedStack
<1>5. a.ty = sigs[f].ret
  <2>1. sigs[f].ret \in {"int", "real", "none"}
    BY <1>3, <1>4, ParsAre DEF Checked
  <2>2. Accepts(Top, sigs[f].ret, a.ty)
    BY <1>2, <1>4
  <2> QED BY <1>2, <2>1, <2>2 DEF Accepts
<1> HIDE DEF a
<1>6. l.op = "RVAL" /\ l.left = a
  BY DEF Line
<1> HIDE DEF l, f
<1>7. /\ HasLines(u) /\ Len(u.lines) = Len(s) + 1 /\ u.lines[Len(s) + 1] = l
      /\ \A i \in 1..Len(s) : u.lines[i] = s[i]
  BY <1>1, <1>3, EmitLines
<1>8. Longer(ts, u)
  BY <1>3, <1>7 DEF Longer
<1>9. InFunc(u.lines, Len(s) + 1, f)
  <2>1. \A i \in (Len(s) + 1)..Len(u.lines) : u.lines[i].op # "FUNC"
    BY <1>3, <1>6, <1>7
  <2>2. Len(s) + 1 \in Len(s)..Len(u.lines)
    BY <1>3, <1>7
  <2> QED BY <1>3, <1>7, <1>8, <2>1, <2>2, InFuncOn
<1>10. TypedAt(u.lines, Len(s) + 1)
  <2>1. Well(l)
    BY ONLY <1>6 DEF Well
  <2> QED BY <1>4, <1>5, <1>6, <1>7, <1>9, <2>1 DEF TypedAt
<1>11. \A i \in (Len(s) + 1)..Len(u.lines) : u.lines[i].op # "FUNC" /\ TypedAt(u.lines, i)
  BY <1>3, <1>6, <1>7, <1>10
<1>12. TypedStack(frames') /\ frames'[1].name = frames[1].name
  BY <1>1, <1>3, TypedPop
<1> QED BY <1>2, <1>7, <1>8, <1>11, <1>12, Added

(* The lines of a call: what a parameter is, its function takes there. *)
CallLines(N, n, ps, l, f, r) ==
  /\ N \in Nat /\ n \in Nat /\ Len(r) = N + n + 1
  /\ r[N + n + 1] = l /\ l.op \in {"CALL", "CALLVAL"} /\ Callee(l) = f
  /\ \A k \in 1..n : /\ r[N + k] = ps[k] /\ ps[k].op = "PARAM" /\ ps[k].ref[3] = n + 1 - k
                     /\ ps[k].left.ty = sigs[f].pars[n + 1 - k]
LEMMA PassedTyped ==
  ASSUME NEW N, NEW n, NEW ps, NEW l, NEW f, NEW r, CallLines(N, n, ps, l, f, r)
  PROVE  \A i \in (N + 1)..Len(r) : r[i].op # "FUNC" /\ TypedAt(r, i)
<1> USE DEF CallLines
<1> TAKE i \in (N + 1)..Len(r)
<1>1. CASE i = N + n + 1
  <2>1. r[i].op \in {"CALL", "CALLVAL"}
    <3>1. r[i] = l /\ l.op \in {"CALL", "CALLVAL"}
      BY ONLY <1>1, CallLines(N, n, ps, l, f, r)
    <3> QED BY ONLY <3>1
  <2>2. Well(r[i])
    BY ONLY <2>1 DEF Well
  <2>3. r[i].op # "RVAL" /\ r[i].op # "PARAM" /\ r[i].op # "FUNC"
    BY ONLY <2>1
  <2> QED BY ONLY <2>2, <2>3 DEF TypedAt
<1>2. CASE i # N + n + 1
  <2> DEFINE k == i - N
  <2>1. k \in 1..n /\ N + k = i /\ k \in Int
    BY <1>2
  <2> HIDE DEF k
  <2>2. /\ r[i] = ps[k] /\ r[i].op = "PARAM" /\ r[i].ref[3] = n + 1 - k
        /\ r[i].left.ty = sigs[f].pars[n + 1 - k]
    <3>1. /\ r[N + k] = ps[k] /\ ps[k].op = "PARAM" /\ ps[k].ref[3] = n + 1 - k
          /\ ps[k].left.ty = sigs[f].pars[n + 1 - k]
      BY ONLY <2>1, CallLines(N, n, ps, l, f, r)
    <3> QED BY ONLY <2>1, <3>1
  <2>3. i + (n + 1 - k) = N + n + 1
    BY <2>1
  <2>4. Callee(r[i + r[i].ref[3]]) = f
    BY <2>2, <2>3
  <2>5. Well(r[i])
    BY ONLY <2>2 DEF Well
  <2> QED BY <2>2, <2>4, <2>5 DEF TypedAt
<1> QED BY <1>1, <1>2

(* A literal is no line. *)
LEMMA InternLines ==
  ASSUME NEW t, HasLines(t), NEW q, NEW v
  PROVE  HasLines(Intern(t, q, v)) /\ Intern(t, q, v).lines = t.lines
BY DEF Intern, HasLines

(* The operands of a call are of the types that its function takes. *)
LEMMA ArgumentsTyped ==
  ASSUME Checked, InCode, Top.k \in {"call", "fncall"}, Top.want = "step"
  PROVE  /\ Len(Top.call) = 2
         /\ \A m \in 1..Len(Top.adrs) : Top.adrs[m].ty = sigs[Top.name].pars[m]
<1>1. /\ Len(Top.adrs) = Len(Top.tys) /\ Suited(Top) /\ ShapedPlain(Top)
      /\ \A m \in 1..Len(Top.adrs) : Accepts(Top, Top.tys[m], Top.adrs[m].ty)
  BY ReadyTyped DEF PlainKinds
<1>2. Top.tys = sigs[Top.name].pars /\ Top.name \in Funcs /\ Len(Top.call) = 2
  BY <1>1 DEF Suited, ShapedPlain
<1>3. sigs[Top.name].pars \in Seq({"int", "real", "ptr"})
  BY <1>2, ParsAre DEF Checked, InCode
<1>4. ASSUME NEW m \in 1..Len(Top.adrs) PROVE Top.adrs[m].ty = sigs[Top.name].pars[m]
  <2>1. sigs[Top.name].pars[m] \in {"int", "real", "ptr"}
    BY <1>1, <1>2, <1>3
  <2>2. Accepts(Top, sigs[Top.name].pars[m], Top.adrs[m].ty)
    BY <1>1, <1>2
  <2> QED BY <2>1, <2>2 DEF Accepts
<1> QED BY <1>2, <1>4

LEMMA ParamOf ==
  ASSUME NEW f, NEW k \in 1..Len(f.adrs)
  PROVE  Params(f)[k].left = f.adrs[Len(f.adrs) + 1 - k]
<1> DEFINE j == Len(f.adrs) + 1 - k
           v == Unary("PARAM", f.adrs[j])
           x == Append(f.call, j)
<1>1. Params(f)[k] = [v EXCEPT !.ref = x]
  BY DEF Params
<1> HIDE DEF x
<1>2. v.left = f.adrs[j] /\ [v EXCEPT !.ref = x].left = v.left
  BY DEF Unary, Line
<1> QED BY <1>1, <1>2

LEMMA CallLineIs ==
  ASSUME NEW op, NEW a, NEW b, NEW c, NEW call, NEW l, l = CallLine(op, a, b, c, call)
  PROVE  l.op = op /\ l.left = a /\ l.middle = b
BY DEF CallLine, Line

LEMMA CloseCallTyped ==
  ASSUME Checked, CloseCall
  PROVE  After
<1> DEFINE ps   == Params(Top)
           t1   == Emit(ts, ps)
           n    == Len(Top.adrs)
           t2   == Intern(t1, "int", n)
           t3   == Intern(t2, "str", Top.name)
           num  == AdrOf(t1, "int", n)
           name == AdrOf(t2, "str", Top.name)
           call == Top.call
           out  == Top.out
           lc   == CallLine("CALL", name, Blank, num, call)
           lv   == CallLine("CALLVAL", out, name, num, call)
           l    == IF Top.k = "call" THEN lc ELSE lv
           s    == ts.lines
           u    == ts'
<1>1. InCode /\ Top.k \in {"call", "fncall"} /\ Top.want = "step"
  BY DEF CloseCall
<1>2. /\ Top.k = "call" => u = Emit1(t3, lc) /\ frames' = Front(frames)
      /\ Top.k = "fncall" => u = Emit1(t3, lv) /\ frames' = Given(Front(frames), out)
  BY DEF CloseCall, EndStat, Return, Emit1, Binary, CallLine
<1>3. u = Emit1(t3, l)
  BY <1>1, <1>2
<1>4. name.val = Top.name
  BY DEF AdrOf, Adr
<1> HIDE DEF name, num
<1>5. l.op \in {"CALL", "CALLVAL"} /\ Callee(l) = Top.name
  <2>1. lc.op = "CALL" /\ lc.left = name /\ lv.op = "CALLVAL" /\ lv.middle = name
    BY CallLineIs
  <2> HIDE DEF lc, lv
  <2> QED BY <1>4, <2>1 DEF Callee
<1> HIDE DEF l
<1>6. /\ frames \in Seq(FrameSet) /\ frames # <<>> /\ TypedStack(frames) /\ Top = Last(frames)
      /\ Top \in FrameSet /\ HasLines(ts) /\ Len(s) \in Nat /\ TSok(ts) /\ HasAll(ts, Top)
      /\ Top.k # "func" => Len(frames) > 1
  BY <1>1, AtChecked, AtTop DEF Gains, Checked, HasAll
<1>7. Len(call) = 2 /\ \A m \in 1..n : Top.adrs[m].ty = sigs[Top.name].pars[m]
  BY <1>1, ArgumentsTyped
<1>8. ps \in Seq(LineSet) /\ PassedBy(ps, call) /\ Len(ps) = n /\ n \in Nat
  <2>1. n \in Nat
    BY <1>6 DEF FrameSet
  <2> HIDE DEF n
  <2> QED BY <1>6, <1>7, <2>1, ParamsPass DEF Passing, n
<1>9. \A k \in 1..n : ps[k].left = Top.adrs[n + 1 - k]
  BY ParamOf
<1> HIDE DEF ps, n, call, out
<1>10. HasLines(t3) /\ t3.lines = s \o ps
  <2>1. s \in Seq(LineSet) /\ "lines" \in DOMAIN ts
    BY <1>6 DEF TSok
  <2>2. s \o ps \in Seq(LineSet)
    BY <1>8, <2>1
  <2>3. "lines" \in DOMAIN t1 /\ t1.lines = s \o ps
    BY <2>1 DEF Emit
  <2>4. HasLines(t1)
    BY <2>2, <2>3 DEF HasLines
  <2> HIDE DEF t1
  <2>5. HasLines(t2) /\ t2.lines = t1.lines
    BY <2>4, InternLines
  <2> HIDE DEF t2
  <2> QED BY <2>3, <2>5, InternLines
<1> HIDE DEF t3
<1>11. /\ Len(t3.lines) = Len(s) + n
       /\ \A i \in 1..Len(s) : t3.lines[i] = s[i]
       /\ \A k \in 1..n : t3.lines[Len(s) + k] = ps[k]
  <2>1. s \in Seq(LineSet)
    BY <1>6 DEF TSok
  <2>2. Joined(LineSet, s, ps, t3.lines)
    BY <1>8, <1>10, <2>1, JoinIs
  <2> QED BY <1>8, <2>2 DEF Joined
<1>12. /\ HasLines(u) /\ Len(u.lines) = Len(s) + n + 1 /\ u.lines[Len(s) + n + 1] = l
       /\ \A i \in 1..(Len(s) + n) : u.lines[i] = t3.lines[i]
  <2>1. /\ HasLines(u) /\ Len(u.lines) = Len(t3.lines) + 1 /\ u.lines[Len(t3.lines) + 1] = l
        /\ \A i \in 1..Len(t3.lines) : u.lines[i] = t3.lines[i]
    <3> HIDE DEF u, s
    <3> QED BY <1>3, <1>10, EmitLines
  <2>2. Len(t3.lines) = Len(s) + n
    BY <1>11
  <2> QED BY ONLY <2>1, <2>2
<1>13. Longer(ts, u)
  <2>1. \A i \in 1..Len(s) : i \in 1..(Len(s) + n)
    BY <1>6, <1>8
  <2> QED BY <1>6, <1>8, <1>11, <1>12, <2>1 DEF Longer
<1>14. \A i \in (Len(s) + 1)..Len(u.lines) : u.lines[i].op # "FUNC" /\ TypedAt(u.lines, i)
  <2>1. ASSUME NEW k \in 1..n
        PROVE  /\ u.lines[Len(s) + k] = ps[k] /\ ps[k].op = "PARAM" /\ ps[k].ref[3] = n + 1 - k
               /\ ps[k].left.ty = sigs[Top.name].pars[n + 1 - k]
    <3>1. Len(s) + k \in 1..(Len(s) + n) /\ n + 1 - k \in 1..n
      BY <1>6, <1>8
    <3>2. u.lines[Len(s) + k] = ps[k]
      BY <1>11, <1>12, <3>1
    <3>3. ps[k].op = "PARAM" /\ ps[k].ref[3] = n + 1 - k
      BY <1>8 DEF PassedBy
    <3> QED BY <1>7, <1>9, <3>1, <3>2, <3>3
  <2>2. CallLines(Len(s), n, ps, l, Top.name, u.lines)
    BY <1>5, <1>6, <1>8, <1>12, <2>1 DEF CallLines
  <2> QED BY <2>2, PassedTyped
<1>15. TypedStack(frames') /\ frames'[1].name = frames[1].name
  <2>1. CASE Top.k = "call"
    BY <1>2, <1>6, <2>1, TypedPop
  <2>2. CASE Top.k = "fncall"
    <3>1. PICK gs : gs = Front(frames)
      OBVIOUS
    <3>2. Top.k \in ExprKinds
      BY <2>2 DEF ExprKinds
    <3>3. /\ TypedStack(gs) /\ gs # <<>> /\ gs[1].name = frames[1].name
          /\ gs \in Seq(FrameSet) /\ Shaped(Last(gs)) /\ Last(gs).want \in Wants
          /\ Accepts(Last(gs), Last(gs).want, Result(Top))
      BY <1>1, <3>1, <3>2, Pops
    <3>4. out.ty = Result(Top)
      <4>1. ShapedPlain(Top)
        BY <1>1, ReadyTyped DEF PlainKinds
      <4> QED BY <2>2, <4>1 DEF Result, ShapedPlain, out
    <3>5. TypedStack(frames') /\ frames'[1].name = gs[1].name
      BY <1>2, <2>2, <3>1, <3>3, <3>4, TypedGive
    <3> QED BY <3>3, <3>5
  <2> QED BY <1>1, <2>1, <2>2
<1> QED BY <1>1, <1>12, <1>13, <1>14, <1>15, Added

(* Every step of a statement. *)
LEMMA StatementTyped ==
  ASSUME Checked, Statement
  PROVE  After
<1>1. ASSUME NEW f \in Funcs, OpenCallStat(f) PROVE After
  BY <1>1, OpenCallStatTyped
<1>2. ASSUME NEW i \in DOMAIN Locals, OpenAssign(i) \/ ReadVariable(i) PROVE After
  BY <1>2, OpenAssignTyped, ReadVariableTyped
<1>3. ASSUME NEW ty \in Values, OpenStore(ty) \/ OpenReadElem(ty) PROVE After
  BY <1>3, OpenStoreTyped, OpenReadElemTyped
<1>4. ASSUME NEW i \in {1, 2}, NEW ty \in Numeric, OpenUpdate(i, ty) PROVE After
  BY <1>4, OpenUpdateTyped
<1>5. ASSUME NEW ty \in Numeric, OpenUpdateElem(ty) \/ OpenPrint(ty) PROVE After
  BY <1>5, OpenUpdateElemTyped, OpenPrintTyped
<1>6. ASSUME NEW s \in Funcs, PrintString(s) PROVE After
  BY <1>6, PrintStringTyped
<1> QED BY <1>1, <1>2, <1>3, <1>4, <1>5, <1>6, CloseCallTyped, CloseAssignTyped, OpenCopyTyped,
           CloseCopyTyped, CloseReadElemTyped, CloseUpdateTyped, ClosePrintTyped,
           PrintLineTyped, Return0Typed, OpenReturnTyped, CloseReturnTyped
        DEF Statement

(***************************************************************************)
(* Constructs with labels.                                                 *)
(***************************************************************************)
(* A label and a jump work on nothing, a branch on what it tests. *)
LEMMA FlowProper ==
  ASSUME NEW op \in {"LABEL", "GOTO", "GOTOF"}, NEW n, NEW c, op = "GOTOF" => c.ty = "bool"
  PROVE  Proper(FlowLine(op, n, c))
<1> DEFINE l == FlowLine(op, n, c)
<1>1. l.op = op /\ l.right = c
  BY DEF FlowLine, Line
<1> SUFFICES Proper(l)
  OBVIOUS
<1> HIDE DEF l
<1> QED BY ONLY op \in {"LABEL", "GOTO", "GOTOF"}, op = "GOTOF" => c.ty = "bool", <1>1
        DEF Proper, Well

LEMMA GainsMark ==
  ASSUME NEW t, NEW u, Gains(t, u), NEW n
  PROVE  Gains(t, Mark(u, n))
<1> DEFINE l == FlowLine("LABEL", n, Blank)
<1>1. Mark(u, n) = Emit1(u, l)
  BY DEF Mark, Emit1, FlowLine, Unary
<1>2. Proper(l)
  BY FlowProper
<1> HIDE DEF l
<1> QED BY <1>1, <1>2, GainsEmit

LEMMA GainsJump ==
  ASSUME NEW t, NEW u, Gains(t, u), NEW n, NEW op \in {"GOTO", "GOTOF"}, NEW c,
         op = "GOTOF" => c.ty = "bool"
  PROVE  Gains(t, Emit1(u, FlowLine(op, n, c)))
<1>1. Proper(FlowLine(op, n, c))
  BY FlowProper
<1> QED BY <1>1, GainsEmit

(* Their frames. *)
LEMMA FlowTyped ==
  ASSUME NEW k \in FlowKinds, NEW g, g = IF k = "repeat" THEN None(k) ELSE One(k, "bool"),
         NEW labs, NEW b, NEW f, f = WithLabs(g, labs) \/ f = WithLoop(g, labs, b)
  PROVE  TypedFrame(f) /\ f.k = k
<1>1. k \in Kinds /\ "bool" \in Wants
  BY DEF Kinds, StatKinds, Wants
<1>2. /\ g \in FrameSet /\ g.k = k /\ Len(g.adrs) = 0
      /\ k = "repeat" => Len(g.tys) = 0 /\ g.want = "stats"
      /\ k # "repeat" => g.tys[1] = "bool" /\ g.want = "bool"
  BY <1>1, FramesAre DEF Fresh
<1>3. f.k = k /\ f.tys = g.tys /\ f.adrs = g.adrs /\ f.want = g.want
  BY <1>2 DEF WithLabs, WithLoop, FrameSet
<1>4. Suited(f)
  BY <1>2, <1>3 DEF Suited, FlowKinds
<1>5. "stats" \notin Wants
  BY DEF Wants
<1> QED BY <1>2, <1>3, <1>4, <1>5 DEF TypedFrame, Filled

LEMMA OpenIfTyped ==
  ASSUME Checked, OpenIf \/ OpenIfElse \/ OpenFor \/ OpenRepeat
  PROVE  After
<1>1. InCode /\ Stats
  BY DEF OpenIf, OpenIfElse, OpenFor, OpenRepeat, Stats
<1>2. ASSUME NEW n PROVE Gains(ts, NewLabel(ts, n)) /\ Gains(ts, Mark(NewLabel(ts, n), ts.label))
  <2>1. Gains(ts, NewLabel(ts, n))
    BY <1>1, AtChecked, GainsLabels DEF NewLabel
  <2> QED BY <2>1, GainsMark
<1>3. ASSUME NEW k \in FlowKinds, NEW g, g = IF k = "repeat" THEN None(k) ELSE One(k, "bool"),
             NEW labs, NEW f, f = WithLabs(g, labs) \/ f = WithLoop(g, labs, Here),
             frames' = Append(SetTop([Top EXCEPT !.some = TRUE]), f), Gains(ts, ts')
      PROVE  After
  <2>1. TypedFrame(f) /\ f.k = k
    BY <1>3, FlowTyped
  <2>2. k \in StatKinds /\ k # "return"
    BY DEF FlowKinds, StatKinds
  <2> QED BY <1>1, <1>3, <2>1, <2>2, BeginsWith
<1>4. CASE OpenIf
  <2> DEFINE g == One("if", "bool")
             labs == <<ts.label>>
             f == WithLabs(g, labs)
  <2>1. ts' = NewLabel(ts, 1) /\ frames' = Append(SetTop([Top EXCEPT !.some = TRUE]), f)
    BY <1>4 DEF OpenIf, Begin, One, Labelled, NewLabel, WithLabs
  <2>2. "if" \in FlowKinds /\ g = IF "if" = "repeat" THEN None("if") ELSE One("if", "bool")
    BY DEF FlowKinds
  <2>3. f = WithLabs(g, labs)
    OBVIOUS
  <2> HIDE DEF g, labs, f
  <2> QED BY <1>2, <1>3, <2>1, <2>2, <2>3
<1>5. CASE OpenIfElse
  <2> DEFINE g == One("ifelse", "bool")
             labs == <<ts.label, ts.label + 1>>
             f == WithLabs(g, labs)
  <2>1. ts' = NewLabel(ts, 2) /\ frames' = Append(SetTop([Top EXCEPT !.some = TRUE]), f)
    BY <1>5 DEF OpenIfElse, Begin, One, Labelled, NewLabel, WithLabs
  <2>2. /\ "ifelse" \in FlowKinds
        /\ g = IF "ifelse" = "repeat" THEN None("ifelse") ELSE One("ifelse", "bool")
    BY DEF FlowKinds
  <2>3. f = WithLabs(g, labs)
    OBVIOUS
  <2> HIDE DEF g, labs, f
  <2> QED BY <1>2, <1>3, <2>1, <2>2, <2>3
<1>6. CASE OpenFor
  <2> DEFINE g == One("for", "bool")
             labs == <<ts.label, ts.label + 1>>
             f == WithLoop(g, labs, Here)
  <2>1. /\ ts' = Mark(NewLabel(ts, 2), ts.label)
        /\ frames' = Append(SetTop([Top EXCEPT !.some = TRUE]), f)
    BY <1>6 DEF OpenFor, Begin, One, Labelled, NewLabel, WithLoop
  <2>2. "for" \in FlowKinds /\ g = IF "for" = "repeat" THEN None("for") ELSE One("for", "bool")
    BY DEF FlowKinds
  <2>3. f = WithLoop(g, labs, Here)
    OBVIOUS
  <2> HIDE DEF g, labs, f
  <2> QED BY <1>2, <1>3, <2>1, <2>2, <2>3
<1>7. CASE OpenRepeat
  <2> DEFINE g == None("repeat")
             labs == <<ts.label>>
             f == WithLoop(g, labs, Here)
  <2>1. /\ ts' = Mark(NewLabel(ts, 1), ts.label)
        /\ frames' = Append(SetTop([Top EXCEPT !.some = TRUE]), f)
    BY <1>7 DEF OpenRepeat, Begin, None, Labelled, NewLabel, WithLoop
  <2>2. "repeat" \in FlowKinds
    BY DEF FlowKinds
  <2>3. /\ g = (IF "repeat" = "repeat" THEN None("repeat") ELSE One("repeat", "bool"))
        /\ f = WithLoop(g, labs, Here)
    OBVIOUS
  <2> HIDE DEF g, labs, f
  <2> QED BY <1>2, <1>3, <2>1, <2>2, <2>3
<1> QED BY <1>4, <1>5, <1>6, <1>7

(* What a construct tests is Boolean. *)
LEMMA TestTyped ==
  ASSUME Checked, InCode, Top.k \in FlowKinds
  PROVE  /\ Top.want = "step" => Top.adrs[1].ty = "bool"
         /\ Top.k # "func" /\ ShapedFlow(Top)
<1>1. /\ Shaped(Top) /\ Suited(Top) /\ Filled(Top)
  BY AtChecked
<1>2. ShapedFlow(Top)
  BY <1>1, ShapedFlows
<1>3. Top.k \notin Ops2 /\ Top.k # "func" /\ Top.k # "print"
  BY DEF FlowKinds, Ops2
<1>4. ASSUME Top.want = "step" PROVE Top.adrs[1].ty = "bool"
  <2>1. Len(Top.tys) = 1 /\ Len(Top.adrs) = 1
    BY <1>2, <1>4 DEF ShapedFlow
  <2>2. Top.tys[1] = "bool" /\ Accepts(Top, Top.tys[1], Top.adrs[1].ty)
    BY <1>1, <1>3, <2>1 DEF Suited, Filled
  <2> QED BY <1>3, <2>2 DEF Accepts
<1> QED BY <1>2, <1>3, <1>4

(* A construct moves on, with what it has. *)
LEMMA FlowChanges ==
  ASSUME Checked, InCode, Top.k \in FlowKinds, Gains(ts, ts'), NEW g, frames' = SetTop(g),
         g.k = Top.k, g.name = Top.name, g.out = Top.out, g.tys = Top.tys, g.adrs = Top.adrs,
         g.want = "stats"
  PROVE  After
<1>1. Suited(Top) /\ Filled(Top)
  BY AtChecked
<1>2. /\ Top.k \notin Ops2 /\ Top.k # "return" /\ Top.k # "arith"
      /\ Top.k \notin {"arith", "relop", "not", "update", "logic", "elem", "call", "fncall",
                       "asgn", "copy", "print", "read"}
  BY DEF FlowKinds, Ops2
<1>3. Suited(g)
  BY <1>1, <1>2 DEF Suited
<1>4. Filled(g)
  BY <1>1, <1>2 DEF Filled, Accepts
<1>5. "stats" \notin Wants
  BY DEF Wants
<1>6. TypedFrame(g) /\ Stands(Top, g)
  BY <1>2, <1>3, <1>4, <1>5 DEF TypedFrame, Stands, Result
<1> QED BY <1>6, Changes

LEMMA ConditionTyped ==
  ASSUME Checked, Condition
  PROVE  After
<1> DEFINE n == Last(Top.labs)
           u == Emit1(ts, FlowLine("GOTOF", n, Top.adrs[1]))
           g == [Top EXCEPT !.want = "stats", !.owe = Here]
<1>1. /\ InCode /\ Top.k \in {"if", "ifelse", "for"} /\ Top.want = "step" /\ ts' = u
      /\ frames' = SetTop(g)
  BY DEF Condition, Emit1, FlowLine, GotoF, Binary
<1>2. Top.k \in FlowKinds
  BY <1>1 DEF FlowKinds
<1>3. Gains(ts, u)
  BY <1>1, <1>2, TestTyped, AtChecked, GainsJump
<1>4. Top \in FrameSet
  BY <1>1, AtChecked
<1>5. /\ g.k = Top.k /\ g.name = Top.name /\ g.out = Top.out /\ g.tys = Top.tys
      /\ g.adrs = Top.adrs /\ g.want = "stats"
  BY <1>4 DEF FrameSet
<1> HIDE DEF g, u
<1> QED BY <1>1, <1>2, <1>3, <1>5, FlowChanges

LEMMA ElseTyped ==
  ASSUME Checked, Else
  PROVE  After
<1> DEFINE v == Emit1(ts, FlowLine("GOTO", Top.labs[1], Blank))
           u == Mark(v, Top.labs[2])
           g == [Top EXCEPT !.some = FALSE, !.field = 1, !.owe = Here]
<1>1. /\ InCode /\ Top.k = "ifelse" /\ Top.want = "stats" /\ ts' = u
      /\ frames' = SetTop(g)
  BY DEF Else, Emit1, FlowLine, Goto, Unary, Stats
<1>2. Top.k \in FlowKinds
  BY <1>1 DEF FlowKinds
<1>3. Gains(ts, u)
  <2>1. Gains(ts, v)
    BY <1>1, AtChecked, GainsJump
  <2> HIDE DEF v
  <2> QED BY <2>1, GainsMark
<1>4. Top \in FrameSet
  BY <1>1, AtChecked
<1>5. /\ g.k = Top.k /\ g.name = Top.name /\ g.out = Top.out /\ g.tys = Top.tys
      /\ g.adrs = Top.adrs /\ g.want = Top.want
  BY <1>4 DEF FrameSet
<1> HIDE DEF g, u
<1> QED BY <1>1, <1>2, <1>3, <1>5, FlowChanges

LEMMA RepeatUntilTyped ==
  ASSUME Checked, RepeatUntil
  PROVE  After
<1> DEFINE tys == <<"bool">>
           g == [Top EXCEPT !.want = "bool", !.tys = tys]
<1>1. InCode /\ Top.k = "repeat" /\ Top.want = "stats" /\ ts' = ts /\ frames' = SetTop(g)
  BY DEF RepeatUntil, Stats
<1>2. Top.k \in FlowKinds
  BY <1>1 DEF FlowKinds
<1>3. Top \in FrameSet /\ ShapedFlow(Top) /\ Gains(ts, ts)
  BY <1>1, <1>2, AtChecked, TestTyped
<1>4. Len(Top.adrs) = 0
  <2>1. Len(Top.adrs) <= Len(Top.tys) /\ Len(Top.tys) = 0 /\ Len(Top.adrs) \in Nat
    BY <1>1, <1>3 DEF ShapedFlow, FrameSet
  <2> QED BY <2>1
<1>5. tys[1] = "bool"
  OBVIOUS
<1> HIDE DEF tys
<1>6. /\ g.k = Top.k /\ g.name = Top.name /\ g.out = Top.out /\ g.tys = tys
      /\ g.adrs = Top.adrs /\ g.want = "bool"
  BY <1>3 DEF FrameSet
<1> HIDE DEF g
<1>7. Suited(g)
  BY <1>1, <1>5, <1>6 DEF Suited
<1>8. TypedFrame(g)
  BY <1>4, <1>5, <1>6, <1>7, Unfilled
<1>9. Stands(Top, g)
  BY <1>1, <1>6 DEF Stands, Result
<1> QED BY <1>1, <1>3, <1>8, <1>9, Changes

LEMMA CloseFlowTyped ==
  ASSUME Checked, CloseIf \/ CloseFor \/ CloseRepeat
  PROVE  After
<1> DEFINE v == Emit1(ts, FlowLine("GOTO", Top.labs[1], Blank))
           w == Emit1(ts, FlowLine("GOTOF", Top.labs[1], Top.adrs[1]))
<1>1. /\ InCode /\ Top.k \in {"if", "ifelse", "for", "repeat"} /\ frames' = Front(frames)
      /\ \/ ts' = Mark(ts, Top.labs[1])
         \/ ts' = Mark(v, Top.labs[2])
         \/ ts' = w /\ Top.want = "step"
  BY DEF CloseIf, CloseFor, CloseRepeat, Emit1, FlowLine, Goto, GotoF, Unary, Binary, Stats,
         Ready, EndStat
<1>2. Top.k \in FlowKinds
  BY <1>1 DEF FlowKinds
<1>3. Gains(ts, ts) /\ Top.k # "func" /\ (Top.want = "step" => Top.adrs[1].ty = "bool")
  BY <1>1, <1>2, AtChecked, TestTyped
<1>4. Gains(ts, v)
  BY <1>3, GainsJump
<1>5. Top.want = "step" => Gains(ts, w)
  BY <1>3, GainsJump
<1> HIDE DEF v, w
<1>6. Gains(ts, ts')
  BY <1>1, <1>3, <1>4, <1>5, GainsMark
<1> QED BY <1>1, <1>3, <1>6, Ends

(* Every step of a statement with branches. *)
LEMMA ControlTyped ==
  ASSUME Checked, Control
  PROVE  After
BY OpenIfTyped, ConditionTyped, ElseTyped, RepeatUntilTyped, CloseFlowTyped DEF Control

(***************************************************************************)
(* Functions.                                                              *)
(***************************************************************************)
(* A local is declared with a line on its own type. *)
LEMMA GainsDeclared ==
  ASSUME NEW t, NEW u, Gains(t, u), NEW i \in 1..3
  PROVE  Gains(t, Declared(u, i))
<1> DEFINE ty == Locals[i]
           x == Adr("VAR", i - 1, ty, 0)
           a == AdrOf(u, ty, 0)
           l == Line("FALSE", x, Blank, Blank)
           m == Line("ASIGN", x, Blank, a)
           v == Intern(u, ty, 0)
<1>1. Declared(u, i) = IF ty = "bool" THEN Emit1(u, l) ELSE Emit1(v, m)
  BY DEF Declared, Emit1, Unary, Binary
<1>2. ty \in Values /\ x.ty = ty /\ a.ty = ty
  BY DEF Locals, Values, AdrOf, Adr
<1> HIDE DEF ty, x, a, v
<1>3. l.op = "FALSE" /\ l.left = x /\ m.op = "ASIGN" /\ m.left = x /\ m.right = a
  BY DEF Line
<1> HIDE DEF l, m
<1>4. ty = "bool" => Proper(l)
  BY <1>2, <1>3 DEF Proper, Well
<1>5. Proper(m)
  BY <1>2, <1>3 DEF Proper, Well
<1>6. Gains(t, v)
  BY GainsIntern DEF v
<1> QED BY <1>1, <1>4, <1>5, <1>6, GainsEmit

LEMMA GainsLocals ==
  ASSUME NEW w, Gains(w, w)
  PROVE  Gains(w, Locally(w))
<1> DEFINE d1 == Declared(w, 1)
           d2 == Declared(d1, 2)
<1>1. Gains(w, d1)
  BY GainsDeclared
<1> HIDE DEF d1
<1>2. Gains(w, d2)
  BY <1>1, GainsDeclared
<1> HIDE DEF d2
<1>3. Gains(w, Declared(d2, 3))
  BY <1>2, GainsDeclared
<1> QED BY <1>3 DEF Locally, d1, d2

LEMMA StartFuncTyped ==
  ASSUME Checked, NEW f \in Names, StartFunc(f)
  PROVE  After
<1> DEFINE v == Intern(ts, "str", f)
           a == AdrOf(ts, "str", f)
           l == FuncLine(a)
           w == Emit1(v, l)
           g == Body(None("func"), f)
           s == ts.lines
<1>1. /\ frames = <<>> /\ frames' = <<g>>
      /\ ts' = IF f = "main" \/ Uses("locals") THEN Locally(w) ELSE w
  BY DEF StartFunc, Locally, Emit1, FuncLine, Unary, Body, None
<1>2. Idle(ts, land, uses) /\ TSok(ts) /\ AllTyped(s) /\ Blocks(s)
  BY <1>1, IdleIs DEF Checked, Now, TypesOK, Idle, Sound
<1>3. "str" \in Pools /\ f \in Vals
  BY DEF Pools, Vals
<1>4. /\ Sound(v, uses) /\ Quiet(ts, v) /\ Has(v, a) /\ v.lines = s
  BY <1>2, <1>3, Interns DEF Idle
<1>5. a.type = "STR" /\ a.val = f
  BY DEF AdrOf, LitType, Adr
<1> HIDE DEF v, a
<1>6. Idle(v, land, uses)
  <2>1. v.label = ts.label
    BY <1>4 DEF Quiet
  <2> QED BY <1>2, <1>4, <2>1 DEF Idle, Marked
<1>7. Idle(w, land, uses)
  BY <1>4, <1>5, <1>6, FuncIs DEF Has
<1>8. TSok(w) /\ Blocks(w.lines) /\ Gains(w, w) /\ HasLines(v)
  BY <1>6, <1>7, AtFirst DEF Idle, Sound
<1>9. l.op = "FUNC" /\ l.left = a
  BY DEF FuncLine, Line
<1> HIDE DEF l
<1>10. /\ Len(s) \in Nat /\ Len(w.lines) = Len(s) + 1 /\ w.lines[Len(s) + 1] = l
       /\ \A i \in 1..Len(s) : w.lines[i] = s[i]
  BY <1>4, <1>8, EmitLines
<1> HIDE DEF w
<1>11. AllTyped(w.lines)
  <2> DEFINE r == w.lines
  <2>a. /\ Len(s) \in Nat /\ Len(s) <= Len(r) /\ Len(r) \in Nat
        /\ \A i \in 1..Len(s) : r[i] = s[i]
    BY <1>10
  <2> HIDE DEF r, s
  <2>b. \A i \in 1..Len(s) : TypedAt(r, i)
    BY <1>2, <2>a, StillTyped
  <2>1. \A i \in 1..Len(s) : TypedAt(w.lines, i)
    BY <2>b DEF r
  <2>2. TypedAt(w.lines, Len(s) + 1)
    BY <1>9, <1>10 DEF TypedAt, Well
  <2>3. \A i \in 1..Len(w.lines) : i \in 1..Len(s) \/ i = Len(s) + 1
    BY <1>10
  <2> QED BY <2>1, <2>2, <2>3 DEF AllTyped
<1>12. InFunc(w.lines, Len(w.lines), f)
  BY <1>5, <1>9, <1>10 DEF InFunc, NoFunc
<1>13. Gains(w, ts')
  BY <1>1, <1>8, GainsLocals
<1>14. AllTyped(ts'.lines)
  BY <1>8, <1>11, <1>13, GainsTyped
<1>15. InFunc(ts'.lines, Len(ts'.lines), f)
  <2>1. Len(ts'.lines) \in Len(w.lines)..Len(ts'.lines)
    BY <1>13 DEF Gains, Longer, HasLines
  <2> QED BY <1>12, <1>13, <2>1, GainsFunc
<1>16. TypedFrame(g) /\ g.name = f /\ g.k = "func"
  <2> DEFINE e == None("func")
  <2>1. "func" \in Kinds
    BY DEF Kinds
  <2>2. Fresh(e, "func") /\ e.want = "stats" /\ Len(e.adrs) = 0
    BY <2>1, FramesAre
  <2> HIDE DEF e
  <2>3. g = [e EXCEPT !.name = f]
    BY DEF Body, e
  <2> HIDE DEF g
  <2>4. g.k = "func" /\ g.name = f /\ g.want = "stats" /\ g.adrs = e.adrs
    BY <2>2, <2>3 DEF Fresh, FrameSet
  <2>5. "stats" \notin Wants
    BY DEF Wants
  <2> QED BY <2>2, <2>4, <2>5 DEF TypedFrame, Suited, Filled, FlowKinds
<1> DEFINE fs == <<g>>
<1>17. Len(fs) = 1 /\ fs[1] = g
  OBVIOUS
<1> HIDE DEF fs, g
<1>18. TypedStack(fs)
  <2>1. g.k # "return"
    BY <1>16
  <2> QED BY <1>16, <1>17, <2>1 DEF TypedStack
<1> QED BY <1>1, <1>14, <1>15, <1>16, <1>17, <1>18 DEF After, TypesOK, fs

(* The stack is empty between two functions. *)
LEMMA EmptyTyped ==
  ASSUME Checked, ts'.lines = ts.lines, frames' = <<>>
  PROVE  After
<1>1. AllTyped(ts'.lines)
  BY DEF Checked, TypesOK
<1> DEFINE none == <<>>
<1>2. TypedStack(none)
  <2>1. Len(none) = 0
    OBVIOUS
  <2> HIDE DEF none
  <2> QED BY <2>1 DEF TypedStack
<1> QED BY <1>1, <1>2 DEF After, TypesOK

LEMMA PartTyped ==
  ASSUME Checked, Staged, Part
  PROVE  After
<1>1. CASE \E q \in Numeric : \E v \in LitsOf(q) : DeclareConst(q, v)
  <2> PICK q \in Numeric : \E v \in LitsOf(q) : DeclareConst(q, v)
    BY <1>1
  <2> PICK v \in LitsOf(q) : DeclareConst(q, v)
    OBVIOUS
  <2>1. phase = "globals" /\ ts' = WithConst(ts, q, v) /\ frames' = frames
    BY DEF DeclareConst, WithConst
  <2>2. frames = <<>>
    BY <2>1 DEF Staged
  <2>3. TSok(ts)
    BY DEF Checked, Now, Inv, Sound
  <2>4. v \in Nat /\ q \in {"int", "real"}
    BY LitsAre DEF Numeric
  <2>5. Declares(ts, ts', q, v)
    BY <2>1, <2>3, <2>4, WithConstIs
  <2>6. ts'.lines = ts.lines
    BY <2>5 DEF Declares
  <2> QED BY <2>1, <2>2, <2>6, EmptyTyped
<1>2. CASE \E f \in Funcs \cup {"main"} : StartFunc(f)
  BY <1>2, StartFuncTyped DEF Names
<1>3. CASE EndFunc
  <2>1. frames' = <<>> /\ (ts' = ts \/ ts' = ZeroTmp(ts))
    BY <1>3 DEF EndFunc, ZeroTmp
  <2>2. TSok(ts)
    BY DEF Checked, Now, Inv, Sound
  <2>3. ZeroTmp(ts).lines = ts.lines
    BY <2>2 DEF ZeroTmp, TSok
  <2> QED BY <2>1, <2>3, EmptyTyped
<1> QED BY <1>1, <1>2, <1>3 DEF Part

(***************************************************************************)
(* The theorem.                                                            *)
(***************************************************************************)
(* A program does not change, nor what its functions are. *)
LEMMA TacKeeps ==
  ASSUME IInv, TacNext
  PROVE  uses' = uses /\ sigs' = sigs
<1>1. Now
  BY DEF IInv, Now
<1>2. CASE Inside
  BY <1>2 DEF Inside
<1>3. CASE Part
  BY <1>3 DEF Part, DeclareConst, StartFunc, EndFunc
<1> QED BY <1>1, <1>2, <1>3, OperandStep, OperatorStep, StatementStep, ControlStep DEF TacNext

(* What is said of the types stays said when the functions stay what they are. *)
LEMMA TypesStay ==
  ASSUME sigs' = sigs, TypesOK(ts', frames')
  PROVE  TypesOK(ts, frames)'
<1>1. AllTyped(ts.lines)'
  <2> SUFFICES ASSUME NEW i \in 1..Len(ts'.lines) PROVE TypedAt(ts.lines, i)'
    BY DEF AllTyped
  <2>1. TypedAt(ts'.lines, i)
    BY DEF TypesOK, AllTyped
  <2>2. Well(ts.lines[i])'
    BY <2>1 DEF TypedAt, Well
  <2>3. ts'.lines[i].op = "RVAL" =>
          \E f \in Funcs : InFunc(ts.lines, i, f)' /\ ts'.lines[i].left.ty = sigs'[f].ret
    BY <2>1 DEF TypedAt, InFunc, NoFunc
  <2>4. ts'.lines[i].op = "PARAM" =>
          ts'.lines[i].left.ty =
            sigs'[Callee(ts'.lines[i + ts'.lines[i].ref[3]])].pars[ts'.lines[i].ref[3]]
    BY <2>1 DEF TypedAt
  <2> HIDE DEF Well, InFunc
  <2> QED BY <2>2, <2>3, <2>4 DEF TypedAt, Callee
<1>2. TypedStack(frames)'
  BY DEF TypesOK, TypedStack, TypedFrame, Suited, Filled
<1> QED BY <1>1, <1>2 DEF TypesOK

LEMMA TypingStep ==
  ASSUME IInv, WellTyped, TacNext
  PROVE  WellTyped'
<1>1. uses' = uses /\ sigs' = sigs
  BY TacKeeps
<1> SUFFICES ASSUME uses \cap Odd = {} PROVE TypesOK(ts, frames)'
  BY <1>1 DEF WellTyped
<1>2. Checked /\ Staged
  BY DEF Checked, IInv, Now, WellTyped
<1>3. After
  BY <1>2, OperandTyped, OperatorTyped, StatementTyped, ControlTyped, PartTyped DEF TacNext
<1> QED BY <1>1, <1>3, TypesStay DEF After

(* Then every operation is on what it is for. *)
LEMMA TypesAreMeant == ASSUME IInv, WellTyped PROVE OperandsTyped
<1> SUFFICES ASSUME Generated, uses \cap Odd = {}, NEW i \in 1..Count
             PROVE  Typed(i)
  BY DEF OperandsTyped
<1>1. Listed /\ Count \in Nat
  BY WhenGenerated
<1> DEFINE l == Lines[i]
<1>2. TypedAt(Lines, i)
  BY DEF WellTyped, TypesOK, AllTyped, Lines, Count
<1>3. Well(l)
  BY <1>2 DEF TypedAt
<1>4. l.op = "RVAL" => l.left.ty = sigs[NamedAt(i)].ret
  <2> SUFFICES ASSUME l.op = "RVAL" PROVE l.left.ty = sigs[NamedAt(i)].ret
    OBVIOUS
  <2>1. PICK f \in Funcs : InFunc(Lines, i, f) /\ l.left.ty = sigs[f].ret
    BY <1>2 DEF TypedAt
  <2>2. PICK j \in 1..i : Lines[j].op = "FUNC" /\ NoFunc(Lines, j, i) /\ Lines[j].left.val = f
    BY <2>1 DEF InFunc
  <2>3. j = FuncOf(i)
    BY <1>1, <2>2, FuncOfIs
  <2> QED BY <2>1, <2>2, <2>3 DEF NamedAt
<1>5. l.op = "PARAM" =>
        l.left.ty = sigs[Callee(Lines[NextOf(i, {"CALL", "CALLVAL"})])].pars[l.ref[3]]
  <2> SUFFICES ASSUME l.op = "PARAM"
               PROVE  l.left.ty =
                        sigs[Callee(Lines[NextOf(i, {"CALL", "CALLVAL"})])].pars[l.ref[3]]
    OBVIOUS
  <2>1. NextOf(i, {"CALL", "CALLVAL"}) = i + l.ref[3]
    BY ToTheCall DEF CallOps
  <2> QED BY <1>2, <2>1 DEF TypedAt
<1> HIDE DEF l
<1>6. CASE l.op \in {"ADDI", "MULI", "ADDF", "GTI", "GTF"}
  BY <1>3, <1>6 DEF Typed, Well, l
<1>7. CASE l.op \in {"AND", "NOT", "ITOF", "ASIGN", "STORE"}
  BY <1>3, <1>7 DEF Typed, Well, l
<1>8. CASE l.op \in {"DEREF", "PRINTI", "PRINTF", "READF", "READI"}
  BY <1>3, <1>8 DEF Typed, Well, l
<1>9. CASE l.op \in {"GOTOF", "TRUE", "FALSE"}
  BY <1>3, <1>9 DEF Typed, Well, l
<1>10. CASE l.op = "RVAL"
  BY <1>4, <1>10 DEF Typed, l
<1>11. CASE l.op = "PARAM"
  BY <1>5, <1>11 DEF Typed, Callee, l
<1>12. CASE l.op \notin UNION {{"ADDI", "MULI", "ADDF", "GTI", "GTF"},
                          {"AND", "NOT", "ITOF", "ASIGN", "STORE"},
                          {"DEREF", "PRINTI", "PRINTF", "READF", "READI"},
                          {"GOTOF", "TRUE", "FALSE"},
                          {"RVAL", "PARAM"}}
  BY <1>12 DEF Typed, l
<1> QED BY <1>6, <1>7, <1>8, <1>9, <1>10, <1>11, <1>12

(* Every operation of a finished program works on operands of its type: integers
   are made real before they meet reals, addresses are read through, a condition
   is Boolean, an argument is of the type its function takes at that place, and a
   returned value of the type its function gives; in programs without the four
   constructs of Odd (tac_gen_stat and all that it calls). *)
THEOREM OperandsFit == Spec => []OperandsTyped
<1>1. X86Init => WellTyped
  <2> SUFFICES ASSUME X86Init PROVE TypesOK(ts, frames)
    BY DEF WellTyped
  <2> DEFINE none == <<>>
  <2>1. ts.lines = none /\ frames = none
    BY DEF X86Init, Init
  <2>2. Len(none) = 0 /\ none = <<>>
    OBVIOUS
  <2> HIDE DEF none
  <2> QED BY <2>1, <2>2 DEF TypesOK, AllTyped, TypedStack
<1>2. IInv /\ WellTyped /\ [Next]_vars => WellTyped'
  <2> SUFFICES ASSUME IInv, WellTyped, [Next]_vars PROVE WellTyped'
    OBVIOUS
  <2>1. CASE TacNext
    BY <2>1, TypingStep
  <2>2. CASE Start \/ ResolveFunc \/ ResolveParam \/ ResolveOther \/ Finished \/ UNCHANGED vars
    <3>1. ts' = ts /\ frames' = frames /\ uses' = uses /\ sigs' = sigs
      BY <2>2 DEF Start, ResolveFunc, ResolveParam, ResolveOther, Finished, Same, vars
    <3> SUFFICES ASSUME uses \cap Odd = {} PROVE TypesOK(ts, frames)'
      BY <3>1 DEF WellTyped
    <3>2. TypesOK(ts', frames')
      BY <3>1 DEF WellTyped
    <3> QED BY <3>1, <3>2, TypesStay
  <2> QED BY <2>1, <2>2 DEF Next
<1>3. IInv /\ WellTyped => OperandsTyped
  BY TypesAreMeant
<1> QED BY <1>1, <1>2, <1>3, Invariance, PTL DEF Spec
===============================================================================
