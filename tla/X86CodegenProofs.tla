-------------------------- MODULE X86CodegenProofs --------------------------
(***************************************************************************)
(* Theorems about the generator of three-address code and the x86 back end *)
(* behind it, for every set of programs, bound and number of registers.    *)
(*                                                                         *)
(* The invariant of the generator is stated of a T_S, a call stack and the *)
(* landings as parameters, since a step goes through several T_Ss before   *)
(* it is done: Good is what holds in between, and each of Intern, TookTmp  *)
(* and Emit keeps it.                                                      *)
(***************************************************************************)
EXTENDS X86Codegen, FiniteSetTheorems, SequenceTheorems, WellFoundedInduction, TLAPS

(***************************************************************************)
(* Induction over numbers, with a set in the place of the predicate: the   *)
(* theorems of NaturalsInduction take an operator, which no prover at hand *)
(* instantiates; a set {n \in Nat : P(n)} does the same work.              *)
(***************************************************************************)
(* A set of natural numbers that has an element has a least one. *)
LEMMA LeastNat ==
  ASSUME NEW T, T \subseteq Nat, T # {}
  PROVE  \E x \in T : \A y \in T : x <= y
<1> DEFINE Below == {p \in Nat \X Nat : p[1] < p[2]}
<1>1. IsWellFoundedOn(Below, Nat)
  BY NatLessThanWellFounded DEF OpToRel
<1> HIDE DEF Below
<1>2. \E x \in T : \A y \in T : <<y, x>> \notin Below
  BY <1>1, WFMin, Zenon
<1>3. PICK x \in T : \A y \in T : <<y, x>> \notin Below
  BY <1>2
<1>4. ASSUME NEW y \in T PROVE x <= y
  <2>1. x \in Nat /\ y \in Nat /\ <<y, x>> \notin Below
    BY <1>3
  <2>2. y < x => <<y, x>> \in Below
    BY <2>1 DEF Below
  <2> QED BY <2>1, <2>2
<1> QED BY <1>4

(* So has a set of integers that is bounded from below, and one that is bounded
   from above has a greatest one. *)
LEMMA LeastInt ==
  ASSUME NEW T, T \subseteq Int, T # {}, NEW m \in Int, \A t \in T : m <= t
  PROVE  \E x \in T : \A y \in T : x <= y
<1> DEFINE U == {n \in Nat : n + m \in T}
<1>1. U \subseteq Nat
  OBVIOUS
<1>2. U # {}
  <2>1. PICK t \in T : TRUE
    OBVIOUS
  <2>2. t - m \in Nat /\ (t - m) + m = t
    BY <2>1
  <2>3. t - m \in U
    BY <2>2
  <2> QED BY <2>3
<1>3. \A t \in T : t - m \in U
  OBVIOUS
<1>4. \A u \in U : u \in Nat /\ u + m \in T
  OBVIOUS
<1> HIDE DEF U
<1>5. PICK u \in U : \A w \in U : u <= w
  BY <1>1, <1>2, LeastNat
<1>6. u + m \in T
  BY <1>4
<1>7. ASSUME NEW t \in T PROVE u + m <= t
  <2>1. u <= t - m /\ u \in Nat
    BY <1>3, <1>4, <1>5
  <2> QED BY <2>1
<1> QED BY <1>6, <1>7

(* A non-empty set of integers with an upper bound has a greatest element. *)
LEMMA GreatestInt ==
  ASSUME NEW T, T \subseteq Int, T # {}, NEW m \in Int, \A t \in T : t <= m
  PROVE  \E x \in T : \A y \in T : y <= x
<1> DEFINE U == {n \in Nat : m - n \in T}
<1>1. U \subseteq Nat
  OBVIOUS
<1>2. U # {}
  <2>1. PICK t \in T : TRUE
    OBVIOUS
  <2>2. m - t \in Nat /\ m - (m - t) = t
    BY <2>1
  <2>3. m - t \in U
    BY <2>2
  <2> QED BY <2>3
<1>3. \A t \in T : m - t \in U
  OBVIOUS
<1>4. \A u \in U : u \in Nat /\ m - u \in T
  OBVIOUS
<1> HIDE DEF U
<1>5. PICK u \in U : \A w \in U : u <= w
  BY <1>1, <1>2, LeastNat
<1>6. m - u \in T
  BY <1>4
<1>7. ASSUME NEW t \in T PROVE t <= m - u
  <2>1. u <= m - t /\ u \in Nat
    BY <1>3, <1>4, <1>5
  <2> QED BY <2>1
<1> QED BY <1>6, <1>7

(* Induction from a number a, up to b. *)
LEMMA InductUpTo ==
  ASSUME NEW a \in Int, NEW b \in Int, NEW S, a \in S,
         \A k \in a..(b - 1) : k \in S => k + 1 \in S
  PROVE  a..b \subseteq S
<1>1. SUFFICES ASSUME NEW m \in a..b, m \notin S PROVE FALSE
  OBVIOUS
<1> DEFINE Out == {k \in a..b : k \notin S}
<1>2. Out \subseteq Int /\ Out # {} /\ \A t \in Out : a <= t
  BY <1>1
<1>3. \A k \in a..b : k \notin Out => k \in S
  OBVIOUS
<1>4. \A k \in Out : k \in a..b /\ k \notin S
  OBVIOUS
<1> HIDE DEF Out
<1>5. PICK x \in Out : \A y \in Out : x <= y
  BY <1>2, LeastInt
<1>6. x \in a..b /\ x \notin S
  BY <1>4
<1>7. x # a /\ x - 1 \in a..(b - 1) /\ x - 1 \in a..b /\ (x - 1) + 1 = x
  BY <1>6
<1>8. x - 1 \notin Out
  BY <1>5, <1>7, <1>6
<1> QED BY <1>3, <1>6, <1>7, <1>8

(* A set that holds 0 and the successor of each of its elements holds every
   number. *)
LEMMA Induct ==
  ASSUME NEW S, 0 \in S, \A n \in Nat : n \in S => n + 1 \in S
  PROVE  Nat \subseteq S
<1>1. SUFFICES ASSUME NEW m \in Nat PROVE m \in S
  OBVIOUS
<1>2. 0..m \subseteq S
  BY InductUpTo
<1> QED BY <1>2

(***************************************************************************)
(* Types.                                                                  *)
(***************************************************************************)
AdrTypes == {"EMPTY", "TMP", "VAR", "PARAM", "ARRAY", "LABEL", "ILIT", "FLIT", "STR"}
Pools    == {"int", "real", "str"}
Names    == Funcs \cup {"main"}
Vals     == Nat \cup Names
Adrs     == [type : AdrTypes, n : Nat, ty : Types, val : Vals]
(* The operations that write what stands on their left and are no branches. *)
Plain == {"TRUE", "FALSE", "ASIGN", "ITOF", "ADDI", "ADDF", "MULI", "GTI", "GTF", "AND",
          "NOT", "DEREF", "READI", "READF", "CALLVAL", "CALL", "PRINTSPC", "PRINTLN",
          "PRINTSTR", "RETN"}
Taking == {"STORE", "RVAL", "PRINTI", "PRINTF"}
Loud == {"FUNC", "PARAM", "LABEL", "GOTO", "GOTOF"}
Operations == Plain \cup Taking \cup Loud
LineSet == [op : Operations, left : Adrs, middle : Adrs, right : Adrs, ref : Seq(Nat)]

TSok(t) ==
  /\ t = [lines |-> t.lines, tmp |-> t.tmp, label |-> t.label, consts |-> t.consts,
          pool |-> t.pool, seen |-> t.seen, count |-> t.count]
  /\ t.lines \in Seq(LineSet) /\ t.tmp \in Nat /\ t.label \in Nat
  /\ t.pool \in [Pools -> Seq(Vals)] /\ t.count \in [Pools -> Nat]
  /\ t.seen = [q \in Pools |-> t.seen[q]]
  /\ \A q \in Pools : \A k \in DOMAIN t.seen[q] :
       t.seen[q][k] \in Nat /\ t.seen[q][k] < t.count[q]
  /\ \A c \in DOMAIN t.consts :
       c \in {"int", "real"} \X Nat /\ t.consts[c] \in Nat

Wants     == {"int", "real", "bool", "ptr", "place", "whole"}
ExprKinds == Ops2 \cup {"elem", "fncall"}
FlowKinds == {"if", "ifelse", "for", "repeat"}
StatKinds == {"call", "asgn", "copy", "update", "print", "read", "return"} \cup FlowKinds
FrameSet  == [k : ExprKinds \cup StatKinds \cup {"func"}, tys : Seq(Wants), adrs : Seq(Adrs),
              ty : {"int", "real", "bool", "none"}, out : Adrs, labs : Seq(Nat),
              want : Wants \cup {"step", "stats"}, some : BOOLEAN, owe : Nat, begin : Nat,
              name : Names \cup {"none"}, field : 0..3, call : Seq(Nat)]

(* What a frame has of operands, labels and a result, by its kind. *)
Shaped(f) ==
  /\ Len(f.adrs) <= Len(f.tys)
  /\ f.want \in Wants => Len(f.adrs) < Len(f.tys)
  /\ f.want = "step" /\ f.k \notin Ops2 => Len(f.adrs) = Len(f.tys)
  /\ f.want = "stats" => f.k \in FlowKinds \cup {"func"}
  /\ f.k \in Ops2 /\ f.want = "step" => Len(f.adrs) \in {1, 2}
  /\ f.k \in Ops2 \cup {"elem", "asgn", "copy", "update"} => Len(f.tys) = 2
  /\ f.k \in {"print", "read", "return", "if", "ifelse", "for"} => Len(f.tys) = 1
  /\ f.k = "repeat" => Len(f.tys) = IF f.want = "stats" THEN 0 ELSE 1
  /\ f.k = "func" => f.want = "stats" /\ f.name \in Names
  /\ f.k \in {"asgn", "update"} =>
       f.tys[1] = "place" \/ (f.adrs # <<>> /\ f.adrs[1].type = "VAR")
  /\ f.k \in {"call", "fncall"} => f.name \in Funcs /\ Len(f.call) = 2
  /\ f.out.type \in {"EMPTY", "TMP"}
  /\ f.out.type = "TMP" => f.k \in {"relop", "not", "logic", "fncall", "elem"}
  /\ f.k \in {"relop", "not", "logic", "fncall"} => f.out.type = "TMP"
  /\ f.k \in {"if", "repeat"} => Len(f.labs) = 1
  /\ f.k \in {"ifelse", "for"} => Len(f.labs) = 2
  /\ f.k \notin FlowKinds => f.labs = <<>> /\ f.owe = 0
  /\ f.k = "repeat" \/ (f.k \in FlowKinds /\ f.want # "stats") => f.owe = 0 /\ f.field = 0

(* A field is only added to in some programs. *)
Allowed(f, us) == f.k = "update" /\ f.tys[1] = "place" => "elemupdate" \in us

(* Which frame may stand on which. *)
OnTop(f, g) == \/ f.k \in ExprKinds /\ g.want \in Wants
               \/ f.k \in StatKinds /\ g.want = "stats"
Stacked1(fs) == fs # <<>> => /\ fs[1].k = "func"
                             /\ \A i \in 2..Len(fs) : OnTop(fs[i], fs[i - 1])
Outs(fs) == {fs[i].out.n : i \in {j \in 1..Len(fs) : fs[j].out.type = "TMP"}}
Apart(fs) == \A i, j \in 1..Len(fs) :
               i # j /\ fs[i].out.type = "TMP" /\ fs[j].out.type = "TMP"
                 => fs[i].out.n # fs[j].out.n

(***************************************************************************)
(* Variables and temporaries.                                              *)
(***************************************************************************)
(* Lines j and i are in the same function. *)
NoFunc(s, j, i) == \A k \in (j + 1)..i : s[k].op # "FUNC"

Kept == {"TMP", "VAR"}
Defines(s, j, a) == /\ s[j].left.type = a.type /\ s[j].left.n = a.n
                    /\ s[j].op \notin Readers

(* What line i reads was written in its function before it. *)
Backed(s, a, i) ==
  a.type \in Kept => \E j \in 1..(i - 1) : Defines(s, j, a) /\ NoFunc(s, j, i)
AllBacked(s) ==
  \A i \in 1..Len(s) : /\ Backed(s, s[i].middle, i) /\ Backed(s, s[i].right, i)
                       /\ s[i].op \in Readers => Backed(s, s[i].left, i)

(* What waits in a frame was written in the function that is generated. *)
Current(s, a) ==
  a.type \in Kept => \E j \in 1..Len(s) : Defines(s, j, a) /\ NoFunc(s, j, Len(s))

(* Line j writes the temporary n. *)
Writes(s, j, n)  == s[j].left.type = "TMP" /\ s[j].left.n = n /\ s[j].op \notin Readers
WrittenOnce(s)   == \A j, k \in 1..Len(s) :
                      j < k /\ Writes(s, j, s[k].left.n) /\ Writes(s, k, s[k].left.n)
                        => ~NoFunc(s, j, k)

(* Temporaries are numbered from tmp on; those in P are taken and not written. *)
Numbered(t, P) ==
  LET s == t.lines IN
  /\ \A j \in 1..Len(s) : Writes(s, j, s[j].left.n) /\ NoFunc(s, j, Len(s))
                            => s[j].left.n < t.tmp /\ s[j].left.n \notin P
  /\ \A n \in P : n \in Nat /\ n < t.tmp

(***************************************************************************)
(* Literals.                                                               *)
(***************************************************************************)
RealFree(t) == \A c \in DOMAIN t.consts : c[1] # "real"
At(t, q, n, v) == n < Len(t.pool[q]) /\ KeyOf(q, t.pool[q][n + 1]) = KeyOf(q, v)
LitOK(t, a) ==
  RealFree(t) /\ a.type \in {"ILIT", "FLIT", "STR"} => At(t, PoolOf(a.type), a.n, a.val)
LinesOK(t) == \A i \in 1..Len(t.lines) : /\ LitOK(t, t.lines[i].left)
                                         /\ LitOK(t, t.lines[i].middle)
                                         /\ LitOK(t, t.lines[i].right)
(* The counters are the lengths, and the maps lead to what they were asked for. *)
Pooled(t) ==
  RealFree(t) =>
    /\ \A q \in Pools : /\ Len(t.pool[q]) = t.count[q]
                        /\ \A k \in DOMAIN t.seen[q] :
                             KeyOf(q, t.pool[q][t.seen[q][k] + 1]) = k
    /\ \A c \in DOMAIN t.consts : At(t, c[1], t.consts[c], c[2])

(***************************************************************************)
(* What holds between the steps of one action.                             *)
(***************************************************************************)
Sound(t, us) ==
  /\ TSok(t) /\ AllBacked(t.lines) /\ LinesOK(t) /\ Pooled(t)
  /\ "elemupdate" \notin us => WrittenOnce(t.lines)
Good(t, P, us) == Sound(t, us) /\ Numbered(t, P)

(* An address that may be used in the lines to come. *)
Has(t, a) == a \in Adrs /\ Current(t.lines, a) /\ LitOK(t, a)

Longer(t, u) ==
  /\ Len(t.lines) <= Len(u.lines)
  /\ \A i \in 1..Len(t.lines) : u.lines[i] = t.lines[i]
Quiet(t, u) ==
  /\ Longer(t, u) /\ u.label = t.label
  /\ \A i \in (Len(t.lines) + 1)..Len(u.lines) :
       u.lines[i].op \notin {"FUNC", "PARAM", "LABEL", "GOTO", "GOTOF"}
Keeps(t, u) == \A a : Has(t, a) => Has(u, a)

(***************************************************************************)
(* The stack.                                                              *)
(***************************************************************************)
VarAdr(i) == Adr("VAR", i - 1, Locals[i], 0)
Framed(t, fs, us) ==
  /\ fs \in Seq(FrameSet)
  /\ \A i \in 1..Len(fs) : Shaped(fs[i]) /\ Allowed(fs[i], us)
  /\ \A i \in 1..Len(fs) : \A m \in 1..Len(fs[i].adrs) : Has(t, fs[i].adrs[m])
  /\ Stacked1(fs) /\ Apart(fs)
  /\ fs # <<>> => /\ t.lines # <<>>
                  /\ fs[1].name = "main" \/ "locals" \in us =>
                       \A i \in 1..3 : Has(t, VarAdr(i))

(***************************************************************************)
(* Calls, branches and labels.                                             *)
(***************************************************************************)
CallOps == {"CALL", "CALLVAL"}
(* The arguments of a call stand in front of it, the first one last. *)
InBlock(s, i) ==
  LET k == s[i].ref[3] IN
  /\ Len(s[i].ref) = 3 /\ k \in 1..(Len(s) - i)
  /\ s[i + k].op \in CallOps /\ s[i + k].ref = Front(s[i].ref)
  /\ \A j \in i..(i + k - 1) : s[j].op = "PARAM"
Blocks(s) == \A i \in 1..Len(s) : s[i].op = "PARAM" => InBlock(s, i)

BranchOps == {"GOTO", "GOTOF"}
Marks(s, j, n) == s[j].op = "LABEL" /\ s[j].left.n = n

(* The labels of a frame that are not set yet, and the one its branch waits for. *)
Unset(f) == IF f.k = "if" \/ (f.k = "ifelse" /\ f.field = 1) THEN {1}
            ELSE IF f.k = "ifelse" THEN {1, 2}
            ELSE IF f.k = "for" THEN {2} ELSE {}
Owed(f)  == IF f.k = "for" \/ (f.k = "ifelse" /\ f.field # 1) THEN 2 ELSE 1

Landed(s, ld, i) ==
  /\ i \in DOMAIN ld /\ ld[i] \in 1..Len(s) /\ Marks(s, ld[i], s[i].left.n)
  /\ NoFunc(s, i, ld[i]) /\ NoFunc(s, ld[i], i)
Owes(s, f) ==
  /\ f.owe \in 1..Len(s) /\ s[f.owe].op \in BranchOps
  /\ s[f.owe].left.n = f.labs[Owed(f)] /\ NoFunc(s, f.owe, Len(s))
Begun(s, f) ==
  /\ f.begin \in 1..Len(s) /\ Marks(s, f.begin, f.labs[1]) /\ NoFunc(s, f.begin, Len(s))

Branching(t, fs, ld) ==
  LET s == t.lines IN
  /\ \A j \in 1..Len(s) : s[j].op \in BranchOps \cup {"LABEL"} => s[j].left.n < t.label
  /\ \A j, k \in 1..Len(s) :
       Marks(s, j, s[k].left.n) /\ Marks(s, k, s[k].left.n) => j = k
  /\ \A i \in 1..Len(fs) : \A m \in 1..Len(fs[i].labs) : fs[i].labs[m] < t.label
  /\ \A i, j \in 1..Len(fs) : \A m \in 1..Len(fs[i].labs), n \in 1..Len(fs[j].labs) :
       i # j \/ m # n => fs[i].labs[m] # fs[j].labs[n]
  /\ \A i \in 1..Len(fs) : \A m \in Unset(fs[i]) : \A j \in 1..Len(s) :
       ~Marks(s, j, fs[i].labs[m])
  /\ \A i \in 1..Len(fs) : fs[i].owe # 0 => Owes(s, fs[i])
  /\ \A i \in 1..Len(fs) : fs[i].k \in {"for", "repeat"} => Begun(s, fs[i])
  /\ \A i \in 1..Len(fs) :
       fs[i].want = "stats" /\ fs[i].k \in {"if", "ifelse", "for"} => fs[i].owe # 0
  /\ \A i \in 1..Len(s) : s[i].op \in BranchOps =>
       Landed(s, ld, i) \/ \E x \in 1..Len(fs) : fs[x].owe = i

(***************************************************************************)
(* The invariant.                                                          *)
(***************************************************************************)
Inv(t, fs, ld, us) ==
  /\ Sound(t, us)
  /\ fs # <<>> => Numbered(t, Outs(fs))
  /\ Framed(t, fs, us)
  /\ Blocks(t.lines)
  /\ Branching(t, fs, ld)
  /\ t.lines # <<>> => t.lines[1].op = "FUNC"

Staged ==
  /\ phase \in {"globals", "code", "done", "emit"}
  /\ frames # <<>> => phase = "code"
  /\ phase \in {"done", "emit"} => ts.lines # <<>>
  /\ phase # "emit" => cursor = 0 /\ asm = <<>>

Sizes   == [in : Nat, vars : Nat, tmps : Nat, bytes : Nat]
Entries == [line : Nat, reg : Nat, frame : Sizes]
(* The last line written, and the function that its frame is the frame of. *)
LastIs(i, l) ==
  /\ i <= Count /\ l.line = i /\ l.frame = frame
  /\ \E j \in 1..i : /\ Lines[j].op = "FUNC" /\ NoFunc(Lines, j, i)
                     /\ frame = FrameFrom(j)
  /\ Lines[i].op = "PARAM" =>
       l.reg = IF ParamsBetween(i) < NumRegs THEN ParamsBetween(i) + 1 ELSE 0
Framing == asm \in Seq(Entries) /\ (asm # <<>> => LastIs(Len(asm), asm[Len(asm)]))
Emitted == phase = "emit" => cursor = IF Len(asm) = Count THEN 0 ELSE Len(asm) + 1

Context ==
  /\ uses \in Programs /\ sigs \in [Funcs -> Signatures]
  /\ begun \subseteq Names
  /\ frame \in Sizes

IInv == Inv(ts, frames, land, uses) /\ Staged /\ Framing /\ Emitted /\ Context

(***************************************************************************)
(* Addresses, lines, frames.                                               *)
(***************************************************************************)
(* An address has its four parts. *)
LEMMA AdrIs ==
  ASSUME NEW type \in AdrTypes, NEW n \in Nat, NEW ty \in Types, NEW val \in Vals
  PROVE  /\ Adr(type, n, ty, val) \in Adrs
         /\ Adr(type, n, ty, val).type = type /\ Adr(type, n, ty, val).n = n
         /\ Adr(type, n, ty, val).ty = ty /\ Adr(type, n, ty, val).val = val
BY DEF Adr, Adrs

(* The parts of the addresses that have no literal. *)
LEMMA PlainAdrs ==
  /\ Blank \in Adrs /\ Blank.type = "EMPTY"
  /\ \A t, ty : t.tmp \in Nat /\ ty \in Types =>
       Tmp(t, ty) \in Adrs /\ Tmp(t, ty).type = "TMP" /\ Tmp(t, ty).n = t.tmp
         /\ Tmp(t, ty).ty = ty
  /\ \A n \in Nat : Label(n) \in Adrs /\ Label(n).type = "LABEL" /\ Label(n).n = n
  /\ \A i \in 1..3 : VarAdr(i) \in Adrs /\ VarAdr(i).type = "VAR" /\ VarAdr(i).n = i - 1
<1>1. 0 \in Vals /\ 0 \in Nat /\ "none" \in Types
  BY DEF Vals, Types
<1>2. Blank \in Adrs /\ Blank.type = "EMPTY"
  BY <1>1, AdrIs DEF Blank, AdrTypes
<1>3. ASSUME NEW t, NEW ty, t.tmp \in Nat, ty \in Types
      PROVE  Tmp(t, ty) \in Adrs /\ Tmp(t, ty).type = "TMP" /\ Tmp(t, ty).n = t.tmp
               /\ Tmp(t, ty).ty = ty
  BY <1>1, <1>3, AdrIs DEF Tmp, AdrTypes
<1>4. ASSUME NEW n \in Nat
      PROVE  Label(n) \in Adrs /\ Label(n).type = "LABEL" /\ Label(n).n = n
  BY <1>1, <1>4, AdrIs DEF Label, AdrTypes
<1>5. ASSUME NEW i \in 1..3
      PROVE  VarAdr(i) \in Adrs /\ VarAdr(i).type = "VAR" /\ VarAdr(i).n = i - 1
  <2>1. Locals[i] \in Types /\ i - 1 \in Nat
    BY <1>5 DEF Locals, Types
  <2> QED BY <1>1, <2>1, AdrIs DEF VarAdr, AdrTypes
<1> QED BY <1>2, <1>3, <1>4, <1>5

(* A line has its parts. *)
LEMMA LineIs ==
  ASSUME NEW op \in Operations, NEW a \in Adrs, NEW b \in Adrs, NEW c \in Adrs
  PROVE  /\ Line(op, a, b, c) \in LineSet
         /\ Line(op, a, b, c).op = op /\ Line(op, a, b, c).left = a
         /\ Line(op, a, b, c).middle = b /\ Line(op, a, b, c).right = c
BY DEF Line, LineSet

(* The two shorter kinds of lines. *)
LEMMA ShortLines ==
  ASSUME NEW op \in Operations, NEW a \in Adrs, NEW c \in Adrs
  PROVE  /\ Binary(op, a, c) \in LineSet
         /\ Binary(op, a, c).op = op /\ Binary(op, a, c).left = a
         /\ Binary(op, a, c).middle = Blank /\ Binary(op, a, c).right = c
         /\ Unary(op, a) \in LineSet
         /\ Unary(op, a).op = op /\ Unary(op, a).left = a
         /\ Unary(op, a).middle = Blank /\ Unary(op, a).right = Blank
BY PlainAdrs, LineIs DEF Binary, Unary

(***************************************************************************)
(* The operations on a T_S.                                                *)
(***************************************************************************)
(* append_line adds lines and nothing else. *)
LEMMA EmitIs ==
  ASSUME NEW t, TSok(t), NEW new \in Seq(LineSet), NEW u, u = Emit(t, new)
  PROVE  /\ TSok(u) /\ u.lines = t.lines \o new /\ u.tmp = t.tmp /\ u.label = t.label
         /\ u.consts = t.consts /\ u.pool = t.pool /\ u.seen = t.seen /\ u.count = t.count
<1>1. u = [t EXCEPT !.lines = @ \o new] /\ t.lines \o new \in Seq(LineSet)
  BY DEF Emit, TSok
<1>2. /\ u.lines = t.lines \o new /\ u.tmp = t.tmp /\ u.label = t.label
      /\ u.consts = t.consts /\ u.pool = t.pool /\ u.seen = t.seen /\ u.count = t.count
  BY <1>1 DEF TSok
<1>3. u = [lines |-> u.lines, tmp |-> u.tmp, label |-> u.label, consts |-> u.consts,
           pool |-> u.pool, seen |-> u.seen, count |-> u.count]
  BY <1>1 DEF TSok
<1> QED BY <1>1, <1>2, <1>3 DEF TSok

(* mktmp counts a temporary and nothing else. *)
LEMMA TmpIs ==
  ASSUME NEW t, TSok(t), NEW u, u = TookTmp(t)
  PROVE  /\ TSok(u) /\ u.lines = t.lines /\ u.tmp = t.tmp + 1 /\ u.label = t.label
         /\ u.consts = t.consts /\ u.pool = t.pool /\ u.seen = t.seen /\ u.count = t.count
<1>1. u = [t EXCEPT !.tmp = @ + 1]
  BY DEF TookTmp
<1>2. /\ u.lines = t.lines /\ u.tmp = t.tmp + 1 /\ u.label = t.label
      /\ u.consts = t.consts /\ u.pool = t.pool /\ u.seen = t.seen /\ u.count = t.count
  BY <1>1 DEF TSok
<1>3. u = [lines |-> u.lines, tmp |-> u.tmp, label |-> u.label, consts |-> u.consts,
           pool |-> u.pool, seen |-> u.seen, count |-> u.count]
  BY <1>1 DEF TSok
<1> QED BY <1>2, <1>3 DEF TSok

(* The literal v is new, and was put at the end of its pool. *)
Entered(t, u, q, v) ==
  LET key == KeyOf(q, v) IN
  /\ key \notin DOMAIN t.seen[q]
  /\ u.pool[q] = Append(t.pool[q], v) /\ u.count[q] = t.count[q] + 1
  /\ \A r \in Pools : r # q => /\ u.pool[r] = t.pool[r] /\ u.count[r] = t.count[r]
                               /\ u.seen[r] = t.seen[r]
  /\ DOMAIN u.seen[q] = DOMAIN t.seen[q] \cup {key}
  /\ u.seen[q][key] = t.count[q]
  /\ \A k \in DOMAIN t.seen[q] : u.seen[q][k] = t.seen[q][k]

(* A literal is where it was, or it is put at the end of its pool. *)
LEMMA InternIs ==
  ASSUME NEW t, TSok(t), NEW q \in Pools, NEW v \in Vals, NEW u, u = Intern(t, q, v)
  PROVE  /\ TSok(u) /\ u.lines = t.lines /\ u.tmp = t.tmp /\ u.label = t.label
         /\ u.consts = t.consts
         /\ KeyOf(q, v) \in DOMAIN u.seen[q]
         /\ u = t \/ Entered(t, u, q, v)
<1> DEFINE key == KeyOf(q, v)
<1>1. CASE key \in DOMAIN t.seen[q]
  BY <1>1 DEF Intern
<1>2. CASE key \notin DOMAIN t.seen[q]
  <2> DEFINE m == Put(t.seen[q], key, t.count[q])
  <2>1. u = [t EXCEPT !.pool[q]  = Append(@, v), !.seen[q] = m, !.count[q] = @ + 1]
    BY <1>2 DEF Intern
  <2>2. /\ DOMAIN m = DOMAIN t.seen[q] \cup {key} /\ m[key] = t.count[q]
        /\ \A k \in DOMAIN t.seen[q] : m[k] = t.seen[q][k]
    BY <1>2 DEF Put
  <2> HIDE DEF m, key
  <2>3. /\ u.lines = t.lines /\ u.tmp = t.tmp /\ u.label = t.label
        /\ u.consts = t.consts
        /\ u.pool = [t.pool EXCEPT ![q] = Append(@, v)]
        /\ u.seen = [t.seen EXCEPT ![q] = m]
        /\ u.count = [t.count EXCEPT ![q] = @ + 1]
    BY <2>1 DEF TSok
  <2>4. u = [lines |-> u.lines, tmp |-> u.tmp, label |-> u.label, consts |-> u.consts,
             pool |-> u.pool, seen |-> u.seen, count |-> u.count]
    BY <2>1 DEF TSok
  <2>5. u.pool \in [Pools -> Seq(Vals)]
    <3>1. t.pool \in [Pools -> Seq(Vals)] /\ t.pool[q] \in Seq(Vals)
      BY DEF TSok
    <3>2. Append(t.pool[q], v) \in Seq(Vals)
      BY <3>1
    <3> QED BY <2>3, <3>1, <3>2
  <2>6. u.count \in [Pools -> Nat] /\ \A r \in Pools : u.count[r] >= t.count[r]
    <3>1. t.count \in [Pools -> Nat]
      BY DEF TSok
    <3> QED BY <2>3, <3>1
  <2>7. /\ u.seen[q] = m /\ \A r \in Pools : r # q => u.seen[r] = t.seen[r]
        /\ u.seen = [r \in Pools |-> u.seen[r]]
    <3>1. t.seen = [r \in Pools |-> t.seen[r]]
      BY DEF TSok
    <3> QED BY <2>3, <3>1
  <2>8. ASSUME NEW r \in Pools, NEW k \in DOMAIN u.seen[r]
        PROVE  u.seen[r][k] \in Nat /\ u.seen[r][k] < u.count[r]
    <3>0. t.count \in [Pools -> Nat] /\ u.count[q] = t.count[q] + 1
      BY <2>3 DEF TSok
    <3>1. CASE r # q
      BY <2>3, <2>7, <2>8, <3>1 DEF TSok
    <3>2. CASE r = q /\ k = key
      BY <2>2, <2>7, <3>0, <3>2
    <3>3. CASE r = q /\ k # key
      <4>1. k \in DOMAIN t.seen[q] /\ u.seen[r][k] = t.seen[q][k]
        BY <2>2, <2>7, <2>8, <3>3
      <4>2. t.seen[q][k] \in Nat /\ t.seen[q][k] < t.count[q]
        BY <4>1 DEF TSok
      <4> QED BY <3>0, <3>3, <4>1, <4>2
    <3> QED BY <3>1, <3>2, <3>3
  <2>9. TSok(u)
    BY <2>3, <2>4, <2>5, <2>6, <2>7, <2>8 DEF TSok
  <2>10. /\ u.pool[q] = Append(t.pool[q], v) /\ u.count[q] = t.count[q] + 1
         /\ \A r \in Pools : r # q => u.pool[r] = t.pool[r] /\ u.count[r] = t.count[r]
    <3>1. t.pool \in [Pools -> Seq(Vals)] /\ t.count \in [Pools -> Nat]
      BY DEF TSok
    <3> QED BY <2>3, <3>1
  <2> QED BY <1>2, <2>2, <2>3, <2>7, <2>9, <2>10 DEF key, Entered
<1> QED BY <1>1, <1>2

(***************************************************************************)
(* One more line.                                                          *)
(***************************************************************************)
Grown(s, l, r) == s \in Seq(LineSet) /\ l \in LineSet /\ r = s \o <<l>>

(* What is said of the lines that are there is not changed by one more. *)
LEMMA OneMore ==
  ASSUME NEW s, NEW l, NEW r, Grown(s, l, r)
  PROVE  /\ r \in Seq(LineSet) /\ Len(r) = Len(s) + 1 /\ Len(s) \in Nat
         /\ r[Len(s) + 1] = l
         /\ \A i \in 1..Len(s) : r[i] = s[i]
         /\ \A j, i \in 1..Len(s) : NoFunc(r, j, i) <=> NoFunc(s, j, i)
         /\ \A j \in 1..Len(s) : \A a : Defines(r, j, a) <=> Defines(s, j, a)
         /\ \A j \in 1..Len(s) : \A n : Writes(r, j, n) <=> Writes(s, j, n)
         /\ NoFunc(r, Len(r), Len(r))
         /\ l.op # "FUNC" => \A j \in 1..Len(s) :
                               NoFunc(r, j, Len(s) + 1) <=> NoFunc(s, j, Len(s))
<1>1. /\ r \in Seq(LineSet) /\ Len(r) = Len(s) + 1 /\ Len(s) \in Nat
      /\ r[Len(s) + 1] = l
      /\ \A i \in 1..Len(s) : r[i] = s[i]
  BY DEF Grown
<1>2. \A j, i \in 1..Len(s) : NoFunc(r, j, i) <=> NoFunc(s, j, i)
  <2>1. ASSUME NEW j \in 1..Len(s), NEW i \in 1..Len(s)
        PROVE  NoFunc(r, j, i) <=> NoFunc(s, j, i)
    <3>1. \A k \in (j + 1)..i : r[k] = s[k]
      BY <1>1
    <3> QED BY <3>1 DEF NoFunc
  <2> QED BY <2>1
<1>3. /\ \A j \in 1..Len(s) : \A a : Defines(r, j, a) <=> Defines(s, j, a)
      /\ \A j \in 1..Len(s) : \A n : Writes(r, j, n) <=> Writes(s, j, n)
  BY <1>1 DEF Defines, Writes
<1>4. NoFunc(r, Len(r), Len(r))
  BY <1>1 DEF NoFunc
<1>5. ASSUME l.op # "FUNC", NEW j \in 1..Len(s)
      PROVE  NoFunc(r, j, Len(s) + 1) <=> NoFunc(s, j, Len(s))
  <2>1. \A k \in (j + 1)..(Len(s) + 1) : k \in (j + 1)..Len(s) \/ k = Len(s) + 1
    BY <1>1, <1>5
  <2>2. \A k \in (j + 1)..Len(s) : k \in (j + 1)..(Len(s) + 1) /\ r[k] = s[k]
    BY <1>1, <1>5
  <2> QED BY <1>1, <1>5, <2>1, <2>2 DEF NoFunc
<1> QED BY <1>1, <1>2, <1>3, <1>4, <1>5

(* What waits is still written after another line, and can be read by it. *)
LEMMA StaysCurrent ==
  ASSUME NEW s, NEW l, NEW r, Grown(s, l, r), l.op # "FUNC",
         NEW a, Current(s, a)
  PROVE  Current(r, a) /\ Backed(r, a, Len(s) + 1)
<1>0. SUFFICES ASSUME a.type \in Kept PROVE Current(r, a) /\ Backed(r, a, Len(s) + 1)
  BY DEF Current, Backed
<1>1. PICK j \in 1..Len(s) : Defines(s, j, a) /\ NoFunc(s, j, Len(s))
  BY <1>0 DEF Current
<1>2. Defines(r, j, a) /\ NoFunc(r, j, Len(s) + 1) /\ Len(r) = Len(s) + 1 /\ Len(s) \in Nat
  BY <1>1, OneMore
<1>3. j \in 1..Len(r) /\ j \in 1..((Len(s) + 1) - 1)
  BY <1>2
<1> QED BY <1>2, <1>3 DEF Current, Backed

(* A line that reads what waits leaves all lines reading what was written. *)
LEMMA BackedMore ==
  ASSUME NEW s, NEW l, NEW r, Grown(s, l, r), l.op # "FUNC",
         AllBacked(s), Current(s, l.middle), Current(s, l.right),
         l.op \in Readers => Current(s, l.left)
  PROVE  AllBacked(r)
<1>1. /\ Len(r) = Len(s) + 1 /\ Len(s) \in Nat /\ r[Len(s) + 1] = l
      /\ \A i \in 1..Len(s) : r[i] = s[i]
  BY OneMore
<1>2. ASSUME NEW i \in 1..Len(s), NEW a, Backed(s, a, i) PROVE Backed(r, a, i)
  <2>0. SUFFICES ASSUME a.type \in Kept PROVE Backed(r, a, i)
    BY DEF Backed
  <2>1. PICK j \in 1..(i - 1) : Defines(s, j, a) /\ NoFunc(s, j, i)
    BY <1>2, <2>0 DEF Backed
  <2>2. j \in 1..Len(s)
    BY <1>1, <1>2
  <2>3. Defines(r, j, a) /\ NoFunc(r, j, i)
    BY <1>2, <2>1, <2>2, OneMore
  <2> QED BY <2>3 DEF Backed
<1>3. ASSUME NEW i \in 1..Len(s)
      PROVE  /\ Backed(r, r[i].middle, i) /\ Backed(r, r[i].right, i)
             /\ r[i].op \in Readers => Backed(r, r[i].left, i)
  BY <1>1, <1>2, <1>3 DEF AllBacked
<1>4. /\ Backed(r, l.middle, Len(s) + 1) /\ Backed(r, l.right, Len(s) + 1)
      /\ l.op \in Readers => Backed(r, l.left, Len(s) + 1)
  BY StaysCurrent
<1>5. \A i \in 1..Len(r) : i \in 1..Len(s) \/ i = Len(s) + 1
  BY <1>1
<1> QED BY <1>1, <1>3, <1>4, <1>5 DEF AllBacked

(* Temporaries that are taken and not written may be written, once. *)
LEMMA NumberedMore ==
  ASSUME NEW t, NEW u, NEW l, Grown(t.lines, l, u.lines), u.tmp = t.tmp, l.op # "FUNC",
         NEW P, Numbered(t, P), NEW Q, Q \subseteq P,
         l.op \notin Readers /\ l.left.type = "TMP"
           => l.left.n \notin Q /\ (l.left.n \in P \/ Current(t.lines, l.left))
  PROVE  Numbered(u, Q)
<1> DEFINE s == t.lines
           r == u.lines
<1>1. /\ r \in Seq(LineSet) /\ Len(r) = Len(s) + 1 /\ Len(s) \in Nat /\ r[Len(s) + 1] = l
      /\ \A i \in 1..Len(s) : r[i] = s[i]
      /\ \A j \in 1..Len(s) : \A n : Writes(r, j, n) <=> Writes(s, j, n)
      /\ \A j \in 1..Len(s) : NoFunc(r, j, Len(s) + 1) <=> NoFunc(s, j, Len(s))
  BY OneMore
<1>2. ASSUME NEW j \in 1..Len(s), Writes(r, j, r[j].left.n), NoFunc(r, j, Len(r))
      PROVE  r[j].left.n < u.tmp /\ r[j].left.n \notin Q
  BY <1>1, <1>2 DEF Numbered
<1>3. ASSUME Writes(r, Len(s) + 1, l.left.n) PROVE l.left.n < u.tmp /\ l.left.n \notin Q
  <2>1. l.op \notin Readers /\ l.left.type = "TMP"
    BY <1>1, <1>3 DEF Writes
  <2>2. CASE l.left.n \in P
    BY <2>1, <2>2 DEF Numbered
  <2>3. CASE Current(s, l.left)
    <3>1. PICK j \in 1..Len(s) : Defines(s, j, l.left) /\ NoFunc(s, j, Len(s))
      BY <2>1, <2>3 DEF Current, Kept
    <3>2. Writes(s, j, s[j].left.n) /\ s[j].left.n = l.left.n
      BY <2>1, <3>1 DEF Defines, Writes
    <3> QED BY <2>1, <3>1, <3>2 DEF Numbered
  <2> QED BY <2>1, <2>2, <2>3
<1>4. \A j \in 1..Len(r) : j \in 1..Len(s) \/ j = Len(s) + 1
  BY <1>1
<1>5. \A n \in Q : n \in Nat /\ n < u.tmp
  BY DEF Numbered
<1> QED BY <1>1, <1>2, <1>3, <1>4, <1>5 DEF Numbered

(* A line that writes a temporary that was taken and not written. *)
LEMMA WrittenMore ==
  ASSUME NEW s, NEW l, NEW r, Grown(s, l, r), l.op # "FUNC",
         WrittenOnce(s),
         l.op \notin Readers /\ l.left.type = "TMP" =>
           \A j \in 1..Len(s) : Writes(s, j, l.left.n) => ~NoFunc(s, j, Len(s))
  PROVE  WrittenOnce(r)
<1>1. /\ Len(r) = Len(s) + 1 /\ Len(s) \in Nat /\ r[Len(s) + 1] = l
      /\ \A i \in 1..Len(s) : r[i] = s[i]
      /\ \A j \in 1..Len(s) : \A n : Writes(r, j, n) <=> Writes(s, j, n)
      /\ \A j \in 1..Len(s) : NoFunc(r, j, Len(s) + 1) <=> NoFunc(s, j, Len(s))
      /\ \A j, i \in 1..Len(s) : NoFunc(r, j, i) <=> NoFunc(s, j, i)
  BY OneMore
<1>2. ASSUME NEW j \in 1..Len(r), NEW k \in 1..Len(r), j < k,
             Writes(r, j, r[k].left.n), Writes(r, k, r[k].left.n)
      PROVE  ~NoFunc(r, j, k)
  <2>1. j \in 1..Len(s)
    BY <1>1, <1>2
  <2>2. CASE k \in 1..Len(s)
    BY <1>1, <1>2, <2>1, <2>2 DEF WrittenOnce
  <2>3. CASE k = Len(s) + 1
    <3>1. l.op \notin Readers /\ l.left.type = "TMP" /\ Writes(s, j, l.left.n)
      BY <1>1, <1>2, <2>1, <2>3 DEF Writes
    <3> QED BY <1>1, <2>1, <2>3, <3>1
  <2> QED BY <1>1, <1>2, <2>2, <2>3
<1> QED BY <1>2 DEF WrittenOnce

(***************************************************************************)
(* The three operations keep what is good.                                 *)
(***************************************************************************)
(* A line that may be added, where P are the temporaries not yet written. *)
Addable(t, l, P, us) ==
  /\ l \in LineSet /\ l.op # "FUNC"
  /\ Has(t, l.middle) /\ Has(t, l.right)
  /\ l.op \in Readers => Has(t, l.left)
  /\ LitOK(t, l.left)
  /\ l.op \notin Readers /\ l.left.type = "TMP" =>
       l.left.n \in P \/ (Current(t.lines, l.left) /\ "elemupdate" \in us)
Emit1(t, l) == Emit(t, <<l>>)
(* The temporaries in Q are not written by the line. *)
Spares(l, Q) == l.op \notin Readers /\ l.left.type = "TMP" => l.left.n \notin Q

(* Literals are only looked up in what no line changes. *)
LEMMA SamePools ==
  ASSUME NEW t, NEW u, u.pool = t.pool, u.consts = t.consts, NEW a
  PROVE  LitOK(u, a) <=> LitOK(t, a)
BY DEF LitOK, RealFree, At

(* Adding a line keeps what is good; what it writes may be read from then on. *)
LEMMA Emits ==
  ASSUME NEW t, NEW P, NEW us, Good(t, P, us), NEW l, Addable(t, l, P, us),
         NEW u, u = Emit1(t, l), NEW Q, Q \subseteq P, Spares(l, Q)
  PROVE  /\ Good(u, Q, us) /\ Keeps(t, u) /\ Longer(t, u)
         /\ Grown(t.lines, l, u.lines) /\ u.label = t.label
         /\ l.op \notin Loud => Quiet(t, u)
         /\ l.op \notin Readers => Has(u, l.left)
<1>0. TSok(t) /\ t.lines \in Seq(LineSet) /\ l \in LineSet /\ l.op # "FUNC"
  BY DEF Good, Sound, TSok, Addable
<1> DEFINE new == <<l>>
<1>a. new \in Seq(LineSet) /\ u = Emit(t, new)
  BY <1>0 DEF Emit1
<1> HIDE DEF new
<1>c. /\ TSok(u) /\ u.lines = t.lines \o new /\ u.tmp = t.tmp /\ u.label = t.label
      /\ u.consts = t.consts /\ u.pool = t.pool /\ u.seen = t.seen /\ u.count = t.count
  BY <1>0, <1>a, EmitIs
<1>1. /\ TSok(u) /\ u.lines = t.lines \o <<l>> /\ u.tmp = t.tmp /\ u.label = t.label
      /\ u.consts = t.consts /\ u.pool = t.pool /\ u.seen = t.seen /\ u.count = t.count
  BY <1>c DEF new
<1>d. Grown(t.lines, l, u.lines)
  BY <1>0, <1>1 DEF Grown
<1>2. \A a : LitOK(u, a) <=> LitOK(t, a)
  BY <1>1, SamePools
<1>3. Keeps(t, u)
  <2>1. \A a : Current(t.lines, a) => Current(u.lines, a)
    BY <1>0, <1>d, StaysCurrent
  <2> QED BY <1>2, <2>1 DEF Keeps, Has
<1>4. AllBacked(u.lines)
  BY <1>0, <1>d, BackedMore DEF Good, Sound, Addable, Has
<1>b. /\ Len(u.lines) = Len(t.lines) + 1 /\ Len(t.lines) \in Nat
      /\ u.lines[Len(t.lines) + 1] = l
      /\ \A i \in 1..Len(t.lines) : u.lines[i] = t.lines[i]
      /\ NoFunc(u.lines, Len(u.lines), Len(u.lines))
  BY <1>d, OneMore
<1>5. LinesOK(u)
  <2>1. LitOK(t, l.left) /\ LitOK(t, l.middle) /\ LitOK(t, l.right)
    BY DEF Addable, Has
  <2>2. \A i \in 1..Len(u.lines) : i \in 1..Len(t.lines) \/ i = Len(t.lines) + 1
    BY <1>b
  <2>3. LinesOK(t)
    BY DEF Good, Sound
  <2> QED BY <1>2, <1>b, <2>1, <2>2, <2>3 DEF LinesOK
<1>6. Pooled(u)
  BY <1>1 DEF Good, Sound, Pooled, RealFree, At
<1>7. Numbered(u, Q)
  BY <1>0, <1>1, <1>d, NumberedMore DEF Good, Addable, Spares
<1>8. ASSUME "elemupdate" \notin us PROVE WrittenOnce(u.lines)
  <2>1. WrittenOnce(t.lines)
    BY <1>8 DEF Good, Sound
  <2>2. ASSUME l.op \notin Readers, l.left.type = "TMP",
               NEW j \in 1..Len(t.lines), Writes(t.lines, j, l.left.n)
        PROVE  ~NoFunc(t.lines, j, Len(t.lines))
    <3>1. l.left.n \in P
      BY <1>8, <2>2 DEF Addable
    <3>2. Writes(t.lines, j, t.lines[j].left.n) /\ t.lines[j].left.n = l.left.n
      BY <2>2 DEF Writes
    <3> QED BY <3>1, <3>2 DEF Good, Numbered
  <2> QED BY <1>0, <1>d, <2>1, <2>2, WrittenMore
<1>9. Longer(t, u)
  BY <1>b DEF Longer
<1>10. l.op \notin Loud => Quiet(t, u)
  <2>1. \A i \in (Len(t.lines) + 1)..Len(u.lines) : i = Len(t.lines) + 1
    BY <1>b
  <2> QED BY <1>1, <1>9, <1>b, <2>1 DEF Quiet, Loud
<1>11. ASSUME l.op \notin Readers PROVE Has(u, l.left)
  <2>1. Defines(u.lines, Len(u.lines), l.left)
    BY <1>b, <1>11 DEF Defines
  <2>2. Len(u.lines) \in 1..Len(u.lines)
    BY <1>b
  <2>3. Current(u.lines, l.left)
    BY <1>b, <2>1, <2>2 DEF Current
  <2>4. LitOK(u, l.left)
    BY <1>2 DEF Addable
  <2> QED BY <1>0, <2>3, <2>4 DEF Has, LineSet
<1> QED BY <1>1, <1>d, <1>3, <1>4, <1>5, <1>6, <1>7, <1>8, <1>9, <1>10, <1>11 DEF Good, Sound

(* Taking a temporary keeps what is good, and is one more to be written. *)
LEMMA Takes ==
  ASSUME NEW t, NEW P, NEW us, Good(t, P, us), NEW u, u = TookTmp(t)
  PROVE  /\ Good(u, P \cup {t.tmp}, us) /\ Keeps(t, u) /\ Quiet(t, u)
         /\ t.tmp \notin P /\ t.tmp \in Nat /\ u.lines = t.lines
<1>1. /\ TSok(u) /\ u.lines = t.lines /\ u.tmp = t.tmp + 1 /\ u.label = t.label
      /\ u.consts = t.consts /\ u.pool = t.pool /\ u.seen = t.seen /\ u.count = t.count
  BY TmpIs DEF Good, Sound
<1>2. \A a : LitOK(u, a) <=> LitOK(t, a)
  BY <1>1, SamePools
<1>3. t.tmp \in Nat /\ Len(t.lines) \in Nat /\ t.lines \in Seq(LineSet)
  BY DEF Good, Sound, TSok
<1>4. Numbered(u, P \cup {t.tmp})
  <2>1. \A n \in P \cup {t.tmp} : n \in Nat /\ n < u.tmp
    BY <1>1, <1>3 DEF Good, Numbered
  <2>2. ASSUME NEW j \in 1..Len(u.lines), Writes(u.lines, j, u.lines[j].left.n),
               NoFunc(u.lines, j, Len(u.lines))
        PROVE  u.lines[j].left.n < u.tmp /\ u.lines[j].left.n \notin P \cup {t.tmp}
    <3> DEFINE n == t.lines[j].left.n
    <3>1. n < t.tmp /\ n \notin P
      BY <1>1, <2>2 DEF Good, Numbered
    <3>2. n \in Nat
      <4>1. t.lines[j] \in LineSet
        BY <1>1, <1>3, <2>2
      <4> QED BY <4>1 DEF LineSet, Adrs
    <3>3. u.lines[j].left.n = n
      BY <1>1
    <3> HIDE DEF n
    <3>4. n < u.tmp /\ n # t.tmp
      BY <1>1, <1>3, <3>1, <3>2
    <3> QED BY <3>1, <3>3, <3>4
  <2> QED BY <2>1, <2>2 DEF Numbered
<1>5. LinesOK(u) /\ Pooled(u)
  BY <1>1, <1>2 DEF Good, Sound, LinesOK, Pooled, RealFree, At
<1>6. Sound(u, us)
  BY <1>1, <1>5 DEF Good, Sound
<1>7. Keeps(t, u)
  BY <1>1, <1>2 DEF Keeps, Has
<1>8. Quiet(t, u)
  BY <1>1, <1>3 DEF Quiet, Longer
<1>9. t.tmp \notin P
  BY <1>3 DEF Good, Numbered
<1> QED BY <1>1, <1>3, <1>4, <1>6, <1>7, <1>8, <1>9 DEF Good

(* Fewer temporaries to be written is no harm. *)
LEMMA Fewer ==
  ASSUME NEW t, NEW P, NEW us, Good(t, P, us), NEW Q, Q \subseteq P
  PROVE  Good(t, Q, us)
BY DEF Good, Numbered

(* Entering a literal keeps what is good, and its address leads to it. *)
LEMMA Interns ==
  ASSUME NEW t, NEW us, Sound(t, us), NEW q \in Pools, NEW v \in Vals,
         NEW u, u = Intern(t, q, v)
  PROVE  /\ Sound(u, us) /\ Keeps(t, u) /\ Quiet(t, u)
         /\ Has(u, AdrOf(t, q, v))
         /\ AdrOf(t, q, v).type \in {"ILIT", "FLIT", "STR"}
         /\ AdrOf(t, q, v).ty = q
         /\ u.lines = t.lines /\ u.tmp = t.tmp
         /\ \A P : Good(t, P, us) => Good(u, P, us)
<1> DEFINE key == KeyOf(q, v)
<1>0. TSok(t) /\ t.lines \in Seq(LineSet) /\ Len(t.lines) \in Nat
  BY DEF Sound, TSok
<1>1. /\ TSok(u) /\ u.lines = t.lines /\ u.tmp = t.tmp /\ u.label = t.label
      /\ u.consts = t.consts /\ key \in DOMAIN u.seen[q]
      /\ u = t \/ Entered(t, u, q, v)
  BY <1>0, InternIs
<1>2. Quiet(t, u)
  BY <1>0, <1>1 DEF Quiet, Longer
<1>a. RealFree(u) <=> RealFree(t)
  BY <1>1 DEF RealFree
<1>b. /\ t.pool \in [Pools -> Seq(Vals)] /\ t.count \in [Pools -> Nat]
      /\ t.pool[q] \in Seq(Vals) /\ Len(t.pool[q]) \in Nat
  BY <1>0 DEF TSok
<1>3. ASSUME NEW r \in Pools, NEW n \in Nat, NEW w, At(t, r, n, w) PROVE At(u, r, n, w)
  <2>1. CASE u = t
    BY <1>3, <2>1
  <2>2. CASE Entered(t, u, q, v)
    <3>1. CASE r = q
      <4>1. u.pool[r] = Append(t.pool[r], v)
        BY <2>2, <3>1 DEF Entered
      <4>2. n + 1 \in 1..Len(t.pool[r]) /\ t.pool[r] \in Seq(Vals)
        BY <1>3, <1>b, <3>1 DEF At
      <4>3. u.pool[r][n + 1] = t.pool[r][n + 1] /\ Len(u.pool[r]) = Len(t.pool[r]) + 1
        BY <4>1, <4>2
      <4> QED BY <1>3, <1>b, <3>1, <4>2, <4>3 DEF At
    <3>2. CASE r # q
      BY <1>3, <2>2, <3>2 DEF At, Entered
    <3> QED BY <3>1, <3>2
  <2> QED BY <1>1, <2>1, <2>2
<1>4. \A a : a \in Adrs /\ LitOK(t, a) => LitOK(u, a)
  <2>1. ASSUME NEW a, a \in Adrs, LitOK(t, a), RealFree(u), a.type \in {"ILIT", "FLIT", "STR"}
        PROVE  At(u, PoolOf(a.type), a.n, a.val)
    <3>1. PoolOf(a.type) \in Pools /\ a.n \in Nat
      BY <2>1 DEF PoolOf, Pools, Adrs
    <3>2. At(t, PoolOf(a.type), a.n, a.val)
      BY <1>a, <2>1 DEF LitOK
    <3> QED BY <1>3, <3>1, <3>2
  <2> QED BY <2>1 DEF LitOK
<1>5. Keeps(t, u)
  BY <1>1, <1>4 DEF Keeps, Has
<1>6. LinesOK(u)
  <2>1. \A i \in 1..Len(t.lines) : /\ t.lines[i].left \in Adrs /\ t.lines[i].middle \in Adrs
                                   /\ t.lines[i].right \in Adrs
    <3>1. \A i \in 1..Len(t.lines) : t.lines[i] \in LineSet
      BY <1>0
    <3> QED BY <3>1 DEF LineSet
  <2> QED BY <1>1, <1>4, <2>1 DEF Sound, LinesOK
<1>7. Pooled(u)
  <2>0. SUFFICES ASSUME RealFree(u) PROVE Pooled(u)
    BY DEF Pooled
  <2>1. /\ \A r \in Pools : /\ Len(t.pool[r]) = t.count[r]
                            /\ \A k \in DOMAIN t.seen[r] :
                                 KeyOf(r, t.pool[r][t.seen[r][k] + 1]) = k
        /\ \A c \in DOMAIN t.consts : At(t, c[1], t.consts[c], c[2])
    BY <1>a, <2>0 DEF Sound, Pooled
  <2>2. \A c \in DOMAIN u.consts : At(u, c[1], u.consts[c], c[2])
    <3>1. ASSUME NEW c \in DOMAIN t.consts PROVE At(u, c[1], t.consts[c], c[2])
      <4>1. c[1] \in Pools /\ t.consts[c] \in Nat
        BY <1>0, <3>1 DEF TSok, Pools
      <4> QED BY <1>3, <2>1, <4>1
    <3> QED BY <1>1, <3>1
  <2>3. CASE u = t
    BY <2>1, <2>3 DEF Pooled
  <2>4. CASE Entered(t, u, q, v)
    <3>1. /\ u.pool[q] = Append(t.pool[q], v) /\ Len(u.pool[q]) = Len(t.pool[q]) + 1
          /\ u.count[q] = t.count[q] + 1
          /\ \A m \in 1..Len(t.pool[q]) : u.pool[q][m] = t.pool[q][m]
          /\ u.pool[q][Len(t.pool[q]) + 1] = v
      BY <1>b, <2>4 DEF Entered
    <3>2. ASSUME NEW k \in DOMAIN u.seen[q]
          PROVE  KeyOf(q, u.pool[q][u.seen[q][k] + 1]) = k
      <4>1. CASE k = key
        <5>1. u.seen[q][k] + 1 = Len(t.pool[q]) + 1
          BY <2>1, <2>4, <4>1 DEF Entered
        <5> QED BY <3>1, <4>1, <5>1
      <4>2. CASE k \in DOMAIN t.seen[q]
        <5>1. /\ t.seen[q][k] \in Nat /\ t.seen[q][k] < t.count[q]
              /\ Len(t.pool[q]) = t.count[q] /\ u.seen[q][k] = t.seen[q][k]
          BY <1>0, <2>1, <2>4, <4>2 DEF TSok, Entered
        <5>2. t.seen[q][k] + 1 \in 1..Len(t.pool[q])
          BY <1>b, <5>1
        <5> QED BY <2>1, <3>1, <4>2, <5>1, <5>2
      <4> QED BY <2>4, <4>1, <4>2 DEF Entered
    <3>3. ASSUME NEW r \in Pools, r # q
          PROVE  u.pool[r] = t.pool[r] /\ u.count[r] = t.count[r] /\ u.seen[r] = t.seen[r]
      BY <2>4, <3>3 DEF Entered
    <3>4. ASSUME NEW r \in Pools
          PROVE  /\ Len(u.pool[r]) = u.count[r]
                 /\ \A k \in DOMAIN u.seen[r] : KeyOf(r, u.pool[r][u.seen[r][k] + 1]) = k
      <4>1. CASE r = q
        BY <2>1, <3>1, <3>2, <4>1
      <4>2. CASE r # q
        BY <2>1, <3>3, <4>2
      <4> QED BY <4>1, <4>2
    <3> QED BY <2>2, <3>4 DEF Pooled
  <2> QED BY <1>1, <2>3, <2>4
<1>8. Sound(u, us)
  BY <1>1, <1>6, <1>7 DEF Sound
<1>9. /\ Has(u, AdrOf(t, q, v)) /\ AdrOf(t, q, v).type \in {"ILIT", "FLIT", "STR"}
      /\ AdrOf(t, q, v).ty = q
  <2> DEFINE n == u.seen[q][key]
             a == Adr(LitType(q), n, q, v)
  <2>1. n \in Nat /\ n < u.count[q]
    BY <1>1 DEF TSok
  <2>2. AdrOf(t, q, v) = a
    BY DEF AdrOf
  <2>3. LitType(q) \in AdrTypes /\ LitType(q) \in {"ILIT", "FLIT", "STR"} /\ q \in Types
        /\ PoolOf(LitType(q)) = q
    BY DEF LitType, AdrTypes, Types, Pools, PoolOf
  <2> HIDE DEF n
  <2>4. a \in Adrs /\ a.type = LitType(q) /\ a.n = n /\ a.val = v /\ a.ty = q
    BY <2>1, <2>3, AdrIs
  <2> HIDE DEF a
  <2>5. Current(u.lines, a)
    BY <2>3, <2>4 DEF Current, Kept
  <2>6. LitOK(u, a)
    <3>1. ASSUME RealFree(u) PROVE At(u, q, n, v)
      <4>1. Len(u.pool[q]) = u.count[q] /\ KeyOf(q, u.pool[q][u.seen[q][key] + 1]) = key
        BY <1>1, <1>7, <3>1 DEF Pooled
      <4> QED BY <2>1, <4>1 DEF At, n
    <3> QED BY <2>3, <2>4, <3>1 DEF LitOK
  <2> QED BY <2>2, <2>3, <2>4, <2>5, <2>6 DEF Has
<1>10. ASSUME NEW P, Good(t, P, us) PROVE Good(u, P, us)
  BY <1>1, <1>8, <1>10 DEF Good, Numbered
<1> QED BY <1>1, <1>2, <1>5, <1>8, <1>9, <1>10

(* What is kept, longer and quiet stays so over several operations. *)
LEMMA Chains ==
  /\ \A t, u, w : Keeps(t, u) /\ Keeps(u, w) => Keeps(t, w)
  /\ \A t : Keeps(t, t)
<1>1. \A t, u, w : Keeps(t, u) /\ Keeps(u, w) => Keeps(t, w)
  BY DEF Keeps
<1> QED BY <1>1 DEF Keeps

(* So is what no label, branch, argument or function was added to. *)
LEMMA QuietChain ==
  ASSUME NEW t, NEW u, NEW w, TSok(t), TSok(u), TSok(w), Quiet(t, u), Quiet(u, w)
  PROVE  Quiet(t, w)
<1>1. Len(t.lines) \in Nat /\ Len(u.lines) \in Nat /\ Len(w.lines) \in Nat
  BY DEF TSok
<1>2. Longer(t, w)
  BY <1>1, SMTT(30) DEF Quiet, Longer
<1>3. ASSUME NEW i \in (Len(t.lines) + 1)..Len(w.lines)
      PROVE  w.lines[i].op \notin {"FUNC", "PARAM", "LABEL", "GOTO", "GOTOF"}
  <2>1. CASE i <= Len(u.lines)
    BY <1>1, <1>3, <2>1, SMTT(30) DEF Quiet, Longer
  <2>2. CASE i > Len(u.lines)
    BY <1>1, <1>3, <2>2, SMTT(30) DEF Quiet
  <2> QED BY <1>1, <1>3, <2>1, <2>2
<1> QED BY <1>2, <1>3 DEF Quiet

(***************************************************************************)
(* The call stack.                                                         *)
(***************************************************************************)
(* The frame on top gets further, as far as branches and results go. *)
Alike(f, g) ==
  /\ g.k = f.k /\ g.name = f.name /\ g.out = f.out /\ g.labs = f.labs /\ g.owe = f.owe
  /\ g.begin = f.begin /\ g.field = f.field
  /\ g.want = "stats" => f.want = "stats"
  /\ g.k = "update" => g.tys = f.tys

(* No construct with labels comes, goes or takes part. *)
SameFlow(fs, gs) ==
  /\ \A i \in 1..Len(gs) : gs[i].k \in FlowKinds => i <= Len(fs) /\ Alike(fs[i], gs[i])
  /\ \A i \in 1..Len(fs) : fs[i].k \in FlowKinds =>
       i <= Len(gs) /\ gs[i].k = fs[i].k /\ gs[i].owe = fs[i].owe

(* gs is fs with g for its top. *)
Topped(fs, g, gs) == gs = [fs EXCEPT ![Len(fs)] = g]
Pushed(fs, g, gs) == gs = Append(fs, g)
(* What the frame has may be used. *)
HasAll(u, f) == \A m \in 1..Len(f.adrs) : Has(u, f.adrs[m])
(* The temporaries in P, and the one the frame is to give, or without it. *)
OutOf(f)      == IF f.out.type = "TMP" THEN {f.out.n} ELSE {}
With(P, f)    == P \cup OutOf(f)
Without(P, f) == P \ OutOf(f)

(* The rest of what Framed says of a stack, for T_Ss that keep what waits. *)
LEMMA FramedKeeps ==
  ASSUME NEW t, NEW u, NEW fs, NEW us, TSok(t), TSok(u),
         Framed(t, fs, us), Keeps(t, u), Longer(t, u)
  PROVE  Framed(u, fs, us)
<1>1. \A i \in 1..Len(fs) : \A m \in 1..Len(fs[i].adrs) : Has(u, fs[i].adrs[m])
  BY DEF Framed, Keeps
<1>2. fs # <<>> => u.lines # <<>>
  <2>1. SUFFICES ASSUME fs # <<>> PROVE Len(u.lines) # 0
    BY DEF TSok
  <2>2. Len(t.lines) # 0 /\ Len(t.lines) \in Nat /\ Len(u.lines) \in Nat
    BY <2>1 DEF Framed, TSok
  <2> QED BY <2>2 DEF Longer
<1>3. fs # <<>> /\ (fs[1].name = "main" \/ "locals" \in us) => \A i \in 1..3 : Has(u, VarAdr(i))
  BY DEF Framed, Keeps
<1> QED BY <1>1, <1>2, <1>3 DEF Framed

(* The results of a stack are those of its frames. *)
LEMMA OutsAre ==
  ASSUME NEW fs
  PROVE  \A n : n \in Outs(fs) <=>
                  \E i \in 1..Len(fs) : fs[i].out.type = "TMP" /\ fs[i].out.n = n
BY DEF Outs

(* The frame on top goes on with something else. *)
Like(f, g) ==
  g.k = f.k /\ g.name = f.name /\ g.out = f.out /\ (g.k = "update" => g.tys = f.tys)

(* Another frame on top in the place of one like it. *)
LEMMA FramedTop ==
  ASSUME NEW u, NEW us, NEW fs, Framed(u, fs, us), fs # <<>>,
         NEW g \in FrameSet, Shaped(g), Like(Last(fs), g),
         HasAll(u, g),
         NEW gs, Topped(fs, g, gs)
  PROVE  /\ Framed(u, gs, us) /\ Outs(gs) = Outs(fs)
         /\ gs # <<>> /\ Last(gs) = g /\ Len(gs) = Len(fs) /\ gs[Len(fs)] = g
         /\ \A i \in 1..Len(fs) : i # Len(fs) => gs[i] = fs[i]
<1> DEFINE n == Len(fs)
<1>1. fs \in Seq(FrameSet) /\ n \in Nat /\ n # 0 /\ n \in 1..n
  BY DEF Framed
<1>2. /\ gs \in Seq(FrameSet) /\ Len(gs) = n /\ gs[n] = g
      /\ \A i \in 1..n : i # n => gs[i] = fs[i]
  BY <1>1 DEF Topped
<1>3. Last(fs) = fs[n] /\ Last(gs) = g /\ gs # <<>>
  BY <1>1, <1>2 DEF Last
<1> HIDE DEF n
<1>4. \A i \in 1..n : gs[i].k = fs[i].k /\ gs[i].name = fs[i].name /\ gs[i].out = fs[i].out
  BY <1>2, <1>3 DEF Like
<1>5. Stacked1(gs)
  <2>1. gs[1].k = "func"
    BY <1>1, <1>3, <1>4 DEF Framed, Stacked1, n
  <2>2. ASSUME NEW i \in 2..n PROVE OnTop(gs[i], gs[i - 1])
    <3>1. OnTop(fs[i], fs[i - 1])
      BY <1>1, <2>2 DEF Framed, Stacked1, n
    <3>2. i - 1 \in 1..n /\ i - 1 # n /\ i \in 1..n
      BY <1>1, <2>2
    <3>3. gs[i - 1] = fs[i - 1] /\ gs[i].k = fs[i].k
      BY <1>2, <1>4, <3>2
    <3> QED BY <3>1, <3>3 DEF OnTop
  <2> QED BY <1>2, <2>1, <2>2 DEF Stacked1
<1>6. Apart(gs)
  <2>1. Apart(fs)
    BY DEF Framed
  <2> QED BY <1>2, <1>4, <2>1 DEF Apart, n
<1>b. Allowed(g, us)
  <2>1. Allowed(fs[n], us)
    BY <1>1 DEF Framed, n
  <2> QED BY <1>3, <2>1 DEF Like, Allowed
<1>7. \A i \in 1..n : /\ Shaped(gs[i]) /\ Allowed(gs[i], us)
                      /\ \A m \in 1..Len(gs[i].adrs) : Has(u, gs[i].adrs[m])
  BY <1>2, <1>b DEF Framed, n, HasAll
<1>8. gs[1].name = fs[1].name /\ u.lines # <<>>
  BY <1>1, <1>4 DEF Framed, n
<1>9. Framed(u, gs, us)
  BY <1>2, <1>5, <1>6, <1>7, <1>8 DEF Framed
<1>11. Outs(gs) = Outs(fs)
  <2>1. ASSUME NEW x PROVE x \in Outs(gs) <=> x \in Outs(fs)
    <3>1. /\ x \in Outs(gs) <=> \E i \in 1..n : gs[i].out.type = "TMP" /\ gs[i].out.n = x
          /\ x \in Outs(fs) <=> \E i \in 1..n : fs[i].out.type = "TMP" /\ fs[i].out.n = x
      BY <1>2 DEF Outs, n
    <3> QED BY <1>4, <3>1
  <2> QED BY <2>1
<1> QED BY <1>2, <1>3, <1>9, <1>11 DEF n

(* No construct with labels takes part if the frame waits for the same. *)
LEMMA MoveTop ==
  ASSUME NEW u, NEW us, NEW fs, Framed(u, fs, us), fs # <<>>,
         NEW g \in FrameSet, Shaped(g), Alike(Last(fs), g),
         HasAll(u, g),
         NEW gs, Topped(fs, g, gs)
  PROVE  /\ Framed(u, gs, us) /\ SameFlow(fs, gs) /\ Outs(gs) = Outs(fs)
         /\ gs # <<>> /\ Last(gs) = g /\ Len(gs) = Len(fs)
<1> DEFINE n == Len(fs)
<1>1. fs \in Seq(FrameSet) /\ n \in Nat /\ n # 0
  BY DEF Framed
<1>2. Like(Last(fs), g)
  BY DEF Alike, Like
<1>3. /\ Framed(u, gs, us) /\ Outs(gs) = Outs(fs)
      /\ gs # <<>> /\ Last(gs) = g /\ Len(gs) = n /\ gs[n] = g
      /\ \A i \in 1..n : i # n => gs[i] = fs[i]
  BY <1>2, FramedTop
<1>4. fs[n] = Last(fs)
  BY <1>1 DEF Last
<1>5. \A i \in 1..n : i <= n
  BY <1>1
<1> HIDE DEF n
<1>6. \A i \in 1..n : Alike(fs[i], gs[i])
  BY <1>3, <1>4 DEF Alike
<1>7. SameFlow(fs, gs)
  <2>1. n = Len(fs)
    BY DEF n
  <2> QED BY <1>3, <1>5, <1>6, <2>1 DEF SameFlow, Alike
<1> QED BY <1>3, <1>7 DEF n

(* A frame more, that stands on what it may stand on. *)
LEMMA MovePush ==
  ASSUME NEW u, NEW us, NEW fs, Framed(u, fs, us), fs # <<>>,
         NEW g \in FrameSet, Shaped(g), Allowed(g, us), OnTop(g, Last(fs)),
         HasAll(u, g),
         g.out.type = "TMP" => g.out.n \notin Outs(fs),
         NEW gs, Pushed(fs, g, gs)
  PROVE  /\ Framed(u, gs, us) /\ gs # <<>>
         /\ g.k \notin FlowKinds => SameFlow(fs, gs)
         /\ Outs(gs) = With(Outs(fs), g)
         /\ Len(gs) = Len(fs) + 1 /\ gs[Len(fs) + 1] = g
         /\ \A i \in 1..Len(fs) : gs[i] = fs[i]
<1> DEFINE n == Len(fs)
<1>1. fs \in Seq(FrameSet) /\ n \in Nat /\ n # 0 /\ n \in 1..n
  BY DEF Framed
<1>2. /\ gs \in Seq(FrameSet) /\ Len(gs) = n + 1 /\ gs[n + 1] = g
      /\ \A i \in 1..n : gs[i] = fs[i]
  BY <1>1 DEF Pushed
<1>3. Last(fs) = fs[n] /\ gs # <<>>
  BY <1>1, <1>2 DEF Last
<1>a. \A i \in 1..(n + 1) : i \in 1..n \/ i = n + 1
  BY <1>1
<1> HIDE DEF n
<1>5. Stacked1(gs)
  <2>1. gs[1].k = "func"
    <3>1. 1 \in 1..n /\ fs[1].k = "func"
      BY <1>1 DEF Framed, Stacked1, n
    <3> QED BY <1>2, <3>1
  <2>2. ASSUME NEW i \in 2..(n + 1) PROVE OnTop(gs[i], gs[i - 1])
    <3>1. CASE i \in 2..n
      <4>1. OnTop(fs[i], fs[i - 1])
        BY <1>1, <3>1 DEF Framed, Stacked1, n
      <4>2. i - 1 \in 1..n /\ i \in 1..n
        BY <1>1, <3>1
      <4> QED BY <1>2, <4>1, <4>2
    <3>2. CASE i = n + 1
      <4>1. i - 1 = n
        BY <1>1, <3>2
      <4>2. gs[i] = g /\ gs[i - 1] = Last(fs)
        BY <1>1, <1>2, <1>3, <3>2, <4>1
      <4> QED BY <4>2
    <3>3. i \in 2..n \/ i = n + 1
      BY <1>1
    <3> QED BY <3>1, <3>2, <3>3
  <2> QED BY <1>2, <2>1, <2>2 DEF Stacked1
<1>6. Apart(gs)
  <2>1. ASSUME NEW i \in 1..(n + 1), NEW j \in 1..(n + 1), i # j,
               gs[i].out.type = "TMP", gs[j].out.type = "TMP"
        PROVE  gs[i].out.n # gs[j].out.n
    <3>1. CASE i \in 1..n /\ j \in 1..n
      BY <1>2, <2>1, <3>1 DEF Framed, Apart, n
    <3>2. CASE i = n + 1
      <4>1. j \in 1..n
        BY <1>a, <2>1, <3>2
      <4>2. fs[j].out.n \in Outs(fs)
        BY <1>2, <2>1, <4>1, OutsAre DEF n
      <4> QED BY <1>2, <2>1, <3>2, <4>1, <4>2
    <3>3. CASE j = n + 1
      <4>1. i \in 1..n
        BY <1>a, <2>1, <3>3
      <4>2. fs[i].out.n \in Outs(fs)
        BY <1>2, <2>1, <4>1, OutsAre DEF n
      <4> QED BY <1>2, <2>1, <3>3, <4>1, <4>2
    <3> QED BY <1>a, <3>1, <3>2, <3>3
  <2> QED BY <1>2, <2>1 DEF Apart
<1>7. \A i \in 1..(n + 1) : /\ Shaped(gs[i]) /\ Allowed(gs[i], us)
                            /\ \A m \in 1..Len(gs[i].adrs) : Has(u, gs[i].adrs[m])
  BY <1>2, <1>a DEF Framed, n, HasAll
<1>8. gs[1].name = fs[1].name /\ u.lines # <<>>
  BY <1>1, <1>2 DEF Framed, n
<1>9. Framed(u, gs, us)
  BY <1>2, <1>5, <1>6, <1>7, <1>8 DEF Framed
<1>10. g.k \notin FlowKinds => SameFlow(fs, gs)
  <2>1. \A i \in 1..n : i <= n + 1 /\ i <= n
    BY <1>1
  <2> QED BY <1>2, <1>a, <2>1 DEF SameFlow, n, Alike
<1>11. Outs(gs) = With(Outs(fs), g)
  <2>1. \A i \in 1..n : i \in 1..(n + 1)
    BY <1>1
  <2>2. n + 1 \in 1..(n + 1)
    BY <1>1
  <2>3. ASSUME NEW x
        PROVE  x \in Outs(gs) <=> x \in Outs(fs) \/ (g.out.type = "TMP" /\ x = g.out.n)
    <3>1. /\ x \in Outs(gs) <=> \E i \in 1..(n + 1) : gs[i].out.type = "TMP" /\ gs[i].out.n = x
          /\ x \in Outs(fs) <=> \E i \in 1..n : fs[i].out.type = "TMP" /\ fs[i].out.n = x
      BY <1>2 DEF Outs, n
    <3> QED BY <1>2, <1>a, <2>1, <2>2, <3>1
  <2> QED BY <2>3 DEF With, OutOf
<1> QED BY <1>2, <1>3, <1>9, <1>10, <1>11 DEF n

(* A frame less, unless it is that of the function or waits for a landing. *)
LEMMA MovePop ==
  ASSUME NEW u, NEW us, NEW fs, Framed(u, fs, us), fs # <<>>, Last(fs).k # "func",
         NEW gs, gs = Front(fs)
  PROVE  /\ Framed(u, gs, us) /\ gs # <<>> /\ OnTop(Last(fs), Last(gs))
         /\ Last(fs).k \notin FlowKinds => SameFlow(fs, gs)
         /\ Outs(gs) = Without(Outs(fs), Last(fs))
         /\ Len(gs) = Len(fs) - 1 /\ \A i \in 1..Len(gs) : gs[i] = fs[i]
<1> DEFINE n == Len(fs)
<1>1. fs \in Seq(FrameSet) /\ n \in Nat /\ n # 0 /\ n \in 1..n
  BY DEF Framed
<1>2. Last(fs) = fs[n]
  BY <1>1 DEF Last
<1>3. n # 1 /\ n - 1 \in Nat /\ n - 1 \in 1..n /\ n - 1 \in 1..(n - 1)
  BY <1>1, <1>2 DEF Framed, Stacked1
<1>4. /\ gs \in Seq(FrameSet) /\ Len(gs) = n - 1 /\ \A i \in 1..(n - 1) : gs[i] = fs[i]
      /\ gs # <<>> /\ Last(gs) = fs[n - 1]
  <2>2. gs = SubSeq(fs, 1, n - 1)
    BY DEF Front
  <2>3. gs \in Seq(FrameSet) /\ Len(gs) = n - 1 /\ \A i \in 1..(n - 1) : gs[i] = fs[i]
    BY <1>1, <1>3, <2>2
  <2> QED BY <1>3, <2>3 DEF Last
<1>a. \A i \in 1..n : i \in 1..(n - 1) \/ i = n
  BY <1>1
<1>b. \A i \in 1..(n - 1) : i \in 1..n /\ i # n /\ i <= n
  BY <1>1
<1>5. OnTop(Last(fs), Last(gs))
  BY <1>1, <1>2, <1>3, <1>4 DEF Framed, Stacked1
<1> HIDE DEF n
<1>6. Stacked1(gs)
  <2>1. 1 \in 1..(n - 1) /\ fs[1].k = "func"
    BY <1>1, <1>3 DEF Framed, Stacked1, n
  <2>2. ASSUME NEW i \in 2..(n - 1) PROVE OnTop(gs[i], gs[i - 1])
    <3>1. i \in 2..n /\ i \in 1..(n - 1) /\ i - 1 \in 1..(n - 1)
      BY <1>1, <2>2
    <3>2. OnTop(fs[i], fs[i - 1])
      BY <1>1, <3>1 DEF Framed, Stacked1, n
    <3> QED BY <1>4, <3>1, <3>2
  <2> QED BY <1>4, <2>1, <2>2 DEF Stacked1
<1>7. Apart(gs)
  <2>1. Apart(fs)
    BY DEF Framed
  <2>2. ASSUME NEW i \in 1..(n - 1), NEW j \in 1..(n - 1), i # j,
               gs[i].out.type = "TMP", gs[j].out.type = "TMP"
        PROVE  gs[i].out.n # gs[j].out.n
    <3>1. i \in 1..n /\ j \in 1..n /\ gs[i] = fs[i] /\ gs[j] = fs[j]
      BY <1>4, <1>b
    <3> QED BY <2>1, <2>2, <3>1 DEF Apart, n
  <2> QED BY <1>4, <2>2 DEF Apart
<1>8. \A i \in 1..(n - 1) : /\ Shaped(gs[i]) /\ Allowed(gs[i], us)
                            /\ \A m \in 1..Len(gs[i].adrs) : Has(u, gs[i].adrs[m])
  BY <1>4, <1>b DEF Framed, n
<1>9. gs[1].name = fs[1].name /\ u.lines # <<>>
  <2>1. 1 \in 1..(n - 1)
    BY <1>3, <1>1
  <2> QED BY <1>1, <1>4, <2>1 DEF Framed, n
<1>10. Framed(u, gs, us)
  BY <1>4, <1>6, <1>7, <1>8, <1>9 DEF Framed
<1>11. Last(fs).k \notin FlowKinds => SameFlow(fs, gs)
  <2>1. \A i \in 1..(n - 1) : i <= n - 1
    BY <1>1
  <2> QED BY <1>2, <1>4, <1>a, <1>b, <2>1 DEF SameFlow, n, Alike
<1>12. Outs(gs) = Without(Outs(fs), Last(fs))
  <2>1. ASSUME NEW x, x \in Outs(gs)
        PROVE  x \in Outs(fs) /\ ~(fs[n].out.type = "TMP" /\ fs[n].out.n = x)
    <3>1. PICK i \in 1..(n - 1) : fs[i].out.type = "TMP" /\ fs[i].out.n = x
      BY <1>4, <2>1, OutsAre
    <3>2. i \in 1..n /\ i # n
      BY <1>b
    <3> QED BY <1>1, <3>1, <3>2, OutsAre DEF Framed, Apart, n
  <2>2. ASSUME NEW x, x \in Outs(fs), ~(fs[n].out.type = "TMP" /\ fs[n].out.n = x)
        PROVE  x \in Outs(gs)
    <3>1. PICK i \in 1..n : fs[i].out.type = "TMP" /\ fs[i].out.n = x
      BY <2>2, OutsAre DEF n
    <3>2. i \in 1..(n - 1)
      BY <1>a, <2>2, <3>1
    <3> QED BY <1>4, <3>1, <3>2, OutsAre
  <2> QED BY <1>2, <2>1, <2>2 DEF Without, OutOf
<1> QED BY <1>4, <1>5, <1>10, <1>11, <1>12 DEF n

(***************************************************************************)
(* Labels, branches and arguments under actions that leave them alone.     *)
(***************************************************************************)
(* Lines are added, and no function begins. *)
Further(t, u) ==
  /\ Longer(t, u)
  /\ \A i \in (Len(t.lines) + 1)..Len(u.lines) : u.lines[i].op # "FUNC"

(* Labels stay where they are, and lines in the function they are in. *)
LEMMA FurtherIs ==
  ASSUME NEW t, NEW u, TSok(t), TSok(u), Further(t, u)
  PROVE  /\ Len(t.lines) \in Nat /\ Len(u.lines) \in Nat /\ Len(t.lines) <= Len(u.lines)
         /\ \A i \in 1..Len(t.lines) : u.lines[i] = t.lines[i] /\ i \in 1..Len(u.lines)
         /\ \A j \in 1..Len(t.lines) : \A n : Marks(u.lines, j, n) <=> Marks(t.lines, j, n)
         /\ \A j, i \in 1..Len(t.lines) : NoFunc(u.lines, j, i) <=> NoFunc(t.lines, j, i)
         /\ \A j \in 1..Len(t.lines) :
              NoFunc(t.lines, j, Len(t.lines)) => NoFunc(u.lines, j, Len(u.lines))
<1>1. /\ Len(t.lines) \in Nat /\ Len(u.lines) \in Nat /\ Len(t.lines) <= Len(u.lines)
      /\ \A i \in 1..Len(t.lines) : u.lines[i] = t.lines[i] /\ i \in 1..Len(u.lines)
  BY DEF TSok, Further, Longer
<1>2. \A j \in 1..Len(t.lines) : \A n : Marks(u.lines, j, n) <=> Marks(t.lines, j, n)
  BY <1>1 DEF Marks
<1>3. ASSUME NEW j \in 1..Len(t.lines), NEW i \in 1..Len(t.lines)
      PROVE  NoFunc(u.lines, j, i) <=> NoFunc(t.lines, j, i)
  <2>1. \A k \in (j + 1)..i : k \in 1..Len(t.lines)
    BY <1>1
  <2> QED BY <1>1, <2>1 DEF NoFunc
<1>4. ASSUME NEW j \in 1..Len(t.lines), NoFunc(t.lines, j, Len(t.lines))
      PROVE  NoFunc(u.lines, j, Len(u.lines))
  <2>1. ASSUME NEW k \in (j + 1)..Len(u.lines) PROVE u.lines[k].op # "FUNC"
    <3>1. CASE k <= Len(t.lines)
      <4>1. k \in (j + 1)..Len(t.lines) /\ k \in 1..Len(t.lines)
        BY <1>1, <3>1
      <4> QED BY <1>1, <1>4, <4>1 DEF NoFunc
    <3>2. CASE k > Len(t.lines)
      <4>1. k \in (Len(t.lines) + 1)..Len(u.lines)
        BY <1>1, <3>2
      <4> QED BY <4>1 DEF Further
    <3> QED BY <1>1, <3>1, <3>2
  <2> QED BY <2>1 DEF NoFunc
<1> QED BY <1>1, <1>2, <1>3, <1>4

(* Lines are added that are neither labels nor branches. *)
Calm(t, u) ==
  /\ Longer(t, u) /\ u.label = t.label
  /\ \A i \in (Len(t.lines) + 1)..Len(u.lines) :
       u.lines[i].op \notin {"FUNC", "LABEL", "GOTO", "GOTOF"}

(* What is quiet is calm, and what is calm begins no function. *)
LEMMA CalmFurther ==
  ASSUME NEW t, NEW u
  PROVE  /\ Quiet(t, u) => Calm(t, u)
         /\ Calm(t, u) => Further(t, u)
BY DEF Quiet, Calm, Further

(* A call keeps its arguments when lines are added. *)
LEMMA StillInBlock ==
  ASSUME NEW s \in Seq(LineSet), NEW r \in Seq(LineSet), Len(s) <= Len(r),
         \A i \in 1..Len(s) : r[i] = s[i],
         NEW i \in 1..Len(s), InBlock(s, i)
  PROVE  InBlock(r, i)
<1>1. Len(s) \in Nat /\ Len(r) \in Nat
  OBVIOUS
<1> DEFINE k == s[i].ref[3]
<1>2. /\ Len(s[i].ref) = 3 /\ k \in 1..(Len(s) - i)
      /\ s[i + k].op \in CallOps /\ s[i + k].ref = Front(s[i].ref)
      /\ \A j \in i..(i + k - 1) : s[j].op = "PARAM"
  BY DEF InBlock
<1>3. r[i] = s[i] /\ r[i].ref[3] = k
  OBVIOUS
<1> HIDE DEF k
<1>4. k \in 1..(Len(r) - i) /\ i + k \in 1..Len(s)
  BY <1>1, <1>2
<1>5. \A j \in i..(i + k - 1) : j \in 1..Len(s)
  BY <1>1, <1>2
<1>6. /\ r[i + k].op \in CallOps /\ r[i + k].ref = Front(r[i].ref)
      /\ \A j \in i..(i + k - 1) : r[j].op = "PARAM"
  BY <1>2, <1>3, <1>4, <1>5
<1> QED BY <1>2, <1>3, <1>4, <1>6 DEF InBlock

(* All do, when the lines are no arguments. *)
LEMMA QuietBlocks ==
  ASSUME NEW t, NEW u, TSok(t), TSok(u), Longer(t, u), Blocks(t.lines),
         \A i \in (Len(t.lines) + 1)..Len(u.lines) : u.lines[i].op # "PARAM"
  PROVE  Blocks(u.lines)
<1> DEFINE s == t.lines
           r == u.lines
<1>1. /\ s \in Seq(LineSet) /\ r \in Seq(LineSet) /\ Len(s) <= Len(r)
      /\ \A i \in 1..Len(s) : r[i] = s[i]
  BY DEF TSok, Longer
<1>2. ASSUME NEW i \in 1..Len(r), r[i].op = "PARAM" PROVE InBlock(r, i)
  <2>1. i \in 1..Len(s) /\ s[i].op = "PARAM"
    BY <1>1, <1>2
  <2>2. InBlock(s, i)
    BY <2>1 DEF Blocks
  <2> HIDE DEF s, r
  <2> QED BY <1>1, <2>1, <2>2, StillInBlock
<1> QED BY <1>2 DEF Blocks

(* What a frame without labels has to do with branches. *)
LEMMA Unlabelled ==
  ASSUME NEW f, Shaped(f), f.k \notin FlowKinds
  PROVE  Len(f.labs) = 0 /\ f.owe = 0 /\ Unset(f) = {}
BY DEF Shaped, Unset, FlowKinds

(* Branches keep where they land. *)
LEMMA StillLanded ==
  ASSUME NEW t, NEW u, TSok(t), TSok(u), Further(t, u), NEW ld,
         NEW i \in 1..Len(t.lines), Landed(t.lines, ld, i)
  PROVE  Landed(u.lines, ld, i)
<1>1. /\ i \in DOMAIN ld /\ ld[i] \in 1..Len(t.lines)
      /\ Marks(t.lines, ld[i], t.lines[i].left.n)
      /\ NoFunc(t.lines, i, ld[i]) /\ NoFunc(t.lines, ld[i], i)
  BY DEF Landed
<1>2. /\ ld[i] \in 1..Len(u.lines) /\ u.lines[i] = t.lines[i]
      /\ Marks(u.lines, ld[i], t.lines[i].left.n)
      /\ NoFunc(u.lines, i, ld[i]) /\ NoFunc(u.lines, ld[i], i)
  BY <1>1, FurtherIs
<1> QED BY <1>1, <1>2 DEF Landed

(* What a frame owes, it still owes, and where its loop began, it began. *)
LEMMA StillOwes ==
  ASSUME NEW t, NEW u, TSok(t), TSok(u), Further(t, u), NEW f
  PROVE  /\ Owes(t.lines, f) => Owes(u.lines, f)
         /\ Begun(t.lines, f) => Begun(u.lines, f)
BY FurtherIs DEF Owes, Begun

(* Calm actions leave branches and labels as they are. *)
LEMMA CalmBranching ==
  ASSUME NEW t, NEW u, TSok(t), TSok(u), Calm(t, u), NEW fs, NEW gs, NEW ld,
         Branching(t, fs, ld), SameFlow(fs, gs),
         \A i \in 1..Len(fs) : Shaped(fs[i]), \A i \in 1..Len(gs) : Shaped(gs[i]),
         Len(fs) \in Nat, Len(gs) \in Nat
  PROVE  Branching(u, gs, ld)
<1> DEFINE s == t.lines
           r == u.lines
<1>0. Further(t, u) /\ u.label = t.label
  BY CalmFurther DEF Calm
<1>1. /\ Len(s) \in Nat /\ Len(r) \in Nat /\ Len(s) <= Len(r)
      /\ \A i \in 1..Len(s) : r[i] = s[i] /\ i \in 1..Len(r)
      /\ \A j \in 1..Len(s) : \A n : Marks(r, j, n) <=> Marks(s, j, n)
  BY <1>0, FurtherIs
<1>2. \A i \in 1..Len(r) : r[i].op \in BranchOps \cup {"LABEL"} => i \in 1..Len(s)
  BY <1>1 DEF Calm, BranchOps
<1>3. \A j \in 1..Len(r) : \A n : Marks(r, j, n) => j \in 1..Len(s) /\ Marks(s, j, n)
  BY <1>1, <1>2 DEF Marks
<1>4. \A i \in 1..Len(gs) : gs[i].k \in FlowKinds =>
         /\ i \in 1..Len(fs) /\ Alike(fs[i], gs[i])
  BY DEF SameFlow
<1>a. \A i \in 1..Len(gs) : gs[i].k \notin FlowKinds =>
         Len(gs[i].labs) = 0 /\ gs[i].owe = 0 /\ Unset(gs[i]) = {}
  BY Unlabelled
<1>b. \A i \in 1..Len(gs) : gs[i].k \in FlowKinds =>
         /\ i \in 1..Len(fs) /\ gs[i].labs = fs[i].labs /\ Unset(gs[i]) = Unset(fs[i])
         /\ gs[i].owe = fs[i].owe /\ gs[i].k = fs[i].k
         /\ gs[i].want = "stats" => fs[i].want = "stats"
         /\ Owes(r, fs[i]) => Owes(r, gs[i])
         /\ Begun(r, fs[i]) => Begun(r, gs[i])
  <2>1. ASSUME NEW f, NEW g, Alike(f, g)
        PROVE  /\ g.labs = f.labs /\ Unset(g) = Unset(f) /\ g.owe = f.owe /\ g.k = f.k
               /\ g.want = "stats" => f.want = "stats"
               /\ Owes(r, f) => Owes(r, g)
               /\ Begun(r, f) => Begun(r, g)
    <3>1. /\ g.labs = f.labs /\ g.owe = f.owe /\ g.k = f.k /\ g.field = f.field
          /\ g.begin = f.begin
          /\ g.want = "stats" => f.want = "stats"
      BY <2>1 DEF Alike
    <3>2. Unset(g) = Unset(f) /\ Owed(g) = Owed(f)
      BY <3>1, Zenon DEF Unset, Owed
    <3> HIDE DEF r
    <3> QED BY <3>1, <3>2 DEF Owes, Begun
  <2> HIDE DEF r
  <2> QED BY <1>4, <2>1
<1>5. \A j \in 1..Len(r) : r[j].op \in BranchOps \cup {"LABEL"} => r[j].left.n < u.label
  BY <1>0, <1>1, <1>2 DEF Branching
<1>6. \A j, k \in 1..Len(r) :
        Marks(r, j, r[k].left.n) /\ Marks(r, k, r[k].left.n) => j = k
  <2>1. ASSUME NEW j \in 1..Len(r), NEW k \in 1..Len(r),
               Marks(r, j, r[k].left.n), Marks(r, k, r[k].left.n)
        PROVE  j = k
    <3>1. /\ j \in 1..Len(s) /\ Marks(s, j, r[k].left.n)
          /\ k \in 1..Len(s) /\ Marks(s, k, r[k].left.n)
      BY <1>3, <2>1
    <3>2. r[k] = s[k]
      BY <1>1, <3>1
    <3> QED BY <3>1, <3>2 DEF Branching
  <2> QED BY <2>1
<1>7. ASSUME NEW i \in 1..Len(gs), NEW m \in 1..Len(gs[i].labs)
      PROVE  gs[i].k \in FlowKinds /\ i \in 1..Len(fs) /\ m \in 1..Len(fs[i].labs)
               /\ gs[i].labs[m] = fs[i].labs[m]
  BY <1>a, <1>b, <1>7
<1>8. \A i \in 1..Len(gs) : \A m \in 1..Len(gs[i].labs) : gs[i].labs[m] < u.label
  BY <1>0, <1>7 DEF Branching
<1>9. \A i, j \in 1..Len(gs) : \A m \in 1..Len(gs[i].labs), n \in 1..Len(gs[j].labs) :
        i # j \/ m # n => gs[i].labs[m] # gs[j].labs[n]
  BY <1>7 DEF Branching
<1>10. \A i \in 1..Len(gs) : \A m \in Unset(gs[i]) : \A j \in 1..Len(r) :
         ~Marks(r, j, gs[i].labs[m])
  BY <1>3, <1>a, <1>b DEF Branching
<1>11. \A i \in 1..Len(gs) : gs[i].owe # 0 => Owes(r, gs[i])
  BY <1>0, <1>a, <1>b, StillOwes DEF Branching
<1>12. \A i \in 1..Len(gs) : gs[i].k \in {"for", "repeat"} => Begun(r, gs[i])
  BY <1>0, <1>b, StillOwes DEF Branching, FlowKinds
<1>13. \A i \in 1..Len(gs) :
         gs[i].want = "stats" /\ gs[i].k \in {"if", "ifelse", "for"} => gs[i].owe # 0
  BY <1>b DEF Branching, FlowKinds
<1>14. ASSUME NEW i \in 1..Len(r), r[i].op \in BranchOps
       PROVE  Landed(r, ld, i) \/ \E x \in 1..Len(gs) : gs[x].owe = i
  <2>1. i \in 1..Len(s) /\ s[i].op \in BranchOps
    BY <1>1, <1>2, <1>14
  <2>2. CASE Landed(s, ld, i)
    BY <1>0, <2>1, <2>2, StillLanded
  <2>3. CASE \E x \in 1..Len(fs) : fs[x].owe = i
    <3>1. PICK x \in 1..Len(fs) : fs[x].owe = i
      BY <2>3
    <3>2. fs[x].k \in FlowKinds
      BY <3>1, <2>1, <1>1, Unlabelled
    <3> QED BY <3>1, <3>2 DEF SameFlow
  <2> QED BY <2>1, <2>2, <2>3 DEF Branching
<1> QED BY <1>5, <1>6, <1>8, <1>9, <1>10, <1>11, <1>12, <1>13, <1>14 DEF Branching

(***************************************************************************)
(* The moves that generator functions are made of.                         *)
(***************************************************************************)
(* From t, operations that are no branches led to u, where the temporaries in P
   are taken and not written yet. *)
Works(t, u, P, us) == Good(u, P, us) /\ Keeps(t, u) /\ Quiet(t, u)

(* Work on the lines and moves on the stack make a step. *)
LEMMA Quietly ==
  ASSUME NEW t, NEW fs, NEW ld, NEW us, Inv(t, fs, ld, us), fs # <<>>,
         NEW u, NEW P, Works(t, u, P, us),
         NEW gs, Outs(gs) \subseteq P, gs # <<>>, Framed(u, gs, us), SameFlow(fs, gs)
  PROVE  Inv(u, gs, ld, us)
<1>1. TSok(t) /\ TSok(u) /\ Sound(u, us) /\ Quiet(t, u)
  BY DEF Inv, Works, Good, Sound
<1>2. Numbered(u, Outs(gs))
  BY Fewer DEF Works, Good
<1>3. Blocks(u.lines)
  <2>1. \A i \in (Len(t.lines) + 1)..Len(u.lines) : u.lines[i].op # "PARAM"
    BY <1>1 DEF Quiet
  <2> QED BY <1>1, <2>1, QuietBlocks DEF Inv, Quiet
<1>4. Branching(u, gs, ld)
  <2>1. /\ \A i \in 1..Len(fs) : Shaped(fs[i])
        /\ \A i \in 1..Len(gs) : Shaped(gs[i])
        /\ Len(fs) \in Nat /\ Len(gs) \in Nat /\ Branching(t, fs, ld)
    BY DEF Inv, Framed
  <2> QED BY <1>1, <2>1, CalmFurther, CalmBranching
<1>5. u.lines[1].op = "FUNC"
  <2>1. Framed(t, fs, us) /\ t.lines # <<>> /\ t.lines[1].op = "FUNC"
    BY DEF Inv, Framed
  <2>2. 1 \in 1..Len(t.lines)
    BY <1>1, <2>1 DEF TSok
  <2> QED BY <1>1, <2>1, <2>2 DEF Quiet, Longer
<1> QED BY <1>1, <1>2, <1>3, <1>4, <1>5 DEF Inv

(* The stack as it was is a stack after some work. *)
LEMMA StackStays ==
  ASSUME NEW t, NEW fs, NEW ld, NEW us, Inv(t, fs, ld, us),
         NEW u, NEW P, Works(t, u, P, us)
  PROVE  Framed(u, fs, us)
BY FramedKeeps DEF Inv, Works, Good, Sound, Quiet

(* Nothing was done yet. *)
LEMMA WorkStarts ==
  ASSUME NEW t, NEW fs, NEW ld, NEW us, Inv(t, fs, ld, us), fs # <<>>
  PROVE  Works(t, t, Outs(fs), us) /\ t.tmp \in Nat /\ TSok(t)
<1>1. TSok(t)
  BY DEF Inv, Sound
<1>2. Quiet(t, t)
  BY <1>1 DEF TSok, Quiet, Longer
<1> QED BY <1>1, <1>2 DEF Works, Inv, Good, Keeps, TSok

(* A temporary is taken. *)
LEMMA WorkTakes ==
  ASSUME NEW t, TSok(t), NEW u, NEW P, NEW us, Works(t, u, P, us), NEW w, w = TookTmp(u)
  PROVE  /\ Works(t, w, P \cup {u.tmp}, us) /\ Keeps(u, w)
         /\ u.tmp \notin P /\ u.tmp \in Nat /\ w.lines = u.lines
<1>1. /\ Good(w, P \cup {u.tmp}, us) /\ Keeps(u, w) /\ Quiet(u, w)
      /\ u.tmp \notin P /\ u.tmp \in Nat /\ w.lines = u.lines
  BY Takes DEF Works
<1>2. TSok(u) /\ TSok(w)
  BY <1>1 DEF Works, Good, Sound
<1>3. Keeps(t, w)
  BY <1>1 DEF Works, Keeps
<1>4. Quiet(t, w)
  BY <1>1, <1>2, QuietChain DEF Works
<1> QED BY <1>1, <1>3, <1>4 DEF Works

(* A literal is entered. *)
LEMMA WorkInterns ==
  ASSUME NEW t, TSok(t), NEW u, NEW P, NEW us, Works(t, u, P, us),
         NEW q \in Pools, NEW v \in Vals, NEW w, w = Intern(u, q, v)
  PROVE  /\ Works(t, w, P, us) /\ Keeps(u, w) /\ w.lines = u.lines /\ w.tmp = u.tmp
         /\ Has(w, AdrOf(u, q, v)) /\ AdrOf(u, q, v).ty = q
         /\ AdrOf(u, q, v).type \in {"ILIT", "FLIT", "STR"}
<1>0. Sound(u, us) /\ Good(u, P, us) /\ TSok(u)
  BY DEF Works, Good, Sound
<1>1. /\ Sound(w, us) /\ Keeps(u, w) /\ Quiet(u, w) /\ w.lines = u.lines /\ w.tmp = u.tmp
      /\ Has(w, AdrOf(u, q, v)) /\ AdrOf(u, q, v).ty = q
      /\ AdrOf(u, q, v).type \in {"ILIT", "FLIT", "STR"}
      /\ Good(w, P, us)
  BY <1>0, Interns
<1>2. Keeps(t, w)
  BY <1>1 DEF Works, Keeps
<1>3. Quiet(t, w)
  BY <1>0, <1>1, QuietChain DEF Works, Sound
<1> QED BY <1>1, <1>2, <1>3 DEF Works

(* A line is added. *)
LEMMA WorkEmits ==
  ASSUME NEW t, TSok(t), NEW u, NEW P, NEW us, Works(t, u, P, us),
         NEW l, Addable(u, l, P, us), l.op \notin Loud,
         NEW Q, Q \subseteq P, Spares(l, Q),
         NEW w, w = Emit1(u, l)
  PROVE  /\ Works(t, w, Q, us) /\ Keeps(u, w) /\ Grown(u.lines, l, w.lines)
         /\ l.op \notin Readers => Has(w, l.left)
<1>0. Good(u, P, us) /\ TSok(u)
  BY DEF Works, Good, Sound
<1>1. /\ Good(w, Q, us) /\ Keeps(u, w) /\ Quiet(u, w) /\ Grown(u.lines, l, w.lines)
      /\ l.op \notin Readers => Has(w, l.left)
  BY <1>0, Emits
<1>2. Keeps(t, w)
  BY <1>1 DEF Works, Keeps
<1>3. Quiet(t, w)
  <2>1. TSok(w)
    BY <1>1 DEF Good, Sound
  <2> QED BY <1>0, <1>1, <2>1, QuietChain DEF Works
<1> QED BY <1>1, <1>2, <1>3 DEF Works

(* The frame that gets an operand. *)
LEMMA GivenIs ==
  ASSUME NEW fs, fs \in Seq(FrameSet), fs # <<>>, Shaped(Last(fs)), Last(fs).want \in Wants,
         NEW a \in Adrs
  PROVE  \E g \in FrameSet : /\ Topped(fs, g, Given(fs, a))
                             /\ Shaped(g) /\ Alike(Last(fs), g)
                             /\ g.adrs = Append(Last(fs).adrs, a)
<1> DEFINE f == Last(fs)
           n == Len(f.adrs) + 1
           want == IF n < Len(f.tys) /\ f.k \notin Ops2 THEN f.tys[n + 1] ELSE "step"
           g == [f EXCEPT !.adrs = Append(@, a), !.want = want]
<1>1. f \in FrameSet
  <2>1. Len(fs) \in 1..Len(fs)
    OBVIOUS
  <2> QED BY <2>1 DEF Last
<1>2. f.adrs \in Seq(Adrs) /\ f.tys \in Seq(Wants) /\ n \in Nat /\ Len(f.tys) \in Nat
  BY <1>1, SMTT(30) DEF FrameSet
<1>3. want \in Wants \cup {"step"} /\ want # "stats"
  <2>1. n < Len(f.tys) => f.tys[n + 1] \in Wants
    BY <1>2
  <2> QED BY <2>1 DEF Wants
<1>4. Append(f.adrs, a) \in Seq(Adrs) /\ Len(Append(f.adrs, a)) = n
  BY <1>2
<1>5. Topped(fs, g, Given(fs, a))
  BY DEF Given, Topped
<1>w. /\ want \in Wants => n < Len(f.tys)
      /\ want = "step" => n >= Len(f.tys) \/ f.k \in Ops2
  <2>1. n < Len(f.tys) => f.tys[n + 1] \in Wants
    BY <1>2
  <2> QED BY <1>2, <2>1 DEF Wants
<1> HIDE DEF want
<1>6. /\ g \in FrameSet /\ g.adrs = Append(f.adrs, a) /\ g.want = want
      /\ g.k = f.k /\ g.name = f.name /\ g.out = f.out /\ g.labs = f.labs /\ g.owe = f.owe
      /\ g.begin = f.begin /\ g.field = f.field /\ g.tys = f.tys /\ g.call = f.call
      /\ g.ty = f.ty
  BY <1>1, <1>2, <1>3, <1>4 DEF FrameSet
<1> HIDE DEF g
<1>7. Alike(f, g)
  BY <1>3, <1>6 DEF Alike
<1>8. Shaped(f) /\ f.want \in Wants /\ Len(f.adrs) \in Nat
  BY <1>2
<1> HIDE DEF f
<1>9. Len(f.adrs) < Len(f.tys) /\ Len(g.adrs) = n /\ n = Len(f.adrs) + 1
  BY <1>4, <1>6, <1>8 DEF Shaped
<1> HIDE DEF n
<1>a. /\ Len(g.adrs) <= Len(g.tys)
      /\ g.want \in Wants => Len(g.adrs) < Len(g.tys)
      /\ g.want = "step" /\ g.k \notin Ops2 => Len(g.adrs) = Len(g.tys)
  BY <1>2, <1>6, <1>8, <1>9, <1>w
<1>b. g.k \in Ops2 /\ g.want = "step" => Len(g.adrs) \in {1, 2}
  <2>1. f.k \in Ops2 => Len(f.tys) = 2
    BY <1>8 DEF Shaped
  <2> QED BY <1>2, <1>6, <1>8, <1>9, <2>1
<1>c. f.k # "func"
  BY <1>8 DEF Shaped, Wants
<1>d. g.want # "stats" /\ f.want # "stats"
  BY <1>3, <1>6, <1>8 DEF Wants
<1>10. Shaped(g)
  BY <1>6, <1>8, <1>a, <1>b, <1>c, <1>d DEF Shaped
<1> QED BY <1>5, <1>6, <1>7, <1>10 DEF f

(* The frame on top gets an operand. *)
LEMMA MoveGive ==
  ASSUME NEW u, NEW us, NEW fs, Framed(u, fs, us), fs # <<>>, Last(fs).want \in Wants,
         NEW a, Has(u, a), NEW gs, gs = Given(fs, a)
  PROVE  Framed(u, gs, us) /\ SameFlow(fs, gs) /\ Outs(gs) = Outs(fs) /\ gs # <<>>
<1>1. fs \in Seq(FrameSet) /\ Len(fs) \in 1..Len(fs) /\ Last(fs) = fs[Len(fs)]
  BY DEF Framed, Last
<1>2. Last(fs) \in FrameSet /\ Shaped(Last(fs)) /\ a \in Adrs
  BY <1>1 DEF Framed, Has
<1>3. \A m \in 1..Len(Last(fs).adrs) : Has(u, Last(fs).adrs[m])
  BY <1>1 DEF Framed
<1>4. PICK g \in FrameSet : /\ Topped(fs, g, gs)
                            /\ Shaped(g) /\ Alike(Last(fs), g)
                            /\ g.adrs = Append(Last(fs).adrs, a)
  BY <1>1, <1>2, GivenIs
<1>5. HasAll(u, g)
  <2>1. Last(fs).adrs \in Seq(Adrs)
    BY <1>2 DEF FrameSet
  <2> QED BY <1>2, <1>3, <1>4, <2>1 DEF HasAll
<1> QED BY <1>4, <1>5, MoveTop

(* No construct with labels is touched in two steps. *)
LEMMA SameFlows ==
  ASSUME NEW fs, NEW gs, NEW hs, Len(fs) \in Nat, Len(gs) \in Nat, Len(hs) \in Nat,
         SameFlow(fs, gs), SameFlow(gs, hs)
  PROVE  SameFlow(fs, hs)
<1>1. ASSUME NEW i \in 1..Len(hs), hs[i].k \in FlowKinds
      PROVE  i <= Len(fs) /\ Alike(fs[i], hs[i])
  <2>1. i \in 1..Len(gs) /\ Alike(gs[i], hs[i])
    BY <1>1 DEF SameFlow
  <2>2. gs[i].k \in FlowKinds
    BY <1>1, <2>1 DEF Alike
  <2>3. i <= Len(fs) /\ Alike(fs[i], gs[i])
    BY <2>1, <2>2 DEF SameFlow
  <2> QED BY <2>1, <2>3 DEF Alike
<1>2. ASSUME NEW i \in 1..Len(fs), fs[i].k \in FlowKinds
      PROVE  i <= Len(hs) /\ hs[i].k = fs[i].k /\ hs[i].owe = fs[i].owe
  <2>1. i \in 1..Len(gs) /\ gs[i].k = fs[i].k /\ gs[i].owe = fs[i].owe
    BY <1>2 DEF SameFlow
  <2>2. gs[i].k \in FlowKinds
    BY <1>2, <2>1
  <2> QED BY <2>1, <2>2 DEF SameFlow
<1> QED BY <1>1, <1>2 DEF SameFlow

(* An operand on hand is passed to the frame on top. *)
LEMMA InvGive ==
  ASSUME NEW t, NEW fs, NEW ld, NEW us, Inv(t, fs, ld, us), fs # <<>>,
         Last(fs).want \in Wants,
         NEW u, NEW P, Works(t, u, P, us), Outs(fs) \subseteq P,
         NEW a, Has(u, a), NEW gs, gs = Given(fs, a)
  PROVE  Inv(u, gs, ld, us)
BY StackStays, MoveGive, Quietly

(* An operator is done, and what it gives goes to the frame below. *)
LEMMA InvReturn ==
  ASSUME NEW t, NEW fs, NEW ld, NEW us, Inv(t, fs, ld, us), fs # <<>>,
         Last(fs).k \in ExprKinds,
         NEW u, NEW P, Works(t, u, P, us),
         Without(Outs(fs), Last(fs)) \subseteq P,
         NEW a, Has(u, a), NEW gs, gs = Given(Front(fs), a)
  PROVE  Inv(u, gs, ld, us)
<1>1. Framed(u, fs, us)
  BY StackStays
<1>2. Last(fs).k # "func" /\ Last(fs).k \notin FlowKinds /\ Last(fs).k \notin StatKinds
  BY DEF ExprKinds, Ops2, FlowKinds, StatKinds
<1> DEFINE hs == Front(fs)
<1>3. /\ Framed(u, hs, us) /\ hs # <<>> /\ OnTop(Last(fs), Last(hs)) /\ SameFlow(fs, hs)
      /\ Outs(hs) = Without(Outs(fs), Last(fs))
  BY <1>1, <1>2, MovePop
<1> HIDE DEF hs
<1>4. Last(hs).want \in Wants
  BY <1>2, <1>3 DEF OnTop
<1>5. gs = Given(hs, a)
  BY DEF hs
<1>6. Framed(u, gs, us) /\ SameFlow(hs, gs) /\ Outs(gs) = Outs(hs) /\ gs # <<>>
  BY <1>3, <1>4, <1>5, MoveGive
<1>7. SameFlow(fs, gs)
  <2>1. Len(fs) \in Nat /\ Len(hs) \in Nat /\ Len(gs) \in Nat
    BY <1>1, <1>3, <1>6 DEF Framed
  <2> QED BY <1>3, <1>6, <2>1, SameFlows
<1>8. Outs(gs) \subseteq P
  BY <1>3, <1>6
<1> QED BY <1>6, <1>7, <1>8, Quietly

(* An operator is begun. *)
LEMMA InvOpen ==
  ASSUME NEW t, NEW fs, NEW ld, NEW us, Inv(t, fs, ld, us), fs # <<>>,
         Last(fs).want \in Wants,
         NEW u, NEW P, Works(t, u, P, us), Outs(fs) \subseteq P,
         NEW f \in FrameSet, Shaped(f), f.k \in ExprKinds,
         HasAll(u, f),
         f.out.type = "TMP" => f.out.n \in P /\ f.out.n \notin Outs(fs),
         NEW gs, Pushed(fs, f, gs)
  PROVE  Inv(u, gs, ld, us)
<1>1. Framed(u, fs, us)
  BY StackStays
<1>2. f.k \notin FlowKinds /\ OnTop(f, Last(fs)) /\ Allowed(f, us)
  BY DEF ExprKinds, Ops2, FlowKinds, OnTop, Allowed
<1>3. /\ Framed(u, gs, us) /\ SameFlow(fs, gs) /\ gs # <<>>
      /\ Outs(gs) = With(Outs(fs), f)
  BY <1>1, <1>2, MovePush
<1>4. Outs(gs) \subseteq P
  BY <1>3 DEF With, OutOf
<1> QED BY <1>3, <1>4, Quietly

(* The block on top has a statement. *)
LEMMA MoveSome ==
  ASSUME NEW u, NEW us, NEW fs, Framed(u, fs, us), fs # <<>>,
         NEW gs, gs = [fs EXCEPT ![Len(fs)] = [Last(fs) EXCEPT !.some = TRUE]]
  PROVE  /\ Framed(u, gs, us) /\ SameFlow(fs, gs) /\ Outs(gs) = Outs(fs)
         /\ gs # <<>> /\ Last(gs).k = Last(fs).k /\ Last(gs).want = Last(fs).want
         /\ Alike(Last(fs), Last(gs)) /\ Len(gs) = Len(fs)
         /\ \A i \in 1..Len(fs) : i # Len(fs) => gs[i] = fs[i]
<1> DEFINE f == Last(fs)
           g == [f EXCEPT !.some = TRUE]
<1>1. fs \in Seq(FrameSet) /\ Len(fs) \in 1..Len(fs) /\ f = fs[Len(fs)]
  BY DEF Framed, Last
<1>2. f \in FrameSet /\ Shaped(f) /\ \A m \in 1..Len(f.adrs) : Has(u, f.adrs[m])
  BY <1>1 DEF Framed
<1> HIDE DEF f
<1>3. /\ g \in FrameSet /\ g.adrs = f.adrs /\ g.want = f.want
      /\ g.k = f.k /\ g.name = f.name /\ g.out = f.out /\ g.labs = f.labs /\ g.owe = f.owe
      /\ g.begin = f.begin /\ g.field = f.field /\ g.tys = f.tys /\ g.call = f.call
  BY <1>2 DEF FrameSet
<1> HIDE DEF g
<1>4. Shaped(g)
  BY <1>2, <1>3 DEF Shaped
<1>5. Alike(f, g)
  BY <1>3 DEF Alike
<1>6. Topped(fs, g, gs)
  BY DEF f, g, Topped
<1>7. HasAll(u, g)
  BY <1>2, <1>3 DEF HasAll
<1>8. \A i \in 1..Len(fs) : i # Len(fs) => gs[i] = fs[i]
  BY <1>1, <1>6 DEF Topped
<1>9. /\ Framed(u, gs, us) /\ SameFlow(fs, gs) /\ Outs(gs) = Outs(fs)
      /\ gs # <<>> /\ Last(gs) = g /\ Len(gs) = Len(fs)
  BY <1>3, <1>4, <1>5, <1>6, <1>7, MoveTop DEF f
<1> QED BY <1>3, <1>5, <1>8, <1>9 DEF f

(* A statement is begun. *)
LEMMA InvBegin ==
  ASSUME NEW t, NEW fs, NEW ld, NEW us, Inv(t, fs, ld, us), fs # <<>>,
         Last(fs).want = "stats",
         NEW u, NEW P, Works(t, u, P, us), Outs(fs) \subseteq P,
         NEW f \in FrameSet, Shaped(f), Allowed(f, us), f.k \in StatKinds, f.k \notin FlowKinds,
         HasAll(u, f), f.out.type # "TMP",
         NEW gs, gs = Append([fs EXCEPT ![Len(fs)] = [Last(fs) EXCEPT !.some = TRUE]], f)
  PROVE  Inv(u, gs, ld, us)
<1>1. Framed(u, fs, us)
  BY StackStays
<1> DEFINE hs == [fs EXCEPT ![Len(fs)] = [Last(fs) EXCEPT !.some = TRUE]]
<1>2. /\ Framed(u, hs, us) /\ SameFlow(fs, hs) /\ Outs(hs) = Outs(fs)
      /\ hs # <<>> /\ Last(hs).want = "stats"
  BY <1>1, MoveSome
<1>3. Pushed(hs, f, gs)
  BY DEF Pushed
<1> HIDE DEF hs
<1>4. OnTop(f, Last(hs))
  BY <1>2 DEF OnTop
<1>5. Framed(u, gs, us) /\ SameFlow(hs, gs) /\ gs # <<>> /\ Outs(gs) = With(Outs(hs), f)
  BY <1>2, <1>3, <1>4, MovePush
<1>6. SameFlow(fs, gs)
  <2>1. Len(fs) \in Nat /\ Len(hs) \in Nat /\ Len(gs) \in Nat
    BY <1>1, <1>2, <1>5 DEF Framed
  <2> QED BY <1>2, <1>5, <2>1, SameFlows
<1>7. Outs(gs) = Outs(fs)
  BY <1>2, <1>5 DEF With, OutOf
<1> QED BY <1>5, <1>6, <1>7, Quietly

(* A statement is generated in one go. *)
LEMMA InvWhole ==
  ASSUME NEW t, NEW fs, NEW ld, NEW us, Inv(t, fs, ld, us), fs # <<>>,
         NEW u, NEW P, Works(t, u, P, us), Outs(fs) \subseteq P,
         NEW gs, gs = [fs EXCEPT ![Len(fs)] = [Last(fs) EXCEPT !.some = TRUE]]
  PROVE  Inv(u, gs, ld, us)
<1>1. Framed(u, fs, us)
  BY StackStays
<1>2. Framed(u, gs, us) /\ SameFlow(fs, gs) /\ Outs(gs) = Outs(fs) /\ gs # <<>>
  BY <1>1, MoveSome
<1> QED BY <1>2, Quietly

(* A statement is done. *)
LEMMA InvEnd ==
  ASSUME NEW t, NEW fs, NEW ld, NEW us, Inv(t, fs, ld, us), fs # <<>>,
         Last(fs).k \in StatKinds, Last(fs).k \notin FlowKinds,
         NEW u, NEW P, Works(t, u, P, us), Outs(fs) \subseteq P,
         NEW gs, gs = Front(fs)
  PROVE  Inv(u, gs, ld, us)
<1>1. Framed(u, fs, us)
  BY StackStays
<1>2. Last(fs).k # "func"
  BY DEF StatKinds, FlowKinds
<1>3. /\ Framed(u, gs, us) /\ SameFlow(fs, gs) /\ gs # <<>>
      /\ Outs(gs) = Without(Outs(fs), Last(fs))
  BY <1>1, <1>2, MovePop
<1>4. Outs(gs) \subseteq P
  BY <1>3 DEF Without
<1> QED BY <1>3, <1>4, Quietly

(***************************************************************************)
(* Lines of the usual shapes.                                              *)
(***************************************************************************)
(* What is no variable, temporary or literal may always be used. *)
LEMMA HasPlain ==
  ASSUME NEW t, NEW a \in Adrs, a.type \in {"EMPTY", "PARAM", "ARRAY", "LABEL"}
  PROVE  Has(t, a)
BY DEF Has, Current, Kept, LitOK

(* Nothing may always be used, and the literals of an address only matter to
   addresses of literals. *)
LEMMA HasBlank ==
  /\ \A t : Has(t, Blank)
  /\ \A t, a : a.type \notin {"ILIT", "FLIT", "STR"} => LitOK(t, a)
<1>1. \A t : Has(t, Blank)
  BY HasPlain, PlainAdrs
<1> QED BY <1>1 DEF LitOK

(* Neither is a branch. *)
LEMMA OpsAre ==
  /\ \A op \in Plain : op \in Operations /\ op \notin Loud /\ op \notin Readers /\ op # "FUNC"
  /\ \A op \in Taking : op \in Operations /\ op \notin Loud /\ op \in Readers /\ op # "FUNC"
<1>1. ASSUME NEW op \in Plain PROVE op \notin Loud /\ op \notin Readers /\ op # "FUNC"
  BY <1>1 DEF Plain, Loud, Readers
<1>2. ASSUME NEW op \in Taking PROVE op \notin Loud /\ op \in Readers /\ op # "FUNC"
  BY <1>2 DEF Taking, Loud, Readers
<1> QED BY <1>1, <1>2 DEF Operations

(* A line writes a temporary that was taken. *)
LEMMA WorkWrites ==
  ASSUME NEW t, TSok(t), NEW u, NEW P, NEW us, Works(t, u, P, us),
         NEW op \in Plain, NEW a \in Adrs, a.type = "TMP", a.n \in P,
         NEW b, Has(u, b), NEW c, Has(u, c), NEW w, w = Emit1(u, Line(op, a, b, c))
  PROVE  Works(t, w, P \ {a.n}, us) /\ Keeps(u, w) /\ Has(w, a)
<1> DEFINE l == Line(op, a, b, c)
           Q == P \ {a.n}
<1>1. /\ l \in LineSet /\ l.op = op /\ l.left = a /\ l.middle = b /\ l.right = c
      /\ op \notin Loud /\ op \notin Readers /\ op # "FUNC"
  <2>1. op \in Operations /\ op \notin Loud /\ op \notin Readers /\ op # "FUNC"
    BY OpsAre
  <2>2. b \in Adrs /\ c \in Adrs
    BY DEF Has
  <2> QED BY <2>1, <2>2, LineIs
<1>2. w = Emit1(u, l)
  OBVIOUS
<1> HIDE DEF l
<1>3. Addable(u, l, P, us)
  BY <1>1, HasBlank DEF Addable
<1>4. Q \subseteq P /\ Spares(l, Q)
  BY <1>1 DEF Spares
<1> HIDE DEF Q
<1>5. Works(t, w, Q, us) /\ Keeps(u, w) /\ (l.op \notin Readers => Has(w, l.left))
  BY <1>1, <1>2, <1>3, <1>4, WorkEmits
<1> QED BY <1>1, <1>5 DEF Q

(* A line writes a temporary that is taken for it. *)
LEMMA WorkTmp ==
  ASSUME NEW t, TSok(t), NEW u, NEW P, NEW us, Works(t, u, P, us),
         NEW op \in Plain, NEW ty \in Types,
         NEW b, Has(u, b), NEW c, Has(u, c),
         NEW w, w = Emit1(TookTmp(u), Line(op, Tmp(u, ty), b, c))
  PROVE  Works(t, w, P, us) /\ Keeps(u, w) /\ Has(w, Tmp(u, ty))
<1> DEFINE v == TookTmp(u)
           a == Tmp(u, ty)
<1>1. /\ Works(t, v, P \cup {u.tmp}, us) /\ Keeps(u, v)
      /\ u.tmp \notin P /\ u.tmp \in Nat
  BY WorkTakes
<1>2. a \in Adrs /\ a.type = "TMP" /\ a.n = u.tmp
  BY <1>1, PlainAdrs
<1>3. w = Emit1(v, Line(op, a, b, c))
  OBVIOUS
<1> DEFINE R == P \cup {u.tmp}
<1> HIDE DEF v, a
<1>4. Has(v, b) /\ Has(v, c)
  BY <1>1 DEF Keeps
<1>5. a.n \in R /\ Works(t, v, R, us)
  BY <1>1, <1>2
<1>a. R \ {a.n} = P
  BY <1>1, <1>2
<1> HIDE DEF R
<1>6. Works(t, w, R \ {a.n}, us) /\ Keeps(v, w) /\ Has(w, a)
  BY <1>2, <1>3, <1>4, <1>5, WorkWrites
<1>7. Keeps(u, w)
  BY <1>1, <1>6 DEF Keeps
<1> QED BY <1>6, <1>7, <1>a DEF a

(* A line writes no temporary. *)
LEMMA WorkReads ==
  ASSUME NEW t, TSok(t), NEW u, NEW P, NEW us, Works(t, u, P, us),
         NEW op \in Plain \cup Taking, NEW a, Has(u, a), op \in Taking \/ a.type # "TMP",
         NEW b, Has(u, b), NEW c, Has(u, c), NEW w, w = Emit1(u, Line(op, a, b, c))
  PROVE  Works(t, w, P, us) /\ Keeps(u, w)
<1> DEFINE l == Line(op, a, b, c)
<1>1. /\ l \in LineSet /\ l.op = op /\ l.left = a /\ l.middle = b /\ l.right = c
      /\ op \notin Loud /\ op # "FUNC"
  <2>1. op \in Operations /\ op \notin Loud /\ op # "FUNC"
    BY OpsAre
  <2>2. a \in Adrs /\ b \in Adrs /\ c \in Adrs
    BY DEF Has
  <2> QED BY <2>1, <2>2, LineIs
<1>a. op \notin Readers => a.type # "TMP"
  BY OpsAre
<1>2. w = Emit1(u, l)
  OBVIOUS
<1> HIDE DEF l
<1>3. Addable(u, l, P, us)
  BY <1>1, <1>a DEF Addable, Has
<1>4. Spares(l, P)
  BY <1>1, <1>a DEF Spares
<1>5. Works(t, w, P, us) /\ Keeps(u, w)
  BY <1>1, <1>2, <1>3, <1>4, WorkEmits
<1> QED BY <1>5

(* The lines of the generator, one at a time. *)
LEMMA EmitsAre ==
  ASSUME NEW t, TSok(t), NEW l \in LineSet, NEW m \in LineSet
  PROVE  Emit(t, <<l, m>>) = Emit1(Emit1(t, l), m)
<1>1. t.lines \in Seq(LineSet)
  BY DEF TSok
<1>2. (t.lines \o <<l>>) \o <<m>> = t.lines \o <<l, m>>
  <2> DEFINE x == (t.lines \o <<l>>) \o <<m>>
             y == t.lines \o <<l, m>>
  <2>1. Len(x) = Len(t.lines) + 2 /\ Len(y) = Len(t.lines) + 2
    BY <1>1
  <2>2. x \in Seq(LineSet) /\ y \in Seq(LineSet)
    BY <1>1
  <2>3. \A i \in 1..(Len(t.lines) + 2) : x[i] = y[i]
    BY <1>1
  <2> HIDE DEF x, y
  <2>4. x = y
    BY <2>1, <2>2, <2>3, SeqEqual
  <2> QED BY <2>4 DEF x, y
<1>3. Emit(t, <<l>>) = [t EXCEPT !.lines = @ \o <<l>>]
  BY DEF Emit
<1>4. Emit(t, <<l>>).lines = t.lines \o <<l>>
  BY <1>3 DEF TSok
<1> QED BY <1>2, <1>3, <1>4 DEF Emit, Emit1, TSok

(* A frame of a kind, with nothing of its own yet. *)
Fresh(g, k) ==
  /\ g \in FrameSet /\ g.k = k
  /\ g.out = Blank /\ g.labs = <<>> /\ g.owe = 0 /\ g.name = "none" /\ g.begin = 0
  /\ g.field = 0 /\ g.ty = "none" /\ g.call = <<>>
Wanted(tys, adrs) == IF Len(adrs) < Len(tys) THEN tys[Len(adrs) + 1] ELSE "stats"
Kinds == ExprKinds \cup StatKinds \cup {"func"}

MadeOf(g, k, tys, adrs) ==
  Fresh(g, k) /\ g.tys = tys /\ g.adrs = adrs /\ g.want = Wanted(tys, adrs)

(* The frame of a construct. *)
LEMMA FrameIs ==
  ASSUME NEW k \in Kinds, NEW tys \in Seq(Wants), NEW adrs \in Seq(Adrs)
  PROVE  MadeOf(Frame(k, tys, adrs), k, tys, adrs)
<1>1. Wanted(tys, adrs) \in Wants \cup {"step", "stats"}
  BY DEF Wants, Wanted
<1>2. Blank \in Adrs /\ <<>> \in Seq(Nat)
  BY PlainAdrs
<1> QED BY <1>1, <1>2 DEF Frame, FrameSet, Fresh, Kinds, Wanted, MadeOf

(* Frames of constructs that wait for two operands, for the second of two, for
   one and for none. *)
Two(k, a, b)    == Frame(k, <<a, b>>, <<>>)
Half(k, a, b, x) == Frame(k, <<a, b>>, <<x>>)
One(k, a)       == Frame(k, <<a>>, <<>>)
None(k)         == Frame(k, <<>>, <<>>)

(* What they wait for. *)
LEMMA FramesAre ==
  ASSUME NEW k \in Kinds
  PROVE  /\ \A a, b \in Wants :
              /\ Fresh(Two(k, a, b), k) /\ Two(k, a, b).want = a
              /\ Len(Two(k, a, b).tys) = 2 /\ Two(k, a, b).tys[1] = a
              /\ Two(k, a, b).tys[2] = b /\ Len(Two(k, a, b).adrs) = 0
         /\ \A a, b \in Wants, x \in Adrs :
              /\ Fresh(Half(k, a, b, x), k) /\ Half(k, a, b, x).want = b
              /\ Len(Half(k, a, b, x).tys) = 2 /\ Half(k, a, b, x).tys[1] = a
              /\ Half(k, a, b, x).tys[2] = b
              /\ Len(Half(k, a, b, x).adrs) = 1 /\ Half(k, a, b, x).adrs[1] = x
         /\ \A a \in Wants :
              /\ Fresh(One(k, a), k) /\ One(k, a).want = a
              /\ Len(One(k, a).tys) = 1 /\ One(k, a).tys[1] = a /\ Len(One(k, a).adrs) = 0
         /\ Fresh(None(k), k) /\ None(k).want = "stats"
         /\ Len(None(k).tys) = 0 /\ Len(None(k).adrs) = 0
<1> DEFINE none == <<>>
<1>0. none \in Seq(Adrs) /\ Len(none) = 0 /\ none \in Seq(Wants)
  OBVIOUS
<1>1. ASSUME NEW a \in Wants, NEW b \in Wants
      PROVE  /\ Fresh(Two(k, a, b), k) /\ Two(k, a, b).want = a
             /\ Len(Two(k, a, b).tys) = 2 /\ Two(k, a, b).tys[1] = a
             /\ Two(k, a, b).tys[2] = b /\ Len(Two(k, a, b).adrs) = 0
  <2> DEFINE tys == <<a, b>>
             g == Two(k, a, b)
  <2>1. tys \in Seq(Wants) /\ Len(tys) = 2 /\ tys[1] = a /\ tys[2] = b
    OBVIOUS
  <2>2. g = Frame(k, tys, none)
    BY DEF Two
  <2> HIDE DEF tys, g, none
  <2>3. /\ Fresh(g, k) /\ g.tys = tys /\ g.adrs = none
        /\ g.want = Wanted(tys, none)
    BY <1>0, <2>1, <2>2, FrameIs, ZenonT(30) DEF MadeOf
  <2>4. g.want = a
    BY <1>0, <2>1, <2>3 DEF Wanted
  <2> QED BY <1>0, <2>1, <2>3, <2>4 DEF g
<1>2. ASSUME NEW a \in Wants, NEW b \in Wants, NEW x \in Adrs
      PROVE  /\ Fresh(Half(k, a, b, x), k) /\ Half(k, a, b, x).want = b
             /\ Len(Half(k, a, b, x).tys) = 2 /\ Half(k, a, b, x).tys[1] = a
             /\ Half(k, a, b, x).tys[2] = b
             /\ Len(Half(k, a, b, x).adrs) = 1 /\ Half(k, a, b, x).adrs[1] = x
  <2> DEFINE tys == <<a, b>>
             one == <<x>>
             g == Half(k, a, b, x)
  <2>1. /\ tys \in Seq(Wants) /\ Len(tys) = 2 /\ tys[1] = a /\ tys[2] = b
        /\ one \in Seq(Adrs) /\ Len(one) = 1 /\ one[1] = x
    OBVIOUS
  <2>2. g = Frame(k, tys, one)
    BY DEF Half
  <2> HIDE DEF tys, g, one
  <2>3. /\ Fresh(g, k) /\ g.tys = tys /\ g.adrs = one
        /\ g.want = Wanted(tys, one)
    BY <2>1, <2>2, FrameIs, ZenonT(30) DEF MadeOf
  <2>4. g.want = b
    BY <2>1, <2>3 DEF Wanted
  <2> QED BY <2>1, <2>3, <2>4 DEF g
<1>3. ASSUME NEW a \in Wants
      PROVE  /\ Fresh(One(k, a), k) /\ One(k, a).want = a
             /\ Len(One(k, a).tys) = 1 /\ One(k, a).tys[1] = a /\ Len(One(k, a).adrs) = 0
  <2> DEFINE tys == <<a>>
             g == One(k, a)
  <2>1. tys \in Seq(Wants) /\ Len(tys) = 1 /\ tys[1] = a
    OBVIOUS
  <2>2. g = Frame(k, tys, none)
    BY DEF One
  <2> HIDE DEF tys, g, none
  <2>3. /\ Fresh(g, k) /\ g.tys = tys /\ g.adrs = none
        /\ g.want = Wanted(tys, none)
    BY <1>0, <2>1, <2>2, FrameIs, ZenonT(30) DEF MadeOf
  <2>4. g.want = a
    BY <1>0, <2>1, <2>3 DEF Wanted
  <2> QED BY <1>0, <2>1, <2>3, <2>4 DEF g
<1>4. /\ Fresh(None(k), k) /\ None(k).want = "stats"
      /\ Len(None(k).tys) = 0 /\ Len(None(k).adrs) = 0
  <2> DEFINE g == None(k)
  <2>2. g = Frame(k, none, none)
    BY DEF None
  <2> HIDE DEF g, none
  <2>3. /\ Fresh(g, k) /\ g.tys = none /\ g.adrs = none
        /\ g.want = Wanted(none, none)
    BY <1>0, <2>2, FrameIs, ZenonT(30) DEF MadeOf
  <2> QED BY <1>0, <2>3 DEF g, Wanted
<1> QED BY <1>1, <1>2, <1>3, <1>4

(***************************************************************************)
(* Operands.                                                               *)
(***************************************************************************)
Now == Inv(ts, frames, land, uses) /\ Context

(* What is known where an operand is waited for. *)
LEMMA AtWaits ==
  ASSUME Now, NEW ty \in Wants, Waits(ty)
  PROVE  /\ frames # <<>> /\ Last(frames).want = ty /\ Last(frames).want \in Wants
         /\ Works(ts, ts, Outs(frames), uses) /\ TSok(ts)
BY WorkStarts DEF Now, Waits, InCode, Top

(* tac_resolve_boolean has taken a temporary. *)
LEMMA AheadWorks ==
  ASSUME Now, frames # <<>>, NEW ty, NEW u, u = Ahead(ty)
  PROVE  /\ \E P : Works(ts, u, P, uses) /\ Outs(frames) \subseteq P
         /\ Keeps(ts, u) /\ TSok(u) /\ TSok(ts)
<1>1. Works(ts, ts, Outs(frames), uses) /\ TSok(ts)
  BY WorkStarts DEF Now
<1>2. CASE ty = "bool"
  <2>1. Works(ts, u, Outs(frames) \cup {ts.tmp}, uses) /\ Keeps(ts, u)
    BY <1>1, <1>2, WorkTakes DEF Ahead
  <2>2. Outs(frames) \subseteq Outs(frames) \cup {ts.tmp}
    OBVIOUS
  <2> QED BY <1>1, <2>1, <2>2 DEF Works, Good, Sound
<1>3. CASE ty # "bool"
  BY <1>1, <1>3 DEF Ahead, Keeps
<1> QED BY <1>2, <1>3

(* An address is passed on, perhaps after a temporary was taken. *)
LEMMA GiveAhead ==
  ASSUME Now, NEW ty \in Wants, Waits(ty), NEW a, Has(ts, a),
         NEW u, u = Ahead(ty) \/ u = ts, NEW gs, gs = Given(frames, a)
  PROVE  Inv(u, gs, land, uses)
<1>1. frames # <<>> /\ Last(frames).want \in Wants
  BY AtWaits
<1>2. Inv(ts, frames, land, uses)
  BY DEF Now
<1>3. PICK P : Works(ts, u, P, uses) /\ Outs(frames) \subseteq P
  BY <1>1, AheadWorks, AtWaits
<1>4. Has(u, a)
  BY <1>3 DEF Works, Keeps
<1> QED BY <1>1, <1>2, <1>3, <1>4, InvGive

(* The variables that are there. *)
LEMMA LocalsHas ==
  ASSUME Now, frames # <<>>, HasLocals, NEW i \in DOMAIN Locals
  PROVE  /\ Has(ts, Adr("VAR", i - 1, Locals[i], 0)) /\ Locals[i] \in {"int", "real", "bool"}
         /\ Adr("VAR", i - 1, Locals[i], 0).type = "VAR"
         /\ Adr("VAR", i - 1, Locals[i], 0) \in Adrs
<1>1. i \in 1..3 /\ Locals[i] \in {"int", "real", "bool"}
  BY DEF Locals
<1>2. Has(ts, VarAdr(i))
  BY <1>1 DEF Now, Inv, Framed, HasLocals, Uses
<1>3. VarAdr(i).type = "VAR" /\ VarAdr(i) \in Adrs
  BY <1>1, PlainAdrs
<1> QED BY <1>1, <1>2, <1>3 DEF VarAdr

(* A variable as an operand. *)
LEMMA VariableStep ==
  ASSUME Now, NEW i \in DOMAIN Locals, Variable(i)
  PROVE  Inv(ts', frames', land', uses')
<1>1. /\ Waits(Locals[i]) /\ HasLocals /\ frames # <<>>
      /\ ts' = Ahead(Top.want) /\ Top.want = Locals[i]
      /\ frames' = Given(frames, Adr("VAR", i - 1, Locals[i], 0))
      /\ land' = land /\ uses' = uses
  BY DEF Variable, Give, Rest, Waits, InCode
<1>2. Has(ts, Adr("VAR", i - 1, Locals[i], 0)) /\ Locals[i] \in Wants
  BY <1>1, LocalsHas DEF Wants
<1> QED BY <1>1, <1>2, GiveAhead

(* Parameters have the types that operands have. *)
LEMMA ParsAre ==
  ASSUME Now, frames # <<>>
  PROVE  /\ Pars \in Seq({"int", "real", "ptr"})
         /\ frames[1].name \in Names
         /\ frames[1].name # "main" => frames[1].name \in Funcs
         /\ \A f \in Funcs : /\ sigs[f].pars \in Seq({"int", "real", "ptr"})
                             /\ sigs[f].pars # <<>> /\ sigs[f].ret \in {"int", "real", "none"}
<1>1. \A f \in Funcs : sigs[f] \in Signatures
  BY DEF Now, Context
<1>2. \A s \in Signatures : /\ s.pars \in Seq({"int", "real", "ptr"}) /\ s.pars # <<>>
                            /\ s.ret \in {"int", "real", "none"}
  <2> DEFINE S == {"int", "real", "ptr"}
  <2>1. <<"int">> \in Seq(S) /\ <<"real", "int">> \in Seq(S) /\ <<"ptr", "real">> \in Seq(S)
    OBVIOUS
  <2>2. <<"int">> # <<>> /\ <<"real", "int">> # <<>> /\ <<"ptr", "real">> # <<>>
    OBVIOUS
  <2> HIDE DEF S
  <2>3. ASSUME NEW s \in Signatures
        PROVE  s.pars \in Seq(S) /\ s.pars # <<>> /\ s.ret \in {"int", "real", "none"}
    <3>1. CASE s = [pars |-> <<"int">>, ret |-> "real"]
      BY <2>1, <2>2, <3>1
    <3>2. CASE s = [pars |-> <<"real", "int">>, ret |-> "int"]
      BY <2>1, <2>2, <3>2
    <3>3. CASE s = [pars |-> <<"ptr", "real">>, ret |-> "none"]
      BY <2>1, <2>2, <3>3
    <3> QED BY <3>1, <3>2, <3>3 DEF Signatures
  <2> QED BY <2>3 DEF S
<1>3. frames[1].name \in Names
  <2>1. frames \in Seq(FrameSet) /\ Stacked1(frames) /\ 1 \in 1..Len(frames)
    BY DEF Now, Inv, Framed
  <2>2. frames[1].k = "func" /\ Shaped(frames[1])
    BY <2>1 DEF Now, Inv, Framed, Stacked1
  <2> QED BY <2>2 DEF Shaped
<1>4. frames[1].name # "main" => frames[1].name \in Funcs
  BY <1>3 DEF Names
<1> QED BY <1>1, <1>2, <1>3, <1>4 DEF Pars

(* A parameter as an operand. *)
LEMMA ParameterStep ==
  ASSUME Now, NEW i, Parameter(i)
  PROVE  Inv(ts', frames', land', uses')
<1> DEFINE a == Adr("PARAM", i - 1, Pars[i], 0)
<1>1. /\ Waits(Pars[i]) /\ frames # <<>> /\ i \in DOMAIN Pars
      /\ ts' = Ahead(Top.want) /\ Top.want = Pars[i]
      /\ frames' = Given(frames, a)
      /\ land' = land /\ uses' = uses
  BY DEF Parameter, Give, Rest, Waits, InCode
<1>2. Pars[i] \in {"int", "real", "ptr"} /\ i - 1 \in Nat
  <2> DEFINE p == Pars
  <2>1. p \in Seq({"int", "real", "ptr"}) /\ i \in DOMAIN p
    BY <1>1, ParsAre
  <2> HIDE DEF p
  <2>2. p[i] \in {"int", "real", "ptr"} /\ i - 1 \in Nat
    BY <2>1
  <2> QED BY <2>2 DEF p
<1>3. a \in Adrs /\ a.type = "PARAM"
  <2>1. "PARAM" \in AdrTypes /\ Pars[i] \in Types /\ 0 \in Vals
    BY <1>2 DEF AdrTypes, Types, Vals
  <2> QED BY <1>2, <2>1, AdrIs
<1>4. Has(ts, a) /\ Pars[i] \in Wants
  BY <1>2, <1>3, HasPlain DEF Wants
<1> HIDE DEF a
<1> QED BY <1>1, <1>4, GiveAhead

(* The array as an operand. *)
LEMMA ArrayHas ==
  /\ Adr("ARRAY", 0, "ptr", 0) \in Adrs /\ Adr("ARRAY", 0, "ptr", 0).type = "ARRAY"
  /\ \A t : Has(t, Adr("ARRAY", 0, "ptr", 0))
<1>1. Adr("ARRAY", 0, "ptr", 0) \in Adrs /\ Adr("ARRAY", 0, "ptr", 0).type = "ARRAY"
  BY AdrIs DEF AdrTypes, Types, Vals
<1> QED BY <1>1, HasPlain

(* The array as an argument. *)
LEMMA WholeArrayStep ==
  ASSUME Now, WholeArray
  PROVE  Inv(ts', frames', land', uses')
<1>1. /\ Waits("ptr") /\ ts' = ts /\ frames' = Given(frames, Adr("ARRAY", 0, "ptr", 0))
      /\ land' = land /\ uses' = uses /\ "ptr" \in Wants
  BY DEF WholeArray, Give, Rest, Wants
<1> QED BY <1>1, ArrayHas, GiveAhead

(* A literal goes to its pool and is passed on. *)
LEMMA GiveLiteral ==
  ASSUME Now, NEW ty \in Wants, Waits(ty), NEW q \in Pools, NEW v \in Vals,
         NEW u, u = Intern(ts, q, v), NEW gs, gs = Given(frames, AdrOf(ts, q, v))
  PROVE  Inv(u, gs, land, uses)
<1>1. /\ frames # <<>> /\ Last(frames).want \in Wants /\ TSok(ts)
      /\ Works(ts, ts, Outs(frames), uses) /\ Inv(ts, frames, land, uses)
  BY AtWaits DEF Now
<1>2. Works(ts, u, Outs(frames), uses) /\ Has(u, AdrOf(ts, q, v))
  BY <1>1, WorkInterns
<1> QED BY <1>1, <1>2, InvGive

(* A literal as an operand. *)
LEMMA LiteralStep ==
  ASSUME Now, NEW q \in Numeric, NEW v \in Nat, Literal(q, v)
  PROVE  Inv(ts', frames', land', uses')
<1>1. /\ Waits(q) /\ ts' = Intern(ts, q, v) /\ frames' = Given(frames, AdrOf(ts, q, v))
      /\ land' = land /\ uses' = uses
      /\ q \in Wants /\ q \in Pools /\ v \in Vals
  BY DEF Literal, Give, Rest, Wants, Numeric, Pools, Vals
<1> QED BY <1>1, GiveLiteral

(* An integer in the place of a real argument. *)
LEMMA IntegerForRealStep ==
  ASSUME Now, NEW v \in Nat, IntegerForReal(v)
  PROVE  Inv(ts', frames', land', uses')
<1>1. /\ Waits("real") /\ ts' = Intern(ts, "int", v)
      /\ frames' = Given(frames, AdrOf(ts, "int", v))
      /\ land' = land /\ uses' = uses
      /\ "real" \in Wants /\ "int" \in Pools /\ v \in Vals
  BY DEF IntegerForReal, Give, Rest, Wants, Pools, Vals
<1> QED BY <1>1, GiveLiteral

(* A constant as an operand: where the map of constants says it is. *)
LEMMA ConstantStep ==
  ASSUME Now, NEW c \in DOMAIN ts.consts, Constant(c)
  PROVE  Inv(ts', frames', land', uses')
<1> DEFINE n == ts.consts[c]
           a == Adr(LitType(c[1]), n, c[1], c[2])
<1>1. /\ Waits(c[1]) /\ ts' = ts /\ frames' = Given(frames, a)
      /\ land' = land /\ uses' = uses
  BY DEF Constant, Give, Rest
<1>2. Sound(ts, uses)
  BY DEF Now, Inv
<1>3. c[1] \in {"int", "real"} /\ c[2] \in Nat /\ n \in Nat
  BY <1>2 DEF Sound, TSok
<1>4. /\ LitType(c[1]) \in AdrTypes /\ LitType(c[1]) \in {"ILIT", "FLIT"}
      /\ PoolOf(LitType(c[1])) = c[1] /\ c[1] \in Types /\ c[1] \in Wants
  BY <1>3 DEF LitType, AdrTypes, PoolOf, Types, Wants
<1>5. RealFree(ts) => At(ts, c[1], n, c[2])
  BY <1>2 DEF Sound, Pooled
<1> HIDE DEF n
<1>6. /\ a \in Adrs /\ a.type = LitType(c[1]) /\ a.n = n /\ a.val = c[2]
  BY <1>3, <1>4, AdrIs DEF Vals
<1> HIDE DEF a
<1>7. Current(ts.lines, a)
  BY <1>4, <1>6 DEF Current, Kept
<1>8. LitOK(ts, a)
  BY <1>4, <1>5, <1>6 DEF LitOK
<1>9. Has(ts, a)
  BY <1>6, <1>7, <1>8 DEF Has
<1> QED BY <1>1, <1>4, <1>9, GiveAhead

(* The value true, in a temporary. *)
LEMMA TrueValueStep ==
  ASSUME Now, TrueValue
  PROVE  Inv(ts', frames', land', uses')
<1>1. /\ Waits("bool") /\ frames' = Given(frames, Tmp(ts, "bool"))
      /\ ts' = Emit1(TookTmp(ts), Line("TRUE", Tmp(ts, "bool"), Blank, Blank))
      /\ land' = land /\ uses' = uses /\ "bool" \in Wants /\ "bool" \in Types /\ "TRUE" \in Plain
  BY DEF TrueValue, Give, Rest, Wants, Emit1, Unary, Types, Plain
<1>2. /\ frames # <<>> /\ Last(frames).want \in Wants /\ TSok(ts)
      /\ Works(ts, ts, Outs(frames), uses) /\ Inv(ts, frames, land, uses)
  BY <1>1, AtWaits DEF Now
<1>3. Works(ts, ts', Outs(frames), uses) /\ Has(ts', Tmp(ts, "bool"))
  BY <1>1, <1>2, WorkTmp, HasBlank
<1> QED BY <1>1, <1>2, <1>3, InvGive

(***************************************************************************)
(* Operators.                                                              *)
(***************************************************************************)
(* What it means for an operator's frame to be well shaped. *)
ShapedOp(f) ==
  /\ Len(f.tys) = 2 /\ f.want # "stats" /\ Len(f.adrs) <= 2
  /\ f.want \in Wants => Len(f.adrs) < 2
  /\ f.want = "step" => Len(f.adrs) \in {1, 2}
  /\ f.out.type \in {"EMPTY", "TMP"}
  /\ f.out.type = "TMP" <=> f.k # "arith"
  /\ f.labs = <<>> /\ f.owe = 0

(* It is just this. *)
LEMMA ShapedOps ==
  ASSUME NEW f, f.k \in Ops2
  PROVE  Shaped(f) <=> ShapedOp(f)
<1>1. f.k \notin FlowKinds \cup {"func", "call", "fncall", "asgn", "update", "elem", "copy",
                               "print", "read", "return"}
  BY DEF Ops2, FlowKinds
<1>2. f.k \in {"relop", "not", "logic"} <=> f.k # "arith"
  BY DEF Ops2
<1>a. FlowKinds = {"if", "ifelse", "for", "repeat"}
  BY DEF FlowKinds
<1>3. ASSUME Shaped(f) PROVE ShapedOp(f)
  <2>1. /\ Len(f.adrs) <= Len(f.tys) /\ Len(f.tys) = 2
        /\ f.want \in Wants => Len(f.adrs) < Len(f.tys)
        /\ f.want # "stats"
    BY <1>1, <1>3 DEF Shaped
  <2>2. /\ f.want = "step" => Len(f.adrs) \in {1, 2}
        /\ f.labs = <<>> /\ f.owe = 0
    BY <1>1, <1>3 DEF Shaped
  <2>3. /\ f.out.type \in {"EMPTY", "TMP"}
        /\ f.out.type = "TMP" => f.k \in {"relop", "not", "logic", "fncall", "elem"}
        /\ f.k \in {"relop", "not", "logic", "fncall"} => f.out.type = "TMP"
    BY <1>3 DEF Shaped
  <2>4. f.out.type = "TMP" <=> f.k # "arith"
    BY <1>1, <1>2, <2>3
  <2> QED BY <2>1, <2>2, <2>3, <2>4 DEF ShapedOp
<1>4. ASSUME ShapedOp(f) PROVE Shaped(f)
  BY <1>1, <1>2, <1>a, <1>4 DEF Shaped, ShapedOp
<1> QED BY <1>3, <1>4

OpFrame(k, a, b, out, ty) == [Two(k, a, b) EXCEPT !.out = out, !.ty = ty]

(* The frame of an operator of two operands. *)
LEMMA Frame2 ==
  ASSUME NEW k \in Ops2, NEW a \in Wants, NEW b \in Wants,
         NEW ty \in {"int", "real"}, NEW out \in Adrs,
         IF k = "arith" THEN out = Blank ELSE out.type = "TMP",
         NEW f, f = OpFrame(k, a, b, out, ty)
  PROVE  f \in FrameSet /\ Shaped(f) /\ f.k = k /\ f.out = out /\ Len(f.adrs) = 0
<1> DEFINE g == Two(k, a, b)
<1>2. k \in Kinds
  BY DEF ExprKinds, Kinds
<1>3. Fresh(g, k) /\ g.want = a /\ Len(g.tys) = 2 /\ Len(g.adrs) = 0
  BY <1>2, FramesAre
<1>b. f = [g EXCEPT !.out = out, !.ty = ty]
  BY DEF OpFrame
<1> HIDE DEF g
<1>4. /\ f \in FrameSet /\ f.k = k /\ f.tys = g.tys /\ f.adrs = g.adrs /\ f.out = out
      /\ f.labs = <<>> /\ f.owe = 0 /\ f.want = a
  BY <1>3, <1>b DEF FrameSet, Fresh
<1>5. a # "step" /\ a # "stats"
  BY DEF Wants
<1>6. Blank.type = "EMPTY"
  BY PlainAdrs
<1>7. k \in {"arith", "relop", "not", "logic"}
  BY DEF Ops2
<1>8. k = "arith" => f.out.type = "EMPTY"
  BY <1>4, <1>6
<1>9. k # "arith" => f.out.type = "TMP"
  BY <1>4
<1>11. Shaped(f)
  <2>1. Len(f.adrs) = 0 /\ Len(f.tys) = 2 /\ f.want # "step" /\ f.want # "stats"
    BY <1>3, <1>4, <1>5
  <2>2. ShapedOp(f)
    BY <1>4, <1>7, <1>8, <1>9, <2>1 DEF ShapedOp
  <2> QED BY <1>4, <2>2, ShapedOps
<1> QED BY <1>3, <1>4, <1>11

(* Arithmetic is begun. *)
LEMMA OpenArithStep ==
  ASSUME Now, NEW ty \in Numeric, NEW a \in Numeric, NEW b \in Numeric,
         OpenArith(ty, <<a, b>>)
  PROVE  Inv(ts', frames', land', uses')
<1> DEFINE f == [Two("arith", a, b) EXCEPT !.ty = ty]
           g == OpFrame("arith", a, b, Blank, ty)
<1>1. /\ Waits(ty) /\ ts' = ts /\ Pushed(frames, f, frames') /\ land' = land /\ uses' = uses
  BY DEF OpenArith, Open, Rest, Pushed, Two
<1>2. ty \in Wants /\ a \in Wants /\ b \in Wants /\ ty \in {"int", "real"} /\ "arith" \in Ops2
  BY DEF Numeric, Wants, Ops2
<1>3. Blank \in Adrs /\ Blank.type = "EMPTY"
  BY PlainAdrs
<1>4. f = g
  <2> DEFINE h == Two("arith", a, b)
  <2>1. h \in FrameSet /\ h.out = Blank
    <3>2. "arith" \in Kinds
      BY DEF ExprKinds, Ops2, Kinds
    <3> QED BY <1>2, <3>2, FramesAre DEF Fresh
  <2> HIDE DEF h
  <2>2. [h EXCEPT !.ty = ty] = [h EXCEPT !.out = Blank, !.ty = ty]
    BY <2>1 DEF FrameSet
  <2> QED BY <2>2 DEF h, OpFrame
<1> HIDE DEF f
<1>5. g \in FrameSet /\ Shaped(g) /\ g.k = "arith" /\ g.out = Blank /\ Len(g.adrs) = 0
  BY <1>2, <1>3, Frame2
<1> HIDE DEF g
<1>6. HasAll(ts, f) /\ f.k \in ExprKinds /\ f.out.type # "TMP"
  BY <1>3, <1>4, <1>5 DEF HasAll, ExprKinds, Ops2
<1>7. /\ frames # <<>> /\ Last(frames).want \in Wants /\ TSok(ts)
      /\ Works(ts, ts, Outs(frames), uses) /\ Inv(ts, frames, land, uses)
  BY <1>1, <1>2, AtWaits DEF Now
<1> QED BY <1>1, <1>4, <1>5, <1>6, <1>7, InvOpen

(* A relation or a connective is begun, its temporary is taken. *)
LEMMA OpenBoolStep ==
  ASSUME Now, NEW k \in {"relop", "not", "logic"}, NEW a \in Wants, NEW b \in Wants,
         OpenBool(k, <<a, b>>)
  PROVE  Inv(ts', frames', land', uses')
<1> DEFINE out == Tmp(ts, "bool")
           ty == IF "real" \in ToSet(<<a, b>>) THEN "real" ELSE "int"
           f == OpFrame(k, a, b, out, ty)
<1>1. /\ Waits("bool") /\ ts' = TookTmp(ts) /\ Pushed(frames, f, frames')
      /\ land' = land /\ uses' = uses
  BY DEF OpenBool, Open, Rest, Pushed, OpFrame, Two
<1>2. "bool" \in Wants /\ ty \in {"int", "real"} /\ k \in Ops2 /\ "bool" \in Types
  BY DEF Wants, Ops2, Types
<1> HIDE DEF ty
<1>3. /\ frames # <<>> /\ Last(frames).want \in Wants /\ TSok(ts)
      /\ Works(ts, ts, Outs(frames), uses) /\ Inv(ts, frames, land, uses)
  BY <1>1, <1>2, AtWaits DEF Now
<1> DEFINE P == Outs(frames) \cup {ts.tmp}
<1>4. /\ Works(ts, ts', P, uses) /\ ts.tmp \notin Outs(frames) /\ ts.tmp \in Nat
  BY <1>1, <1>3, WorkTakes
<1>5. out \in Adrs /\ out.type = "TMP" /\ out.n = ts.tmp
  BY <1>2, <1>4, PlainAdrs
<1>a. k # "arith"
  OBVIOUS
<1> HIDE DEF out
<1>6. f \in FrameSet /\ Shaped(f) /\ f.k = k /\ f.out = out /\ Len(f.adrs) = 0
  BY <1>2, <1>5, <1>a, Frame2
<1> HIDE DEF f
<1>7. HasAll(ts', f) /\ f.k \in ExprKinds
  BY <1>2, <1>6 DEF HasAll, ExprKinds
<1>8. f.out.n \in P /\ f.out.n \notin Outs(frames) /\ Outs(frames) \subseteq P
  BY <1>4, <1>5, <1>6
<1> HIDE DEF P
<1> QED BY <1>1, <1>3, <1>4, <1>6, <1>7, <1>8, InvOpen

(* An operand of the other type is made real. *)
LEMMA PromotedWorks ==
  ASSUME NEW t, TSok(t), NEW u, NEW P, NEW us, Works(t, u, P, us),
         NEW f, NEW a, Has(u, a), NEW w, w = Promoted(u, f, a)
  PROVE  Works(t, w, P, us) /\ Keeps(u, w) /\ Has(w, Promotion(u, f, a))
<1>1. CASE w = u
  BY <1>1 DEF Promotion, Keeps
<1>2. CASE w # u
  <2>1. /\ w = Emit1(TookTmp(u), Line("ITOF", Tmp(u, "real"), Blank, a))
        /\ Promotion(u, f, a) = Tmp(u, "real")
    BY <1>2 DEF Promoted, Promotion, Emit1, Binary
  <2>2. "ITOF" \in Plain /\ "real" \in Types /\ Has(u, Blank)
    BY HasBlank DEF Plain, Types
  <2> QED BY <2>1, <2>2, WorkTmp
<1> QED BY <1>1, <1>2

(* What is known of the frame on top. *)
LEMMA AtTop ==
  ASSUME Now, InCode
  PROVE  /\ frames # <<>> /\ Top = Last(frames) /\ Top \in FrameSet /\ Shaped(Top)
         /\ Allowed(Top, uses)
         /\ \A m \in 1..Len(Top.adrs) : Has(ts, Top.adrs[m])
         /\ Works(ts, ts, Outs(frames), uses) /\ TSok(ts)
         /\ Inv(ts, frames, land, uses)
         /\ Top.out.type = "TMP" => Top.out.n \in Outs(frames)
         /\ Without(Outs(frames), Top) \subseteq Outs(frames)
<1>1. frames # <<>> /\ Top = Last(frames) /\ Inv(ts, frames, land, uses)
  BY DEF InCode, Top, Now
<1>2. frames \in Seq(FrameSet)
  BY <1>1 DEF Inv, Framed
<1>3. Len(frames) \in 1..Len(frames) /\ Top = frames[Len(frames)]
  BY <1>1, <1>2 DEF Last
<1>4. Top \in FrameSet
  BY <1>2, <1>3
<1>5. /\ Shaped(Top) /\ Allowed(Top, uses)
      /\ \A m \in 1..Len(Top.adrs) : Has(ts, Top.adrs[m])
  BY <1>1, <1>3 DEF Inv, Framed
<1>6. Works(ts, ts, Outs(frames), uses) /\ TSok(ts)
  BY <1>1, WorkStarts
<1>7. Top.out.type = "TMP" => Top.out.n \in Outs(frames)
  BY <1>3 DEF Outs
<1>8. Without(Outs(frames), Top) \subseteq Outs(frames)
  BY DEF Without
<1> QED BY <1>1, <1>4, <1>5, <1>6, <1>7, <1>8

(* The left operand is there, and made real if need be. *)
LEMMA LeftOperandStep ==
  ASSUME Now, LeftOperand
  PROVE  Inv(ts', frames', land', uses')
<1> DEFINE a == Top.adrs[1]
           u == Promoted(ts, Top, a)
           b == Promotion(ts, Top, a)
           g == [Top EXCEPT !.adrs = <<b>>, !.want = Top.tys[2]]
<1>1. /\ InCode /\ Top.k \in Ops2 /\ Top.want = "step" /\ Len(Top.adrs) = 1
      /\ ts' = u /\ land' = land /\ uses' = uses
  BY DEF LeftOperand, Rest
<1>2. Topped(frames, g, frames')
  BY DEF LeftOperand, SetTop, Topped
<1>3. /\ frames # <<>> /\ Top = Last(frames) /\ Top \in FrameSet /\ Shaped(Top)
      /\ \A m \in 1..Len(Top.adrs) : Has(ts, Top.adrs[m])
      /\ Works(ts, ts, Outs(frames), uses) /\ TSok(ts) /\ Inv(ts, frames, land, uses)
  BY <1>1, AtTop
<1>4. Has(ts, a)
  BY <1>1, <1>3
<1> HIDE DEF a
<1>5. Works(ts, u, Outs(frames), uses) /\ Has(u, b)
  BY <1>3, <1>4, PromotedWorks
<1>6. b \in Adrs
  BY <1>5 DEF Has
<1> HIDE DEF u, b
<1>7. Len(Top.tys) = 2 /\ Top.tys \in Seq(Wants) /\ Top.tys[2] \in Wants
  <2>1. Len(Top.tys) = 2 /\ Top.tys \in Seq(Wants)
    BY <1>1, <1>3 DEF Shaped, FrameSet
  <2> QED BY <2>1
<1>8. <<b>> \in Seq(Adrs) /\ Len(<<b>>) = 1
  BY <1>6
<1>9. /\ g \in FrameSet /\ g.adrs = <<b>> /\ g.want = Top.tys[2] /\ g.k = Top.k
      /\ g.name = Top.name /\ g.out = Top.out /\ g.labs = Top.labs /\ g.owe = Top.owe
      /\ g.begin = Top.begin /\ g.field = Top.field /\ g.tys = Top.tys /\ g.call = Top.call
  BY <1>3, <1>7, <1>8 DEF FrameSet
<1> HIDE DEF g
<1>10. g.want # "step" /\ g.want # "stats"
  BY <1>7, <1>9 DEF Wants
<1>11. Shaped(g)
  <2>1. Len(g.adrs) = 1 /\ Len(g.tys) = 2 /\ g.k \in Ops2
    BY <1>1, <1>7, <1>8, <1>9
  <2>2. ShapedOp(Top)
    BY <1>1, <1>3, ShapedOps
  <2>3. ShapedOp(g)
    BY <1>9, <1>10, <2>1, <2>2 DEF ShapedOp
  <2> QED BY <2>1, <2>3, ShapedOps
<1>12. Alike(Last(frames), g)
  BY <1>3, <1>9, <1>10 DEF Alike
<1>13. HasAll(u, g)
  BY <1>5, <1>8, <1>9 DEF HasAll
<1>14. Framed(u, frames, uses)
  BY <1>3, <1>5, StackStays
<1>15. /\ Framed(u, frames', uses) /\ SameFlow(frames, frames')
       /\ Outs(frames') = Outs(frames) /\ frames' # <<>>
  BY <1>2, <1>3, <1>9, <1>11, <1>12, <1>13, <1>14, MoveTop
<1> QED BY <1>1, <1>3, <1>5, <1>15, Quietly

(* What an operator is called. *)
LEMMA OpOfIs ==
  ASSUME NEW f
  PROVE  OpOf(f) \in Plain
BY DEF OpOf, Plain

(* Both operands are there, the second one is made real if need be: the
   operation, and for some another that negates it. *)
LEMMA RightOperandStep ==
  ASSUME Now, RightOperand
  PROVE  Inv(ts', frames', land', uses')
<1> DEFINE a   == Top.adrs[2]
           x   == Top.adrs[1]
           t   == Promoted(ts, Top, a)
           b   == Promotion(ts, Top, a)
           op  == OpOf(Top)
           P   == Outs(frames)
           Q   == Without(P, Top)
<1>1. InCode /\ Top.k \in Ops2 /\ Top.want = "step" /\ Len(Top.adrs) = 2
      /\ land' = land /\ uses' = uses
  BY DEF RightOperand, Rest
<1>3. /\ frames # <<>> /\ Top = Last(frames) /\ Top \in FrameSet /\ Shaped(Top)
      /\ \A m \in 1..Len(Top.adrs) : Has(ts, Top.adrs[m])
      /\ Works(ts, ts, P, uses) /\ TSok(ts) /\ Inv(ts, frames, land, uses)
      /\ Top.out.type = "TMP" => Top.out.n \in P
      /\ Q \subseteq P
  BY <1>1, AtTop
<1>4. Has(ts, a) /\ Has(ts, x)
  BY <1>1, <1>3
<1>5. Works(ts, t, P, uses) /\ Has(t, b) /\ Keeps(ts, t)
  BY <1>3, <1>4, PromotedWorks
<1>6. Has(t, x)
  BY <1>4, <1>5 DEF Keeps
<1>7. op \in Plain /\ Top.ty \in Types /\ "bool" \in Types
  BY <1>3, OpOfIs DEF FrameSet, Types
<1>a. Last(frames).k \in ExprKinds
  BY <1>1, <1>3 DEF ExprKinds
<1>8. CASE Top.k = "arith"
  <2> DEFINE u == Emit1(TookTmp(t), Line(op, Tmp(t, Top.ty), x, b))
  <2>1. ts' = u /\ frames' = Given(Front(frames), Tmp(t, Top.ty))
    BY <1>8 DEF RightOperand, Return, Emit1
  <2>2. Works(ts, u, P, uses) /\ Has(u, Tmp(t, Top.ty))
    BY <1>3, <1>5, <1>6, <1>7, WorkTmp
  <2>3. Without(Outs(frames), Last(frames)) \subseteq P
    BY <1>3
  <2> HIDE DEF P, u
  <2> QED BY <1>1, <1>3, <1>a, <2>1, <2>2, <2>3, InvReturn
<1>9. CASE Top.k # "arith"
  <2> DEFINE u == Emit1(t, Line(op, Top.out, x, b))
  <2>1. Top.out.type = "TMP" /\ Top.out \in Adrs
    <3>1. ShapedOp(Top)
      BY <1>1, <1>3, ShapedOps
    <3>2. Top.out.type = "TMP"
      BY <1>9, <3>1 DEF ShapedOp
    <3>3. Top.out \in Adrs
      BY <1>3 DEF FrameSet
    <3> QED BY <3>2, <3>3
  <2>a. Top.out.n \in P
    BY <1>3, <2>1
  <2>2. Works(ts, u, P \ {Top.out.n}, uses) /\ Has(u, Top.out)
    <3> DEFINE out == Top.out
    <3>1. out \in Adrs /\ out.type = "TMP" /\ out.n \in P /\ u = Emit1(t, Line(op, out, x, b))
      BY <2>1, <2>a
    <3> HIDE DEF P, out, u, t, op, x, b
    <3>2. Works(ts, u, P \ {out.n}, uses) /\ Has(u, out)
      BY <1>3, <1>5, <1>6, <1>7, <3>1, WorkWrites
    <3> QED BY <3>2 DEF out
  <2>3. P \ {Top.out.n} = Q
    BY <2>1 DEF Without, OutOf
  <2>4. Works(ts, u, Q, uses) /\ Without(Outs(frames), Last(frames)) \subseteq Q
    BY <1>3, <2>2, <2>3
  <2>5. CASE Top.k = "not"
    <3> DEFINE w == Emit1(TookTmp(u), Line("NOT", Tmp(u, "bool"), Blank, Top.out))
    <3>1. ts' = w /\ frames' = Given(Front(frames), Tmp(u, "bool"))
      BY <1>9, <2>5 DEF RightOperand, Return, Emit1, Binary
    <3>2. "NOT" \in Plain /\ Has(u, Blank)
      BY HasBlank DEF Plain
    <3> HIDE DEF u, Q, P
    <3>3. Works(ts, w, Q, uses) /\ Has(w, Tmp(u, "bool"))
      BY <1>3, <1>7, <2>2, <2>4, <3>2, WorkTmp
    <3> HIDE DEF w
    <3> QED BY <1>1, <1>3, <1>a, <2>4, <3>1, <3>3, InvReturn
  <2>6. CASE Top.k # "not"
    <3>1. ts' = u /\ frames' = Given(Front(frames), Top.out)
      BY <1>9, <2>6 DEF RightOperand, Return, Emit1
    <3> HIDE DEF u, Q, P
    <3> QED BY <1>1, <1>3, <1>a, <2>2, <2>4, <3>1, InvReturn
  <2> QED BY <2>5, <2>6
<1> QED BY <1>8, <1>9

(***************************************************************************)
(* Addresses of elements, and calls in expressions.                        *)
(***************************************************************************)
(* What it means for the frame of any other construct without labels. *)
ShapedPlain(f) ==
  /\ Len(f.adrs) <= Len(f.tys) /\ f.want # "stats"
  /\ f.want \in Wants => Len(f.adrs) < Len(f.tys)
  /\ f.want = "step" => Len(f.adrs) = Len(f.tys)
  /\ f.k \in {"elem", "asgn", "copy", "update"} => Len(f.tys) = 2
  /\ f.k \in {"print", "read", "return"} => Len(f.tys) = 1
  /\ f.k \in {"asgn", "update"} =>
       f.tys[1] = "place" \/ (f.adrs # <<>> /\ f.adrs[1].type = "VAR")
  /\ f.k \in {"call", "fncall"} => f.name \in Funcs /\ Len(f.call) = 2
  /\ f.out.type \in {"EMPTY", "TMP"}
  /\ f.out.type = "TMP" => f.k \in {"fncall", "elem"}
  /\ f.k = "fncall" => f.out.type = "TMP"
  /\ f.labs = <<>> /\ f.owe = 0

PlainKinds == {"elem", "fncall", "call", "asgn", "copy", "update", "print", "read", "return"}

(* It is just this. *)
LEMMA ShapedPlains ==
  ASSUME NEW f, f.k \in PlainKinds
  PROVE  Shaped(f) <=> ShapedPlain(f)
<1>1. /\ f.k \notin Ops2 /\ f.k \notin FlowKinds
      /\ f.k \notin {"arith", "relop", "not", "logic", "func", "if", "ifelse", "for", "repeat"}
  BY DEF PlainKinds, Ops2, FlowKinds
<1>a. FlowKinds = {"if", "ifelse", "for", "repeat"}
  BY DEF FlowKinds
<1>3. ASSUME Shaped(f) PROVE ShapedPlain(f)
  <2>1. /\ Len(f.adrs) <= Len(f.tys) /\ f.want # "stats"
        /\ f.want \in Wants => Len(f.adrs) < Len(f.tys)
        /\ f.want = "step" => Len(f.adrs) = Len(f.tys)
    BY <1>1, <1>3 DEF Shaped
  <2>2. /\ f.k \in {"elem", "asgn", "copy", "update"} => Len(f.tys) = 2
        /\ f.k \in {"print", "read", "return"} => Len(f.tys) = 1
        /\ f.k \in {"asgn", "update"} =>
             f.tys[1] = "place" \/ (f.adrs # <<>> /\ f.adrs[1].type = "VAR")
        /\ f.k \in {"call", "fncall"} => f.name \in Funcs /\ Len(f.call) = 2
    BY <1>3 DEF Shaped
  <2>3. /\ f.out.type \in {"EMPTY", "TMP"}
        /\ f.out.type = "TMP" => f.k \in {"fncall", "elem"}
        /\ f.k = "fncall" => f.out.type = "TMP"
        /\ f.labs = <<>> /\ f.owe = 0
    BY <1>1, <1>3 DEF Shaped
  <2> QED BY <2>1, <2>2, <2>3 DEF ShapedPlain
<1>4. ASSUME ShapedPlain(f) PROVE Shaped(f)
  BY <1>1, <1>a, <1>4 DEF Shaped, ShapedPlain
<1> QED BY <1>3, <1>4

(* Where the place of an element is asked for, its array may be used. *)
LEMMA BasesHave ==
  ASSUME Now, frames # <<>>, NEW base \in Bases
  PROVE  base \in Adrs /\ \A t : Has(t, base)
<1>1. CASE base = Adr("ARRAY", 0, "ptr", 0)
  BY <1>1, ArrayHas
<1>2. CASE base # Adr("ARRAY", 0, "ptr", 0)
  <2> DEFINE p == Pars
  <2>1. p \in Seq({"int", "real", "ptr"})
    BY ParsAre
  <2>2. PICK i \in DOMAIN p : base = Adr("PARAM", i - 1, "ptr", 0)
    BY <1>2 DEF Bases
  <2> HIDE DEF p
  <2>3. i - 1 \in Nat
    BY <2>1, <2>2
  <2>4. "PARAM" \in AdrTypes /\ "ptr" \in Types /\ 0 \in Vals
    BY DEF AdrTypes, Types, Vals
  <2>5. base \in Adrs /\ base.type = "PARAM"
    BY <2>2, <2>3, <2>4, AdrIs
  <2> QED BY <2>5, HasPlain
<1> QED BY <1>1, <1>2

ElemFrame(base, i, out) == [Half("elem", "ptr", "int", base) EXCEPT !.field = i, !.out = out]

(* The frame of an element's address. *)
LEMMA ElemFrameIs ==
  ASSUME NEW base \in Adrs, NEW i \in 0..3, NEW out \in Adrs, out.type \in {"EMPTY", "TMP"},
         NEW f, f = ElemFrame(base, i, out)
  PROVE  /\ f \in FrameSet /\ Shaped(f) /\ f.k = "elem" /\ f.out = out
         /\ Len(f.adrs) = 1 /\ f.adrs[1] = base
<1> DEFINE g == Half("elem", "ptr", "int", base)
<1>1. "elem" \in Kinds /\ "ptr" \in Wants /\ "int" \in Wants
  BY DEF Kinds, ExprKinds, Wants
<1>2. /\ Fresh(g, "elem") /\ g.want = "int" /\ Len(g.tys) = 2
      /\ Len(g.adrs) = 1 /\ g.adrs[1] = base
  BY <1>1, FramesAre
<1>3. f = [g EXCEPT !.field = i, !.out = out]
  BY DEF ElemFrame
<1> HIDE DEF g
<1>4. /\ f \in FrameSet /\ f.k = "elem" /\ f.tys = g.tys /\ f.adrs = g.adrs /\ f.out = out
      /\ f.labs = <<>> /\ f.owe = 0 /\ f.want = "int"
  BY <1>2, <1>3 DEF FrameSet, Fresh
<1>5. ShapedPlain(f)
  <2>1. /\ Len(f.adrs) = 1 /\ Len(f.tys) = 2 /\ f.want = "int" /\ f.k = "elem"
        /\ f.out.type \in {"EMPTY", "TMP"} /\ f.labs = <<>> /\ f.owe = 0
    BY <1>2, <1>4
  <2> QED BY ONLY <2>1 DEF ShapedPlain
<1>6. Shaped(f)
  BY <1>4, <1>5, ShapedPlains DEF PlainKinds
<1> QED BY <1>2, <1>4, <1>6

(* The address of a field is begun; a temporary may be taken for its value. *)
LEMMA OpenElemStep ==
  ASSUME Now, NEW base \in Bases, NEW i \in 1..3, OpenElem(base, i)
  PROVE  Inv(ts', frames', land', uses')
<1> DEFINE value == Top.want \in {"int", "real"} /\ Top.k # "print"
           ty    == IF Top.want = "place" THEN Top.ty ELSE Top.want
           out   == IF value THEN Tmp(ts, ty) ELSE Blank
           f     == ElemFrame(base, i, out)
           P     == Outs(frames)
<1>1. /\ InCode /\ Top.want \in Values \cup {"place"} /\ land' = land /\ uses' = uses
  BY DEF OpenElem, Rest
<1>2. /\ ts' = IF value \/ Top.want = "bool" THEN TookTmp(ts) ELSE ts
      /\ Pushed(frames, f, frames')
  BY DEF OpenElem, Open, Pushed, Half, ElemFrame
<1>3. /\ frames # <<>> /\ Top = Last(frames)
      /\ Works(ts, ts, P, uses) /\ TSok(ts) /\ Inv(ts, frames, land, uses)
  BY <1>1, AtTop
<1>4. Last(frames).want \in Wants
  BY <1>1, <1>3 DEF Values, Wants
<1>5. ts.tmp \in Nat
  BY <1>3 DEF TSok
<1>6. /\ out \in Adrs /\ out.type \in {"EMPTY", "TMP"}
      /\ out.type = "TMP" => out.n = ts.tmp /\ ts' = TookTmp(ts)
  <2>1. CASE value
    <3>1. ty \in Types
      BY <2>1 DEF Types
    <3>2. out = Tmp(ts, ty) /\ ts' = TookTmp(ts)
      BY <1>2, <2>1
    <3> QED BY <1>5, <3>1, <3>2, PlainAdrs
  <2>2. CASE ~value
    <3>1. out = Blank
      BY <2>2
    <3> QED BY <3>1, PlainAdrs
  <2> QED BY <2>1, <2>2
<1>7. PICK Q : /\ Works(ts, ts', Q, uses) /\ P \subseteq Q
               /\ out.type = "TMP" => ts.tmp \in Q /\ ts.tmp \notin P
  <2>1. CASE ts' = TookTmp(ts)
    <3>1. Works(ts, ts', P \cup {ts.tmp}, uses) /\ ts.tmp \notin P
      BY <1>3, <2>1, WorkTakes
    <3> QED BY <3>1
  <2>2. CASE ts' # TookTmp(ts)
    <3>1. ts' = ts
      BY <1>2, <2>2
    <3> QED BY <1>3, <1>6, <2>2, <3>1
  <2> QED BY <2>1, <2>2
<1>8. base \in Adrs /\ Has(ts', base)
  BY <1>3, BasesHave
<1> HIDE DEF out
<1>9. /\ f \in FrameSet /\ Shaped(f) /\ f.k = "elem" /\ f.out = out
      /\ Len(f.adrs) = 1 /\ f.adrs[1] = base
  BY <1>6, <1>8, ElemFrameIs
<1> HIDE DEF f
<1>10. HasAll(ts', f) /\ f.k \in ExprKinds
  BY <1>8, <1>9 DEF HasAll, ExprKinds
<1>11. f.out.type = "TMP" => f.out.n \in Q /\ f.out.n \notin Outs(frames)
  BY <1>6, <1>7, <1>9
<1> QED BY <1>1, <1>2, <1>3, <1>4, <1>7, <1>9, <1>10, <1>11, InvOpen

(* The address of an element is begun. *)
LEMMA OpenWholeStep ==
  ASSUME Now, frames # <<>>, NEW base \in Bases, OpenWhole(base)
  PROVE  Inv(ts', frames', land', uses')
<1> DEFINE h == Half("elem", "ptr", "int", base)
           f == ElemFrame(base, 0, Blank)
<1>1. /\ Waits("whole") /\ ts' = ts /\ Pushed(frames, h, frames')
      /\ land' = land /\ uses' = uses
  BY DEF OpenWhole, Open, Rest, Pushed, Half
<1>2. "whole" \in Wants /\ Blank \in Adrs /\ Blank.type = "EMPTY"
  BY PlainAdrs DEF Wants
<1>3. base \in Adrs /\ Has(ts, base)
  BY BasesHave
<1>4. h = f
  <2>1. "elem" \in Kinds /\ "ptr" \in Wants /\ "int" \in Wants
    BY DEF Kinds, ExprKinds, Wants
  <2>2. h \in FrameSet /\ h.out = Blank /\ h.field = 0
    BY <1>3, <2>1, FramesAre DEF Fresh
  <2> HIDE DEF h
  <2>3. h = [h EXCEPT !.field = 0, !.out = Blank]
    BY <2>2 DEF FrameSet
  <2> QED BY <2>3 DEF h, ElemFrame
<1> HIDE DEF h
<1>5. /\ f \in FrameSet /\ Shaped(f) /\ f.k = "elem" /\ f.out = Blank
      /\ Len(f.adrs) = 1 /\ f.adrs[1] = base
  BY <1>2, <1>3, ElemFrameIs
<1> HIDE DEF f
<1>6. HasAll(ts, f) /\ f.k \in ExprKinds /\ f.out.type # "TMP"
  BY <1>2, <1>3, <1>5 DEF HasAll, ExprKinds
<1>7. /\ frames # <<>> /\ Last(frames).want \in Wants
      /\ Works(ts, ts, Outs(frames), uses) /\ Inv(ts, frames, land, uses)
  BY <1>1, <1>2, AtWaits DEF Now
<1> QED BY <1>1, <1>4, <1>5, <1>6, <1>7, InvOpen

(* The address: the index times the size, the base, and for a field its place;
   where the value is wanted it is read through the address. *)
LEMMA CloseElemStep ==
  ASSUME Now, CloseElem
  PROVE  Inv(ts', frames', land', uses')
<1> DEFINE base  == Top.adrs[1]
           index == Top.adrs[2]
           t1    == Intern(ts, "int", StructSize)
           k     == AdrOf(ts, "int", StructSize)
           m     == Tmp(t1, "int")
           t2    == Emit1(TookTmp(t1), Line("MULI", m, index, k))
           e     == Tmp(t2, "ptr")
           t3    == Emit1(TookTmp(t2), Line("ADDI", e, base, m))
           place == 8 * (Top.field - 1)
           t4    == Intern(t3, "int", place)
           p     == AdrOf(t3, "int", place)
           a     == Tmp(t4, "ptr")
           t5    == Emit1(TookTmp(t4), Line("ADDI", a, e, p))
           P     == Outs(frames)
<1>1. /\ InCode /\ Top.k = "elem" /\ Top.want = "step" /\ land' = land /\ uses' = uses
  BY DEF CloseElem, Ready, Rest
<1>2. /\ Top.field = 0 => ts' = t3 /\ frames' = Given(Front(frames), e)
      /\ Top.field # 0 /\ Top.out.type = "TMP" =>
           /\ ts' = Emit1(t5, Line("DEREF", Top.out, Blank, a))
           /\ frames' = Given(Front(frames), Top.out)
      /\ Top.field # 0 /\ Top.out.type # "TMP" =>
           ts' = t5 /\ frames' = Given(Front(frames), a)
  BY DEF CloseElem, Return, Emit1, Binary
<1>3. /\ frames # <<>> /\ Top = Last(frames) /\ Top \in FrameSet /\ Shaped(Top)
      /\ \A n \in 1..Len(Top.adrs) : Has(ts, Top.adrs[n])
      /\ Works(ts, ts, P, uses) /\ TSok(ts) /\ Inv(ts, frames, land, uses)
      /\ Top.out.type = "TMP" => Top.out.n \in P
      /\ Without(P, Top) \subseteq P
  BY <1>1, AtTop
<1>4. Has(ts, base) /\ Has(ts, index)
  <2>1. ShapedPlain(Top)
    BY <1>1, <1>3, ShapedPlains DEF PlainKinds
  <2>2. Len(Top.adrs) = 2
    BY <1>1, <2>1 DEF ShapedPlain
  <2> QED BY <1>3, <2>2
<1>5. /\ "int" \in Pools /\ StructSize \in Vals /\ "int" \in Types /\ "ptr" \in Types
      /\ "MULI" \in Plain /\ "ADDI" \in Plain /\ "DEREF" \in Plain
  BY DEF Pools, StructSize, Fields, Vals, Types, Plain
<1> HIDE DEF base, index, P
<1>6. Works(ts, t1, P, uses) /\ Keeps(ts, t1) /\ Has(t1, k)
  BY <1>3, <1>5, WorkInterns
<1>7. Has(t1, index)
  BY <1>4, <1>6 DEF Keeps
<1> HIDE DEF t1, k
<1>8. Works(ts, t2, P, uses) /\ Keeps(t1, t2) /\ Has(t2, m)
  BY <1>3, <1>5, <1>6, <1>7, WorkTmp
<1>9. Has(t2, base)
  BY <1>4, <1>6, <1>8 DEF Keeps
<1> HIDE DEF t2, m
<1>10. Works(ts, t3, P, uses) /\ Has(t3, e)
  BY <1>3, <1>5, <1>8, <1>9, WorkTmp
<1> HIDE DEF t3, e
<1>a. Last(frames).k \in ExprKinds
  BY <1>1, <1>3 DEF ExprKinds
<1>11. CASE Top.field = 0
  <2>1. Without(Outs(frames), Last(frames)) \subseteq P
    BY <1>3 DEF P
  <2> QED BY <1>1, <1>2, <1>3, <1>a, <1>10, <1>11, <2>1, InvReturn
<1>12. CASE Top.field # 0
  <2>1. place \in Vals
    <3>1. Top.field \in 0..3
      BY <1>3 DEF FrameSet
    <3> QED BY <1>12, <3>1 DEF Vals
  <2> HIDE DEF place
  <2>2. Works(ts, t4, P, uses) /\ Keeps(t3, t4) /\ Has(t4, p)
    BY <1>3, <1>5, <1>10, <2>1, WorkInterns
  <2>3. Has(t4, e)
    BY <1>10, <2>2 DEF Keeps
  <2> HIDE DEF t4, p
  <2>4. Works(ts, t5, P, uses) /\ Has(t5, a)
    BY <1>3, <1>5, <2>2, <2>3, WorkTmp
  <2> HIDE DEF t5, a
  <2>5. CASE Top.out.type = "TMP"
    <3> DEFINE out == Top.out
    <3>1. out \in Adrs /\ out.n \in P /\ out.type = "TMP"
      BY <1>3, <2>5 DEF FrameSet
    <3>2. /\ ts' = Emit1(t5, Line("DEREF", out, Blank, a))
          /\ frames' = Given(Front(frames), out) /\ Has(t5, Blank)
      BY <1>2, <1>12, <2>5, HasBlank
    <3>3. Without(Outs(frames), Last(frames)) = P \ {out.n}
      BY <1>3, <2>5 DEF Without, OutOf, P
    <3> HIDE DEF out
    <3>4. Works(ts, ts', P \ {out.n}, uses) /\ Has(ts', out)
      BY <1>3, <1>5, <2>4, <3>1, <3>2, WorkWrites
    <3>5. Without(Outs(frames), Last(frames)) \subseteq P \ {out.n}
      BY <3>3
    <3> QED BY <1>1, <1>3, <1>a, <3>2, <3>4, <3>5, InvReturn
  <2>6. CASE Top.out.type # "TMP"
    <3>1. Without(Outs(frames), Last(frames)) \subseteq P
      BY <1>3 DEF P
    <3> QED BY <1>1, <1>2, <1>3, <1>a, <1>12, <2>4, <2>6, <3>1, InvReturn
  <2> QED BY <2>5, <2>6
<1> QED BY <1>11, <1>12

CalledFrame(f, k, out) == [CallFrame(f, k) EXCEPT !.out = out]

(* The frame of a call. *)
LEMMA CallFrameIs ==
  ASSUME Now, frames # <<>>, NEW f \in Funcs, NEW k \in {"call", "fncall"}, NEW out \in Adrs,
         IF k = "fncall" THEN out.type = "TMP" ELSE out = Blank,
         NEW g, g = CalledFrame(f, k, out)
  PROVE  /\ g \in FrameSet /\ Shaped(g) /\ g.k = k /\ g.out = out /\ Len(g.adrs) = 0
         /\ k = "call" => g = CallFrame(f, k)
<1> DEFINE pars == sigs[f].pars
           none == <<>>
           call == <<Here, Len(frames)>>
           h    == Frame(k, pars, none)
           c    == CallFrame(f, k)
<1>1. pars \in Seq({"int", "real", "ptr"}) /\ pars # <<>>
  BY ParsAre
<1>2. TSok(ts) /\ frames \in Seq(FrameSet)
  BY DEF Now, Inv, Sound, Framed
<1>3. call \in Seq(Nat) /\ Len(call) = 2
  <2>1. Here \in Nat /\ Len(frames) \in Nat
    BY <1>2 DEF TSok, Here
  <2> HIDE DEF Here
  <2> QED BY <2>1
<1>4. pars \in Seq(Wants) /\ Len(pars) > 0 /\ pars[1] \in Wants
  <2> HIDE DEF pars
  <2>1. pars \in Seq(Wants)
    BY <1>1 DEF Wants
  <2>2. Len(pars) > 0
    BY <1>1
  <2> QED BY <2>1, <2>2
<1>5. none \in Seq(Adrs) /\ Len(none) = 0
  OBVIOUS
<1>6. k \in Kinds
  BY DEF Kinds, ExprKinds, StatKinds
<1>7. c = [h EXCEPT !.name = f, !.call = call]
  BY DEF CallFrame
<1> HIDE DEF pars, none, call
<1>8. Fresh(h, k) /\ h.tys = pars /\ h.adrs = none /\ h.want = Wanted(pars, none)
  <2>1. MadeOf(h, k, pars, none)
    BY ONLY <1>4, <1>5, <1>6, FrameIs
  <2> QED BY <2>1 DEF MadeOf
<1>9. h.want = pars[1]
  BY <1>4, <1>5, <1>8 DEF Wanted
<1> HIDE DEF h
<1>10. f \in Names
  BY DEF Names
<1>11. /\ c \in FrameSet /\ c.k = k /\ c.tys = pars /\ c.adrs = none /\ c.name = f
       /\ c.call = call /\ c.want = pars[1] /\ c.out = Blank /\ c.labs = <<>> /\ c.owe = 0
  BY <1>3, <1>7, <1>8, <1>9, <1>10 DEF FrameSet, Fresh
<1>12. g = [c EXCEPT !.out = out]
  BY DEF CalledFrame
<1> HIDE DEF c
<1>13. /\ g \in FrameSet /\ g.k = k /\ g.tys = pars /\ g.adrs = none /\ g.name = f
       /\ g.call = call /\ g.want = pars[1] /\ g.out = out /\ g.labs = <<>> /\ g.owe = 0
  BY <1>11, <1>12 DEF FrameSet
<1>14. Blank.type = "EMPTY"
  BY PlainAdrs
<1>15. ShapedPlain(g)
  <2>1. /\ Len(g.adrs) = 0 /\ Len(g.tys) > 0 /\ g.want \in Wants
        /\ g.k \in {"call", "fncall"} /\ g.labs = <<>> /\ g.owe = 0
        /\ g.name \in Funcs /\ Len(g.call) = 2
    BY <1>3, <1>4, <1>5, <1>13
  <2>2. /\ g.k = "fncall" => g.out.type = "TMP"
        /\ g.k # "fncall" => g.out.type = "EMPTY"
    BY <1>13, <1>14
  <2>3. Len(g.tys) \in Nat
    BY <1>4, <1>13
  <2>4. g.want # "stats" /\ g.want # "step"
    BY <2>1 DEF Wants
  <2> QED BY ONLY <2>1, <2>2, <2>3, <2>4 DEF ShapedPlain
<1>16. Shaped(g)
  BY <1>13, <1>15, ShapedPlains DEF PlainKinds
<1>17. k = "call" => g = c
  BY <1>11, <1>12 DEF FrameSet
<1> QED BY <1>5, <1>13, <1>16, <1>17 DEF c

(* A call in an expression is begun, the temporary of its result is taken. *)
LEMMA OpenFnCallStep ==
  ASSUME Now, NEW f \in Funcs, OpenFnCall(f)
  PROVE  Inv(ts', frames', land', uses')
<1> DEFINE t   == Ahead(Top.want)
           out == Tmp(t, Top.want)
           g   == CalledFrame(f, "fncall", out)
<1>1. /\ InCode /\ sigs[f].ret = Top.want /\ ts' = TookTmp(t) /\ Pushed(frames, g, frames')
      /\ land' = land /\ uses' = uses
  BY DEF OpenFnCall, Open, Rest, Pushed, CalledFrame
<1>2. /\ frames # <<>> /\ Top = Last(frames) /\ Top \in FrameSet
      /\ TSok(ts) /\ Inv(ts, frames, land, uses)
  BY <1>1, AtTop
<1>3. Top.want \in Wants /\ Top.want \in Types
  <2>1. Top.want \in {"int", "real", "none"}
    BY <1>1, <1>2, ParsAre
  <2>2. Top.want \in Wants \cup {"step", "stats"}
    BY <1>2 DEF FrameSet
  <2> QED BY <2>1, <2>2 DEF Wants, Types
<1>4. PICK P : Works(ts, t, P, uses) /\ Outs(frames) \subseteq P
  BY <1>2, AheadWorks
<1> HIDE DEF t
<1>5. /\ Works(ts, ts', P \cup {t.tmp}, uses) /\ t.tmp \notin P /\ t.tmp \in Nat
  BY <1>1, <1>2, <1>4, WorkTakes
<1>6. out \in Adrs /\ out.type = "TMP" /\ out.n = t.tmp
  BY <1>3, <1>5, PlainAdrs
<1> HIDE DEF out
<1>7. g \in FrameSet /\ Shaped(g) /\ g.k = "fncall" /\ g.out = out /\ Len(g.adrs) = 0
  BY <1>2, <1>6, CallFrameIs
<1> HIDE DEF g
<1>8. HasAll(ts', g) /\ g.k \in ExprKinds
  BY <1>7 DEF HasAll, ExprKinds
<1> DEFINE Q == P \cup {t.tmp}
<1>9. /\ Works(ts, ts', Q, uses) /\ Outs(frames) \subseteq Q
      /\ g.out.n \in Q /\ g.out.n \notin Outs(frames)
  BY <1>4, <1>5, <1>6, <1>7
<1> HIDE DEF Q
<1>10. Last(frames).want \in Wants
  BY <1>2, <1>3
<1> QED BY <1>1, <1>2, <1>7, <1>8, <1>9, <1>10, InvOpen

(***************************************************************************)
(* Statements.                                                             *)
(***************************************************************************)
(* What is known where a statement may come. *)
LEMMA AtStats ==
  ASSUME Now, Stats
  PROVE  /\ InCode /\ frames # <<>> /\ Top = Last(frames) /\ Last(frames).want = "stats"
         /\ Works(ts, ts, Outs(frames), uses) /\ TSok(ts) /\ Inv(ts, frames, land, uses)
         /\ Outs(frames) \subseteq Outs(frames)
BY AtTop DEF Stats

TwoKinds   == {"asgn", "copy", "update"}
PlainStats == TwoKinds \cup {"call", "print", "read", "return"}

(* These are statements without labels. *)
LEMMA PlainStatsAre ==
  ASSUME NEW k \in PlainStats
  PROVE  k \in PlainKinds /\ k \in StatKinds /\ k \notin FlowKinds /\ k \in Kinds
BY DEF PlainStats, TwoKinds, PlainKinds, StatKinds, FlowKinds, Kinds

(* The place that an assignment is to. *)
Target(k, g) == k \in {"asgn", "update"} =>
                  g.tys[1] = "place" \/ (Len(g.adrs) = 1 /\ g.adrs[1].type = "VAR")
OtherStats == PlainStats \ {"call"}
Typing == {"int", "real", "bool", "none"}
OneOrTwo(k) == IF k \in TwoKinds THEN 2 ELSE 1
WithTy(g, ty) == [g EXCEPT !.ty = ty]

Begun1(k, g) ==
  /\ Fresh(g, k) /\ g.want \in Wants /\ Target(k, g)
  /\ Len(g.adrs) \in 0..1 /\ Len(g.adrs) < Len(g.tys) /\ Len(g.tys) = OneOrTwo(k)

Framed1(f, g, k) ==
  /\ f \in FrameSet /\ Shaped(f) /\ f.k = k /\ f.out.type # "TMP"
  /\ f.adrs = g.adrs /\ f.tys = g.tys

(* The frame of a statement but a call. *)
LEMMA StatFrame ==
  ASSUME NEW k \in OtherStats, NEW g, Begun1(k, g), NEW ty \in Typing
  PROVE  Framed1(WithTy(g, ty), g, k)
<1> DEFINE f == WithTy(g, ty)
<1>1. /\ f \in FrameSet /\ f.k = k /\ f.tys = g.tys /\ f.adrs = g.adrs /\ f.out = Blank
      /\ f.labs = <<>> /\ f.owe = 0 /\ f.want = g.want
  BY DEF FrameSet, Fresh, Typing, WithTy, Begun1
<1> HIDE DEF f
<1>2. f.want # "step" /\ f.want # "stats"
  BY <1>1 DEF Wants, Begun1
<1>3. f.out.type = "EMPTY"
  BY <1>1, PlainAdrs
<1>4. f.k \in TwoKinds \cup {"print", "read", "return"}
  BY <1>1 DEF OtherStats, PlainStats
<1>5. IF f.k \in TwoKinds THEN Len(f.tys) = 2 ELSE Len(f.tys) = 1
  BY <1>1 DEF OneOrTwo, Begun1
<1>6. f.k \in {"asgn", "update"} =>
        f.tys[1] = "place" \/ (f.adrs # <<>> /\ f.adrs[1].type = "VAR")
  BY <1>1 DEF Target, Begun1
<1>7. Len(f.adrs) < Len(f.tys) /\ Len(f.adrs) \in 0..1
  BY <1>1 DEF Begun1
<1>8. Len(f.adrs) <= Len(f.tys)
  <2>1. Len(f.tys) \in {1, 2}
    BY <1>5
  <2> QED BY <1>7, <2>1
<1>9. ShapedPlain(f)
  BY ONLY <1>1, <1>2, <1>3, <1>4, <1>5, <1>6, <1>7, <1>8 DEF ShapedPlain, TwoKinds
<1>10. Shaped(f)
  BY <1>1, <1>9, PlainStatsAre, ShapedPlains DEF OtherStats
<1> QED BY <1>1, <1>3, <1>10 DEF Framed1, f

(* A statement is begun after some work. *)
LEMMA BeginWorks ==
  ASSUME Now, Stats, NEW u, Works(ts, u, Outs(frames), uses),
         NEW k \in PlainStats, NEW f \in FrameSet, f.k = k, Shaped(f), f.out.type # "TMP",
         HasAll(u, f), Allowed(f, uses),
         NEW gs, gs = Append(SetTop([Top EXCEPT !.some = TRUE]), f)
  PROVE  Inv(u, gs, land, uses)
<1>1. /\ frames # <<>> /\ Last(frames).want = "stats" /\ Inv(ts, frames, land, uses)
      /\ Outs(frames) \subseteq Outs(frames)
  BY AtStats
<1>2. gs = Append([frames EXCEPT ![Len(frames)] = [Last(frames) EXCEPT !.some = TRUE]], f)
  BY DEF SetTop, Top
<1>3. f.k \in StatKinds /\ f.k \notin FlowKinds
  BY PlainStatsAre
<1> QED BY <1>1, <1>2, <1>3, InvBegin

(* A statement is generated in one go. *)
LEMMA WholeWorks ==
  ASSUME Now, Stats, NEW u, Works(ts, u, Outs(frames), uses),
         NEW gs, gs = SetTop([Top EXCEPT !.some = TRUE])
  PROVE  Inv(u, gs, land, uses)
<1>1. /\ frames # <<>> /\ Inv(ts, frames, land, uses) /\ Outs(frames) \subseteq Outs(frames)
  BY AtStats
<1>2. gs = [frames EXCEPT ![Len(frames)] = [Last(frames) EXCEPT !.some = TRUE]]
  BY DEF SetTop, Top
<1> QED BY <1>1, <1>2, InvWhole

(* What is known where a statement is ready to be closed. *)
LEMMA AtReady ==
  ASSUME Now, NEW k \in PlainStats, Ready(k)
  PROVE  /\ InCode /\ Top.k = k /\ Top.want = "step" /\ Top \in FrameSet /\ Shaped(Top)
         /\ ShapedPlain(Top) /\ Len(Top.adrs) = Len(Top.tys) /\ Allowed(Top, uses)
         /\ \A m \in 1..Len(Top.adrs) : Has(ts, Top.adrs[m])
         /\ Works(ts, ts, Outs(frames), uses) /\ TSok(ts)
<1>1. InCode /\ Top.k = k /\ Top.want = "step"
  BY DEF Ready
<1>2. ShapedPlain(Top)
  BY <1>1, AtTop, PlainStatsAre, ShapedPlains
<1>3. Len(Top.adrs) = Len(Top.tys)
  BY <1>1, <1>2 DEF ShapedPlain
<1> QED BY <1>1, <1>2, <1>3, AtTop

(* A statement is done. *)
LEMMA EndWorks ==
  ASSUME Now, InCode, NEW k \in PlainStats, Top.k = k,
         NEW u, Works(ts, u, Outs(frames), uses), NEW gs, gs = Front(frames)
  PROVE  Inv(u, gs, land, uses)
<1>1. /\ frames # <<>> /\ Top = Last(frames) /\ Inv(ts, frames, land, uses)
      /\ Outs(frames) \subseteq Outs(frames)
  BY AtTop
<1>3. Last(frames).k \in StatKinds /\ Last(frames).k \notin FlowKinds
  BY <1>1, PlainStatsAre
<1> QED BY <1>1, <1>3, InvEnd

(* Nothing has no operands. *)
LEMMA HasNone ==
  ASSUME NEW u, NEW f, Len(f.adrs) = 0
  PROVE  HasAll(u, f)
BY DEF HasAll

(* A call is begun. *)
LEMMA OpenCallStatStep ==
  ASSUME Now, NEW f \in Funcs, OpenCallStat(f)
  PROVE  Inv(ts', frames', land', uses')
<1> DEFINE g == CallFrame(f, "call")
           h == CalledFrame(f, "call", Blank)
<1>1. /\ Stats /\ ts' = ts /\ frames' = Append(SetTop([Top EXCEPT !.some = TRUE]), g)
      /\ land' = land /\ uses' = uses
  BY DEF OpenCallStat, Begin, Rest
<1>2. frames # <<>> /\ Works(ts, ts, Outs(frames), uses)
  BY <1>1, AtStats
<1>3. Blank \in Adrs /\ Blank.type = "EMPTY"
  BY PlainAdrs
<1>4. /\ h \in FrameSet /\ Shaped(h) /\ h.k = "call" /\ h.out = Blank /\ Len(h.adrs) = 0
      /\ h = g
  BY <1>2, <1>3, CallFrameIs
<1> HIDE DEF g, h
<1>5. /\ g \in FrameSet /\ Shaped(g) /\ g.k = "call" /\ g.out.type # "TMP"
      /\ HasAll(ts, g) /\ Allowed(g, uses) /\ "call" \in PlainStats
  BY <1>3, <1>4, HasNone DEF Allowed, PlainStats
<1> QED BY <1>1, <1>2, <1>5, BeginWorks

(* A statement with a variable on its left is begun. *)
LEMMA BeginHalf ==
  ASSUME Now, Stats, HasLocals, NEW k \in {"asgn", "update"}, NEW i \in DOMAIN Locals,
         NEW b \in {"int", "real", "bool"},
         NEW f,
         f = WithTy(Half(k, Locals[i], b, Adr("VAR", i - 1, Locals[i], 0)), Locals[i]),
         NEW gs, gs = Append(SetTop([Top EXCEPT !.some = TRUE]), f)
  PROVE  Inv(ts, gs, land, uses)
<1> DEFINE a == Locals[i]
           x == Adr("VAR", i - 1, Locals[i], 0)
           g == Half(k, a, b, x)
<1>1. frames # <<>> /\ Works(ts, ts, Outs(frames), uses)
  BY AtStats
<1>2. Has(ts, x) /\ a \in {"int", "real", "bool"} /\ x.type = "VAR" /\ x \in Adrs
  BY <1>1, LocalsHas
<1>3. a \in Wants /\ b \in Wants /\ a # "place" /\ a \in Typing
  BY <1>2 DEF Wants, Typing
<1>4. k \in PlainStats /\ k \in OtherStats /\ k \in TwoKinds /\ k \in Kinds
  BY PlainStatsAre DEF PlainStats, TwoKinds, OtherStats
<1>5. f = WithTy(g, a)
  OBVIOUS
<1> HIDE DEF x, a
<1>6. /\ Fresh(g, k) /\ g.want = b /\ Len(g.tys) = 2 /\ Len(g.adrs) = 1
      /\ g.adrs[1] = x /\ g.tys[1] = a
  BY <1>2, <1>3, <1>4, FramesAre
<1> HIDE DEF g
<1>7. Begun1(k, g)
  BY <1>2, <1>3, <1>4, <1>6 DEF Target, OneOrTwo, Begun1
<1>8. /\ f \in FrameSet /\ Shaped(f) /\ f.k = k /\ f.out.type # "TMP"
      /\ f.adrs = g.adrs /\ f.tys = g.tys
  <2>1. Framed1(WithTy(g, a), g, k)
    BY <1>3, <1>4, <1>7, StatFrame
  <2> QED BY <1>5, <2>1 DEF Framed1
<1>9. HasAll(ts, f) /\ Allowed(f, uses)
  BY <1>2, <1>3, <1>6, <1>8 DEF HasAll, Allowed
<1> QED BY <1>1, <1>4, <1>8, <1>9, BeginWorks

(* A statement is begun that waits for two operands. *)
LEMMA BeginTwo ==
  ASSUME Now, Stats, NEW k \in TwoKinds, NEW a \in Wants, NEW b \in Wants,
         k # "copy" => a = "place", k = "update" => "elemupdate" \in uses, NEW ty \in Typing,
         NEW f, f = WithTy(Two(k, a, b), ty),
         NEW gs, gs = Append(SetTop([Top EXCEPT !.some = TRUE]), f)
  PROVE  Inv(ts, gs, land, uses)
<1> DEFINE g == Two(k, a, b)
<1>1. Works(ts, ts, Outs(frames), uses)
  BY AtStats
<1>4. k \in PlainStats /\ k \in OtherStats /\ k \in Kinds
  BY PlainStatsAre DEF PlainStats, TwoKinds, OtherStats
<1>5. f = WithTy(g, ty)
  OBVIOUS
<1>6. /\ Fresh(g, k) /\ g.want = a /\ Len(g.tys) = 2 /\ Len(g.adrs) = 0
      /\ g.tys[1] = a
  BY <1>4, FramesAre
<1> HIDE DEF g
<1>7. Begun1(k, g)
  BY <1>4, <1>6 DEF Target, OneOrTwo, Begun1
<1>8. /\ f \in FrameSet /\ Shaped(f) /\ f.k = k /\ f.out.type # "TMP"
      /\ f.adrs = g.adrs /\ f.tys = g.tys
  <2>1. Framed1(WithTy(g, ty), g, k)
    BY <1>4, <1>7, StatFrame
  <2> QED BY <1>5, <2>1 DEF Framed1
<1>9. HasAll(ts, f) /\ Allowed(f, uses)
  BY <1>6, <1>8, HasNone DEF Allowed
<1> QED BY <1>1, <1>4, <1>8, <1>9, BeginWorks

(* A statement is begun that waits for one operand. *)
LEMMA BeginOne ==
  ASSUME Now, Stats, NEW k \in {"print", "read", "return"}, NEW a \in Wants, NEW ty \in Typing,
         NEW u, Works(ts, u, Outs(frames), uses),
         NEW f, f = WithTy(One(k, a), ty),
         NEW gs, gs = Append(SetTop([Top EXCEPT !.some = TRUE]), f)
  PROVE  Inv(u, gs, land, uses)
<1> DEFINE g == One(k, a)
<1>4. k \in PlainStats /\ k \in OtherStats /\ k \in Kinds /\ k \notin TwoKinds
  BY PlainStatsAre DEF PlainStats, TwoKinds, OtherStats
<1>5. f = WithTy(g, ty)
  OBVIOUS
<1>6. Fresh(g, k) /\ g.want = a /\ Len(g.tys) = 1 /\ Len(g.adrs) = 0
  BY <1>4, FramesAre
<1> HIDE DEF g
<1>7. Begun1(k, g)
  BY <1>4, <1>6 DEF Target, OneOrTwo, Begun1
<1>8. /\ f \in FrameSet /\ Shaped(f) /\ f.k = k /\ f.out.type # "TMP"
      /\ f.adrs = g.adrs /\ f.tys = g.tys
  <2>1. Framed1(WithTy(g, ty), g, k)
    BY <1>4, <1>7, StatFrame
  <2> QED BY <1>5, <2>1 DEF Framed1
<1>9. HasAll(u, f) /\ Allowed(f, uses)
  BY <1>6, <1>8, HasNone DEF Allowed
<1> QED BY <1>4, <1>8, <1>9, BeginWorks

(* An assignment to a variable is begun. *)
LEMMA OpenAssignStep ==
  ASSUME Now, NEW i \in DOMAIN Locals, OpenAssign(i)
  PROVE  Inv(ts', frames', land', uses')
<1> DEFINE f == WithTy(Half("asgn", Locals[i], Locals[i], Adr("VAR", i - 1, Locals[i], 0)),
                       Locals[i])
<1>1. /\ Stats /\ HasLocals /\ ts' = ts
      /\ frames' = Append(SetTop([Top EXCEPT !.some = TRUE]), f)
      /\ land' = land /\ uses' = uses
  BY DEF OpenAssign, Begin, Rest, Half, WithTy
<1>2. Locals[i] \in {"int", "real", "bool"}
  BY DEF Locals
<1> QED BY <1>1, <1>2, BeginHalf

(* So is a sum. *)
LEMMA OpenUpdateStep ==
  ASSUME Now, NEW i \in {1, 2}, NEW ty \in Numeric, OpenUpdate(i, ty)
  PROVE  Inv(ts', frames', land', uses')
<1> DEFINE f == WithTy(Half("update", Locals[i], ty, Adr("VAR", i - 1, Locals[i], 0)),
                       Locals[i])
<1>1. /\ Stats /\ HasLocals /\ ts' = ts
      /\ frames' = Append(SetTop([Top EXCEPT !.some = TRUE]), f)
      /\ land' = land /\ uses' = uses
  BY DEF OpenUpdate, Begin, Rest, Half, WithTy
<1>2. ty \in {"int", "real", "bool"} /\ i \in DOMAIN Locals
  BY DEF Numeric, Locals
<1> QED BY <1>1, <1>2, BeginHalf

(* An assignment to a field is begun. *)
LEMMA OpenStoreStep ==
  ASSUME Now, NEW ty \in Values, OpenStore(ty)
  PROVE  Inv(ts', frames', land', uses')
<1> DEFINE f == WithTy(Two("asgn", "place", ty), ty)
<1>1. /\ Stats /\ ts' = ts
      /\ frames' = Append(SetTop([Top EXCEPT !.some = TRUE]), f)
      /\ land' = land /\ uses' = uses
  BY DEF OpenStore, Begin, Rest, Two, WithTy
<1>2. "asgn" \in TwoKinds /\ "place" \in Wants /\ ty \in Wants /\ ty \in Typing
  BY DEF TwoKinds, Wants, Values, Typing
<1> QED BY <1>1, <1>2, BeginTwo

(* So is a sum. *)
LEMMA OpenUpdateElemStep ==
  ASSUME Now, NEW ty \in Numeric, OpenUpdateElem(ty)
  PROVE  Inv(ts', frames', land', uses')
<1> DEFINE f == WithTy(Two("update", "place", ty), ty)
<1>1. /\ Stats /\ ts' = ts /\ "elemupdate" \in uses
      /\ frames' = Append(SetTop([Top EXCEPT !.some = TRUE]), f)
      /\ land' = land /\ uses' = uses
  BY DEF OpenUpdateElem, Begin, Rest, Two, WithTy, Uses
<1>2. "update" \in TwoKinds /\ "place" \in Wants /\ ty \in Wants /\ ty \in Typing
  BY DEF TwoKinds, Wants, Numeric, Typing
<1> QED BY <1>1, <1>2, BeginTwo

(* A copy is begun. *)
LEMMA OpenCopyStep ==
  ASSUME Now, OpenCopy
  PROVE  Inv(ts', frames', land', uses')
<1> DEFINE g == Two("copy", "whole", "whole")
           f == WithTy(g, "none")
<1>1. /\ Stats /\ ts' = ts
      /\ frames' = Append(SetTop([Top EXCEPT !.some = TRUE]), g)
      /\ land' = land /\ uses' = uses
  BY DEF OpenCopy, Begin, Rest, Two, WithTy
<1>2. "copy" \in TwoKinds /\ "whole" \in Wants /\ "none" \in Typing /\ "copy" \in Kinds
  BY DEF TwoKinds, Wants, Typing, Kinds, StatKinds
<1>3. g \in FrameSet /\ g.ty = "none"
  BY <1>2, FramesAre DEF Fresh
<1>4. f = g
  <2> HIDE DEF g
  <2> QED BY <1>3 DEF FrameSet, WithTy
<1>5. frames' = Append(SetTop([Top EXCEPT !.some = TRUE]), f)
  BY <1>1, <1>4
<1> QED BY <1>1, <1>2, <1>5, BeginTwo

(* A value is read into a field. *)
LEMMA OpenReadElemStep ==
  ASSUME Now, NEW ty \in Values, OpenReadElem(ty)
  PROVE  Inv(ts', frames', land', uses')
<1> DEFINE f == WithTy(One("read", "place"), ty)
<1>1. /\ Stats /\ ts' = ts
      /\ frames' = Append(SetTop([Top EXCEPT !.some = TRUE]), f)
      /\ land' = land /\ uses' = uses
  BY DEF OpenReadElem, Begin, Rest, One, WithTy
<1>2. "place" \in Wants /\ ty \in Typing
  BY DEF Wants, Values, Typing
<1>3. Works(ts, ts, Outs(frames), uses)
  BY <1>1, AtStats
<1> QED BY <1>1, <1>2, <1>3, BeginOne

(* A value is returned. *)
LEMMA OpenReturnStep ==
  ASSUME Now, OpenReturn
  PROVE  Inv(ts', frames', land', uses')
<1> DEFINE ty == sigs[frames[1].name].ret
           f  == WithTy(One("return", ty), ty)
<1>1. /\ Stats /\ ts' = ts /\ frames[1].name \in Funcs /\ ty # "none"
      /\ frames' = Append(SetTop([Top EXCEPT !.some = TRUE]), f)
      /\ land' = land /\ uses' = uses
  BY DEF OpenReturn, Begin, Rest, One, WithTy
<1>2. ty \in {"int", "real"}
  BY <1>1, AtStats, ParsAre
<1>3. ty \in Wants /\ ty \in Typing
  BY <1>2 DEF Wants, Typing
<1>4. Works(ts, ts, Outs(frames), uses)
  BY <1>1, AtStats
<1> HIDE DEF ty
<1> QED BY <1>1, <1>3, <1>4, BeginOne

(* A space before a value to print. *)
LEMMA OpenPrintStep ==
  ASSUME Now, NEW ty \in Numeric, OpenPrint(ty)
  PROVE  Inv(ts', frames', land', uses')
<1> DEFINE f == WithTy(One("print", ty), ty)
<1>1. /\ Stats /\ ts' = Emit1(ts, Line("PRINTSPC", Blank, Blank, Blank))
      /\ frames' = Append(SetTop([Top EXCEPT !.some = TRUE]), f)
      /\ land' = land /\ uses' = uses
  BY DEF OpenPrint, Begin, Rest, One, WithTy, Emit1, Unary
<1>2. ty \in Wants /\ ty \in Typing /\ "PRINTSPC" \in Plain \cup Taking
  BY DEF Wants, Numeric, Typing, Plain
<1>3. Has(ts, Blank) /\ Blank.type # "TMP"
  BY HasBlank, PlainAdrs
<1>4. Works(ts, ts', Outs(frames), uses)
  BY <1>1, <1>2, <1>3, AtStats, WorkReads
<1> QED BY <1>1, <1>2, <1>4, BeginOne

(* An end of line. *)
LEMMA PrintLineStep ==
  ASSUME Now, PrintLine
  PROVE  Inv(ts', frames', land', uses')
<1>1. /\ Stats /\ ts' = Emit1(ts, Line("PRINTLN", Blank, Blank, Blank))
      /\ frames' = SetTop([Top EXCEPT !.some = TRUE]) /\ land' = land /\ uses' = uses
      /\ "PRINTLN" \in Plain \cup Taking
  BY DEF PrintLine, Whole, Rest, Emit1, Unary, Plain
<1>3. Has(ts, Blank) /\ Blank.type # "TMP"
  BY HasBlank, PlainAdrs
<1>4. Works(ts, ts', Outs(frames), uses)
  BY <1>1, <1>3, AtStats, WorkReads
<1> QED BY <1>1, <1>4, WholeWorks

(* A return from a function that gives nothing. *)
LEMMA Return0Step ==
  ASSUME Now, Return0
  PROVE  Inv(ts', frames', land', uses')
<1>1. /\ Stats /\ ts' = Emit1(ts, Line("RETN", Blank, Blank, Blank))
      /\ frames' = SetTop([Top EXCEPT !.some = TRUE]) /\ land' = land /\ uses' = uses
      /\ "RETN" \in Plain \cup Taking
  BY DEF Return0, Whole, Rest, Emit1, Unary, Plain
<1>3. Has(ts, Blank) /\ Blank.type # "TMP"
  BY HasBlank, PlainAdrs
<1>4. Works(ts, ts', Outs(frames), uses)
  BY <1>1, <1>3, AtStats, WorkReads
<1> QED BY <1>1, <1>4, WholeWorks

(* A value is read into a variable. *)
LEMMA ReadVariableStep ==
  ASSUME Now, NEW i \in DOMAIN Locals, ReadVariable(i)
  PROVE  Inv(ts', frames', land', uses')
<1> DEFINE x == Adr("VAR", i - 1, Locals[i], 0)
           op == ReadOp(Locals[i])
<1>1. /\ Stats /\ HasLocals /\ ts' = Emit1(ts, Line(op, x, Blank, Blank))
      /\ frames' = SetTop([Top EXCEPT !.some = TRUE]) /\ land' = land /\ uses' = uses
  BY DEF ReadVariable, Whole, Rest, Emit1, Unary
<1>2. op \in Plain \cup Taking
  BY DEF ReadOp, Plain
<1>3. Has(ts, x) /\ x.type # "TMP"
  BY <1>1, AtStats, LocalsHas
<1>4. Has(ts, Blank)
  BY HasBlank
<1> HIDE DEF x, op
<1>5. Works(ts, ts', Outs(frames), uses)
  BY <1>1, <1>2, <1>3, <1>4, AtStats, WorkReads
<1> QED BY <1>1, <1>5, WholeWorks

(* A string is printed. *)
LEMMA PrintStringStep ==
  ASSUME Now, NEW s \in Funcs, PrintString(s)
  PROVE  Inv(ts', frames', land', uses')
<1> DEFINE u == Intern(ts, "str", s)
           a == AdrOf(ts, "str", s)
<1>1. /\ Stats /\ ts' = Emit1(u, Line("PRINTSTR", a, Blank, Blank))
      /\ frames' = SetTop([Top EXCEPT !.some = TRUE]) /\ land' = land /\ uses' = uses
      /\ "PRINTSTR" \in Plain \cup Taking
  BY DEF PrintString, Whole, Rest, Emit1, Unary, Plain
<1>2. "str" \in Pools /\ s \in Vals
  BY DEF Pools, Vals, Names
<1>3. Works(ts, u, Outs(frames), uses) /\ Has(u, a) /\ a.type \in {"ILIT", "FLIT", "STR"}
  BY <1>1, <1>2, AtStats, WorkInterns
<1>4. Has(u, Blank)
  BY HasBlank
<1> HIDE DEF u, a
<1>5. Works(ts, ts', Outs(frames), uses)
  BY <1>1, <1>3, <1>4, AtStats, WorkReads
<1> QED BY <1>1, <1>5, WholeWorks

(* A value is assigned, to a variable or through an address. *)
LEMMA CloseAssignStep ==
  ASSUME Now, CloseAssign
  PROVE  Inv(ts', frames', land', uses')
<1> DEFINE a  == Top.adrs[1]
           b  == Top.adrs[2]
           op == IF Top.tys[1] = "place" THEN "STORE" ELSE "ASIGN"
<1>1. /\ Ready("asgn") /\ ts' = Emit1(ts, Line(op, a, Blank, b)) /\ frames' = Front(frames)
      /\ land' = land /\ uses' = uses
  BY DEF CloseAssign, EndStat, Rest, Emit1, Binary
<1>2. "asgn" \in PlainStats /\ "STORE" \in Taking /\ "ASIGN" \in Plain
  BY DEF PlainStats, TwoKinds, Taking, Plain
<1>3. /\ InCode /\ Top.k = "asgn" /\ ShapedPlain(Top) /\ Len(Top.adrs) = Len(Top.tys)
      /\ \A m \in 1..Len(Top.adrs) : Has(ts, Top.adrs[m])
      /\ Works(ts, ts, Outs(frames), uses) /\ TSok(ts)
  BY <1>1, <1>2, AtReady
<1>4. Len(Top.adrs) = 2 /\ (Top.tys[1] = "place" \/ a.type = "VAR")
  BY <1>3 DEF ShapedPlain
<1>5. Has(ts, a) /\ Has(ts, b) /\ Has(ts, Blank)
  BY <1>3, <1>4, HasBlank
<1>6. op \in Plain \cup Taking /\ (op \in Taking \/ a.type # "TMP")
  BY <1>2, <1>4
<1> HIDE DEF a, b, op
<1>7. Works(ts, ts', Outs(frames), uses)
  BY <1>1, <1>3, <1>5, <1>6, WorkReads
<1> QED BY <1>1, <1>2, <1>3, <1>7, EndWorks

(* A value is returned. *)
LEMMA CloseReturnStep ==
  ASSUME Now, CloseReturn
  PROVE  Inv(ts', frames', land', uses')
<1> DEFINE a  == Top.adrs[1]
<1>1. /\ Ready("return") /\ ts' = Emit1(ts, Line("RVAL", a, Blank, Blank))
      /\ frames' = Front(frames) /\ land' = land /\ uses' = uses
  BY DEF CloseReturn, EndStat, Rest, Emit1, Unary
<1>2. "return" \in PlainStats /\ "RVAL" \in Taking
  BY DEF PlainStats, Taking
<1>3. /\ InCode /\ Top.k = "return" /\ ShapedPlain(Top) /\ Len(Top.adrs) = Len(Top.tys)
      /\ \A m \in 1..Len(Top.adrs) : Has(ts, Top.adrs[m])
      /\ Works(ts, ts, Outs(frames), uses) /\ TSok(ts)
  BY <1>1, <1>2, AtReady
<1>4. Len(Top.adrs) = 1
  BY <1>3 DEF ShapedPlain
<1>5. Has(ts, a) /\ Has(ts, Blank)
  BY <1>3, <1>4, HasBlank
<1> HIDE DEF a
<1>7. Works(ts, ts', Outs(frames), uses)
  BY <1>1, <1>2, <1>3, <1>5, WorkReads
<1> QED BY <1>1, <1>2, <1>3, <1>7, EndWorks

(* A value is printed, an element is read through. *)
LEMMA ClosePrintStep ==
  ASSUME Now, ClosePrint
  PROVE  Inv(ts', frames', land', uses')
<1> DEFINE a    == Top.adrs[1]
           x    == Tmp(ts, Top.ty)
           u    == IF a.ty = "ptr" THEN Emit1(TookTmp(ts), Line("DEREF", x, Blank, a)) ELSE ts
           from == IF a.ty = "ptr" THEN x ELSE a
           op   == IF Top.ty = "int" THEN "PRINTI" ELSE "PRINTF"
<1>1. /\ Ready("print") /\ ts' = Emit1(u, Line(op, from, Blank, Blank))
      /\ frames' = Front(frames) /\ land' = land /\ uses' = uses
  BY DEF ClosePrint, EndStat, Rest, Emit1, Unary, Binary
<1>2. /\ "print" \in PlainStats /\ op \in Taking /\ op \in Plain \cup Taking
      /\ "DEREF" \in Plain
  BY DEF PlainStats, Taking, Plain
<1>3. /\ InCode /\ Top.k = "print" /\ ShapedPlain(Top) /\ Len(Top.adrs) = Len(Top.tys)
      /\ \A m \in 1..Len(Top.adrs) : Has(ts, Top.adrs[m])
      /\ Works(ts, ts, Outs(frames), uses) /\ TSok(ts) /\ Top \in FrameSet
  BY <1>1, <1>2, AtReady
<1>4. Len(Top.adrs) = 1
  BY <1>3 DEF ShapedPlain
<1>5. Has(ts, a) /\ \A t : Has(t, Blank)
  BY <1>3, <1>4, HasBlank
<1>6. Top.ty \in Types
  BY <1>3 DEF FrameSet, Types
<1> HIDE DEF a
<1>7. Works(ts, u, Outs(frames), uses) /\ Has(u, from)
  <2>1. CASE a.ty = "ptr"
    <3>1. u = Emit1(TookTmp(ts), Line("DEREF", x, Blank, a)) /\ from = x
      BY <2>1
    <3> HIDE DEF u, from
    <3> QED BY <1>2, <1>3, <1>5, <1>6, <3>1, WorkTmp
  <2>2. CASE a.ty # "ptr"
    BY <1>3, <1>5, <2>2
  <2> QED BY <2>1, <2>2
<1> HIDE DEF u, from, op
<1>8. Works(ts, ts', Outs(frames), uses)
  BY <1>1, <1>2, <1>3, <1>5, <1>7, WorkReads
<1> QED BY <1>1, <1>2, <1>3, <1>8, EndWorks

(* A value is read, and stored in a field. *)
LEMMA CloseReadElemStep ==
  ASSUME Now, CloseReadElem
  PROVE  Inv(ts', frames', land', uses')
<1> DEFINE a  == Top.adrs[1]
           x  == Tmp(ts, Top.ty)
           op == ReadOp(Top.ty)
           l  == Unary(op, x)
           m  == Binary("STORE", a, x)
           u  == Emit1(TookTmp(ts), Line(op, x, Blank, Blank))
<1>1. /\ Ready("read") /\ ts' = Emit(TookTmp(ts), <<l, m>>)
      /\ frames' = Front(frames) /\ land' = land /\ uses' = uses
  BY DEF CloseReadElem, EndStat, Rest
<1>2. /\ "read" \in PlainStats /\ op \in Plain /\ "STORE" \in Taking
      /\ op \in Operations /\ "STORE" \in Operations
  BY DEF PlainStats, Taking, Plain, ReadOp, Operations
<1>3. /\ InCode /\ Top.k = "read" /\ ShapedPlain(Top) /\ Len(Top.adrs) = Len(Top.tys)
      /\ \A n \in 1..Len(Top.adrs) : Has(ts, Top.adrs[n])
      /\ Works(ts, ts, Outs(frames), uses) /\ TSok(ts) /\ Top \in FrameSet
  BY <1>1, <1>2, AtReady
<1>4. Len(Top.adrs) = 1
  BY <1>3 DEF ShapedPlain
<1>5. Has(ts, a) /\ (\A t : Has(t, Blank)) /\ a \in Adrs
  BY <1>3, <1>4, HasBlank DEF Has
<1>6. Top.ty \in Types /\ ts.tmp \in Nat
  BY <1>3 DEF FrameSet, Types, TSok
<1>7. x \in Adrs
  BY <1>6, PlainAdrs
<1>8. TSok(TookTmp(ts))
  BY <1>3, TmpIs
<1>9. l \in LineSet /\ m \in LineSet
  <2> HIDE DEF x, a, op
  <2> QED BY <1>2, <1>5, <1>7, ShortLines
<1>10. ts' = Emit1(Emit1(TookTmp(ts), l), m)
  <2> HIDE DEF l, m
  <2> QED BY <1>1, <1>8, <1>9, EmitsAre
<1>11. ts' = Emit1(u, Line("STORE", a, Blank, x))
  BY <1>10 DEF Unary, Binary
<1> HIDE DEF a, op, l, m
<1>12. Works(ts, u, Outs(frames), uses) /\ Keeps(ts, u) /\ Has(u, x)
  BY <1>2, <1>3, <1>5, <1>6, WorkTmp
<1>13. Has(u, a)
  BY <1>5, <1>12 DEF Keeps
<1> HIDE DEF u, x
<1>14. Works(ts, ts', Outs(frames), uses)
  BY <1>2, <1>3, <1>5, <1>11, <1>12, <1>13, WorkReads
<1> QED BY <1>1, <1>2, <1>3, <1>14, EndWorks

(* A temporary is written again, where programs add to fields. *)
LEMMA WorkUpdates ==
  ASSUME NEW t, TSok(t), NEW u, NEW P, NEW us, Works(t, u, P, us), "elemupdate" \in us,
         NEW op \in Plain, NEW a, Has(u, a), NEW b, Has(u, b), NEW c, Has(u, c),
         NEW w, w = Emit1(u, Line(op, a, b, c))
  PROVE  Works(t, w, P, us)
<1> DEFINE l == Line(op, a, b, c)
<1>1. /\ l \in LineSet /\ l.op = op /\ l.left = a /\ l.middle = b /\ l.right = c
      /\ op \notin Loud /\ op # "FUNC" /\ op \notin Readers
  <2>1. op \in Operations /\ op \notin Loud /\ op # "FUNC" /\ op \notin Readers
    BY OpsAre
  <2>2. a \in Adrs /\ b \in Adrs /\ c \in Adrs
    BY DEF Has
  <2> QED BY <2>1, <2>2, LineIs
<1>2. w = Emit1(u, l)
  OBVIOUS
<1> HIDE DEF l
<1>3. Addable(u, l, P, us)
  BY <1>1 DEF Addable, Has
<1>4. Spares(l, P)
  <2>1. SUFFICES ASSUME a.type = "TMP", a.n \in P PROVE FALSE
    BY <1>1 DEF Spares
  <2>2. Numbered(u, P) /\ Current(u.lines, a)
    BY DEF Works, Good, Has
  <2>3. PICK j \in 1..Len(u.lines) : Defines(u.lines, j, a) /\ NoFunc(u.lines, j, Len(u.lines))
    BY <2>1, <2>2 DEF Current, Kept
  <2>4. Writes(u.lines, j, u.lines[j].left.n) /\ u.lines[j].left.n = a.n
    BY <2>1, <2>3 DEF Defines, Writes
  <2> QED BY <2>1, <2>2, <2>3, <2>4 DEF Numbered
<1>5. Works(t, w, P, us)
  BY <1>1, <1>2, <1>3, <1>4, WorkEmits
<1> QED BY <1>5

(* A sum is assigned. *)
LEMMA CloseUpdateStep ==
  ASSUME Now, CloseUpdate
  PROVE  Inv(ts', frames', land', uses')
<1> DEFINE x   == Top.adrs[1]
           a   == Top.adrs[2]
           t   == Promoted(ts, Top, a)
           rhs == Promotion(ts, Top, a)
           op  == IF Top.ty = "real" THEN "ADDF" ELSE "ADDI"
<1>1. /\ Ready("update") /\ ts' = Emit1(t, Line(op, x, x, rhs)) /\ frames' = Front(frames)
      /\ land' = land /\ uses' = uses
  BY DEF CloseUpdate, EndStat, Rest, Emit1
<1>2. "update" \in PlainStats /\ op \in Plain /\ op \in Plain \cup Taking
  BY DEF PlainStats, TwoKinds, Plain
<1>3. /\ InCode /\ Top.k = "update" /\ ShapedPlain(Top) /\ Len(Top.adrs) = Len(Top.tys)
      /\ \A m \in 1..Len(Top.adrs) : Has(ts, Top.adrs[m])
      /\ Works(ts, ts, Outs(frames), uses) /\ TSok(ts) /\ Allowed(Top, uses)
  BY <1>1, <1>2, AtReady
<1>4. /\ Len(Top.adrs) = 2
      /\ Top.tys[1] = "place" \/ x.type = "VAR"
      /\ Top.tys[1] = "place" => "elemupdate" \in uses
  BY <1>3 DEF ShapedPlain, Allowed
<1>5. Has(ts, x) /\ Has(ts, a)
  BY <1>3, <1>4
<1> HIDE DEF a, x, op
<1>6. Works(ts, t, Outs(frames), uses) /\ Keeps(ts, t) /\ Has(t, rhs)
  BY <1>3, <1>5, PromotedWorks
<1>7. Has(t, x)
  BY <1>5, <1>6 DEF Keeps
<1> HIDE DEF t, rhs
<1>8. Works(ts, ts', Outs(frames), uses)
  <2>1. CASE x.type = "VAR"
    <3>1. x.type # "TMP"
      BY <2>1
    <3> QED BY <1>1, <1>2, <1>3, <1>6, <1>7, <3>1, WorkReads
  <2>2. CASE x.type # "VAR"
    <3>1. "elemupdate" \in uses
      BY <1>4, <2>2
    <3> QED BY <1>1, <1>2, <1>3, <1>6, <1>7, <3>1, WorkUpdates
  <2> QED BY <2>1, <2>2
<1> QED BY <1>1, <1>2, <1>3, <1>8, EndWorks

(* A word is copied. *)
LEMMA CopyWorks ==
  ASSUME NEW t, TSok(t), NEW P, NEW us, Works(ts, t, P, us), TSok(ts),
         NEW place \in {0, 8, 16}, Has(t, Top.adrs[1]), Has(t, Top.adrs[2])
  PROVE  Works(ts, CopiedWord(t, place), P, us) /\ Keeps(t, CopiedWord(t, place))
<1> DEFINE lhs == Top.adrs[1]
           rhs == Top.adrs[2]
           k   == AdrOf(t, "int", place)
           t0  == Intern(t, "int", place)
           a   == Tmp(t0, "ptr")
           t1  == Emit1(TookTmp(t0), Line("ADDI", a, lhs, k))
           b   == Tmp(t1, "ptr")
           t2  == Emit1(TookTmp(t1), Line("ADDI", b, rhs, k))
           ty  == Fields[(place \div 8) + 1]
           v   == Tmp(t2, ty)
           l   == Binary("DEREF", v, b)
           m   == Binary("STORE", a, v)
           w   == Emit(TookTmp(t2), <<l, m>>)
           t3  == Emit1(TookTmp(t2), Line("DEREF", v, Blank, b))
<1>1. CopiedWord(t, place) = w
  BY DEF CopiedWord, Emit1
<1>2. ty \in Types
  BY DEF Fields, Types
<1>3. /\ "int" \in Pools /\ place \in Vals /\ "ptr" \in Types /\ "ADDI" \in Plain
      /\ "DEREF" \in Plain /\ "STORE" \in Taking /\ "DEREF" \in Operations
      /\ "STORE" \in Operations /\ "STORE" \in Plain \cup Taking
  BY DEF Pools, Vals, Types, Plain, Taking, Operations
<1>4. Has(t, lhs) /\ Has(t, rhs) /\ \A u : Has(u, Blank)
  BY HasBlank
<1> HIDE DEF lhs, rhs, ty
<1>5. Works(ts, t0, P, us) /\ Keeps(t, t0) /\ Has(t0, k)
  BY <1>3, WorkInterns
<1>6. Has(t0, lhs) /\ Has(t0, rhs)
  BY <1>4, <1>5 DEF Keeps
<1> HIDE DEF t0, k
<1>7. Works(ts, t1, P, us) /\ Keeps(t0, t1) /\ Has(t1, a)
  BY <1>3, <1>5, <1>6, WorkTmp
<1>8. Has(t1, rhs) /\ Has(t1, k)
  BY <1>5, <1>6, <1>7 DEF Keeps
<1> HIDE DEF t1, a
<1>9. Works(ts, t2, P, us) /\ Keeps(t1, t2) /\ Has(t2, b)
  BY <1>3, <1>7, <1>8, WorkTmp
<1>10. Has(t2, a)
  BY <1>7, <1>9 DEF Keeps
<1> HIDE DEF t2, b
<1>11. Works(ts, t3, P, us) /\ Keeps(t2, t3) /\ Has(t3, v)
  BY <1>2, <1>3, <1>4, <1>9, WorkTmp
<1>12. Has(t3, a)
  BY <1>10, <1>11 DEF Keeps
<1>13. w = Emit1(t3, Line("STORE", a, Blank, v))
  <2>1. a \in Adrs /\ b \in Adrs /\ v \in Adrs
    BY <1>9, <1>11, <1>12 DEF Has
  <2>2. TSok(t2)
    BY <1>9 DEF Works, Good, Sound
  <2>3. TSok(TookTmp(t2))
    BY <2>2, TmpIs
  <2>4. l \in LineSet /\ m \in LineSet
    <3> HIDE DEF v
    <3> QED BY <1>3, <2>1, ShortLines
  <2>5. w = Emit1(Emit1(TookTmp(t2), l), m)
    <3> HIDE DEF l, m
    <3> QED BY <2>3, <2>4, EmitsAre
  <2> QED BY <2>5 DEF Binary
<1> HIDE DEF t3, v, w
<1>14. Works(ts, w, P, us) /\ Keeps(t3, w)
  BY <1>3, <1>4, <1>11, <1>12, <1>13, WorkReads
<1>15. Keeps(t, w)
  BY <1>5, <1>7, <1>9, <1>11, <1>14 DEF Keeps
<1> QED BY <1>1, <1>14, <1>15

(* A struct is copied. *)
LEMMA CloseCopyStep ==
  ASSUME Now, CloseCopy
  PROVE  Inv(ts', frames', land', uses')
<1> DEFINE t1 == CopiedWord(ts, 0)
           t2 == CopiedWord(t1, 8)
           t3 == CopiedWord(t2, 16)
<1>1. /\ Ready("copy") /\ ts' = t3 /\ frames' = Front(frames) /\ land' = land /\ uses' = uses
      /\ "copy" \in PlainStats
  BY DEF CloseCopy, EndStat, Rest, PlainStats, TwoKinds
<1>2. /\ InCode /\ Top.k = "copy" /\ ShapedPlain(Top) /\ Len(Top.adrs) = Len(Top.tys)
      /\ \A m \in 1..Len(Top.adrs) : Has(ts, Top.adrs[m])
      /\ Works(ts, ts, Outs(frames), uses) /\ TSok(ts)
  BY <1>1, AtReady
<1>3. Len(Top.adrs) = 2
  BY <1>2 DEF ShapedPlain
<1>4. Has(ts, Top.adrs[1]) /\ Has(ts, Top.adrs[2])
  BY <1>2, <1>3
<1>5. Works(ts, t1, Outs(frames), uses) /\ Keeps(ts, t1)
  BY <1>2, <1>4, CopyWorks
<1> HIDE DEF t1
<1>6. Has(t1, Top.adrs[1]) /\ Has(t1, Top.adrs[2]) /\ TSok(t1)
  BY <1>4, <1>5 DEF Keeps, Works, Good, Sound
<1>7. Works(ts, t2, Outs(frames), uses) /\ Keeps(t1, t2)
  BY <1>2, <1>5, <1>6, CopyWorks
<1> HIDE DEF t2
<1>8. Has(t2, Top.adrs[1]) /\ Has(t2, Top.adrs[2]) /\ TSok(t2)
  BY <1>6, <1>7 DEF Keeps, Works, Good, Sound
<1>9. Works(ts, t3, Outs(frames), uses)
  BY <1>2, <1>7, <1>8, CopyWorks
<1> HIDE DEF t3
<1> QED BY <1>1, <1>2, <1>9, EndWorks

(***************************************************************************)
(* Calls.                                                                  *)
(***************************************************************************)
Joined(S, s, p, m) ==
  /\ m \in Seq(S) /\ Len(m) = Len(s) + Len(p) /\ Len(s) \in Nat /\ Len(p) \in Nat
  /\ \A i \in 1..Len(s) : m[i] = s[i]
  /\ \A k \in 1..Len(p) : m[Len(s) + k] = p[k]

(* Two sequences behind each other. *)
LEMMA JoinIs ==
  ASSUME NEW S, NEW s \in Seq(S), NEW p \in Seq(S), NEW m, m = s \o p
  PROVE  Joined(S, s, p, m)
<1>1. m \in Seq(S) /\ Len(m) = Len(s) + Len(p) /\ Len(s) \in Nat /\ Len(p) \in Nat
  OBVIOUS
<1>2. \A i \in 1..Len(s) : m[i] = s[i]
  OBVIOUS
<1>3. ASSUME NEW k \in 1..Len(p) PROVE m[Len(s) + k] = p[k]
  <2>1. Len(s) + k \in 1..(Len(s) + Len(p)) /\ ~(Len(s) + k <= Len(s)) /\ Len(s) + k - Len(s) = k
    BY <1>1
  <2> QED BY <1>1, <2>1
<1> QED BY <1>1, <1>2, <1>3 DEF Joined

Firsts(S, p, m, q) == q \in Seq(S) /\ Len(q) = m /\ \A i \in 1..m : q[i] = p[i]

(* The first of a sequence. *)
LEMMA FirstIs ==
  ASSUME NEW S, NEW p \in Seq(S), NEW m \in 0..Len(p), NEW q, q = SubSeq(p, 1, m)
  PROVE  Firsts(S, p, m, q)
BY DEF Firsts

(* One more of them. *)
LEMMA OneByOne ==
  ASSUME NEW S, NEW s \in Seq(S), NEW p \in Seq(S), NEW m \in 0..(Len(p) - 1)
  PROVE  s \o SubSeq(p, 1, m + 1) = (s \o SubSeq(p, 1, m)) \o <<p[m + 1]>>
<1> DEFINE a == SubSeq(p, 1, m)
           b == SubSeq(p, 1, m + 1)
           c == <<p[m + 1]>>
           n == Len(s)
<1>1. m \in Nat /\ n \in Nat /\ m \in 0..Len(p) /\ m + 1 \in 0..Len(p) /\ m + 1 \in 1..Len(p)
  OBVIOUS
<1>2. a \in Seq(S) /\ Len(a) = m /\ \A i \in 1..m : a[i] = p[i]
  BY <1>1, FirstIs DEF Firsts
<1>3. b \in Seq(S) /\ Len(b) = m + 1 /\ \A i \in 1..(m + 1) : b[i] = p[i]
  BY <1>1, FirstIs DEF Firsts
<1>4. c \in Seq(S) /\ Len(c) = 1 /\ c[1] = p[m + 1]
  BY <1>1
<1> HIDE DEF a, b, c
<1> DEFINE x == s \o b
           d == s \o a
           y == d \o c
<1>5. /\ x \in Seq(S) /\ Len(x) = n + (m + 1)
      /\ \A i \in 1..n : x[i] = s[i]
      /\ \A k \in 1..(m + 1) : x[n + k] = b[k]
  <2>1. Joined(S, s, b, x)
    BY <1>3, JoinIs
  <2> QED BY <1>3, <2>1 DEF Joined
<1>6. /\ d \in Seq(S) /\ Len(d) = n + m
      /\ \A i \in 1..n : d[i] = s[i]
      /\ \A k \in 1..m : d[n + k] = a[k]
  <2>1. Joined(S, s, a, d)
    BY <1>2, JoinIs
  <2> QED BY <1>2, <2>1 DEF Joined
<1> HIDE DEF d
<1>7. /\ y \in Seq(S) /\ Len(y) = (n + m) + 1
      /\ \A i \in 1..(n + m) : y[i] = d[i]
      /\ \A k \in 1..1 : y[(n + m) + k] = c[k]
  <2>1. Joined(S, d, c, y)
    BY <1>4, <1>6, JoinIs
  <2> QED BY <1>4, <1>6, <2>1 DEF Joined
<1> HIDE DEF x, y, n
<1>8. ASSUME NEW i \in 1..(n + (m + 1)) PROVE x[i] = y[i]
  <2>1. CASE i \in 1..n
    <3>1. i \in 1..(n + m)
      BY <1>1, <2>1
    <3> QED BY <1>5, <1>6, <1>7, <2>1, <3>1
  <2>2. CASE i \notin 1..n /\ i # n + (m + 1)
    <3> DEFINE k == i - n
    <3>1. k \in 1..m /\ k \in 1..(m + 1) /\ i = n + k /\ i \in 1..(n + m)
      BY <1>1, <2>2
    <3> HIDE DEF k
    <3>2. x[i] = b[k] /\ y[i] = a[k]
      BY <1>5, <1>6, <1>7, <3>1
    <3> QED BY <1>2, <1>3, <3>1, <3>2
  <2>3. CASE i = n + (m + 1)
    <3>1. m + 1 \in 1..(m + 1) /\ 1 \in 1..1 /\ i = (n + m) + 1
      BY <1>1, <2>3
    <3>2. x[i] = b[m + 1] /\ y[i] = c[1]
      BY <1>5, <1>7, <2>3, <3>1
    <3> QED BY <1>3, <1>4, <3>1, <3>2
  <2> QED BY <2>1, <2>2, <2>3
<1>9. Len(x) = Len(y) /\ Len(x) = n + (m + 1)
  BY <1>1, <1>5, <1>7
<1>10. x = y
  BY <1>5, <1>7, <1>8, <1>9, SeqEqual
<1> QED BY <1>10 DEF x, y, d, a, b, c

(* Lines that write nothing, of what is there. *)
Passing(t, ps) ==
  /\ ps \in Seq(LineSet)
  /\ \A m \in 1..Len(ps) : /\ ps[m].op = "PARAM" /\ Has(t, ps[m].left)
                           /\ Has(t, ps[m].middle) /\ Has(t, ps[m].right)
FirstOf(t, ps, m) == Emit(t, SubSeq(ps, 1, m))

(* One after the other. *)
LEMMA FirstsAre ==
  ASSUME NEW t, TSok(t), NEW ps \in Seq(LineSet)
  PROVE  /\ FirstOf(t, ps, 0) = t /\ FirstOf(t, ps, Len(ps)) = Emit(t, ps)
         /\ \A m \in 0..(Len(ps) - 1) :
              FirstOf(t, ps, m + 1) = Emit1(FirstOf(t, ps, m), ps[m + 1])
<1>0. t.lines \in Seq(LineSet) /\ Len(ps) \in Nat
  BY DEF TSok
<1>1. FirstOf(t, ps, 0) = t
  <2>1. SubSeq(ps, 1, 0) = <<>>
    OBVIOUS
  <2>2. t.lines \o <<>> = t.lines
    BY <1>0
  <2> QED BY <2>1, <2>2 DEF FirstOf, Emit, TSok
<1>2. FirstOf(t, ps, Len(ps)) = Emit(t, ps)
  <2>1. SubSeq(ps, 1, Len(ps)) = ps
    OBVIOUS
  <2> QED BY <2>1 DEF FirstOf
<1>3. ASSUME NEW m \in 0..(Len(ps) - 1)
      PROVE  FirstOf(t, ps, m + 1) = Emit1(FirstOf(t, ps, m), ps[m + 1])
  <2> DEFINE a == SubSeq(ps, 1, m)
             b == SubSeq(ps, 1, m + 1)
             l == <<ps[m + 1]>>
  <2>1. t.lines \o b = (t.lines \o a) \o l
    BY <1>0, OneByOne
  <2> HIDE DEF a, b, l
  <2>2. /\ FirstOf(t, ps, m + 1) = [t EXCEPT !.lines = t.lines \o b]
        /\ Emit1(FirstOf(t, ps, m), ps[m + 1]) = [t EXCEPT !.lines = (t.lines \o a) \o l]
    BY DEF FirstOf, Emit, Emit1, TSok, a, b, l
  <2> QED BY <2>1, <2>2
<1> QED BY <1>1, <1>2, <1>3

(* They are emitted like one. *)
LEMMA EmitsAll ==
  ASSUME NEW t, NEW P, NEW us, Good(t, P, us), NEW ps, Passing(t, ps),
         NEW u, u = Emit(t, ps)
  PROVE  /\ Good(u, P, us) /\ Keeps(t, u) /\ u.lines = t.lines \o ps /\ u.label = t.label
<1>0. TSok(t) /\ ps \in Seq(LineSet) /\ Len(ps) \in Nat
  BY DEF Good, Sound, Passing
<1> DEFINE S == {m \in Int : m \in 0..Len(ps) =>
                   Good(FirstOf(t, ps, m), P, us) /\ Keeps(t, FirstOf(t, ps, m))}
<1>1. 0 \in S
  <2>1. FirstOf(t, ps, 0) = t
    BY <1>0, FirstsAre
  <2> QED BY <2>1 DEF Keeps
<1>2. ASSUME NEW m \in 0..(Len(ps) - 1), m \in S PROVE m + 1 \in S
  <2> DEFINE v == FirstOf(t, ps, m)
             w == FirstOf(t, ps, m + 1)
             l == ps[m + 1]
  <2>1. Good(v, P, us) /\ Keeps(t, v)
    BY <1>0, <1>2
  <2>2. w = Emit1(v, l)
    BY <1>0, FirstsAre
  <2>3. m + 1 \in 1..Len(ps)
    BY <1>0
  <2>4. /\ l \in LineSet /\ l.op = "PARAM" /\ Has(t, l.left) /\ Has(t, l.middle)
        /\ Has(t, l.right)
    BY <1>0, <2>3 DEF Passing
  <2> HIDE DEF v, w, l
  <2>5. Addable(v, l, P, us) /\ Spares(l, P)
    BY <2>1, <2>4 DEF Addable, Spares, Keeps, Readers, Has
  <2>6. Good(w, P, us) /\ Keeps(v, w)
    BY <2>1, <2>2, <2>5, Emits
  <2>7. Keeps(t, w)
    BY <2>1, <2>6 DEF Keeps
  <2> QED BY <1>0, <2>6, <2>7 DEF w
<1> HIDE DEF S
<1>3. 0..Len(ps) \subseteq S
  <2> DEFINE n == Len(ps)
  <2>1. \A m \in 0..(n - 1) : m \in S => m + 1 \in S
    BY <1>2
  <2>2. 0 \in Int /\ n \in Int
    BY <1>0
  <2> HIDE DEF n
  <2>3. 0..n \subseteq S
    BY <1>1, <2>1, <2>2, InductUpTo
  <2> QED BY <2>3 DEF n
<1>4. Len(ps) \in 0..Len(ps) /\ FirstOf(t, ps, Len(ps)) = u
  BY <1>0, FirstsAre
<1>5. Good(u, P, us) /\ Keeps(t, u)
  BY <1>3, <1>4 DEF S
<1>6. u.lines = t.lines \o ps /\ u.label = t.label
  BY <1>0, EmitIs
<1> QED BY <1>5, <1>6

Appended(S, s, x, r) ==
  /\ r \in Seq(S) /\ Len(r) = Len(s) + 1 /\ r[Len(s) + 1] = x
  /\ \A i \in 1..Len(s) : r[i] = s[i]

(* One more at the end. *)
LEMMA AppendIs ==
  ASSUME NEW S, NEW s \in Seq(S), NEW x \in S, NEW r, r = Append(s, x)
  PROVE  Appended(S, s, x, r)
BY DEF Appended

ParamLine(f, j) == [Unary("PARAM", f.adrs[j]) EXCEPT !.ref = Append(f.call, j)]
RefOf(c, j, r) == r \in Seq(Nat) /\ Len(r) = 3 /\ r[3] = j /\ Front(r) = c

(* The call of an argument is what its place is added to. *)
LEMMA RefIs ==
  ASSUME NEW c \in Seq(Nat), Len(c) = 2, NEW j \in Nat
  PROVE  RefOf(c, j, Append(c, j))
<1> DEFINE r == Append(c, j)
           q == SubSeq(r, 1, 2)
<1>a. /\ r \in Seq(Nat) /\ Len(r) = Len(c) + 1 /\ r[Len(c) + 1] = j
      /\ \A i \in 1..Len(c) : r[i] = c[i]
  <2>1. Appended(Nat, c, j, r)
    BY AppendIs
  <2> QED BY <2>1 DEF Appended
<1> HIDE DEF r
<1>1. r \in Seq(Nat) /\ Len(r) = 3 /\ r[3] = j /\ r[1] = c[1] /\ r[2] = c[2]
  BY <1>a
<1>2. Len(r) - 1 = 2 /\ 2 \in 0..Len(r) /\ \A i \in 1..2 : i = 1 \/ i = 2
  BY <1>1
<1>3. Front(r) = q
  BY <1>2 DEF Front
<1>4. q \in Seq(Nat) /\ Len(q) = 2 /\ \A i \in 1..2 : q[i] = r[i]
  <2>1. Firsts(Nat, r, 2, q)
    BY <1>1, <1>2, FirstIs
  <2> QED BY <2>1 DEF Firsts
<1> HIDE DEF q
<1>5. \A i \in 1..2 : q[i] = c[i]
  BY <1>1, <1>2, <1>4
<1>6. q = c
  BY <1>4, <1>5, SeqEqual
<1> QED BY <1>1, <1>3, <1>6 DEF RefOf, r

(* Arguments of a call, the first one last. *)
PassedBy(ps, call) ==
  \A k \in 1..Len(ps) : /\ ps[k].op = "PARAM" /\ Len(ps[k].ref) = 3
                         /\ ps[k].ref[3] = Len(ps) + 1 - k
                         /\ Front(ps[k].ref) = call

(* The arguments of a call, which are there. *)
LEMMA ParamsPass ==
  ASSUME NEW t, NEW f \in FrameSet, Len(f.call) = 2, HasAll(t, f),
         NEW ps, ps = Params(f)
  PROVE  Passing(t, ps) /\ Len(ps) = Len(f.adrs) /\ PassedBy(ps, f.call)
<1> DEFINE n == Len(f.adrs)
<1>1. f.adrs \in Seq(Adrs) /\ n \in Nat /\ f.call \in Seq(Nat)
  BY DEF FrameSet
<1>2. ASSUME NEW k \in 1..n
      PROVE  /\ n + 1 - k \in 1..n /\ n + 1 - k \in Nat
  BY <1>1
<1>3. ASSUME NEW j \in Nat
      PROVE  RefOf(f.call, j, Append(f.call, j))
  BY <1>1, RefIs
<1>4. ASSUME NEW j \in 1..n
      PROVE  /\ ParamLine(f, j) \in LineSet /\ ParamLine(f, j).op = "PARAM"
             /\ ParamLine(f, j).left = f.adrs[j] /\ ParamLine(f, j).middle = Blank
             /\ ParamLine(f, j).right = Blank /\ ParamLine(f, j).ref = Append(f.call, j)
  <2>1. j \in Nat
    BY <1>1
  <2>2. f.adrs[j] \in Adrs
    BY <1>1
  <2>3. "PARAM" \in Operations
    BY DEF Operations, Loud
  <2> DEFINE v == Unary("PARAM", f.adrs[j])
  <2>4. /\ v \in LineSet /\ v.op = "PARAM" /\ v.left = f.adrs[j] /\ v.middle = Blank
        /\ v.right = Blank
    BY <2>2, <2>3, ShortLines
  <2>5. Append(f.call, j) \in Seq(Nat)
    BY <1>1, <2>1
  <2>6. ParamLine(f, j) = [v EXCEPT !.ref = Append(f.call, j)]
    BY DEF ParamLine
  <2> HIDE DEF v
  <2> QED BY <2>4, <2>5, <2>6 DEF LineSet
<1>5. /\ DOMAIN ps = 1..n
      /\ \A k \in 1..n : ps[k] = ParamLine(f, n + 1 - k)
  BY DEF Params, ParamLine
<1>6. ASSUME NEW k \in 1..n
      PROVE  /\ ps[k] \in LineSet /\ ps[k].op = "PARAM" /\ ps[k].left = f.adrs[n + 1 - k]
             /\ ps[k].middle = Blank /\ ps[k].right = Blank
             /\ ps[k].ref = Append(f.call, n + 1 - k)
  BY <1>2, <1>4, <1>5
<1>7. ps \in Seq(LineSet) /\ Len(ps) = n
  <2>1. ps = [k \in 1..n |-> ps[k]]
    BY <1>5 DEF Params
  <2> HIDE DEF n
  <2>2. ps \in [1..n -> LineSet]
    BY <1>6, <2>1
  <2> QED BY <1>1, <2>2
<1>8. \A k \in 1..n : /\ Has(t, ps[k].left) /\ Has(t, ps[k].middle) /\ Has(t, ps[k].right)
  BY <1>2, <1>6, HasBlank DEF HasAll
<1>9. Passing(t, ps)
  BY <1>6, <1>7, <1>8 DEF Passing
<1>10. \A k \in 1..n : /\ Len(ps[k].ref) = 3 /\ ps[k].ref[3] = n + 1 - k
                       /\ Front(ps[k].ref) = f.call
  BY <1>2, <1>3, <1>6 DEF RefOf
<1> HIDE DEF n
<1> QED BY <1>6, <1>7, <1>9, <1>10 DEF n, PassedBy

(* A call and its arguments in front of it. *)
LEMMA CallBlocks ==
  ASSUME NEW s \in Seq(LineSet), Blocks(s), NEW ps \in Seq(LineSet), NEW call,
         PassedBy(ps, call),
         NEW l \in LineSet, l.op \in CallOps, l.ref = call,
         NEW m, Joined(LineSet, s, ps, m), NEW r, Grown(m, l, r)
  PROVE  Blocks(r)
<1> DEFINE N == Len(s)
           n == Len(ps)
<1>1. /\ N \in Nat /\ n \in Nat /\ Len(m) = N + n /\ m \in Seq(LineSet)
      /\ \A i \in 1..N : m[i] = s[i]
      /\ \A k \in 1..n : m[N + k] = ps[k]
  BY DEF Joined
<1>2. /\ r \in Seq(LineSet) /\ Len(r) = Len(m) + 1 /\ r[Len(m) + 1] = l
      /\ \A i \in 1..Len(m) : r[i] = m[i]
  BY OneMore
<1> HIDE DEF N, n
<1>3. /\ Len(r) = N + n + 1 /\ r[N + n + 1] = l
      /\ \A i \in 1..N : r[i] = s[i]
      /\ \A k \in 1..n : r[N + k] = ps[k]
  <2>1. Len(r) = N + n + 1 /\ r[N + n + 1] = l
    BY <1>1, <1>2
  <2>2. ASSUME NEW i \in 1..N PROVE r[i] = s[i]
    <3>1. i \in 1..Len(m)
      BY <1>1
    <3> QED BY <1>1, <1>2, <3>1
  <2>3. ASSUME NEW k \in 1..n PROVE r[N + k] = ps[k]
    <3>1. N + k \in 1..Len(m)
      BY <1>1
    <3> QED BY <1>1, <1>2, <3>1
  <2> QED BY <2>1, <2>2, <2>3
<1>4. ASSUME NEW i \in 1..Len(r), r[i].op = "PARAM" PROVE InBlock(r, i)
  <2>1. CASE i <= N
    <3>1. i \in 1..N
      BY <1>1, <1>3, <2>1
    <3>2. s[i].op = "PARAM"
      BY <1>3, <1>4, <3>1
    <3>3. InBlock(s, i)
      BY <3>1, <3>2 DEF Blocks, N
    <3>4. Len(s) <= Len(r)
      BY <1>1, <1>3 DEF N
    <3> QED BY <1>2, <1>3, <3>1, <3>3, <3>4, StillInBlock DEF N
  <2>2. CASE i > N
    <3>1. i # N + n + 1
      BY <1>3, <1>4 DEF CallOps
    <3> DEFINE k == i - N
               j == n + 1 - k
    <3>2. k \in 1..n /\ i = N + k /\ k \in Int
      BY <1>1, <1>3, <2>2, <3>1
    <3>3. r[i] = ps[k]
      BY <1>3, <3>2
    <3>a. j \in 1..(Len(r) - i) /\ i + j = N + n + 1 /\ j = n + 1 - k
      BY <1>1, <1>3, <3>2
    <3> HIDE DEF k, j
    <3>4. Len(r[i].ref) = 3 /\ r[i].ref[3] = j /\ Front(r[i].ref) = call
      BY <3>2, <3>3, <3>a DEF PassedBy, n
    <3>6. r[i + j].op \in CallOps /\ r[i + j].ref = call
      BY <1>3, <3>a
    <3>7. ASSUME NEW x \in i..(i + j - 1) PROVE r[x].op = "PARAM"
      <4> DEFINE y == x - N
      <4>1. y \in 1..n /\ N + y = x
        BY <1>1, <3>2, <3>a
      <4> HIDE DEF y
      <4>2. r[N + y] = ps[y]
        BY <1>3, <4>1
      <4> QED BY <4>1, <4>2 DEF PassedBy, n
    <3> QED BY <3>4, <3>a, <3>6, <3>7 DEF InBlock
  <2> QED BY <1>1, <1>3, <2>1, <2>2
<1> QED BY <1>4 DEF Blocks

(* Calm work on the lines, that is no quiet one, and moves on the stack make a
   step. *)
LEMMA Calmly ==
  ASSUME NEW t, NEW fs, NEW ld, NEW us, Inv(t, fs, ld, us), fs # <<>>,
         NEW u, NEW P, Good(u, P, us), Calm(t, u), Blocks(u.lines),
         NEW gs, Outs(gs) \subseteq P, gs # <<>>, Framed(u, gs, us), SameFlow(fs, gs)
  PROVE  Inv(u, gs, ld, us)
<1>1. TSok(t) /\ TSok(u) /\ Sound(u, us)
  BY DEF Inv, Good, Sound
<1>2. Numbered(u, Outs(gs))
  BY Fewer DEF Good
<1>4. Branching(u, gs, ld)
  <2>1. /\ \A i \in 1..Len(fs) : Shaped(fs[i])
        /\ \A i \in 1..Len(gs) : Shaped(gs[i])
        /\ Len(fs) \in Nat /\ Len(gs) \in Nat /\ Branching(t, fs, ld)
    BY DEF Inv, Framed
  <2> QED BY <1>1, <2>1, CalmBranching
<1>5. u.lines[1].op = "FUNC"
  <2>1. Framed(t, fs, us) /\ t.lines # <<>> /\ t.lines[1].op = "FUNC"
    BY DEF Inv, Framed
  <2>2. 1 \in 1..Len(t.lines)
    BY <1>1, <2>1 DEF TSok
  <2> QED BY <1>1, <2>1, <2>2 DEF Calm, Longer
<1> QED BY <1>1, <1>2, <1>4, <1>5 DEF Inv

CallLine(op, a, b, c, call) == [Line(op, a, b, c) EXCEPT !.ref = call]
(* The temporaries that are left when the call is there. *)
LeftBy(op, P, a) == IF op = "CALL" THEN P ELSE P \ {a.n}
(* Arguments were passed. *)
PassedOn(t, v, P, us, ps) ==
  Joined(LineSet, t.lines, ps, v.lines) /\ v.label = t.label /\ Good(v, P, us) /\ Keeps(t, v)

Callable(v, op, a, b, c, P) ==
  /\ op \in {"CALL", "CALLVAL"} /\ a \in Adrs /\ Has(v, b) /\ Has(v, c)
  /\ op = "CALL" => Has(v, a) /\ a.type # "TMP"
  /\ op = "CALLVAL" => a.type = "TMP" /\ a.n \in P
Called(t, u, Q, us, a) ==
  Good(u, Q, us) /\ Keeps(t, u) /\ Calm(t, u) /\ Blocks(u.lines) /\ Has(u, a)

(* The lines of a call: nothing comes between the arguments and it. *)
LEMMA CalledWith ==
  ASSUME NEW t, NEW us, NEW P, Good(t, P, us), Blocks(t.lines),
         NEW ps \in Seq(LineSet), NEW call \in Seq(Nat), PassedBy(ps, call),
         NEW v, PassedOn(t, v, P, us, ps),
         NEW op, NEW a, NEW b, NEW c, Callable(v, op, a, b, c, P)
  PROVE  Called(t, Emit1(v, CallLine(op, a, b, c, call)), LeftBy(op, P, a), us, a)
<1> DEFINE l == CallLine(op, a, b, c, call)
           u == Emit1(v, l)
           Q == LeftBy(op, P, a)
<1>a. /\ op \in {"CALL", "CALLVAL"} /\ a \in Adrs /\ Has(v, b) /\ Has(v, c)
      /\ op = "CALL" => Has(v, a) /\ a.type # "TMP"
      /\ op = "CALLVAL" => a.type = "TMP" /\ a.n \in P
  BY DEF Callable
<1>0. /\ TSok(t) /\ TSok(v) /\ t.lines \in Seq(LineSet)
      /\ b \in Adrs /\ c \in Adrs
      /\ Joined(LineSet, t.lines, ps, v.lines) /\ v.label = t.label /\ Good(v, P, us)
      /\ Keeps(t, v)
  BY <1>a DEF Good, Sound, TSok, Has, PassedOn
<1>1. op \in Operations /\ op \notin Readers /\ op # "FUNC" /\ op \notin Loud /\ op \in CallOps
  BY <1>a DEF Operations, Plain, Readers, Loud, CallOps
<1>2. /\ l \in LineSet /\ l.op = op /\ l.left = a /\ l.middle = b /\ l.right = c
      /\ l.ref = call
  <2> DEFINE k == Line(op, a, b, c)
  <2>1. k \in LineSet /\ k.op = op /\ k.left = a /\ k.middle = b /\ k.right = c
    BY <1>0, <1>1, <1>a, LineIs
  <2> HIDE DEF k
  <2>2. l = [k EXCEPT !.ref = call]
    BY DEF k, CallLine
  <2> QED BY <2>1, <2>2 DEF LineSet
<1> HIDE DEF l
<1>3. Addable(v, l, P, us)
  <2>1. op = "CALL" => LitOK(v, a)
    BY <1>a DEF Has
  <2>2. op = "CALLVAL" => LitOK(v, a)
    BY <1>a, HasBlank
  <2>3. op = "CALL" \/ op = "CALLVAL"
    BY <1>a
  <2> QED BY <1>a, <1>1, <1>2, <2>1, <2>2, <2>3 DEF Addable
<1>4. Q \subseteq P /\ Spares(l, Q)
  BY <1>a, <1>1, <1>2 DEF Spares, LeftBy
<1> HIDE DEF u, Q
<1>5. /\ Good(u, Q, us) /\ Keeps(v, u) /\ Grown(v.lines, l, u.lines) /\ u.label = v.label
      /\ Has(u, a)
  BY <1>0, <1>1, <1>2, <1>3, <1>4, Emits DEF u
<1>6. Keeps(t, u)
  BY <1>0, <1>5 DEF Keeps
<1>7. Blocks(u.lines)
  BY <1>0, <1>1, <1>2, <1>5, CallBlocks
<1>8. Calm(t, u)
  <2> DEFINE N == Len(t.lines)
             n == Len(ps)
             r == u.lines
             m == v.lines
  <2>1. /\ N \in Nat /\ n \in Nat /\ Len(m) = N + n
        /\ \A i \in 1..N : m[i] = t.lines[i]
        /\ \A k \in 1..n : m[N + k] = ps[k]
    BY <1>0 DEF Joined
  <2>2. /\ Len(r) = Len(m) + 1 /\ r[Len(m) + 1] = l
        /\ \A i \in 1..Len(m) : r[i] = m[i]
    BY <1>5, OneMore
  <2>a. \A k \in 1..n : ps[k].op = "PARAM"
    BY DEF PassedBy
  <2>b. \A i \in 1..N : t.lines[i] = m[i]
    BY <2>1
  <2> HIDE DEF N, n, r, m
  <2>4. ASSUME NEW i \in (N + 1)..Len(r)
        PROVE  r[i].op \notin {"FUNC", "LABEL", "GOTO", "GOTOF"}
    <3>1. CASE i = N + n + 1
      BY <1>1, <1>2, <2>1, <2>2, <3>1 DEF Loud
    <3>2. CASE i # N + n + 1
      <4> DEFINE k == i - N
      <4>1. k \in 1..n /\ N + k = i /\ i \in 1..Len(m)
        BY <2>1, <2>2, <3>2
      <4> HIDE DEF k
      <4>2. r[i] = ps[k]
        BY <2>1, <2>2, <4>1
      <4>3. r[i].op = "PARAM"
        BY <2>a, <4>1, <4>2
      <4> QED BY <4>3
    <3> QED BY <3>1, <3>2
  <2>5. N <= Len(r)
    BY <2>1, <2>2
  <2>6. ASSUME NEW i \in 1..N PROVE r[i] = t.lines[i]
    <3>1. i \in 1..Len(m)
      BY <2>1
    <3> QED BY <2>b, <2>2, <3>1
  <2> QED BY <1>0, <1>5, <2>4, <2>5, <2>6 DEF Calm, Longer, N, r
<1> QED BY <1>5, <1>6, <1>7, <1>8 DEF Called, u, Q, l

(* Every argument is passed and the call made. *)
LEMMA CloseCallStep ==
  ASSUME Now, CloseCall
  PROVE  Inv(ts', frames', land', uses')
<1> DEFINE ps   == Params(Top)
           t1   == Emit(ts, ps)
           n    == Len(Top.adrs)
           t2   == Intern(t1, "int", n)
           t3   == Intern(t2, "str", Top.name)
           num  == AdrOf(t1, "int", n)
           name == AdrOf(t2, "str", Top.name)
           call == Top.call
           out  == Top.out
           lc   == CallLine("CALL", name, Blank, num, call)
           lv   == CallLine("CALLVAL", out, name, num, call)
           P    == Outs(frames)
<1>1. /\ InCode /\ Top.k \in {"call", "fncall"} /\ Top.want = "step"
      /\ land' = land /\ uses' = uses
  BY DEF CloseCall, Rest
<1>2. /\ Top.k = "call" => ts' = Emit1(t3, lc) /\ frames' = Front(frames)
      /\ Top.k = "fncall" => ts' = Emit1(t3, lv) /\ frames' = Given(Front(frames), out)
  BY DEF CloseCall, EndStat, Return, Emit1, Binary, CallLine
<1>3. /\ frames # <<>> /\ Top = Last(frames) /\ Top \in FrameSet /\ Shaped(Top)
      /\ HasAll(ts, Top) /\ Works(ts, ts, P, uses) /\ TSok(ts)
      /\ Inv(ts, frames, land, uses)
      /\ Top.out.type = "TMP" => Top.out.n \in P
  BY <1>1, AtTop DEF HasAll
<1>4. /\ Top.name \in Funcs /\ Len(call) = 2 /\ call \in Seq(Nat) /\ out \in Adrs
      /\ Top.k = "fncall" => out.type = "TMP" /\ out.n \in P
      /\ Top.k = "call" => out.type # "TMP"
  <2>1. ShapedPlain(Top)
    BY <1>1, <1>3, ShapedPlains DEF PlainKinds
  <2>2. /\ Top.name \in Funcs /\ Len(Top.call) = 2
        /\ Top.k = "fncall" => Top.out.type = "TMP"
        /\ Top.k = "call" => Top.out.type # "TMP"
    BY <1>1, <2>1 DEF ShapedPlain
  <2> QED BY <1>3, <2>2 DEF FrameSet
<1>5. Passing(ts, ps) /\ PassedBy(ps, call) /\ ps \in Seq(LineSet)
  BY <1>3, <1>4, ParamsPass DEF Passing
<1>a. n \in Vals /\ Top.name \in Vals /\ "int" \in Pools /\ "str" \in Pools
  <2>1. n \in Nat
    BY <1>3 DEF FrameSet
  <2> QED BY <1>4, <2>1 DEF Vals, Pools, Names
<1>b. Good(ts, P, uses) /\ Blocks(ts.lines)
  BY <1>3 DEF Works, Inv
<1> HIDE DEF ps, n, P, call, out
<1>6. Good(t1, P, uses) /\ Keeps(ts, t1) /\ t1.lines = ts.lines \o ps /\ t1.label = ts.label
  BY <1>5, <1>b, EmitsAll
<1> HIDE DEF t1
<1>7. /\ Good(t2, P, uses) /\ Keeps(t1, t2) /\ t2.lines = t1.lines /\ t2.label = t1.label
      /\ Has(t2, num)
  <2>1. Sound(t1, uses)
    BY <1>6 DEF Good
  <2>2. /\ Keeps(t1, t2) /\ t2.lines = t1.lines /\ Quiet(t1, t2) /\ Has(t2, num)
        /\ \A R : Good(t1, R, uses) => Good(t2, R, uses)
    BY <2>1, <1>a, Interns
  <2> QED BY <1>6, <2>2 DEF Quiet
<1> HIDE DEF t2, num
<1>8. /\ Good(t3, P, uses) /\ Keeps(t2, t3) /\ t3.lines = t2.lines /\ t3.label = t2.label
      /\ Has(t3, name) /\ name.type \in {"ILIT", "FLIT", "STR"}
  BY <1>7, <1>a, Interns DEF Good, Quiet
<1>9. /\ Keeps(ts, t3) /\ Has(t3, num) /\ t3.lines = ts.lines \o ps /\ t3.label = ts.label
      /\ name \in Adrs /\ Has(t3, Blank) /\ name.type # "TMP"
  BY <1>6, <1>7, <1>8, HasBlank DEF Keeps, Has
<1> HIDE DEF t3, name
<1>10. /\ Last(frames).k # "func" /\ Last(frames).k \notin FlowKinds
       /\ OutOf(Top) = IF Top.k = "call" THEN {} ELSE {out.n}
  BY <1>1, <1>3, <1>4 DEF FlowKinds, OutOf, out
<1>c. PassedOn(ts, t3, P, uses, ps)
  <2>1. ts.lines \in Seq(LineSet)
    BY <1>3 DEF TSok
  <2>2. Joined(LineSet, ts.lines, ps, t3.lines)
    BY <1>5, <1>9, <2>1, JoinIs
  <2> QED BY <1>8, <1>9, <2>2 DEF PassedOn
<1> DEFINE Q  == IF Top.k = "call" THEN P ELSE P \ {out.n}
           hs == Front(frames)
<1>11. Good(ts', Q, uses) /\ Keeps(ts, ts') /\ Calm(ts, ts') /\ Blocks(ts'.lines)
       /\ (Top.k = "fncall" => Has(ts', out))
  <2> DEFINE u == ts'
  <2>1. CASE Top.k = "call"
    <3>1. u = Emit1(t3, lc) /\ Q = LeftBy("CALL", P, name)
      BY <1>2, <2>1 DEF LeftBy
    <3>2. Callable(t3, "CALL", name, Blank, num, P)
      <4>1. "CALL" # "CALLVAL" /\ "CALL" \in {"CALL", "CALLVAL"}
        OBVIOUS
      <4>2. Has(t3, name) /\ Has(t3, num) /\ Has(t3, Blank) /\ name \in Adrs /\ name.type # "TMP"
        BY <1>8, <1>9
      <4> QED BY ONLY <4>1, <4>2 DEF Callable
    <3> HIDE DEF Q, u
    <3>3. Called(ts, Emit1(t3, lc), LeftBy("CALL", P, name), uses, name)
      BY <1>4, <1>5, <1>b, <1>c, <3>2, CalledWith
    <3> QED BY <2>1, <3>1, <3>3 DEF u, Called
  <2>2. CASE Top.k = "fncall"
    <3>1. u = Emit1(t3, lv) /\ Q = LeftBy("CALLVAL", P, out)
      BY <1>2, <2>2 DEF LeftBy
    <3>2. Callable(t3, "CALLVAL", out, name, num, P)
      <4>1. "CALL" # "CALLVAL" /\ "CALLVAL" \in {"CALL", "CALLVAL"}
        OBVIOUS
      <4>2. Has(t3, name) /\ Has(t3, num) /\ out \in Adrs /\ out.type = "TMP" /\ out.n \in P
        BY <1>4, <1>8, <1>9, <2>2
      <4> QED BY ONLY <4>1, <4>2 DEF Callable
    <3> HIDE DEF Q, u
    <3>3. Called(ts, Emit1(t3, lv), LeftBy("CALLVAL", P, out), uses, out)
      BY <1>4, <1>5, <1>b, <1>c, <3>2, CalledWith
    <3> QED BY <2>2, <3>1, <3>3 DEF u, Called
  <2> QED BY <1>1, <2>1, <2>2
<1>12. Framed(ts', frames, uses)
  <2>1. TSok(ts') /\ Longer(ts, ts') /\ Framed(ts, frames, uses)
    BY <1>3, <1>11 DEF Good, Sound, Calm, Inv
  <2> QED BY <1>3, <1>11, <2>1, FramedKeeps
<1>13. /\ Framed(ts', hs, uses) /\ hs # <<>> /\ OnTop(Last(frames), Last(hs))
       /\ SameFlow(frames, hs) /\ Outs(hs) = Without(Outs(frames), Last(frames))
  <2> HIDE DEF hs
  <2>1. hs = Front(frames)
    BY DEF hs
  <2> QED BY <1>3, <1>10, <1>12, <2>1, MovePop
<1>14. Outs(hs) = Q
  BY <1>3, <1>10, <1>13 DEF Without, P
<1> HIDE DEF Q, hs
<1>15. CASE Top.k = "call"
  <2>1. frames' = hs
    BY <1>2, <1>15 DEF hs
  <2> QED BY <1>1, <1>3, <1>11, <1>13, <1>14, <2>1, Calmly
<1>16. CASE Top.k = "fncall"
  <2>1. frames' = Given(hs, out) /\ Has(ts', out)
    BY <1>2, <1>11, <1>16 DEF hs
  <2>2. Last(hs).want \in Wants
    BY <1>3, <1>13, <1>16 DEF OnTop, StatKinds, FlowKinds
  <2>3. /\ Framed(ts', frames', uses) /\ SameFlow(hs, frames') /\ Outs(frames') = Outs(hs)
        /\ frames' # <<>>
    BY <1>13, <2>1, <2>2, MoveGive
  <2>4. SameFlow(frames, frames')
    <3>1. Len(frames) \in Nat /\ Len(hs) \in Nat /\ Len(frames') \in Nat
      BY <1>12, <1>13, <2>3 DEF Framed
    <3> QED BY <1>13, <2>3, <3>1, SameFlows
  <2>5. Outs(frames') \subseteq Q
    BY <1>14, <2>3
  <2> QED BY <1>1, <1>3, <1>11, <2>3, <2>4, <2>5, Calmly
<1> QED BY <1>1, <1>15, <1>16

(***************************************************************************)
(* Constructs with labels.                                                 *)
(***************************************************************************)
(* The parts of Branching: the labels of the lines, what is known of a frame,
   the labels of the frames, and where a branch is meant to land. *)
Marked(t) ==
  LET s == t.lines IN
  /\ \A j \in 1..Len(s) : s[j].op \in BranchOps \cup {"LABEL"} => s[j].left.n < t.label
  /\ \A j, k \in 1..Len(s) :
       Marks(s, j, s[k].left.n) /\ Marks(s, k, s[k].left.n) => j = k
FlowOK(t, f) ==
  LET s == t.lines IN
  /\ \A m \in 1..Len(f.labs) : f.labs[m] < t.label
  /\ \A m \in Unset(f) : \A j \in 1..Len(s) : ~Marks(s, j, f.labs[m])
  /\ f.owe # 0 => Owes(s, f)
  /\ f.k \in {"for", "repeat"} => Begun(s, f)
  /\ f.want = "stats" /\ f.k \in {"if", "ifelse", "for"} => f.owe # 0
Distinct(fs) ==
  \A i, j \in 1..Len(fs) : \A m \in 1..Len(fs[i].labs), n \in 1..Len(fs[j].labs) :
    i # j \/ m # n => fs[i].labs[m] # fs[j].labs[n]
Meant(s, fs, ld, i) == Landed(s, ld, i) \/ \E x \in 1..Len(fs) : fs[x].owe = i
Covered(s, fs, ld)  == \A i \in 1..Len(s) : s[i].op \in BranchOps => Meant(s, fs, ld, i)

(* These are all. *)
LEMMA BranchingIs ==
  ASSUME NEW t, NEW fs, NEW ld
  PROVE  Branching(t, fs, ld) <=> /\ Marked(t) /\ Distinct(fs) /\ Covered(t.lines, fs, ld)
                                  /\ \A i \in 1..Len(fs) : FlowOK(t, fs[i])
<1>1. ASSUME Branching(t, fs, ld)
      PROVE  /\ Marked(t) /\ Distinct(fs) /\ Covered(t.lines, fs, ld)
             /\ \A i \in 1..Len(fs) : FlowOK(t, fs[i])
  <2>1. Marked(t) /\ Distinct(fs)
    BY <1>1 DEF Branching, Marked, Distinct
  <2>2. Covered(t.lines, fs, ld)
    BY <1>1 DEF Branching, Covered, Meant
  <2>3. \A i \in 1..Len(fs) : FlowOK(t, fs[i])
    BY <1>1 DEF Branching, FlowOK
  <2> QED BY <2>1, <2>2, <2>3
<1>2. ASSUME Marked(t), Distinct(fs), Covered(t.lines, fs, ld),
             \A i \in 1..Len(fs) : FlowOK(t, fs[i])
      PROVE  Branching(t, fs, ld)
  BY <1>2 DEF Branching, Marked, Distinct, Covered, Meant, FlowOK
<1> QED BY <1>1, <1>2

(* The labels that may be set by the lines from t to u. *)
Unmarked(t, u) == \A j \in (Len(t.lines) + 1)..Len(u.lines) : \A m : ~Marks(u.lines, j, m)
Setting(t, u, n) ==
  \A j \in (Len(t.lines) + 1)..Len(u.lines) : \A m : Marks(u.lines, j, m) => m = n

(* Lines are added, no function begins and no argument is passed. *)
Grows(t, u, P, us) ==
  /\ Good(u, P, us) /\ Keeps(t, u) /\ Further(t, u) /\ t.label <= u.label
  /\ \A j \in (Len(t.lines) + 1)..Len(u.lines) : u.lines[j].op # "PARAM"

(* One after the other. *)
LEMMA GrowsOn ==
  ASSUME NEW t, TSok(t), NEW u, NEW w, NEW P, NEW Q, NEW us,
         Grows(t, u, P, us), Grows(u, w, Q, us)
  PROVE  Grows(t, w, Q, us)
<1>0. TSok(u) /\ TSok(w) /\ Further(t, u) /\ Further(u, w)
  BY DEF Grows, Good, Sound
<1>1. /\ Len(t.lines) \in Nat /\ Len(u.lines) \in Nat /\ Len(w.lines) \in Nat
      /\ Len(t.lines) <= Len(u.lines) /\ Len(u.lines) <= Len(w.lines)
      /\ \A i \in 1..Len(t.lines) : u.lines[i] = t.lines[i] /\ i \in 1..Len(u.lines)
      /\ \A i \in 1..Len(u.lines) : w.lines[i] = u.lines[i]
  BY <1>0, FurtherIs
<1>2. \A j \in (Len(t.lines) + 1)..Len(w.lines) :
        w.lines[j].op # "PARAM" /\ w.lines[j].op # "FUNC"
  <2>1. ASSUME NEW j \in (Len(t.lines) + 1)..Len(w.lines)
        PROVE  w.lines[j].op # "PARAM" /\ w.lines[j].op # "FUNC"
    <3>1. CASE j <= Len(u.lines)
      <4>1. j \in (Len(t.lines) + 1)..Len(u.lines) /\ j \in 1..Len(u.lines)
        BY <1>1, <3>1
      <4>2. w.lines[j] = u.lines[j]
        BY <1>1, <4>1
      <4> QED BY <4>1, <4>2 DEF Grows, Further
    <3>2. CASE j > Len(u.lines)
      <4>1. j \in (Len(u.lines) + 1)..Len(w.lines)
        BY <1>1, <3>2
      <4> QED BY <4>1 DEF Grows, Further
    <3> QED BY <1>1, <3>1, <3>2
  <2> QED BY <2>1
<1>3. Keeps(t, w) /\ Good(w, Q, us)
  BY DEF Grows, Keeps
<1>4. t.label <= w.label
  BY <1>0 DEF Grows, TSok
<1>5. Longer(t, w)
  BY <1>1 DEF Longer
<1> QED BY <1>2, <1>3, <1>4, <1>5 DEF Grows, Further

(* A line that sets a label or branches. *)
FlowLine(op, n, c) == Line(op, Label(n), Blank, c)

(* It is added. *)
LEMMA FlowGrows ==
  ASSUME NEW t, NEW P, NEW us, Good(t, P, us), NEW op \in {"LABEL", "GOTO", "GOTOF"},
         NEW n \in Nat, NEW c, Has(t, c), NEW u, u = Emit1(t, FlowLine(op, n, c)),
         NEW l, l = FlowLine(op, n, c)
  PROVE  /\ Grows(t, u, P, us) /\ u.label = t.label
         /\ Grown(t.lines, l, u.lines) /\ l.op = op /\ l.left.n = n
         /\ op # "LABEL" => Unmarked(t, u)
         /\ op = "LABEL" => Setting(t, u, n)
<1>0. TSok(t) /\ c \in Adrs
  BY DEF Good, Sound, Has
<1>1. /\ Label(n) \in Adrs /\ Label(n).type = "LABEL" /\ Label(n).n = n
      /\ Blank \in Adrs
  BY PlainAdrs
<1>2. op \in Operations /\ op \notin Readers /\ op # "FUNC" /\ op # "PARAM"
  BY DEF Operations, Loud, Readers
<1>3. /\ l \in LineSet /\ l.op = op /\ l.left = Label(n) /\ l.middle = Blank /\ l.right = c
  BY <1>0, <1>1, <1>2, LineIs DEF FlowLine
<1>4. Addable(t, l, P, us) /\ Spares(l, P)
  BY <1>1, <1>2, <1>3, HasBlank DEF Addable, Spares
<1>5. /\ Good(u, P, us) /\ Keeps(t, u) /\ Longer(t, u)
      /\ Grown(t.lines, l, u.lines) /\ u.label = t.label
  BY <1>4, Emits
<1>6. /\ Len(t.lines) \in Nat /\ Len(u.lines) = Len(t.lines) + 1
      /\ u.lines[Len(t.lines) + 1] = l
  BY <1>5, OneMore
<1>7. \A j \in (Len(t.lines) + 1)..Len(u.lines) : u.lines[j] = l
  BY <1>6
<1>8. Further(t, u) /\ \A j \in (Len(t.lines) + 1)..Len(u.lines) : u.lines[j].op # "PARAM"
  BY <1>2, <1>3, <1>5, <1>7 DEF Further
<1>9. op # "LABEL" => Unmarked(t, u)
  BY <1>3, <1>7 DEF Unmarked, Marks
<1>10. op = "LABEL" => Setting(t, u, n)
  BY <1>1, <1>3, <1>7 DEF Setting, Marks
<1>11. t.label <= u.label
  BY <1>0, <1>5 DEF TSok
<1> QED BY <1>1, <1>3, <1>5, <1>8, <1>9, <1>10, <1>11 DEF Grows

(* Numbers of addresses. *)
LEMMA LineNats ==
  ASSUME NEW l \in LineSet
  PROVE  l.left \in Adrs /\ l.left.n \in Nat
<1>1. l.left \in Adrs
  BY DEF LineSet
<1>2. \A a \in Adrs : a.n \in Nat
  BY DEF Adrs
<1> QED BY <1>1, <1>2

(* The labels stay apart when a line sets none or one that is new. *)
LEMMA MarkedMore ==
  ASSUME NEW t, NEW u, NEW l, TSok(t), TSok(u), Grown(t.lines, l, u.lines), t.label <= u.label,
         Marked(t), l.left.n < u.label,
         l.op = "LABEL" => \A j \in 1..Len(t.lines) : ~Marks(t.lines, j, l.left.n)
  PROVE  Marked(u)
<1> DEFINE s == t.lines
           r == u.lines
           n == Len(t.lines)
<1>1. /\ n \in Nat /\ Len(r) = n + 1 /\ r[n + 1] = l /\ \A i \in 1..n : r[i] = s[i]
  BY OneMore
<1>2. \A i \in 1..Len(r) : i \in 1..n \/ i = n + 1
  BY <1>1
<1>3. \A i \in 1..n : s[i].left.n \in Nat /\ t.label \in Nat /\ u.label \in Nat
  <2>1. s \in Seq(LineSet) /\ t.label \in Nat /\ u.label \in Nat
    BY DEF TSok
  <2> HIDE DEF s
  <2>2. \A i \in 1..Len(s) : s[i] \in LineSet
    BY <2>1
  <2>3. \A l2 \in LineSet : l2.left.n \in Nat
    BY LineNats
  <2> QED BY <2>1, <2>2, <2>3 DEF s
<1>4. ASSUME NEW j \in 1..Len(r), r[j].op \in BranchOps \cup {"LABEL"}
      PROVE  r[j].left.n < u.label
  <2>1. CASE j \in 1..n
    <3>1. s[j].left.n < t.label
      BY <1>1, <1>4, <2>1 DEF Marked
    <3> QED BY <1>1, <1>3, <2>1, <3>1
  <2>2. CASE j = n + 1
    BY <1>1, <2>2
  <2> QED BY <1>2, <2>1, <2>2
<1>5. \A j \in 1..n : \A m : Marks(r, j, m) <=> Marks(s, j, m)
  BY <1>1 DEF Marks
<1>6. ASSUME NEW j \in 1..Len(r), NEW k \in 1..Len(r),
             Marks(r, j, r[k].left.n), Marks(r, k, r[k].left.n)
      PROVE  j = k
  <2> DEFINE m == r[k].left.n
  <2>1. CASE j \in 1..n /\ k \in 1..n
    <3>1. Marks(s, j, s[k].left.n) /\ Marks(s, k, s[k].left.n)
      BY <1>1, <1>5, <1>6, <2>1
    <3> QED BY <2>1, <3>1 DEF Marked
  <2>2. CASE j = n + 1 /\ k \in 1..n
    <3>1. l.op = "LABEL" /\ l.left.n = m /\ Marks(s, k, m)
      BY <1>1, <1>5, <1>6, <2>2 DEF Marks
    <3> QED BY <2>2, <3>1
  <2>3. CASE j \in 1..n /\ k = n + 1
    <3>1. l.op = "LABEL" /\ l.left.n = m /\ Marks(s, j, m)
      BY <1>1, <1>5, <1>6, <2>3 DEF Marks
    <3> QED BY <2>3, <3>1
  <2> QED BY <1>2, <2>1, <2>2, <2>3
<1> QED BY <1>4, <1>6 DEF Marked

(* Which labels of a frame are not set. *)
LEMMA UnsetIs ==
  ASSUME NEW f, Shaped(f)
  PROVE  Unset(f) \subseteq 1..Len(f.labs)
<1>1. /\ f.k \in {"if", "repeat"} => Len(f.labs) = 1
      /\ f.k \in {"ifelse", "for"} => Len(f.labs) = 2
  BY DEF Shaped
<1>2. CASE f.k = "if"
  BY <1>1, <1>2 DEF Unset
<1>3. CASE f.k = "ifelse"
  <2>1. Unset(f) \subseteq {1, 2} /\ Len(f.labs) = 2
    BY <1>1, <1>3 DEF Unset
  <2> QED BY <2>1
<1>4. CASE f.k = "for"
  <2>1. Unset(f) \subseteq {1, 2} /\ Len(f.labs) = 2
    BY <1>1, <1>4 DEF Unset
  <2> QED BY <2>1
<1>5. CASE f.k \notin {"if", "ifelse", "for"}
  BY <1>5 DEF Unset
<1> QED BY <1>2, <1>3, <1>4, <1>5

(* A frame whose labels are not set by the new lines is as it was. *)
LEMMA FlowStays ==
  ASSUME NEW t, NEW u, TSok(t), TSok(u), Further(t, u), t.label <= u.label,
         NEW f \in FrameSet, FlowOK(t, f),
         \A m \in Unset(f) : \A j \in (Len(t.lines) + 1)..Len(u.lines) :
           ~Marks(u.lines, j, f.labs[m])
  PROVE  FlowOK(u, f)
<1>1. /\ Len(t.lines) \in Nat /\ Len(u.lines) \in Nat /\ Len(t.lines) <= Len(u.lines)
      /\ \A j \in 1..Len(t.lines) : \A n : Marks(u.lines, j, n) <=> Marks(t.lines, j, n)
  BY FurtherIs
<1>2. \A j \in 1..Len(u.lines) : j \in 1..Len(t.lines) \/ j \in (Len(t.lines) + 1)..Len(u.lines)
  BY <1>1
<1>3. \A m \in Unset(f) : \A j \in 1..Len(u.lines) : ~Marks(u.lines, j, f.labs[m])
  BY <1>1, <1>2 DEF FlowOK
<1>4. \A m \in 1..Len(f.labs) : f.labs[m] < u.label
  <2>1. f.labs \in Seq(Nat) /\ t.label \in Nat /\ u.label \in Nat
    BY DEF FrameSet, TSok
  <2>2. \A m \in 1..Len(f.labs) : f.labs[m] \in Nat /\ f.labs[m] < t.label
    BY <2>1 DEF FlowOK
  <2> QED BY <2>1, <2>2
<1>5. /\ f.owe # 0 => Owes(u.lines, f)
      /\ f.k \in {"for", "repeat"} => Begun(u.lines, f)
      /\ f.want = "stats" /\ f.k \in {"if", "ifelse", "for"} => f.owe # 0
  BY StillOwes DEF FlowOK
<1> QED BY <1>3, <1>4, <1>5 DEF FlowOK

(* What a grown T_S and a stack need to be a state again. *)
LEMMA Flowing ==
  ASSUME NEW t, NEW fs, NEW ld, NEW us, Inv(t, fs, ld, us), fs # <<>>,
         NEW u, NEW P, Grows(t, u, P, us),
         NEW gs, NEW le, Outs(gs) \subseteq P, Framed(u, gs, us), Branching(u, gs, le)
  PROVE  Inv(u, gs, le, us)
<1>1. TSok(t) /\ TSok(u) /\ Sound(u, us) /\ Longer(t, u)
  BY DEF Inv, Grows, Good, Sound, Further
<1>2. Numbered(u, Outs(gs))
  BY Fewer DEF Grows, Good
<1>3. Blocks(u.lines)
  BY <1>1, QuietBlocks DEF Inv, Grows
<1>4. u.lines[1].op = "FUNC"
  <2>1. Framed(t, fs, us) /\ t.lines # <<>> /\ t.lines[1].op = "FUNC"
    BY DEF Inv, Framed
  <2>2. 1 \in 1..Len(t.lines)
    BY <1>1, <2>1 DEF TSok
  <2> QED BY <1>1, <2>1, <2>2 DEF Longer
<1> QED BY <1>1, <1>2, <1>3, <1>4 DEF Inv

(* A stack is a stack on grown lines. *)
LEMMA GrownFramed ==
  ASSUME NEW t, NEW fs, NEW ld, NEW us, Inv(t, fs, ld, us), NEW u, NEW P, Grows(t, u, P, us)
  PROVE  /\ Framed(u, fs, us) /\ TSok(t) /\ TSok(u) /\ Further(t, u) /\ t.label <= u.label
         /\ fs \in Seq(FrameSet) /\ Len(fs) \in Nat
         /\ \A i \in 1..Len(fs) : fs[i] \in FrameSet /\ Shaped(fs[i])
         /\ Branching(t, fs, ld)
<1>1. TSok(t) /\ TSok(u) /\ Longer(t, u) /\ Framed(t, fs, us) /\ Keeps(t, u)
  BY DEF Inv, Grows, Good, Sound, Further
<1>2. Framed(u, fs, us)
  BY <1>1, FramedKeeps
<1> QED BY <1>1, <1>2 DEF Framed, Grows, Inv

(* A branch that landed or is waited for is so after some lines. *)
LEMMA StillMeant ==
  ASSUME NEW t, NEW u, TSok(t), TSok(u), Further(t, u), NEW fs, NEW ld, NEW gs, NEW le,
         NEW i \in 1..Len(t.lines), Meant(t.lines, fs, ld, i),
         i \in DOMAIN ld => i \in DOMAIN le /\ le[i] = ld[i],
         \A x \in 1..Len(fs) : fs[x].owe = i => \E y \in 1..Len(gs) : gs[y].owe = i
  PROVE  Meant(u.lines, gs, le, i)
<1>1. CASE Landed(t.lines, ld, i)
  <2>1. Landed(t.lines, le, i)
    BY <1>1 DEF Landed
  <2>2. Landed(u.lines, le, i)
    BY <2>1, StillLanded
  <2> QED BY <2>2 DEF Meant
<1>2. CASE \E x \in 1..Len(fs) : fs[x].owe = i
  BY <1>2 DEF Meant
<1> QED BY <1>1, <1>2 DEF Meant

(* No line from t to u branches. *)
Straight(t, u) ==
  \A j \in (Len(t.lines) + 1)..Len(u.lines) : u.lines[j].op \notin BranchOps

(* The frame of a construct with new labels. *)
NewLabels(t, f) ==
  /\ \A m \in 1..Len(f.labs) : t.label <= f.labs[m]
  /\ \A m, n \in 1..Len(f.labs) : m # n => f.labs[m] # f.labs[n]

(* A construct with labels is begun. *)
LEMMA PushFlow ==
  ASSUME NEW t, NEW fs, NEW ld, NEW us, Inv(t, fs, ld, us), fs # <<>>,
         Last(fs).want = "stats",
         NEW u, NEW P, Grows(t, u, P, us), Outs(fs) \subseteq P, Marked(u), Straight(t, u),
         Setting(t, u, t.label),
         NEW f \in FrameSet, Shaped(f), f.k \in FlowKinds, Len(f.adrs) = 0, f.out.type # "TMP",
         FlowOK(u, f), NewLabels(t, f), NEW gs, Pushed(fs, f, gs)
  PROVE  Inv(u, gs, ld, us)
<1>1. /\ Framed(u, fs, us) /\ TSok(t) /\ TSok(u) /\ Further(t, u) /\ t.label <= u.label
      /\ \A i \in 1..Len(fs) : fs[i] \in FrameSet /\ Shaped(fs[i])
      /\ Branching(t, fs, ld) /\ Len(fs) \in Nat
  BY GrownFramed
<1>2. Allowed(f, us) /\ OnTop(f, Last(fs)) /\ HasAll(u, f)
  BY DEF Allowed, FlowKinds, OnTop, StatKinds, HasAll
<1>3. /\ Framed(u, gs, us) /\ Outs(gs) = With(Outs(fs), f)
      /\ Len(gs) = Len(fs) + 1 /\ gs[Len(fs) + 1] = f
      /\ \A i \in 1..Len(fs) : gs[i] = fs[i]
  BY <1>1, <1>2, MovePush
<1>4. Outs(gs) = Outs(fs)
  BY <1>3 DEF With, OutOf
<1>5. /\ Marked(t) /\ Distinct(fs) /\ Covered(t.lines, fs, ld)
      /\ \A i \in 1..Len(fs) : FlowOK(t, fs[i])
  BY <1>1, BranchingIs
<1> DEFINE n == Len(fs)
<1>6. \A i \in 1..Len(gs) : i \in 1..n \/ i = n + 1
  BY <1>1, <1>3
<1>a. \A i \in 1..n : \A m \in 1..Len(fs[i].labs) :
        fs[i].labs[m] < t.label /\ fs[i].labs[m] \in Nat /\ t.label \in Nat
  <2>1. t.label \in Nat
    BY <1>1 DEF TSok
  <2>2. ASSUME NEW i \in 1..n PROVE fs[i].labs \in Seq(Nat)
    <3>1. fs[i] \in FrameSet
      BY <1>1
    <3> QED BY <3>1 DEF FrameSet
  <2>3. \A i \in 1..n : \A m \in 1..Len(fs[i].labs) : fs[i].labs[m] < t.label
    BY <1>5 DEF FlowOK
  <2>4. \A x \in Seq(Nat) : \A m \in 1..Len(x) : x[m] \in Nat
    OBVIOUS
  <2> HIDE DEF n
  <2> QED BY <2>1, <2>2, <2>3, <2>4
<1>7. \A i \in 1..Len(gs) : FlowOK(u, gs[i])
  <2>1. ASSUME NEW i \in 1..n PROVE FlowOK(u, fs[i])
    <3>1. Unset(fs[i]) \subseteq 1..Len(fs[i].labs)
      BY <1>1, UnsetIs
    <3>2. \A m \in Unset(fs[i]) : fs[i].labs[m] # t.label
      BY <1>a, <3>1
    <3>3. \A m \in Unset(fs[i]) : \A j \in (Len(t.lines) + 1)..Len(u.lines) :
            ~Marks(u.lines, j, fs[i].labs[m])
      BY <3>2 DEF Setting
    <3> QED BY <1>1, <1>5, <3>3, FlowStays
  <2> QED BY <1>3, <1>6, <2>1
<1>8. Distinct(gs)
  <2>1. ASSUME NEW i \in 1..Len(gs), NEW j \in 1..Len(gs),
               NEW m \in 1..Len(gs[i].labs), NEW k \in 1..Len(gs[j].labs), i # j \/ m # k
        PROVE  gs[i].labs[m] # gs[j].labs[k]
    <3>1. CASE i \in 1..n /\ j \in 1..n
      BY <1>3, <1>5, <2>1, <3>1 DEF Distinct
    <3>0. \A x \in 1..Len(f.labs) : f.labs[x] \in Nat /\ t.label <= f.labs[x]
      <4>1. f.labs \in Seq(Nat)
        BY DEF FrameSet
      <4>2. \A s \in Seq(Nat) : \A e \in 1..Len(s) : s[e] \in Nat
        OBVIOUS
      <4>3. \A x \in 1..Len(f.labs) : f.labs[x] \in Nat
        BY ONLY <4>1, <4>2
      <4> QED BY <4>3 DEF NewLabels
    <3>2. CASE i = n + 1 /\ j \in 1..n
      <4>1. gs[i] = f /\ gs[j] = fs[j]
        BY <1>3, <3>2
      <4>2. fs[j].labs[k] < t.label /\ fs[j].labs[k] \in Nat /\ t.label \in Nat
        BY <1>a, <3>2, <4>1
      <4>3. t.label <= f.labs[m] /\ f.labs[m] \in Nat
        BY <3>0, <4>1
      <4> QED BY <4>1, <4>2, <4>3
    <3>3. CASE i \in 1..n /\ j = n + 1
      <4>1. gs[j] = f /\ gs[i] = fs[i]
        BY <1>3, <3>3
      <4>2. fs[i].labs[m] < t.label /\ fs[i].labs[m] \in Nat /\ t.label \in Nat
        BY <1>a, <3>3, <4>1
      <4>3. t.label <= f.labs[k] /\ f.labs[k] \in Nat
        BY <3>0, <4>1
      <4> QED BY <4>1, <4>2, <4>3
    <3>4. CASE i = n + 1 /\ j = n + 1
      BY <1>3, <2>1, <3>4 DEF NewLabels
    <3> QED BY <1>6, <3>1, <3>2, <3>3, <3>4
  <2> QED BY <2>1 DEF Distinct
<1>9. Covered(u.lines, gs, ld)
  <2>1. ASSUME NEW i \in 1..Len(u.lines), u.lines[i].op \in BranchOps
        PROVE  Meant(u.lines, gs, ld, i)
    <3>1. /\ Len(t.lines) \in Nat /\ Len(u.lines) \in Nat
          /\ \A x \in 1..Len(t.lines) : u.lines[x] = t.lines[x]
      BY <1>1, FurtherIs
    <3>2. i \in 1..Len(t.lines)
      BY <2>1, <3>1 DEF Straight
    <3>3. Meant(t.lines, fs, ld, i)
      BY <1>5, <2>1, <3>1, <3>2 DEF Covered
    <3>4. \A x \in 1..Len(fs) : fs[x].owe = i => \E y \in 1..Len(gs) : gs[y].owe = i
      <4>1. \A x \in 1..Len(fs) : x \in 1..Len(gs)
        BY <1>1, <1>3
      <4> QED BY <1>3, <4>1
    <3> QED BY <1>1, <3>2, <3>3, <3>4, StillMeant
  <2> QED BY <2>1 DEF Covered
<1>10. Branching(u, gs, ld)
  BY <1>7, <1>8, <1>9, BranchingIs
<1>11. Outs(gs) \subseteq P
  BY <1>4
<1> QED BY <1>3, <1>10, <1>11, Flowing

(* The landings of the first n lines are known still, but for the branch b. *)
Known(ld, le, b, n) ==
  \A i \in 1..n : i # b /\ i \in DOMAIN ld => i \in DOMAIN le /\ le[i] = ld[i]

(* The labels of some of the frames are distinct when all are. *)
LEMMA SameLabels ==
  ASSUME NEW fs, NEW gs, Distinct(fs),
         \/ Len(gs) = Len(fs) /\ \A i \in 1..Len(fs) : gs[i].labs = fs[i].labs
         \/ \A i \in 1..Len(gs) : i \in 1..Len(fs) /\ gs[i].labs = fs[i].labs
  PROVE  Distinct(gs)
<1>1. \A i \in 1..Len(gs) : i \in 1..Len(fs) /\ gs[i].labs = fs[i].labs
  OBVIOUS
<1>2. ASSUME NEW i \in 1..Len(gs), NEW j \in 1..Len(gs),
             NEW m \in 1..Len(gs[i].labs), NEW k \in 1..Len(gs[j].labs), i # j \/ m # k
      PROVE  gs[i].labs[m] # gs[j].labs[k]
  <2>1. /\ gs[i].labs = fs[i].labs /\ gs[j].labs = fs[j].labs
        /\ i \in 1..Len(fs) /\ j \in 1..Len(fs)
    BY <1>1
  <2>2. m \in 1..Len(fs[i].labs) /\ k \in 1..Len(fs[j].labs)
    BY <2>1
  <2> QED BY <1>2, <2>1, <2>2 DEF Distinct
<1> QED BY <1>2 DEF Distinct

(* The frame on top goes on, and a branch it waited for is its own still or has
   landed. *)
LEMMA TopFlow ==
  ASSUME NEW t, NEW fs, NEW ld, NEW us, Inv(t, fs, ld, us), fs # <<>>,
         NEW u, NEW P, Grows(t, u, P, us), Outs(fs) \subseteq P, Marked(u),
         NEW m \in 1..Len(Last(fs).labs), Setting(t, u, Last(fs).labs[m]),
         NEW g \in FrameSet, Shaped(g), Like(Last(fs), g), g.labs = Last(fs).labs,
         HasAll(u, g), FlowOK(u, g),
         NEW gs, Topped(fs, g, gs), NEW le, Known(ld, le, Last(fs).owe, Len(t.lines)),
         \A i \in 1..Len(u.lines) :
           u.lines[i].op \in BranchOps /\ (i > Len(t.lines) \/ i = Last(fs).owe)
             => i = g.owe \/ Landed(u.lines, le, i)
  PROVE  Inv(u, gs, le, us)
<1>1. /\ Framed(u, fs, us) /\ TSok(t) /\ TSok(u) /\ Further(t, u) /\ t.label <= u.label
      /\ \A i \in 1..Len(fs) : fs[i] \in FrameSet /\ Shaped(fs[i])
      /\ Branching(t, fs, ld) /\ Len(fs) \in Nat /\ fs \in Seq(FrameSet)
  BY GrownFramed
<1> DEFINE n == Len(fs)
<1>2. n \in 1..n /\ Last(fs) = fs[n]
  BY <1>1 DEF Last
<1>3. /\ Framed(u, gs, us) /\ Outs(gs) = Outs(fs) /\ gs # <<>>
      /\ Len(gs) = n /\ gs[n] = g /\ \A i \in 1..n : i # n => gs[i] = fs[i]
  BY <1>1, FramedTop
<1>5. /\ Marked(t) /\ Distinct(fs) /\ Covered(t.lines, fs, ld)
      /\ \A i \in 1..n : FlowOK(t, fs[i])
  BY <1>1, BranchingIs
<1> HIDE DEF n
<1>7. \A i \in 1..Len(gs) : FlowOK(u, gs[i])
  <2>1. ASSUME NEW i \in 1..n, i # n PROVE FlowOK(u, fs[i])
    <3>1. Unset(fs[i]) \subseteq 1..Len(fs[i].labs)
      BY <1>1, UnsetIs DEF n
    <3>2. \A x \in Unset(fs[i]) : fs[i].labs[x] # fs[n].labs[m]
      BY <1>2, <1>5, <2>1, <3>1 DEF Distinct, n
    <3>3. \A x \in Unset(fs[i]) : \A j \in (Len(t.lines) + 1)..Len(u.lines) :
            ~Marks(u.lines, j, fs[i].labs[x])
      BY <1>2, <3>2 DEF Setting
    <3> QED BY <1>1, <1>5, <3>3, FlowStays DEF n
  <2> QED BY <1>3, <2>1
<1>8. Distinct(gs)
  <2>1. \A i \in 1..n : gs[i].labs = fs[i].labs
    BY <1>2, <1>3
  <2>2. Len(gs) = Len(fs) /\ \A i \in 1..Len(fs) : gs[i].labs = fs[i].labs
    BY <1>3, <2>1 DEF n
  <2> QED BY <1>5, <2>2, SameLabels
<1>9. Covered(u.lines, gs, le)
  <2>1. ASSUME NEW i \in 1..Len(u.lines), u.lines[i].op \in BranchOps
        PROVE  Meant(u.lines, gs, le, i)
    <3>1. /\ Len(t.lines) \in Nat /\ Len(u.lines) \in Nat
          /\ \A x \in 1..Len(t.lines) : u.lines[x] = t.lines[x]
      BY <1>1, FurtherIs
    <3>2. CASE i > Len(t.lines) \/ i = Last(fs).owe
      BY <1>2, <1>3, <2>1, <3>2 DEF Meant
    <3>3. CASE ~(i > Len(t.lines) \/ i = Last(fs).owe)
      <4>1. i \in 1..Len(t.lines)
        BY <3>1, <3>3
      <4>2. Meant(t.lines, fs, ld, i)
        BY <1>5, <2>1, <3>1, <4>1 DEF Covered
      <4>3. \A x \in 1..Len(fs) : fs[x].owe = i => \E y \in 1..Len(gs) : gs[y].owe = i
        BY <1>2, <1>3, <3>3 DEF n
      <4>4. i \in DOMAIN ld => i \in DOMAIN le /\ le[i] = ld[i]
        BY <3>3, <4>1 DEF Known
      <4> QED BY <1>1, <4>1, <4>2, <4>3, <4>4, StillMeant
    <3> QED BY <3>2, <3>3
  <2> QED BY <2>1 DEF Covered
<1>10. Branching(u, gs, le)
  BY <1>7, <1>8, <1>9, BranchingIs
<1>11. Outs(gs) \subseteq P
  BY <1>3
<1> QED BY <1>3, <1>10, <1>11, Flowing

Popped(fs, gs) == gs = Front(fs)

(* A construct with labels is done: every branch of its has landed. *)
LEMMA PopFlow ==
  ASSUME NEW t, NEW fs, NEW ld, NEW us, Inv(t, fs, ld, us), fs # <<>>,
         Last(fs).k \in FlowKinds,
         NEW u, NEW P, Grows(t, u, P, us), Outs(fs) \subseteq P, Marked(u),
         NEW m \in 1..Len(Last(fs).labs), Setting(t, u, Last(fs).labs[m]),
         NEW gs, Popped(fs, gs), NEW le, Known(ld, le, Last(fs).owe, Len(t.lines)),
         \A i \in 1..Len(u.lines) :
           u.lines[i].op \in BranchOps /\ (i > Len(t.lines) \/ i = Last(fs).owe)
             => Landed(u.lines, le, i)
  PROVE  Inv(u, gs, le, us)
<1>1. /\ Framed(u, fs, us) /\ TSok(t) /\ TSok(u) /\ Further(t, u) /\ t.label <= u.label
      /\ \A i \in 1..Len(fs) : fs[i] \in FrameSet /\ Shaped(fs[i])
      /\ Branching(t, fs, ld) /\ Len(fs) \in Nat /\ fs \in Seq(FrameSet)
  BY GrownFramed
<1> DEFINE n == Len(fs)
<1>2. n \in 1..n /\ Last(fs) = fs[n]
  BY <1>1 DEF Last
<1>a. Last(fs).k # "func"
  BY DEF FlowKinds
<1>3. /\ Framed(u, gs, us) /\ Outs(gs) = Without(Outs(fs), Last(fs))
      /\ Len(gs) = n - 1 /\ \A i \in 1..Len(gs) : gs[i] = fs[i]
  <2>1. gs = Front(fs)
    BY DEF Popped
  <2>2. /\ Framed(u, gs, us) /\ Outs(gs) = Without(Outs(fs), Last(fs))
        /\ Len(gs) = Len(fs) - 1 /\ \A i \in 1..Len(gs) : gs[i] = fs[i]
    BY ONLY fs # <<>>, <1>1, <1>a, <2>1, MovePop
  <2> QED BY <2>2
<1>4. \A i \in 1..Len(gs) : i \in 1..n /\ i # n
  BY <1>1, <1>3
<1>b. \A i \in 1..n : i # n => i \in 1..Len(gs)
  BY <1>1, <1>3
<1>5. /\ Marked(t) /\ Distinct(fs) /\ Covered(t.lines, fs, ld)
      /\ \A i \in 1..n : FlowOK(t, fs[i])
  BY <1>1, BranchingIs
<1> HIDE DEF n
<1>7. \A i \in 1..Len(gs) : FlowOK(u, gs[i])
  <2>1. ASSUME NEW i \in 1..n, i # n PROVE FlowOK(u, fs[i])
    <3>1. Unset(fs[i]) \subseteq 1..Len(fs[i].labs)
      BY <1>1, UnsetIs DEF n
    <3>2. \A x \in Unset(fs[i]) : fs[i].labs[x] # fs[n].labs[m]
      BY <1>2, <1>5, <2>1, <3>1 DEF Distinct, n
    <3>3. \A x \in Unset(fs[i]) : \A j \in (Len(t.lines) + 1)..Len(u.lines) :
            ~Marks(u.lines, j, fs[i].labs[x])
      BY <1>2, <3>2 DEF Setting
    <3> QED BY <1>1, <1>5, <3>3, FlowStays DEF n
  <2> QED BY <1>3, <1>4, <2>1
<1>8. Distinct(gs)
  <2>1. \A i \in 1..Len(gs) : i \in 1..Len(fs) /\ gs[i].labs = fs[i].labs
    BY <1>3, <1>4 DEF n
  <2> QED BY <1>5, <2>1, SameLabels
<1>9. Covered(u.lines, gs, le)
  <2>1. ASSUME NEW i \in 1..Len(u.lines), u.lines[i].op \in BranchOps
        PROVE  Meant(u.lines, gs, le, i)
    <3>1. /\ Len(t.lines) \in Nat /\ Len(u.lines) \in Nat
          /\ \A x \in 1..Len(t.lines) : u.lines[x] = t.lines[x]
      BY <1>1, FurtherIs
    <3>2. CASE i > Len(t.lines) \/ i = Last(fs).owe
      BY <2>1, <3>2 DEF Meant
    <3>3. CASE ~(i > Len(t.lines) \/ i = Last(fs).owe)
      <4>1. i \in 1..Len(t.lines)
        BY <3>1, <3>3
      <4>2. Meant(t.lines, fs, ld, i)
        BY <1>5, <2>1, <3>1, <4>1 DEF Covered
      <4>3. \A x \in 1..Len(fs) : fs[x].owe = i => \E y \in 1..Len(gs) : gs[y].owe = i
        BY <1>2, <1>3, <1>b, <3>3 DEF n
      <4>4. i \in DOMAIN ld => i \in DOMAIN le /\ le[i] = ld[i]
        BY <3>3, <4>1 DEF Known
      <4> QED BY <1>1, <4>1, <4>2, <4>3, <4>4, StillMeant
    <3> QED BY <3>2, <3>3
  <2> QED BY <2>1 DEF Covered
<1>10. Branching(u, gs, le)
  BY <1>7, <1>8, <1>9, BranchingIs
<1>11. Outs(gs) \subseteq P
  BY <1>3 DEF Without
<1> QED BY <1>3, <1>10, <1>11, Flowing

(***************************************************************************)
(* Statements with labels.                                                 *)
(***************************************************************************)
NewLabel(t, n) == [t EXCEPT !.label = @ + n]

(* mklabel counts labels and nothing else. *)
LEMMA LabelIs ==
  ASSUME NEW t, NEW P, NEW us, Good(t, P, us), Marked(t), NEW n \in Nat,
         NEW u, u = NewLabel(t, n)
  PROVE  /\ Grows(t, u, P, us) /\ Marked(u) /\ Straight(t, u) /\ \A m : Setting(t, u, m)
         /\ u.lines = t.lines /\ u.label = t.label + n /\ t.label \in Nat
<1>0. TSok(t)
  BY DEF Good, Sound
<1>1. u = [t EXCEPT !.label = @ + n]
  BY DEF NewLabel
<1>2. /\ u.lines = t.lines /\ u.tmp = t.tmp /\ u.label = t.label + n
      /\ u.consts = t.consts /\ u.pool = t.pool /\ u.seen = t.seen /\ u.count = t.count
  BY <1>0, <1>1 DEF TSok
<1>3. u = [lines |-> u.lines, tmp |-> u.tmp, label |-> u.label, consts |-> u.consts,
           pool |-> u.pool, seen |-> u.seen, count |-> u.count]
  BY <1>0, <1>1 DEF TSok
<1>4. TSok(u) /\ t.label \in Nat
  BY <1>0, <1>2, <1>3 DEF TSok
<1>5. \A a : LitOK(u, a) <=> LitOK(t, a)
  BY <1>2, SamePools
<1>6. Pooled(u) <=> Pooled(t)
  BY <1>2 DEF Pooled, RealFree, At
<1>7. LinesOK(u)
  BY <1>2, <1>5 DEF LinesOK, Good, Sound
<1>8. Good(u, P, us)
  BY <1>2, <1>4, <1>6, <1>7 DEF Good, Sound, Numbered
<1>9. Keeps(t, u)
  BY <1>2, <1>5 DEF Keeps, Has
<1>10. Len(t.lines) \in Nat /\ t.lines \in Seq(LineSet)
  BY <1>0 DEF TSok
<1>11. \A j : ~(j \in (Len(t.lines) + 1)..Len(u.lines))
  BY <1>2, <1>10
<1>12. Grows(t, u, P, us)
  BY <1>2, <1>4, <1>8, <1>9, <1>10, <1>11 DEF Grows, Further, Longer
<1>13. Marked(u)
  <2>1. ASSUME NEW j \in 1..Len(u.lines), u.lines[j].op \in BranchOps \cup {"LABEL"}
        PROVE  u.lines[j].left.n < u.label
    <3>1. t.lines[j] \in LineSet
      BY <1>2, <1>10
    <3>2. t.lines[j].left.n \in Nat
      BY <3>1, LineNats
    <3>3. t.lines[j].left.n < t.label
      BY <1>2, <2>1 DEF Marked
    <3> QED BY <1>2, <1>4, <3>2, <3>3
  <2> QED BY <1>2, <2>1 DEF Marked
<1> QED BY <1>2, <1>4, <1>11, <1>12, <1>13 DEF Straight, Setting

HasPut(f, x, y, g) ==
  /\ x \in DOMAIN g /\ g[x] = y
  /\ \A z \in DOMAIN f : z # x => z \in DOMAIN g /\ g[z] = f[z]
(* A map has one more entry, or another one. *)
LEMMA PutIs ==
  ASSUME NEW f, NEW x, NEW y
  PROVE  HasPut(f, x, y, Put(f, x, y))
BY DEF Put, HasPut

(* What is known of the construct on top. *)
LEMMA AtFlow ==
  ASSUME Now, InCode
  PROVE  /\ frames # <<>> /\ Top = Last(frames) /\ Top \in FrameSet /\ Shaped(Top)
         /\ Good(ts, Outs(frames), uses) /\ TSok(ts) /\ Marked(ts) /\ FlowOK(ts, Top)
         /\ \A m, n \in 1..Len(Top.labs) : m # n => Top.labs[m] # Top.labs[n]
         /\ \A m \in 1..Len(Top.labs) : Top.labs[m] \in Nat /\ Top.labs[m] < ts.label
         /\ Top.labs \in Seq(Nat) /\ ts.label \in Nat /\ Here = Len(ts.lines) + 1
         /\ Inv(ts, frames, land, uses)
         /\ \A m \in 1..Len(Top.adrs) : Has(ts, Top.adrs[m])
<1>1. /\ frames # <<>> /\ Top = Last(frames) /\ Top \in FrameSet /\ Shaped(Top)
      /\ Works(ts, ts, Outs(frames), uses) /\ TSok(ts) /\ Inv(ts, frames, land, uses)
      /\ \A m \in 1..Len(Top.adrs) : Has(ts, Top.adrs[m])
  BY AtTop
<1>2. /\ Marked(ts) /\ Distinct(frames) /\ \A i \in 1..Len(frames) : FlowOK(ts, frames[i])
  BY <1>1, BranchingIs DEF Inv
<1>3. Len(frames) \in 1..Len(frames) /\ Top = frames[Len(frames)]
  BY <1>1 DEF Inv, Framed, Last
<1>4. FlowOK(ts, Top)
  BY <1>2, <1>3
<1>5. \A m, n \in 1..Len(Top.labs) : m # n => Top.labs[m] # Top.labs[n]
  BY <1>2, <1>3 DEF Distinct
<1>6. Top.labs \in Seq(Nat) /\ ts.label \in Nat
  BY <1>1 DEF FrameSet, TSok
<1>7. \A m \in 1..Len(Top.labs) : Top.labs[m] \in Nat /\ Top.labs[m] < ts.label
  BY <1>4, <1>6 DEF FlowOK
<1> QED BY <1>1, <1>2, <1>4, <1>5, <1>6, <1>7 DEF Works, Here

ShapedFlow(f) ==
  /\ Len(f.adrs) <= Len(f.tys)
  /\ f.want \in Wants => Len(f.adrs) < Len(f.tys)
  /\ f.want = "step" => Len(f.adrs) = Len(f.tys)
  /\ Len(f.tys) = IF f.k = "repeat" /\ f.want = "stats" THEN 0 ELSE 1
  /\ f.out.type = "EMPTY"
  /\ Len(f.labs) = IF f.k \in {"if", "repeat"} THEN 1 ELSE 2
  /\ f.k = "repeat" \/ f.want # "stats" => f.owe = 0 /\ f.field = 0

(* It is just this. *)
LEMMA ShapedFlows ==
  ASSUME NEW f, f.k \in FlowKinds
  PROVE  Shaped(f) <=> ShapedFlow(f)
<1>1. /\ f.k \notin Ops2 /\ f.k \notin {"elem", "asgn", "copy", "update", "print", "read",
                                         "return", "func", "call", "fncall"}
      /\ f.k \in {"if", "ifelse", "for", "repeat"}
  BY DEF FlowKinds, Ops2
<1>2. /\ f.k # "relop" /\ f.k # "not" /\ f.k # "logic"
  BY <1>1
<1>3. ASSUME Shaped(f) PROVE ShapedFlow(f)
  <2>1. f.out.type = "EMPTY"
    BY <1>1, <1>2, <1>3 DEF Shaped
  <2>2. /\ Len(f.adrs) <= Len(f.tys)
        /\ f.want \in Wants => Len(f.adrs) < Len(f.tys)
        /\ f.want = "step" => Len(f.adrs) = Len(f.tys)
        /\ f.k = "repeat" \/ f.want # "stats" => f.owe = 0 /\ f.field = 0
    BY <1>1, <1>3 DEF Shaped
  <2>3. /\ Len(f.tys) = IF f.k = "repeat" /\ f.want = "stats" THEN 0 ELSE 1
        /\ Len(f.labs) = IF f.k \in {"if", "repeat"} THEN 1 ELSE 2
    BY <1>1, <1>3 DEF Shaped
  <2> QED BY <2>1, <2>2, <2>3 DEF ShapedFlow
<1>4. ASSUME ShapedFlow(f) PROVE Shaped(f)
  <2> USE <1>1, <1>2, <1>4
  <2>1. /\ Len(f.adrs) <= Len(f.tys)
        /\ f.want \in Wants => Len(f.adrs) < Len(f.tys)
        /\ f.want = "step" /\ f.k \notin Ops2 => Len(f.adrs) = Len(f.tys)
        /\ f.want = "stats" => f.k \in FlowKinds \cup {"func"}
        /\ f.k \in Ops2 /\ f.want = "step" => Len(f.adrs) \in {1, 2}
    BY DEF ShapedFlow
  <2>2. /\ f.k \in Ops2 \cup {"elem", "asgn", "copy", "update"} => Len(f.tys) = 2
        /\ f.k \in {"print", "read", "return", "if", "ifelse", "for"} => Len(f.tys) = 1
        /\ f.k = "repeat" => Len(f.tys) = IF f.want = "stats" THEN 0 ELSE 1
        /\ f.k = "func" => f.want = "stats" /\ f.name \in Names
        /\ f.k \in {"asgn", "update"} =>
             f.tys[1] = "place" \/ (f.adrs # <<>> /\ f.adrs[1].type = "VAR")
        /\ f.k \in {"call", "fncall"} => f.name \in Funcs /\ Len(f.call) = 2
    BY DEF ShapedFlow
  <2>3. /\ f.out.type \in {"EMPTY", "TMP"}
        /\ f.out.type = "TMP" => f.k \in {"relop", "not", "logic", "fncall", "elem"}
        /\ f.k \in {"relop", "not", "logic", "fncall"} => f.out.type = "TMP"
    BY DEF ShapedFlow
  <2>4. /\ f.k \in {"if", "repeat"} => Len(f.labs) = 1
        /\ f.k \in {"ifelse", "for"} => Len(f.labs) = 2
        /\ f.k \notin FlowKinds => f.labs = <<>> /\ f.owe = 0
        /\ f.k = "repeat" \/ (f.k \in FlowKinds /\ f.want # "stats") => f.owe = 0 /\ f.field = 0
    BY DEF ShapedFlow
  <2> QED BY ONLY <2>1, <2>2, <2>3, <2>4 DEF Shaped
<1> QED BY <1>3, <1>4

(* A line sets a label. *)
SetsLabel(t, u, P, us, n) ==
  /\ Grows(t, u, P, us) /\ u.label = t.label /\ Marked(u) /\ Setting(t, u, n)
  /\ \E l \in LineSet : Grown(t.lines, l, u.lines) /\ l.op = "LABEL" /\ l.left.n = n
(* A line branches. *)
Jumps(t, u, P, us, n) ==
  /\ Grows(t, u, P, us) /\ u.label = t.label /\ Marked(u) /\ Unmarked(t, u)
  /\ \E l \in LineSet : Grown(t.lines, l, u.lines) /\ l.op \in BranchOps /\ l.left.n = n

(* The first. *)
LEMMA LabelLine ==
  ASSUME NEW t, NEW P, NEW us, Good(t, P, us), Marked(t), NEW n \in Nat, n < t.label,
         \A j \in 1..Len(t.lines) : ~Marks(t.lines, j, n)
  PROVE  SetsLabel(t, Mark(t, n), P, us, n)
<1> DEFINE l == FlowLine("LABEL", n, Blank)
           u == Emit1(t, l)
<1>1. Has(t, Blank) /\ "LABEL" \in {"LABEL", "GOTO", "GOTOF"}
  BY HasBlank
<1>2. /\ Grows(t, u, P, us) /\ u.label = t.label
      /\ Grown(t.lines, l, u.lines) /\ l.op = "LABEL" /\ l.left.n = n
      /\ Setting(t, u, n)
  BY <1>1, FlowGrows
<1>3. Mark(t, n) = u
  BY DEF Mark, Unary, Emit1, FlowLine
<1> HIDE DEF l, u
<1>4. TSok(t) /\ TSok(u) /\ t.label <= u.label
  BY <1>2 DEF Grows, Good, Sound
<1>5. Marked(u)
  BY <1>2, <1>4, MarkedMore
<1>6. l \in LineSet
  BY <1>2 DEF Grown
<1> QED BY <1>2, <1>3, <1>5, <1>6 DEF SetsLabel

(* The second. *)
LEMMA JumpLine ==
  ASSUME NEW t, NEW P, NEW us, Good(t, P, us), Marked(t), NEW n \in Nat, n < t.label,
         NEW op \in {"GOTO", "GOTOF"}, NEW c, Has(t, c)
  PROVE  Jumps(t, Emit1(t, FlowLine(op, n, c)), P, us, n)
<1> DEFINE l == FlowLine(op, n, c)
           u == Emit1(t, l)
<1>1. op \in {"LABEL", "GOTO", "GOTOF"} /\ op # "LABEL" /\ op \in BranchOps
  BY DEF BranchOps
<1>2. /\ Grows(t, u, P, us) /\ u.label = t.label
      /\ Grown(t.lines, l, u.lines) /\ l.op = op /\ l.left.n = n
      /\ Unmarked(t, u)
  BY <1>1, FlowGrows
<1> HIDE DEF l, u
<1>4. TSok(t) /\ TSok(u) /\ t.label <= u.label
  BY <1>2 DEF Grows, Good, Sound
<1>5. Marked(u)
  BY <1>1, <1>2, <1>4, MarkedMore
<1>6. l \in LineSet
  BY <1>2 DEF Grown
<1> QED BY <1>1, <1>2, <1>5, <1>6 DEF Jumps, u, l

(* What the two say of the lines. *)
LEMMA FlowLinesAre ==
  ASSUME NEW t, NEW u, NEW P, NEW us, NEW n, SetsLabel(t, u, P, us, n) \/ Jumps(t, u, P, us, n)
  PROVE  /\ Len(t.lines) \in Nat /\ Len(u.lines) = Len(t.lines) + 1
         /\ \A i \in 1..Len(t.lines) : u.lines[i] = t.lines[i]
         /\ u.lines[Len(t.lines) + 1].left.n = n
         /\ SetsLabel(t, u, P, us, n) => u.lines[Len(t.lines) + 1].op = "LABEL"
         /\ Jumps(t, u, P, us, n) => u.lines[Len(t.lines) + 1].op \in BranchOps
         /\ \A j \in 1..Len(t.lines) :
              NoFunc(t.lines, j, Len(t.lines)) => NoFunc(u.lines, j, Len(t.lines) + 1)
<1>1. PICK l \in LineSet : /\ Grown(t.lines, l, u.lines) /\ l.left.n = n
                           /\ l.op # "FUNC"
                           /\ SetsLabel(t, u, P, us, n) /\ ~Jumps(t, u, P, us, n) => l.op = "LABEL"
                           /\ Jumps(t, u, P, us, n) => l.op \in BranchOps
  BY DEF SetsLabel, Jumps, BranchOps
<1>2. /\ Len(t.lines) \in Nat /\ Len(u.lines) = Len(t.lines) + 1
      /\ u.lines[Len(t.lines) + 1] = l
      /\ \A i \in 1..Len(t.lines) : u.lines[i] = t.lines[i]
      /\ \A j \in 1..Len(t.lines) :
           NoFunc(u.lines, j, Len(t.lines) + 1) <=> NoFunc(t.lines, j, Len(t.lines))
  BY <1>1, OneMore
<1>3. SetsLabel(t, u, P, us, n) => l.op = "LABEL"
  <2>1. ASSUME SetsLabel(t, u, P, us, n) PROVE l.op = "LABEL"
    <3>1. PICK k \in LineSet : Grown(t.lines, k, u.lines) /\ k.op = "LABEL"
      BY <2>1 DEF SetsLabel
    <3>2. u.lines[Len(t.lines) + 1] = k
      BY <3>1, OneMore
    <3> QED BY <1>2, <3>1, <3>2
  <2> QED BY <2>1
<1> QED BY <1>1, <1>2, <1>3

(* The branch of a construct lands where its label is set. *)
LEMMA LandsHere ==
  ASSUME NEW t, NEW u, NEW P, NEW us, NEW f, SetsLabel(t, u, P, us, f.labs[Owed(f)]),
         Owes(t.lines, f), NEW le, f.owe \in DOMAIN le, le[f.owe] = Len(t.lines) + 1
  PROVE  Landed(u.lines, le, f.owe)
<1> DEFINE N == Len(t.lines)
           n == f.labs[Owed(f)]
<1>1. /\ N \in Nat /\ Len(u.lines) = N + 1 /\ \A i \in 1..N : u.lines[i] = t.lines[i]
      /\ u.lines[N + 1].left.n = n /\ u.lines[N + 1].op = "LABEL"
      /\ \A j \in 1..N : NoFunc(t.lines, j, N) => NoFunc(u.lines, j, N + 1)
  BY FlowLinesAre
<1>2. f.owe \in 1..N /\ t.lines[f.owe].left.n = n /\ NoFunc(t.lines, f.owe, N)
  BY DEF Owes
<1> HIDE DEF N, n
<1>3. le[f.owe] = N + 1 /\ N + 1 \in 1..Len(u.lines)
  BY <1>1 DEF N
<1>4. Marks(u.lines, N + 1, u.lines[f.owe].left.n)
  BY <1>1, <1>2 DEF Marks
<1>5. NoFunc(u.lines, f.owe, N + 1)
  BY <1>1, <1>2
<1>6. NoFunc(u.lines, N + 1, f.owe)
  BY <1>1, <1>2 DEF NoFunc
<1> QED BY <1>3, <1>4, <1>5, <1>6 DEF Landed

(* A branch back lands where the loop began. *)
LEMMA LandsBack ==
  ASSUME NEW t, NEW u, NEW P, NEW us, NEW f, Jumps(t, u, P, us, f.labs[1]),
         Begun(t.lines, f), NEW le, Len(t.lines) + 1 \in DOMAIN le,
         le[Len(t.lines) + 1] = f.begin
  PROVE  Landed(u.lines, le, Len(t.lines) + 1)
<1> DEFINE N == Len(t.lines)
           n == f.labs[1]
<1>1. /\ N \in Nat /\ Len(u.lines) = N + 1 /\ \A i \in 1..N : u.lines[i] = t.lines[i]
      /\ u.lines[N + 1].left.n = n
      /\ \A j \in 1..N : NoFunc(t.lines, j, N) => NoFunc(u.lines, j, N + 1)
  BY FlowLinesAre
<1>2. f.begin \in 1..N /\ Marks(t.lines, f.begin, n) /\ NoFunc(t.lines, f.begin, N)
  BY DEF Begun
<1>3. N + 1 \in DOMAIN le /\ le[N + 1] = f.begin
  OBVIOUS
<1> HIDE DEF N, n
<1>4. Marks(u.lines, f.begin, u.lines[N + 1].left.n) /\ f.begin \in 1..Len(u.lines)
  BY <1>1, <1>2 DEF Marks
<1>5. NoFunc(u.lines, f.begin, N + 1)
  BY <1>1, <1>2
<1>6. NoFunc(u.lines, N + 1, f.begin)
  BY <1>1, <1>2 DEF NoFunc
<1> QED BY <1>3, <1>4, <1>5, <1>6 DEF Landed, N

(* A branch is waited for from where it is. *)
LEMMA OwesNext ==
  ASSUME NEW t, NEW u, NEW P, NEW us, NEW n, Jumps(t, u, P, us, n),
         NEW f, f.owe = Len(t.lines) + 1, f.labs[Owed(f)] = n
  PROVE  Owes(u.lines, f)
<1>1. /\ Len(t.lines) \in Nat /\ Len(u.lines) = Len(t.lines) + 1
      /\ u.lines[Len(t.lines) + 1].left.n = n /\ u.lines[Len(t.lines) + 1].op \in BranchOps
  BY FlowLinesAre
<1>2. NoFunc(u.lines, f.owe, Len(u.lines))
  BY <1>1 DEF NoFunc
<1> QED BY <1>1, <1>2 DEF Owes

(* A loop begins where its label is. *)
LEMMA BegunNext ==
  ASSUME NEW t, NEW u, NEW P, NEW us, NEW n, SetsLabel(t, u, P, us, n),
         NEW f, f.begin = Len(t.lines) + 1, f.labs[1] = n
  PROVE  Begun(u.lines, f)
<1>1. /\ Len(t.lines) \in Nat /\ Len(u.lines) = Len(t.lines) + 1
      /\ u.lines[Len(t.lines) + 1].left.n = n /\ u.lines[Len(t.lines) + 1].op = "LABEL"
  BY FlowLinesAre
<1>2. NoFunc(u.lines, f.begin, Len(u.lines))
  BY <1>1 DEF NoFunc
<1> QED BY <1>1, <1>2 DEF Begun, Marks
(* A construct with labels is begun on the statement on top. *)
LEMMA OpenFlow ==
  ASSUME Now, Stats,
         NEW u, Grows(ts, u, Outs(frames), uses), Marked(u), Straight(ts, u),
         Setting(ts, u, ts.label),
         NEW f \in FrameSet, Shaped(f), f.k \in FlowKinds, Len(f.adrs) = 0, f.out.type # "TMP",
         FlowOK(u, f), NewLabels(ts, f),
         NEW gs, gs = Append(SetTop([Top EXCEPT !.some = TRUE]), f)
  PROVE  Inv(u, gs, land, uses)
<1> DEFINE hs == [frames EXCEPT ![Len(frames)] = [Last(frames) EXCEPT !.some = TRUE]]
<1>1. /\ frames # <<>> /\ Last(frames).want = "stats" /\ Inv(ts, frames, land, uses)
      /\ Works(ts, ts, Outs(frames), uses)
  BY AtStats
<1>2. hs = SetTop([Top EXCEPT !.some = TRUE])
  BY DEF SetTop, Top
<1>3. Inv(ts, hs, land, uses)
  BY ONLY <1>1, <1>2, WholeWorks, Now, Stats
<1>4. Framed(ts, frames, uses)
  BY <1>1 DEF Inv
<1>5. Pushed(hs, f, gs)
  BY <1>2 DEF Pushed
<1>6. Outs(hs) = Outs(frames) /\ hs # <<>> /\ Last(hs).want = "stats"
  BY ONLY <1>1, <1>4, MoveSome
<1> HIDE DEF hs
<1>7. Outs(hs) \subseteq Outs(frames)
  BY <1>6
<1> QED BY <1>1, <1>3, <1>5, <1>6, <1>7, PushFlow

FlowFresh(g, k) ==
  /\ Fresh(g, k) /\ k \in FlowKinds /\ Len(g.adrs) = 0
  /\ IF k = "repeat" THEN Len(g.tys) = 0 /\ g.want = "stats"
     ELSE Len(g.tys) = 1 /\ g.want \in Wants
LabsOf(k, labs) == labs \in Seq(Nat) /\ Len(labs) = IF k \in {"if", "repeat"} THEN 1 ELSE 2
FlowFramed(f, k, labs, b) ==
  /\ f \in FrameSet /\ Shaped(f) /\ f.k = k /\ k \in FlowKinds
  /\ Len(f.adrs) = 0 /\ f.out.type # "TMP"
  /\ f.labs = labs /\ f.owe = 0 /\ f.field = 0 /\ f.begin = b
  /\ f.want = "stats" => k = "repeat"
WithLabs(g, labs) == [g EXCEPT !.labs = labs]
WithLoop(g, labs, b) == [g EXCEPT !.labs = labs, !.begin = b]

(* The frame of a construct with labels. *)
LEMMA FlowFrameIs ==
  ASSUME NEW k, NEW g, FlowFresh(g, k), NEW labs, LabsOf(k, labs), NEW b \in Nat,
         NEW f, NEW e,
         (f = WithLabs(g, labs) /\ e = 0) \/ (f = WithLoop(g, labs, b) /\ e = b)
  PROVE  FlowFramed(f, k, labs, e)
<1>1. /\ f \in FrameSet /\ f.k = k /\ f.tys = g.tys /\ f.adrs = g.adrs /\ f.out = Blank
      /\ f.labs = labs /\ f.owe = 0 /\ f.want = g.want /\ f.field = 0 /\ f.begin = e
  <2>1. CASE f = WithLabs(g, labs) /\ e = 0
    BY <2>1 DEF FrameSet, Fresh, WithLabs, FlowFresh, LabsOf
  <2>2. CASE f = WithLoop(g, labs, b) /\ e = b
    BY <2>2 DEF FrameSet, Fresh, WithLoop, FlowFresh, LabsOf
  <2> QED BY <2>1, <2>2
<1>2. /\ k \in FlowKinds /\ Len(f.adrs) = 0 /\ f.want # "step"
      /\ IF k = "repeat" THEN Len(f.tys) = 0 /\ f.want = "stats"
         ELSE Len(f.tys) = 1 /\ f.want \in Wants /\ f.want # "stats"
  BY <1>1 DEF FlowFresh, Wants
<1>3. f.out.type = "EMPTY"
  BY <1>1, PlainAdrs
<1>4. ShapedFlow(f)
  <2>1. f.want = "stats" => f.want \notin Wants
    BY DEF Wants
  <2>2. Len(f.labs) = IF k \in {"if", "repeat"} THEN 1 ELSE 2
    BY <1>1 DEF LabsOf
  <2>3. Len(f.adrs) <= Len(f.tys) /\ (f.want \in Wants => Len(f.adrs) < Len(f.tys))
    <3>1. CASE k = "repeat"
      <4>1. Len(f.adrs) = 0 /\ Len(f.tys) = 0 /\ f.want \notin Wants
        BY ONLY <1>2, <2>1, <3>1
      <4> QED BY ONLY <4>1
    <3>2. CASE k # "repeat"
      <4>1. Len(f.adrs) = 0 /\ Len(f.tys) = 1
        BY ONLY <1>2, <3>2
      <4> QED BY ONLY <4>1
    <3> QED BY ONLY <3>1, <3>2
  <2>4. Len(f.tys) = IF f.k = "repeat" /\ f.want = "stats" THEN 0 ELSE 1
    BY <1>1, <1>2
  <2>5. Len(f.labs) = IF f.k \in {"if", "repeat"} THEN 1 ELSE 2
    BY <1>1, <2>2
  <2> QED BY ONLY <1>1, <1>2, <1>3, <2>3, <2>4, <2>5 DEF ShapedFlow
<1>5. Shaped(f)
  BY <1>1, <1>2, <1>4, ShapedFlows
<1> QED BY <1>1, <1>2, <1>3, <1>5 DEF FlowFramed

(* A label that was not there is where it is set, if it is. *)
LEMMA NotYet ==
  ASSUME NEW t, NEW u, TSok(t), TSok(u), Further(t, u), Marked(t), NEW m,
         Setting(t, u, m), NEW n \in Nat, t.label <= n, n # m \/ Unmarked(t, u)
  PROVE  \A j \in 1..Len(u.lines) : ~Marks(u.lines, j, n)
<1> SUFFICES ASSUME NEW j \in 1..Len(u.lines), Marks(u.lines, j, n) PROVE FALSE
  OBVIOUS
<1>1. /\ Len(t.lines) \in Nat /\ Len(u.lines) \in Nat
      /\ \A i \in 1..Len(t.lines) : u.lines[i] = t.lines[i]
  BY FurtherIs
<1>2. CASE j \in 1..Len(t.lines)
  <2>1. t.lines[j].op = "LABEL" /\ t.lines[j].left.n = n
    BY <1>1, <1>2 DEF Marks
  <2>2. t.lines[j].left.n < t.label
    BY <1>2, <2>1 DEF Marked
  <2>3. t.label \in Nat
    BY DEF TSok
  <2> QED BY <2>1, <2>2, <2>3
<1>3. CASE j \in (Len(t.lines) + 1)..Len(u.lines)
  <2>1. n = m
    BY <1>3 DEF Setting
  <2>2. ~Unmarked(t, u)
    BY <1>3 DEF Unmarked
  <2> QED BY <2>1, <2>2
<1> QED BY <1>1, <1>2, <1>3

(* The labels of a construct count on. *)
Counting(t, labs) == \A m \in 1..Len(labs) : labs[m] = t.label + m - 1

(* The labels of a construct that begins are new and not set, but that a loop
   begins with. *)
LEMMA NewFlow ==
  ASSUME NEW t, NEW u, TSok(t), TSok(u), Further(t, u), Marked(t),
         Setting(t, u, t.label), NEW k, NEW labs, LabsOf(k, labs), Counting(t, labs),
         u.label = t.label + Len(labs),
         k \in {"if", "ifelse"} => Unmarked(t, u),
         NEW b, NEW f, FlowFramed(f, k, labs, b),
         k \in {"for", "repeat"} => Begun(u.lines, f)
  PROVE  FlowOK(u, f) /\ NewLabels(t, f)
<1>1. t.label \in Nat /\ Len(labs) \in {1, 2} /\ Len(f.labs) = Len(labs) /\ f.labs = labs
  BY DEF TSok, LabsOf, FlowFramed
<1>2. \A m \in 1..Len(labs) : labs[m] = t.label + m - 1
  BY DEF Counting
<1>3. NewLabels(t, f)
  BY <1>1, <1>2 DEF NewLabels
<1>4. \A m \in 1..Len(f.labs) : f.labs[m] < u.label
  BY <1>1, <1>2
<1>5. Unset(f) \subseteq 1..Len(f.labs)
  BY UnsetIs DEF FlowFramed
<1>6. k \notin {"if", "ifelse"} => \A m \in Unset(f) : m = 2
  BY DEF Unset, FlowFramed
<1>7. ASSUME NEW m \in Unset(f) PROVE \A j \in 1..Len(u.lines) : ~Marks(u.lines, j, f.labs[m])
  <2>1. f.labs[m] \in Nat /\ t.label <= f.labs[m] /\ (m = 2 => f.labs[m] # t.label)
    BY <1>1, <1>2, <1>5, <1>7
  <2>2. f.labs[m] # t.label \/ Unmarked(t, u)
    BY <1>6, <1>7, <2>1
  <2> QED BY <2>1, <2>2, NotYet
<1>8. f.owe = 0 /\ f.k = k /\ (f.want = "stats" => k = "repeat")
  BY DEF FlowFramed
<1> QED BY <1>3, <1>4, <1>7, <1>8 DEF FlowOK
(* What is known when labels are made. *)
Started(u, n) ==
  /\ Grows(ts, u, Outs(frames), uses) /\ Marked(u) /\ Straight(ts, u)
  /\ Setting(ts, u, ts.label) /\ u.label = ts.label + n
  /\ TSok(ts) /\ TSok(u) /\ Further(ts, u) /\ Marked(ts)

(* To number labels writes no line. *)
LEMMA Labels ==
  ASSUME Now, Stats, NEW n \in 1..2, NEW u, u = NewLabel(ts, n)
  PROVE  Started(u, n) /\ Unmarked(ts, u) /\ u.lines = ts.lines
<1>1. Good(ts, Outs(frames), uses) /\ Marked(ts) /\ TSok(ts)
  BY AtStats, AtFlow
<1>2. /\ Grows(ts, u, Outs(frames), uses) /\ Marked(u) /\ Straight(ts, u)
      /\ \A m : Setting(ts, u, m)
      /\ u.lines = ts.lines /\ u.label = ts.label + n /\ ts.label \in Nat
  BY <1>1, LabelIs
<1>3. Further(ts, u) /\ TSok(u)
  BY <1>2 DEF Grows, Good, Sound
<1>4. Unmarked(ts, u)
  <2>1. Len(ts.lines) \in Nat
    BY <1>1 DEF TSok
  <2> QED BY <1>2, <2>1 DEF Unmarked
<1> QED BY <1>1, <1>2, <1>3, <1>4 DEF Started

(* What is known when labels are made and the first one is set. *)
LEMMA LoopStarts ==
  ASSUME Now, Stats, NEW n \in 1..2, NEW u, u = Mark(NewLabel(ts, n), ts.label)
  PROVE  /\ Started(u, n)
         /\ \A f : f.begin = Here /\ f.labs[1] = ts.label => Begun(u.lines, f)
<1> DEFINE v == NewLabel(ts, n)
           P == Outs(frames)
<1>1. /\ Started(v, n) /\ Unmarked(ts, v) /\ v.lines = ts.lines
  BY Labels
<1> HIDE DEF v, P
<1>2. /\ Grows(ts, v, P, uses) /\ Marked(v) /\ v.label = ts.label + n
      /\ TSok(ts) /\ TSok(v) /\ Further(ts, v) /\ Marked(ts) /\ Setting(ts, v, ts.label)
      /\ Good(v, P, uses) /\ ts.label \in Nat /\ ts.label < v.label
  <2>1. /\ Grows(ts, v, P, uses) /\ Marked(v) /\ v.label = ts.label + n
        /\ TSok(ts) /\ TSok(v) /\ Further(ts, v) /\ Marked(ts) /\ Setting(ts, v, ts.label)
    BY <1>1 DEF Started, P
  <2>2. Good(v, P, uses) /\ ts.label \in Nat
    BY <2>1 DEF Grows, TSok
  <2> QED BY <2>1, <2>2
<1>3. \A j \in 1..Len(v.lines) : ~Marks(v.lines, j, ts.label)
  BY <1>1, <1>2, NotYet
<1>4. SetsLabel(v, u, P, uses, ts.label)
  BY <1>2, <1>3, LabelLine DEF v
<1>5. /\ Grows(v, u, P, uses) /\ u.label = v.label /\ Marked(u) /\ Setting(v, u, ts.label)
  BY <1>4 DEF SetsLabel
<1>6. Grows(ts, u, P, uses)
  BY <1>2, <1>5, GrowsOn
<1>7. TSok(u) /\ Further(ts, u)
  BY <1>6 DEF Grows, Good, Sound
<1>8. Setting(ts, u, ts.label)
  BY <1>1, <1>5 DEF Setting
<1>9. Straight(ts, u)
  <2>1. /\ Len(ts.lines) \in Nat /\ Len(u.lines) = Len(ts.lines) + 1
        /\ u.lines[Len(ts.lines) + 1].op = "LABEL"
    BY <1>1, <1>4, FlowLinesAre
  <2> QED BY <2>1 DEF Straight, BranchOps
<1>10. ASSUME NEW f, f.begin = Here, f.labs[1] = ts.label PROVE Begun(u.lines, f)
  <2>1. f.begin = Len(v.lines) + 1
    BY <1>1, <1>10 DEF Here
  <2> QED BY <1>4, <1>10, <2>1, BegunNext
<1> QED BY <1>2, <1>5, <1>6, <1>7, <1>8, <1>9, <1>10 DEF Started, P

(* The frame of a construct is pushed when its labels are made. *)
LEMMA FlowOpens ==
  ASSUME Now, Stats, NEW k, NEW g, FlowFresh(g, k), NEW labs, LabsOf(k, labs),
         Counting(ts, labs), NEW u, Started(u, Len(labs)),
         k \in {"if", "ifelse"} => Unmarked(ts, u),
         NEW e, NEW f, FlowFramed(f, k, labs, e),
         k \in {"for", "repeat"} => Begun(u.lines, f),
         NEW gs, gs = Append(SetTop([Top EXCEPT !.some = TRUE]), f)
  PROVE  Inv(u, gs, land, uses)
<1>1. /\ Grows(ts, u, Outs(frames), uses) /\ Marked(u) /\ Straight(ts, u)
      /\ Setting(ts, u, ts.label) /\ u.label = ts.label + Len(labs)
      /\ TSok(ts) /\ TSok(u) /\ Further(ts, u) /\ Marked(ts)
  BY DEF Started
<1>2. FlowOK(u, f) /\ NewLabels(ts, f)
  BY <1>1, NewFlow
<1>3. /\ f \in FrameSet /\ Shaped(f) /\ f.k \in FlowKinds /\ Len(f.adrs) = 0
      /\ f.out.type # "TMP"
  BY DEF FlowFramed
<1> QED BY <1>1, <1>2, <1>3, OpenFlow

(* One label, or two. *)
LEMMA LabsAre ==
  ASSUME NEW t, t.label \in Nat
  PROVE  /\ \A k \in {"if", "repeat"} : LabsOf(k, <<t.label>>)
         /\ \A k \in {"ifelse", "for"} : LabsOf(k, <<t.label, t.label + 1>>)
         /\ Counting(t, <<t.label>>) /\ Counting(t, <<t.label, t.label + 1>>)
         /\ Len(<<t.label>>) = 1 /\ Len(<<t.label, t.label + 1>>) = 2
         /\ <<t.label>>[1] = t.label /\ <<t.label, t.label + 1>>[1] = t.label
<1>1. LabsOf("if", <<t.label>>) /\ LabsOf("repeat", <<t.label>>)
  BY DEF LabsOf
<1>2. LabsOf("ifelse", <<t.label, t.label + 1>>) /\ LabsOf("for", <<t.label, t.label + 1>>)
  BY DEF LabsOf
<1>3. Counting(t, <<t.label>>) /\ Counting(t, <<t.label, t.label + 1>>)
  BY DEF Counting
<1> QED BY <1>1, <1>2, <1>3

(* The frames of the four. *)
LEMMA FreshFlows ==
  /\ \A k \in {"if", "ifelse", "for"} : FlowFresh(One(k, "bool"), k)
  /\ FlowFresh(None("repeat"), "repeat")
<1>1. "bool" \in Wants /\ \A k \in FlowKinds : k \in Kinds
  BY DEF Wants, Kinds, StatKinds
<1>2. ASSUME NEW k \in {"if", "ifelse", "for"} PROVE FlowFresh(One(k, "bool"), k)
  <2>1. k \in FlowKinds /\ k # "repeat"
    BY DEF FlowKinds
  <2>2. /\ Fresh(One(k, "bool"), k) /\ One(k, "bool").want = "bool"
        /\ Len(One(k, "bool").tys) = 1 /\ Len(One(k, "bool").adrs) = 0
    BY <1>1, <2>1, FramesAre
  <2> QED BY <1>1, <2>1, <2>2 DEF FlowFresh
<1>3. FlowFresh(None("repeat"), "repeat")
  <2>1. "repeat" \in FlowKinds
    BY DEF FlowKinds
  <2>2. /\ Fresh(None("repeat"), "repeat") /\ None("repeat").want = "stats"
        /\ Len(None("repeat").tys) = 0 /\ Len(None("repeat").adrs) = 0
    BY <1>1, <2>1, FramesAre
  <2> QED BY <2>1, <2>2 DEF FlowFresh
<1> QED BY <1>2, <1>3

(* A condition and a part, or two. *)
LEMMA OpenIfStep ==
  ASSUME Now, OpenIf
  PROVE  Inv(ts', frames', land', uses')
<1> DEFINE g == One("if", "bool")
           labs == <<ts.label>>
           f == WithLabs(g, labs)
           u == NewLabel(ts, 1)
<1>1. /\ Stats /\ ts' = u /\ land' = land /\ uses' = uses
      /\ frames' = Append(SetTop([Top EXCEPT !.some = TRUE]), f)
  BY DEF OpenIf, Begin, Rest, One, Labelled, NewLabel, WithLabs
<1>2. Started(u, 1) /\ Unmarked(ts, u)
  BY <1>1, Labels
<1>3. ts.label \in Nat
  BY <1>2 DEF Started, TSok
<1>4. LabsOf("if", labs) /\ Counting(ts, labs) /\ Len(labs) = 1
  BY <1>3, LabsAre
<1>5. FlowFresh(g, "if")
  BY FreshFlows
<1> HIDE DEF g, labs, u
<1>6. FlowFramed(f, "if", labs, 0)
  BY <1>4, <1>5, FlowFrameIs
<1> HIDE DEF f
<1> QED BY <1>1, <1>2, <1>4, <1>5, <1>6, FlowOpens

(* An `if` with an `else` begins. *)
LEMMA OpenIfElseStep ==
  ASSUME Now, OpenIfElse
  PROVE  Inv(ts', frames', land', uses')
<1> DEFINE g == One("ifelse", "bool")
           labs == <<ts.label, ts.label + 1>>
           f == WithLabs(g, labs)
           u == NewLabel(ts, 2)
<1>1. /\ Stats /\ ts' = u /\ land' = land /\ uses' = uses
      /\ frames' = Append(SetTop([Top EXCEPT !.some = TRUE]), f)
  BY DEF OpenIfElse, Begin, Rest, One, Labelled, NewLabel, WithLabs
<1>2. Started(u, 2) /\ Unmarked(ts, u)
  BY <1>1, Labels
<1>3. ts.label \in Nat
  BY <1>2 DEF Started, TSok
<1>4. LabsOf("ifelse", labs) /\ Counting(ts, labs) /\ Len(labs) = 2
  BY <1>3, LabsAre
<1>5. FlowFresh(g, "ifelse")
  BY FreshFlows
<1> HIDE DEF g, labs, u
<1>6. FlowFramed(f, "ifelse", labs, 0)
  BY <1>4, <1>5, FlowFrameIs
<1> HIDE DEF f
<1> QED BY <1>1, <1>2, <1>4, <1>5, <1>6, FlowOpens

(* The loops. *)
LEMMA OpenForStep ==
  ASSUME Now, OpenFor
  PROVE  Inv(ts', frames', land', uses')
<1> DEFINE g == One("for", "bool")
           labs == <<ts.label, ts.label + 1>>
           f == WithLoop(g, labs, Here)
           u == Mark(NewLabel(ts, 2), ts.label)
<1>1. /\ Stats /\ ts' = u /\ land' = land /\ uses' = uses
      /\ frames' = Append(SetTop([Top EXCEPT !.some = TRUE]), f)
  BY DEF OpenFor, Begin, Rest, One, Labelled, NewLabel, WithLoop
<1>2. /\ Started(u, 2)
      /\ \A h : h.begin = Here /\ h.labs[1] = ts.label => Begun(u.lines, h)
  BY <1>1, LoopStarts
<1>3. ts.label \in Nat /\ Here \in Nat
  BY <1>2 DEF Started, TSok, Here
<1>4. LabsOf("for", labs) /\ Counting(ts, labs) /\ Len(labs) = 2 /\ labs[1] = ts.label
  BY <1>3, LabsAre
<1>5. FlowFresh(g, "for")
  BY FreshFlows
<1> HIDE DEF g, labs, u
<1>6. FlowFramed(f, "for", labs, Here)
  BY <1>3, <1>4, <1>5, FlowFrameIs
<1> HIDE DEF f
<1>7. Begun(u.lines, f)
  BY <1>2, <1>4, <1>6 DEF FlowFramed
<1> QED BY <1>1, <1>2, <1>4, <1>5, <1>6, <1>7, FlowOpens

(* A `repeat` begins with its label. *)
LEMMA OpenRepeatStep ==
  ASSUME Now, OpenRepeat
  PROVE  Inv(ts', frames', land', uses')
<1> DEFINE g == None("repeat")
           labs == <<ts.label>>
           f == WithLoop(g, labs, Here)
           u == Mark(NewLabel(ts, 1), ts.label)
<1>1. /\ Stats /\ ts' = u /\ land' = land /\ uses' = uses
      /\ frames' = Append(SetTop([Top EXCEPT !.some = TRUE]), f)
  BY DEF OpenRepeat, Begin, Rest, None, Labelled, NewLabel, WithLoop
<1>2. /\ Started(u, 1)
      /\ \A h : h.begin = Here /\ h.labs[1] = ts.label => Begun(u.lines, h)
  BY <1>1, LoopStarts
<1>3. ts.label \in Nat /\ Here \in Nat
  BY <1>2 DEF Started, TSok, Here
<1>4. LabsOf("repeat", labs) /\ Counting(ts, labs) /\ Len(labs) = 1 /\ labs[1] = ts.label
  BY <1>3, LabsAre
<1>5. FlowFresh(g, "repeat")
  BY FreshFlows
<1> HIDE DEF g, labs, u
<1>6. FlowFramed(f, "repeat", labs, Here)
  BY <1>3, <1>4, <1>5, FlowFrameIs
<1> HIDE DEF f
<1>7. Begun(u.lines, f)
  BY <1>2, <1>4, <1>6 DEF FlowFramed
<1> QED BY <1>1, <1>2, <1>4, <1>5, <1>6, <1>7, FlowOpens
(* What does not depend on how far a construct is. *)
AsBefore(f, g) ==
  /\ g \in FrameSet /\ g.k = f.k /\ g.name = f.name /\ g.out = f.out /\ g.labs = f.labs
  /\ g.begin = f.begin /\ g.adrs = f.adrs

(* A construct goes on: it has no more labels to set, and its branch is there. *)
LEMMA FlowAs ==
  ASSUME NEW u, NEW f, FlowOK(u, f), NEW g, AsBefore(f, g), Unset(g) \subseteq Unset(f),
         g.owe # 0 => Owes(u.lines, g),
         g.want = "stats" /\ g.k \in {"if", "ifelse", "for"} => g.owe # 0
  PROVE  FlowOK(u, g)
<1>1. /\ \A m \in 1..Len(g.labs) : g.labs[m] < u.label
      /\ \A m \in Unset(g) : \A j \in 1..Len(u.lines) : ~Marks(u.lines, j, g.labs[m])
  BY DEF FlowOK, AsBefore
<1>2. g.k \in {"for", "repeat"} => Begun(u.lines, g)
  BY DEF FlowOK, AsBefore, Begun
<1> QED BY <1>1, <1>2 DEF FlowOK

(* A construct moves on to its next part. *)
LEMMA FlowMoves ==
  ASSUME Now, InCode, Top.k \in FlowKinds,
         NEW u, Grows(ts, u, Outs(frames), uses), Marked(u),
         NEW m \in 1..Len(Top.labs), Setting(ts, u, Top.labs[m]),
         NEW g, AsBefore(Top, g), ShapedFlow(g), FlowOK(u, g),
         NEW gs, Topped(frames, g, gs), NEW le, Known(land, le, Top.owe, Len(ts.lines)),
         \A i \in 1..Len(u.lines) :
           u.lines[i].op \in BranchOps /\ (i > Len(ts.lines) \/ i = Top.owe)
             => i = g.owe \/ Landed(u.lines, le, i)
  PROVE  Inv(u, gs, le, uses)
<1>1. /\ frames # <<>> /\ Top = Last(frames) /\ Inv(ts, frames, land, uses)
      /\ \A n \in 1..Len(Top.adrs) : Has(ts, Top.adrs[n])
  BY AtFlow
<1>2. g \in FrameSet /\ Like(Top, g) /\ g.labs = Top.labs /\ Shaped(g)
  <2>1. g.k \in FlowKinds /\ g.k # "update"
    BY DEF AsBefore, FlowKinds
  <2> QED BY <2>1, ShapedFlows DEF AsBefore, Like
<1>3. HasAll(u, g)
  BY <1>1 DEF HasAll, AsBefore, Grows, Keeps
<1>4. Outs(frames) \subseteq Outs(frames)
  OBVIOUS
<1> QED BY <1>1, <1>2, <1>3, <1>4, TopFlow

(* A construct is done. *)
LEMMA FlowEnds ==
  ASSUME Now, InCode, Top.k \in FlowKinds,
         NEW u, Grows(ts, u, Outs(frames), uses), Marked(u),
         NEW m \in 1..Len(Top.labs), Setting(ts, u, Top.labs[m]),
         NEW gs, gs = Front(frames), NEW le, Known(land, le, Top.owe, Len(ts.lines)),
         \A i \in 1..Len(u.lines) :
           u.lines[i].op \in BranchOps /\ (i > Len(ts.lines) \/ i = Top.owe)
             => Landed(u.lines, le, i)
  PROVE  Inv(u, gs, le, uses)
<1>1. frames # <<>> /\ Top = Last(frames) /\ Inv(ts, frames, land, uses)
  BY AtFlow
<1>2. Popped(frames, gs)
  BY DEF Popped
<1>3. Outs(frames) \subseteq Outs(frames)
  OBVIOUS
<1> QED BY <1>1, <1>2, <1>3, PopFlow

(* Two lines of a construct. *)
LEMMA SettingOn ==
  ASSUME NEW t, TSok(t), NEW v, NEW u, NEW n, NEW P, NEW us, NEW k, Jumps(t, v, P, us, k),
         SetsLabel(v, u, P, us, n)
  PROVE  /\ Grows(t, u, P, us) /\ Marked(u) /\ Setting(t, u, n)
         /\ Len(t.lines) \in Nat /\ Len(v.lines) = Len(t.lines) + 1
         /\ Len(u.lines) = Len(t.lines) + 2
         /\ u.lines[Len(t.lines) + 2].op \notin BranchOps
         /\ TSok(v) /\ TSok(u) /\ Further(v, u)
<1>1. Grows(t, v, P, us) /\ Grows(v, u, P, us) /\ Marked(u)
  BY DEF Jumps, SetsLabel
<1>2. Grows(t, u, P, us)
  BY <1>1, GrowsOn
<1>3. TSok(v) /\ TSok(u) /\ Further(v, u)
  BY <1>1 DEF Grows, Good, Sound
<1>4. /\ Len(t.lines) \in Nat /\ Len(v.lines) = Len(t.lines) + 1
      /\ Len(u.lines) = Len(v.lines) + 1
      /\ \A i \in 1..Len(v.lines) : u.lines[i] = v.lines[i]
      /\ u.lines[Len(v.lines) + 1].op = "LABEL"
  BY FlowLinesAre
<1>5. Setting(t, u, n)
  <2> SUFFICES ASSUME NEW j \in (Len(t.lines) + 1)..Len(u.lines), NEW m, Marks(u.lines, j, m)
               PROVE  m = n
    BY DEF Setting
  <2>1. CASE j \in (Len(t.lines) + 1)..Len(v.lines)
    <3>1. u.lines[j] = v.lines[j]
      BY <1>4, <2>1
    <3>2. Marks(v.lines, j, m)
      BY <3>1 DEF Marks
    <3>3. Unmarked(t, v)
      BY DEF Jumps
    <3> QED BY <2>1, <3>2, <3>3 DEF Unmarked
  <2>2. CASE j \in (Len(v.lines) + 1)..Len(u.lines)
    BY <2>2 DEF SetsLabel, Setting
  <2> QED BY <1>4, <2>1, <2>2
<1>6. "LABEL" \notin BranchOps
  BY DEF BranchOps
<1>7. Len(u.lines) = Len(t.lines) + 2 /\ u.lines[Len(t.lines) + 2].op = "LABEL"
  BY ONLY <1>4
<1> QED BY <1>1, <1>2, <1>3, <1>4, <1>5, <1>6, <1>7
(* What a construct on top is. *)
LEMMA AtConstruct ==
  ASSUME Now, InCode, Top.k \in FlowKinds
  PROVE  /\ ShapedFlow(Top) /\ Top \in FrameSet /\ Top.labs \in Seq(Nat)
         /\ \A m \in 1..Len(Top.labs) : Top.labs[m] \in Nat /\ Top.labs[m] < ts.label
         /\ TSok(ts) /\ Good(ts, Outs(frames), uses) /\ Marked(ts) /\ FlowOK(ts, Top)
         /\ Here = Len(ts.lines) + 1 /\ Len(ts.lines) \in Nat
         /\ \A m \in 1..Len(Top.adrs) : Has(ts, Top.adrs[m])
<1>1. Shaped(Top) /\ TSok(ts)
  BY AtFlow
<1>2. Len(ts.lines) \in Nat
  BY <1>1 DEF TSok
<1> QED BY <1>1, <1>2, AtFlow, ShapedFlows

NowOpen(f, h) == [f EXCEPT !.want = "stats", !.owe = h]
(* The condition is there, and what it guards comes next. *)
LEMMA NowOpenIs ==
  ASSUME NEW f \in FrameSet, ShapedFlow(f), f.k \in FlowKinds, f.k # "repeat",
         f.want = "step", NEW h \in Nat \ {0}, NEW g, g = NowOpen(f, h)
  PROVE  /\ AsBefore(f, g) /\ ShapedFlow(g) /\ g.owe = h /\ g.want = "stats"
         /\ Unset(g) = Unset(f) /\ Owed(g) = Len(f.labs) /\ Len(f.adrs) = 1
         /\ Len(f.labs) \in {1, 2} /\ f.owe = 0
<1>1. /\ g \in FrameSet /\ g.k = f.k /\ g.name = f.name /\ g.out = f.out /\ g.labs = f.labs
      /\ g.begin = f.begin /\ g.adrs = f.adrs /\ g.owe = h /\ g.want = "stats"
      /\ g.field = f.field /\ g.tys = f.tys
  BY DEF FrameSet, NowOpen
<1> HIDE DEF NowOpen
<1>2. AsBefore(f, g)
  BY <1>1 DEF AsBefore
<1>3. /\ Len(f.adrs) = Len(f.tys) /\ Len(f.tys) = 1 /\ f.out.type = "EMPTY" /\ f.field = 0
      /\ Len(f.labs) = IF f.k = "if" THEN 1 ELSE 2
      /\ f.owe = 0
  BY DEF ShapedFlow
<1>4. g.want \notin Wants /\ g.want # "step"
  BY <1>1 DEF Wants
<1>5. ShapedFlow(g)
  <2>1. Len(g.adrs) <= Len(g.tys) /\ Len(g.tys) = 1
    BY <1>1, <1>3
  <2>2. Len(g.labs) = IF g.k \in {"if", "repeat"} THEN 1 ELSE 2
    BY <1>1, <1>3
  <2> QED BY ONLY <1>1, <1>3, <1>4, <2>1, <2>2, f.k # "repeat" DEF ShapedFlow
<1>6. Unset(g) = Unset(f)
  BY <1>1 DEF Unset
<1>7. Owed(g) = Len(f.labs)
  BY <1>1, <1>3 DEF Owed, FlowKinds
<1> QED BY <1>1, <1>2, <1>3, <1>5, <1>6, <1>7

(* The condition of a construct. *)
LEMMA ConditionStep ==
  ASSUME Now, Condition
  PROVE  Inv(ts', frames', land', uses')
<1> DEFINE P == Outs(frames)
           n == Top.labs[Len(Top.labs)]
           u == Emit1(ts, FlowLine("GOTOF", n, Top.adrs[1]))
           g == NowOpen(Top, Here)
<1>1. /\ InCode /\ Top.k \in {"if", "ifelse", "for"} /\ Top.want = "step" /\ ts' = u
      /\ Topped(frames, g, frames') /\ land' = land /\ uses' = uses
  BY DEF Condition, Rest, Emit1, FlowLine, GotoF, Binary, Last, Topped, NowOpen, SetTop
<1>2. Top.k \in FlowKinds /\ Top.k # "repeat"
  BY <1>1 DEF FlowKinds
<1>3. /\ ShapedFlow(Top) /\ Top \in FrameSet
      /\ \A m \in 1..Len(Top.labs) : Top.labs[m] \in Nat /\ Top.labs[m] < ts.label
      /\ TSok(ts) /\ Good(ts, P, uses) /\ Marked(ts) /\ FlowOK(ts, Top)
      /\ Here = Len(ts.lines) + 1 /\ Len(ts.lines) \in Nat
      /\ \A m \in 1..Len(Top.adrs) : Has(ts, Top.adrs[m])
  BY <1>1, <1>2, AtConstruct
<1>4. Here \in Nat \ {0}
  BY <1>3
<1>5. /\ AsBefore(Top, g) /\ ShapedFlow(g) /\ g.owe = Here /\ g.want = "stats"
      /\ Unset(g) = Unset(Top) /\ Owed(g) = Len(Top.labs) /\ Len(Top.adrs) = 1
      /\ Len(Top.labs) \in {1, 2} /\ Top.owe = 0
  BY <1>1, <1>2, <1>3, <1>4, NowOpenIs
<1>6. Jumps(ts, u, P, uses, n)
  <2>1. "GOTOF" \in {"GOTO", "GOTOF"} /\ n \in Nat /\ n < ts.label /\ Has(ts, Top.adrs[1])
    BY <1>3, <1>5
  <2> QED BY <1>3, <2>1, JumpLine
<1> HIDE DEF u, n, g, P
<1>7. /\ Grows(ts, u, P, uses) /\ ts.label <= u.label /\ Marked(u) /\ Unmarked(ts, u)
      /\ Further(ts, u) /\ TSok(u)
  BY <1>6 DEF Jumps, Grows, Good, Sound
<1>8. FlowOK(u, Top)
  BY <1>3, <1>7, FlowStays DEF Unmarked
<1>9. Owes(u.lines, g)
  <2>1. g.owe = Len(ts.lines) + 1 /\ g.labs[Owed(g)] = n
    BY <1>3, <1>5 DEF n, AsBefore
  <2> QED BY <1>6, <2>1, OwesNext
<1>10. FlowOK(u, g)
  <2>1. g.owe # 0
    BY <1>4, <1>5
  <2> QED BY <1>5, <1>8, <1>9, <2>1, FlowAs
<1>11. Setting(ts, u, Top.labs[1]) /\ 1 \in 1..Len(Top.labs)
  <2>1. Setting(ts, u, Top.labs[1])
    BY ONLY <1>7 DEF Setting, Unmarked
  <2>2. 1 \in 1..Len(Top.labs)
    <3>1. Len(Top.labs) \in {1, 2}
      BY <1>5
    <3> QED BY ONLY <3>1
  <2> QED BY <2>1, <2>2
<1>12. Known(land, land, Top.owe, Len(ts.lines))
  BY DEF Known
<1>13. ASSUME NEW i \in 1..Len(u.lines), i > Len(ts.lines) \/ i = Top.owe
       PROVE  i = g.owe
  <2>1. Len(u.lines) = Len(ts.lines) + 1
    BY <1>6, FlowLinesAre
  <2> QED BY <1>3, <1>5, <1>13, <2>1
<1> QED BY <1>1, <1>2, <1>5, <1>7, <1>10, <1>11, <1>12, <1>13, FlowMoves DEF P
NowElse(f, h) == [f EXCEPT !.some = FALSE, !.field = 1, !.owe = h]
(* The second part comes next. *)
LEMMA NowElseIs ==
  ASSUME NEW f \in FrameSet, ShapedFlow(f), f.k = "ifelse", f.field = 0,
         f.want = "stats", NEW h \in Nat \ {0}, NEW g, g = NowElse(f, h)
  PROVE  /\ AsBefore(f, g) /\ ShapedFlow(g) /\ g.owe = h
         /\ Unset(g) = {1} /\ Unset(f) = {1, 2} /\ Owed(g) = 1 /\ Owed(f) = 2
         /\ Len(f.labs) = 2 /\ g.labs = f.labs
<1>1. /\ g \in FrameSet /\ g.k = f.k /\ g.name = f.name /\ g.out = f.out /\ g.labs = f.labs
      /\ g.begin = f.begin /\ g.adrs = f.adrs /\ g.owe = h /\ g.want = "stats"
      /\ g.field = 1 /\ g.tys = f.tys
  <2>1. FALSE \in BOOLEAN /\ 1 \in 0..3 /\ h \in Nat /\ "stats" \in Wants \cup {"step", "stats"}
    OBVIOUS
  <2> QED BY <2>1 DEF FrameSet, NowElse
<1>2. AsBefore(f, g)
  BY <1>1 DEF AsBefore
<1>3. /\ Len(f.adrs) <= Len(f.tys) /\ Len(f.tys) = 1 /\ f.out.type = "EMPTY"
      /\ Len(f.labs) = 2
  BY DEF ShapedFlow
<1>4. g.want \notin Wants /\ g.want # "step"
  BY <1>1 DEF Wants
<1>5. ShapedFlow(g)
  <2>1. g.k = "ifelse" /\ "ifelse" # "repeat" /\ "ifelse" \notin {"if", "repeat"}
    BY <1>1
  <2>2. Len(g.adrs) <= Len(g.tys) /\ Len(g.tys) = 1 /\ Len(g.labs) = 2 /\ g.out.type = "EMPTY"
    BY <1>1, <1>3
  <2> QED BY ONLY <1>1, <1>4, <2>1, <2>2 DEF ShapedFlow
<1>6. Unset(g) = {1} /\ Owed(g) = 1
  BY <1>1 DEF Unset, Owed
<1>7. Unset(f) = {1, 2} /\ Owed(f) = 2
  BY DEF Unset, Owed
<1> QED BY <1>1, <1>2, <1>3, <1>5, <1>6, <1>7

(* Between the two parts. *)
LEMMA ElseStep ==
  ASSUME Now, Else
  PROVE  Inv(ts', frames', land', uses')
<1> DEFINE P == Outs(frames)
           N == Len(ts.lines)
           n1 == Top.labs[1]
           n2 == Top.labs[2]
           v == Emit1(ts, FlowLine("GOTO", n1, Blank))
           u == Mark(v, n2)
           g == NowElse(Top, Here)
           le == Put(land, Top.owe, Here + 1)
<1>1. /\ InCode /\ Top.k = "ifelse" /\ Top.want = "stats" /\ Top.field = 0 /\ ts' = u
      /\ Topped(frames, g, frames') /\ land' = le /\ uses' = uses
  BY DEF Else, Flow, LandAt, Emit1, FlowLine, Goto, Unary, Topped, NowElse, SetTop, Stats
<1>2. Top.k \in FlowKinds
  BY <1>1 DEF FlowKinds
<1>3. /\ ShapedFlow(Top) /\ Top \in FrameSet
      /\ \A m \in 1..Len(Top.labs) : Top.labs[m] \in Nat /\ Top.labs[m] < ts.label
      /\ TSok(ts) /\ Good(ts, P, uses) /\ Marked(ts) /\ FlowOK(ts, Top)
      /\ Here = N + 1 /\ N \in Nat
  BY <1>1, <1>2, AtConstruct
<1>4. Here \in Nat \ {0}
  BY <1>3
<1>5. /\ AsBefore(Top, g) /\ ShapedFlow(g) /\ g.owe = Here
      /\ Unset(g) = {1} /\ Unset(Top) = {1, 2} /\ Owed(g) = 1 /\ Owed(Top) = 2
      /\ Len(Top.labs) = 2 /\ g.labs = Top.labs
  BY <1>1, <1>3, <1>4, NowElseIs
<1>6. n1 \in Nat /\ n1 < ts.label /\ n2 \in Nat /\ n2 < ts.label /\ n1 # n2
  <2>1. 1 \in 1..Len(Top.labs) /\ 2 \in 1..Len(Top.labs)
    BY <1>5
  <2>2. n1 # n2
    <3>1. \A i, j \in 1..Len(Top.labs) : i # j => Top.labs[i] # Top.labs[j]
      BY <1>1, AtFlow
    <3> QED BY ONLY <2>1, <3>1
  <2> QED BY <1>3, <2>1, <2>2
<1>7. Jumps(ts, v, P, uses, n1)
  BY <1>3, <1>6, JumpLine, HasBlank
<1>8. le[Top.owe] = Here + 1 /\ Top.owe \in DOMAIN le
      /\ \A z \in DOMAIN land : z # Top.owe => z \in DOMAIN le /\ le[z] = land[z]
  BY ONLY PutIs DEF HasPut
<1> HIDE DEF v, P, g, le
<1>9. /\ Grows(ts, v, P, uses) /\ v.label = ts.label /\ Marked(v) /\ Unmarked(ts, v)
      /\ Further(ts, v) /\ TSok(v) /\ Good(v, P, uses) /\ ts.label <= v.label
  BY <1>7 DEF Jumps, Grows, Good, Sound
<1>10. FlowOK(v, Top)
  BY <1>3, <1>9, FlowStays DEF Unmarked
<1>11. SetsLabel(v, u, P, uses, n2)
  <2>1. \A j \in 1..Len(v.lines) : ~Marks(v.lines, j, n2)
    <3>1. 2 \in Unset(Top)
      BY <1>5
    <3> QED BY <1>10, <3>1 DEF FlowOK
  <2>2. n2 < v.label
    BY <1>6, <1>9
  <2> QED BY <1>6, <1>9, <2>1, <2>2, LabelLine
<1> HIDE DEF u
<1>12. /\ Grows(ts, u, P, uses) /\ Marked(u) /\ Setting(ts, u, n2)
       /\ Len(v.lines) = N + 1 /\ Len(u.lines) = N + 2
       /\ u.lines[N + 2].op \notin BranchOps
       /\ TSok(v) /\ TSok(u) /\ Further(v, u)
  BY <1>3, <1>7, <1>11, SettingOn
<1>13. Owes(v.lines, g)
  BY <1>3, <1>5, <1>7, OwesNext
<1>14. FlowOK(v, g)
  BY <1>4, <1>5, <1>10, <1>13, FlowAs
<1>15. FlowOK(u, g)
  <2>1. \A m \in Unset(g) : \A j \in (Len(v.lines) + 1)..Len(u.lines) :
          ~Marks(u.lines, j, g.labs[m])
    <3>1. Setting(v, u, n2)
      BY <1>11 DEF SetsLabel
    <3> QED BY <1>5, <1>6, <3>1 DEF Setting
  <2>2. v.label <= u.label /\ g \in FrameSet
    BY <1>5, <1>11 DEF SetsLabel, Grows, AsBefore
  <2> QED BY <1>12, <1>14, <2>1, <2>2, FlowStays
<1>16. Landed(u.lines, le, Top.owe)
  <2>1. Owes(v.lines, Top)
    <3>1. Top.owe # 0
      BY <1>1, <1>3 DEF FlowOK
    <3> QED BY <1>10, <3>1 DEF FlowOK
  <2>2. le[Top.owe] = Len(v.lines) + 1
    BY <1>3, <1>8, <1>12
  <2>3. SetsLabel(v, u, P, uses, Top.labs[Owed(Top)])
    BY <1>5, <1>11
  <2> QED BY <1>8, <2>1, <2>2, <2>3, LandsHere
<1>17. Known(land, le, Top.owe, Len(ts.lines))
  BY <1>8 DEF Known
<1>18. ASSUME NEW i \in 1..Len(u.lines), u.lines[i].op \in BranchOps,
              i > Len(ts.lines) \/ i = Top.owe
       PROVE  i = g.owe \/ Landed(u.lines, le, i)
  <2>1. CASE i = Top.owe
    BY <1>16, <2>1
  <2>2. CASE i > N
    <3>1. i \in {N + 1, N + 2}
      BY <1>3, <1>12, <2>2
    <3>2. i = N + 1
      BY <1>12, <1>18, <3>1
    <3> QED BY <1>3, <1>5, <3>2
  <2> QED BY <1>18, <2>1, <2>2
<1>19. 2 \in 1..Len(Top.labs)
  BY <1>5
<1> QED BY <1>1, <1>2, <1>5, <1>12, <1>15, <1>17, <1>18, <1>19, FlowMoves DEF P
(* The last part is done. *)
LEMMA CloseIfStep ==
  ASSUME Now, CloseIf
  PROVE  Inv(ts', frames', land', uses')
<1> DEFINE P == Outs(frames)
           N == Len(ts.lines)
           n == Top.labs[1]
           u == Mark(ts, n)
           le == Put(land, Top.owe, Here)
<1>1. /\ InCode /\ Top.k \in {"if", "ifelse"} /\ Top.want = "stats" /\ ts' = u
      /\ Top.k = "if" \/ Top.field = 1
      /\ frames' = Front(frames) /\ land' = le /\ uses' = uses
  BY DEF CloseIf, Flow, LandAt, EndStat, Stats
<1>2. Top.k \in FlowKinds
  BY <1>1 DEF FlowKinds
<1>3. /\ ShapedFlow(Top) /\ Top \in FrameSet
      /\ \A m \in 1..Len(Top.labs) : Top.labs[m] \in Nat /\ Top.labs[m] < ts.label
      /\ TSok(ts) /\ Good(ts, P, uses) /\ Marked(ts) /\ FlowOK(ts, Top)
      /\ Here = N + 1 /\ N \in Nat
  BY <1>1, <1>2, AtConstruct
<1>4. le[Top.owe] = Here /\ Top.owe \in DOMAIN le
      /\ \A z \in DOMAIN land : z # Top.owe => z \in DOMAIN le /\ le[z] = land[z]
  BY ONLY PutIs DEF HasPut
<1>5. Unset(Top) = {1} /\ Owed(Top) = 1
  BY <1>1 DEF Unset, Owed
<1>6. 1 \in 1..Len(Top.labs)
  <2>1. Len(Top.labs) \in {1, 2}
    BY <1>3 DEF ShapedFlow
  <2> QED BY ONLY <2>1
<1>7. n \in Nat /\ n < ts.label
  BY <1>3, <1>6
<1> HIDE DEF P, le
<1>8. SetsLabel(ts, u, P, uses, n)
  <2>1. \A j \in 1..Len(ts.lines) : ~Marks(ts.lines, j, n)
    BY <1>3, <1>5 DEF FlowOK
  <2> QED BY <1>3, <1>7, <2>1, LabelLine
<1> HIDE DEF u
<1>9. /\ Grows(ts, u, P, uses) /\ Marked(u) /\ Setting(ts, u, n)
  BY <1>8 DEF SetsLabel
<1>10. Len(u.lines) = N + 1 /\ u.lines[N + 1].op \notin BranchOps
  <2>1. Len(u.lines) = N + 1 /\ u.lines[N + 1].op = "LABEL"
    BY <1>8, FlowLinesAre
  <2> QED BY <2>1 DEF BranchOps
<1>11. Landed(u.lines, le, Top.owe)
  <2>1. Owes(ts.lines, Top)
    <3>1. Top.owe # 0
      BY <1>1, <1>3 DEF FlowOK
    <3> QED BY <1>3, <3>1 DEF FlowOK
  <2>2. le[Top.owe] = Len(ts.lines) + 1
    BY <1>3, <1>4
  <2>3. SetsLabel(ts, u, P, uses, Top.labs[Owed(Top)])
    BY <1>5, <1>8
  <2> QED BY <1>4, <2>1, <2>2, <2>3, LandsHere
<1>12. Known(land, le, Top.owe, Len(ts.lines))
  BY <1>4 DEF Known
<1>13. ASSUME NEW i \in 1..Len(u.lines), u.lines[i].op \in BranchOps,
              i > Len(ts.lines) \/ i = Top.owe
       PROVE  Landed(u.lines, le, i)
  <2>1. CASE i = Top.owe
    BY <1>11, <2>1
  <2>2. CASE i > N
    <3>1. i = N + 1
      BY <1>3, <1>10, <2>2
    <3> QED BY <1>10, <1>13, <3>1
  <2> QED BY <1>13, <2>1, <2>2
<1> QED BY <1>1, <1>2, <1>6, <1>9, <1>12, <1>13, FlowEnds DEF P

(* A loop with its condition in front is done. *)
LEMMA CloseForStep ==
  ASSUME Now, CloseFor
  PROVE  Inv(ts', frames', land', uses')
<1> DEFINE P == Outs(frames)
           N == Len(ts.lines)
           n1 == Top.labs[1]
           n2 == Top.labs[2]
           v == Emit1(ts, FlowLine("GOTO", n1, Blank))
           u == Mark(v, n2)
           lb == Put(land, Here, Top.begin)
           le == Put(lb, Top.owe, Here + 1)
<1>1. /\ InCode /\ Top.k = "for" /\ Top.want = "stats" /\ ts' = u
      /\ frames' = Front(frames) /\ land' = le /\ uses' = uses
  BY DEF CloseFor, Flow, Emit1, FlowLine, Goto, Unary, EndStat, Stats
<1>2. Top.k \in FlowKinds
  BY <1>1 DEF FlowKinds
<1>3. /\ ShapedFlow(Top) /\ Top \in FrameSet
      /\ \A m \in 1..Len(Top.labs) : Top.labs[m] \in Nat /\ Top.labs[m] < ts.label
      /\ TSok(ts) /\ Good(ts, P, uses) /\ Marked(ts) /\ FlowOK(ts, Top)
      /\ Here = N + 1 /\ N \in Nat
  BY <1>1, <1>2, AtConstruct
<1>4. lb[Here] = Top.begin /\ Here \in DOMAIN lb
      /\ \A z \in DOMAIN land : z # Here => z \in DOMAIN lb /\ lb[z] = land[z]
  BY ONLY PutIs DEF HasPut
<1>5. le[Top.owe] = Here + 1 /\ Top.owe \in DOMAIN le
      /\ \A z \in DOMAIN lb : z # Top.owe => z \in DOMAIN le /\ le[z] = lb[z]
  <2> HIDE DEF lb
  <2> QED BY ONLY PutIs DEF HasPut
<1>6. Unset(Top) = {2} /\ Owed(Top) = 2 /\ Len(Top.labs) = 2
  BY <1>1, <1>3 DEF Unset, Owed, ShapedFlow
<1>7. n1 \in Nat /\ n1 < ts.label /\ n2 \in Nat /\ n2 < ts.label
  <2>1. 1 \in 1..Len(Top.labs) /\ 2 \in 1..Len(Top.labs)
    BY <1>6
  <2> QED BY <1>3, <2>1
<1>8. Jumps(ts, v, P, uses, n1)
  BY <1>3, <1>7, JumpLine, HasBlank
<1> HIDE DEF v, P, lb, le
<1>9. /\ Grows(ts, v, P, uses) /\ v.label = ts.label /\ Marked(v) /\ Unmarked(ts, v)
      /\ Further(ts, v) /\ TSok(v) /\ Good(v, P, uses) /\ ts.label <= v.label
  BY <1>8 DEF Jumps, Grows, Good, Sound
<1>10. FlowOK(v, Top)
  BY <1>3, <1>9, FlowStays DEF Unmarked
<1>11. SetsLabel(v, u, P, uses, n2)
  <2>1. \A j \in 1..Len(v.lines) : ~Marks(v.lines, j, n2)
    <3>1. 2 \in Unset(Top)
      BY <1>6
    <3> QED BY <1>10, <3>1 DEF FlowOK
  <2>2. n2 < v.label
    BY <1>7, <1>9
  <2> QED BY <1>7, <1>9, <2>1, <2>2, LabelLine
<1> HIDE DEF u
<1>12. /\ Grows(ts, u, P, uses) /\ Marked(u) /\ Setting(ts, u, n2)
       /\ Len(v.lines) = N + 1 /\ Len(u.lines) = N + 2
       /\ u.lines[N + 2].op \notin BranchOps
       /\ TSok(v) /\ TSok(u) /\ Further(v, u)
  BY <1>3, <1>8, <1>11, SettingOn
<1>13. Owes(ts.lines, Top) /\ Owes(v.lines, Top) /\ Begun(ts.lines, Top)
  <2>1. Top.owe # 0
    BY <1>1, <1>3 DEF FlowOK
  <2> QED BY <1>1, <1>3, <1>10, <2>1 DEF FlowOK
<1>14. Top.owe \in 1..N
  BY <1>13 DEF Owes
<1>15. Landed(u.lines, le, N + 1)
  <2>1. Len(ts.lines) + 1 \in DOMAIN le /\ le[Len(ts.lines) + 1] = Top.begin
    BY <1>3, <1>4, <1>5, <1>14
  <2>2. Landed(v.lines, le, N + 1)
    BY <1>8, <1>13, <2>1, LandsBack
  <2>3. N + 1 \in 1..Len(v.lines)
    BY <1>3, <1>12
  <2> QED BY <1>12, <2>2, <2>3, StillLanded
<1>16. Landed(u.lines, le, Top.owe)
  <2>2. le[Top.owe] = Len(v.lines) + 1
    BY <1>3, <1>5, <1>12
  <2>3. SetsLabel(v, u, P, uses, Top.labs[Owed(Top)])
    BY <1>6, <1>11
  <2> QED BY <1>5, <1>13, <2>2, <2>3, LandsHere
<1>17. Known(land, le, Top.owe, Len(ts.lines))
  <2>1. ASSUME NEW i \in 1..Len(ts.lines), i # Top.owe, i \in DOMAIN land
        PROVE  i \in DOMAIN le /\ le[i] = land[i]
    <3>1. i # Here
      BY <1>3
    <3> QED BY <1>4, <1>5, <2>1, <3>1
  <2> QED BY <2>1 DEF Known
<1>18. ASSUME NEW i \in 1..Len(u.lines), u.lines[i].op \in BranchOps,
              i > Len(ts.lines) \/ i = Top.owe
       PROVE  Landed(u.lines, le, i)
  <2>1. CASE i = Top.owe
    BY <1>16, <2>1
  <2>2. CASE i > N
    <3>1. i \in {N + 1, N + 2}
      BY <1>3, <1>12, <2>2
    <3>2. i = N + 1
      BY <1>12, <1>18, <3>1
    <3> QED BY <1>15, <3>2
  <2> QED BY <1>18, <2>1, <2>2
<1>19. 2 \in 1..Len(Top.labs)
  BY <1>6
<1> QED BY <1>1, <1>2, <1>12, <1>17, <1>18, <1>19, FlowEnds DEF P

(* A loop with its condition at the end is done. *)
LEMMA CloseRepeatStep ==
  ASSUME Now, CloseRepeat
  PROVE  Inv(ts', frames', land', uses')
<1> DEFINE P == Outs(frames)
           N == Len(ts.lines)
           n == Top.labs[1]
           u == Emit1(ts, FlowLine("GOTOF", n, Top.adrs[1]))
           le == Put(land, Here, Top.begin)
<1>1. /\ InCode /\ Top.k = "repeat" /\ Top.want = "step" /\ ts' = u
      /\ frames' = Front(frames) /\ land' = le /\ uses' = uses
  BY DEF CloseRepeat, Flow, LandAt, Emit1, FlowLine, GotoF, Binary, EndStat, Ready
<1>2. Top.k \in FlowKinds
  BY <1>1 DEF FlowKinds
<1>3. /\ ShapedFlow(Top) /\ Top \in FrameSet
      /\ \A m \in 1..Len(Top.labs) : Top.labs[m] \in Nat /\ Top.labs[m] < ts.label
      /\ TSok(ts) /\ Good(ts, P, uses) /\ Marked(ts) /\ FlowOK(ts, Top)
      /\ Here = N + 1 /\ N \in Nat
      /\ \A m \in 1..Len(Top.adrs) : Has(ts, Top.adrs[m])
  BY <1>1, <1>2, AtConstruct
<1>4. le[Here] = Top.begin /\ Here \in DOMAIN le
      /\ \A z \in DOMAIN land : z # Here => z \in DOMAIN le /\ le[z] = land[z]
  BY ONLY PutIs DEF HasPut
<1>5. Len(Top.labs) = 1 /\ Len(Top.adrs) = 1 /\ Top.owe = 0
  BY <1>1, <1>3 DEF ShapedFlow
<1>6. 1 \in 1..Len(Top.labs) /\ n \in Nat /\ n < ts.label /\ Has(ts, Top.adrs[1])
  BY <1>3, <1>5
<1>7. Jumps(ts, u, P, uses, n)
  <2>1. "GOTOF" \in {"GOTO", "GOTOF"}
    OBVIOUS
  <2> QED BY <1>3, <1>6, <2>1, JumpLine
<1> HIDE DEF P, le, u
<1>8. Grows(ts, u, P, uses) /\ Marked(u) /\ Unmarked(ts, u)
  BY <1>7 DEF Jumps
<1>9. Setting(ts, u, n)
  BY ONLY <1>8 DEF Setting, Unmarked
<1>10. Landed(u.lines, le, N + 1)
  <2>1. Begun(ts.lines, Top)
    BY <1>1, <1>3 DEF FlowOK
  <2>2. Len(ts.lines) + 1 \in DOMAIN le /\ le[Len(ts.lines) + 1] = Top.begin
    BY <1>3, <1>4
  <2> QED BY <1>7, <2>1, <2>2, LandsBack
<1>11. Known(land, le, Top.owe, Len(ts.lines))
  <2>1. ASSUME NEW i \in 1..Len(ts.lines), i \in DOMAIN land
        PROVE  i \in DOMAIN le /\ le[i] = land[i]
    <3>1. i # Here
      BY <1>3
    <3> QED BY <1>4, <2>1, <3>1
  <2> QED BY <2>1 DEF Known
<1>12. ASSUME NEW i \in 1..Len(u.lines), i > Len(ts.lines) \/ i = Top.owe
       PROVE  Landed(u.lines, le, i)
  <2>1. Len(u.lines) = N + 1
    BY <1>7, FlowLinesAre
  <2>2. i = N + 1
    BY <1>3, <1>5, <1>12, <2>1
  <2> QED BY <1>10, <2>2
<1> QED BY <1>1, <1>2, <1>6, <1>8, <1>9, <1>11, <1>12, FlowEnds DEF P

NowUntil(f) == [f EXCEPT !.want = "bool", !.tys = <<"bool">>]
(* The condition comes next. *)
LEMMA NowUntilIs ==
  ASSUME NEW f \in FrameSet, ShapedFlow(f), f.k = "repeat", f.want = "stats",
         NEW g, g = NowUntil(f)
  PROVE  /\ AsBefore(f, g) /\ ShapedFlow(g) /\ g.owe = 0 /\ f.owe = 0
         /\ Unset(g) = {} /\ Len(f.labs) = 1
<1>1. <<"bool">> \in Seq(Wants) /\ "bool" \in Wants
  BY DEF Wants
<1>2. /\ g \in FrameSet /\ g.k = f.k /\ g.name = f.name /\ g.out = f.out /\ g.labs = f.labs
      /\ g.begin = f.begin /\ g.adrs = f.adrs /\ g.owe = f.owe /\ g.want = "bool"
      /\ g.field = f.field /\ g.tys = <<"bool">>
  BY <1>1 DEF FrameSet, NowUntil
<1>3. AsBefore(f, g)
  BY <1>2 DEF AsBefore
<1>4. /\ Len(f.adrs) <= Len(f.tys) /\ Len(f.tys) = 0 /\ f.out.type = "EMPTY"
      /\ Len(f.labs) = 1 /\ f.owe = 0 /\ f.field = 0
  BY DEF ShapedFlow
<1>5. Len(f.adrs) \in Nat
  BY DEF FrameSet
<1>6. Len(g.tys) = 1 /\ Len(g.adrs) < 1 /\ Len(g.adrs) <= 1
  BY <1>2, <1>4, <1>5
<1>7. ShapedFlow(g)
  BY <1>2, <1>4, <1>6 DEF ShapedFlow
<1>8. Unset(g) = {}
  BY <1>2 DEF Unset
<1> QED BY <1>2, <1>3, <1>4, <1>7, <1>8

(* The statements of a loop are done, and its condition comes next. *)
LEMMA RepeatUntilStep ==
  ASSUME Now, RepeatUntil
  PROVE  Inv(ts', frames', land', uses')
<1> DEFINE P == Outs(frames)
           g == NowUntil(Top)
<1>1. /\ InCode /\ Top.k = "repeat" /\ Top.want = "stats" /\ ts' = ts
      /\ Topped(frames, g, frames') /\ land' = land /\ uses' = uses
  BY DEF RepeatUntil, Rest, Topped, NowUntil, SetTop, Stats
<1>2. Top.k \in FlowKinds
  BY <1>1 DEF FlowKinds
<1>3. /\ ShapedFlow(Top) /\ Top \in FrameSet
      /\ TSok(ts) /\ Good(ts, P, uses) /\ Marked(ts) /\ FlowOK(ts, Top)
      /\ Len(ts.lines) \in Nat
  BY <1>1, <1>2, AtConstruct
<1>4. /\ AsBefore(Top, g) /\ ShapedFlow(g) /\ g.owe = 0 /\ Top.owe = 0
      /\ Unset(g) = {} /\ Len(Top.labs) = 1
  BY <1>1, <1>3, NowUntilIs
<1> HIDE DEF g, P
<1>5. Grows(ts, ts, P, uses) /\ Setting(ts, ts, Top.labs[1])
  <2>1. Keeps(ts, ts)
    BY Chains
  <2>2. ts.label <= ts.label
    BY <1>3 DEF TSok
  <2> QED BY <1>3, <2>1, <2>2 DEF Grows, Further, Longer, Setting
<1>6. FlowOK(ts, g)
  <2>1. g.k = "repeat"
    BY <1>1, <1>4 DEF AsBefore
  <2> QED BY <1>3, <1>4, <2>1, FlowAs
<1>7. Known(land, land, Top.owe, Len(ts.lines)) /\ 1 \in 1..Len(Top.labs)
  BY <1>4 DEF Known
<1>8. ASSUME NEW i \in 1..Len(ts.lines), i > Len(ts.lines) \/ i = Top.owe
      PROVE  FALSE
  BY <1>3, <1>4, <1>8
<1> QED BY <1>1, <1>2, <1>3, <1>4, <1>5, <1>6, <1>7, <1>8, FlowMoves DEF P
(***************************************************************************)
(* Between the functions.                                                  *)
(***************************************************************************)
Landings(s, ld) == \A i \in 1..Len(s) : s[i].op \in BranchOps => Landed(s, ld, i)
(* What the invariant says when nothing is on the stack. *)
Idle(t, ld, us) ==
  /\ Sound(t, us) /\ Blocks(t.lines) /\ Marked(t) /\ Landings(t.lines, ld)
  /\ t.lines # <<>> => t.lines[1].op = "FUNC"

(* The invariant is this and no more. *)
LEMMA IdleIs ==
  ASSUME NEW t, NEW ld, NEW us
  PROVE  Inv(t, <<>>, ld, us) <=> Idle(t, ld, us)
<1> DEFINE fs == <<>>
<1>1. fs \in Seq(FrameSet) /\ Len(fs) = 0 /\ fs = <<>>
  OBVIOUS
<1> HIDE DEF fs
<1>2. Framed(t, fs, us)
  BY <1>1 DEF Framed, Stacked1, Apart
<1>3. Distinct(fs) /\ \A i \in 1..Len(fs) : FlowOK(t, fs[i])
  BY <1>1 DEF Distinct
<1>4. Covered(t.lines, fs, ld) <=> Landings(t.lines, ld)
  BY <1>1 DEF Covered, Landings, Meant
<1>5. Branching(t, fs, ld) <=> Marked(t) /\ Landings(t.lines, ld)
  BY <1>3, <1>4, BranchingIs
<1> QED BY <1>1, <1>2, <1>5 DEF Inv, Idle

(* Nothing that is said of the lines depends on the temporaries. *)
LEMMA SoundAs ==
  ASSUME NEW t, NEW us, NEW ld, Idle(t, ld, us), NEW u, TSok(u), u.lines = t.lines,
         u.label = t.label, u.consts = t.consts, u.pool = t.pool, u.seen = t.seen,
         u.count = t.count
  PROVE  Idle(u, ld, us)
<1>1. \A a : LitOK(u, a) <=> LitOK(t, a)
  BY SamePools
<1>2. LinesOK(u)
  BY <1>1 DEF Idle, Sound, LinesOK
<1>3. Pooled(u)
  BY DEF Idle, Sound, Pooled, RealFree, At
<1>4. Marked(u)
  BY DEF Idle, Marked
<1> QED BY <1>2, <1>3, <1>4 DEF Idle, Sound

(* A function is done. *)
ZeroTmp(t) == [t EXCEPT !.tmp = 0]
(* The next function counts its temporaries anew. *)
LEMMA FuncEnds ==
  ASSUME NEW t, NEW fs, NEW ld, NEW us, Inv(t, fs, ld, us), fs # <<>>, Last(fs).k = "func",
         NEW u, u = t \/ u = ZeroTmp(t)
  PROVE  Inv(u, <<>>, ld, us) /\ u.lines # <<>>
<1>1. /\ Sound(t, us) /\ Framed(t, fs, us) /\ Blocks(t.lines) /\ Branching(t, fs, ld)
      /\ t.lines # <<>> => t.lines[1].op = "FUNC"
  BY DEF Inv
<1>2. fs \in Seq(FrameSet) /\ Len(fs) \in Nat \ {0} /\ Last(fs) = fs[Len(fs)] /\ t.lines # <<>>
  BY <1>1 DEF Framed, Last
<1>3. Len(fs) = 1
  <2> SUFFICES ASSUME Len(fs) # 1 PROVE FALSE
    OBVIOUS
  <2>1. Len(fs) \in 2..Len(fs)
    <3>1. \A n \in Nat \ {0} : n # 1 => n \in 2..n
      OBVIOUS
    <3> QED BY <1>2, <3>1
  <2>2. OnTop(fs[Len(fs)], fs[Len(fs) - 1])
    BY <1>1, <1>2, <2>1 DEF Framed, Stacked1
  <2>3. fs[Len(fs)].k \in ExprKinds \cup StatKinds
    BY <2>2 DEF OnTop
  <2>4. "func" \notin ExprKinds \cup StatKinds
    BY DEF ExprKinds, StatKinds, Ops2, FlowKinds
  <2> QED BY <1>2, <2>3, <2>4
<1>4. fs[1].owe = 0
  <2>1. Shaped(fs[1]) /\ fs[1].k = "func"
    BY <1>1, <1>2, <1>3 DEF Framed
  <2>2. "func" \notin FlowKinds
    BY DEF FlowKinds
  <2> QED BY <2>1, <2>2, Unlabelled
<1>5. Landings(t.lines, ld)
  <2> SUFFICES ASSUME NEW i \in 1..Len(t.lines), t.lines[i].op \in BranchOps
               PROVE  Landed(t.lines, ld, i)
    BY DEF Landings
  <2>1. Meant(t.lines, fs, ld, i)
    BY <1>1, BranchingIs DEF Covered
  <2>2. ~\E x \in 1..Len(fs) : fs[x].owe = i
    BY <1>3, <1>4
  <2> QED BY <2>1, <2>2 DEF Meant
<1>6. Marked(t)
  BY <1>1, BranchingIs
<1>7. Idle(t, ld, us)
  BY <1>1, <1>5, <1>6 DEF Idle
<1>8. Idle(u, ld, us) /\ u.lines = t.lines
  <2>1. CASE u = t
    BY <1>7, <2>1
  <2>2. CASE u = ZeroTmp(t)
    <3>1. TSok(t)
      BY <1>1 DEF Sound
    <3>2. /\ TSok(u) /\ u.lines = t.lines /\ u.label = t.label /\ u.consts = t.consts
          /\ u.pool = t.pool /\ u.seen = t.seen /\ u.count = t.count
      BY <2>2, <3>1 DEF TSok, ZeroTmp
    <3> QED BY <1>7, <3>2, SoundAs
  <2> QED BY <2>1, <2>2
<1> QED BY <1>2, <1>8, IdleIs

(* The end of a function. *)
LEMMA EndFuncStep ==
  ASSUME Now, EndFunc
  PROVE  Inv(ts', frames', land', uses') /\ ts'.lines # <<>> /\ frames' = <<>>
<1>1. /\ Stats /\ Top.k = "func" /\ frames' = <<>> /\ (ts' = ts \/ ts' = ZeroTmp(ts))
      /\ land' = land /\ uses' = uses
  BY DEF EndFunc, ZeroTmp
<1>2. frames # <<>> /\ Top = Last(frames) /\ Inv(ts, frames, land, uses)
  BY <1>1, AtStats
<1>3. Inv(ts', <<>>, land, uses) /\ ts'.lines # <<>>
  BY <1>1, <1>2, FuncEnds
<1> QED BY <1>1, <1>3

(***************************************************************************)
(* A constant is declared.                                                 *)
(***************************************************************************)
WithConst(t, q, v) ==
  [t EXCEPT !.pool.int = Append(@, v), !.consts = Put(@, <<q, v>>, t.count[q]),
            !.count[q] = @ + 1]
Declares(t, u, q, v) ==
  /\ u.lines = t.lines /\ u.label = t.label /\ u.tmp = t.tmp /\ u.seen = t.seen
  /\ u.pool["int"] = Append(t.pool["int"], v)
  /\ \A r \in Pools : r # "int" => u.pool[r] = t.pool[r]
  /\ u.count[q] = t.count[q] + 1
  /\ \A r \in Pools : r # q => u.count[r] = t.count[r]
  /\ DOMAIN u.consts = DOMAIN t.consts \cup {<<q, v>>}
  /\ u.consts[<<q, v>>] = t.count[q]
  /\ \A c \in DOMAIN t.consts : c # <<q, v>> => u.consts[c] = t.consts[c]

(* The lists and the counters go on, and the constant is found by its value. *)
LEMMA WithConstIs ==
  ASSUME NEW t, TSok(t), NEW q \in {"int", "real"}, NEW v \in Nat, NEW u, u = WithConst(t, q, v)
  PROVE  TSok(u) /\ Declares(t, u, q, v)
<1> DEFINE c == <<q, v>>
           cs == Put(t.consts, c, t.count[q])
           po == [t.pool EXCEPT !["int"] = Append(@, v)]
           co == [t.count EXCEPT ![q] = @ + 1]
<1>1. q \in Pools /\ "int" \in Pools /\ v \in Vals /\ c \in {"int", "real"} \X Nat
  BY DEF Pools, Vals
<1>2. /\ t.pool \in [Pools -> Seq(Vals)] /\ t.count \in [Pools -> Nat]
      /\ t.lines \in Seq(LineSet) /\ t.tmp \in Nat /\ t.label \in Nat
      /\ t.seen = [r \in Pools |-> t.seen[r]]
      /\ \A r \in Pools : \A k \in DOMAIN t.seen[r] :
           t.seen[r][k] \in Nat /\ t.seen[r][k] < t.count[r]
      /\ \A d \in DOMAIN t.consts : d \in {"int", "real"} \X Nat /\ t.consts[d] \in Nat
  BY DEF TSok
<1>3. u = [lines |-> t.lines, tmp |-> t.tmp, label |-> t.label, consts |-> cs,
           pool |-> po, seen |-> t.seen, count |-> co]
  BY DEF TSok, WithConst
<1>4. /\ DOMAIN cs = DOMAIN t.consts \cup {c} /\ cs[c] = t.count[q]
      /\ \A d \in DOMAIN t.consts : d # c => cs[d] = t.consts[d]
  <2> HIDE DEF c
  <2> QED BY DEF Put
<1>5. /\ po \in [Pools -> Seq(Vals)] /\ po["int"] = Append(t.pool["int"], v)
      /\ \A r \in Pools : r # "int" => po[r] = t.pool[r]
  BY <1>1, <1>2
<1>6. /\ co \in [Pools -> Nat] /\ co[q] = t.count[q] + 1
      /\ \A r \in Pools : r # q => co[r] = t.count[r]
  BY <1>1, <1>2
<1>7. \A d \in DOMAIN cs : d \in {"int", "real"} \X Nat /\ cs[d] \in Nat
  <2>1. t.count[q] \in Nat
    BY <1>1, <1>2
  <2> HIDE DEF c, cs
  <2> QED BY <1>1, <1>2, <1>4, <2>1
<1> HIDE DEF cs, po, co
<1>8. \A r \in Pools : \A k \in DOMAIN t.seen[r] : t.seen[r][k] < co[r]
  <2> SUFFICES ASSUME NEW r \in Pools, NEW k \in DOMAIN t.seen[r] PROVE t.seen[r][k] < co[r]
    OBVIOUS
  <2>1. t.seen[r][k] \in Nat /\ t.seen[r][k] < t.count[r] /\ t.count[r] \in Nat
    BY <1>2
  <2>2. co[r] = t.count[r] \/ co[r] = t.count[r] + 1
    BY <1>6
  <2> QED BY <2>1, <2>2
<1>9. /\ u.lines = t.lines /\ u.tmp = t.tmp /\ u.label = t.label /\ u.consts = cs
      /\ u.pool = po /\ u.seen = t.seen /\ u.count = co
  BY <1>3
<1>10. TSok(u)
  BY <1>2, <1>3, <1>5, <1>6, <1>7, <1>8, <1>9 DEF TSok
<1> QED BY <1>4, <1>5, <1>6, <1>9, <1>10 DEF Declares
(* Literals are found where they were, as long as no constant is real. *)
LEMMA ConstSound ==
  ASSUME NEW t, NEW ld, NEW us, Idle(t, ld, us), NEW q \in {"int", "real"}, NEW v \in Nat,
         <<q, v>> \notin DOMAIN t.consts, NEW u, TSok(u), Declares(t, u, q, v)
  PROVE  Idle(u, ld, us)
<1>1. /\ u.lines = t.lines /\ u.label = t.label /\ u.seen = t.seen
      /\ u.pool["int"] = Append(t.pool["int"], v)
      /\ \A r \in Pools : r # "int" => u.pool[r] = t.pool[r]
      /\ u.count[q] = t.count[q] + 1
      /\ \A r \in Pools : r # q => u.count[r] = t.count[r]
      /\ DOMAIN u.consts = DOMAIN t.consts \cup {<<q, v>>}
      /\ u.consts[<<q, v>>] = t.count[q]
      /\ \A c \in DOMAIN t.consts : c # <<q, v>> => u.consts[c] = t.consts[c]
  BY DEF Declares
<1>2. /\ Sound(t, us) /\ TSok(t) /\ Pooled(t) /\ LinesOK(t)
  BY DEF Idle, Sound
<1>3. t.pool \in [Pools -> Seq(Vals)] /\ t.count \in [Pools -> Nat] /\ "int" \in Pools
      /\ v \in Vals
  BY <1>2 DEF TSok, Pools, Vals
<1>4. ASSUME RealFree(u) PROVE RealFree(t) /\ q = "int"
  <2>1. \A c \in DOMAIN t.consts : c \in DOMAIN u.consts
    BY <1>1
  <2>2. <<q, v>> \in DOMAIN u.consts
    BY <1>1
  <2>3. <<q, v>>[1] = q
    OBVIOUS
  <2>4. q # "real"
    BY <1>4, <2>2, <2>3 DEF RealFree
  <2> QED BY <1>4, <2>1, <2>4 DEF RealFree
<1>5. ASSUME NEW r \in Pools, NEW n \in Nat, NEW w, At(t, r, n, w) PROVE At(u, r, n, w)
  <2>1. CASE r = "int"
    <3>1. n + 1 \in 1..Len(t.pool["int"]) /\ t.pool["int"] \in Seq(Vals)
      BY <1>3, <1>5, <2>1 DEF At
    <3>2. /\ u.pool["int"][n + 1] = t.pool["int"][n + 1]
          /\ Len(u.pool["int"]) = Len(t.pool["int"]) + 1
      BY <1>1, <1>3, <3>1
    <3> QED BY <1>5, <2>1, <3>1, <3>2 DEF At
  <2>2. CASE r # "int"
    BY <1>1, <1>5, <2>2 DEF At
  <2> QED BY <2>1, <2>2
<1>6. LinesOK(u)
  <2>1. ASSUME NEW a \in Adrs, LitOK(t, a) PROVE LitOK(u, a)
    <3> SUFFICES ASSUME RealFree(u), a.type \in {"ILIT", "FLIT", "STR"}
                 PROVE  At(u, PoolOf(a.type), a.n, a.val)
      BY DEF LitOK
    <3>1. PoolOf(a.type) \in Pools /\ a.n \in Nat
      BY DEF PoolOf, Pools, Adrs
    <3>2. At(t, PoolOf(a.type), a.n, a.val)
      BY <1>4, <2>1 DEF LitOK
    <3> QED BY <1>5, <3>1, <3>2
  <2>2. \A i \in 1..Len(t.lines) : /\ t.lines[i].left \in Adrs /\ t.lines[i].middle \in Adrs
                                   /\ t.lines[i].right \in Adrs
    <3>1. \A i \in 1..Len(t.lines) : t.lines[i] \in LineSet
      BY <1>2 DEF TSok
    <3> QED BY <3>1 DEF LineSet
  <2> QED BY <1>1, <1>2, <2>1, <2>2 DEF LinesOK
<1>7. Pooled(u)
  <2> SUFFICES ASSUME RealFree(u) PROVE Pooled(u)
    BY DEF Pooled
  <2>0. RealFree(t) /\ q = "int"
    BY <1>4
  <2>1. /\ \A r \in Pools : /\ Len(t.pool[r]) = t.count[r]
                            /\ \A k \in DOMAIN t.seen[r] :
                                 KeyOf(r, t.pool[r][t.seen[r][k] + 1]) = k
        /\ \A c \in DOMAIN t.consts : At(t, c[1], t.consts[c], c[2])
    BY <1>2, <2>0 DEF Pooled
  <2>2. ASSUME NEW r \in Pools PROVE Len(u.pool[r]) = u.count[r]
    <3>1. CASE r = "int"
      <4>1. Len(u.pool["int"]) = Len(t.pool["int"]) + 1
        BY <1>1, <1>3
      <4> QED BY <1>1, <2>0, <2>1, <3>1, <4>1
    <3>2. CASE r # "int"
      BY <1>1, <2>0, <2>1, <3>2
    <3> QED BY <3>1, <3>2
  <2>3. ASSUME NEW r \in Pools, NEW k \in DOMAIN u.seen[r]
        PROVE  KeyOf(r, u.pool[r][u.seen[r][k] + 1]) = k
    <3>1. /\ k \in DOMAIN t.seen[r] /\ u.seen[r][k] = t.seen[r][k]
          /\ KeyOf(r, t.pool[r][t.seen[r][k] + 1]) = k
      BY <1>1, <2>1, <2>3
    <3>2. CASE r = "int"
      <4>1. t.seen[r][k] \in Nat /\ t.seen[r][k] < t.count[r]
        BY <1>2, <3>1 DEF TSok
      <4>2. t.seen[r][k] + 1 \in 1..Len(t.pool["int"]) /\ t.pool["int"] \in Seq(Vals)
        BY <1>3, <2>1, <3>2, <4>1
      <4>3. u.pool["int"][t.seen[r][k] + 1] = t.pool["int"][t.seen[r][k] + 1]
        BY <1>1, <1>3, <4>2
      <4> QED BY <3>1, <3>2, <4>3
    <3>3. CASE r # "int"
      BY <1>1, <3>1, <3>3
    <3> QED BY <3>2, <3>3
  <2>4. ASSUME NEW c \in DOMAIN u.consts PROVE At(u, c[1], u.consts[c], c[2])
    <3>1. CASE c \in DOMAIN t.consts
      <4>1. c # <<q, v>> /\ u.consts[c] = t.consts[c]
        BY <1>1, <3>1
      <4>2. c[1] \in Pools /\ t.consts[c] \in Nat
        BY <1>2, <3>1 DEF TSok, Pools
      <4> QED BY <1>5, <2>1, <3>1, <4>1, <4>2
    <3>2. CASE c = <<q, v>>
      <4>1. c[1] = "int" /\ c[2] = v /\ u.consts[c] = t.count["int"]
        BY <1>1, <2>0, <3>2
      <4>2. t.count["int"] = Len(t.pool["int"]) /\ t.pool["int"] \in Seq(Vals)
        BY <1>3, <2>1
      <4>3. /\ Len(u.pool["int"]) = Len(t.pool["int"]) + 1
            /\ u.pool["int"][Len(t.pool["int"]) + 1] = v
        BY <1>1, <1>3, <4>2
      <4>4. /\ Len(t.pool["int"]) < Len(u.pool["int"])
            /\ u.pool["int"][t.count["int"] + 1] = v
        BY <4>2, <4>3
      <4> QED BY <4>1, <4>2, <4>4 DEF At
    <3> QED BY <1>1, <3>1, <3>2
  <2> QED BY <2>2, <2>3, <2>4 DEF Pooled
<1>8. Marked(u)
  BY <1>1 DEF Idle, Marked
<1> QED BY <1>1, <1>6, <1>7, <1>8 DEF Idle, Sound

(* A constant keeps the invariant. *)
LEMMA DeclareConstStep ==
  ASSUME Now, frames = <<>>, NEW q \in Numeric, NEW v \in LitsOf(q), DeclareConst(q, v)
  PROVE  Inv(ts', frames', land', uses') /\ frames' = <<>>
<1>1. /\ <<q, v>> \notin DOMAIN ts.consts /\ ts' = WithConst(ts, q, v)
      /\ frames' = frames /\ land' = land /\ uses' = uses
  BY DEF DeclareConst, WithConst
<1>2. q \in {"int", "real"} /\ v \in Nat
  BY LiteralsAssumption DEF LitsOf, Numeric
<1>3. Idle(ts, land, uses)
  BY IdleIs DEF Now
<1>4. TSok(ts)
  BY <1>3 DEF Idle, Sound
<1>5. TSok(ts') /\ Declares(ts, ts', q, v)
  BY <1>1, <1>2, <1>4, WithConstIs
<1>6. Idle(ts', land, uses)
  BY <1>1, <1>2, <1>3, <1>5, ConstSound
<1> QED BY <1>1, <1>6, IdleIs
(***************************************************************************)
(* A function begins.                                                      *)
(***************************************************************************)
FuncLine(a) == Line("FUNC", a, Blank, Blank)

(* The line that begins a function reads nothing, and what was backed stays so. *)
LEMMA FuncBacked ==
  ASSUME NEW s, NEW l, NEW r, Grown(s, l, r), l.op = "FUNC", l.left.type # "TMP",
         l.middle = Blank, l.right = Blank
  PROVE  /\ AllBacked(s) => AllBacked(r)
         /\ WrittenOnce(s) => WrittenOnce(r)
<1>1. /\ Len(r) = Len(s) + 1 /\ Len(s) \in Nat /\ r[Len(s) + 1] = l
      /\ \A i \in 1..Len(s) : r[i] = s[i]
      /\ \A j, i \in 1..Len(s) : NoFunc(r, j, i) <=> NoFunc(s, j, i)
      /\ \A j \in 1..Len(s) : \A a : Defines(r, j, a) <=> Defines(s, j, a)
      /\ \A j \in 1..Len(s) : \A n : Writes(r, j, n) <=> Writes(s, j, n)
  BY OneMore
<1>2. \A i \in 1..Len(r) : i \in 1..Len(s) \/ i = Len(s) + 1
  BY <1>1
<1>3. ASSUME AllBacked(s) PROVE AllBacked(r)
  <2>1. ASSUME NEW i \in 1..Len(s), NEW a, Backed(s, a, i) PROVE Backed(r, a, i)
    <3>0. SUFFICES ASSUME a.type \in Kept PROVE Backed(r, a, i)
      BY DEF Backed
    <3>1. PICK j \in 1..(i - 1) : Defines(s, j, a) /\ NoFunc(s, j, i)
      BY <2>1, <3>0 DEF Backed
    <3>2. j \in 1..Len(s)
      BY <1>1, <2>1
    <3>3. Defines(r, j, a) /\ NoFunc(r, j, i)
      BY <1>1, <2>1, <3>1, <3>2
    <3> QED BY <3>3 DEF Backed
  <2>2. ASSUME NEW i \in 1..Len(s)
        PROVE  /\ Backed(r, r[i].middle, i) /\ Backed(r, r[i].right, i)
               /\ r[i].op \in Readers => Backed(r, r[i].left, i)
    BY <1>1, <1>3, <2>1, <2>2 DEF AllBacked
  <2>3. Backed(r, Blank, Len(s) + 1) /\ l.op \notin Readers
    BY PlainAdrs DEF Backed, Kept, Readers
  <2> QED BY <1>1, <1>2, <2>2, <2>3 DEF AllBacked
<1>4. ASSUME WrittenOnce(s) PROVE WrittenOnce(r)
  <2> SUFFICES ASSUME NEW j \in 1..Len(r), NEW k \in 1..Len(r), j < k,
                      Writes(r, j, r[k].left.n), Writes(r, k, r[k].left.n)
               PROVE  ~NoFunc(r, j, k)
    BY DEF WrittenOnce
  <2>1. k # Len(s) + 1
    BY <1>1 DEF Writes
  <2>2. k \in 1..Len(s)
    BY <1>2, <2>1
  <2>3. j \in 1..Len(s)
    BY <1>1, <2>2
  <2>4. Writes(s, j, s[k].left.n) /\ Writes(s, k, s[k].left.n)
    BY <1>1, <2>2, <2>3
  <2>5. ~NoFunc(s, j, k)
    BY <1>4, <2>2, <2>3, <2>4 DEF WrittenOnce
  <2> QED BY <1>1, <2>2, <2>3, <2>5
<1> QED BY <1>3, <1>4

(* In a new function nothing is written yet. *)
LEMMA FuncFresh ==
  ASSUME NEW u, NEW s, NEW l, Grown(s, l, u.lines), l.op = "FUNC", l.left.type # "TMP"
  PROVE  Numbered(u, {})
<1> DEFINE r == u.lines
<1>1. Len(r) = Len(s) + 1 /\ Len(s) \in Nat /\ r[Len(s) + 1] = l
  BY OneMore
<1>2. ASSUME NEW j \in 1..Len(r), Writes(r, j, r[j].left.n), NoFunc(r, j, Len(r)) PROVE FALSE
  <2>1. CASE j = Len(s) + 1
    BY <1>1, <1>2, <2>1 DEF Writes
  <2>2. CASE j # Len(s) + 1
    <3>1. Len(r) \in (j + 1)..Len(r)
      BY <1>1, <2>2
    <3> QED BY <1>1, <1>2, <3>1 DEF NoFunc
  <2> QED BY <2>1, <2>2
<1> QED BY <1>2 DEF Numbered

(* Branches and labels are in the functions before. *)
LEMMA FuncLabels ==
  ASSUME NEW t, NEW u, NEW l, Grown(t.lines, l, u.lines), l.op = "FUNC",
         u.label = t.label, NEW ld
  PROVE  /\ Marked(t) => Marked(u)
         /\ Landings(t.lines, ld) => Landings(u.lines, ld)
<1> DEFINE s == t.lines
           r == u.lines
<1>1. /\ Len(r) = Len(s) + 1 /\ Len(s) \in Nat /\ r[Len(s) + 1] = l
      /\ \A i \in 1..Len(s) : r[i] = s[i]
      /\ \A j, i \in 1..Len(s) : NoFunc(r, j, i) <=> NoFunc(s, j, i)
  BY OneMore
<1> HIDE DEF s, r
<1>2. \A i \in 1..Len(r) : i \in 1..Len(s) \/ i = Len(s) + 1
  BY <1>1
<1>3. l.op \notin BranchOps \cup {"LABEL"} /\ \A n : ~Marks(r, Len(s) + 1, n)
  BY <1>1 DEF BranchOps, Marks
<1>4. \A j \in 1..Len(s) : \A n : Marks(r, j, n) <=> Marks(s, j, n)
  BY <1>1 DEF Marks
<1>5. ASSUME Marked(t) PROVE Marked(u)
  <2>1. \A j \in 1..Len(s) : s[j].op \in BranchOps \cup {"LABEL"} => s[j].left.n < t.label
    BY <1>5 DEF Marked, s
  <2>2. \A j, k \in 1..Len(s) :
          Marks(s, j, s[k].left.n) /\ Marks(s, k, s[k].left.n) => j = k
    BY <1>5 DEF Marked, s
  <2>3. \A j \in 1..Len(r) : r[j].op \in BranchOps \cup {"LABEL"} => r[j].left.n < u.label
    BY <1>1, <1>2, <1>3, <2>1
  <2>4. ASSUME NEW j \in 1..Len(r), NEW k \in 1..Len(r), Marks(r, j, r[k].left.n),
               Marks(r, k, r[k].left.n)
        PROVE  j = k
    <3>1. j \in 1..Len(s) /\ k \in 1..Len(s)
      BY <1>2, <1>3, <2>4
    <3>2. r[k] = s[k]
      BY <1>1, <3>1
    <3>3. Marks(s, j, s[k].left.n) /\ Marks(s, k, s[k].left.n)
      BY <1>4, <2>4, <3>1, <3>2
    <3> QED BY <2>2, <3>1, <3>3
  <2> QED BY <2>3, <2>4 DEF Marked, r
<1>6. ASSUME Landings(s, ld) PROVE Landings(r, ld)
  <2> SUFFICES ASSUME NEW i \in 1..Len(r), r[i].op \in BranchOps PROVE Landed(r, ld, i)
    BY DEF Landings
  <2>1. i \in 1..Len(s) /\ r[i] = s[i]
    BY <1>1, <1>2, <1>3
  <2>2. Landed(s, ld, i)
    BY <1>6, <2>1 DEF Landings
  <2>3. /\ i \in DOMAIN ld /\ ld[i] \in 1..Len(s) /\ Marks(s, ld[i], s[i].left.n)
        /\ NoFunc(s, i, ld[i]) /\ NoFunc(s, ld[i], i)
    BY <2>2 DEF Landed
  <2>4. ld[i] \in 1..Len(r)
    BY <1>1, <2>3
  <2>5. Marks(r, ld[i], r[i].left.n) /\ NoFunc(r, i, ld[i]) /\ NoFunc(r, ld[i], i)
    BY <1>1, <1>4, <2>1, <2>3
  <2> QED BY <2>3, <2>4, <2>5 DEF Landed
<1> QED BY <1>5, <1>6 DEF s, r

(* The line of a function. *)
LEMMA FuncIs ==
  ASSUME NEW t, NEW ld, NEW us, Idle(t, ld, us), NEW a \in Adrs, a.type = "STR", LitOK(t, a),
         NEW u, u = Emit1(t, FuncLine(a))
  PROVE  Idle(u, ld, us) /\ Good(u, {}, us) /\ u.lines # <<>>
<1> DEFINE l == FuncLine(a)
           new == <<l>>
<1>1. TSok(t) /\ t.lines \in Seq(LineSet) /\ Sound(t, us)
  BY DEF Idle, Sound, TSok
<1>2. /\ l \in LineSet /\ l.op = "FUNC" /\ l.left = a /\ l.middle = Blank /\ l.right = Blank
  <2>1. "FUNC" \in Operations /\ Blank \in Adrs
    BY PlainAdrs DEF Operations, Loud
  <2> QED BY <2>1, LineIs DEF FuncLine
<1> HIDE DEF l
<1>3. new \in Seq(LineSet) /\ u = Emit(t, new)
  BY <1>2 DEF Emit1, l
<1> HIDE DEF new
<1>4. /\ TSok(u) /\ u.lines = t.lines \o new /\ u.tmp = t.tmp /\ u.label = t.label
      /\ u.consts = t.consts /\ u.pool = t.pool /\ u.seen = t.seen /\ u.count = t.count
  BY <1>1, <1>3, EmitIs
<1>5. Grown(t.lines, l, u.lines)
  BY <1>1, <1>2, <1>4 DEF Grown, new
<1>6. l.left.type # "TMP"
  BY <1>2
<1>7. \A b : LitOK(u, b) <=> LitOK(t, b)
  BY <1>4, SamePools
<1>8. /\ Len(u.lines) = Len(t.lines) + 1 /\ Len(t.lines) \in Nat
      /\ u.lines[Len(t.lines) + 1] = l
      /\ \A i \in 1..Len(t.lines) : u.lines[i] = t.lines[i]
  BY <1>5, OneMore
<1>9. \A i \in 1..Len(u.lines) : i \in 1..Len(t.lines) \/ i = Len(t.lines) + 1
  BY <1>8
<1>10. LinesOK(u)
  <2>1. LitOK(t, l.left) /\ LitOK(t, l.middle) /\ LitOK(t, l.right)
    BY <1>2, HasBlank DEF Has
  <2> QED BY <1>1, <1>7, <1>8, <1>9, <2>1 DEF LinesOK, Sound
<1>11. Pooled(u)
  BY <1>1, <1>4 DEF Sound, Pooled, RealFree, At
<1>12. AllBacked(u.lines) /\ ("elemupdate" \notin us => WrittenOnce(u.lines))
  BY <1>1, <1>2, <1>5, <1>6, FuncBacked DEF Sound
<1>13. Sound(u, us)
  BY <1>4, <1>10, <1>11, <1>12 DEF Sound
<1>14. Numbered(u, {})
  BY <1>2, <1>5, <1>6, FuncFresh
<1>15. Marked(u) /\ Landings(u.lines, ld)
  BY <1>2, <1>4, <1>5, FuncLabels DEF Idle
<1>16. Blocks(u.lines)
  <2>1. Longer(t, u)
    BY <1>8 DEF Longer
  <2>2. \A i \in (Len(t.lines) + 1)..Len(u.lines) : i = Len(t.lines) + 1
    BY <1>8
  <2>3. \A i \in (Len(t.lines) + 1)..Len(u.lines) : u.lines[i].op # "PARAM"
    BY <1>2, <1>8, <2>2
  <2> QED BY <1>1, <1>4, <2>1, <2>3, QuietBlocks DEF Idle
<1>17. u.lines # <<>> /\ u.lines[1].op = "FUNC"
  <2>1. u.lines # <<>>
    BY <1>8
  <2>2. CASE t.lines = <<>>
    BY <1>2, <1>8, <2>2
  <2>3. CASE t.lines # <<>>
    <3>1. 1 \in 1..Len(t.lines)
      BY <1>1, <2>3
    <3> QED BY <1>8, <2>1, <2>3, <3>1 DEF Idle
  <2> QED BY <2>1, <2>2, <2>3
<1> QED BY <1>13, <1>14, <1>15, <1>16, <1>17 DEF Idle, Good
(* A variable is written where it is declared, and may be read from then on. *)
LEMMA WorkDefines ==
  ASSUME NEW t, TSok(t), NEW u, NEW P, NEW us, Works(t, u, P, us),
         NEW op \in Plain, NEW a \in Adrs, a.type = "VAR",
         NEW b, Has(u, b), NEW c, Has(u, c), NEW w, w = Emit1(u, Line(op, a, b, c))
  PROVE  Works(t, w, P, us) /\ Keeps(u, w) /\ Has(w, a)
<1> DEFINE l == Line(op, a, b, c)
<1>1. op \in Operations /\ op \notin Loud /\ op \notin Readers /\ op # "FUNC"
  BY OpsAre
<1>2. b \in Adrs /\ c \in Adrs
  BY DEF Has
<1>3. l \in LineSet /\ l.op = op /\ l.left = a /\ l.middle = b /\ l.right = c
  BY <1>1, <1>2, LineIs
<1> HIDE DEF l
<1>4. LitOK(u, l.left)
  BY <1>3, HasBlank
<1>5. Addable(u, l, P, us) /\ Spares(l, P)
  BY <1>1, <1>3, <1>4 DEF Addable, Spares
<1>6. w = Emit1(u, l) /\ P \subseteq P
  BY DEF l
<1>7. /\ Works(t, w, P, us) /\ Keeps(u, w)
      /\ l.op \notin Readers => Has(w, l.left)
  BY <1>1, <1>3, <1>5, <1>6, WorkEmits
<1> QED BY <1>1, <1>3, <1>7

(* The locals are an integer, a real and a Boolean. *)
LEMMA LocalsAre ==
  /\ DOMAIN Locals = 1..3 /\ Locals[1] = "int" /\ Locals[2] = "real" /\ Locals[3] = "bool"
  /\ \A i \in 1..3 : Locals[i] = "bool" \/ Locals[i] \in Pools
BY DEF Locals, Pools

(* A local is set to zero or false, and may be read from then on. *)
LEMMA DeclaredWorks ==
  ASSUME NEW t, TSok(t), NEW u, NEW P, NEW us, Works(t, u, P, us), NEW i \in 1..3,
         NEW w, w = Declared(u, i)
  PROVE  Works(t, w, P, us) /\ Keeps(u, w) /\ Has(w, VarAdr(i))
<1> DEFINE x == VarAdr(i)
<1>1. x \in Adrs /\ x.type = "VAR"
  BY PlainAdrs
<1>2. "FALSE" \in Plain /\ "ASIGN" \in Plain
  BY DEF Plain
<1>3. CASE Locals[i] = "bool"
  <2>1. w = Emit1(u, Line("FALSE", x, Blank, Blank))
    BY <1>3 DEF Declared, VarAdr, Emit1, Unary
  <2> HIDE DEF x
  <2>2. Has(u, Blank)
    BY HasBlank
  <2>3. Works(t, w, P, us) /\ Keeps(u, w) /\ Has(w, x)
    BY <1>1, <1>2, <2>1, <2>2, WorkDefines
  <2> QED BY <2>3 DEF x
<1>4. CASE Locals[i] # "bool"
  <2> DEFINE ty == Locals[i]
             v == Intern(u, ty, 0)
             a == AdrOf(u, ty, 0)
  <2>1. w = Emit1(v, Line("ASIGN", x, Blank, a))
    BY <1>4 DEF Declared, VarAdr, Emit1, Binary
  <2>2. ty \in Pools /\ 0 \in Vals
    BY <1>4, LocalsAre DEF Vals
  <2> HIDE DEF x, ty
  <2>3. Works(t, v, P, us) /\ Keeps(u, v) /\ Has(v, a)
    BY <2>2, WorkInterns
  <2> HIDE DEF v, a
  <2>4. Has(v, Blank)
    BY HasBlank
  <2>5. Works(t, w, P, us) /\ Keeps(v, w) /\ Has(w, x)
    BY <1>1, <1>2, <2>1, <2>3, <2>4, WorkDefines
  <2>6. Keeps(u, w)
    BY <2>3, <2>5, Chains
  <2> QED BY <2>5, <2>6 DEF x
<1> QED BY <1>3, <1>4

Locally(w) == Declared(Declared(Declared(w, 1), 2), 3)
(* The locals one after the other. *)
LEMMA AllDeclared ==
  ASSUME NEW w, NEW us, Good(w, {}, us), NEW u, u = Locally(w)
  PROVE  Works(w, u, {}, us) /\ \A i \in 1..3 : Has(u, VarAdr(i))
<1> DEFINE d1 == Declared(w, 1)
           d2 == Declared(d1, 2)
           P == {}
<1>1. TSok(w) /\ Works(w, w, P, us)
  <2>1. TSok(w) /\ Keeps(w, w)
    BY Chains DEF Good, Sound
  <2>2. Len(w.lines) \in Nat
    BY <2>1 DEF TSok
  <2> QED BY <2>1, <2>2 DEF Works, Quiet, Longer
<1> HIDE DEF P
<1>2. Works(w, d1, P, us) /\ Has(d1, VarAdr(1))
  <2>1. 1 \in 1..3
    OBVIOUS
  <2> QED BY <1>1, <2>1, DeclaredWorks
<1>3. u = Declared(d2, 3)
  BY DEF Locally
<1> HIDE DEF d1
<1>4. Works(w, d2, P, us) /\ Keeps(d1, d2) /\ Has(d2, VarAdr(2))
  <2>1. 2 \in 1..3
    OBVIOUS
  <2> QED BY <1>1, <1>2, <2>1, DeclaredWorks
<1> HIDE DEF d2
<1>5. Works(w, u, P, us) /\ Keeps(d2, u) /\ Has(u, VarAdr(3))
  <2>1. 3 \in 1..3
    OBVIOUS
  <2> QED BY <1>1, <1>3, <1>4, <2>1, DeclaredWorks
<1>6. Has(u, VarAdr(1)) /\ Has(u, VarAdr(2)) /\ Has(u, VarAdr(3))
  BY <1>2, <1>4, <1>5 DEF Keeps
<1>7. \A i \in 1..3 : i = 1 \/ i = 2 \/ i = 3
  OBVIOUS
<1> QED BY <1>5, <1>6, <1>7 DEF P

Body(g, f) == [g EXCEPT !.name = f]
(* The frame of a function, which waits for statements. *)
LEMMA BodyIs ==
  ASSUME NEW f \in Names, NEW g, g = Body(None("func"), f)
  PROVE  /\ g \in FrameSet /\ Shaped(g) /\ g.k = "func" /\ g.name = f /\ g.out.type # "TMP"
         /\ Len(g.adrs) = 0
<1> DEFINE e == None("func")
<1>1. "func" \in Kinds
  BY DEF Kinds
<1>2. Fresh(e, "func") /\ e.want = "stats" /\ Len(e.tys) = 0 /\ Len(e.adrs) = 0
  BY <1>1, FramesAre
<1> HIDE DEF e
<1>3. g = Body(e, f)
  BY DEF e
<1>4. /\ g \in FrameSet /\ g.k = "func" /\ g.name = f /\ g.out = Blank /\ g.want = "stats"
      /\ g.tys = e.tys /\ g.adrs = e.adrs /\ g.labs = <<>> /\ g.owe = 0 /\ g.field = 0
  BY <1>2, <1>3 DEF Body, FrameSet, Fresh
<1>5. g.out.type = "EMPTY"
  BY <1>4, PlainAdrs
<1>6. "stats" \notin Wants /\ "func" \notin Ops2 /\ "func" \notin FlowKinds
  BY DEF Wants, Ops2, FlowKinds
<1>7. Len(g.tys) = 0 /\ Len(g.adrs) = 0 /\ Len(g.adrs) <= Len(g.tys)
  BY <1>2, <1>4
<1>8. Shaped(g)
  BY ONLY <1>4, <1>5, <1>6, <1>7 DEF Shaped
<1> QED BY <1>4, <1>5, <1>7, <1>8

(* The frame of a function on an empty stack. *)
LEMMA FuncOpens ==
  ASSUME NEW w, NEW ld, NEW us, Idle(w, ld, us), Good(w, {}, us), w.lines # <<>>,
         NEW u, Works(w, u, {}, us),
         NEW f \in Names, f = "main" \/ "locals" \in us => \A i \in 1..3 : Has(u, VarAdr(i)),
         NEW g, g = Body(None("func"), f)
  PROVE  Inv(u, <<g>>, ld, us)
<1> DEFINE fs == <<g>>
<1>1. /\ g \in FrameSet /\ Shaped(g) /\ g.k = "func" /\ g.name = f /\ g.out.type # "TMP"
      /\ Len(g.adrs) = 0
  BY BodyIs
<1>2. fs \in Seq(FrameSet) /\ Len(fs) = 1 /\ fs[1] = g /\ fs # <<>>
  BY <1>1
<1> HIDE DEF fs
<1>3. /\ Good(u, {}, us) /\ Quiet(w, u) /\ TSok(u) /\ TSok(w) /\ Calm(w, u) /\ Longer(w, u)
  BY CalmFurther DEF Works, Good, Sound, Quiet
<1>4. Outs(fs) = {}
  <2>1. \A n : n \notin Outs(fs)
    BY <1>1, <1>2, OutsAre
  <2> QED BY <2>1
<1>5. Len(w.lines) \in Nat \ {0} /\ Len(w.lines) <= Len(u.lines) /\ u.lines # <<>>
      /\ u.lines[1] = w.lines[1] /\ u.lines[1].op = "FUNC"
  <2>1. Len(w.lines) \in Nat \ {0} /\ Len(u.lines) \in Nat
    BY <1>3 DEF TSok
  <2>2. 1 \in 1..Len(w.lines)
    BY <2>1
  <2>3. Len(w.lines) <= Len(u.lines) /\ u.lines[1] = w.lines[1]
    BY <1>3, <2>2 DEF Longer
  <2>4. u.lines # <<>>
    BY <2>1, <2>3
  <2> QED BY <2>1, <2>3, <2>4 DEF Idle
<1>6. Framed(u, fs, us)
  <2>1. Allowed(g, us)
    BY <1>1 DEF Allowed
  <2>2. Stacked1(fs)
    BY <1>1, <1>2 DEF Stacked1
  <2>3. Apart(fs)
    BY <1>1, <1>2 DEF Apart
  <2>4. \A i \in 1..Len(fs) : fs[i] = g
    BY <1>2
  <2>5. \A i \in 1..Len(fs) : \A m \in 1..Len(fs[i].adrs) : Has(u, fs[i].adrs[m])
    BY <1>1, <2>4
  <2> QED BY <1>1, <1>2, <1>5, <2>1, <2>2, <2>3, <2>4, <2>5 DEF Framed
<1>7. Blocks(u.lines)
  <2>1. \A i \in (Len(w.lines) + 1)..Len(u.lines) : u.lines[i].op # "PARAM"
    BY <1>3 DEF Quiet
  <2> QED BY <1>3, <2>1, QuietBlocks DEF Idle
<1>8. Branching(u, fs, ld)
  <2> DEFINE es == <<>>
  <2>1. Len(es) = 0
    OBVIOUS
  <2>2. Branching(w, es, ld)
    BY IdleIs DEF Inv
  <2> HIDE DEF es
  <2>3. \A i \in 1..Len(fs) : Shaped(fs[i]) /\ fs[i].k \notin FlowKinds
    BY <1>1, <1>2 DEF FlowKinds
  <2>4. SameFlow(es, fs)
    BY <2>1, <2>3 DEF SameFlow
  <2>5. Len(es) \in Nat /\ Len(fs) \in Nat /\ \A i \in 1..Len(es) : Shaped(es[i])
    BY <1>2, <2>1
  <2> QED BY <1>3, <2>2, <2>3, <2>4, <2>5, CalmBranching
<1> QED BY <1>3, <1>4, <1>5, <1>6, <1>7, <1>8 DEF Inv, Good, fs

(* A function begins, with its locals or without. *)
LEMMA StartFuncStep ==
  ASSUME Now, NEW f \in Names, StartFunc(f)
  PROVE  Inv(ts', frames', land', uses')
<1> DEFINE v == Intern(ts, "str", f)
           a == AdrOf(ts, "str", f)
           w == Emit1(v, FuncLine(a))
           g == Body(None("func"), f)
<1>1. /\ frames = <<>> /\ frames' = <<g>> /\ land' = land /\ uses' = uses
      /\ ts' = IF f = "main" \/ Uses("locals") THEN Locally(w) ELSE w
  BY DEF StartFunc, Locally, Emit1, FuncLine, Unary, Body, None
<1>2. Idle(ts, land, uses)
  BY <1>1, IdleIs DEF Now
<1>3. "str" \in Pools /\ f \in Vals
  BY DEF Pools, Vals
<1>4. /\ Sound(v, uses) /\ Quiet(ts, v) /\ Has(v, a) /\ v.lines = ts.lines
  BY <1>2, <1>3, Interns DEF Idle
<1>5. a.type = "STR"
  BY DEF AdrOf, LitType, Adr
<1> HIDE DEF v, a, g
<1>6. Idle(v, land, uses)
  <2>1. v.label = ts.label
    BY <1>4 DEF Quiet
  <2> QED BY <1>2, <1>4, <2>1 DEF Idle, Marked
<1>7. Idle(w, land, uses) /\ Good(w, {}, uses) /\ w.lines # <<>>
  BY <1>4, <1>5, <1>6, FuncIs DEF Has
<1> HIDE DEF w
<1>8. /\ Works(w, ts', {}, uses)
      /\ f = "main" \/ "locals" \in uses => \A i \in 1..3 : Has(ts', VarAdr(i))
  <2>1. CASE f = "main" \/ Uses("locals")
    BY <1>1, <1>7, <2>1, AllDeclared
  <2>2. CASE ~(f = "main" \/ Uses("locals"))
    <3>1. Keeps(w, w) /\ Quiet(w, w)
      <4>1. Len(w.lines) \in Nat
        BY <1>7 DEF Idle, Sound, TSok
      <4> QED BY <4>1, Chains DEF Quiet, Longer
    <3> QED BY <1>1, <1>7, <2>2, <3>1 DEF Works, Uses
  <2> QED BY <2>1, <2>2
<1> QED BY <1>1, <1>7, <1>8, FuncOpens DEF g
(***************************************************************************)
(* The generator keeps the invariant.                                      *)
(***************************************************************************)
(* A step inside a function: the invariant is kept and the rest stays. *)
Inside == /\ Inv(ts', frames', land', uses') /\ frames # <<>>
          /\ UNCHANGED <<phase, uses, sigs, begun>>

(* The locals and the fields are three. *)
LEMMA ThreeOfEach == DOMAIN Locals = 1..3 /\ DOMAIN Fields = 1..3
BY DEF Locals, Fields

(* The literals of a program are natural numbers. *)
LEMMA LitsAre == ASSUME NEW q, NEW v \in LitsOf(q) PROVE v \in Nat
<1>1. LitsOf(q) \subseteq IntLits \cup RealLits \cup {1}
  BY DEF LitsOf
<1>2. IntLits \subseteq Nat /\ RealLits \subseteq Nat
  BY LiteralsAssumption
<1>3. v \in IntLits \/ v \in RealLits \/ v = 1
  BY <1>1, Zenon
<1>4. 1 \in Nat
  OBVIOUS
<1> QED BY ONLY <1>2, <1>3, <1>4

(* An operand without an operator. *)
LEMMA OperandStep == ASSUME Now, Operand PROVE Inside
<1>1. CASE \E i \in DOMAIN Locals : Variable(i)
  <2> PICK i \in DOMAIN Locals : Variable(i)
    BY <1>1
  <2>1. Inv(ts', frames', land', uses')
    BY VariableStep
  <2> QED BY <2>1 DEF Inside, Variable, Waits, InCode, Rest
<1>2. CASE InCode /\ \E i \in DOMAIN Pars : Parameter(i)
  <2> PICK i \in DOMAIN Pars : Parameter(i)
    BY <1>2
  <2>1. Inv(ts', frames', land', uses')
    BY ParameterStep
  <2> QED BY <2>1 DEF Inside, Parameter, InCode, Rest
<1>3. CASE WholeArray
  <2>1. Inv(ts', frames', land', uses')
    BY <1>3, WholeArrayStep
  <2> QED BY <1>3, <2>1 DEF Inside, WholeArray, Waits, InCode, Rest
<1>4. CASE TrueValue
  <2>1. Inv(ts', frames', land', uses')
    BY <1>4, TrueValueStep
  <2> QED BY <1>4, <2>1 DEF Inside, TrueValue, Waits, InCode, Rest
<1>5. CASE \E q \in Numeric : \E v \in LitsOf(q) : Literal(q, v)
  <2> PICK q \in Numeric : \E v \in LitsOf(q) : Literal(q, v)
    BY <1>5
  <2> PICK v \in LitsOf(q) : Literal(q, v)
    OBVIOUS
  <2>1. Inv(ts', frames', land', uses')
    BY LitsAre, LiteralStep
  <2> QED BY <2>1 DEF Inside, Literal, Waits, InCode, Rest
<1>6. CASE \E c \in DOMAIN ts.consts : Constant(c)
  <2> PICK c \in DOMAIN ts.consts : Constant(c)
    BY <1>6
  <2>1. Inv(ts', frames', land', uses')
    BY ConstantStep
  <2> QED BY <2>1 DEF Inside, Constant, Waits, InCode, Rest
<1>7. CASE \E v \in LitsOf("int") : IntegerForReal(v)
  <2> PICK v \in LitsOf("int") : IntegerForReal(v)
    BY <1>7
  <2>1. Inv(ts', frames', land', uses')
    BY LitsAre, IntegerForRealStep
  <2> QED BY <2>1 DEF Inside, IntegerForReal, Waits, InCode, Rest
<1> QED BY <1>1, <1>2, <1>3, <1>4, <1>5, <1>6, <1>7 DEF Operand

(* An operator, its operands, an element or a call in an expression. *)
LEMMA OperatorStep == ASSUME Now, Operator PROVE Inside
<1>1. CASE \E ty \in Numeric, a \in Numeric, b \in Numeric : OpenArith(ty, <<a, b>>)
  <2> PICK ty \in Numeric, a \in Numeric, b \in Numeric : OpenArith(ty, <<a, b>>)
    BY <1>1
  <2>1. Inv(ts', frames', land', uses')
    BY OpenArithStep
  <2> QED BY <2>1 DEF Inside, OpenArith, Waits, InCode, Rest
<1>2. CASE \E k \in {"relop", "not"}, a \in Numeric, b \in Numeric : OpenBool(k, <<a, b>>)
  <2> PICK k \in {"relop", "not"}, a \in Numeric, b \in Numeric : OpenBool(k, <<a, b>>)
    BY <1>2
  <2>1. a \in Wants /\ b \in Wants /\ k \in {"relop", "not", "logic"}
    BY DEF Numeric, Wants
  <2>2. Inv(ts', frames', land', uses')
    BY <2>1, OpenBoolStep
  <2> QED BY <2>2 DEF Inside, OpenBool, Waits, InCode, Rest
<1>3. CASE OpenBool("logic", <<"bool", "bool">>)
  <2>1. "bool" \in Wants /\ "logic" \in {"relop", "not", "logic"}
    BY DEF Wants
  <2>2. Inv(ts', frames', land', uses')
    BY <1>3, <2>1, OpenBoolStep
  <2> QED BY <1>3, <2>2 DEF Inside, OpenBool, Waits, InCode, Rest
<1>4. CASE LeftOperand
  <2>1. Inv(ts', frames', land', uses')
    BY <1>4, LeftOperandStep
  <2> QED BY <1>4, <2>1 DEF Inside, LeftOperand, InCode, Rest
<1>5. CASE RightOperand
  <2>1. Inv(ts', frames', land', uses')
    BY <1>5, RightOperandStep
  <2> QED BY <1>5, <2>1 DEF Inside, RightOperand, InCode, Rest
<1>6. CASE InCode /\ \E base \in Bases : OpenWhole(base)
  <2> PICK base \in Bases : OpenWhole(base)
    BY <1>6
  <2>1. Inv(ts', frames', land', uses')
    BY <1>6, OpenWholeStep DEF InCode
  <2> QED BY <1>6, <2>1 DEF Inside, OpenWhole, InCode, Rest
<1>7. CASE InCode /\ \E base \in Bases, i \in DOMAIN Fields : OpenElem(base, i)
  <2> PICK base \in Bases, i \in DOMAIN Fields : OpenElem(base, i)
    BY <1>7
  <2>1. i \in 1..3
    BY ThreeOfEach
  <2>2. Inv(ts', frames', land', uses')
    BY <2>1, OpenElemStep
  <2> QED BY <2>2 DEF Inside, OpenElem, InCode, Rest
<1>8. CASE CloseElem
  <2>1. Inv(ts', frames', land', uses')
    BY <1>8, CloseElemStep
  <2> QED BY <1>8, <2>1 DEF Inside, CloseElem, Ready, InCode, Rest
<1>9. CASE \E f \in Funcs : OpenFnCall(f)
  <2> PICK f \in Funcs : OpenFnCall(f)
    BY <1>9
  <2>1. Inv(ts', frames', land', uses')
    BY OpenFnCallStep
  <2> QED BY <2>1 DEF Inside, OpenFnCall, InCode, Rest
<1> QED BY <1>1, <1>2, <1>3, <1>4, <1>5, <1>6, <1>7, <1>8, <1>9 DEF Operator

(* A statement but one with branches, at its beginning and at its end. *)
LEMMA StatementStep == ASSUME Now, Statement PROVE Inside
<1>1. CASE \E f \in Funcs : OpenCallStat(f)
  <2> PICK f \in Funcs : OpenCallStat(f)
    BY <1>1
  <2>1. Inv(ts', frames', land', uses')
    BY OpenCallStatStep
  <2> QED BY <2>1 DEF Inside, OpenCallStat, Stats, InCode, Rest
<1>2. CASE CloseCall
  <2>1. Inv(ts', frames', land', uses')
    BY <1>2, CloseCallStep
  <2> QED BY <1>2, <2>1 DEF Inside, CloseCall, InCode, Rest
<1>3. CASE \E i \in DOMAIN Locals : OpenAssign(i) \/ ReadVariable(i)
  <2> PICK i \in DOMAIN Locals : OpenAssign(i) \/ ReadVariable(i)
    BY <1>3
  <2>1. Inv(ts', frames', land', uses')
    BY OpenAssignStep, ReadVariableStep
  <2> QED BY <2>1 DEF Inside, OpenAssign, ReadVariable, Stats, InCode, Rest
<1>4. CASE \E ty \in Values : OpenStore(ty) \/ OpenReadElem(ty)
  <2> PICK ty \in Values : OpenStore(ty) \/ OpenReadElem(ty)
    BY <1>4
  <2>1. Inv(ts', frames', land', uses')
    BY OpenStoreStep, OpenReadElemStep
  <2> QED BY <2>1 DEF Inside, OpenStore, OpenReadElem, Stats, InCode, Rest
<1>5. CASE CloseAssign
  <2>1. Inv(ts', frames', land', uses')
    BY <1>5, CloseAssignStep
  <2> QED BY <1>5, <2>1 DEF Inside, CloseAssign, Ready, InCode, Rest
<1>6. CASE OpenCopy
  <2>1. Inv(ts', frames', land', uses')
    BY <1>6, OpenCopyStep
  <2> QED BY <1>6, <2>1 DEF Inside, OpenCopy, Stats, InCode, Rest
<1>7. CASE CloseCopy
  <2>1. Inv(ts', frames', land', uses')
    BY <1>7, CloseCopyStep
  <2> QED BY <1>7, <2>1 DEF Inside, CloseCopy, Ready, InCode, Rest
<1>8. CASE CloseReadElem
  <2>1. Inv(ts', frames', land', uses')
    BY <1>8, CloseReadElemStep
  <2> QED BY <1>8, <2>1 DEF Inside, CloseReadElem, Ready, InCode, Rest
<1>9. CASE \E i \in {1, 2}, ty \in Numeric : OpenUpdate(i, ty)
  <2> PICK i \in {1, 2}, ty \in Numeric : OpenUpdate(i, ty)
    BY <1>9
  <2>1. Inv(ts', frames', land', uses')
    BY OpenUpdateStep
  <2> QED BY <2>1 DEF Inside, OpenUpdate, Stats, InCode, Rest
<1>10. CASE \E ty \in Numeric : OpenUpdateElem(ty) \/ OpenPrint(ty)
  <2> PICK ty \in Numeric : OpenUpdateElem(ty) \/ OpenPrint(ty)
    BY <1>10
  <2>1. Inv(ts', frames', land', uses')
    BY OpenUpdateElemStep, OpenPrintStep
  <2> QED BY <2>1 DEF Inside, OpenUpdateElem, OpenPrint, Stats, InCode, Rest
<1>11. CASE CloseUpdate
  <2>1. Inv(ts', frames', land', uses')
    BY <1>11, CloseUpdateStep
  <2> QED BY <1>11, <2>1 DEF Inside, CloseUpdate, Ready, InCode, Rest
<1>12. CASE ClosePrint
  <2>1. Inv(ts', frames', land', uses')
    BY <1>12, ClosePrintStep
  <2> QED BY <1>12, <2>1 DEF Inside, ClosePrint, Ready, InCode, Rest
<1>13. CASE PrintLine
  <2>1. Inv(ts', frames', land', uses')
    BY <1>13, PrintLineStep
  <2> QED BY <1>13, <2>1 DEF Inside, PrintLine, Stats, InCode, Rest
<1>14. CASE \E s \in Funcs : PrintString(s)
  <2> PICK s \in Funcs : PrintString(s)
    BY <1>14
  <2>1. Inv(ts', frames', land', uses')
    BY PrintStringStep
  <2> QED BY <2>1 DEF Inside, PrintString, Stats, InCode, Rest
<1>15. CASE Return0
  <2>1. Inv(ts', frames', land', uses')
    BY <1>15, Return0Step
  <2> QED BY <1>15, <2>1 DEF Inside, Return0, Stats, InCode, Rest
<1>16. CASE OpenReturn
  <2>1. Inv(ts', frames', land', uses')
    BY <1>16, OpenReturnStep
  <2> QED BY <1>16, <2>1 DEF Inside, OpenReturn, Stats, InCode, Rest
<1>17. CASE CloseReturn
  <2>1. Inv(ts', frames', land', uses')
    BY <1>17, CloseReturnStep
  <2> QED BY <1>17, <2>1 DEF Inside, CloseReturn, Ready, InCode, Rest
<1> QED BY <1>1, <1>2, <1>3, <1>4, <1>5, <1>6, <1>7, <1>8, <1>9, <1>10, <1>11, <1>12,
           <1>13, <1>14, <1>15, <1>16, <1>17 DEF Statement

(* A statement with branches. *)
LEMMA ControlStep == ASSUME Now, Control PROVE Inside
<1>1. Inv(ts', frames', land', uses')
  BY OpenIfStep, OpenIfElseStep, OpenForStep, OpenRepeatStep, ConditionStep, ElseStep,
     CloseIfStep, CloseForStep, RepeatUntilStep, CloseRepeatStep DEF Control
<1>2. CASE OpenIf \/ OpenIfElse \/ OpenFor \/ OpenRepeat
  BY <1>1, <1>2 DEF Inside, OpenIf, OpenIfElse, OpenFor, OpenRepeat, Stats, InCode, Rest
<1>3. CASE Condition
  BY <1>1, <1>3 DEF Inside, Condition, InCode, Rest
<1>4. CASE Else
  BY <1>1, <1>4 DEF Inside, Else, Stats, InCode, Flow
<1>5. CASE CloseIf
  BY <1>1, <1>5 DEF Inside, CloseIf, Stats, InCode, Flow
<1>6. CASE CloseFor
  BY <1>1, <1>6 DEF Inside, CloseFor, Stats, InCode, Flow
<1>7. CASE RepeatUntil
  BY <1>1, <1>7 DEF Inside, RepeatUntil, Stats, InCode, Rest
<1>8. CASE CloseRepeat
  BY <1>1, <1>8 DEF Inside, CloseRepeat, Ready, InCode, Flow
<1> QED BY <1>2, <1>3, <1>4, <1>5, <1>6, <1>7, <1>8 DEF Control

(* The generator keeps the invariant. *)
LEMMA TacStep ==
  ASSUME IInv, TacNext, UNCHANGED <<cursor, frame, asm>>
  PROVE  IInv'
<1>1. Now /\ Staged /\ Framing /\ Context
  BY DEF IInv, Now
<1>2. /\ Inv(ts', frames', land', uses') /\ uses' = uses /\ sigs' = sigs
      /\ begun' \subseteq Names
      /\ phase \in {"globals", "code"}
      /\ phase' \in {"globals", "code", "done"}
      /\ frames' # <<>> => phase' = "code"
      /\ phase' = "done" => ts'.lines # <<>>
  <2>1. CASE Inside
    BY <1>1, <2>1 DEF Inside, Staged, Context
  <2>2. CASE \E q \in Numeric : \E v \in LitsOf(q) : DeclareConst(q, v)
    <3> PICK q \in Numeric : \E v \in LitsOf(q) : DeclareConst(q, v)
      BY <2>2
    <3> PICK v \in LitsOf(q) : DeclareConst(q, v)
      OBVIOUS
    <3>1. phase = "globals" /\ phase' = phase /\ uses' = uses /\ sigs' = sigs /\ begun' = begun
      BY DEF DeclareConst
    <3>2. frames = <<>>
      BY <1>1, <3>1 DEF Staged
    <3>3. Inv(ts', frames', land', uses') /\ frames' = <<>>
      BY <1>1, <3>2, DeclareConstStep
    <3> QED BY <1>1, <3>1, <3>3 DEF Context
  <2>3. CASE \E f \in Funcs \cup {"main"} : StartFunc(f)
    <3> PICK f \in Funcs \cup {"main"} : StartFunc(f)
      BY <2>3
    <3>1. f \in Names
      BY DEF Names
    <3>2. Inv(ts', frames', land', uses')
      BY <1>1, <3>1, StartFuncStep
    <3>3. /\ phase \in {"globals", "code"} /\ phase' = "code" /\ begun' = begun \cup {f}
          /\ uses' = uses /\ sigs' = sigs
      BY DEF StartFunc
    <3> QED BY <1>1, <3>1, <3>2, <3>3 DEF Context
  <2>4. CASE EndFunc
    <3>1. Inv(ts', frames', land', uses') /\ ts'.lines # <<>> /\ frames' = <<>>
      BY <1>1, <2>4, EndFuncStep
    <3>2. /\ frames # <<>> /\ phase' \in {"done", "code"}
          /\ uses' = uses /\ sigs' = sigs /\ begun' = begun
      BY <2>4 DEF EndFunc, Stats, InCode
    <3> QED BY <1>1, <3>1, <3>2 DEF Context, Staged
  <2> QED BY <1>1, <2>1, <2>2, <2>3, <2>4, OperandStep, OperatorStep, StatementStep,
             ControlStep DEF TacNext, Part
<1>3. cursor' = 0 /\ asm' = <<>> /\ asm' \in Seq(Entries) /\ frame' = frame
  BY <1>1, <1>2 DEF Staged, Framing
<1>4. Inv(ts, frames, land, uses)'
  BY <1>2
<1>5. Staged'
  BY <1>2, <1>3 DEF Staged
<1>6. Framing'
  BY <1>3 DEF Framing
<1>7. Emitted'
  BY <1>2 DEF Emitted
<1>8. Context'
  BY <1>1, <1>2, <1>3 DEF Context
<1> QED BY <1>4, <1>5, <1>6, <1>7, <1>8 DEF IInv

(* The names, the lists and the maps that a T_S begins with. *)
LEMMA InitInv == ASSUME X86Init PROVE IInv
<1> DEFINE none == <<>>
<1>1. /\ ts.lines = none /\ ts.tmp = 0 /\ ts.label = 0 /\ ts.consts = none
      /\ ts.pool = [q \in Pools |-> none] /\ ts.seen = [q \in Pools |-> none]
      /\ ts.count = [q \in Pools |-> 0]
      /\ ts = [lines |-> ts.lines, tmp |-> ts.tmp, label |-> ts.label,
               consts |-> ts.consts, pool |-> ts.pool, seen |-> ts.seen,
               count |-> ts.count]
  BY DEF X86Init, Init, Pools
<1>2. Len(none) = 0 /\ DOMAIN none = {} /\ none \in Seq(LineSet) /\ none \in Seq(Vals)
      /\ none \in Seq(Entries)
  OBVIOUS
<1> HIDE DEF none
<1>3. TSok(ts)
  BY <1>1, <1>2 DEF TSok
<1>4. Sound(ts, uses)
  <2>1. AllBacked(ts.lines) /\ LinesOK(ts) /\ WrittenOnce(ts.lines)
    BY <1>1, <1>2 DEF AllBacked, LinesOK, WrittenOnce
  <2>2. Pooled(ts)
    BY <1>1, <1>2 DEF Pooled
  <2> QED BY <1>3, <2>1, <2>2 DEF Sound
<1>5. Idle(ts, land, uses)
  <2>1. Blocks(ts.lines) /\ Marked(ts) /\ Landings(ts.lines, land)
    BY <1>1, <1>2 DEF Blocks, Marked, Landings
  <2> QED BY <1>1, <1>4, <2>1 DEF Idle, none
<1>6. frames = <<>> /\ Inv(ts, frames, land, uses)
  BY <1>5, IdleIs DEF X86Init, Init
<1>7. sigs \in [Funcs -> Signatures]
  <2> DEFINE last == [pars |-> <<"ptr", "real">>, ret |-> "none"]
  <2>1. last \in Signatures /\ last.ret = "none"
    BY DEF Signatures
  <2> HIDE DEF last
  <2>2. (CHOOSE s \in Signatures : s.ret = "none") \in Signatures
    BY <2>1
  <2> DEFINE R == IF uses \cap {"call", "fncall", "param", "return"} = {}
                  THEN {CHOOSE s \in Signatures : s.ret = "none"} ELSE Signatures
  <2>3. sigs \in [Funcs -> R]
    BY DEF X86Init, Init
  <2>4. R \subseteq Signatures
    BY <2>2
  <2> HIDE DEF R
  <2> QED BY <2>3, <2>4
<1>8. Context
  BY <1>7 DEF X86Init, Init, Context, Sizes
<1>9. asm = none /\ cursor = 0 /\ phase = "globals"
  BY DEF X86Init, Init, none
<1>10. Staged
  BY <1>6, <1>9 DEF Staged, none
<1>11. Framing
  BY <1>2, <1>9 DEF Framing, none
<1>12. Emitted
  BY <1>9 DEF Emitted
<1> QED BY <1>6, <1>8, <1>10, <1>11, <1>12 DEF IInv

(***************************************************************************)
(* What the back end finds when it looks ahead.                            *)
(***************************************************************************)
(* Lines, of which the first one begins a function. *)
Listed == Lines \in Seq(LineSet) /\ (Lines # <<>> => Lines[1].op = "FUNC")

(* The invariant says so. *)
LEMMA ListedIs == ASSUME Inv(ts, frames, land, uses) PROVE Listed /\ Count \in Nat
BY DEF Inv, Sound, TSok, Listed, Lines, Count

(* Every line has its parts. *)
LEMMA LineParts ==
  ASSUME Listed, NEW i \in 1..Count
  PROVE  /\ Lines[i] \in LineSet /\ Lines[i].op \in Operations
         /\ \A p \in Places : Lines[i][p] \in Adrs
<1>1. Lines[i] \in LineSet
  BY DEF Listed, Count
<1>2. Lines[i]["left"] \in Adrs /\ Lines[i]["middle"] \in Adrs /\ Lines[i]["right"] \in Adrs
  BY <1>1 DEF LineSet
<1> QED BY <1>1, <1>2 DEF LineSet, Places

(* The next line of some kind is the first one behind, or it is behind the last. *)
LEMMA NextOfIs ==
  ASSUME Listed, NEW i \in 1..Count, NEW ops
  PROVE  /\ NextOf(i, ops) \in (i + 1)..(Count + 1)
         /\ \A j \in (i + 1)..(NextOf(i, ops) - 1) : Lines[j].op \notin ops
         /\ NextOf(i, ops) <= Count => Lines[NextOf(i, ops)].op \in ops
<1> DEFINE after == {j \in (i + 1)..Count : Lines[j].op \in ops}
           n     == NextOf(i, ops)
<1>1. Count \in Nat /\ i \in Nat
  BY DEF Listed, Count
<1>2. after \subseteq (i + 1)..Count /\ after \subseteq Int /\ \A j \in after : i <= j
  BY <1>1
<1>3. n = IF after = {} THEN Count + 1 ELSE CHOOSE j \in after : \A k \in after : j <= k
  BY DEF NextOf
<1>4. CASE after = {}
  <2>1. n = Count + 1
    BY <1>3, <1>4
  <2>2. \A j \in (i + 1)..Count : Lines[j].op \notin ops
    BY <1>4
  <2> HIDE DEF n, after
  <2>3. n \in (i + 1)..(Count + 1) /\ n - 1 = Count /\ ~(n <= Count)
    BY <1>1, <2>1
  <2> QED BY <2>2, <2>3 DEF n
<1>5. CASE after # {}
  <2>1. \E j \in after : \A k \in after : j <= k
    <3> HIDE DEF after
    <3>1. i \in Int
      BY <1>1
    <3> QED BY ONLY <1>2, <1>5, <3>1, LeastInt
  <2>2. n \in after /\ \A k \in after : n <= k
    BY <1>3, <1>5, <2>1
  <2>3. n \in (i + 1)..Count /\ Lines[n].op \in ops
    BY <2>2
  <2>4. \A j \in (i + 1)..(n - 1) : j \in (i + 1)..Count /\ ~(n <= j)
    <3> HIDE DEF n, after
    <3> QED BY <1>1, <2>3
  <2>5. \A j \in (i + 1)..(n - 1) : Lines[j].op \notin ops
    BY <2>2, <2>4
  <2>6. n \in (i + 1)..(Count + 1)
    <3> HIDE DEF n, after
    <3> QED BY <1>1, <2>3
  <2> QED BY <2>3, <2>5, <2>6
<1> QED BY <1>4, <1>5

(* The scan for the frame leaves the cursor where it was. *)
LEMMA AfterScanIs ==
  ASSUME Listed, NEW i \in 1..Count
  PROVE  AfterScan(i) = i
<1> DEFINE stop == NextOf(i, {"FUNC"})
<1>1. Count \in Nat /\ stop \in (i + 1)..(Count + 1)
  BY NextOfIs DEF Listed, Count
<1>2. AfterScan(i) = IF stop > Count THEN Back(Count, stop - i - 1) ELSE Back(stop, stop - i)
  BY DEF AfterScan
<1> HIDE DEF stop
<1> QED BY <1>1, <1>2 DEF Back

(* So does the count of the arguments. *)
LEMMA BackIs ==
  ASSUME Listed, NEW i \in 1..Count, NEW ops
  PROVE  Back(NextOf(i, ops), NextOf(i, ops) - i) = i
<1>1. Count \in Nat /\ NextOf(i, ops) \in (i + 1)..(Count + 1)
  BY NextOfIs DEF Listed, Count
<1> QED BY <1>1 DEF Back

(* The numbers of the addresses have a bound. *)
LEMMA Bounded ==
  ASSUME Listed
  PROVE  \E b \in Nat : \A j \in 1..Count : \A p \in Places : Lines[j][p].n + 1 <= b
<1> DEFINE N(j) == Lines[j].left.n + Lines[j].middle.n + Lines[j].right.n + 1
           S == {k \in Nat : \E b \in Nat : \A j \in 1..k : \A p \in Places :
                   j <= Count => Lines[j][p].n + 1 <= b}
<1>1. \A j \in 1..Count : N(j) \in Nat /\ \A p \in Places : Lines[j][p].n + 1 <= N(j)
  <2> SUFFICES ASSUME NEW j \in 1..Count
               PROVE  N(j) \in Nat /\ \A p \in Places : Lines[j][p].n + 1 <= N(j)
    OBVIOUS
  <2>1. /\ Lines[j].left.n \in Nat /\ Lines[j].middle.n \in Nat /\ Lines[j].right.n \in Nat
    BY LineParts DEF LineSet, Adrs
  <2>2. /\ Lines[j]["left"].n + 1 <= N(j) /\ Lines[j]["middle"].n + 1 <= N(j)
        /\ Lines[j]["right"].n + 1 <= N(j) /\ N(j) \in Nat
    BY <2>1
  <2> QED BY <2>2 DEF Places
<1>2. 0 \in S
  <2>1. \A j \in 1..0 : FALSE
    OBVIOUS
  <2> QED BY <2>1
<1>3. ASSUME NEW k \in Nat, k \in S PROVE k + 1 \in S
  <2> PICK b \in Nat : \A j \in 1..k : \A p \in Places : j <= Count => Lines[j][p].n + 1 <= b
    BY <1>3
  <2> DEFINE c == IF k + 1 <= Count THEN b + N(k + 1) ELSE b
  <2> HIDE DEF N
  <2>1. Count \in Nat /\ k + 1 \in Nat
    BY DEF Listed, Count
  <2>2. c \in Nat /\ b <= c /\ (k + 1 <= Count => N(k + 1) <= c)
    BY <1>1, <2>1
  <2> HIDE DEF c
  <2>3. ASSUME NEW j \in 1..(k + 1), NEW p \in Places, j <= Count
        PROVE  Lines[j][p].n + 1 <= c
    <3>1. Lines[j][p].n \in Nat
      BY <2>1, <2>3, LineParts DEF Adrs
    <3>2. CASE j = k + 1
      <4>1. N(j) \in Nat /\ Lines[j][p].n + 1 <= N(j) /\ N(j) <= c
        BY <1>1, <2>1, <2>2, <2>3, <3>2
      <4> QED BY <2>2, <3>1, <4>1
    <3>3. CASE j # k + 1
      <4>1. j \in 1..k
        BY <3>3
      <4>2. Lines[j][p].n + 1 <= b
        BY <2>3, <4>1
      <4> QED BY <2>2, <3>1, <4>2
    <3> QED BY <3>2, <3>3
  <2> QED BY <2>1, <2>2, <2>3
<1>4. Nat \subseteq S
  <2> HIDE DEF S
  <2> QED BY <1>2, <1>3, Induct
<1>5. Count \in S
  <2>1. Count \in Nat
    BY DEF Listed, Count
  <2> HIDE DEF S
  <2> QED BY <1>4, <2>1
<1>6. \A j \in 1..Count : j <= Count
  BY DEF Listed, Count
<1> QED BY <1>5, <1>6

(* One more than the biggest number of an address of the function. *)
LEMMA HighestIs ==
  ASSUME Listed, NEW i \in 1..Count, NEW type, NEW places, places \subseteq Places
  PROVE  /\ Highest(i, type, places) \in Nat
         /\ \A j \in i..(NextOf(i, {"FUNC"}) - 1) : \A p \in places :
              Lines[j][p].type = type => Lines[j][p].n + 1 <= Highest(i, type, places)
<1> DEFINE here == i..(NextOf(i, {"FUNC"}) - 1)
           nums == UNION {{Lines[j][p].n + 1 : j \in {k \in here : Lines[k][p].type = type}} :
                            p \in places}
           h == Highest(i, type, places)
<1>1. Count \in Nat /\ i \in Nat /\ NextOf(i, {"FUNC"}) \in (i + 1)..(Count + 1)
  BY NextOfIs DEF Listed, Count
<1>2. here \subseteq 1..Count
  <2> HIDE DEF here
  <2> QED BY <1>1 DEF here
<1> HIDE DEF here
<1>3. \A n : n \in nums <=> \E p \in places : \E j \in here :
                               Lines[j][p].type = type /\ n = Lines[j][p].n + 1
  OBVIOUS
<1>4. h = IF nums = {} THEN 0 ELSE CHOOSE n \in nums : \A m \in nums : n >= m
  BY DEF Highest, here
<1> HIDE DEF nums, h
<1>5. nums \subseteq Nat
  <2> SUFFICES ASSUME NEW n \in nums PROVE n \in Nat
    OBVIOUS
  <2> PICK p \in places : \E j \in here : Lines[j][p].type = type /\ n = Lines[j][p].n + 1
    BY <1>3
  <2> PICK j \in here : Lines[j][p].type = type /\ n = Lines[j][p].n + 1
    OBVIOUS
  <2>1. Lines[j][p].n \in Nat
    BY <1>2, LineParts DEF Adrs
  <2> QED BY <2>1
<1>6. PICK b \in Nat : \A j \in 1..Count : \A p \in Places : Lines[j][p].n + 1 <= b
  BY Bounded
<1>7. \A n \in nums : n <= b
  BY <1>2, <1>3, <1>6
<1>8. CASE nums = {}
  <2>1. h = 0 /\ h \in Nat
    BY <1>4, <1>8
  <2>2. \A j \in here : \A p \in places : Lines[j][p].type # type
    <3> SUFFICES ASSUME NEW j \in here, NEW p \in places, Lines[j][p].type = type PROVE FALSE
      OBVIOUS
    <3>1. Lines[j][p].n + 1 \in nums
      BY <1>3
    <3> QED BY <1>8, <3>1
  <2> QED BY <2>1, <2>2 DEF here, h
<1>9. CASE nums # {}
  <2>1. nums \subseteq Int /\ b \in Int
    BY <1>5
  <2>2. \E n \in nums : \A m \in nums : m <= n
    BY <1>7, <1>9, <2>1, GreatestInt
  <2>3. \E n \in nums : \A m \in nums : n >= m
    BY <2>1, <2>2
  <2>4. h \in nums /\ \A m \in nums : h >= m
    BY <1>4, <1>9, <2>3
  <2>5. h \in Nat /\ \A m \in nums : m <= h
    BY <1>5, <2>4
  <2> QED BY <1>3, <2>5 DEF here, h
<1> QED BY <1>8, <1>9

(* What is reserved is a multiple of 16. *)
LEMMA Aligned == \A k \in Nat : /\ 8 * k + ((8 * k) % 16) \in Nat
                                /\ 8 * k <= 8 * k + ((8 * k) % 16)
                                /\ (8 * k + ((8 * k) % 16)) % 16 = 0
<1> SUFFICES ASSUME NEW k \in Nat
             PROVE  /\ 8 * k + ((8 * k) % 16) \in Nat
                    /\ 8 * k <= 8 * k + ((8 * k) % 16)
                    /\ (8 * k + ((8 * k) % 16)) % 16 = 0
  OBVIOUS
<1>1. \E m \in Nat : k = 2 * m \/ k = 2 * m + 1
  <2>1. k \div 2 \in Nat /\ (k = 2 * (k \div 2) \/ k = 2 * (k \div 2) + 1)
    OBVIOUS
  <2> QED BY <2>1
<1> PICK m \in Nat : k = 2 * m \/ k = 2 * m + 1
  BY <1>1
<1>2. CASE k = 2 * m
  <2>1. 8 * k = 16 * m /\ (16 * m) % 16 = 0
    BY <1>2
  <2> QED BY <2>1
<1>3. CASE k = 2 * m + 1
  <2>1. 8 * k = 16 * m + 8 /\ (16 * m + 8) % 16 = 8
    BY <1>3
  <2>2. 8 * k + 8 = 16 * (m + 1) /\ (16 * (m + 1)) % 16 = 0
    BY <2>1
  <2> QED BY <2>1, <2>2
<1> QED BY <1>2, <1>3

(* The frame of a function has room for all that was seen. *)
LEMMA FrameFromIs ==
  ASSUME Listed, NEW i \in 1..Count
  PROVE  LET f == FrameFrom(i) IN
         /\ f \in Sizes
         /\ f.in = Highest(i, "PARAM", {"left", "middle", "right"})
         /\ f.vars = Highest(i, "VAR", {"left"})
         /\ Highest(i, "TMP", {"left"}) <= f.tmps
         /\ 8 * (f.in + f.tmps + f.vars) <= f.bytes /\ f.bytes % 16 = 0
<1> DEFINE nIn   == Highest(i, "PARAM", {"left", "middle", "right"})
           nVars == Highest(i, "VAR", {"left"})
           nTmps == Highest(i, "TMP", {"left"})
           tmps  == IF nIn + nTmps + (nVars % 2) = 1 THEN nTmps + 1 ELSE nTmps
           sum   == nIn + tmps + nVars
           bytes == 8 * sum + ((8 * sum) % 16)
           f     == FrameFrom(i)
<1>1. nIn \in Nat /\ nVars \in Nat /\ nTmps \in Nat
  <2>1. {"left", "middle", "right"} \subseteq Places /\ {"left"} \subseteq Places
    BY DEF Places
  <2> QED BY <2>1, HighestIs
<1>2. f = [in |-> nIn, vars |-> nVars, tmps |-> tmps, bytes |-> bytes]
  BY DEF FrameFrom
<1> HIDE DEF nIn, nVars, nTmps, f
<1>3. tmps \in Nat /\ nTmps <= tmps
  BY <1>1
<1> HIDE DEF tmps
<1>4. sum \in Nat
  BY <1>1, <1>3
<1> HIDE DEF sum
<1>5. bytes \in Nat /\ 8 * sum <= bytes /\ bytes % 16 = 0
  BY <1>4, Aligned
<1> HIDE DEF bytes
<1>6. /\ f \in Sizes /\ f.in = nIn /\ f.vars = nVars /\ f.tmps = tmps /\ f.bytes = bytes
  BY <1>1, <1>2, <1>3, <1>5 DEF Sizes
<1> QED BY <1>3, <1>5, <1>6 DEF f, nIn, nVars, nTmps, sum

(***************************************************************************)
(* The back end keeps the invariant.                                       *)
(***************************************************************************)
(* The number of parameters up to the next call is a number. *)
LEMMA BetweenIs ==
  ASSUME Listed, NEW i \in 1..Count
  PROVE  ParamsBetween(i) \in Nat
<1> DEFINE here == {j \in (i + 1)..NextOf(i, {"CALL", "CALLVAL"}) :
                      j <= Count /\ Lines[j].op = "PARAM"}
<1>1. Count \in Nat
  BY DEF Listed, Count
<1>2. here \subseteq (i + 1)..Count
  <2>1. NextOf(i, {"CALL", "CALLVAL"}) \in (i + 1)..(Count + 1)
    BY NextOfIs
  <2> QED BY <1>1, <2>1
<1>3. IsFiniteSet((i + 1)..Count)
  BY <1>1, FS_Interval
<1> HIDE DEF here
<1>4. IsFiniteSet(here) /\ Cardinality(here) \in Nat
  BY <1>2, <1>3, FS_Subset, FS_CardinalityType
<1> QED BY <1>4 DEF ParamsBetween, here

(* What is written for a line. *)
Entry(i, reg, f) == [line |-> i, reg |-> reg, frame |-> f]

(* Where the cursor is when a line is resolved: on the line that follows. *)
LEMMA Cursor ==
  ASSUME IInv, Emitting
  PROVE  /\ Listed /\ Count \in Nat /\ asm \in Seq(Entries) /\ Len(asm) \in Nat
         /\ cursor = Len(asm) + 1 /\ cursor \in 1..Count
         /\ frames = <<>> /\ phase = "emit"
<1>1. Listed /\ Count \in Nat
  BY ListedIs DEF IInv
<1>2. asm \in Seq(Entries) /\ Len(asm) \in Nat
  BY DEF IInv, Framing
<1>3. Len(asm) <= Count
  <2>1. asm # <<>> => Len(asm) <= Count
    BY DEF IInv, Framing, LastIs
  <2>2. asm = <<>> => Len(asm) = 0
    OBVIOUS
  <2> QED BY <1>1, <2>1, <2>2
<1>4. phase = "emit" /\ cursor # 0 /\ cursor = IF Len(asm) = Count THEN 0 ELSE Len(asm) + 1
  BY DEF IInv, Emitting, Emitted
<1>5. frames = <<>>
  BY <1>4 DEF IInv, Staged
<1> QED BY <1>1, <1>2, <1>3, <1>4, <1>5

(* The function a line is in, when its frame is the one of the line before it. *)
LEMMA StillFramed ==
  ASSUME IInv, Emitting, Lines[cursor].op # "FUNC"
  PROVE  \E j \in 1..cursor : /\ Lines[j].op = "FUNC" /\ NoFunc(Lines, j, cursor)
                              /\ frame = FrameFrom(j)
<1>1. Listed /\ Count \in Nat /\ Len(asm) \in Nat /\ cursor = Len(asm) + 1
      /\ cursor \in 1..Count
  BY Cursor
<1>2. Len(asm) # 0
  <2> SUFFICES ASSUME Len(asm) = 0 PROVE FALSE
    OBVIOUS
  <2>1. cursor = 1 /\ Lines # <<>>
    BY <1>1 DEF Count
  <2> QED BY <1>1, <2>1 DEF Listed
<1>3. asm # <<>>
  BY <1>2
<1>4. PICK j \in 1..Len(asm) : /\ Lines[j].op = "FUNC" /\ NoFunc(Lines, j, Len(asm))
                               /\ frame = FrameFrom(j)
  BY <1>3 DEF IInv, Framing, LastIs
<1>5. j \in 1..cursor
  BY <1>1
<1>6. NoFunc(Lines, j, cursor)
  <2>1. \A k \in (j + 1)..cursor : k \in (j + 1)..Len(asm) \/ k = cursor
    BY <1>1
  <2> QED BY <1>4, <2>1 DEF NoFunc
<1> QED BY <1>4, <1>5, <1>6

(* What the back end looks at does not change while the lines do not. *)
LEMMA Looks ==
  ASSUME ts' = ts
  PROVE  /\ Lines' = Lines /\ Count' = Count
         /\ \A n : ParamsBetween(n)' = ParamsBetween(n) /\ FrameFrom(n)' = FrameFrom(n)
<1>1. Lines' = Lines /\ Count' = Count
  BY DEF Lines, Count
<1>2. \A n, ops : NextOf(n, ops)' = NextOf(n, ops)
  BY <1>1 DEF NextOf
<1>3. \A n : ParamsBetween(n)' = ParamsBetween(n)
  <2> TAKE n
  <2> DEFINE calls == {"CALL", "CALLVAL"}
             S == {j \in (n + 1)..NextOf(n, calls) : j <= Count /\ Lines[j].op = "PARAM"}
  <2>1. S' = S
    BY <1>1, <1>2
  <2>2. ParamsBetween(n) = Cardinality(S) /\ ParamsBetween(n)' = Cardinality(S')
    BY DEF ParamsBetween
  <2> QED BY <2>1, <2>2
<1>4. \A n, type, places : Highest(n, type, places)' = Highest(n, type, places)
  <2> TAKE n, type, places
  <2> DEFINE here == n..(NextOf(n, {"FUNC"}) - 1)
             some(p) == {k \in here : Lines[k][p].type = type}
             nums == UNION {{Lines[j][p].n + 1 : j \in some(p)} : p \in places}
  <2>1. here' = here
    BY <1>2
  <2> HIDE DEF here
  <2>2. \A x : x \in nums <=> \E p \in places : \E j \in here :
                              Lines[j][p].type = type /\ x = Lines[j][p].n + 1
    OBVIOUS
  <2>3. \A x : x \in nums' <=> \E p \in places : \E j \in here' :
                              Lines'[j][p].type = type /\ x = Lines'[j][p].n + 1
    OBVIOUS
  <2> HIDE DEF nums
  <2>4. nums' = nums
    BY <1>1, <2>1, <2>2, <2>3
  <2>5. /\ Highest(n, type, places) =
             IF nums = {} THEN 0 ELSE CHOOSE m \in nums : \A k \in nums : m >= k
        /\ Highest(n, type, places)' =
             IF nums' = {} THEN 0 ELSE CHOOSE m \in nums' : \A k \in nums' : m >= k
    BY DEF Highest, nums, here
  <2> QED BY <2>4, <2>5
<1>5. \A n : FrameFrom(n)' = FrameFrom(n)
  BY <1>4 DEF FrameFrom
<1> QED BY <1>1, <1>3, <1>5

(* A line is resolved, and the cursor goes to the one behind it. *)
LEMMA Resolved ==
  ASSUME IInv, Emitting, NEW reg \in Nat, NEW f \in Sizes, frame' = f,
         asm' = Append(asm, Entry(cursor, reg, f)), cursor' = Forward(cursor), Same,
         \E j \in 1..cursor : /\ Lines[j].op = "FUNC" /\ NoFunc(Lines, j, cursor)
                              /\ f = FrameFrom(j),
         Lines[cursor].op = "PARAM" =>
           reg = IF ParamsBetween(cursor) < NumRegs THEN ParamsBetween(cursor) + 1 ELSE 0
  PROVE  IInv'
<1>1. /\ Listed /\ Count \in Nat /\ asm \in Seq(Entries) /\ Len(asm) \in Nat
      /\ cursor = Len(asm) + 1 /\ cursor \in 1..Count
      /\ frames = <<>> /\ phase = "emit"
  BY Cursor
<1>2. PICK i : i = cursor
  OBVIOUS
<1>3. PICK l : l = Entry(cursor, reg, f)
  OBVIOUS
<1>4. l \in Entries /\ l.line = i /\ l.reg = reg /\ l.frame = f
  BY <1>1, <1>2, <1>3 DEF Entry, Entries
<1>5. asm' \in Seq(Entries) /\ Len(asm') = i /\ asm'[i] = l /\ asm' # <<>>
  BY <1>1, <1>2, <1>3, <1>4
<1>6. /\ ts' = ts /\ frames' = frames /\ land' = land /\ uses' = uses /\ phase' = phase
      /\ sigs' = sigs /\ begun' = begun
  BY DEF Same
<1>7. /\ Lines' = Lines /\ Count' = Count
      /\ \A n : ParamsBetween(n)' = ParamsBetween(n) /\ FrameFrom(n)' = FrameFrom(n)
  BY <1>6, Looks
<1>12. LastIs(i, l)'
  BY <1>1, <1>2, <1>4, <1>7 DEF LastIs
<1>13. Framing'
  <2>1. LastIs(Len(asm), asm[Len(asm)])'
    BY <1>5, <1>12 DEF LastIs
  <2> QED BY <1>5, <2>1 DEF Framing
<1>14. Emitted'
  <2>1. cursor' = IF i = Count THEN 0 ELSE i + 1
    BY <1>1, <1>2 DEF Forward
  <2> QED BY <1>5, <1>6, <1>7, <2>1 DEF Emitted
<1>15. Staged'
  BY <1>1, <1>6 DEF IInv, Staged
<1>16. Context'
  BY <1>6 DEF IInv, Context
<1>17. Inv(ts, frames, land, uses)'
  BY <1>6 DEF IInv
<1> QED BY <1>13, <1>14, <1>15, <1>16, <1>17 DEF IInv

(* The code is there, and the back end begins. *)
LEMMA StartStep == ASSUME IInv, Start PROVE IInv'
<1>1. /\ phase = "done" /\ phase' = "emit" /\ cursor' = 1
      /\ ts' = ts /\ frames' = frames /\ land' = land /\ uses' = uses
      /\ sigs' = sigs /\ begun' = begun /\ frame' = frame /\ asm' = asm
  BY DEF Start
<1>2. frames = <<>> /\ ts.lines # <<>> /\ asm = <<>> /\ asm \in Seq(Entries)
  BY <1>1 DEF IInv, Staged, Framing
<1>3. Lines \in Seq(LineSet) /\ Count \in Nat \ {0}
  <2>1. Lines \in Seq(LineSet)
    BY ListedIs DEF IInv, Listed
  <2> QED BY <1>2, <2>1 DEF Lines, Count
<1>4. Staged'
  BY <1>1, <1>2 DEF Staged
<1>5. Framing'
  BY <1>1, <1>2 DEF Framing
<1>6. Emitted'
  <2>1. Count' = Count /\ Len(asm') = 0
    BY <1>1, <1>2 DEF Count, Lines
  <2> QED BY <1>1, <1>3, <2>1 DEF Emitted
<1>7. Context' /\ Inv(ts, frames, land, uses)'
  BY <1>1 DEF IInv, Context
<1> QED BY <1>4, <1>5, <1>6, <1>7 DEF IInv

(* A function, an argument, any other line. *)
LEMMA ResolveStep ==
  ASSUME IInv, ResolveFunc \/ ResolveParam \/ ResolveOther
  PROVE  IInv'
<1>1. Emitting
  BY DEF ResolveFunc, ResolveParam, ResolveOther
<1>2. Listed /\ Count \in Nat /\ cursor \in 1..Count /\ frame \in Sizes /\ 0 \in Nat
  BY <1>1, Cursor DEF IInv, Context
<1>3. CASE ResolveFunc
  <2>1. /\ Lines[cursor].op = "FUNC" /\ frame' = FrameFrom(cursor)
        /\ asm' = Append(asm, Entry(cursor, 0, FrameFrom(cursor)))
        /\ cursor' = Forward(AfterScan(cursor)) /\ Same
    BY <1>3 DEF ResolveFunc, Written, Entry
  <2>2. FrameFrom(cursor) \in Sizes /\ AfterScan(cursor) = cursor
    BY <1>2, FrameFromIs, AfterScanIs
  <2>3. /\ cursor \in 1..cursor /\ NoFunc(Lines, cursor, cursor)
        /\ FrameFrom(cursor) = FrameFrom(cursor)
    BY <1>2 DEF NoFunc
  <2>4. Lines[cursor].op # "PARAM"
    BY <2>1
  <2>5. \E j \in 1..cursor : /\ Lines[j].op = "FUNC" /\ NoFunc(Lines, j, cursor)
                             /\ FrameFrom(cursor) = FrameFrom(j)
    BY <2>1, <2>3
  <2> QED BY <1>1, <1>2, <2>1, <2>2, <2>4, <2>5, Resolved
<1>4. CASE ResolveParam
  <2> DEFINE k   == ParamsBetween(cursor)
             reg == IF k < NumRegs THEN k + 1 ELSE 0
  <2>1. /\ Lines[cursor].op = "PARAM" /\ frame' = frame
        /\ asm' = Append(asm, Entry(cursor, reg, frame)) /\ Same
        /\ cursor' = Forward(Back(NextOf(cursor, {"CALL", "CALLVAL"}),
                                  NextOf(cursor, {"CALL", "CALLVAL"}) - cursor))
    BY <1>4 DEF ResolveParam, Written, Entry
  <2>2. cursor' = Forward(cursor)
    BY <1>2, <2>1, BackIs
  <2>3. reg \in Nat
    BY <1>2, BetweenIs
  <2>4. Lines[cursor].op # "FUNC"
    BY <2>1
  <2>5. \E j \in 1..cursor : /\ Lines[j].op = "FUNC" /\ NoFunc(Lines, j, cursor)
                             /\ frame = FrameFrom(j)
    BY <1>1, <2>4, StillFramed
  <2>6. reg = IF ParamsBetween(cursor) < NumRegs THEN ParamsBetween(cursor) + 1 ELSE 0
    OBVIOUS
  <2> HIDE DEF reg
  <2> QED BY <1>1, <1>2, <2>1, <2>2, <2>3, <2>5, <2>6, Resolved
<1>5. CASE ResolveOther
  <2>1. /\ Lines[cursor].op \notin {"FUNC", "PARAM"} /\ frame' = frame
        /\ asm' = Append(asm, Entry(cursor, 0, frame)) /\ Same
        /\ cursor' = Forward(cursor)
    BY <1>5 DEF ResolveOther, Written, Entry
  <2>2. Lines[cursor].op # "FUNC" /\ Lines[cursor].op # "PARAM"
    BY <2>1
  <2>3. \E j \in 1..cursor : /\ Lines[j].op = "FUNC" /\ NoFunc(Lines, j, cursor)
                             /\ frame = FrameFrom(j)
    BY <1>1, <2>2, StillFramed
  <2> QED BY <1>1, <1>2, <2>1, <2>2, <2>3, Resolved
<1> QED BY <1>3, <1>4, <1>5

(* Nothing happens. *)
LEMMA IdleStep == ASSUME IInv, UNCHANGED vars PROVE IInv'
<1>1. /\ ts' = ts /\ frames' = frames /\ land' = land /\ uses' = uses /\ phase' = phase
      /\ sigs' = sigs /\ begun' = begun /\ cursor' = cursor /\ frame' = frame /\ asm' = asm
  BY DEF vars
<1>2. /\ Lines' = Lines /\ Count' = Count
      /\ \A n : ParamsBetween(n)' = ParamsBetween(n) /\ FrameFrom(n)' = FrameFrom(n)
  BY <1>1, Looks
<1>3. Framing'
  <2> PICK n : n = Len(asm)
    OBVIOUS
  <2> PICK l : l = asm[n]
    OBVIOUS
  <2>1. asm # <<>> => LastIs(n, l)
    BY DEF IInv, Framing
  <2>2. asm # <<>> => LastIs(n, l)'
    BY <1>1, <1>2, <2>1 DEF LastIs
  <2>3. asm # <<>> => LastIs(Len(asm), asm[Len(asm)])'
    BY <1>1, <2>2 DEF LastIs
  <2> QED BY <1>1, <2>3 DEF IInv, Framing
<1>4. Staged' /\ Emitted' /\ Context'
  BY <1>1, <1>2 DEF IInv, Staged, Emitted, Context
<1>5. Inv(ts, frames, land, uses)'
  BY <1>1 DEF IInv
<1> QED BY <1>3, <1>4, <1>5 DEF IInv

(* Every step of the generator and of the back end keeps the invariant. *)
THEOREM Invariance == Spec => []IInv
<1>1. X86Init => IInv
  BY InitInv
<1>2. IInv /\ [Next]_vars => IInv'
  <2> SUFFICES ASSUME IInv, [Next]_vars PROVE IInv'
    OBVIOUS
  <2>1. CASE TacNext /\ UNCHANGED <<cursor, frame, asm>>
    BY <2>1, TacStep
  <2>2. CASE Start
    BY <2>2, StartStep
  <2>3. CASE ResolveFunc \/ ResolveParam \/ ResolveOther
    BY <2>3, ResolveStep
  <2>4. CASE Finished \/ UNCHANGED vars
    BY <2>4, IdleStep DEF Finished
  <2> QED BY <2>1, <2>2, <2>3, <2>4 DEF Next
<1> QED BY <1>1, <1>2, PTL DEF Spec

(***************************************************************************)
(* What follows from the invariant.                                        *)
(***************************************************************************)
(* No more is written than there are lines. *)
LEMMA NotPast == ASSUME IInv PROVE Len(asm) \in Nat /\ Count \in Nat /\ Len(asm) <= Count
<1>1. Count \in Nat /\ asm \in Seq(Entries) /\ Len(asm) \in Nat
  BY ListedIs DEF IInv, Framing
<1>2. asm # <<>> => Len(asm) <= Count
  BY DEF IInv, Framing, LastIs
<1>3. asm = <<>> => Len(asm) = 0
  OBVIOUS
<1> QED BY <1>1, <1>2, <1>3

(* The types follow from it. *)
LEMMA TypesFollow == ASSUME IInv PROVE TypeOK
<1>1. Listed /\ TSok(ts) /\ Framed(ts, frames, uses) /\ Staged /\ Context
  BY ListedIs DEF IInv, Inv, Sound
<1>2. \A a \in Adrs : AdrOK(a)
  BY DEF Adrs, AdrOK, AdrTypes
<1>3. \A i \in 1..Count, p \in Places : AdrOK(Lines[i][p])
  BY <1>1, <1>2, LineParts
<1>4. ASSUME NEW f \in ToSet(frames) PROVE AdrOK(f.out) /\ \A a \in ToSet(f.adrs) : AdrOK(a)
  <2>1. frames \in Seq(FrameSet)
    BY <1>1 DEF Framed
  <2>2. f \in FrameSet
    BY <2>1 DEF ToSet
  <2>3. f.out \in Adrs /\ f.adrs \in Seq(Adrs)
    BY <2>2 DEF FrameSet
  <2>4. \A a \in ToSet(f.adrs) : a \in Adrs
    BY <2>3 DEF ToSet
  <2> QED BY <1>2, <2>3, <2>4
<1>5. ts.tmp \in Nat /\ ts.label \in Nat
  BY <1>1 DEF TSok
<1>6. \A q \in DOMAIN ts.seen : \A k \in DOMAIN ts.seen[q] : ts.seen[q][k] < ts.count[q]
  <2>1. ts.seen = [q \in Pools |-> ts.seen[q]]
    BY <1>1 DEF TSok
  <2>2. DOMAIN ts.seen = Pools
    BY <2>1
  <2> QED BY <1>1, <2>2 DEF TSok
<1>7. Len(asm) \in Nat /\ Count \in Nat /\ Len(asm) <= Count
  BY NotPast
<1>8. cursor \in 0..Count
  <2>1. phase # "emit" => cursor = 0
    BY <1>1 DEF Staged
  <2>2. phase = "emit" => cursor = IF Len(asm) = Count THEN 0 ELSE Len(asm) + 1
    BY DEF IInv, Emitted
  <2> QED BY <1>7, <2>1, <2>2
<1>9. begun \subseteq Funcs \cup {"main"}
  BY <1>1 DEF Context, Names
<1> QED BY <1>1, <1>3, <1>4, <1>5, <1>6, <1>7, <1>8, <1>9
           DEF TypeOK, Staged, Context, Sizes

(* So does the order in which the lines are resolved. *)
LEMMA OrderFollows == ASSUME IInv PROVE EachLineOnce
<1>1. asm # <<>> => LastIs(Len(asm), asm[Len(asm)]) /\ Last(asm) = asm[Len(asm)]
  BY DEF IInv, Framing, Last
<1>2. asm # <<>> => Last(asm).line = Len(asm)
  BY <1>1 DEF LastIs
<1> QED BY <1>2 DEF IInv, Emitted, EachLineOnce

(* Between an argument and its call there are the arguments before it. *)
LEMMA ToTheCall ==
  ASSUME IInv, NEW i \in 1..Count, Lines[i].op = "PARAM", NEW k, k = Lines[i].ref[3]
  PROVE  /\ k \in Nat \ {0} /\ NextOf(i, CallOps) = i + k /\ i + k <= Count
         /\ Lines[i + k].ref = Front(Lines[i].ref)
         /\ \A j \in i..(i + k - 1) : Lines[j].op = "PARAM"
         /\ ParamsBetween(i) = k - 1
<1>1. Listed /\ Count \in Nat /\ i \in Nat /\ i \in 1..Len(ts.lines)
  BY ListedIs DEF IInv, Count, Lines
<1>2. InBlock(ts.lines, i)
  BY <1>1 DEF IInv, Inv, Blocks, Lines
<1>3. /\ k \in 1..(Count - i) /\ Lines[i + k].op \in CallOps
      /\ Lines[i + k].ref = Front(Lines[i].ref)
      /\ \A j \in i..(i + k - 1) : Lines[j].op = "PARAM"
  BY <1>2 DEF InBlock, Lines, Count
<1>4. k \in Nat \ {0} /\ i + k <= Count
  BY <1>1, <1>3
<1> DEFINE n == NextOf(i, CallOps)
<1>5. /\ n \in (i + 1)..(Count + 1)
      /\ \A j \in (i + 1)..(n - 1) : Lines[j].op \notin CallOps
      /\ n <= Count => Lines[n].op \in CallOps
  BY <1>1, NextOfIs
<1> HIDE DEF n
<1>6. n = i + k
  <2>1. CASE n < i + k
    <3>1. n <= Count /\ n \in i..(i + k - 1)
      BY <1>1, <1>4, <1>5, <2>1
    <3>2. Lines[n].op = "PARAM" /\ Lines[n].op \in CallOps
      BY <1>3, <1>5, <3>1
    <3> QED BY <3>2 DEF CallOps
  <2>2. CASE i + k < n
    <3>1. i + k \in (i + 1)..(n - 1)
      <4>1. n \in Int
        BY <1>1, <1>5
      <4> QED BY ONLY <1>1, <1>4, <2>2, <4>1
    <3> QED BY <1>3, <1>5, <3>1
  <2> QED BY <1>1, <1>4, <1>5, <2>1, <2>2
<1>7. ParamsBetween(i) = k - 1
  <2> DEFINE here == {j \in (i + 1)..n : j <= Count /\ Lines[j].op = "PARAM"}
  <2>1. ParamsBetween(i) = Cardinality(here)
    BY DEF ParamsBetween, n, CallOps
  <2>2. Lines[n].op # "PARAM"
    BY <1>3, <1>6 DEF CallOps
  <2>3. here = (i + 1)..(i + k - 1)
    <3>1. ASSUME NEW j \in here PROVE j \in (i + 1)..(i + k - 1)
      <4>1. j \in (i + 1)..n /\ j # n
        BY <2>2
      <4> QED BY ONLY <1>1, <1>4, <1>6, <4>1
    <3>2. ASSUME NEW j \in (i + 1)..(i + k - 1)
          PROVE  j \in (i + 1)..n /\ j <= Count /\ j \in i..(i + k - 1)
      BY ONLY <1>1, <1>4, <1>6, <3>2
    <3>3. \A j \in (i + 1)..(i + k - 1) : j \in here
      BY <1>3, <3>2
    <3> QED BY <3>1, <3>3
  <2> HIDE DEF here
  <2>4. Cardinality((i + 1)..(i + k - 1)) = k - 1
    <3>1. i + 1 \in Int /\ i + k - 1 \in Int
      BY <1>1, <1>4
    <3>2. Cardinality((i + 1)..(i + k - 1)) =
            IF i + 1 > i + k - 1 THEN 0 ELSE (i + k - 1) - (i + 1) + 1
      BY <3>1, FS_Interval
    <3>3. CASE k = 1
      BY ONLY <1>1, <1>4, <3>2, <3>3
    <3>4. CASE k # 1
      <4>1. ~(i + 1 > i + k - 1) /\ (i + k - 1) - (i + 1) + 1 = k - 1
        BY ONLY <1>1, <1>4, <3>4
      <4> QED BY <3>2, <4>1
    <3> QED BY <3>3, <3>4
  <2> QED BY <2>1, <2>3, <2>4
<1> QED BY <1>3, <1>4, <1>6, <1>7 DEF n

(* So does that the arguments are where the call looks for them. *)
LEMMA ArgumentsFollow == ASSUME IInv PROVE ArgumentsArrive
<1> SUFFICES ASSUME asm # <<>>, Lines[Last(asm).line].op = "PARAM"
             PROVE  LET i    == Last(asm).line
                        k    == Lines[i].ref[3]
                        call == NextOf(i, {"CALL", "CALLVAL"})
                    IN  /\ k <= NumRegs => Last(asm).reg = k
                        /\ call <= Count /\ Lines[call].ref = Front(Lines[i].ref)
                        /\ \A j \in i..(call - 1) : Lines[j].op = "PARAM"
  BY DEF ArgumentsArrive
<1> DEFINE i == Last(asm).line
           k == Lines[i].ref[3]
<1>1. Len(asm) \in Nat /\ Count \in Nat /\ Len(asm) <= Count
  BY NotPast
<1>2. LastIs(Len(asm), asm[Len(asm)]) /\ Last(asm) = asm[Len(asm)]
  BY DEF IInv, Framing, Last
<1>3. i = Len(asm)
  BY <1>2 DEF LastIs
<1>4. i \in 1..Count /\ Lines[i].op = "PARAM"
  <2>1. Len(asm) # 0
    BY DEF IInv, Framing
  <2> HIDE DEF i
  <2> QED BY <1>1, <1>3, <2>1 DEF i
<1>5. Last(asm).reg = IF ParamsBetween(i) < NumRegs THEN ParamsBetween(i) + 1 ELSE 0
  BY <1>2, <1>3, <1>4 DEF LastIs
<1>6. /\ k \in Nat \ {0} /\ NextOf(i, CallOps) = i + k /\ i + k <= Count
      /\ Lines[i + k].ref = Front(Lines[i].ref)
      /\ \A j \in i..(i + k - 1) : Lines[j].op = "PARAM"
      /\ ParamsBetween(i) = k - 1
  BY <1>4, ToTheCall
<1>7. NextOf(i, {"CALL", "CALLVAL"}) = i + k
  BY <1>6 DEF CallOps
<1>8. k <= NumRegs => Last(asm).reg = k
  <2>1. k - 1 < NumRegs <=> k <= NumRegs
    BY ONLY <1>6, NumRegsAssumption
  <2>2. (k - 1) + 1 = k
    BY ONLY <1>6
  <2> HIDE DEF i, k
  <2> QED BY <1>5, <1>6, <2>1, <2>2
<1> DEFINE call == NextOf(i, {"CALL", "CALLVAL"})
<1>9. call = i + k
  BY <1>7
<1> HIDE DEF i, k, call
<1>10. /\ k <= NumRegs => Last(asm).reg = k
       /\ call <= Count /\ Lines[call].ref = Front(Lines[i].ref)
       /\ \A j \in i..(call - 1) : Lines[j].op = "PARAM"
  BY <1>1, <1>4, <1>6, <1>8, <1>9
<1> QED BY <1>10 DEF i, k, call

(* A line of the function at j0 is before the function after it. *)
LEMMA BeforeNext ==
  ASSUME Listed, NEW j0 \in 1..Count, NEW i \in j0..Count, NoFunc(Lines, j0, i),
         NEW j \in j0..i
  PROVE  j \in j0..(NextOf(j0, {"FUNC"}) - 1)
<1> DEFINE n == NextOf(j0, {"FUNC"})
<1>1. Count \in Nat /\ n \in (j0 + 1)..(Count + 1) /\ (n <= Count => Lines[n].op = "FUNC")
  BY NextOfIs DEF Listed, Count
<1> HIDE DEF n
<1>2. i < n
  <2> SUFFICES ASSUME n <= i PROVE FALSE
    BY <1>1
  <2>1. n \in (j0 + 1)..i /\ n <= Count
    BY <1>1
  <2> QED BY <1>1, <2>1 DEF NoFunc
<1>3. j \in j0..(n - 1)
  BY <1>1, <1>2
<1> QED BY <1>3 DEF n

(* A variable or a temporary that a line uses is on the left of a line of its
   function, where the frame is guessed from. *)
LEMMA OnTheLeft ==
  ASSUME Listed, AllBacked(Lines), NEW i \in 1..Count, NEW j0 \in 1..i,
         Lines[j0].op = "FUNC", NoFunc(Lines, j0, i), NEW p \in Places,
         Lines[i][p].type \in Kept
  PROVE  \E j \in j0..i : Lines[j].left.type = Lines[i][p].type /\ Lines[j].left.n = Lines[i][p].n
<1>1. Count \in Nat /\ i \in 1..Len(Lines)
  BY DEF Listed, Count
<1>2. CASE p = "left"
  <2>1. i \in j0..i /\ Lines[i].left = Lines[i][p]
    BY <1>2
  <2> QED BY <2>1
<1>3. CASE p # "left"
  <2>1. Backed(Lines, Lines[i][p], i)
    <3>1. Backed(Lines, Lines[i].middle, i) /\ Backed(Lines, Lines[i].right, i)
      BY <1>1 DEF AllBacked
    <3>2. p = "middle" \/ p = "right"
      BY <1>3 DEF Places
    <3> QED BY <3>1, <3>2
  <2>2. PICK j \in 1..(i - 1) : Defines(Lines, j, Lines[i][p]) /\ NoFunc(Lines, j, i)
    BY <2>1 DEF Backed
  <2>3. ~(j < j0)
    <3> SUFFICES ASSUME j < j0 PROVE FALSE
      OBVIOUS
    <3>1. j0 \in (j + 1)..i
      OBVIOUS
    <3> QED BY <2>2, <3>1 DEF NoFunc
  <2>4. j \in j0..i
    BY <2>3
  <2> QED BY <2>2, <2>4 DEF Defines
<1> QED BY <1>2, <1>3

(* Every operand of a line has its place in the frame of its function. *)
LEMMA InFrame ==
  ASSUME Listed, AllBacked(Lines), NEW i \in 1..Count, NEW j0 \in 1..i,
         Lines[j0].op = "FUNC", NoFunc(Lines, j0, i), NEW p \in Places,
         NEW a, a = Lines[i][p], a.type \in Stacked, NEW f, f = FrameFrom(j0)
  PROVE  /\ 8 * (Slot(a, f) + 1) <= f.bytes
         /\ a.type = "PARAM" => a.n < f.in
         /\ a.type = "VAR"   => a.n < f.vars
<1>1. Count \in Nat /\ j0 \in 1..Count /\ i \in j0..Count /\ i \in j0..i
  BY DEF Listed, Count
<1>2. /\ f \in Sizes /\ f.in = Highest(j0, "PARAM", {"left", "middle", "right"})
      /\ f.vars = Highest(j0, "VAR", {"left"})
      /\ Highest(j0, "TMP", {"left"}) <= f.tmps
      /\ 8 * (f.in + f.tmps + f.vars) <= f.bytes
  BY <1>1, FrameFromIs
<1>3. /\ {"left", "middle", "right"} \subseteq Places /\ {"left"} \subseteq Places
      /\ p \in {"left", "middle", "right"}
  BY DEF Places
<1>4. a \in Adrs /\ a.n \in Nat
  BY LineParts DEF Adrs
<1>5. f.in \in Nat /\ f.vars \in Nat /\ f.tmps \in Nat /\ f.bytes \in Nat
  BY <1>2 DEF Sizes
<1>6. \A type : a.type = type /\ type \in Kept => a.n + 1 <= Highest(j0, type, {"left"})
  <2> SUFFICES ASSUME NEW type, a.type = type, type \in Kept
               PROVE  a.n + 1 <= Highest(j0, type, {"left"})
    OBVIOUS
  <2>1. PICK j \in j0..i : Lines[j].left.type = a.type /\ Lines[j].left.n = a.n
    BY OnTheLeft
  <2>2. j \in j0..(NextOf(j0, {"FUNC"}) - 1)
    BY <1>1, BeforeNext
  <2>3. Lines[j]["left"].type = type /\ Lines[j]["left"].n = a.n /\ "left" \in {"left"}
    BY <2>1
  <2> QED BY <1>1, <1>3, <2>2, <2>3, HighestIs
<1>7. CASE a.type = "PARAM"
  <2>1. i \in j0..(NextOf(j0, {"FUNC"}) - 1)
    BY <1>1, BeforeNext
  <2>2. a.n + 1 <= f.in
    BY <1>1, <1>2, <1>3, <1>7, <2>1, HighestIs
  <2>3. Slot(a, f) = a.n
    BY <1>7 DEF Slot
  <2>4. 8 * (a.n + 1) <= f.bytes /\ a.n < f.in
    BY ONLY <1>2, <1>4, <1>5, <2>2
  <2> QED BY <1>7, <2>3, <2>4
<1>8. CASE a.type = "VAR"
  <2>1. a.n + 1 <= f.vars
    BY <1>2, <1>6, <1>8 DEF Kept
  <2>2. Slot(a, f) = f.in + a.n
    BY <1>8 DEF Slot
  <2>3. 8 * (f.in + a.n + 1) <= f.bytes /\ a.n < f.vars
    BY ONLY <1>2, <1>4, <1>5, <2>1
  <2> QED BY <1>8, <2>2, <2>3
<1>9. CASE a.type = "TMP"
  <2>1. a.n + 1 <= Highest(j0, "TMP", {"left"}) /\ Highest(j0, "TMP", {"left"}) \in Nat
    BY <1>1, <1>3, <1>6, <1>9, HighestIs DEF Kept
  <2>2. a.n + 1 <= f.tmps
    BY ONLY <1>2, <1>4, <1>5, <2>1
  <2>3. Slot(a, f) = f.in + f.vars + a.n
    BY <1>9 DEF Slot
  <2>4. 8 * (f.in + f.vars + a.n + 1) <= f.bytes
    BY ONLY <1>2, <1>4, <1>5, <2>2
  <2> QED BY <1>9, <2>3, <2>4
<1> QED BY <1>7, <1>8, <1>9 DEF Stacked

(* So the frame holds what is in it. *)
LEMMA FrameFollows == ASSUME IInv PROVE FrameHolds
<1> SUFFICES ASSUME asm # <<>>
             PROVE  LET l == Lines[Last(asm).line]
                        f == Last(asm).frame
                    IN  /\ f.bytes % 16 = 0
                        /\ \A p \in Places : l[p].type \in Stacked =>
                             /\ 8 * (Slot(l[p], f) + 1) <= f.bytes
                             /\ l[p].type = "PARAM" => l[p].n < f.in
                             /\ l[p].type = "VAR"   => l[p].n < f.vars
  BY DEF FrameHolds
<1> DEFINE i == Last(asm).line
           f == Last(asm).frame
<1>1. Listed /\ AllBacked(Lines) /\ Len(asm) \in Nat /\ Count \in Nat /\ Len(asm) <= Count
  BY NotPast, ListedIs DEF IInv, Inv, Sound, Lines
<1>2. LastIs(Len(asm), asm[Len(asm)]) /\ Last(asm) = asm[Len(asm)]
  BY DEF IInv, Framing, Last
<1>3. i = Len(asm) /\ f = frame
  BY <1>2 DEF LastIs
<1>4. Len(asm) # 0
  BY DEF IInv, Framing
<1> HIDE DEF i, f
<1>5. i \in 1..Count
  BY <1>1, <1>3, <1>4
<1>6. PICK j0 \in 1..i : Lines[j0].op = "FUNC" /\ NoFunc(Lines, j0, i) /\ f = FrameFrom(j0)
  BY <1>2, <1>3 DEF LastIs
<1>7. f.bytes % 16 = 0
  <2>1. j0 \in 1..Count
    BY <1>1, <1>5
  <2> QED BY <1>1, <1>6, <2>1, FrameFromIs
<1>8. ASSUME NEW p \in Places, Lines[i][p].type \in Stacked
      PROVE  /\ 8 * (Slot(Lines[i][p], f) + 1) <= f.bytes
             /\ Lines[i][p].type = "PARAM" => Lines[i][p].n < f.in
             /\ Lines[i][p].type = "VAR"   => Lines[i][p].n < f.vars
  BY <1>1, <1>5, <1>6, <1>8, InFrame
<1> QED BY <1>7, <1>8 DEF i, f

(***************************************************************************)
(* The functions of the lines.                                             *)
(***************************************************************************)
(* The function of a line is the one that begins last before it. *)
LEMMA FuncOfIs ==
  ASSUME Listed, NEW i \in 1..Count
  PROVE  /\ FuncOf(i) \in 1..i /\ Lines[FuncOf(i)].op = "FUNC" /\ NoFunc(Lines, FuncOf(i), i)
         /\ \A j \in 1..i : Lines[j].op = "FUNC" /\ NoFunc(Lines, j, i) => j = FuncOf(i)
<1> DEFINE T == {j \in 1..i : Lines[j].op = "FUNC"}
           P(j) == Lines[j].op = "FUNC" /\ \A k \in (j + 1)..i : Lines[k].op # "FUNC"
<1>1. Count \in Nat /\ 1 \in 1..i /\ Lines # <<>>
  BY DEF Listed, Count
<1>2. 1 \in T
  BY <1>1 DEF Listed
<1>3. T \subseteq Int /\ (\A t \in T : t <= i) /\ i \in Int
  OBVIOUS
<1>4. PICK j \in T : \A k \in T : k <= j
  <2> HIDE DEF T
  <2> QED BY <1>2, <1>3, GreatestInt
<1>5. j \in 1..i /\ P(j)
  <2>1. \A k \in (j + 1)..i : k \in 1..i /\ ~(k <= j)
    OBVIOUS
  <2> QED BY <1>4, <2>1
<1>6. FuncOf(i) = CHOOSE x \in 1..i : P(x)
  BY DEF FuncOf
<1>7. FuncOf(i) \in 1..i /\ P(FuncOf(i))
  <2> HIDE DEF P
  <2> QED BY <1>5, <1>6
<1>8. ASSUME NEW x \in 1..i, P(x), NEW y \in 1..i, P(y) PROVE x = y
  <2>1. CASE x < y
    <3>1. y \in (x + 1)..i
      BY <2>1
    <3> QED BY <1>8, <3>1
  <2>2. CASE y < x
    <3>1. x \in (y + 1)..i
      BY <2>2
    <3> QED BY <1>8, <3>1
  <2> QED BY <2>1, <2>2
<1>9. \A x : NoFunc(Lines, x, i) <=> \A k \in (x + 1)..i : Lines[k].op # "FUNC"
  BY DEF NoFunc
<1> QED BY <1>7, <1>8, <1>9

(* Lines with no beginning of a function between them are in the same one. *)
LEMMA SameFunc ==
  ASSUME Listed, NEW i \in 1..Count, NEW j \in 1..i
  PROVE  FuncOf(j) = FuncOf(i) <=> NoFunc(Lines, j, i)
<1>1. Count \in Nat /\ j \in 1..Count
  BY DEF Listed, Count
<1>2. /\ FuncOf(j) \in 1..j /\ Lines[FuncOf(j)].op = "FUNC" /\ NoFunc(Lines, FuncOf(j), j)
      /\ FuncOf(i) \in 1..i /\ Lines[FuncOf(i)].op = "FUNC" /\ NoFunc(Lines, FuncOf(i), i)
  BY <1>1, FuncOfIs
<1>3. ASSUME NoFunc(Lines, j, i) PROVE FuncOf(j) = FuncOf(i)
  <2>1. FuncOf(j) \in 1..i
    BY <1>2
  <2>2. \A k \in (FuncOf(j) + 1)..i : k \in (FuncOf(j) + 1)..j \/ k \in (j + 1)..i
    BY <1>2
  <2>3. NoFunc(Lines, FuncOf(j), i)
    BY <1>2, <1>3, <2>2 DEF NoFunc
  <2> QED BY <1>2, <2>1, <2>3, FuncOfIs
<1>4. ASSUME FuncOf(j) = FuncOf(i) PROVE NoFunc(Lines, j, i)
  <2>1. \A k \in (j + 1)..i : k \in (FuncOf(i) + 1)..i
    BY <1>2, <1>4
  <2> QED BY <1>2, <2>1 DEF NoFunc
<1> QED BY <1>3, <1>4

(* What holds when the code is there. *)
LEMMA WhenGenerated ==
  ASSUME IInv, Generated
  PROVE  Idle(ts, land, uses) /\ Listed /\ Count \in Nat
<1>1. frames = <<>>
  BY DEF IInv, Staged, Generated
<1> QED BY <1>1, IdleIs, ListedIs DEF IInv

(* Then every branch has landed. *)
LEMMA BranchesFollow == ASSUME IInv PROVE BranchesLand
<1> SUFFICES ASSUME Generated, NEW i \in Branches
             PROVE  /\ DefsOf(Lines[i].left.n) = {land[i]}
                    /\ FuncOf(i) = FuncOf(land[i])
  BY DEF BranchesLand
<1>1. Marked(ts) /\ Landings(Lines, land) /\ Listed /\ Count \in Nat
  BY WhenGenerated DEF Idle, Lines
<1>2. i \in 1..Count /\ Lines[i].op \in BranchOps
  BY DEF Branches, BranchOps
<1> DEFINE l == land[i]
           n == Lines[i].left.n
<1>3. /\ l \in 1..Count /\ Marks(Lines, l, n)
      /\ NoFunc(Lines, i, l) /\ NoFunc(Lines, l, i)
  BY <1>1, <1>2 DEF Landings, Landed, Count
<1> HIDE DEF l, n
<1>4. \A j \in 1..Count : Marks(Lines, j, n) => j = l
  <2> SUFFICES ASSUME NEW j \in 1..Count, Marks(Lines, j, n) PROVE j = l
    OBVIOUS
  <2>1. Lines[l].left.n = n
    BY <1>3 DEF Marks
  <2>2. Marks(Lines, j, Lines[l].left.n) /\ Marks(Lines, l, Lines[l].left.n)
    BY <1>3, <2>1
  <2> QED BY <1>1, <1>3, <2>2 DEF Marked, Lines, Count
<1>5. \A j : j \in DefsOf(n) <=> j \in 1..Count /\ Marks(Lines, j, n)
  BY DEF DefsOf, Marks
<1>6. DefsOf(n) = {l}
  BY <1>3, <1>4, <1>5
<1>7. FuncOf(i) = FuncOf(l)
  <2>1. CASE i <= l
    <3>1. i \in 1..l
      BY <1>2, <1>3, <2>1
    <3> QED BY <1>1, <1>3, <3>1, SameFunc
  <2>2. CASE l <= i
    <3>1. l \in 1..i
      BY <1>2, <1>3, <2>2
    <3> QED BY <1>1, <1>2, <1>3, <3>1, SameFunc
  <2> QED BY <1>2, <1>3, <2>1, <2>2
<1> QED BY <1>6, <1>7 DEF l, n

(* Then every literal is where its number says, in a program without reals
   among its constants. *)
LEMMA LiteralsFollow == ASSUME IInv PROVE LiteralsResolve
<1> SUFFICES ASSUME Generated, RealFree(ts), NEW i \in 1..Count, NEW p \in Places,
                    Lines[i][p].type \in {"ILIT", "FLIT", "STR"}
             PROVE  Resolves(Lines[i][p])
  BY DEF LiteralsResolve, LitsResolve, RealFree
<1>1. LinesOK(ts)
  BY WhenGenerated DEF Idle, Sound
<1>2. LitOK(ts, Lines[i].left) /\ LitOK(ts, Lines[i].middle) /\ LitOK(ts, Lines[i].right)
  BY <1>1 DEF LinesOK, Count, Lines
<1>3. LitOK(ts, Lines[i][p])
  <2>1. p = "left" \/ p = "middle" \/ p = "right"
    BY DEF Places
  <2> QED BY <1>2, <2>1
<1>4. At(ts, PoolOf(Lines[i][p].type), Lines[i][p].n, Lines[i][p].val)
  BY <1>3 DEF LitOK
<1> QED BY <1>4 DEF At, Resolves

(* Then every temporary is written once and read after it. *)
LEMMA TempsFollow == ASSUME IInv PROVE TempsHold
<1> SUFFICES ASSUME Generated, "elemupdate" \notin uses, NEW i \in 1..Count, NEW p \in Places,
                    Lines[i][p].type = "TMP"
             PROVE  LET w == Writers(Lines[i][p].n, i)
                    IN  /\ Cardinality(w) = 1
                        /\ \A j \in w : j < i \/ (j = i /\ p = "left")
  BY DEF TempsHold
<1> DEFINE n == Lines[i][p].n
           w == Writers(n, i)
<1>1. AllBacked(Lines) /\ WrittenOnce(Lines) /\ Listed /\ Count \in Nat /\ Len(Lines) = Count
  BY WhenGenerated DEF Idle, Sound, Lines, Count
<1>2. \A j : j \in w <=> j \in 1..Count /\ Writes(Lines, j, n) /\ FuncOf(j) = FuncOf(i)
  BY DEF Writers, Writes
<1> HIDE DEF w, n
<1>3. \A j, k \in 1..Count : j < k /\ j \in w /\ k \in w => FALSE
  <2> SUFFICES ASSUME NEW j \in 1..Count, NEW k \in 1..Count, j < k, j \in w, k \in w
               PROVE  FALSE
    OBVIOUS
  <2>1. Writes(Lines, j, n) /\ Writes(Lines, k, n) /\ FuncOf(j) = FuncOf(k)
    BY <1>2
  <2>2. Lines[k].left.n = n
    BY <2>1 DEF Writes
  <2>3. ~NoFunc(Lines, j, k)
    BY <1>1, <2>1, <2>2 DEF WrittenOnce
  <2>4. j \in 1..k
    OBVIOUS
  <2> QED BY <1>1, <2>1, <2>3, <2>4, SameFunc
<1>4. \E j \in w : j < i \/ (j = i /\ p = "left")
  <2>1. CASE p = "left" /\ Lines[i].op \notin Readers
    <3>1. Writes(Lines, i, n)
      BY <2>1 DEF Writes, n
    <3> QED BY <1>2, <2>1, <3>1
  <2>2. CASE ~(p = "left" /\ Lines[i].op \notin Readers)
    <3>1. Backed(Lines, Lines[i][p], i)
      <4>1. /\ Backed(Lines, Lines[i].middle, i) /\ Backed(Lines, Lines[i].right, i)
            /\ Lines[i].op \in Readers => Backed(Lines, Lines[i].left, i)
        BY <1>1 DEF AllBacked
      <4>2. p = "middle" \/ p = "right" \/ (p = "left" /\ Lines[i].op \in Readers)
        BY <2>2 DEF Places
      <4> QED BY <4>1, <4>2
    <3>2. PICK j \in 1..(i - 1) : Defines(Lines, j, Lines[i][p]) /\ NoFunc(Lines, j, i)
      BY <3>1 DEF Backed, Kept
    <3>3. j \in 1..i /\ j \in 1..Count /\ j < i
      BY <1>1
    <3>4. Writes(Lines, j, n) /\ FuncOf(j) = FuncOf(i)
      BY <1>1, <3>2, <3>3, SameFunc DEF Defines, Writes, n
    <3> QED BY <1>2, <3>3, <3>4
  <2> QED BY <2>1, <2>2
<1>5. PICK j \in w : j < i \/ (j = i /\ p = "left")
  BY <1>4
<1>6. w = {j}
  <2>1. ASSUME NEW k \in w PROVE k = j
    <3>1. k \in 1..Count /\ j \in 1..Count
      BY <1>2
    <3>2. ~(j < k) /\ ~(k < j)
      BY <1>3, <3>1
    <3> QED BY <3>1, <3>2
  <2> QED BY <2>1
<1>7. Cardinality(w) = 1
  BY <1>6, FS_Singleton
<1> QED BY <1>5, <1>6, <1>7 DEF w, n

(***************************************************************************)
(* The theorems.                                                           *)
(***************************************************************************)
(* Every variable keeps its type: the cursor is on a line or on none, every
   address of a line is one, and no literal is numbered past what was counted,
   whatever is nested in what (threeaddresscode.c, x86_code_generation.c). *)
THEOREM TypeCorrect == Spec => []TypeOK
<1>1. IInv => TypeOK
  BY TypesFollow
<1> QED BY <1>1, Invariance, PTL

(* resolve_line sees every line once and in order: the scan of O_FUNC and the
   count of params_of_next_call leave the list's cursor where it was, also when
   they ran off its end (x86_code_generation.c:540-584). *)
THEOREM InOrder == Spec => []EachLineOnce
<1>1. IInv => EachLineOnce
  BY OrderFollows
<1> QED BY <1>1, Invariance, PTL

(* The k-th argument of a call is put in the k-th register and nothing stands
   between the arguments and the call, although an argument may itself call and
   although the register is found by counting lines (tac_gen_parameters,
   params_of_next_call). *)
THEOREM ArgumentsInPlace == Spec => []ArgumentsArrive
<1>1. IInv => ArgumentsArrive
  BY ArgumentsFollow
<1> QED BY <1>1, Invariance, PTL

(* Every parameter, variable and temporary of a line lies in the frame that its
   function reserves, although variables and temporaries are looked for on the
   left of the lines only, and the stack stays aligned (O_FUNC of resolve_line). *)
THEOREM FramesSuffice == Spec => []FrameHolds
<1>1. IInv => FrameHolds
  BY FrameFollows
<1> QED BY <1>1, Invariance, PTL

(* Every branch of a finished program has one label to go to, at the line its
   if, for or repeat means and in its own function (tac_gen_ifelse, tac_gen_for
   and their like). *)
THEOREM BranchesMeet == Spec => []BranchesLand
<1>1. IInv => BranchesLand
  BY BranchesFollow
<1> QED BY <1>1, Invariance, PTL

(* The number in the address of a literal is the place of that literal in the
   list the back ends read, in programs without a real constant (adr_of_int,
   adr_of_double, adr_of_sds, tac_gen_init). *)
THEOREM LiteralsFound == Spec => []LiteralsResolve
<1>1. IInv => LiteralsResolve
  BY LiteralsFollow
<1> QED BY <1>1, Invariance, PTL

(* A temporary is written by one line of its function, and every other line
   that uses it comes after that one, in programs that do not add to a field
   (mktmp and its callers). *)
THEOREM TempsWrittenOnce == Spec => []TempsHold
<1>1. IInv => TempsHold
  BY TempsFollow
<1> QED BY <1>1, Invariance, PTL
=============================================================================
