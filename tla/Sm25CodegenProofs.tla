-------------------------- MODULE Sm25CodegenProofs --------------------------
(* Proofs about the SM25 code generator, for any program, any table capacity
   and any counter width. *)
EXTENDS Sm25Codegen, FiniteSetTheorems, SequenceTheorems, WellFoundedInduction, TLAPS

(***************************************************************************)
(* Induction over numbers, with a set in the place of the predicate: the   *)
(* theorems of NaturalsInduction take an operator, which no prover at hand *)
(* instantiates; a set {n \in Nat : P(n)} does the same work.              *)
(***************************************************************************)
(* A set of natural numbers that has an element has a least one. *)
LEMMA LeastNat ==
  ASSUME NEW T, T \subseteq Nat, T # {}
  PROVE  \E x \in T : \A y \in T : x <= y
<1> DEFINE Below == {p \in Nat \X Nat : p[1] < p[2]}
<1>1. IsWellFoundedOn(Below, Nat)
  BY NatLessThanWellFounded DEF OpToRel
<1> HIDE DEF Below
<1>2. \E x \in T : \A y \in T : <<y, x>> \notin Below
  BY <1>1, WFMin, Zenon
<1>3. PICK x \in T : \A y \in T : <<y, x>> \notin Below
  BY <1>2
<1>4. ASSUME NEW y \in T PROVE x <= y
  <2>1. x \in Nat /\ y \in Nat /\ <<y, x>> \notin Below
    BY <1>3
  <2>2. y < x => <<y, x>> \in Below
    BY <2>1 DEF Below
  <2> QED BY <2>1, <2>2
<1> QED BY <1>4

(* Induction from a number a, up to b. *)
LEMMA InductUpTo ==
  ASSUME NEW a \in Int, NEW b \in Int, NEW S, a \in S,
         \A k \in a..(b - 1) : k \in S => k + 1 \in S
  PROVE  a..b \subseteq S
<1> SUFFICES ASSUME NEW m \in a..b, m \notin S PROVE FALSE
  OBVIOUS
<1> DEFINE Out == {n \in Nat : a + n \in a..b /\ a + n \notin S}
<1>1. Out \subseteq Nat /\ m - a \in Out
  <2>1. m - a \in Nat /\ a + (m - a) = m
    OBVIOUS
  <2> QED BY <2>1
<1>2. \A n \in Nat : n \in Out <=> a + n \in a..b /\ a + n \notin S
  OBVIOUS
<1> HIDE DEF Out
<1>3. PICK x \in Out : \A y \in Out : x <= y
  BY <1>1, LeastNat
<1>4. x \in Nat /\ a + x \in a..b /\ a + x \notin S
  BY <1>1, <1>2
<1>5. x - 1 \in Nat /\ a + (x - 1) \in a..(b - 1) /\ (a + (x - 1)) + 1 = a + x
  <2>1. x # 0
    BY <1>4
  <2> QED BY <1>4, <2>1
<1>6. x - 1 \notin Out
  BY <1>3, <1>4, <1>5
<1> QED BY <1>2, <1>4, <1>5, <1>6

(***************************************************************************)
(* The inductive invariant.  TypeOK alone is not preserved: the operand of *)
(* a patched call is whatever the call list and the symbol map yield, so   *)
(* one has to know which placeholders lie in the list; and a branch gets   *)
(* the right address because its slot number is its turn in the list, and  *)
(* the slot is either anchored already or owned by exactly one open frame. *)
(***************************************************************************)

(* The parts of the run: what is empty, finished or untouched in each. *)
Stages ==
  /\ phase = "globals" => frames = <<>> /\ insts = <<>>
  /\ phase \in {"patch", "done"} => frames = <<>> /\ Funcs \subseteq DOMAIN offsetOf
  /\ phase \in {"globals", "code"} =>
       rd = [inst |-> 1, jump |-> 0, int |-> 0, real |-> 0, str |-> 0]
  /\ rd.inst \in 1..(Len(insts) + 1)

(* What an instruction that is not patched yet looks like, by what it means,
   when n calls were made. *)
Unpatched(x, n) ==
  /\ x.ref.kind = "jump" => x.op = "LA0" /\ x.val = AJUMP
  /\ x.ref.kind = "int"  => x.op = "LV0" /\ x.val = AINT
  /\ x.ref.kind = "real" => x.op = "LV0" /\ x.val = AREAL
  /\ x.ref.kind = "str"  => x.op = "LA0" /\ x.val = ASTR
  /\ x.ref.kind = "back" => x.op = "LA0" /\ x.val \in Nat
  /\ x.ref.kind = "call" => x.op = "LA0" /\ \E m \in 1..n : x.val = AFUNC * m
  /\ x.ref.kind = "none" => x.op \notin {"LA0", "LV0"}

Placeholders == \A i \in 1..Len(insts) : i >= rd.inst => Unpatched(insts[i], Len(calls))

(* Frames that owe an anchor. *)
Owns(f) == f.kind \in {"if", "ifelse", "for"}

(* A frame that may stand at depth k. *)
FrameAt(f, k) ==
  /\ f.kind \in {"main", "func"} <=> k = 1
  /\ f.stage = "cond" => Owns(f)
  /\ f.stage \in {"then", "else"} => f.kind = "ifelse"
  /\ f.stage = "until" => f.kind = "repeat"

NestingOf(fr) == \A k \in 1..Len(fr) : FrameAt(fr[k], k)

Nesting == NestingOf(frames)

(* Every slot handed out is anchored or owned by exactly one frame: for a
   table t and open frames fr. *)
SlotsOf(t, fr) ==
  /\ DOMAIN t.adr \subseteq 0..(t.num - 1)
  /\ \A k \in 1..Len(fr) :
       Owns(fr[k]) => /\ fr[k].slot \in 0..(t.num - 1)
                      /\ fr[k].slot \notin DOMAIN t.adr
  /\ \A k, l \in 1..Len(fr) :
       Owns(fr[k]) /\ Owns(fr[l]) /\ fr[k].slot = fr[l].slot => k = l
  /\ \A s \in 0..(t.num - 1) :
       s \in DOMAIN t.adr \/ \E k \in 1..Len(fr) : Owns(fr[k]) /\ fr[k].slot = s

Slots == SlotsOf(jumps, frames)

(* The slot of a branch is its turn, and leads to where the branch lands. *)
Leads(s, t, fr, ld, i) ==
  LET slot == Before(s, i, "jump") IN
  \/ slot \in DOMAIN t.adr /\ i \in DOMAIN ld /\ t.adr[slot] = ld[i].byte
  \/ \E k \in 1..Len(fr) : Owns(fr[k]) /\ fr[k].slot = slot /\ fr[k].at = i

LandingOf(s, t, fr, ld) ==
  /\ \A i \in 1..Len(s) : s[i].ref.kind = "jump" => Leads(s, t, fr, ld, i)
  /\ \A k \in 1..Len(fr) : Owns(fr[k]) =>
       /\ fr[k].at \in 1..Len(s)
       /\ Before(s, fr[k].at, "jump") = fr[k].slot

Landing == LandingOf(insts, jumps, frames, land)

(* The cursors and the lists keep step with the placeholders. *)
Turn ==
  /\ rd.jump = Before(insts, rd.inst, "jump")
  /\ \A q \in Queues : rd[q] = Before(insts, rd.inst, q)
  /\ Before(insts, Len(insts) + 1, "jump") = jumps.num
  /\ \A q \in Queues : Before(insts, Len(insts) + 1, q) = Len(pend[q])

IInv == /\ TypeOK /\ Stages /\ Placeholders /\ Nesting
        /\ JumpTableInBounds /\ Slots /\ Landing /\ Turn /\ BranchesLand
-----------------------------------------------------------------------------
(* Every instruction takes a natural number of bytes. *)
LEMMA WidthType == \A inst : Width(inst) \in {1, 2, 5}
  BY DEF Width

(* The byte counter stays a u16 whatever is pushed. *)
LEMMA AfterType ==
  ASSUME NEW s, bytes \in 0..(Word - 1)
  PROVE  After(s) \in 0..(Word - 1)
<1>1. \A k : WidthAt(s, k) \in {0, 1, 2, 5}
  BY WidthType DEF WidthAt
<1>2. \A n \in Nat : n % Word \in 0..(Word - 1)
  BY WordAssumption
<1>3. QED
  BY <1>1, <1>2, WordAssumption DEF After

(* Padding keeps a u16 a u16. *)
LEMMA PadType ==
  ASSUME NEW n \in 0..(Word - 1) PROVE Pad(n) \in 0..(Word - 1)
<1>1. n + (8 - (n % 8)) \in Nat
  OBVIOUS
<1>2. \A k \in Nat : k % Word \in 0..(Word - 1)
  BY WordAssumption
<1>3. QED
  BY <1>1, <1>2 DEF Pad

(* Anchoring a slot keeps the table well typed. *)
LEMMA AnchoredType ==
  ASSUME NEW t, NEW slot, NEW byte \in 0..(Word - 1),
         t.num \in Nat, t.cap \in Nat, t.alloc \in Nat,
         \A s \in DOMAIN t.adr : t.adr[s] \in 0..(Word - 1)
  PROVE  LET a == Anchored(t, slot, byte) IN
         /\ a.num \in Nat /\ a.cap \in Nat /\ a.alloc \in Nat
         /\ \A s \in DOMAIN a.adr : a.adr[s] \in 0..(Word - 1)
  BY DEF Anchored, Put
-----------------------------------------------------------------------------
(* Putting a key into a partial function. *)
LEMMA PutType ==
  ASSUME NEW f, NEW k, NEW v
  PROVE  /\ DOMAIN Put(f, k, v) = DOMAIN f \cup {k}
         /\ Put(f, k, v)[k] = v
         /\ \A x \in DOMAIN f : x # k => Put(f, k, v)[x] = f[x]
  BY DEF Put

(* Pushing well-typed instructions keeps the list and the counter typed. *)
LEMMA EmitType ==
  ASSUME TypeOK, NEW s \in Seq(Insts), Emit(s)
  PROVE  /\ insts' \in Seq(Insts)
         /\ bytes' \in 0..(Word - 1)
  BY AfterType DEF Emit, TypeOK

(* Pushing at the tail of one of the lists keeps them all typed. *)
LEMMA PushQueue ==
  ASSUME NEW S, NEW f \in [Queues -> Seq(S)], NEW q \in Queues, NEW v \in S
  PROVE  [f EXCEPT ![q] = Append(@, v)] \in [Queues -> Seq(S)]
<1>1. Append(f[q], v) \in Seq(S)
  OBVIOUS
<1>2. QED
  BY <1>1

(* Entering the next part of a construct keeps its frame typed. *)
LEMMA FrameStage ==
  ASSUME NEW t \in Frames, NEW m \in Nat,
         NEW st \in {"cond", "body", "then", "else", "until"}
  PROVE  [t EXCEPT !.stage = st, !.mark = m] \in Frames
  BY DEF Frames

(* So does going on in the else part, with a slot and a branch of its own. *)
InElse(t, k, l, m) == [t EXCEPT !.stage = "else", !.slot = k, !.at = l, !.mark = m]

(* A frame that goes on with its else is still a frame. *)
LEMMA ElseFrame ==
  ASSUME NEW t \in Frames, NEW k \in Nat, NEW l \in Nat, NEW m \in Nat
  PROVE  InElse(t, k, l, m) \in Frames
  BY DEF Frames, InElse

(* The generator starts with values of their types. *)
LEMMA TypeInit == Init => TypeOK
  BY WordAssumption, CapacityAssumption DEF Init, TypeOK, Queues

(* A step of generation preserves the types. *)
LEMMA TypeCode ==
  ASSUME TypeOK, Next,
         phase \in {"globals", "code"}
  PROVE  TypeOK'
<1> USE WordAssumption DEF InCode
<1>0. /\ Insts = [op: Ops, val: Int, ref: Refs]
      /\ \A op \in Ops : Plain(op) \in Insts
  BY DEF Insts, Plain, Inst, Refs, Kinds
<1>1. ASSUME NEW c \in Consts, NEW l \in IntLits \cup RealLits, DeclareConst(c, l)
      PROVE  TypeOK'
  <2> DEFINE q == IF l \in IntLits THEN "int" ELSE "real"
  <2>1. q \in Queues
    BY DEF Queues
  <2>2. pool' \in [Queues -> Seq(Nat \cup IntLits \cup RealLits)]
    BY <1>1, <2>1, PushQueue DEF DeclareConst, TypeOK
  <2>3. 8 * Len(pool[q]) \in Nat
    BY <2>1 DEF TypeOK
  <2>4. /\ offsetOf' = Put(offsetOf, c, 8 * Len(pool[q]))
        /\ constLit' = Put(constLit, c, l)
    BY <1>1 DEF DeclareConst
  <2>5. /\ DOMAIN offsetOf' \subseteq Consts \cup Symbols
        /\ \A s \in DOMAIN offsetOf' : offsetOf'[s] \in Nat
        /\ DOMAIN constLit' \subseteq Consts \cap DOMAIN offsetOf'
        /\ \A d \in DOMAIN constLit' : constLit'[d] \in IntLits \cup RealLits
    BY <2>3, <2>4 DEF TypeOK, Put
  <2>6. QED
    BY <1>1, <2>2, <2>5, SMTT(40) DEF DeclareConst, TypeOK
<1>2. CASE StartMain
  BY <1>2 DEF StartMain, TypeOK, Frame, Frames
<1>3. ASSUME NEW op \in FillerOps, EmitPlain(op) PROVE TypeOK'
  <2>1. <<Plain(op)>> \in Seq(Insts)
    BY <1>0, FillerAssumption DEF Ops
  <2>2. insts' \in Seq(Insts) /\ bytes' \in 0..(Word - 1)
    BY <1>3, <2>1, EmitType DEF EmitPlain
  <2>3. QED
    BY <1>3, <2>2, SMTT(40) DEF EmitPlain, TypeOK
<1>4. ASSUME NEW l \in IntLits \cup RealLits, PushLiteral(l) PROVE TypeOK'
  <2> DEFINE q == IF l \in IntLits THEN "int" ELSE "real"
             mark == IF l \in IntLits THEN AINT ELSE AREAL
             off == IF l \in DOMAIN offsetOf THEN offsetOf[l] ELSE 8 * Len(pool[q])
  <2>1. <<Inst("LV0", mark, q, l)>> \in Seq(Insts)
    BY DEF Inst, Insts, Ops, Refs, Kinds, Queues, Symbols, AINT, AREAL
  <2>2. insts' \in Seq(Insts) /\ bytes' \in 0..(Word - 1)
    BY <1>4, <2>1, EmitType DEF PushLiteral
  <2>3. off \in Nat
    BY SMTT(30) DEF TypeOK, Queues
  <2>8. q \in Queues
    BY DEF Queues
  <2>9. /\ pend' = [pend EXCEPT ![q] = Append(@, off)]
        /\ l \in DOMAIN offsetOf => pool' = pool /\ offsetOf' = offsetOf
        /\ l \notin DOMAIN offsetOf => /\ pool' = [pool EXCEPT ![q] = Append(@, l)]
                                       /\ offsetOf' = Put(offsetOf, l, off)
    BY <1>4 DEF PushLiteral
  <2> HIDE DEF q, off
  <2>4. pend' \in [Queues -> Seq(Nat)]
    BY <2>9, <2>3, <2>8, PushQueue DEF TypeOK
  <2>5. pool' \in [Queues -> Seq(Nat \cup IntLits \cup RealLits)]
    <3>1. CASE l \in DOMAIN offsetOf
      BY <2>9, <3>1 DEF TypeOK
    <3>2. [pool EXCEPT ![q] = Append(@, l)] \in [Queues -> Seq(Nat \cup IntLits \cup RealLits)]
      BY <2>8, PushQueue DEF TypeOK
    <3>3. QED
      BY <2>9, <3>1, <3>2
  <2>6. /\ DOMAIN offsetOf' \subseteq Consts \cup Symbols
        /\ DOMAIN offsetOf \subseteq DOMAIN offsetOf'
        /\ \A s \in DOMAIN offsetOf' : offsetOf'[s] \in Nat
    BY <2>9, <2>3 DEF TypeOK, Put, Symbols
  <2>7. QED
    BY <1>4, <2>2, <2>4, <2>5, <2>6, SMTT(40) DEF PushLiteral, TypeOK
<1>5. ASSUME NEW c \in DOMAIN constLit, PushConst(c) PROVE TypeOK'
  <2> DEFINE q == IF constLit[c] \in IntLits THEN "int" ELSE "real"
             mark == IF constLit[c] \in IntLits THEN AINT ELSE AREAL
  <2>1. <<Inst("LV0", mark, q, constLit[c])>> \in Seq(Insts)
    BY DEF Inst, Insts, Ops, Refs, Kinds, Queues, Symbols, AINT, AREAL, TypeOK
  <2>2. insts' \in Seq(Insts) /\ bytes' \in 0..(Word - 1)
    BY <1>5, <2>1, EmitType DEF PushConst
  <2>3. offsetOf[c] \in Nat
    BY DEF TypeOK
  <2>6. q \in Queues
    BY DEF Queues
  <2>4. pend' \in [Queues -> Seq(Nat)]
    BY <1>5, <2>3, <2>6, PushQueue DEF PushConst, TypeOK
  <2>5. QED
    BY <1>5, <2>2, <2>4, SMTT(40) DEF PushConst, TypeOK
<1>6. ASSUME NEW n \in StrLens, PrintString(n) PROVE TypeOK'
  <2>1. Inst("LA0", ASTR, "str", Len(pool.str)) \in Insts
    BY DEF Inst, Insts, Ops, Refs, Kinds, Queues, ASTR, TypeOK
  <2>2. <<Inst("LA0", ASTR, "str", Len(pool.str)), Plain("STRPR")>> \in Seq(Insts)
    BY <1>0, <2>1 DEF Ops
  <2>3. insts' \in Seq(Insts) /\ bytes' \in 0..(Word - 1)
    BY <1>6, <2>2, EmitType DEF PrintString
  <2>4. "str" \in Queues /\ n \in Nat /\ strBytes \in Nat
    BY StrLenAssumption DEF Queues, TypeOK
  <2>5. /\ pend' \in [Queues -> Seq(Nat)]
        /\ pool' \in [Queues -> Seq(Nat \cup IntLits \cup RealLits)]
    BY <1>6, <2>4, PushQueue DEF PrintString, TypeOK
  <2>6. strBytes' \in 0..(Word - 1)
    BY <1>6, <2>4 DEF PrintString
  <2>7. QED
    BY <1>6, <2>3, <2>5, <2>6 DEF PrintString, TypeOK
<1>7. ASSUME NEW f \in Funcs, Call(f) PROVE TypeOK'
  <2>1. Inst("LA0", AFUNC * (Len(calls) + 1), "call", f) \in Insts
    BY DEF Inst, Insts, Ops, Refs, Kinds, AFUNC, TypeOK, Symbols
  <2>2. <<Plain("LB"), Inst("LA0", AFUNC * (Len(calls) + 1), "call", f),
          Plain("JS2")>> \in Seq(Insts)
    BY <1>0, <2>1 DEF Ops
  <2>3. insts' \in Seq(Insts) /\ bytes' \in 0..(Word - 1)
    BY <1>7, <2>2, EmitType DEF Call
  <2>4. QED
    BY <1>7, <2>3, SMTT(120) DEF Call, TypeOK
<1>8. ASSUME NEW kind \in {"if", "ifelse"}, OpenBranch(kind) PROVE TypeOK'
  <2>1. <<Inst("LA0", AJUMP, "jump", 0)>> \in Seq(Insts)
    BY DEF Inst, Insts, Ops, Refs, Kinds, AJUMP
  <2>2. insts' \in Seq(Insts) /\ bytes' \in 0..(Word - 1)
    BY <1>8, <2>1, EmitType DEF OpenBranch
  <2>3. Frame(kind, "cond", jumps.num, 0, Len(insts) + 1, Len(insts) + 1, 0) \in Frames
    BY DEF Frame, Frames, TypeOK
  <2>4. frames' \in Seq(Frames)
    BY <1>8, <2>3, SMTT(40) DEF OpenBranch, TypeOK
  <2>5. /\ jumps'.num \in Nat /\ jumps'.cap \in Nat /\ jumps'.alloc \in Nat
        /\ \A s \in DOMAIN jumps'.adr : jumps'.adr[s] \in 0..(Word - 1)
    BY <1>8, SMTT(40) DEF OpenBranch, TypeOK
  <2>6. QED
    BY <1>8, <2>2, <2>4, <2>5, SMTT(120) DEF OpenBranch, TypeOK
<1>9. CASE OpenFor
  <2>1. <<Inst("LA0", AJUMP, "jump", 0)>> \in Seq(Insts)
    BY DEF Inst, Insts, Ops, Refs, Kinds, AJUMP
  <2>2. insts' \in Seq(Insts) /\ bytes' \in 0..(Word - 1)
    BY <1>9, <2>1, EmitType DEF OpenFor
  <2>3. Frame("for", "cond", jumps.num, bytes, Len(insts) + 1, Len(insts) + 1,
              Len(insts) + 1) \in Frames
    BY DEF Frame, Frames, TypeOK
  <2>4. frames' \in Seq(Frames)
    BY <1>9, <2>3, SMTT(40) DEF OpenFor, TypeOK
  <2>5. /\ jumps'.num \in Nat /\ jumps'.cap \in Nat /\ jumps'.alloc \in Nat
        /\ \A s \in DOMAIN jumps'.adr : jumps'.adr[s] \in 0..(Word - 1)
    BY <1>9, SMTT(40) DEF OpenFor, TypeOK
  <2>6. QED
    BY <1>9, <2>2, <2>4, <2>5, SMTT(120) DEF OpenFor, TypeOK
<1>10. CASE OpenRepeat
  <2>1. Frame("repeat", "body", 0, bytes, Len(insts), 0, Len(insts) + 1) \in Frames
    BY DEF Frame, Frames, TypeOK
  <2>2. QED
    BY <1>10, <2>1, SMTT(40) DEF OpenRepeat, TypeOK
<1>11. frames # <<>> => Top \in Frames /\ Pop \in Seq(Frames)
  BY DEF Top, Pop, TypeOK
<1>12. CASE BranchFalse
  <2>1. <<Plain("BF")>> \in Seq(Insts)
    BY <1>0 DEF Ops
  <2>2. insts' \in Seq(Insts) /\ bytes' \in 0..(Word - 1)
    BY <1>12, <2>1, EmitType DEF BranchFalse
  <2>3. [Top EXCEPT !.stage = IF Top.kind = "ifelse" THEN "then" ELSE "body",
                    !.mark  = Len(insts) + 1] \in Frames
    <3>1. Len(insts) + 1 \in Nat /\ Top \in Frames
      BY <1>11, <1>12, SMTT(40) DEF BranchFalse, TypeOK
    <3>2. (IF Top.kind = "ifelse" THEN "then" ELSE "body")
            \in {"cond", "body", "then", "else", "until"}
      OBVIOUS
    <3>3. QED
      BY <3>1, <3>2, FrameStage
  <2>4. frames' \in Seq(Frames)
    BY <1>12, <2>3 DEF BranchFalse, SetTop, TypeOK
  <2>5. QED
    BY <1>12, <2>2, <2>4, SMTT(40) DEF BranchFalse, TypeOK
<1>13. CASE RepeatUntil
  <2>1. <<Inst("LA0", Top.top, "back", Top.begin)>> \in Seq(Insts)
    BY <1>11, <1>13 DEF RepeatUntil, Inst, Insts, Ops, Refs, Kinds, Frames
  <2>2. insts' \in Seq(Insts) /\ bytes' \in 0..(Word - 1)
    BY <1>13, <2>1, EmitType DEF RepeatUntil
  <2>3. [Top EXCEPT !.stage = "until", !.mark = Len(insts) + 1] \in Frames
    <3>1. Len(insts) + 1 \in Nat /\ Top \in Frames
      BY <1>11, <1>13, SMTT(40) DEF RepeatUntil, TypeOK
    <3>2. QED
      BY <3>1, FrameStage
  <2>4. frames' \in Seq(Frames)
    BY <1>13, <2>3 DEF RepeatUntil, SetTop, TypeOK
  <2>5. QED
    BY <1>13, <2>2, <2>4, SMTT(40) DEF RepeatUntil, TypeOK
<1>14. CASE CloseRepeat
  <2>1. <<Plain("BF")>> \in Seq(Insts)
    BY <1>0 DEF Ops
  <2>2. insts' \in Seq(Insts) /\ bytes' \in 0..(Word - 1)
    BY <1>14, <2>1, EmitType DEF CloseRepeat
  <2>3. QED
    BY <1>11, <1>14, <2>2, SMTT(40) DEF CloseRepeat, TypeOK
<1>15. CASE EndMain
  <2>1. <<Plain("HALT")>> \in Seq(Insts)
    BY <1>0 DEF Ops
  <2>2. insts' \in Seq(Insts) /\ bytes' \in 0..(Word - 1)
    BY <1>15, <2>1, EmitType DEF EndMain
  <2>3. QED
    BY <1>15, <2>2, SMTT(40) DEF EndMain, TypeOK
<1>16. ASSUME NEW f \in Funcs, StartFunc(f) PROVE TypeOK'
  <2> DEFINE body == Frame("func", "body", 0, 0, Len(insts), 0, 0)
  <2>0. Len(insts) \in Nat /\ 0 \in 0..(Word - 1)
    BY WordAssumption DEF TypeOK
  <2>a. body \in Frames
    BY <2>0 DEF Frame, Frames
  <2> HIDE DEF body
  <2>b. <<body>> \in Seq(Frames)
    BY <2>a
  <2>1. <<Frame("func", "body", 0, 0, Len(insts), 0, 0)>> \in Seq(Frames)
    BY <2>b DEF body
  <2>2. /\ DOMAIN offsetOf' \subseteq Consts \cup Symbols
        /\ DOMAIN offsetOf \subseteq DOMAIN offsetOf'
        /\ \A s \in DOMAIN offsetOf' : offsetOf'[s] \in Nat
        /\ \A g \in DOMAIN entry' : g \in Funcs /\ entry'[g] \in Nat
    BY <1>16 DEF StartFunc, TypeOK, Put, Symbols
  <2>3. QED
    BY <1>16, <2>1, <2>2, SMTT(40) DEF StartFunc, TypeOK
<1>17. CASE EndFunc
  BY <1>17, SMTT(40) DEF EndFunc, TypeOK
<1>18. CASE StartPatching
  BY <1>18, PadType DEF StartPatching, TypeOK
<1>19. ASSUME frames # <<>>, NEW byte \in 0..(Word - 1), NEW n \in Nat,
              jumps' = Anchored(jumps, Top.slot, byte)
                \/ jumps' = [Anchored(jumps, Top.slot, byte) EXCEPT !.num = @ + 1],
              LandHere(Top.at, n, byte)
       PROVE  /\ jumps'.num \in Nat /\ jumps'.cap \in Nat /\ jumps'.alloc \in Nat
              /\ \A s \in DOMAIN jumps'.adr : jumps'.adr[s] \in 0..(Word - 1)
              /\ \A i \in DOMAIN land' :
                    i \in Nat /\ land'[i] \in [inst: Nat, byte: 0..(Word - 1)]
  <2>1. Top.at \in Nat
    BY <1>11, <1>19 DEF Frames
  <2>2. LET a == Anchored(jumps, Top.slot, byte) IN
        /\ a.num \in Nat /\ a.cap \in Nat /\ a.alloc \in Nat
        /\ \A s \in DOMAIN a.adr : a.adr[s] \in 0..(Word - 1)
    BY AnchoredType DEF TypeOK
  <2>3. /\ jumps'.num \in Nat /\ jumps'.cap \in Nat /\ jumps'.alloc \in Nat
        /\ \A s \in DOMAIN jumps'.adr : jumps'.adr[s] \in 0..(Word - 1)
    <3> DEFINE a == Anchored(jumps, Top.slot, byte)
    <3>1. a.num \in Nat /\ a = [num |-> a.num, cap |-> a.cap, alloc |-> a.alloc, adr |-> a.adr]
      BY <2>2 DEF Anchored
    <3>2. CASE jumps' = a
      BY <2>2, <3>2
    <3>3. CASE jumps' = [a EXCEPT !.num = @ + 1]
      <4> HIDE DEF a
      <4>1. /\ jumps'.num = a.num + 1 /\ jumps'.cap = a.cap
            /\ jumps'.alloc = a.alloc /\ jumps'.adr = a.adr
        BY <3>1, <3>3
      <4>2. QED
        BY <2>2, <4>1 DEF a
    <3>4. QED
      BY <1>19, <3>2, <3>3
  <2>4. QED
    BY <1>19, <2>1, <2>3 DEF LandHere, Put, TypeOK
<1>20. CASE Else
  <2> DEFINE s == <<Inst("LA0", AJUMP, "jump", 0), Plain("BR")>>
  <2>1. s \in Seq(Insts)
    BY <1>0 DEF Inst, Insts, Ops, Refs, Kinds, AJUMP
  <2>2. insts' \in Seq(Insts) /\ bytes' \in 0..(Word - 1) /\ bytes' = After(s)
    BY <1>20, <2>1, EmitType DEF Else, Emit
  <2>3. [Top EXCEPT !.stage = "else", !.slot = jumps.num, !.at = Len(insts) + 1,
                    !.mark = Len(insts) + 2] \in Frames
    <3>1. jumps.num \in Nat /\ Len(insts) + 1 \in Nat /\ Len(insts) + 2 \in Nat
      BY DEF TypeOK
    <3>2. Top \in Frames
      BY <1>11, <1>20 DEF Else
    <3>3. InElse(Top, jumps.num, Len(insts) + 1, Len(insts) + 2) \in Frames
      BY <3>1, <3>2, ElseFrame
    <3>4. QED
      BY <3>3 DEF InElse
  <2>4. frames' \in Seq(Frames)
    BY <1>20, <2>3 DEF Else, SetTop, TypeOK
  <2>5. /\ frames # <<>> /\ Len(insts) + 3 \in Nat
        /\ LandHere(Top.at, Len(insts) + 3, After(s))
        /\ jumps' = [Anchored(jumps, Top.slot, After(s)) EXCEPT !.num = @ + 1]
    BY <1>20, SMTT(40) DEF Else, TypeOK
  <2> HIDE DEF s
  <2>6. QED
    BY <1>19, <1>20, <2>2, <2>4, <2>5 DEF Else, TypeOK
<1>21. CASE CloseIf
  <2>1. /\ frames # <<>> /\ Len(insts) + 1 \in Nat /\ bytes \in 0..(Word - 1)
        /\ LandHere(Top.at, Len(insts) + 1, bytes)
        /\ jumps' = Anchored(jumps, Top.slot, bytes)
    BY <1>21, SMTT(40) DEF CloseIf, TypeOK
  <2>2. QED
    BY <1>11, <1>19, <1>21, <2>1 DEF CloseIf, TypeOK
<1>22. CASE CloseFor
  <2> DEFINE s == <<Inst("LA0", Top.top, "back", Top.begin), Plain("BR")>>
  <2>1. s \in Seq(Insts)
    BY <1>0, <1>11, <1>22 DEF CloseFor, Inst, Insts, Ops, Refs, Kinds, Frames
  <2>2. insts' \in Seq(Insts) /\ bytes' \in 0..(Word - 1) /\ bytes' = After(s)
    BY <1>22, <2>1, EmitType DEF CloseFor, Emit
  <2>3. /\ frames # <<>> /\ Len(insts) + 3 \in Nat
        /\ LandHere(Top.at, Len(insts) + 3, After(s))
        /\ jumps' = Anchored(jumps, Top.slot, After(s))
    BY <1>22, SMTT(40) DEF CloseFor, TypeOK
  <2> HIDE DEF s
  <2>4. QED
    BY <1>11, <1>19, <1>22, <2>2, <2>3 DEF CloseFor, TypeOK
<1>23. QED
  BY <1>1, <1>2, <1>3, <1>4, <1>5, <1>6, <1>7, <1>8, <1>9, <1>10, <1>12, <1>13, <1>14,
     <1>15, <1>16, <1>17, <1>18, <1>20, <1>21, <1>22
     DEF Next, PatchQueued, PatchJump, PatchCall, PatchNothing, Patching, Close, Done
-----------------------------------------------------------------------------
(* Counting the placeholders of a kind. *)
LEMMA BeforeNat ==
  ASSUME NEW s, NEW i \in Nat, NEW kind
  PROVE  /\ IsFiniteSet(Placed(s, i, kind))
         /\ Before(s, i, kind) \in Nat
<1>1. IsFiniteSet(1..(i - 1))
  BY FS_Interval
<1>2. Placed(s, i, kind) \subseteq 1..(i - 1)
  BY DEF Placed
<1>3. IsFiniteSet(Placed(s, i, kind))
  BY <1>1, <1>2, FS_Subset
<1>4. QED
  BY <1>3, FS_CardinalityType DEF Before

(* Before the first instruction there is none of any kind. *)
LEMMA BeforeFirst == \A s, kind : Before(s, 1, kind) = 0
<1>1. \A s, kind : Placed(s, 1, kind) = {}
  BY DEF Placed
<1>2. QED
  BY <1>1, FS_EmptySet DEF Before

(* One instruction on, the count has grown by that one. *)
LEMMA BeforeNext ==
  ASSUME NEW s, NEW i \in Nat \ {0}, NEW kind
  PROVE  Before(s, i + 1, kind) =
           Before(s, i, kind) + (IF s[i].ref.kind = kind THEN 1 ELSE 0)
<1>1. i \in Nat /\ IsFiniteSet(Placed(s, i, kind)) /\ Before(s, i, kind) \in Nat
  BY BeforeNat
<1>2. i \notin Placed(s, i, kind)
  BY DEF Placed
<1>3. CASE s[i].ref.kind = kind
  <2>1. Placed(s, i + 1, kind) = Placed(s, i, kind) \cup {i}
    BY <1>3 DEF Placed
  <2>2. Cardinality(Placed(s, i, kind) \cup {i}) = Cardinality(Placed(s, i, kind)) + 1
    BY <1>1, <1>2, FS_AddElement
  <2>3. QED
    BY <1>3, <2>1, <2>2 DEF Before
<1>4. CASE s[i].ref.kind # kind
  <2>1. Placed(s, i + 1, kind) = Placed(s, i, kind)
    BY <1>4 DEF Placed
  <2>2. QED
    BY <1>1, <1>4, <2>1 DEF Before
<1>5. QED
  BY <1>3, <1>4

(* The count looks only at what the operands mean, and only at the prefix. *)
LEMMA BeforeSame ==
  ASSUME NEW s, NEW t, NEW i, NEW kind,
         \A j \in 1..(i - 1) : s[j].ref = t[j].ref
  PROVE  Before(s, i, kind) = Before(t, i, kind)
<1>1. Placed(s, i, kind) = Placed(t, i, kind)
  BY DEF Placed
<1>2. QED
  BY <1>1 DEF Before

(* The count at a place does not see what is appended behind it. *)
LEMMA BeforeAppend ==
  ASSUME NEW s \in Seq(Insts), NEW t \in Seq(Insts), NEW kind,
         NEW i \in 1..(Len(s) + 1)
  PROVE  Before(s \o t, i, kind) = Before(s, i, kind)
<1> DEFINE u == s \o t
<1>1. \A j \in 1..(i - 1) : u[j].ref = s[j].ref
  OBVIOUS
<1> HIDE DEF u
<1>2. Before(u, i, kind) = Before(s, i, kind)
  BY <1>1, BeforeSame
<1>3. QED
  BY <1>2 DEF u

(* What a pushed instruction adds to the count at the end. *)
LEMMA BeforeOne ==
  ASSUME NEW s \in Seq(Insts), NEW x \in Insts, NEW kind
  PROVE  Before(s \o <<x>>, Len(s \o <<x>>) + 1, kind) =
           Before(s, Len(s) + 1, kind) + (IF x.ref.kind = kind THEN 1 ELSE 0)
<1> DEFINE u == s \o <<x>>
           n == Len(s) + 1
<1>1. Len(u) = n /\ u[n] = x /\ <<x>> \in Seq(Insts) /\ n \in 1..(Len(s) + 1)
      /\ n \in Nat \ {0}
  OBVIOUS
<1>2. Before(u, n, kind) = Before(s, n, kind)
  BY <1>1, BeforeAppend
<1> HIDE DEF u, n
<1>3. Before(u, n + 1, kind) =
        Before(u, n, kind) + (IF u[n].ref.kind = kind THEN 1 ELSE 0)
  BY <1>1, BeforeNext
<1>4. Before(u, Len(u) + 1, kind) =
        Before(s, n, kind) + (IF x.ref.kind = kind THEN 1 ELSE 0)
  BY <1>1, <1>2, <1>3
<1>5. QED
  BY <1>4 DEF u, n

(* Pushing two instructions is pushing one and then the other. *)
LEMMA PushPair ==
  ASSUME NEW s \in Seq(Insts), NEW x \in Insts, NEW y \in Insts
  PROVE  s \o <<x, y>> = (s \o <<x>>) \o <<y>> /\ s \o <<x>> \in Seq(Insts)
<1> DEFINE u == s \o <<x>>
           v == s \o <<x, y>>
           w == u \o <<y>>
<1>1. <<x>> \in Seq(Insts) /\ <<y>> \in Seq(Insts) /\ <<x, y>> \in Seq(Insts)
  OBVIOUS
<1>2. u \in Seq(Insts) /\ Len(u) = Len(s) + 1 /\ u[Len(s) + 1] = x
      /\ \A j \in 1..Len(s) : u[j] = s[j]
  BY <1>1
<1> HIDE DEF u
<1>3. w \in Seq(Insts) /\ v \in Seq(Insts) /\ Len(w) = Len(s) + 2 /\ Len(v) = Len(s) + 2
  BY <1>1, <1>2
<1>4. \A j \in 1..(Len(s) + 2) : v[j] = w[j]
  BY <1>2
<1>5. Len(v) = Len(w) /\ \A j \in 1..Len(v) : v[j] = w[j]
  BY <1>3, <1>4
<1> HIDE DEF v, w
<1>6. v = w
  BY <1>3, <1>5, SeqEqual
<1>7. QED
  BY <1>2, <1>6 DEF u, v, w

(* What is pushed without the kind adds nothing to its count. *)
LEMMA BeforeGrow ==
  ASSUME NEW s \in Seq(Insts), NEW u \in Seq(Insts), NEW kind,
         \A j \in 1..Len(u) : u[j].ref.kind # kind
  PROVE  Before(s \o u, Len(s \o u) + 1, kind) = Before(s, Len(s) + 1, kind)
<1> DEFINE v == s \o u
<1>1. /\ Len(v) = Len(s) + Len(u) /\ Len(s) \in Nat /\ Len(u) \in Nat
      /\ \A j \in 1..Len(s) : v[j] = s[j]
      /\ \A j \in 1..Len(v) : v[j].ref.kind = kind => j \in 1..Len(s)
  OBVIOUS
<1> HIDE DEF v
<1>2. Placed(v, Len(v) + 1, kind) = Placed(s, Len(s) + 1, kind)
  BY <1>1 DEF Placed
<1>3. QED
  BY <1>2 DEF Before, v

(* Anchoring: the table stays in bounds, gains the slot, and loses nothing. *)
LEMMA AnchoredSlots ==
  ASSUME NEW t, NEW slot \in 0..(t.num - 1), NEW byte,
         t.num \in Nat, t.cap \in Nat, t.alloc \in Nat, t.cap <= t.alloc,
         DOMAIN t.adr \subseteq 0..(t.alloc - 1),
         DOMAIN t.adr \subseteq 0..(t.num - 1)
  PROVE  LET a == Anchored(t, slot, byte) IN
         /\ a.num = t.num
         /\ a.cap <= a.alloc
         /\ DOMAIN a.adr \subseteq 0..(a.alloc - 1)
         /\ DOMAIN a.adr = DOMAIN t.adr \cup {slot}
         /\ a.adr[slot] = byte
         /\ \A s \in DOMAIN t.adr : s # slot => a.adr[s] = t.adr[s]
<1> DEFINE grow == slot >= t.cap
           size == IF grow THEN t.num * 2 ELSE t.alloc
           kept == [s \in DOMAIN t.adr \cap 0..(size - 1) |-> t.adr[s]]
           a    == Anchored(t, slot, byte)
<1>1. DOMAIN t.adr \cap 0..(size - 1) = DOMAIN t.adr
  <2>1. CASE grow
    BY <2>1
  <2>2. CASE ~grow
    BY <2>2
  <2>3. QED
    BY <2>1, <2>2
<1>2. a.num = t.num /\ a.alloc = size /\ a.adr = Put(kept, slot, byte)
      /\ a.cap = IF grow THEN t.cap * 2 ELSE t.cap
  BY DEF Anchored
<1>3. a.cap <= a.alloc /\ slot \in 0..(size - 1)
  BY <1>2
<1>4. DOMAIN kept = DOMAIN t.adr /\ \A s \in DOMAIN t.adr : kept[s] = t.adr[s]
  BY <1>1
<1>5. DOMAIN t.adr \subseteq 0..(size - 1)
  BY <1>1
<1> HIDE DEF kept, size, a, grow
<1>6. /\ DOMAIN a.adr = DOMAIN t.adr \cup {slot}
      /\ a.adr[slot] = byte
      /\ \A s \in DOMAIN t.adr : s # slot => a.adr[s] = t.adr[s]
  BY <1>2, <1>4 DEF Put
<1>7. DOMAIN a.adr \subseteq 0..(a.alloc - 1)
  BY <1>2, <1>3, <1>5, <1>6
<1>8. QED
  BY <1>2, <1>3, <1>6, <1>7 DEF a
-----------------------------------------------------------------------------
(* Two stacks of frames owe the same anchors, at the same places. *)
SameOwners(fr, gr) ==
  /\ \A k \in 1..Len(fr) : Owns(fr[k]) =>
       k \in 1..Len(gr) /\ Owns(gr[k]) /\ gr[k].slot = fr[k].slot /\ gr[k].at = fr[k].at
  /\ \A k \in 1..Len(gr) : Owns(gr[k]) => k \in 1..Len(fr) /\ Owns(fr[k])

(* Frames that own the same jumps leave slots and landings as they are. *)
LEMMA OwnersKeep ==
  ASSUME NEW s, NEW t, NEW ld, NEW fr, NEW gr, SameOwners(fr, gr),
         SlotsOf(t, fr), LandingOf(s, t, fr, ld)
  PROVE  SlotsOf(t, gr) /\ LandingOf(s, t, gr, ld)
<1>1. \A k \in 1..Len(gr) : Owns(gr[k]) =>
        k \in 1..Len(fr) /\ Owns(fr[k]) /\ gr[k].slot = fr[k].slot /\ gr[k].at = fr[k].at
  BY DEF SameOwners
<1>2. \A k \in 1..Len(fr) : Owns(fr[k]) =>
        k \in 1..Len(gr) /\ Owns(gr[k]) /\ gr[k].slot = fr[k].slot /\ gr[k].at = fr[k].at
  BY DEF SameOwners
<1>3. SlotsOf(t, gr)
  BY <1>1, <1>2 DEF SlotsOf
<1>4. ASSUME NEW i \in 1..Len(s), s[i].ref.kind = "jump" PROVE Leads(s, t, gr, ld, i)
  <2>1. Leads(s, t, fr, ld, i)
    BY <1>4 DEF LandingOf
  <2>2. QED
    BY <1>2, <2>1 DEF Leads
<1>5. \A k \in 1..Len(gr) : Owns(gr[k]) => /\ gr[k].at \in 1..Len(s)
                                           /\ Before(s, gr[k].at, "jump") = gr[k].slot
  BY <1>1 DEF LandingOf
<1>6. QED
  BY <1>3, <1>4, <1>5 DEF LandingOf

(* Pushing operands other than forward branches moves no landing. *)
LEMMA GrowKeep ==
  ASSUME NEW s \in Seq(Insts), NEW u \in Seq(Insts), NEW t, NEW ld, NEW fr,
         \A j \in 1..Len(u) : u[j].ref.kind # "jump",
         LandingOf(s, t, fr, ld)
  PROVE  LandingOf(s \o u, t, fr, ld)
<1> DEFINE v == s \o u
<1>1. /\ Len(v) = Len(s) + Len(u)
      /\ \A i \in 1..Len(s) : v[i] = s[i]
      /\ \A i \in 1..Len(v) : v[i].ref.kind = "jump" => i \in 1..Len(s)
  OBVIOUS
<1>2. \A i \in 1..Len(s) : Before(v, i, "jump") = Before(s, i, "jump")
  BY BeforeAppend
<1> HIDE DEF v
<1>3. ASSUME NEW i \in 1..Len(v), v[i].ref.kind = "jump" PROVE Leads(v, t, fr, ld, i)
  <2>1. i \in 1..Len(s) /\ s[i].ref.kind = "jump"
    BY <1>1, <1>3
  <2>2. Leads(s, t, fr, ld, i) /\ Before(v, i, "jump") = Before(s, i, "jump")
    BY <1>2, <2>1 DEF LandingOf
  <2>3. QED
    BY <2>2 DEF Leads
<1>4. \A k \in 1..Len(fr) : Owns(fr[k]) => /\ fr[k].at \in 1..Len(v)
                                           /\ Before(v, fr[k].at, "jump") = fr[k].slot
  <2>1. 1..Len(s) \subseteq 1..Len(v)
    BY <1>1
  <2>2. QED
    BY <1>2, <2>1 DEF LandingOf
<1>5. QED
  BY <1>3, <1>4 DEF LandingOf, v

(* A construct that takes the next slot for the branch it pushes owes it. *)
LEMMA OpenKeep ==
  ASSUME NEW s \in Seq(Insts), NEW x \in Insts, NEW t, NEW w, NEW ld,
         NEW fr \in Seq(Frames), NEW f \in Frames,
         t.num \in Nat, w.num = t.num + 1, w.adr = t.adr,
         x.ref.kind = "jump", Owns(f), f.slot = t.num, f.at = Len(s) + 1,
         Before(s, Len(s) + 1, "jump") = t.num,
         SlotsOf(t, fr), LandingOf(s, t, fr, ld)
  PROVE  SlotsOf(w, Append(fr, f)) /\ LandingOf(s \o <<x>>, w, Append(fr, f), ld)
<1> DEFINE v  == s \o <<x>>
           gr == Append(fr, f)
<1>1. /\ Len(v) = Len(s) + 1
      /\ \A i \in 1..Len(s) : v[i] = s[i]
      /\ <<x>> \in Seq(Insts)
  OBVIOUS
<1>2. \A i \in 1..(Len(s) + 1) : Before(v, i, "jump") = Before(s, i, "jump")
  BY <1>1, BeforeAppend
<1>3. /\ Len(gr) = Len(fr) + 1 /\ gr[Len(fr) + 1] = f
      /\ \A k \in 1..Len(fr) : gr[k] = fr[k]
      /\ Len(fr) \in Nat /\ Len(s) \in Nat
  OBVIOUS
<1> HIDE DEF v, gr
<1>4. SlotsOf(w, gr)
  <2>1. /\ DOMAIN w.adr \subseteq 0..(w.num - 1)
        /\ \A k \in 1..Len(gr) : Owns(gr[k]) => /\ gr[k].slot \in 0..(w.num - 1)
                                                /\ gr[k].slot \notin DOMAIN w.adr
    <3>1. t.num \notin DOMAIN t.adr /\ DOMAIN w.adr \subseteq 0..(w.num - 1)
      BY DEF SlotsOf
    <3>2. ASSUME NEW k \in 1..Len(gr), Owns(gr[k]), k # Len(fr) + 1
          PROVE  gr[k].slot \in 0..(t.num - 1) /\ gr[k].slot \notin DOMAIN t.adr
      <4>1. k \in 1..Len(fr) /\ gr[k] = fr[k]
        BY <1>3, <3>2
      <4>2. QED
        BY <3>2, <4>1 DEF SlotsOf
    <3>3. t.num \in 0..(w.num - 1) /\ 0..(t.num - 1) \subseteq 0..(w.num - 1)
      OBVIOUS
    <3>4. QED
      BY <1>3, <3>1, <3>2, <3>3
  <2>2. \A k, l \in 1..Len(gr) :
          Owns(gr[k]) /\ Owns(gr[l]) /\ gr[k].slot = gr[l].slot => k = l
    <3>1. \A k \in 1..Len(gr) : k # Len(fr) + 1 => k \in 1..Len(fr)
      BY <1>3
    <3>2. \A k \in 1..Len(fr) : Owns(fr[k]) => fr[k].slot # t.num
      BY DEF SlotsOf
    <3>3. ASSUME NEW k \in 1..Len(gr), NEW l \in 1..Len(gr),
                 Owns(gr[k]), Owns(gr[l]), gr[k].slot = gr[l].slot
          PROVE  k = l
      <4>1. CASE k = Len(fr) + 1 /\ l = Len(fr) + 1
        BY <4>1
      <4>2. CASE k # Len(fr) + 1 /\ l # Len(fr) + 1
        <5>1. /\ k \in 1..Len(fr) /\ gr[k] = fr[k]
              /\ l \in 1..Len(fr) /\ gr[l] = fr[l]
          BY <1>3, <3>1, <4>2
        <5>2. QED
          BY <3>3, <5>1 DEF SlotsOf
      <4>3. CASE k = Len(fr) + 1 /\ l # Len(fr) + 1
        BY <1>3, <3>1, <3>2, <3>3, <4>3
      <4>4. CASE k # Len(fr) + 1 /\ l = Len(fr) + 1
        BY <1>3, <3>1, <3>2, <3>3, <4>4
      <4>5. QED
        BY <4>1, <4>2, <4>3, <4>4
    <3>4. QED
      BY <3>3
  <2>3. ASSUME NEW n \in 0..(w.num - 1)
        PROVE  n \in DOMAIN w.adr \/ \E k \in 1..Len(gr) : Owns(gr[k]) /\ gr[k].slot = n
    <3>1. CASE n = t.num
      BY <1>3, <3>1
    <3>2. CASE n # t.num
      <4>1. n \in 0..(t.num - 1)
        BY <3>2
      <4>2. QED
        BY <1>3, <4>1 DEF SlotsOf
    <3>3. QED
      BY <3>1, <3>2
  <2>4. QED
    BY <2>1, <2>2, <2>3 DEF SlotsOf
<1>5. LandingOf(v, w, gr, ld)
  <2>1. ASSUME NEW i \in 1..Len(v), v[i].ref.kind = "jump" PROVE Leads(v, w, gr, ld, i)
    <3>1. CASE i = Len(s) + 1
      BY <1>2, <1>3, <3>1 DEF Leads
    <3>2. CASE i # Len(s) + 1
      <4>1. i \in 1..Len(s) /\ Before(v, i, "jump") = Before(s, i, "jump")
        BY <1>1, <1>2, <1>3, <3>2
      <4>2. Leads(s, t, fr, ld, i)
        BY <1>1, <2>1, <4>1 DEF LandingOf
      <4>3. QED
        BY <1>3, <4>1, <4>2 DEF Leads
    <3>3. QED
      BY <3>1, <3>2
  <2>2. ASSUME NEW k \in 1..Len(gr), Owns(gr[k])
        PROVE  gr[k].at \in 1..Len(v) /\ Before(v, gr[k].at, "jump") = gr[k].slot
    <3>1. CASE k = Len(fr) + 1
      BY <1>1, <1>2, <1>3, <3>1
    <3>2. CASE k # Len(fr) + 1
      <4>1. k \in 1..Len(fr)
        BY <1>3, <3>2
      <4>2. QED
        BY <1>1, <1>2, <1>3, <2>2, <4>1 DEF LandingOf
    <3>3. QED
      BY <3>1, <3>2
  <2>3. QED
    BY <2>1, <2>2 DEF LandingOf
<1>6. QED
  BY <1>4, <1>5 DEF v, gr

(* A construct that ends anchors the slot it owns and owes nothing more; a, gr
   and md are the table, the stack and the landings after that. *)
AnchorsLast(s, t, a, ld, md, fr, gr, f, byte) ==
  /\ Len(fr) \in Nat \ {0} /\ f = fr[Len(fr)] /\ Owns(f)
  /\ Len(gr) = Len(fr) - 1 /\ \A k \in 1..(Len(fr) - 1) : gr[k] = fr[k]
  /\ a.num = t.num /\ DOMAIN a.adr = DOMAIN t.adr \cup {f.slot}
  /\ a.adr[f.slot] = byte
  /\ \A m \in DOMAIN t.adr : m # f.slot => a.adr[m] = t.adr[m]
  /\ DOMAIN md = DOMAIN ld \cup {f.at} /\ md[f.at].byte = byte
  /\ \A i \in DOMAIN ld : i # f.at => md[i] = ld[i]
  /\ SlotsOf(t, fr) /\ LandingOf(s, t, fr, ld)

(* Anchoring the jump of the frame on top keeps slots and landings. *)
LEMMA AnchorKeep ==
  ASSUME NEW s \in Seq(Insts), NEW t, NEW a, NEW ld, NEW md,
         NEW fr, NEW gr, NEW f, NEW byte,
         AnchorsLast(s, t, a, ld, md, fr, gr, f, byte)
  PROVE  SlotsOf(a, gr) /\ LandingOf(s, a, gr, md)
<1> USE DEF AnchorsLast
<1>1. /\ f.slot \in 0..(t.num - 1) /\ f.slot \notin DOMAIN t.adr
      /\ DOMAIN t.adr \subseteq 0..(t.num - 1)
      /\ f.at \in 1..Len(s) /\ Before(s, f.at, "jump") = f.slot
  BY DEF SlotsOf, LandingOf
<1>2. \A k \in 1..Len(gr) : k \in 1..Len(fr) /\ k # Len(fr) /\ gr[k] = fr[k]
  OBVIOUS
<1>3. \A k \in 1..Len(gr) : Owns(gr[k]) => gr[k].slot # f.slot
  <2>1. Len(fr) \in 1..Len(fr)
    OBVIOUS
  <2>2. \A k, l \in 1..Len(fr) :
          Owns(fr[k]) /\ Owns(fr[l]) /\ fr[k].slot = fr[l].slot => k = l
    BY DEF SlotsOf
  <2>3. QED
    BY <1>2, <2>1, <2>2
<1>4. \A k \in 1..Len(fr) : k # Len(fr) => k \in 1..Len(gr)
  OBVIOUS
<1>5. SlotsOf(a, gr)
  <2>1. ASSUME NEW m \in 0..(t.num - 1), m \notin DOMAIN t.adr, m # f.slot
        PROVE  \E k \in 1..Len(gr) : Owns(gr[k]) /\ gr[k].slot = m
    <3>1. PICK k \in 1..Len(fr) : Owns(fr[k]) /\ fr[k].slot = m
      BY <2>1 DEF SlotsOf
    <3>2. QED
      BY <1>2, <1>4, <2>1, <3>1
  <2>2. \A k \in 1..Len(gr) : Owns(gr[k]) =>
          /\ gr[k].slot \in 0..(a.num - 1) /\ gr[k].slot \notin DOMAIN a.adr
    BY <1>2, <1>3 DEF SlotsOf
  <2>3. \A k, l \in 1..Len(gr) :
          Owns(gr[k]) /\ Owns(gr[l]) /\ gr[k].slot = gr[l].slot => k = l
    BY <1>2 DEF SlotsOf
  <2>4. QED
    BY <1>1, <2>1, <2>2, <2>3 DEF SlotsOf
<1>6. ASSUME NEW i \in 1..Len(s), s[i].ref.kind = "jump" PROVE Leads(s, a, gr, md, i)
  <2> DEFINE slot == Before(s, i, "jump")
  <2>1. CASE slot \in DOMAIN t.adr /\ i \in DOMAIN ld /\ t.adr[slot] = ld[i].byte
    BY <1>1, <2>1 DEF Leads
  <2>2. CASE \E k \in 1..Len(fr) : Owns(fr[k]) /\ fr[k].slot = slot /\ fr[k].at = i
    <3>1. PICK k \in 1..Len(fr) : Owns(fr[k]) /\ fr[k].slot = slot /\ fr[k].at = i
      BY <2>2
    <3>2. CASE k = Len(fr)
      BY <3>1, <3>2 DEF Leads
    <3>3. CASE k # Len(fr)
      BY <1>2, <1>4, <3>1, <3>3 DEF Leads
    <3>4. QED
      BY <3>2, <3>3
  <2>3. QED
    BY <1>6, <2>1, <2>2 DEF LandingOf, Leads
<1>7. \A k \in 1..Len(gr) : Owns(gr[k]) => /\ gr[k].at \in 1..Len(s)
                                           /\ Before(s, gr[k].at, "jump") = gr[k].slot
  BY <1>2 DEF LandingOf
<1>8. QED
  BY <1>5, <1>6, <1>7 DEF LandingOf
-----------------------------------------------------------------------------
(* While code is generated no instruction has been patched, so the cursors and
   the patched prefix have nothing to say. *)
LEMMA GrowPlaceholders ==
  ASSUME TypeOK, Placeholders, rd.inst = 1, calls' \in Seq(Funcs),
         NEW s \in Seq(Insts), insts' = insts \o s, rd' = rd,
         Len(calls) <= Len(calls'),
         \A j \in 1..Len(s) : Unpatched(s[j], Len(calls'))
  PROVE  Placeholders'
<1>1. insts \in Seq(Insts) /\ Len(calls) \in Nat /\ Len(calls') \in Nat
  BY SMTT(30) DEF TypeOK
<1>2. \A x : Unpatched(x, Len(calls)) => Unpatched(x, Len(calls'))
  BY <1>1 DEF Unpatched
<1>3. ASSUME NEW i \in 1..Len(insts') PROVE Unpatched(insts'[i], Len(calls'))
  <2>1. CASE i <= Len(insts)
    <3>1. i \in 1..Len(insts) /\ insts'[i] = insts[i] /\ i >= rd.inst
      BY <1>1, <2>1
    <3>2. QED
      BY <1>2, <3>1 DEF Placeholders
  <2>2. CASE i > Len(insts)
    <3>1. i - Len(insts) \in 1..Len(s) /\ insts'[i] = s[i - Len(insts)]
      BY <1>1, <2>2
    <3>2. QED
      BY <3>1
  <2>3. QED
    BY <1>1, <2>1, <2>2
<1>4. QED
  BY <1>3 DEF Placeholders

(* What is left to show of a step of generation: nothing is patched yet. *)
LEMMA CodeStep ==
  ASSUME IInv, TypeOK', phase \in {"globals", "code"}, phase' \in {"globals", "code"},
         phase' = "globals" => frames' = <<>> /\ insts' = <<>>,
         NEW s \in Seq(Insts), insts' = insts \o s, rd' = rd,
         Len(calls) <= Len(calls'),
         \A j \in 1..Len(s) : Unpatched(s[j], Len(calls')),
         Nesting', JumpTableInBounds', Slots', Landing',
         Before(insts', Len(insts') + 1, "jump") = jumps'.num,
         \A q \in Queues : Before(insts', Len(insts') + 1, q) = Len(pend'[q])
  PROVE  IInv'
<1>1. rd = [inst |-> 1, jump |-> 0, int |-> 0, real |-> 0, str |-> 0]
  BY DEF IInv, Stages
<1>2. Len(insts') \in Nat /\ calls' \in Seq(Funcs)
  BY DEF TypeOK
<1>3. Stages'
  BY <1>1, <1>2 DEF Stages
<1>4. Placeholders'
  BY <1>1, <1>2, GrowPlaceholders DEF IInv
<1>5. Turn'
  <2>1. Before(insts', rd'.inst, "jump") = 0
        /\ \A q \in Queues : Before(insts', rd'.inst, q) = 0
    BY <1>1, BeforeFirst
  <2>2. rd'.jump = 0 /\ \A q \in Queues : rd'[q] = 0
    BY <1>1 DEF Queues
  <2>3. QED
    BY <2>1, <2>2 DEF Turn
<1>6. BranchesLand'
  BY <1>1 DEF BranchesLand
<1>7. QED
  BY <1>3, <1>4, <1>5, <1>6 DEF IInv

(* A step that neither takes nor anchors a slot. *)
LEMMA QuietStep ==
  ASSUME IInv, TypeOK', phase \in {"globals", "code"}, phase' \in {"globals", "code"},
         phase' = "globals" => frames' = <<>> /\ insts' = <<>>,
         NEW s \in Seq(Insts), insts' = insts \o s,
         rd' = rd, jumps' = jumps, land' = land, Len(calls) <= Len(calls'),
         \A j \in 1..Len(s) : s[j].ref.kind # "jump" /\ Unpatched(s[j], Len(calls')),
         SameOwners(frames, frames'), Nesting',
         Before(insts', Len(insts') + 1, "jump") = Before(insts, Len(insts) + 1, "jump"),
         \A q \in Queues : Before(insts', Len(insts') + 1, q) = Len(pend'[q])
  PROVE  IInv'
<1>1. insts \in Seq(Insts)
  BY DEF IInv, TypeOK
<1>2. SlotsOf(jumps, frames') /\ LandingOf(insts, jumps, frames', land)
  BY OwnersKeep DEF IInv, Slots, Landing
<1>3. LandingOf(insts \o s, jumps, frames', land)
  BY <1>1, <1>2, GrowKeep
<1>4. Slots' /\ Landing'
  BY <1>2, <1>3 DEF Slots, Landing
<1>5. JumpTableInBounds'
  BY DEF IInv, JumpTableInBounds
<1>6. Before(insts', Len(insts') + 1, "jump") = jumps'.num
  BY DEF IInv, Turn
<1>7. QED
  BY <1>4, <1>5, <1>6, CodeStep

(* A step that pushes nothing and only opens or closes what owns no slot. *)
LEMMA SilentStep ==
  ASSUME IInv, TypeOK', phase \in {"globals", "code"}, phase' \in {"globals", "code"},
         phase' = "globals" => frames' = <<>>, 
         insts' = insts, rd' = rd, jumps' = jumps, land' = land, calls' = calls,
         phase' = "globals" => phase = "globals",
         pend' = pend, SameOwners(frames, frames'), Nesting'
  PROVE  IInv'
<1>1. insts \in Seq(Insts) /\ Len(calls) \in Nat
  BY DEF IInv, TypeOK
<1> DEFINE s == <<>>
<1>2. s \in Seq(Insts) /\ insts' = insts \o s /\ \A j \in 1..Len(s) : FALSE
  BY <1>1
<1> HIDE DEF s
<1>3. \A q \in Queues : Before(insts', Len(insts') + 1, q) = Len(pend'[q])
  BY DEF IInv, Turn
<1>4. phase' = "globals" => insts' = <<>>
  BY DEF IInv, Stages
<1>5. Len(calls) <= Len(calls')
  BY <1>1
<1>6. QED
  BY <1>2, <1>3, <1>4, <1>5, QuietStep
-----------------------------------------------------------------------------
(* The stack of frames: going on in the innermost, opening and closing one. *)
LEMMA TopFrame ==
  ASSUME NEW fr \in Seq(Frames), fr # <<>>, NEW g \in Frames, NestingOf(fr),
         g.kind = fr[Len(fr)].kind, FrameAt(g, Len(fr))
  PROVE  LET gr == [fr EXCEPT ![Len(fr)] = g] IN
         /\ NestingOf(gr)
         /\ g.slot = fr[Len(fr)].slot /\ g.at = fr[Len(fr)].at => SameOwners(fr, gr)
<1> DEFINE gr == [fr EXCEPT ![Len(fr)] = g]
<1>1. /\ Len(gr) = Len(fr) /\ Len(fr) \in 1..Len(fr) /\ gr[Len(fr)] = g
      /\ \A k \in 1..Len(fr) : k # Len(fr) => gr[k] = fr[k]
  OBVIOUS
<1> HIDE DEF gr
<1>2. NestingOf(gr)
  BY <1>1 DEF NestingOf
<1>3. Owns(g) <=> Owns(fr[Len(fr)])
  BY DEF Owns
<1>4. g.slot = fr[Len(fr)].slot /\ g.at = fr[Len(fr)].at => SameOwners(fr, gr)
  BY <1>1, <1>3 DEF SameOwners
<1>5. QED
  BY <1>2, <1>4 DEF gr

(* A frame that is pushed nests in those below it. *)
LEMMA PushFrame ==
  ASSUME NEW fr \in Seq(Frames), NEW g \in Frames, NestingOf(fr),
         FrameAt(g, Len(fr) + 1)
  PROVE  /\ NestingOf(Append(fr, g))
         /\ ~Owns(g) => SameOwners(fr, Append(fr, g))
<1> DEFINE gr == Append(fr, g)
<1>1. /\ Len(gr) = Len(fr) + 1 /\ Len(fr) \in Nat /\ gr[Len(fr) + 1] = g
      /\ \A k \in 1..Len(fr) : gr[k] = fr[k]
      /\ \A k \in 1..Len(gr) : k # Len(fr) + 1 => k \in 1..Len(fr)
      /\ \A k \in 1..Len(fr) : k \in 1..Len(gr)
  OBVIOUS
<1> HIDE DEF gr
<1>2. NestingOf(gr)
  BY <1>1 DEF NestingOf
<1>3. ~Owns(g) => SameOwners(fr, gr)
  BY <1>1 DEF SameOwners
<1>4. QED
  BY <1>2, <1>3 DEF gr

(* The frames below one that is popped still nest. *)
LEMMA PopFrame ==
  ASSUME NEW fr \in Seq(Frames), fr # <<>>, NestingOf(fr)
  PROVE  LET gr == SubSeq(fr, 1, Len(fr) - 1) IN
         /\ Len(fr) \in Nat \ {0} /\ Len(gr) = Len(fr) - 1 /\ gr \in Seq(Frames)
         /\ \A k \in 1..(Len(fr) - 1) : gr[k] = fr[k]
         /\ NestingOf(gr)
         /\ ~Owns(fr[Len(fr)]) => SameOwners(fr, gr)
<1> DEFINE gr == SubSeq(fr, 1, Len(fr) - 1)
<1>1. Len(fr) \in Nat \ {0}
  OBVIOUS
<1>2. /\ Len(gr) = Len(fr) - 1 /\ gr \in Seq(Frames)
      /\ \A k \in 1..(Len(fr) - 1) : gr[k] = fr[k]
  <2> DEFINE n == Len(fr) - 1
  <2>1. n \in Int /\ 1 \in Int /\ \A i \in 1..n : fr[i] \in Frames
    BY <1>1
  <2> HIDE DEF n
  <2>2. /\ SubSeq(fr, 1, n) \in Seq(Frames)
        /\ Len(SubSeq(fr, 1, n)) = IF 1 <= n THEN n - 1 + 1 ELSE 0
        /\ \A i \in 1..(n - 1 + 1) : SubSeq(fr, 1, n)[i] = fr[1 + i - 1]
    BY <2>1, SubSeqProperties
  <2>3. n \in Nat /\ n = Len(fr) - 1
    BY <1>1 DEF n
  <2>4. /\ Len(SubSeq(fr, 1, n)) = n
        /\ \A i \in 1..n : SubSeq(fr, 1, n)[i] = fr[i]
    BY <2>2, <2>3
  <2>5. gr = SubSeq(fr, 1, n)
    BY DEF n
  <2> HIDE DEF gr
  <2>6. QED
    BY <2>2, <2>3, <2>4, <2>5
<1>3. /\ \A k \in 1..Len(gr) : k \in 1..Len(fr) /\ gr[k] = fr[k]
      /\ \A k \in 1..Len(fr) : k # Len(fr) => k \in 1..Len(gr)
  BY <1>1, <1>2
<1> HIDE DEF gr
<1>4. NestingOf(gr)
  BY <1>3 DEF NestingOf
<1>5. ~Owns(fr[Len(fr)]) => SameOwners(fr, gr)
  BY <1>3 DEF SameOwners
<1>6. QED
  BY <1>1, <1>2, <1>4, <1>5 DEF gr

(* The outermost frame is the only one of a body: closing it empties the stack. *)
LEMMA OnlyBody ==
  ASSUME NEW fr \in Seq(Frames), fr # <<>>, NestingOf(fr),
         fr[Len(fr)].kind \in {"main", "func"}
  PROVE  Len(fr) = 1 /\ SameOwners(fr, <<>>)
<1>1. Len(fr) \in 1..Len(fr)
  OBVIOUS
<1>2. Len(fr) = 1
  BY <1>1 DEF NestingOf, FrameAt
<1>3. QED
  BY <1>2 DEF SameOwners, Owns
-----------------------------------------------------------------------------
(* The pushes of generation. *)
LEMMA PlainInst ==
  ASSUME NEW op \in Ops, op \notin {"LA0", "LV0"}, NEW n
  PROVE  /\ Plain(op) \in Insts /\ Plain(op).ref.kind = "none"
         /\ Unpatched(Plain(op), n)
  BY DEF Insts, Plain, Inst, Refs, Kinds, Unpatched

(* A step that pushes one operand for queue q and queues its offset; nothing or
   a plain instruction follows it. *)
LEMMA QueuedStep ==
  ASSUME IInv, TypeOK', phase = "code", phase' = phase, frames' = frames,
         NEW x \in Insts, NEW q \in Queues, NEW off, NEW s \in Seq(Insts),
         insts' = insts \o s,
         s = <<x>> \/ \E y \in Insts : s = <<x, y>> /\ y.ref.kind = "none",
         x.ref.kind = q, \A j \in 1..Len(s) : Unpatched(s[j], Len(calls)),
         pend' = [pend EXCEPT ![q] = Append(@, off)],
         rd' = rd, jumps' = jumps, land' = land, calls' = calls
  PROVE  IInv'
<1>1. insts \in Seq(Insts) /\ Len(calls) <= Len(calls') /\ pend \in [Queues -> Seq(Nat)]
  BY DEF IInv, TypeOK
<1>2. \A j \in 1..Len(s) : s[j].ref.kind # "jump"
  BY DEF Queues
<1>3. \A kind \in Queues : Before(insts', Len(insts') + 1, kind) =
        Before(insts, Len(insts) + 1, kind) + (IF q = kind THEN 1 ELSE 0)
  <2> SUFFICES ASSUME NEW kind \in Queues
               PROVE  Before(insts', Len(insts') + 1, kind) =
                        Before(insts, Len(insts) + 1, kind) + (IF q = kind THEN 1 ELSE 0)
    OBVIOUS
  <2> DEFINE v == insts \o <<x>>
  <2>1. Before(v, Len(v) + 1, kind) =
          Before(insts, Len(insts) + 1, kind) + (IF q = kind THEN 1 ELSE 0)
    BY <1>1, BeforeOne
  <2>2. CASE s = <<x>>
    BY <2>1, <2>2
  <2>3. CASE \E y \in Insts : s = <<x, y>> /\ y.ref.kind = "none"
    <3>1. PICK y \in Insts : s = <<x, y>> /\ y.ref.kind = "none"
      BY <2>3
    <3> DEFINE u == <<y>>
    <3>2. insts' = v \o u /\ v \in Seq(Insts)
      BY <1>1, <3>1, PushPair
    <3>3. u \in Seq(Insts) /\ \A j \in 1..Len(u) : u[j].ref.kind # kind
      BY <3>1 DEF Queues
    <3> HIDE DEF u, v
    <3>4. QED
      BY <2>1, <3>2, <3>3, BeforeGrow
  <2>4. QED
    BY <2>2, <2>3
<1>4. Before(insts', Len(insts') + 1, "jump") = Before(insts, Len(insts) + 1, "jump")
  BY <1>1, <1>2, BeforeGrow
<1>5. \A r \in Queues : Before(insts', Len(insts') + 1, r) = Len(pend'[r])
  <2>1. /\ Len(pend'[q]) = Len(pend[q]) + 1
        /\ \A r \in Queues : r # q => pend'[r] = pend[r]
        /\ \A r \in Queues : Len(pend[r]) \in Nat
    BY <1>1
  <2>2. \A r \in Queues : Before(insts, Len(insts) + 1, r) = Len(pend[r])
    BY DEF IInv, Turn
  <2>3. QED
    BY <1>3, <2>1, <2>2
<1>6. SameOwners(frames, frames') /\ Nesting'
  BY DEF SameOwners, IInv, Nesting
<1>7. \A j \in 1..Len(s) : s[j].ref.kind # "jump" /\ Unpatched(s[j], Len(calls'))
  BY <1>2
<1>8. QED
  BY <1>1, <1>4, <1>5, <1>6, <1>7, QuietStep

(* A step that pushes instructions none of which waits in a queue or a slot. *)
LEMMA UnqueuedStep ==
  ASSUME IInv, TypeOK', phase = "code", phase' = phase,
         NEW s \in Seq(Insts), insts' = insts \o s,
         \A j \in 1..Len(s) : s[j].ref.kind \notin Queues \cup {"jump"},
         \A j \in 1..Len(s) : Unpatched(s[j], Len(calls')),
         pend' = pend, rd' = rd, jumps' = jumps, land' = land,
         Len(calls) <= Len(calls'), SameOwners(frames, frames'), Nesting'
  PROVE  IInv'
<1>1. insts \in Seq(Insts)
  BY DEF IInv, TypeOK
<1>2. \A kind \in Queues \cup {"jump"} :
        Before(insts', Len(insts') + 1, kind) = Before(insts, Len(insts) + 1, kind)
  BY <1>1, BeforeGrow
<1>3. \A q \in Queues : Before(insts', Len(insts') + 1, q) = Len(pend'[q])
  BY <1>2 DEF IInv, Turn
<1>4. \A j \in 1..Len(s) : s[j].ref.kind # "jump" /\ Unpatched(s[j], Len(calls'))
  OBVIOUS
<1>5. QED
  BY <1>2, <1>3, <1>4, QuietStep
-----------------------------------------------------------------------------
(* A construct that opens with a branch takes the next slot. *)
LEMMA OpenStep ==
  ASSUME IInv, TypeOK', phase = "code", phase' = phase,
         NEW f \in Frames, Owns(f), f.slot = jumps.num, f.at = Len(insts) + 1,
         f.kind \notin {"main", "func"}, f.stage = "cond", frames # <<>>,
         frames' = Append(frames, f),
         insts' = insts \o <<Inst("LA0", AJUMP, "jump", 0)>>,
         jumps' = [jumps EXCEPT !.num = @ + 1],
         pend' = pend, rd' = rd, land' = land, calls' = calls
  PROVE  IInv'
<1> DEFINE x == Inst("LA0", AJUMP, "jump", 0)
           s == <<x>>
<1>1. /\ insts \in Seq(Insts) /\ frames \in Seq(Frames) /\ jumps.num \in Nat
      /\ Len(calls) <= Len(calls') /\ Len(frames) \in Nat \ {0}
  BY DEF IInv, TypeOK
<1>2. x \in Insts /\ x.ref.kind = "jump" /\ Unpatched(x, Len(calls'))
  BY DEF Inst, Insts, Ops, Refs, Kinds, AJUMP, Unpatched
<1> HIDE DEF x
<1>3. s \in Seq(Insts) /\ \A j \in 1..Len(s) : Unpatched(s[j], Len(calls'))
  BY <1>2
<1>4. jumps'.num = jumps.num + 1 /\ jumps'.adr = jumps.adr
      /\ jumps'.cap = jumps.cap /\ jumps'.alloc = jumps.alloc
  BY DEF IInv, TypeOK
<1>5. Slots' /\ Landing'
  <2>1. Before(insts, Len(insts) + 1, "jump") = jumps.num
        /\ SlotsOf(jumps, frames) /\ LandingOf(insts, jumps, frames, land)
    BY DEF IInv, Turn, Slots, Landing
  <2>2. SlotsOf(jumps', frames') /\ LandingOf(insts', jumps', frames', land)
    BY <1>1, <1>2, <1>4, <2>1, OpenKeep DEF x
  <2>3. QED
    BY <2>2 DEF Slots, Landing
<1>6. JumpTableInBounds'
  BY <1>4 DEF IInv, JumpTableInBounds
<1>7. Nesting'
  <2>1. FrameAt(f, Len(frames) + 1)
    BY <1>1 DEF FrameAt
  <2>2. QED
    BY <1>1, <2>1, PushFrame DEF IInv, Nesting
<1>8. \A kind : Before(insts', Len(insts') + 1, kind) =
        Before(insts, Len(insts) + 1, kind) + (IF "jump" = kind THEN 1 ELSE 0)
  BY <1>1, <1>2, BeforeOne DEF x
<1>9. /\ Before(insts', Len(insts') + 1, "jump") = jumps'.num
      /\ \A q \in Queues : Before(insts', Len(insts') + 1, q) = Len(pend'[q])
  <2>1. /\ Before(insts, Len(insts) + 1, "jump") = jumps.num
        /\ \A q \in Queues : Before(insts, Len(insts) + 1, q) = Len(pend[q])
    BY DEF IInv, Turn
  <2>2. pend \in [Queues -> Seq(Nat)]
    BY DEF IInv, TypeOK
  <2>3. \A q \in Queues : Len(pend[q]) \in Nat
    BY <2>2
  <2>4. \A q \in Queues : q # "jump"
    BY DEF Queues
  <2>5. Before(insts', Len(insts') + 1, "jump") = jumps'.num
    BY <1>4, <1>8, <2>1
  <2>6. \A q \in Queues : Before(insts', Len(insts') + 1, q) = Before(insts, Len(insts) + 1, q)
    <3>1. \A q \in Queues : Before(insts, Len(insts) + 1, q) + 0 = Before(insts, Len(insts) + 1, q)
      BY <2>1, <2>3
    <3>2. QED
      BY <1>8, <2>4, <3>1
  <2>7. QED
    BY <2>1, <2>5, <2>6
<1>10. insts' = insts \o s
  BY DEF x
<1> HIDE DEF s
<1>11. QED
  BY <1>1, <1>3, <1>5, <1>6, <1>7, <1>9, <1>10, CodeStep

(* Anchoring the slot of the innermost frame, whatever was pushed before: the
   table, the stack without that frame and the landings fit again. *)
LEMMA AnchorTop ==
  ASSUME IInv, frames # <<>>, Owns(Top), NEW byte, NEW n, LandHere(Top.at, n, byte)
  PROVE  LET a == Anchored(jumps, Top.slot, byte) IN
         /\ SlotsOf(a, Pop) /\ LandingOf(insts, a, Pop, land')
         /\ a.num = jumps.num /\ a.cap <= a.alloc
         /\ DOMAIN a.adr \subseteq 0..(a.alloc - 1)
         /\ \A s \in DOMAIN jumps.adr : s \in DOMAIN a.adr /\ a.adr[s] = jumps.adr[s]
<1> DEFINE a == Anchored(jumps, Top.slot, byte)
           f == Top
           gr == Pop
           md == land'
<1>1. /\ insts \in Seq(Insts) /\ frames \in Seq(Frames)
      /\ jumps.num \in Nat /\ jumps.cap \in Nat /\ jumps.alloc \in Nat
      /\ jumps.cap <= jumps.alloc /\ DOMAIN jumps.adr \subseteq 0..(jumps.alloc - 1)
      /\ SlotsOf(jumps, frames) /\ LandingOf(insts, jumps, frames, land)
      /\ DOMAIN jumps.adr \subseteq 0..(jumps.num - 1)
  BY DEF IInv, TypeOK, JumpTableInBounds, Slots, Landing, SlotsOf
<1>2. /\ Len(frames) \in Nat \ {0} /\ Len(gr) = Len(frames) - 1 /\ gr \in Seq(Frames)
      /\ \A k \in 1..(Len(frames) - 1) : gr[k] = frames[k]
  BY <1>1, PopFrame DEF Pop, IInv, Nesting
<1>3. f = frames[Len(frames)]
  BY DEF Top
<1>4. f.slot \in 0..(jumps.num - 1) /\ f.slot \notin DOMAIN jumps.adr
  <2>1. Len(frames) \in 1..Len(frames)
    BY <1>2
  <2>2. QED
    BY <1>1, <1>3, <2>1 DEF SlotsOf
<1>5. /\ a.num = jumps.num /\ a.cap <= a.alloc
      /\ DOMAIN a.adr \subseteq 0..(a.alloc - 1)
      /\ DOMAIN a.adr = DOMAIN jumps.adr \cup {f.slot}
      /\ a.adr[f.slot] = byte
      /\ \A m \in DOMAIN jumps.adr : m # f.slot => a.adr[m] = jumps.adr[m]
  <2>1. \A slot \in 0..(jumps.num - 1) : LET b == Anchored(jumps, slot, byte) IN
         /\ b.num = jumps.num
         /\ b.cap <= b.alloc
         /\ DOMAIN b.adr \subseteq 0..(b.alloc - 1)
         /\ DOMAIN b.adr = DOMAIN jumps.adr \cup {slot}
         /\ b.adr[slot] = byte
         /\ \A s \in DOMAIN jumps.adr : s # slot => b.adr[s] = jumps.adr[s]
    BY <1>1, AnchoredSlots
  <2>2. QED
    BY <1>4, <2>1
<1>6. /\ DOMAIN md = DOMAIN land \cup {f.at}
      /\ md[f.at].byte = byte
      /\ \A i \in DOMAIN land : i # f.at => md[i] = land[i]
  <2>1. md = Put(land, f.at, [inst |-> n, byte |-> byte])
    BY DEF LandHere
  <2> DEFINE v == [inst |-> n, byte |-> byte]
  <2>2. v.byte = byte /\ md = Put(land, f.at, v)
    BY <2>1
  <2> HIDE DEF v, f, md
  <2>3. /\ DOMAIN md = DOMAIN land \cup {f.at}
        /\ md[f.at] = v
        /\ \A i \in DOMAIN land : i # f.at => md[i] = land[i]
    BY <2>2 DEF Put
  <2>4. QED
    BY <2>2, <2>3
<1>7. Owns(f)
  OBVIOUS
<1> HIDE DEF a, f, gr, md
<1>8. SlotsOf(a, gr) /\ LandingOf(insts, a, gr, md)
  <2>1. AnchorsLast(insts, jumps, a, land, md, frames, gr, f, byte)
    BY <1>1, <1>2, <1>3, <1>5, <1>6, <1>7 DEF AnchorsLast
  <2>2. QED
    BY <1>1, <2>1, AnchorKeep
<1>9. QED
  BY <1>4, <1>5, <1>8 DEF a, f, gr, md

(* A construct that ends: its slot is anchored, its frame is gone. *)
LEMMA CloseStep ==
  ASSUME IInv, TypeOK', phase = "code", phase' = phase, frames # <<>>, Owns(Top),
         NEW byte, NEW n, LandHere(Top.at, n, byte),
         jumps' = Anchored(jumps, Top.slot, byte), frames' = Pop,
         NEW s \in Seq(Insts), insts' = insts \o s,
         \A j \in 1..Len(s) : s[j].ref.kind \notin Queues \cup {"jump"},
         \A j \in 1..Len(s) : Unpatched(s[j], Len(calls)),
         pend' = pend, rd' = rd, calls' = calls
  PROVE  IInv'
<1>1. insts \in Seq(Insts) /\ frames \in Seq(Frames) /\ Len(calls) <= Len(calls')
  BY DEF IInv, TypeOK
<1>2. /\ SlotsOf(jumps', frames') /\ LandingOf(insts, jumps', frames', land')
      /\ jumps'.num = jumps.num /\ jumps'.cap <= jumps'.alloc
      /\ DOMAIN jumps'.adr \subseteq 0..(jumps'.alloc - 1)
  BY AnchorTop
<1>3. LandingOf(insts', jumps', frames', land')
  BY <1>1, <1>2, GrowKeep
<1>4. Slots' /\ Landing' /\ JumpTableInBounds'
  BY <1>2, <1>3 DEF Slots, Landing, JumpTableInBounds
<1>5. Nesting'
  BY <1>1, PopFrame DEF IInv, Nesting, Pop
<1>6. \A kind \in Queues \cup {"jump"} :
        Before(insts', Len(insts') + 1, kind) = Before(insts, Len(insts) + 1, kind)
  BY <1>1, BeforeGrow, ZenonT(60)
<1>7. /\ Before(insts', Len(insts') + 1, "jump") = jumps'.num
      /\ \A q \in Queues : Before(insts', Len(insts') + 1, q) = Len(pend'[q])
  BY <1>2, <1>6 DEF IInv, Turn
<1>8. \A j \in 1..Len(s) : Unpatched(s[j], Len(calls'))
  OBVIOUS
<1>9. QED
  BY <1>1, <1>4, <1>5, <1>7, <1>8, CodeStep

(* The else part: the first slot is anchored and the second one taken. *)
LEMMA ElseStep ==
  ASSUME IInv, TypeOK', phase = "code", Else
  PROVE  IInv'
<1> DEFINE x  == Inst("LA0", AJUMP, "jump", 0)
           y  == Plain("BR")
           s  == <<x, y>>
           a  == Anchored(jumps, Top.slot, After(s))
           g  == [Top EXCEPT !.stage = "else", !.slot = jumps.num,
                             !.at = Len(insts) + 1, !.mark = Len(insts) + 2]
<1>1. /\ frames # <<>> /\ Top.stage = "then" /\ insts' = insts \o s
      /\ LandHere(Top.at, Len(insts) + 3, After(s))
      /\ jumps' = [a EXCEPT !.num = @ + 1]
      /\ frames' = [frames EXCEPT ![Len(frames)] = g]
      /\ phase' = phase /\ pend' = pend /\ rd' = rd /\ calls' = calls
  BY DEF Else, InCode, Emit, SetTop
<1>2. /\ insts \in Seq(Insts) /\ frames \in Seq(Frames) /\ jumps.num \in Nat
      /\ pend \in [Queues -> Seq(Nat)] /\ Len(calls) <= Len(calls')
      /\ Len(frames) \in Nat \ {0} /\ Len(insts) \in Nat
  <2>1. /\ insts \in Seq(Insts) /\ frames \in Seq(Frames) /\ jumps.num \in Nat
        /\ pend \in [Queues -> Seq(Nat)] /\ calls \in Seq(Funcs)
    BY DEF IInv, TypeOK
  <2>2. Len(insts) \in Nat /\ Len(frames) \in Nat \ {0} /\ Len(calls) \in Nat
    BY <1>1, <2>1
  <2>3. QED
    BY <1>1, <2>1, <2>2
<1>3. /\ x \in Insts /\ x.ref.kind = "jump" /\ Unpatched(x, Len(calls'))
      /\ y \in Insts /\ y.ref.kind = "none" /\ Unpatched(y, Len(calls'))
  <2>1. "BR" \in Ops /\ "BR" \notin {"LA0", "LV0"}
    BY DEF Ops
  <2>2. QED
    BY <2>1, PlainInst DEF Inst, Insts, Ops, Refs, Kinds, AJUMP, Unpatched
<1>4. Top \in Frames /\ Top.kind = "ifelse" /\ Len(frames) \in 1..Len(frames)
      /\ FrameAt(Top, Len(frames))
  BY <1>1, <1>2 DEF Top, IInv, Nesting, NestingOf, FrameAt
<1>5. /\ g \in Frames /\ g.kind = Top.kind /\ g.stage = "else"
      /\ g.slot = jumps.num /\ g.at = Len(insts) + 1
  <2>1. Len(insts) + 1 \in Nat /\ Len(insts) + 2 \in Nat
    BY <1>2
  <2>2. g = InElse(Top, jumps.num, Len(insts) + 1, Len(insts) + 2)
    BY DEF InElse
  <2> HIDE DEF g
  <2> DEFINE k == jumps.num
             l == Len(insts) + 1
             m == Len(insts) + 2
  <2>3. k \in Nat /\ l \in Nat /\ m \in Nat /\ g = InElse(Top, k, l, m)
    BY <1>2, <2>1, <2>2
  <2> HIDE DEF k, l, m
  <2>4. g.kind = Top.kind /\ g.stage = "else" /\ g.slot = k /\ g.at = l
    BY <1>4, <2>3 DEF InElse, Frames
  <2>5. g \in Frames
    BY <1>4, <2>3, ElseFrame
  <2>6. QED
    BY <2>4, <2>5 DEF k, l
<1>6. /\ SlotsOf(a, Pop) /\ LandingOf(insts, a, Pop, land')
      /\ a.num = jumps.num /\ a.cap <= a.alloc
      /\ DOMAIN a.adr \subseteq 0..(a.alloc - 1)
  BY <1>1, <1>4, AnchorTop DEF Owns
<1>7. /\ jumps'.num = jumps.num + 1 /\ jumps'.cap = a.cap
      /\ jumps'.alloc = a.alloc /\ jumps'.adr = a.adr
  <2>1. a = [num |-> a.num, cap |-> a.cap, alloc |-> a.alloc, adr |-> a.adr]
    BY DEF Anchored
  <2> HIDE DEF a
  <2>2. QED
    BY <1>1, <1>6, <2>1
<1>8. s \in Seq(Insts) /\ \A j \in 1..Len(s) : Unpatched(s[j], Len(calls'))
  <2> HIDE DEF x, y
  <2>1. QED
    BY <1>3
<1>9. insts' = (insts \o <<x>>) \o <<y>> /\ insts \o <<x>> \in Seq(Insts)
  <2> HIDE DEF x, y
  <2>1. QED
    BY <1>1, <1>2, <1>3, PushPair
<1> HIDE DEF x, y, s, a, g
<1>10. frames' = Append(Pop, g) /\ Pop \in Seq(Frames) /\ NestingOf(Pop)
  <2>1. /\ Len(Pop) = Len(frames) - 1 /\ Pop \in Seq(Frames) /\ NestingOf(Pop)
        /\ \A k \in 1..(Len(frames) - 1) : Pop[k] = frames[k]
    BY <1>1, <1>2, PopFrame DEF Pop, IInv, Nesting
  <2> DEFINE v == Append(Pop, g)
             w == [frames EXCEPT ![Len(frames)] = g]
  <2>2. v \in Seq(Frames) /\ Len(v) = Len(frames) /\ v[Len(frames)] = g
        /\ \A k \in 1..(Len(frames) - 1) : v[k] = frames[k]
    BY <1>2, <1>5, <2>1
  <2>3. w \in Seq(Frames) /\ Len(w) = Len(frames) /\ w[Len(frames)] = g
        /\ \A k \in 1..(Len(frames) - 1) : w[k] = frames[k]
    BY <1>2, <1>5
  <2> HIDE DEF v, w
  <2>4. \A k \in 1..Len(v) : v[k] = w[k]
    BY <1>2, <2>2, <2>3
  <2>5. v = w
    BY <2>2, <2>3, <2>4
  <2>6. QED
    BY <1>1, <2>1, <2>5 DEF v, w
<1>11. SlotsOf(jumps', frames') /\ LandingOf(insts \o <<x>>, jumps', frames', land')
  <2>1. Owns(g) /\ Before(insts, Len(insts) + 1, "jump") = a.num /\ a.num \in Nat
    BY <1>2, <1>4, <1>5, <1>6 DEF Owns, IInv, Turn
  <2>2. QED
    BY <1>2, <1>3, <1>5, <1>6, <1>7, <1>10, <2>1, OpenKeep
<1>12. LandingOf(insts', jumps', frames', land')
  <2> DEFINE u == <<y>>
  <2>1. u \in Seq(Insts) /\ \A j \in 1..Len(u) : u[j].ref.kind # "jump"
    BY <1>3
  <2>2. insts' = (insts \o <<x>>) \o u
    BY <1>9
  <2> HIDE DEF u
  <2>3. QED
    BY <1>9, <1>11, <2>1, <2>2, GrowKeep
<1>13. Slots' /\ Landing' /\ JumpTableInBounds'
  BY <1>6, <1>7, <1>11, <1>12 DEF Slots, Landing, JumpTableInBounds
<1>14. Nesting'
  <2>1. FrameAt(g, Len(frames))
    BY <1>4, <1>5 DEF FrameAt, Owns
  <2>2. g.kind = frames[Len(frames)].kind
    BY <1>5 DEF Top
  <2>3. NestingOf([frames EXCEPT ![Len(frames)] = g])
    BY <1>1, <1>2, <1>5, <2>1, <2>2, TopFrame DEF IInv, Nesting
  <2>4. QED
    BY <1>1, <2>3 DEF Nesting
<1>15. \A kind \in Queues \cup {"jump"} : Before(insts', Len(insts') + 1, kind) =
         Before(insts, Len(insts) + 1, kind) + (IF "jump" = kind THEN 1 ELSE 0)
  <2> SUFFICES ASSUME NEW kind \in Queues \cup {"jump"}
               PROVE  Before(insts', Len(insts') + 1, kind) =
                 Before(insts, Len(insts) + 1, kind) + (IF "jump" = kind THEN 1 ELSE 0)
    OBVIOUS
  <2> DEFINE v == insts \o <<x>>
             u == <<y>>
  <2>1. Before(v, Len(v) + 1, kind) =
          Before(insts, Len(insts) + 1, kind) + (IF "jump" = kind THEN 1 ELSE 0)
    BY <1>2, <1>3, BeforeOne
  <2>2. u \in Seq(Insts) /\ \A j \in 1..Len(u) : u[j].ref.kind # kind
    BY <1>3 DEF Queues
  <2>3. v \in Seq(Insts) /\ insts' = v \o u
    BY <1>9
  <2> HIDE DEF v, u
  <2>4. QED
    BY <2>1, <2>2, <2>3, BeforeGrow
<1>16. /\ Before(insts', Len(insts') + 1, "jump") = jumps'.num
       /\ \A q \in Queues : Before(insts', Len(insts') + 1, q) = Len(pend'[q])
  <2>1. /\ Before(insts, Len(insts) + 1, "jump") = jumps.num
        /\ \A q \in Queues : Before(insts, Len(insts) + 1, q) = Len(pend[q])
    BY DEF IInv, Turn
  <2>2. Before(insts', Len(insts') + 1, "jump") = jumps'.num
    BY <1>7, <1>15, <2>1
  <2>3. \A q \in Queues : q # "jump" /\ Len(pend[q]) \in Nat
    BY <1>2 DEF Queues
  <2>4. \A q \in Queues : Before(insts, Len(insts) + 1, q) + 0 = Before(insts, Len(insts) + 1, q)
    BY <2>1, <2>3
  <2>5. \A q \in Queues : Before(insts', Len(insts') + 1, q) = Before(insts, Len(insts) + 1, q)
    BY <1>15, <2>3, <2>4
  <2>6. QED
    BY <1>1, <2>1, <2>2, <2>5
<1>17. QED
  BY <1>1, <1>2, <1>8, <1>13, <1>14, <1>16, CodeStep
-----------------------------------------------------------------------------
(* Every step of generation preserves the invariant. *)
LEMMA InvCode ==
  ASSUME IInv, Next, phase \in {"globals", "code"}
  PROVE  IInv'
<1> USE DEF InCode
<1>0. TypeOK'
  BY TypeCode DEF IInv
<1>a. /\ insts \in Seq(Insts) /\ frames \in Seq(Frames)
      /\ calls \in Seq(Funcs) /\ Len(calls) \in Nat /\ Len(insts) \in Nat
      /\ jumps.num \in Nat /\ bytes \in 0..(Word - 1)
  BY DEF IInv, TypeOK
<1>b. frames # <<>> => phase = "code" /\ Top \in Frames /\ Len(frames) \in Nat \ {0}
                        /\ Len(frames) \in 1..Len(frames)
  BY <1>a DEF IInv, Stages, Top
<1>c. SameOwners(frames, frames) /\ Nesting
  BY DEF SameOwners, IInv
<1>d. frames # <<>> => FrameAt(Top, Len(frames))
  BY <1>b, <1>c DEF Nesting, NestingOf, Top
<1>1. ASSUME NEW c \in Consts, NEW l \in IntLits \cup RealLits, DeclareConst(c, l)
      PROVE  IInv'
  <2>1. /\ phase = "globals" /\ phase' = phase /\ frames' = frames /\ insts' = insts
        /\ rd' = rd /\ jumps' = jumps /\ land' = land /\ calls' = calls /\ pend' = pend
    BY <1>1 DEF DeclareConst
  <2>2. Nesting' /\ frames' = <<>>
    BY <2>1 DEF IInv, Nesting, Stages
  <2>3. QED
    BY <1>0, <1>c, <2>1, <2>2, SilentStep
<1>2. CASE StartMain
  <2> DEFINE f == Frame("main", "body", 0, 0, 0, 0, 0)
  <2>1. f \in Frames /\ ~Owns(f) /\ FrameAt(f, 1)
    BY WordAssumption DEF Frame, Frames, Owns, FrameAt
  <2>2. /\ phase = "globals" /\ phase' = "code" /\ frames' = <<f>> /\ insts' = insts
        /\ rd' = rd /\ jumps' = jumps /\ land' = land /\ calls' = calls /\ pend' = pend
    BY <1>2 DEF StartMain
  <2> HIDE DEF f
  <2>3. frames = <<>> /\ frames' = Append(frames, f)
    BY <2>2 DEF IInv, Stages
  <2>4. Len(frames) + 1 = 1
    BY <2>3
  <2>5. SameOwners(frames, frames') /\ Nesting'
    BY <1>a, <1>c, <2>1, <2>3, <2>4, PushFrame DEF Nesting
  <2>6. QED
    BY <1>0, <2>2, <2>5, SilentStep
<1>3. ASSUME NEW op \in FillerOps, EmitPlain(op) PROVE IInv'
  <2> DEFINE s == <<Plain(op)>>
  <2>1. op \in Ops /\ op \notin {"LA0", "LV0"}
    BY FillerAssumption DEF Ops
  <2>2. s \in Seq(Insts) /\ \A j \in 1..Len(s) :
          s[j].ref.kind \notin Queues \cup {"jump"} /\ Unpatched(s[j], Len(calls))
    BY <2>1, PlainInst DEF Queues
  <2>3. /\ frames # <<>> /\ phase' = phase /\ frames' = frames /\ insts' = insts \o s
        /\ rd' = rd /\ jumps' = jumps /\ land' = land /\ calls' = calls /\ pend' = pend
    BY <1>3 DEF EmitPlain, Emit
  <2>4. Nesting' /\ Len(calls) <= Len(calls')
    BY <1>a, <1>c, <2>3 DEF Nesting
  <2> HIDE DEF s
  <2>5. QED
    BY <1>0, <1>b, <1>c, <2>2, <2>3, <2>4, UnqueuedStep
<1>4. ASSUME NEW l \in IntLits \cup RealLits, PushLiteral(l) PROVE IInv'
  <2> DEFINE q == IF l \in IntLits THEN "int" ELSE "real"
             mark == IF l \in IntLits THEN AINT ELSE AREAL
             off == IF l \in DOMAIN offsetOf THEN offsetOf[l] ELSE 8 * Len(pool[q])
             x == Inst("LV0", mark, q, l)
             s == <<x>>
  <2>1. /\ x \in Insts /\ q \in Queues /\ x.ref.kind = q /\ Unpatched(x, Len(calls))
    BY DEF Inst, Insts, Ops, Refs, Kinds, Queues, Symbols, AINT, AREAL, Unpatched
  <2>2. /\ frames # <<>> /\ phase' = phase /\ frames' = frames /\ insts' = insts \o s
        /\ rd' = rd /\ jumps' = jumps /\ land' = land /\ calls' = calls
        /\ pend' = [pend EXCEPT ![q] = Append(@, off)]
    BY <1>4 DEF PushLiteral, Emit
  <2> HIDE DEF x, q, off
  <2>3. s \in Seq(Insts) /\ \A j \in 1..Len(s) : Unpatched(s[j], Len(calls))
    BY <2>1
  <2>4. s = <<x>>
    OBVIOUS
  <2> HIDE DEF s
  <2>5. QED
    BY <1>0, <1>b, <2>1, <2>2, <2>3, <2>4, QueuedStep
<1>5. ASSUME NEW c \in DOMAIN constLit, PushConst(c) PROVE IInv'
  <2> DEFINE q == IF constLit[c] \in IntLits THEN "int" ELSE "real"
             mark == IF constLit[c] \in IntLits THEN AINT ELSE AREAL
             off == offsetOf[c]
             x == Inst("LV0", mark, q, constLit[c])
             s == <<x>>
  <2>1. /\ x \in Insts /\ q \in Queues /\ x.ref.kind = q /\ Unpatched(x, Len(calls))
    <3>1. constLit[c] \in IntLits \cup RealLits
      BY DEF IInv, TypeOK
    <3>2. QED
      BY <3>1 DEF Inst, Insts, Ops, Refs, Kinds, Queues, Symbols, AINT, AREAL, Unpatched
  <2>2. /\ frames # <<>> /\ phase' = phase /\ frames' = frames /\ insts' = insts \o s
        /\ rd' = rd /\ jumps' = jumps /\ land' = land /\ calls' = calls
        /\ pend' = [pend EXCEPT ![q] = Append(@, off)]
    BY <1>5 DEF PushConst, Emit
  <2> HIDE DEF x, q, off
  <2>3. s \in Seq(Insts) /\ \A j \in 1..Len(s) : Unpatched(s[j], Len(calls))
    BY <2>1
  <2>4. s = <<x>>
    OBVIOUS
  <2> HIDE DEF s
  <2>5. QED
    BY <1>0, <1>b, <2>1, <2>2, <2>3, <2>4, QueuedStep
<1>6. ASSUME NEW n \in StrLens, PrintString(n) PROVE IInv'
  <2> DEFINE x == Inst("LA0", ASTR, "str", Len(pool.str))
             y == Plain("STRPR")
             s == <<x, y>>
             off == strBytes
             q == "str"
  <2>1. /\ x \in Insts /\ q \in Queues /\ x.ref.kind = q /\ Unpatched(x, Len(calls))
    <3>1. Len(pool.str) \in Nat
      <4>1. pool \in [Queues -> Seq(Nat \cup IntLits \cup RealLits)] /\ "str" \in Queues
        BY DEF IInv, TypeOK, Queues
      <4>2. QED
        BY <4>1
    <3>2. QED
      BY <3>1 DEF Inst, Insts, Ops, Refs, Kinds, Queues, ASTR, Unpatched
  <2>2. y \in Insts /\ y.ref.kind = "none" /\ Unpatched(y, Len(calls))
    BY PlainInst DEF Ops
  <2>3. /\ frames # <<>> /\ phase' = phase /\ frames' = frames /\ insts' = insts \o s
        /\ rd' = rd /\ jumps' = jumps /\ land' = land /\ calls' = calls
        /\ pend' = [pend EXCEPT ![q] = Append(@, off)]
    BY <1>6 DEF PrintString, Emit, InBody
  <2> HIDE DEF x, y, q, off
  <2>4. s \in Seq(Insts) /\ \A j \in 1..Len(s) : Unpatched(s[j], Len(calls))
    BY <2>1, <2>2
  <2>5. s = <<x, y>>
    OBVIOUS
  <2> HIDE DEF s
  <2>6. QED
    BY <1>0, <1>b, <2>1, <2>2, <2>3, <2>4, <2>5, QueuedStep
<1>7. ASSUME NEW f \in Funcs, Call(f) PROVE IInv'
  <2> DEFINE x == Inst("LA0", AFUNC * (Len(calls) + 1), "call", f)
             s == <<Plain("LB"), x, Plain("JS2")>>
  <2>1. /\ frames # <<>> /\ phase' = phase /\ frames' = frames /\ insts' = insts \o s
        /\ rd' = rd /\ jumps' = jumps /\ land' = land
        /\ calls' = Append(calls, f) /\ pend' = pend
    BY <1>7 DEF Call, Emit
  <2>2. Len(calls') = Len(calls) + 1 /\ Len(calls) <= Len(calls')
    BY <1>a, <2>1
  <2>3. x \in Insts /\ x.ref.kind = "call" /\ Unpatched(x, Len(calls'))
    <3>1. x \in Insts /\ x.ref.kind = "call" /\ x.op = "LA0"
          /\ x.val = AFUNC * (Len(calls) + 1)
      BY <1>a DEF Inst, Insts, Ops, Refs, Kinds, Symbols, AFUNC, Queues
    <3>2. \E m \in 1..Len(calls') : x.val = AFUNC * m
      <4>1. Len(calls) + 1 \in 1..Len(calls')
        BY <1>a, <2>2
      <4>2. QED
        BY <3>1, <4>1
    <3>3. QED
      BY <3>1, <3>2 DEF Unpatched
  <2> HIDE DEF x
  <2>4. /\ s \in Seq(Insts)
        /\ \A j \in 1..Len(s) : s[j].ref.kind \notin Queues \cup {"jump"}
        /\ \A j \in 1..Len(s) : Unpatched(s[j], Len(calls'))
    BY <2>3, PlainInst DEF Queues, Ops
  <2>5. Nesting'
    BY <1>c, <2>1 DEF Nesting
  <2> HIDE DEF s
  <2>6. QED
    BY <1>0, <1>b, <1>c, <2>1, <2>2, <2>4, <2>5, UnqueuedStep
<1>8. ASSUME NEW kind \in {"if", "ifelse"}, OpenBranch(kind) PROVE IInv'
  <2> DEFINE f == Frame(kind, "cond", jumps.num, 0, Len(insts) + 1, Len(insts) + 1, 0)
  <2>1. /\ f \in Frames /\ Owns(f) /\ f.slot = jumps.num /\ f.at = Len(insts) + 1
        /\ f.kind \notin {"main", "func"} /\ f.stage = "cond"
    BY <1>a, WordAssumption DEF Frame, Frames, Owns
  <2>2. /\ frames # <<>> /\ phase' = phase /\ frames' = Append(frames, f)
        /\ insts' = insts \o <<Inst("LA0", AJUMP, "jump", 0)>>
        /\ jumps' = [jumps EXCEPT !.num = @ + 1]
        /\ rd' = rd /\ land' = land /\ calls' = calls /\ pend' = pend
    BY <1>8 DEF OpenBranch, CanOpen, InBody, Emit
  <2> HIDE DEF f
  <2>3. QED
    BY <1>0, <1>b, <2>1, <2>2, OpenStep
<1>9. CASE OpenFor
  <2> DEFINE f == Frame("for", "cond", jumps.num, bytes, Len(insts) + 1,
                        Len(insts) + 1, Len(insts) + 1)
  <2>1. /\ f \in Frames /\ Owns(f) /\ f.slot = jumps.num /\ f.at = Len(insts) + 1
        /\ f.kind \notin {"main", "func"} /\ f.stage = "cond"
    BY <1>a DEF Frame, Frames, Owns
  <2>2. /\ frames # <<>> /\ phase' = phase /\ frames' = Append(frames, f)
        /\ insts' = insts \o <<Inst("LA0", AJUMP, "jump", 0)>>
        /\ jumps' = [jumps EXCEPT !.num = @ + 1]
        /\ rd' = rd /\ land' = land /\ calls' = calls /\ pend' = pend
    BY <1>9 DEF OpenFor, CanOpen, InBody, Emit
  <2> HIDE DEF f
  <2>3. QED
    BY <1>0, <1>b, <2>1, <2>2, OpenStep
<1>10. CASE OpenRepeat
  <2> DEFINE f == Frame("repeat", "body", 0, bytes, Len(insts), 0, Len(insts) + 1)
  <2>1. /\ frames # <<>> /\ phase' = phase /\ frames' = Append(frames, f) /\ insts' = insts
        /\ rd' = rd /\ jumps' = jumps /\ land' = land /\ calls' = calls /\ pend' = pend
    BY <1>10 DEF OpenRepeat, CanOpen, InBody
  <2>2. f \in Frames /\ ~Owns(f) /\ FrameAt(f, Len(frames) + 1)
    <3>1. f \in Frames
      BY <1>a DEF Frame, Frames
    <3>2. Len(frames) + 1 # 1
      BY <1>b, <2>1
    <3>3. f.kind = "repeat" /\ f.stage = "body"
      BY DEF Frame
    <3>4. QED
      BY <3>1, <3>2, <3>3 DEF Owns, FrameAt
  <2> HIDE DEF f
  <2>3. SameOwners(frames, frames') /\ Nesting'
    BY <1>a, <1>c, <2>1, <2>2, PushFrame DEF Nesting
  <2>4. QED
    BY <1>0, <1>b, <2>1, <2>3, SilentStep
<1>11. CASE BranchFalse
  <2> DEFINE st == IF Top.kind = "ifelse" THEN "then" ELSE "body"
             g == [Top EXCEPT !.stage = st, !.mark  = Len(insts) + 1]
             s == <<Plain("BF")>>
  <2>1. /\ frames # <<>> /\ phase' = phase /\ insts' = insts \o s
        /\ frames' = [frames EXCEPT ![Len(frames)] = g] /\ Top.stage = "cond"
        /\ rd' = rd /\ jumps' = jumps /\ land' = land /\ calls' = calls /\ pend' = pend
    BY <1>11 DEF BranchFalse, Emit, SetTop
  <2>2. /\ s \in Seq(Insts)
        /\ \A j \in 1..Len(s) : s[j].ref.kind \notin Queues \cup {"jump"}
        /\ \A j \in 1..Len(s) : Unpatched(s[j], Len(calls))
    BY PlainInst DEF Queues, Ops
  <2>3. /\ g.kind = Top.kind /\ g.slot = Top.slot /\ g.at = Top.at /\ g.stage = st
    BY <1>b, <2>1 DEF Frames
  <2>4. g \in Frames
    <3>1. Len(insts) + 1 \in Nat /\ Top \in Frames
      BY <1>a, <1>b, <2>1
    <3>2. st \in {"cond", "body", "then", "else", "until"}
      OBVIOUS
    <3>3. QED
      BY <3>1, <3>2, FrameStage
  <2>5. st \in {"then", "body"} /\ (st = "then" => Top.kind = "ifelse")
    OBVIOUS
  <2> HIDE DEF g, s, st
  <2>6. FrameAt(g, Len(frames))
    BY <1>d, <2>1, <2>3, <2>5 DEF FrameAt
  <2>7. SameOwners(frames, frames') /\ Nesting'
    BY <1>a, <1>c, <2>1, <2>3, <2>4, <2>6, TopFrame DEF Nesting, Top
  <2>8. Len(calls) <= Len(calls')
    BY <1>a, <2>1
  <2>9. QED
    BY <1>0, <1>b, <2>1, <2>2, <2>7, <2>8, UnqueuedStep
<1>12. CASE RepeatUntil
  <2> DEFINE g == [Top EXCEPT !.stage = "until", !.mark  = Len(insts) + 1]
             x == Inst("LA0", Top.top, "back", Top.begin)
             s == <<x>>
  <2>1. /\ frames # <<>> /\ phase' = phase /\ insts' = insts \o s
        /\ frames' = [frames EXCEPT ![Len(frames)] = g] /\ Top.kind = "repeat"
        /\ rd' = rd /\ jumps' = jumps /\ land' = land /\ calls' = calls /\ pend' = pend
    BY <1>12 DEF RepeatUntil, Emit, SetTop
  <2>2. x \in Insts /\ x.ref.kind = "back" /\ Unpatched(x, Len(calls))
    BY <1>b, <2>1, WordAssumption DEF Inst, Insts, Ops, Refs, Kinds, Frames, Unpatched
  <2> HIDE DEF x
  <2>3. /\ s \in Seq(Insts)
        /\ \A j \in 1..Len(s) : s[j].ref.kind \notin Queues \cup {"jump"}
        /\ \A j \in 1..Len(s) : Unpatched(s[j], Len(calls))
    BY <2>2 DEF Queues
  <2>4. /\ g.kind = Top.kind /\ g.slot = Top.slot /\ g.at = Top.at /\ g.stage = "until"
    BY <1>b, <2>1 DEF Frames
  <2>5. g \in Frames
    <3>1. Len(insts) + 1 \in Nat /\ Top \in Frames
      BY <1>a, <1>b, <2>1
    <3>2. QED
      BY <3>1, FrameStage
  <2> HIDE DEF g, s
  <2>6. FrameAt(g, Len(frames))
    BY <1>d, <2>1, <2>4 DEF FrameAt
  <2>7. SameOwners(frames, frames') /\ Nesting'
    BY <1>a, <1>c, <2>1, <2>4, <2>5, <2>6, TopFrame DEF Nesting, Top
  <2>8. Len(calls) <= Len(calls')
    BY <1>a, <2>1
  <2>9. QED
    BY <1>0, <1>b, <2>1, <2>3, <2>7, <2>8, UnqueuedStep
<1>13. CASE CloseRepeat
  <2> DEFINE s == <<Plain("BF")>>
  <2>1. /\ frames # <<>> /\ phase' = phase /\ insts' = insts \o s
        /\ frames' = Pop /\ Top.stage = "until"
        /\ rd' = rd /\ jumps' = jumps /\ land' = land /\ calls' = calls /\ pend' = pend
    BY <1>13 DEF CloseRepeat, Emit
  <2>2. /\ s \in Seq(Insts)
        /\ \A j \in 1..Len(s) : s[j].ref.kind \notin Queues \cup {"jump"}
        /\ \A j \in 1..Len(s) : Unpatched(s[j], Len(calls))
    BY PlainInst DEF Queues, Ops
  <2>3. ~Owns(Top)
    BY <1>d, <2>1 DEF FrameAt, Owns
  <2> HIDE DEF s
  <2>4. SameOwners(frames, frames') /\ Nesting'
    BY <1>a, <1>c, <2>1, <2>3, PopFrame DEF Nesting, Top, Pop
  <2>5. Len(calls) <= Len(calls')
    BY <1>a, <2>1
  <2>6. QED
    BY <1>0, <1>b, <2>1, <2>2, <2>4, <2>5, UnqueuedStep
<1>14. CASE EndMain
  <2> DEFINE s == <<Plain("HALT")>>
  <2>1. /\ frames # <<>> /\ phase' = phase /\ insts' = insts \o s
        /\ frames' = <<>> /\ Top.kind = "main"
        /\ rd' = rd /\ jumps' = jumps /\ land' = land /\ calls' = calls /\ pend' = pend
    BY <1>14 DEF EndMain, Emit
  <2>2. /\ s \in Seq(Insts)
        /\ \A j \in 1..Len(s) : s[j].ref.kind \notin Queues \cup {"jump"}
        /\ \A j \in 1..Len(s) : Unpatched(s[j], Len(calls))
    BY PlainInst DEF Queues, Ops
  <2> HIDE DEF s
  <2>3. SameOwners(frames, frames')
    BY <1>a, <1>c, <2>1, OnlyBody DEF Nesting, Top
  <2>4. Nesting' /\ Len(calls) <= Len(calls')
    BY <1>a, <2>1 DEF Nesting, NestingOf
  <2>5. QED
    BY <1>0, <1>b, <2>1, <2>2, <2>3, <2>4, UnqueuedStep
<1>15. ASSUME NEW f \in Funcs, StartFunc(f) PROVE IInv'
  <2> DEFINE g == Frame("func", "body", 0, 0, Len(insts), 0, 0)
  <2>1. /\ phase = "code" /\ phase' = phase /\ frames = <<>> /\ frames' = <<g>>
        /\ insts' = insts
        /\ rd' = rd /\ jumps' = jumps /\ land' = land /\ calls' = calls /\ pend' = pend
    BY <1>15 DEF StartFunc
  <2>2. g \in Frames /\ ~Owns(g) /\ FrameAt(g, 1)
    BY <1>a, WordAssumption DEF Frame, Frames, Owns, FrameAt
  <2> HIDE DEF g
  <2>3. frames' = Append(frames, g) /\ Len(frames) + 1 = 1
    BY <2>1
  <2>4. SameOwners(frames, frames') /\ Nesting'
    BY <1>a, <1>c, <2>2, <2>3, PushFrame DEF Nesting
  <2>5. QED
    BY <1>0, <2>1, <2>4, SilentStep
<1>16. CASE EndFunc
  <2>1. /\ frames # <<>> /\ phase' = phase /\ insts' = insts
        /\ frames' = <<>> /\ Top.kind = "func"
        /\ rd' = rd /\ jumps' = jumps /\ land' = land /\ calls' = calls /\ pend' = pend
    BY <1>16 DEF EndFunc
  <2>2. SameOwners(frames, frames')
    BY <1>a, <1>c, <2>1, OnlyBody DEF Nesting, Top
  <2>3. Nesting'
    BY <2>1 DEF Nesting, NestingOf
  <2>4. QED
    BY <1>0, <1>b, <2>1, <2>2, <2>3, SilentStep
<1>17. CASE StartPatching
  <2>1. /\ phase = "code" /\ phase' = "patch" /\ frames = <<>> /\ frames' = frames
        /\ Funcs \subseteq DOMAIN offsetOf /\ offsetOf' = offsetOf /\ insts' = insts
        /\ rd' = rd /\ jumps' = jumps /\ land' = land /\ calls' = calls /\ pend' = pend
    BY <1>17 DEF StartPatching
  <2>2. Stages'
    BY <2>1 DEF IInv, Stages
  <2>3. Placeholders' /\ Nesting' /\ JumpTableInBounds' /\ Slots'
    BY <2>1 DEF IInv, Placeholders, Nesting, JumpTableInBounds, Slots
  <2>4. Landing' /\ Turn' /\ BranchesLand'
    BY <2>1 DEF IInv, Landing, Turn, BranchesLand
  <2>5. QED
    BY <1>0, <2>2, <2>3, <2>4 DEF IInv
<1>18. CASE Else
  BY <1>0, <1>18, <1>b, ElseStep DEF Else
<1>19. CASE CloseIf
  <2> DEFINE s == <<>>
  <2>1. /\ frames # <<>> /\ phase' = phase /\ insts' = insts \o s
        /\ frames' = Pop /\ Owns(Top) /\ LandHere(Top.at, Len(insts) + 1, bytes)
        /\ jumps' = Anchored(jumps, Top.slot, bytes)
        /\ rd' = rd /\ calls' = calls /\ pend' = pend
    BY <1>19, <1>a DEF CloseIf, Owns
  <2>2. s \in Seq(Insts) /\ \A j \in 1..Len(s) : FALSE
    OBVIOUS
  <2> HIDE DEF s
  <2>3. QED
    BY <1>0, <1>b, <2>1, <2>2, CloseStep
<1>20. CASE CloseFor
  <2> DEFINE x == Inst("LA0", Top.top, "back", Top.begin)
             y == Plain("BR")
             s == <<x, y>>
  <2>1. /\ frames # <<>> /\ phase' = phase /\ insts' = insts \o s
        /\ frames' = Pop /\ Owns(Top) /\ LandHere(Top.at, Len(insts) + 3, After(s))
        /\ jumps' = Anchored(jumps, Top.slot, After(s))
        /\ rd' = rd /\ calls' = calls /\ pend' = pend
    BY <1>20 DEF CloseFor, Owns, Emit
  <2>2. x \in Insts /\ x.ref.kind = "back" /\ Unpatched(x, Len(calls))
    BY <1>b, <2>1, WordAssumption DEF Inst, Insts, Ops, Refs, Kinds, Frames, Unpatched
  <2>3. y \in Insts /\ y.ref.kind = "none" /\ Unpatched(y, Len(calls))
    BY PlainInst DEF Ops
  <2> HIDE DEF x, y
  <2>4. /\ s \in Seq(Insts)
        /\ \A j \in 1..Len(s) : s[j].ref.kind \notin Queues \cup {"jump"}
        /\ \A j \in 1..Len(s) : Unpatched(s[j], Len(calls))
    BY <2>2, <2>3 DEF Queues
  <2> HIDE DEF s
  <2>5. QED
    BY <1>0, <1>b, <2>1, <2>4, CloseStep
<1>21. QED
  BY <1>1, <1>2, <1>3, <1>4, <1>5, <1>6, <1>7, <1>8, <1>9, <1>10, <1>11, <1>12, <1>13,
     <1>14, <1>15, <1>16, <1>17, <1>18, <1>19, <1>20
     DEF Next, PatchQueued, PatchJump, PatchCall, PatchNothing, Patching, Close, Done
-----------------------------------------------------------------------------
Cursors == {"inst", "jump", "int", "real", "str"}

(* A step of the patching pass: it writes the value of one instruction, moves
   to the next one and moves the cursor of its kind. *)
LEMMA PatchStep ==
  ASSUME IInv, phase = "patch", rd.inst <= Len(insts), PatchOnly,
         insts' \in Seq(Insts), Len(insts') = Len(insts),
         \A j \in 1..Len(insts) : insts'[j].ref = insts[j].ref,
         \A j \in 1..Len(insts) : j # rd.inst => insts'[j] = insts[j],
         rd' \in [Cursors -> Nat],
         rd'.inst = rd.inst + 1,
         \A c \in Queues \cup {"jump"} :
           rd'[c] = rd[c] + (IF insts[rd.inst].ref.kind = c THEN 1 ELSE 0),
         insts[rd.inst].ref.kind = "jump" =>
           insts'[rd.inst].val = IF rd.jump \in DOMAIN jumps.adr
                                 THEN jumps.adr[rd.jump] ELSE Garbage
  PROVE  IInv'
<1>1. /\ frames = <<>> /\ frames' = frames /\ jumps' = jumps /\ land' = land
      /\ phase' = phase /\ calls' = calls /\ pend' = pend /\ offsetOf' = offsetOf
      /\ bytes' = bytes /\ strBytes' = strBytes /\ pool' = pool
      /\ constLit' = constLit /\ entry' = entry
  BY DEF PatchOnly, IInv, Stages
<1>2. /\ insts \in Seq(Insts) /\ Len(insts) \in Nat /\ rd.inst \in Nat \ {0}
      /\ rd.inst \in 1..Len(insts) /\ rd'.inst \in 1..(Len(insts) + 1)
  BY SMTT(30) DEF IInv, TypeOK, Stages
<1>3. TypeOK'
  BY <1>1 DEF IInv, TypeOK, Cursors
<1>4. Stages'
  BY <1>1, <1>2 DEF IInv, Stages
<1>5. Placeholders'
  BY <1>1, <1>2 DEF IInv, Placeholders
<1>6. Nesting' /\ JumpTableInBounds' /\ Slots'
  BY <1>1 DEF IInv, Nesting, JumpTableInBounds, Slots
<1>7. \A i \in 1..(Len(insts) + 1) : \A kind :
        Before(insts', i, kind) = Before(insts, i, kind)
  BY <1>2, BeforeSame
<1>8. \A i \in 1..Len(insts) : insts[i].ref.kind = "jump" =>
        LET s == Before(insts, i, "jump") IN
        s \in DOMAIN jumps.adr /\ i \in DOMAIN land /\ jumps.adr[s] = land[i].byte
  BY <1>1 DEF IInv, Landing, LandingOf, Leads
<1>9. Landing'
  <2>1. ASSUME NEW i \in 1..Len(insts'), insts'[i].ref.kind = "jump"
        PROVE  Leads(insts', jumps', frames', land', i)
    <3>1. i \in 1..Len(insts) /\ insts[i].ref.kind = "jump"
          /\ Before(insts', i, "jump") = Before(insts, i, "jump")
      BY <1>2, <1>7, <2>1
    <3>2. QED
      BY <1>1, <1>8, <3>1 DEF Leads
  <2>2. Len(frames') = 0
    BY <1>1
  <2>3. QED
    BY <2>1, <2>2 DEF Landing, LandingOf
<1>10. Turn'
  <2>1. \A kind : Before(insts, rd.inst + 1, kind) =
          Before(insts, rd.inst, kind) + (IF insts[rd.inst].ref.kind = kind THEN 1 ELSE 0)
    BY <1>2, BeforeNext
  <2>2. \A kind : Before(insts', rd'.inst, kind) = Before(insts, rd.inst + 1, kind)
    BY <1>2, <1>7
  <2>3. /\ rd.jump = Before(insts, rd.inst, "jump")
        /\ \A q \in Queues : rd[q] = Before(insts, rd.inst, q)
    BY DEF IInv, Turn
  <2>4. rd'.jump = Before(insts', rd'.inst, "jump")
    BY <2>1, <2>2, <2>3
  <2>5. \A q \in Queues : rd'[q] = Before(insts', rd'.inst, q)
    BY <2>1, <2>2, <2>3
  <2>6. \A kind : Before(insts', Len(insts') + 1, kind) = Before(insts, Len(insts) + 1, kind)
    BY <1>2, <1>7
  <2>7. QED
    BY <1>1, <2>4, <2>5, <2>6 DEF IInv, Turn
<1>11. BranchesLand'
  <2>1. ASSUME NEW i \in 1..Len(insts'), insts'[i].ref.kind = "jump", i < rd'.inst
        PROVE  i \in DOMAIN land /\ insts'[i].val = land[i].byte
    <3>1. i \in 1..Len(insts) /\ insts[i].ref.kind = "jump"
      BY <2>1
    <3>2. CASE i = rd.inst
      <4>1. rd.jump = Before(insts, i, "jump")
        BY <3>2 DEF IInv, Turn
      <4>2. QED
        BY <1>8, <3>1, <3>2, <4>1
    <3>3. CASE i # rd.inst
      <4>1. i < rd.inst /\ insts'[i] = insts[i]
        BY <1>2, <2>1, <3>1, <3>3
      <4>2. QED
        BY <3>1, <4>1 DEF IInv, BranchesLand
    <3>4. QED
      BY <3>2, <3>3
  <2>2. QED
    BY <1>1, <2>1 DEF BranchesLand
<1>12. QED
  BY <1>3, <1>4, <1>5, <1>6, <1>9, <1>10, <1>11 DEF IInv

(* Writing the value of an instruction of the list. *)
LEMMA PatchValue ==
  ASSUME insts \in Seq(Insts), NEW n \in 1..Len(insts), NEW v \in Int,
         insts' = [insts EXCEPT ![n].val = v]
  PROVE  /\ insts' \in Seq(Insts) /\ Len(insts') = Len(insts)
         /\ \A j \in 1..Len(insts) : insts'[j].ref = insts[j].ref
         /\ \A j \in 1..Len(insts) : j # n => insts'[j] = insts[j]
         /\ insts'[n].val = v
<1> DEFINE x == [insts[n] EXCEPT !.val = v]
<1>1. insts[n] \in Insts
  OBVIOUS
<1>2. x \in Insts /\ x.ref = insts[n].ref /\ x.val = v
  BY <1>1 DEF Insts
<1>3. insts' = [insts EXCEPT ![n] = x]
  OBVIOUS
<1> HIDE DEF x
<1>4. /\ insts' \in Seq(Insts) /\ Len(insts') = Len(insts) /\ insts'[n] = x
      /\ \A j \in 1..Len(insts) : j # n => insts'[j] = insts[j]
  BY <1>2, <1>3
<1>5. QED
  BY <1>2, <1>4

(* Moving on to the next instruction, with and without a cursor. *)
Moved(r, k) == [r EXCEPT ![k] = @ + 1, !.inst = @ + 1]
MovedOn(r)  == [r EXCEPT !.inst = @ + 1]

(* An instruction without a queue of its own moves no cursor but the first. *)
LEMMA MoveOn ==
  ASSUME NEW r \in [Cursors -> Nat], NEW kind, kind \notin Queues \cup {"jump"}
  PROVE  /\ MovedOn(r) \in [Cursors -> Nat] /\ MovedOn(r).inst = r.inst + 1
         /\ \A c \in Queues \cup {"jump"} :
              MovedOn(r)[c] = r[c] + (IF kind = c THEN 1 ELSE 0)
<1>1. Queues \cup {"jump"} = Cursors \ {"inst"} /\ "inst" \in Cursors
  BY DEF Queues, Cursors
<1>2. \A c \in Cursors : r[c] \in Nat /\ r[c] + 0 = r[c]
  OBVIOUS
<1>3. QED
  BY <1>1, <1>2 DEF MovedOn

(* An instruction with a queue moves the cursor of that queue too. *)
LEMMA MoveCursor ==
  ASSUME NEW r \in [Cursors -> Nat], NEW k \in Queues \cup {"jump"}
  PROVE  /\ Moved(r, k) \in [Cursors -> Nat] /\ Moved(r, k).inst = r.inst + 1
         /\ \A c \in Queues \cup {"jump"} :
              Moved(r, k)[c] = r[c] + (IF k = c THEN 1 ELSE 0)
<1> DEFINE m == Moved(r, k)
<1>1. /\ k \in Cursors /\ k # "inst" /\ Queues \cup {"jump"} = Cursors \ {"inst"}
      /\ "inst" \in Cursors
  BY DEF Queues, Cursors
<1>2. \A c \in Cursors : r[c] \in Nat /\ r[c] + 0 = r[c]
  OBVIOUS
<1>3. m = [c \in Cursors |-> IF c \in {k, "inst"} THEN r[c] + 1 ELSE r[c]]
  BY <1>1, <1>2 DEF Moved
<1> HIDE DEF m
<1>4. m \in [Cursors -> Nat] /\ m.inst = r.inst + 1
  BY <1>1, <1>2, <1>3
<1>5. \A c \in Queues \cup {"jump"} : m[c] = r[c] + (IF k = c THEN 1 ELSE 0)
  BY <1>1, <1>2, <1>3
<1>6. QED
  BY <1>4, <1>5 DEF m

(* A stuttering step preserves the invariant. *)
LEMMA InvStutter ==
  ASSUME IInv, UNCHANGED cgVars
  PROVE  IInv'
<1> USE DEF cgVars
<1>1. TypeOK' /\ Stages'
  BY DEF IInv, TypeOK, Stages
<1>2. Placeholders' /\ Nesting' /\ JumpTableInBounds' /\ Slots'
  BY DEF IInv, Placeholders, Nesting, JumpTableInBounds, Slots
<1>3. Landing' /\ Turn' /\ BranchesLand'
  BY DEF IInv, Landing, Turn, BranchesLand
<1>4. QED
  BY <1>1, <1>2, <1>3 DEF IInv

(* Every step of the patching pass preserves the invariant. *)
LEMMA InvPatch ==
  ASSUME IInv, Next, phase \in {"patch", "done"}
  PROVE  IInv'
<1> DEFINE x == insts[rd.inst]
<1>a. /\ insts \in Seq(Insts) /\ rd.inst \in Nat /\ frames = <<>>
      /\ rd \in [Cursors -> Nat]
      /\ pend \in [Queues -> Seq(Nat)] /\ bytes \in Nat /\ Len(calls) \in Nat
      /\ pool \in [Queues -> Seq(Nat \cup IntLits \cup RealLits)]
  BY SMTT(30) DEF IInv, TypeOK, Stages, Cursors
<1>b. Patching => /\ phase = "patch" /\ rd.inst <= Len(insts)
                  /\ rd.inst \in 1..Len(insts) /\ x \in Insts
                  /\ x.ref.kind \in Kinds /\ x.val \in Int /\ Unpatched(x, Len(calls))
  <2> SUFFICES ASSUME Patching
               PROVE  /\ phase = "patch" /\ rd.inst <= Len(insts)
                      /\ rd.inst \in 1..Len(insts) /\ x \in Insts
                      /\ x.ref.kind \in Kinds /\ x.val \in Int
                      /\ Unpatched(x, Len(calls))
    OBVIOUS
  <2>1. phase = "patch" /\ rd.inst <= Len(insts) /\ rd.inst \in 1..Len(insts)
    BY <1>a DEF Patching, IInv, Stages
  <2>2. x \in Insts
    BY <1>a, <2>1
  <2>3. Unpatched(x, Len(calls))
    BY <1>a, <2>1 DEF IInv, Placeholders
  <2>4. x.ref.kind \in Kinds /\ x.val \in Int
    BY <2>2 DEF Insts, Refs
  <2>5. QED
    BY <2>1, <2>2, <2>3, <2>4
<1>c. Cur = x
  BY DEF Cur
<1> HIDE DEF x
<1>1. ASSUME NEW q \in Queues, PatchQueued(q) PROVE IInv'
  <2> DEFINE v == Base(q) + pend[q][rd[q] + 1]
  <2>1. /\ Patching /\ Marks(x, q) /\ rd[q] < Len(pend[q])
        /\ insts' = [insts EXCEPT ![rd.inst].val = v]
        /\ rd' = Moved(rd, q) /\ PatchOnly
    BY <1>1, <1>c DEF PatchQueued, Patch, Moved
  <2> HIDE DEF v
  <2>2. x.ref.kind = q
    <3>1. \A m \in 1..Len(calls) : AFUNC * m < -10
      BY <1>a DEF AFUNC
    <3>2. CASE q = "int"
      BY <1>b, <2>1, <3>2 DEF Marks, Unpatched, Queues, Kinds, AINT, AREAL
    <3>3. CASE q = "real"
      BY <1>b, <2>1, <3>3 DEF Marks, Unpatched, Queues, Kinds, AINT, AREAL
    <3>4. CASE q = "str"
      BY <1>b, <2>1, <3>1, <3>4 DEF Marks, Unpatched, Queues, Kinds, ASTR, AJUMP
    <3>5. QED
      BY <3>2, <3>3, <3>4 DEF Queues
  <2>3. v \in Int
    <3>1. Base(q) \in Nat
      <4>1. Len(pool.int) \in Nat /\ Len(pool.real) \in Nat
        BY <1>a DEF Queues
      <4>2. q \in {"int", "real", "str"}
        BY DEF Queues
      <4>3. CASE q = "int"
        BY <1>a, <4>1, <4>3 DEF Base
      <4>4. CASE q = "real"
        BY <1>a, <4>1, <4>4 DEF Base
      <4>5. CASE q = "str"
        <5> DEFINE a == Len(pool.int)
                   b == Len(pool.real)
        <5>1. Base(q) = bytes + 8 * a + 8 * b
          BY <4>5 DEF Base
        <5>2. bytes \in Nat /\ a \in Nat /\ b \in Nat
          BY <1>a, <4>1
        <5> HIDE DEF a, b
        <5>3. bytes + 8 * a + 8 * b \in Nat
          BY <5>2
        <5>4. QED
          BY <5>1, <5>3
      <4>6. QED
        BY <4>2, <4>3, <4>4, <4>5
    <3>2. pend[q][rd[q] + 1] \in Nat
      <4>1. pend[q] \in Seq(Nat) /\ rd[q] \in Nat
        BY <1>a DEF Queues, Cursors
      <4>2. rd[q] + 1 \in 1..Len(pend[q])
        <5>1. Len(pend[q]) \in Nat /\ rd[q] < Len(pend[q])
          BY <2>1, <4>1
        <5>2. QED
          BY <4>1, <5>1
      <4>3. QED
        BY <4>1, <4>2
    <3>3. QED
      BY <3>1, <3>2 DEF v
  <2>4. /\ rd' \in [Cursors -> Nat]
        /\ rd'.inst = rd.inst + 1
        /\ \A c \in Queues \cup {"jump"} : rd'[c] = rd[c] + (IF x.ref.kind = c THEN 1 ELSE 0)
    BY <1>a, <2>1, <2>2, MoveCursor, ZenonT(60)
  <2> HIDE DEF v
  <2>5. /\ insts' \in Seq(Insts) /\ Len(insts') = Len(insts)
        /\ \A j \in 1..Len(insts) : insts'[j].ref = insts[j].ref
        /\ \A j \in 1..Len(insts) : j # rd.inst => insts'[j] = insts[j]
    BY <1>a, <1>b, <2>1, <2>3, PatchValue
  <2>6. x.ref.kind # "jump"
    BY <2>2 DEF Queues
  <2>7. QED
    BY <1>b, <2>1, <2>4, <2>5, <2>6, PatchStep DEF x
<1>2. CASE PatchJump
  <2> DEFINE v == IF rd.jump \in DOMAIN jumps.adr THEN jumps.adr[rd.jump] ELSE Garbage
  <2>1. /\ Patching /\ x.op = "LA0" /\ x.val = AJUMP
        /\ insts' = [insts EXCEPT ![rd.inst].val = v]
        /\ rd' = Moved(rd, "jump") /\ PatchOnly
    BY <1>2, <1>c DEF PatchJump, Patch, Moved
  <2>2. x.ref.kind = "jump"
    BY <1>b, <2>1 DEF Unpatched, Queues, Kinds, AINT, AREAL, ASTR, AJUMP, AFUNC
  <2>3. v \in Int
    BY WordAssumption DEF IInv, TypeOK, Garbage
  <2>4. /\ rd' \in [Cursors -> Nat]
        /\ rd'.inst = rd.inst + 1
        /\ \A c \in Queues \cup {"jump"} : rd'[c] = rd[c] + (IF x.ref.kind = c THEN 1 ELSE 0)
    BY <1>a, <2>1, <2>2, MoveCursor
  <2> HIDE DEF v
  <2>5. /\ insts' \in Seq(Insts) /\ Len(insts') = Len(insts)
        /\ \A j \in 1..Len(insts) : insts'[j].ref = insts[j].ref
        /\ \A j \in 1..Len(insts) : j # rd.inst => insts'[j] = insts[j]
        /\ insts'[rd.inst].val = v
    BY <1>a, <1>b, <2>1, <2>3, PatchValue
  <2>6. QED
    BY <1>b, <2>1, <2>4, <2>5, PatchStep DEF x, v
<1>3. CASE PatchCall
  <2> DEFINE v == offsetOf[calls[(-x.val) \div (-AFUNC)]]
  <2>1. /\ Patching /\ x.op = "LA0" /\ x.val < 0
        /\ x.val \notin {AINT, AREAL, ASTR, AJUMP}
        /\ insts' = [insts EXCEPT ![rd.inst].val = v]
        /\ rd' = MovedOn(rd) /\ PatchOnly
    BY <1>3, <1>c DEF PatchCall, Patch, MovedOn
  <2>2. x.ref.kind = "call"
    BY <1>b, <2>1 DEF Unpatched, Queues, Kinds, AINT, AREAL, ASTR, AJUMP
  <2>3. v \in Int
    <3>1. PICK m \in 1..Len(calls) : x.val = AFUNC * m
      BY <1>b, <2>1, <2>2 DEF Unpatched
    <3>2. (-x.val) \div (-AFUNC) = m
      <4>1. m \in Nat
        BY <1>a, <3>1
      <4>2. x.val = -11 * m
        BY <3>1 DEF AFUNC
      <4>3. -x.val = 11 * m
        BY <4>1, <4>2
      <4>4. (11 * m) \div 11 = m
        BY <4>1
      <4>5. QED
        BY <4>3, <4>4 DEF AFUNC
    <3>3. calls[m] \in Funcs
      <4>1. calls \in Seq(Funcs)
        BY DEF IInv, TypeOK
      <4>2. QED
        BY <3>1, <4>1
    <3>4. calls[m] \in DOMAIN offsetOf
      BY <1>b, <2>1, <3>3 DEF IInv, Stages
    <3>5. QED
      BY <3>2, <3>4 DEF IInv, TypeOK
  <2>4. /\ rd' \in [Cursors -> Nat]
        /\ rd'.inst = rd.inst + 1
        /\ \A c \in Queues \cup {"jump"} : rd'[c] = rd[c] + (IF x.ref.kind = c THEN 1 ELSE 0)
    <3>1. x.ref.kind \notin Queues \cup {"jump"}
      BY <2>2 DEF Queues
    <3>2. rd' = MovedOn(rd) /\ rd \in [Cursors -> Nat]
      BY <1>a, <2>1
    <3>3. QED
      BY <3>1, <3>2, MoveOn
  <2> HIDE DEF v
  <2>5. /\ insts' \in Seq(Insts) /\ Len(insts') = Len(insts)
        /\ \A j \in 1..Len(insts) : insts'[j].ref = insts[j].ref
        /\ \A j \in 1..Len(insts) : j # rd.inst => insts'[j] = insts[j]
    BY <1>a, <1>b, <2>1, <2>3, PatchValue
  <2>6. QED
    BY <1>b, <2>1, <2>2, <2>4, <2>5, PatchStep DEF x
<1>4. CASE PatchNothing
  <2>1. /\ Patching /\ (x.op \notin {"LA0", "LV0"} \/ x.val >= 0)
        /\ insts' = insts /\ rd' = MovedOn(rd) /\ PatchOnly
    BY <1>4, <1>c DEF PatchNothing, MovedOn
  <2>2. x.ref.kind \in {"none", "back"}
    <3>1. \A m \in 1..Len(calls) : AFUNC * m < 0
      BY <1>a DEF AFUNC
    <3>2. x.ref.kind \notin {"jump", "int", "real", "str"}
      BY <1>b, <2>1 DEF Unpatched, AINT, AREAL, ASTR, AJUMP
    <3>3. x.ref.kind # "call"
      BY <1>b, <2>1, <3>1 DEF Unpatched
    <3>4. QED
      BY <1>b, <2>1, <3>2, <3>3 DEF Queues, Kinds
  <2>3. /\ rd' \in [Cursors -> Nat]
        /\ rd'.inst = rd.inst + 1
        /\ \A c \in Queues \cup {"jump"} : rd'[c] = rd[c] + (IF x.ref.kind = c THEN 1 ELSE 0)
    <3>1. x.ref.kind \notin Queues \cup {"jump"}
      BY <2>2 DEF Queues
    <3>2. QED
      BY <1>a, <2>1, <3>1, MoveOn
  <2>4. QED
    BY <1>a, <1>b, <2>1, <2>2, <2>3, PatchStep DEF x
<1>5. CASE Close
  <2>1. /\ phase = "patch" /\ phase' = "done" /\ rd.inst = Len(insts) + 1
        /\ UNCHANGED <<frames, insts, bytes, pool, strBytes, pend, offsetOf, calls,
                       jumps, rd, constLit, land, entry>>
    BY <1>5 DEF Close
  <2>2. TypeOK' /\ Stages'
    BY <2>1 DEF IInv, TypeOK, Stages
  <2>3. Placeholders' /\ Nesting' /\ JumpTableInBounds' /\ Slots'
    BY <2>1 DEF IInv, Placeholders, Nesting, JumpTableInBounds, Slots
  <2>4. Landing' /\ Turn' /\ BranchesLand'
    BY <2>1 DEF IInv, Landing, Turn, BranchesLand
  <2>5. QED
    BY <2>2, <2>3, <2>4 DEF IInv
<1>6. CASE Done
  <2>1. UNCHANGED cgVars
    BY <1>6 DEF Done
  <2>2. QED
    BY <2>1, InvStutter
<1>7. QED
  BY <1>1, <1>2, <1>3, <1>4, <1>5, <1>6, <1>a
     DEF Next, DeclareConst, StartMain, EmitPlain, PushLiteral, PushConst, PrintString,
         Call, OpenBranch, OpenFor, OpenRepeat, CanOpen, BranchFalse, Else, CloseIf,
         CloseFor, RepeatUntil, CloseRepeat, EndMain, StartFunc, EndFunc, StartPatching,
         InCode, InBody
-----------------------------------------------------------------------------
(* The generator starts with nothing emitted and nothing owed. *)
LEMMA InvInit == Init => IInv
<1> SUFFICES ASSUME Init PROVE IInv
  OBVIOUS
<1>1. TypeOK
  BY TypeInit
<1>2. /\ frames = <<>> /\ insts = <<>> /\ Len(frames) = 0 /\ Len(insts) = 0
      /\ rd = [inst |-> 1, jump |-> 0, int |-> 0, real |-> 0, str |-> 0]
      /\ jumps.num = 0 /\ jumps.adr = <<>> /\ jumps.cap = jumps.alloc
      /\ phase = "globals" /\ \A q \in Queues : Len(pend[q]) = 0
  BY DEF Init
<1>3. DOMAIN jumps.adr = {}
  BY <1>2
<1>4. Stages /\ Placeholders /\ Nesting /\ BranchesLand
  BY <1>2 DEF Stages, Placeholders, Nesting, NestingOf, BranchesLand
<1>5. JumpTableInBounds
  BY <1>1, <1>2, <1>3 DEF JumpTableInBounds, TypeOK
<1>6. Slots
  BY <1>2, <1>3 DEF Slots, SlotsOf
<1>7. Landing
  BY <1>2 DEF Landing, LandingOf
<1>8. Turn
  <2>1. \A kind : Before(insts, rd.inst, kind) = 0
                  /\ Before(insts, Len(insts) + 1, kind) = 0
    BY <1>2, BeforeFirst
  <2>2. QED
    BY <1>2, <2>1 DEF Turn, Queues
<1>9. QED
  BY <1>1, <1>4, <1>5, <1>6, <1>7, <1>8 DEF IInv

(* Every step keeps the invariant. *)
LEMMA InvStep == IInv /\ [Next]_cgVars => IInv'
<1>1. ASSUME IInv, Next PROVE IInv'
  <2>1. phase \in {"globals", "code", "patch", "done"}
    BY <1>1 DEF IInv, TypeOK
  <2>2. QED
    BY <1>1, <2>1, InvCode, InvPatch
<1>2. QED
  BY <1>1, InvStutter

(* The invariant holds in every state the generator reaches. *)
THEOREM Inductive == Spec => []IInv
<1>1. QED
  BY InvInit, InvStep, PTL DEF Spec

(* Every variable keeps its type; the byte counters never leave 16 bits. *)
THEOREM TypeCorrect == Spec => []TypeOK
<1>1. IInv => TypeOK
  BY DEF IInv
<1>2. QED
  BY <1>1, Inductive, PTL

(* anchor_jump stays inside the ints that realloc obtained, whatever the initial
   capacity and however deep the constructs nest. *)
THEOREM TableSafe == Spec => []JumpTableInBounds
<1>1. IInv => JumpTableInBounds
  BY DEF IInv
<1>2. QED
  BY <1>1, Inductive, PTL

(* The patching pass meets each placeholder with its cursor at its own entry. *)
THEOREM InStep == Spec => []PassInStep
<1>1. IInv => PassInStep
  BY DEF IInv, Turn, PassInStep
<1>2. QED
  BY <1>1, Inductive, PTL

(* Every slot was anchored when the patching pass starts to read the table. *)
THEOREM AllAnchored == Spec => []EverySlotAnchored
<1>1. IInv => EverySlotAnchored
  <2>1. ASSUME IInv, phase = "patch" PROVE DOMAIN jumps.adr = 0..(jumps.num - 1)
    <3>1. Len(frames) = 0
      BY <2>1 DEF IInv, Stages
    <3>2. SlotsOf(jumps, frames)
      BY <2>1 DEF IInv, Slots
    <3>3. DOMAIN jumps.adr \subseteq 0..(jumps.num - 1)
      BY <3>2 DEF SlotsOf
    <3>4. \A s \in 0..(jumps.num - 1) : s \in DOMAIN jumps.adr
      BY <3>1, <3>2 DEF SlotsOf
    <3>5. QED
      BY <3>3, <3>4
  <2>2. QED
    BY <2>1 DEF EverySlotAnchored
<1>2. QED
  BY <1>1, Inductive, PTL

(* A patched branch holds the address its own construct anchored for it. *)
THEOREM Landed == Spec => []BranchesLand
<1>1. IInv => BranchesLand
  BY DEF IInv
<1>2. QED
  BY <1>1, Inductive, PTL

(* What was anchored is never overwritten nor lost. *)
THEOREM NeverReanchored == Spec => AnchoredOnce
<1> DEFINE Kept == \A s \in DOMAIN jumps.adr : s \in DOMAIN jumps'.adr
                                               /\ jumps'.adr[s] = jumps.adr[s]
<1>1. ASSUME IInv, Next PROVE jumps' = jumps \/ Kept
  <2>1. ASSUME frames # <<>>, Owns(Top), NEW byte, NEW n, LandHere(Top.at, n, byte),
               \/ jumps' = Anchored(jumps, Top.slot, byte)
               \/ jumps' = [Anchored(jumps, Top.slot, byte) EXCEPT !.num = @ + 1]
        PROVE  Kept
    <3> DEFINE a == Anchored(jumps, Top.slot, byte)
    <3>1. \A s \in DOMAIN jumps.adr : s \in DOMAIN a.adr /\ a.adr[s] = jumps.adr[s]
      BY <1>1, <2>1, AnchorTop
    <3>2. a = [num |-> a.num, cap |-> a.cap, alloc |-> a.alloc, adr |-> a.adr]
      BY DEF Anchored
    <3>3. jumps' = a \/ jumps' = [a EXCEPT !.num = @ + 1]
      BY <2>1
    <3> HIDE DEF a
    <3>4. jumps'.adr = a.adr
      BY <3>2, <3>3
    <3>5. QED
      BY <3>1, <3>4
  <2>2. frames # <<>> /\ Top.stage = "then" => Owns(Top)
    <3>1. frames \in Seq(Frames) /\ NestingOf(frames)
      BY <1>1 DEF IInv, TypeOK, Nesting
    <3>2. frames # <<>> => Len(frames) \in 1..Len(frames)
      BY <3>1
    <3>3. QED
      BY <3>1, <3>2 DEF NestingOf, FrameAt, Top, Owns
  <2>3. CASE OpenBranch("if") \/ OpenBranch("ifelse") \/ OpenFor
    <3>1. jumps' = [jumps EXCEPT !.num = @ + 1]
      BY <2>3 DEF OpenBranch, OpenFor
    <3>2. jumps'.adr = jumps.adr
      BY <3>1
    <3>3. QED
      BY <3>2
  <2>4. CASE Else
    BY <2>1, <2>2, <2>4 DEF Else, InCode
  <2>5. CASE CloseIf
    BY <2>1, <2>5 DEF CloseIf, InCode, Owns
  <2>6. CASE CloseFor
    BY <2>1, <2>6 DEF CloseFor, InCode, Owns
  <2>7. CASE ~(\/ OpenBranch("if") \/ OpenBranch("ifelse") \/ OpenFor
               \/ Else \/ CloseIf \/ CloseFor)
    BY <1>1, <2>7
       DEF Next, DeclareConst, StartMain, EmitPlain, PushLiteral, PushConst,
           PrintString, Call, OpenRepeat, BranchFalse, RepeatUntil, CloseRepeat,
           EndMain, EndFunc, StartFunc, StartPatching, PatchQueued, PatchJump,
           PatchCall, PatchNothing, PatchOnly, Close, Done, cgVars
  <2>8. QED
    BY <2>3, <2>4, <2>5, <2>6, <2>7
<1>2. IInv /\ [Next]_cgVars => [Kept]_jumps
  BY <1>1 DEF cgVars
<1>3. QED
  BY <1>2, Inductive, PTL DEF Spec, AnchoredOnce

(***************************************************************************)
(* What the operands of a finished module lead to: branches, calls and     *)
(* literals, for every program that fits the 16-bit counters.              *)
(*                                                                         *)
(* Addresses are sums over the instruction list and its opcodes, so they   *)
(* are known where they are taken (Addressed) and do not change when       *)
(* operands are patched; offsets into the pools are known where they are   *)
(* queued (Pooled), and the turn of a placeholder, which is the invariant  *)
(* above, brings each to its instruction.                                  *)
(***************************************************************************)

(***************************************************************************)
(* Counters that wrap round.                                               *)
(***************************************************************************)
(* Quotient and remainder are the only ones there are. *)
LEMMA ModUnique ==
  ASSUME NEW w \in Nat \ {0}, NEW n \in Int, NEW q \in Int, NEW r \in 0..(w - 1), n = w * q + r
  PROVE  n % w = r
<1>1. n % w \in 0..(w-1)
  OBVIOUS
<1>2. n = w * (n \div w) + (n % w)
  OBVIOUS
<1> DEFINE d == n \div w
           m == n % w
<1>3. d \in Int /\ m \in 0..(w-1) /\ n = w * d + m
  BY <1>1, <1>2
<1> HIDE DEF d, m
<1>4. w * (q - d) = m - r
  BY <1>3
<1>5. CASE q > d
  <2>1. w * (q - d) >= w
    BY <1>3, <1>5
  <2> QED BY <1>3, <1>4, <2>1
<1>6. CASE q < d
  <2>1. w * (q - d) <= -w
    BY <1>3, <1>6
  <2> QED BY <1>3, <1>4, <2>1
<1>7. CASE q = d
  <2>1. w * (q - d) = 0
    BY <1>3, <1>7
  <2> QED BY <1>3, <1>4, <2>1 DEF m
<1> QED BY <1>3, <1>5, <1>6, <1>7

(* A counter that wraps round at each step ends where one that wraps round once
   does. *)
LEMMA ModAdd ==
  ASSUME NEW w \in Nat \ {0}, NEW a \in Nat, NEW c \in Nat
  PROVE  ((a % w) + c) % w = (a + c) % w
<1> DEFINE p == a \div w
           r == a % w
           q == (r + c) \div w
           m == (r + c) % w
<1>1. p \in Int /\ r \in 0..(w - 1) /\ a = w * p + r
  OBVIOUS
<1>2. q \in Int /\ m \in 0..(w - 1) /\ r + c = w * q + m
  BY <1>1
<1> HIDE DEF p, q, m, r
<1>3. a + c = w * (p + q) + m /\ p + q \in Int /\ a + c \in Int
  BY <1>1, <1>2
<1>4. (a + c) % w = m
  BY <1>2, <1>3, ModUnique
<1> QED BY <1>4 DEF m, r

(* What fits the counter is what the counter shows. *)
LEMMA ModSmall ==
  ASSUME NEW w \in Nat \ {0}, NEW a \in 0..(w - 1)
  PROVE  a % w = a
BY ModUnique

(* Padding what fits, with the padding, ends at a whole number of words. *)
LEMMA PadFits ==
  ASSUME NEW n \in Nat, n + 8 <= Word
  PROVE  Pad(n % Word) = 8 * ((n + 7) \div 8)
<1>1. Word \in Nat \ {0} /\ n \in 0..(Word - 1)
  BY WordAssumption
<1>2. n % Word = n
  BY <1>1, ModSmall
<1>3. CASE n % 8 = 0
  <2>1. n = 8 * ((n + 7) \div 8)
    BY <1>3
  <2> QED BY <1>2, <1>3, <2>1 DEF Pad
<1>4. CASE n % 8 # 0
  <2>1. n + (8 - (n % 8)) = 8 * ((n + 7) \div 8)
    BY <1>4
  <2>2. n + (8 - (n % 8)) \in 0..(Word - 1)
    BY <1>1, <1>4
  <2>3. (n + (8 - (n % 8))) % Word = n + (8 - (n % 8))
    BY <1>1, <2>2, ModSmall
  <2> QED BY <1>2, <1>4, <2>1, <2>3 DEF Pad
<1> QED BY <1>3, <1>4

(***************************************************************************)
(* Sums.                                                                   *)
(***************************************************************************)
(* The sum of the first numbers of a sequence has a value, by induction, and is
   what its recursion says. *)
LEMMA SumIs ==
  ASSUME NEW w \in Seq(Nat)
  PROVE  /\ \A k \in 0..Len(w) : SumOf(w, k) \in Nat
         /\ SumOf(w, 0) = 0
         /\ \A k \in 1..Len(w) : SumOf(w, k) = SumOf(w, k - 1) + w[k]
<1> DEFINE n == Len(w)
           G(m) == {g \in [0..m -> Nat] :
                      \A k \in 0..m : g[k] = IF k = 0 THEN 0 ELSE g[k - 1] + w[k]}
           S == {m \in 0..n : G(m) # {}}
           sum == CHOOSE sum : sum = [j \in 0..n |-> IF j = 0 THEN 0 ELSE sum[j - 1] + w[j]]
<1>0. n \in Nat /\ \A k \in 1..n : w[k] \in Nat
  OBVIOUS
<1>a. \A m : m \in S <=> m \in 0..n /\ G(m) # {}
  OBVIOUS
<1> HIDE DEF S, n
<1>1. 0 \in S
  <2>1. [k \in 0..0 |-> 0] \in G(0)
    OBVIOUS
  <2>2. 0 \in 0..n
    BY <1>0
  <2> HIDE DEF G
  <2> QED BY <1>a, <2>1, <2>2
<1>2. ASSUME NEW m \in 0..(n - 1), m \in S PROVE m + 1 \in S
  <2>0. G(m) # {}
    <3> HIDE DEF G
    <3> QED BY <1>a, <1>2
  <2>1. PICK g \in [0..m -> Nat] :
          \A k \in 0..m : g[k] = IF k = 0 THEN 0 ELSE g[k - 1] + w[k]
    BY <2>0
  <2> DEFINE h == [k \in 0..(m + 1) |-> IF k <= m THEN g[k] ELSE g[m] + w[m + 1]]
  <2>2. w[m + 1] \in Nat /\ g[m] \in Nat /\ m \in Nat
    BY <1>0, <2>1
  <2>3. h \in [0..(m + 1) -> Nat]
    BY <2>1, <2>2
  <2>4. ASSUME NEW k \in 0..(m + 1)
        PROVE  h[k] = IF k = 0 THEN 0 ELSE h[k - 1] + w[k]
    <3>1. CASE k <= m
      <4>1. k \in 0..m /\ (k # 0 => k - 1 \in 0..m /\ k - 1 <= m /\ k - 1 \in 0..(m + 1))
        BY <2>2, <3>1
      <4>2. h[k] = g[k] /\ (k # 0 => h[k - 1] = g[k - 1])
        BY <3>1, <4>1
      <4> QED BY <2>1, <4>1, <4>2
    <3>2. CASE k = m + 1
      <4>1. k # 0 /\ ~(k <= m) /\ k - 1 = m /\ m \in 0..(m + 1)
        BY <2>2, <3>2
      <4>2. h[k] = g[m] + w[m + 1] /\ h[m] = g[m]
        BY <2>2, <4>1
      <4> QED BY <3>2, <4>1, <4>2
    <3> QED BY <2>2, <3>1, <3>2
  <2>5. h \in G(m + 1)
    BY <2>3, <2>4
  <2>6. m + 1 \in 0..n
    BY <1>0
  <2> HIDE DEF G
  <2> QED BY <1>a, <2>5, <2>6
<1>b. 0 \in Int /\ n \in Int /\ n \in 0..n
  BY <1>0
<1>3. n \in S
  <2>1. 0..n \subseteq S
    BY <1>1, <1>2, <1>b, InductUpTo
  <2> QED BY <1>b, <2>1
<1>4. PICK g \in [0..n -> Nat] :
        \A k \in 0..n : g[k] = IF k = 0 THEN 0 ELSE g[k - 1] + w[k]
  <2>1. G(n) # {}
    <3> HIDE DEF G
    <3> QED BY <1>a, <1>3
  <2> QED BY <2>1
<1>5. g = [j \in 0..n |-> IF j = 0 THEN 0 ELSE g[j - 1] + w[j]]
  BY <1>4
<1>6. sum = [j \in 0..n |-> IF j = 0 THEN 0 ELSE sum[j - 1] + w[j]]
  BY <1>5
<1>7. \A k : SumOf(w, k) = sum[k]
  BY DEF SumOf, n
<1> HIDE DEF sum
<1>8. sum[0] = 0 /\ \A k \in 1..n : sum[k] = sum[k - 1] + w[k]
  BY <1>0, <1>6
<1>9. \A k \in 0..n : sum[k] \in Nat
  <2> DEFINE T == {k \in 0..n : sum[k] \in Nat}
  <2>1. 0 \in T
    BY <1>0, <1>8
  <2>2. ASSUME NEW k \in 0..(n - 1), k \in T PROVE k + 1 \in T
    <3>1. k + 1 \in 1..n /\ (k + 1) - 1 = k /\ sum[k] \in Nat /\ k + 1 \in 0..n
      BY <1>0, <2>2
    <3>2. sum[k + 1] = sum[k] + w[k + 1] /\ w[k + 1] \in Nat
      BY <1>0, <1>8, <3>1
    <3> QED BY <3>1, <3>2
  <2> HIDE DEF T
  <2>3. 0..n \subseteq T
    BY <1>b, <2>1, <2>2, InductUpTo
  <2> QED BY <2>3 DEF T
<1> QED BY <1>7, <1>8, <1>9 DEF n

(* It looks only at those numbers. *)
LEMMA SumSame ==
  ASSUME NEW v \in Seq(Nat), NEW w \in Seq(Nat), NEW n \in 0..Len(v), n <= Len(w),
         \A j \in 1..n : v[j] = w[j]
  PROVE  SumOf(v, n) = SumOf(w, n)
<1> DEFINE S == {k \in 0..n : SumOf(v, k) = SumOf(w, k)}
<1>0. Len(v) \in Nat /\ Len(w) \in Nat /\ n \in Nat
  OBVIOUS
<1>1. 0 \in S
  BY <1>0, SumIs
<1>2. ASSUME NEW k \in 0..(n - 1), k \in S PROVE k + 1 \in S
  <2>1. /\ k + 1 \in 1..n /\ k + 1 \in 1..Len(v) /\ k + 1 \in 1..Len(w) /\ (k + 1) - 1 = k
        /\ k + 1 \in 0..n /\ SumOf(v, k) = SumOf(w, k)
    BY <1>0, <1>2
  <2>2. SumOf(v, k + 1) = SumOf(v, k) + v[k + 1] /\ SumOf(w, k + 1) = SumOf(w, k) + w[k + 1]
    BY <2>1, SumIs
  <2> QED BY <2>1, <2>2
<1> HIDE DEF S
<1>b. 0 \in Int /\ n \in Int
  BY <1>0
<1>3. 0..n \subseteq S
  BY <1>1, <1>2, <1>b, InductUpTo
<1> QED BY <1>0, <1>3 DEF S

(* It does not fall. *)
LEMMA SumGrows ==
  ASSUME NEW w \in Seq(Nat), NEW j \in 0..Len(w), NEW k \in j..Len(w)
  PROVE  SumOf(w, j) <= SumOf(w, k)
<1> DEFINE n == Len(w)
           S == {i \in j..n : SumOf(w, j) <= SumOf(w, i)}
<1>0. n \in Nat /\ j \in 0..n /\ \A i \in 0..n : SumOf(w, i) \in Nat
  BY SumIs
<1> HIDE DEF n
<1>1. j \in S
  BY <1>0
<1>2. ASSUME NEW i \in j..(n - 1), i \in S PROVE i + 1 \in S
  <2>1. i + 1 \in 1..n /\ (i + 1) - 1 = i /\ i + 1 \in j..n /\ i \in 0..n /\ i + 1 \in 0..n
    BY <1>0
  <2>2. w[i + 1] \in Nat
    BY <2>1 DEF n
  <2>3. SumOf(w, i + 1) = SumOf(w, i) + w[i + 1]
    BY <2>1, SumIs DEF n
  <2> QED BY <1>0, <1>2, <2>1, <2>2, <2>3
<1> HIDE DEF S
<1>b. j \in Int /\ n \in Int
  BY <1>0
<1>3. j..n \subseteq S
  BY <1>1, <1>2, <1>b, InductUpTo
<1> QED BY <1>3 DEF S, n

(***************************************************************************)
(* Addresses.                                                              *)
(***************************************************************************)
Widths(s) == [j \in 1..Len(s) |-> Width(s[j])]

(* The widths of instructions are numbers to be added up. *)
LEMMA WidthsAre ==
  ASSUME NEW s \in Seq(Insts)
  PROVE  /\ Widths(s) \in Seq(Nat) /\ Len(Widths(s)) = Len(s) /\ Len(s) \in Nat
         /\ \A j \in 1..Len(s) : Widths(s)[j] = Width(s[j]) /\ Width(s[j]) \in Nat
         /\ \A i : Start(s, i) = SumOf(Widths(s), i - 1)
BY WidthType DEF Widths, Start

(* An address is the one before it and the width of what lies there; none is
   above the end of the code. *)
LEMMA StartIs ==
  ASSUME NEW s \in Seq(Insts)
  PROVE  /\ \A i \in 1..(Len(s) + 1) : /\ Start(s, i) \in Nat
                                       /\ Start(s, i) <= Start(s, Len(s) + 1)
         /\ Start(s, 1) = 0
         /\ \A i \in 1..Len(s) : Start(s, i + 1) = Start(s, i) + Width(s[i])
<1> DEFINE w == Widths(s)
           n == Len(s)
<1>1. /\ w \in Seq(Nat) /\ Len(w) = n /\ n \in Nat
      /\ \A j \in 1..n : w[j] = Width(s[j])
      /\ \A i : Start(s, i) = SumOf(w, i - 1)
  BY WidthsAre
<1> HIDE DEF w, n
<1>2. /\ \A k \in 0..n : SumOf(w, k) \in Nat
      /\ SumOf(w, 0) = 0
      /\ \A k \in 1..n : SumOf(w, k) = SumOf(w, k - 1) + w[k]
  BY <1>1, SumIs
<1>3. ASSUME NEW i \in 1..(n + 1) PROVE Start(s, i) \in Nat /\ Start(s, i) <= Start(s, n + 1)
  <2>1. i - 1 \in 0..n /\ n \in (i - 1)..n /\ (n + 1) - 1 = n
    BY <1>1
  <2>2. SumOf(w, i - 1) <= SumOf(w, n)
    BY <1>1, <2>1, SumGrows
  <2> QED BY <1>1, <1>2, <2>1, <2>2
<1>4. Start(s, 1) = 0
  BY <1>1, <1>2
<1>5. ASSUME NEW i \in 1..n PROVE Start(s, i + 1) = Start(s, i) + Width(s[i])
  <2>1. (i + 1) - 1 = i
    BY <1>1
  <2> QED BY <1>1, <1>2, <2>1
<1> QED BY <1>3, <1>4, <1>5 DEF n

(* An address depends on the opcodes before it, and on nothing else: neither what
   is pushed later nor what is patched moves it. *)
LEMMA StartSame ==
  ASSUME NEW s \in Seq(Insts), NEW t \in Seq(Insts), NEW i \in 1..(Len(s) + 1),
         i <= Len(t) + 1, \A j \in 1..(i - 1) : s[j].op = t[j].op
  PROVE  Start(s, i) = Start(t, i)
<1> DEFINE v == Widths(s)
           w == Widths(t)
<1>1. /\ v \in Seq(Nat) /\ Len(v) = Len(s) /\ w \in Seq(Nat) /\ Len(w) = Len(t)
      /\ Len(s) \in Nat /\ Len(t) \in Nat
      /\ \A j \in 1..Len(s) : v[j] = Width(s[j])
      /\ \A j \in 1..Len(t) : w[j] = Width(t[j])
      /\ Start(s, i) = SumOf(v, i - 1) /\ Start(t, i) = SumOf(w, i - 1)
  BY WidthsAre
<1> HIDE DEF v, w
<1>2. /\ i - 1 \in 0..Len(v) /\ i - 1 <= Len(w)
      /\ \A j \in 1..(i - 1) : j \in 1..Len(s) /\ j \in 1..Len(t)
  BY <1>1
<1>3. \A j \in 1..(i - 1) : v[j] = w[j]
  BY <1>1, <1>2, ZenonT(60) DEF Width
<1> QED BY <1>1, <1>2, <1>3, SumSame

(* What is pushed behind an address does not move it. *)
LEMMA StartAppend ==
  ASSUME NEW s \in Seq(Insts), NEW u \in Seq(Insts), NEW i \in 1..(Len(s) + 1)
  PROVE  Start(s \o u, i) = Start(s, i)
<1> DEFINE t == s \o u
<1>1. /\ t \in Seq(Insts) /\ Len(s) \in Nat /\ Len(t) \in Nat /\ Len(s) <= Len(t)
      /\ \A j \in 1..Len(s) : t[j] = s[j]
  OBVIOUS
<1> HIDE DEF t
<1>2. i <= Len(t) + 1 /\ \A j \in 1..(i - 1) : s[j].op = t[j].op
  BY <1>1
<1>3. Start(s, i) = Start(t, i)
  BY <1>1, <1>2, StartSame
<1> QED BY <1>3 DEF t

(* The end of the code moves by the widths of what is pushed, three instructions
   at most. *)
LEMMA StartEnd ==
  ASSUME NEW s \in Seq(Insts), NEW u \in Seq(Insts), Len(u) \in 0..3
  PROVE  Start(s \o u, Len(s \o u) + 1) =
           Start(s, Len(s) + 1) + (WidthAt(u, 1) + WidthAt(u, 2) + WidthAt(u, 3))
<1> DEFINE t == s \o u
           n == Len(s)
           m == Len(u)
           a == Start(s, n + 1)
<1>1. /\ t \in Seq(Insts) /\ n \in Nat /\ m \in 0..3 /\ Len(t) = n + m
      /\ \A j \in 1..m : t[n + j] = u[j]
  OBVIOUS
<1>2. /\ a \in Nat /\ Start(t, n + 1) = a
      /\ \A i \in 1..Len(t) : Start(t, i + 1) = Start(t, i) + Width(t[i])
  <2>1. n + 1 \in 1..(Len(s) + 1)
    OBVIOUS
  <2>2. Start(t, n + 1) = a
    BY <2>1, StartAppend
  <2>3. a \in Nat
    BY <2>1, StartIs
  <2> HIDE DEF t, a
  <2> QED BY <1>1, <2>2, <2>3, StartIs
<1>3. \A j \in 1..3 : WidthAt(u, j) = IF j <= m THEN Width(u[j]) ELSE 0
  BY DEF WidthAt
<1>4. \A j \in 1..3 : WidthAt(u, j) \in Nat
  BY <1>3, WidthType
<1> HIDE DEF t, n, m, a
<1>5. \A j \in 1..m : Start(t, (n + j) + 1) = Start(t, n + j) + WidthAt(u, j)
  <2> SUFFICES ASSUME NEW j \in 1..m
               PROVE  Start(t, (n + j) + 1) = Start(t, n + j) + WidthAt(u, j)
    OBVIOUS
  <2>1. n + j \in 1..Len(t) /\ t[n + j] = u[j] /\ j \in 1..3 /\ j <= m
    BY <1>1
  <2> QED BY <1>2, <1>3, <2>1
<1>6. m \in {0, 1, 2, 3}
  BY <1>1
<1>7. CASE m = 0
  <2>1. Len(t) + 1 = n + 1 /\ WidthAt(u, 1) = 0 /\ WidthAt(u, 2) = 0 /\ WidthAt(u, 3) = 0
    BY <1>1, <1>3, <1>7
  <2> QED BY <1>2, <2>1 DEF t, n, a
<1>8. CASE m = 1
  <2>1. /\ Len(t) + 1 = (n + 1) + 1 /\ WidthAt(u, 2) = 0 /\ WidthAt(u, 3) = 0
        /\ 1 \in 1..m
    BY <1>1, <1>3, <1>8
  <2>2. Start(t, (n + 1) + 1) = a + WidthAt(u, 1)
    BY <1>2, <1>5, <2>1
  <2> QED BY <1>2, <1>4, <2>1, <2>2 DEF t, n, a
<1>9. CASE m = 2
  <2>1. /\ Len(t) + 1 = (n + 2) + 1 /\ WidthAt(u, 3) = 0 /\ (n + 1) + 1 = n + 2
        /\ 1 \in 1..m /\ 2 \in 1..m
    BY <1>1, <1>3, <1>9
  <2>2. /\ Start(t, n + 2) = a + WidthAt(u, 1)
        /\ Start(t, (n + 2) + 1) = Start(t, n + 2) + WidthAt(u, 2)
    BY <1>2, <1>5, <2>1
  <2> QED BY <1>2, <1>4, <2>1, <2>2 DEF t, n, a
<1>10. CASE m = 3
  <2>1. /\ Len(t) + 1 = (n + 3) + 1 /\ (n + 1) + 1 = n + 2 /\ (n + 2) + 1 = n + 3
        /\ 1 \in 1..m /\ 2 \in 1..m /\ 3 \in 1..m
    BY <1>1, <1>10
  <2>2. /\ Start(t, n + 2) = a + WidthAt(u, 1)
        /\ Start(t, n + 3) = Start(t, n + 2) + WidthAt(u, 2)
        /\ Start(t, (n + 3) + 1) = Start(t, n + 3) + WidthAt(u, 3)
    BY <1>2, <1>5, <2>1
  <2> QED BY <1>2, <1>4, <2>1, <2>2 DEF t, n, a
<1> QED BY <1>6, <1>7, <1>8, <1>9, <1>10

(* inst_bytes follows the end of the code, wrapping round as it goes. *)
LEMMA CounterFollows ==
  ASSUME NEW s \in Seq(Insts), NEW u \in Seq(Insts), Len(u) \in 0..3,
         bytes = Start(s, Len(s) + 1) % Word
  PROVE  After(u) = Start(s \o u, Len(s \o u) + 1) % Word
<1> DEFINE a == Start(s, Len(s) + 1)
           c == WidthAt(u, 1) + WidthAt(u, 2) + WidthAt(u, 3)
<1>1. Len(s) + 1 \in 1..(Len(s) + 1)
  OBVIOUS
<1>2. a \in Nat
  BY <1>1, StartIs
<1>3. \A k : WidthAt(u, k) \in Nat
  BY WidthType DEF WidthAt
<1>4. c \in Nat
  BY <1>3
<1>5. Start(s \o u, Len(s \o u) + 1) = a + c
  BY StartEnd
<1>6. After(u) = (bytes + WidthAt(u, 1) + WidthAt(u, 2) + WidthAt(u, 3)) % Word
  BY DEF After
<1>7. bytes = a % Word /\ bytes \in Nat
  BY <1>2, WordAssumption
<1>8. bytes + WidthAt(u, 1) + WidthAt(u, 2) + WidthAt(u, 3) = bytes + c
  BY <1>3, <1>7
<1> HIDE DEF a, c
<1>9. ((a % Word) + c) % Word = (a + c) % Word
  BY <1>2, <1>4, WordAssumption, ModAdd
<1> QED BY <1>5, <1>6, <1>7, <1>8, <1>9

(***************************************************************************)
(* The invariant of addresses.                                             *)
(***************************************************************************)
(* b is the address of instruction i of the list s, in 16 bits. *)
Marked(s, i, b) == i \in 1..(Len(s) + 1) /\ b = Start(s, i) % Word

IsLoop(f) == f.kind \in {"for", "repeat"}

(* Where branches land, loops go back to and functions start was noted down with
   its address. *)
Lands(s, ld)  == \A i \in DOMAIN ld : Marked(s, ld[i].inst, ld[i].byte)
Loops(s, fr)  == \A k \in 1..Len(fr) : IsLoop(fr[k]) => Marked(s, fr[k].begin, fr[k].top)
Heads(s, en, off) ==
  \A f \in Funcs \cap DOMAIN off : f \in DOMAIN en /\ Marked(s, en[f], off[f])
Backs(s) ==
  \A i \in 1..Len(s) :
    s[i].ref.kind = "back" => Marked(s, s[i].ref.of, s[i].val)

(* The operand of a call is the function it names, once it is patched, and the
   number of the call until then. *)
CallOf(x, patched, cs, off) ==
  x.ref.kind = "call" =>
    /\ x.ref.of \in Funcs
    /\ IF patched THEN x.val = off[x.ref.of]
       ELSE \E m \in 1..Len(cs) : x.val = AFUNC * m /\ cs[m] = x.ref.of
CallsOf(s, r, cs, off) == \A i \in 1..Len(s) : CallOf(s[i], i < r, cs, off)

Emitting == phase \in {"globals", "code"}
Padded(n) == IF Emitting THEN n % Word ELSE Pad(n % Word)

Addressed ==
  /\ Lands(insts, land) /\ Loops(insts, frames) /\ Heads(insts, entry, offsetOf)
  /\ Backs(insts) /\ CallsOf(insts, rd.inst, calls, offsetOf)
  /\ bytes = Padded(Start(insts, Len(insts) + 1))
  /\ phase = "done" => rd.inst = Len(insts) + 1

(* Marks stay where they are when the list grows. *)
LEMMA MarkedAppend ==
  ASSUME NEW s \in Seq(Insts), NEW u \in Seq(Insts), NEW i, NEW b, Marked(s, i, b)
  PROVE  Marked(s \o u, i, b)
<1>1. i \in 1..(Len(s) + 1) /\ b = Start(s, i) % Word
  BY DEF Marked
<1>2. Start(s \o u, i) = Start(s, i)
  BY <1>1, StartAppend
<1>3. i \in 1..(Len(s \o u) + 1)
  BY <1>1
<1> QED BY <1>1, <1>2, <1>3 DEF Marked

(* What becomes of landings, loops and entries when code is generated: those
   there were are kept, and new ones are marked in the new list. *)
KeepsLands(ld, md, t) ==
  \A i \in DOMAIN md : \/ i \in DOMAIN ld /\ md[i] = ld[i]
                       \/ Marked(t, md[i].inst, md[i].byte)
KeepsLoops(fr, gr, t) ==
  \A k \in 1..Len(gr) : IsLoop(gr[k]) =>
    \/ \E l \in 1..Len(fr) : IsLoop(fr[l]) /\ gr[k].begin = fr[l].begin /\ gr[k].top = fr[l].top
    \/ Marked(t, gr[k].begin, gr[k].top)
KeepsHeads(en, dn, off, ofg, t) ==
  \A f \in Funcs \cap DOMAIN ofg :
    \/ f \in DOMAIN off /\ ofg[f] = off[f] /\ (f \in DOMAIN en => f \in DOMAIN dn /\ dn[f] = en[f])
    \/ f \in DOMAIN dn /\ Marked(t, dn[f], ofg[f])
KeepsCalls(cs, ds) == Len(cs) <= Len(ds) /\ \A m \in 1..Len(cs) : ds[m] = cs[m]

(* The new state of the generator's tables, in the list t. *)
Keeps(t) ==
  /\ KeepsLands(land, land', t) /\ KeepsLoops(frames, frames', t)
  /\ KeepsHeads(entry, entry', offsetOf, offsetOf', t) /\ KeepsCalls(calls, calls')

(* A step of generation: the tables keep what they had, and what is pushed is
   marked right. *)
LEMMA GrowAddressed ==
  ASSUME IInv, Addressed, Emitting, Emitting', rd' = rd,
         NEW u \in Seq(Insts), Len(u) \in 0..3, insts' = insts \o u, bytes' = After(u),
         Keeps(insts'),
         \A j \in 1..Len(u) : u[j].ref.kind = "back" => Marked(insts', u[j].ref.of, u[j].val),
         \A j \in 1..Len(u) : CallOf(u[j], FALSE, calls', offsetOf')
  PROVE  Addressed'
<1> DEFINE s == insts
           t == insts'
<1>1. /\ s \in Seq(Insts) /\ t \in Seq(Insts) /\ Len(s) \in Nat /\ Len(u) \in Nat
      /\ Len(t) = Len(s) + Len(u)
      /\ \A i \in 1..Len(s) : t[i] = s[i]
      /\ \A i \in 1..Len(t) : i \notin 1..Len(s) => i - Len(s) \in 1..Len(u) /\ t[i] = u[i - Len(s)]
  <2>1. insts \in Seq(Insts)
    BY DEF IInv, TypeOK
  <2> QED BY ONLY <2>1, u \in Seq(Insts), insts' = insts \o u DEF s, t
<1>2. \A i, b : Marked(s, i, b) => Marked(t, i, b)
  BY <1>1, MarkedAppend
<1>3. rd.inst = 1 /\ rd'.inst = 1
  BY DEF IInv, Stages, Emitting
<1>4. phase' # "done"
  BY DEF Emitting
<1> HIDE DEF s, t
<1>5. Lands(t, land')
  BY <1>2 DEF Addressed, Keeps, Lands, KeepsLands, s, t
<1>6. Loops(t, frames')
  BY <1>2 DEF Addressed, Keeps, Loops, KeepsLoops, s, t
<1>7. Heads(t, entry', offsetOf')
  <2> SUFFICES ASSUME NEW f \in Funcs \cap DOMAIN offsetOf'
               PROVE  f \in DOMAIN entry' /\ Marked(t, entry'[f], offsetOf'[f])
    BY DEF Heads
  <2>1. CASE f \in DOMAIN entry' /\ Marked(t, entry'[f], offsetOf'[f])
    BY <2>1
  <2>2. CASE /\ f \in DOMAIN offsetOf /\ offsetOf'[f] = offsetOf[f]
             /\ f \in DOMAIN entry => f \in DOMAIN entry' /\ entry'[f] = entry[f]
    <3>1. f \in DOMAIN entry /\ Marked(s, entry[f], offsetOf[f])
      BY <2>2 DEF Addressed, Heads, s
    <3> QED BY <1>2, <2>2, <3>1
  <2> QED BY <2>1, <2>2 DEF Keeps, KeepsHeads, t
<1>8. Backs(t)
  <2> SUFFICES ASSUME NEW i \in 1..Len(t), t[i].ref.kind = "back"
               PROVE  Marked(t, t[i].ref.of, t[i].val)
    BY DEF Backs
  <2>1. CASE i \in 1..Len(s)
    <3>1. t[i] = s[i]
      BY <1>1, <2>1
    <3>2. Marked(s, s[i].ref.of, s[i].val)
      BY <2>1, <3>1 DEF Addressed, Backs, s
    <3> QED BY <1>2, <3>1, <3>2
  <2>2. CASE i \notin 1..Len(s)
    <3>1. i - Len(s) \in 1..Len(u) /\ t[i] = u[i - Len(s)]
      BY <1>1, <2>2
    <3> QED BY <3>1 DEF t
  <2> QED BY <2>1, <2>2
<1>9. CallsOf(t, rd'.inst, calls', offsetOf')
  <2> SUFFICES ASSUME NEW i \in 1..Len(t), t[i].ref.kind = "call"
               PROVE  CallOf(t[i], FALSE, calls', offsetOf')
    BY <1>3 DEF CallsOf, CallOf
  <2>1. CASE i \in 1..Len(s)
    <3>1. t[i] = s[i] /\ ~(i < 1)
      BY <1>1, <2>1
    <3>2. CallOf(s[i], i < rd.inst, calls, offsetOf) /\ ~(i < rd.inst)
      BY <1>3, <2>1, <3>1 DEF Addressed, CallsOf, s
    <3>3. /\ t[i].ref.of \in Funcs
          /\ \E m \in 1..Len(calls) : t[i].val = AFUNC * m /\ calls[m] = t[i].ref.of
      BY <3>1, <3>2 DEF CallOf
    <3>4. Len(calls) \in Nat /\ Len(calls') \in Nat
      BY InvStep, SMTT(30) DEF IInv, TypeOK, Keeps, KeepsCalls
    <3>5. \A m \in 1..Len(calls) : m \in 1..Len(calls') /\ calls'[m] = calls[m]
      BY <3>4 DEF Keeps, KeepsCalls
    <3>6. \E m \in 1..Len(calls') : t[i].val = AFUNC * m /\ calls'[m] = t[i].ref.of
      BY <3>3, <3>5
    <3> QED BY <3>3, <3>6 DEF CallOf
  <2>2. CASE i \notin 1..Len(s)
    <3>1. i - Len(s) \in 1..Len(u) /\ t[i] = u[i - Len(s)]
      BY <1>1, <2>2
    <3> QED BY <3>1
  <2> QED BY <2>1, <2>2
<1>10. bytes' = Start(t, Len(t) + 1) % Word
  <2>1. bytes = Start(insts, Len(insts) + 1) % Word
    BY DEF Addressed, Padded
  <2>2. insts \in Seq(Insts)
    BY <1>1 DEF s
  <2> QED BY <2>1, <2>2, CounterFollows DEF t
<1> QED BY <1>4, <1>5, <1>6, <1>7, <1>8, <1>9, <1>10 DEF Addressed, Padded, t
(* The end of the code is marked by the counter, before and after a push. *)
LEMMA EndMarked ==
  ASSUME IInv, Addressed, Emitting, NEW u \in Seq(Insts), Len(u) \in 0..3
  PROVE  /\ Marked(insts, Len(insts) + 1, bytes)
         /\ Marked(insts \o u, Len(insts) + 1, bytes)
         /\ Marked(insts \o u, Len(insts) + Len(u) + 1, After(u))
<1>1. insts \in Seq(Insts) /\ bytes = Start(insts, Len(insts) + 1) % Word
  BY DEF IInv, TypeOK, Addressed, Padded
<1>2. Len(insts) \in Nat /\ Len(insts) + 1 \in 1..(Len(insts) + 1)
  BY <1>1
<1>3. Marked(insts, Len(insts) + 1, bytes)
  BY <1>1, <1>2 DEF Marked
<1>4. Marked(insts \o u, Len(insts) + 1, bytes)
  BY <1>1, <1>3, MarkedAppend
<1>5. After(u) = Start(insts \o u, Len(insts \o u) + 1) % Word
  BY <1>1, CounterFollows
<1>6. Len(insts \o u) = Len(insts) + Len(u)
      /\ Len(insts) + Len(u) + 1 \in 1..(Len(insts) + Len(u) + 1)
  BY <1>1
<1>7. Marked(insts \o u, Len(insts) + Len(u) + 1, After(u))
  BY <1>5, <1>6 DEF Marked
<1> QED BY <1>3, <1>4, <1>7

(* The tables that a step leaves alone keep what they had. *)
LEMMA KeepSame ==
  ASSUME NEW t
  PROVE  /\ land' = land => KeepsLands(land, land', t)
         /\ frames' = frames => KeepsLoops(frames, frames', t)
         /\ offsetOf' = offsetOf /\ entry' = entry
              => KeepsHeads(entry, entry', offsetOf, offsetOf', t)
         /\ IInv /\ calls' = calls => KeepsCalls(calls, calls')
<1>1. IInv /\ calls' = calls => KeepsCalls(calls, calls')
  <2> SUFFICES ASSUME IInv, calls' = calls PROVE KeepsCalls(calls, calls')
    OBVIOUS
  <2>1. Len(calls) \in Nat
    BY DEF IInv, TypeOK
  <2> QED BY <2>1 DEF KeepsCalls
<1>2. frames' = frames => KeepsLoops(frames, frames', t)
  BY DEF KeepsLoops
<1> QED BY <1>1, <1>2 DEF KeepsLands, KeepsHeads

(* A landing noted down with its address is kept among the others. *)
LEMMA KeepLanding ==
  ASSUME NEW t, NEW at, NEW n, NEW b, LandHere(at, n, b), Marked(t, n, b)
  PROVE  KeepsLands(land, land', t)
<1> DEFINE r == [inst |-> n, byte |-> b]
<1>1. land' = Put(land, at, r) /\ Marked(t, r.inst, r.byte)
  BY DEF LandHere
<1> HIDE DEF r
<1>2. /\ DOMAIN land' = DOMAIN land \cup {at} /\ land'[at] = r
      /\ \A i \in DOMAIN land : i # at => land'[i] = land[i]
  BY <1>1 DEF Put
<1> QED BY <1>1, <1>2 DEF KeepsLands

(* A symbol that is not a function changes no entry. *)
LEMMA KeepEntries ==
  ASSUME NEW t, NEW k, NEW v, k \notin Funcs, offsetOf' = Put(offsetOf, k, v),
         entry' = entry
  PROVE  KeepsHeads(entry, entry', offsetOf, offsetOf', t)
<1>1. /\ DOMAIN offsetOf' = DOMAIN offsetOf \cup {k}
      /\ \A x \in DOMAIN offsetOf : x # k => offsetOf'[x] = offsetOf[x]
  BY DEF Put
<1> QED BY <1>1 DEF KeepsHeads

(* The frame on top goes on as the loop it was. *)
LEMMA KeepTop ==
  ASSUME NEW t, NEW g \in Frames, frames \in Seq(Frames), frames # <<>>, frames' = SetTop(g),
         g.kind = Top.kind, g.begin = Top.begin, g.top = Top.top
  PROVE  KeepsLoops(frames, frames', t)
<1>1. /\ Len(frames') = Len(frames) /\ Len(frames) \in 1..Len(frames)
      /\ frames'[Len(frames)] = g
      /\ \A k \in 1..Len(frames) : k # Len(frames) => frames'[k] = frames[k]
  BY DEF SetTop
<1>2. Top = frames[Len(frames)]
  BY DEF Top
<1> QED BY <1>1, <1>2 DEF KeepsLoops, IsLoop

(* A frame comes on top; when it is a loop, its start is marked. *)
LEMMA KeepPushed ==
  ASSUME NEW t, NEW g \in Frames, frames \in Seq(Frames), frames' = Append(frames, g),
         IsLoop(g) => Marked(t, g.begin, g.top)
  PROVE  KeepsLoops(frames, frames', t)
<1>1. /\ Len(frames') = Len(frames) + 1 /\ Len(frames) \in Nat
      /\ frames'[Len(frames) + 1] = g
      /\ \A k \in 1..Len(frames) : frames'[k] = frames[k]
  OBVIOUS
<1>2. \A k \in 1..Len(frames') : k = Len(frames) + 1 \/ k \in 1..Len(frames)
  BY <1>1
<1> QED BY <1>1, <1>2 DEF KeepsLoops

(* The frame on top goes. *)
LEMMA KeepPopped ==
  ASSUME NEW t, frames \in Seq(Frames), frames # <<>>, NestingOf(frames), frames' = Pop
  PROVE  KeepsLoops(frames, frames', t)
<1>1. /\ Len(frames) \in Nat \ {0} /\ Len(Pop) = Len(frames) - 1
      /\ \A k \in 1..(Len(frames) - 1) : Pop[k] = frames[k]
  BY PopFrame DEF Pop
<1>2. \A k \in 1..Len(frames') : k \in 1..Len(frames) /\ frames'[k] = frames[k]
  BY <1>1
<1> QED BY <1>2 DEF KeepsLoops

(* A step that pushes nothing and leaves the counter alone. *)
LEMMA StayAddressed ==
  ASSUME IInv, Addressed, Emitting, Emitting', rd' = rd, insts' = insts, bytes' = bytes,
         Keeps(insts)
  PROVE  Addressed'
<1> DEFINE u == <<>>
<1>1. insts \in Seq(Insts) /\ bytes \in 0..(Word - 1)
  BY DEF IInv, TypeOK
<1>2. u \in Seq(Insts) /\ Len(u) = 0 /\ insts \o u = insts
  BY <1>1
<1>3. After(u) = bytes
  <2>1. After(u) = (bytes + 0 + 0 + 0) % Word
    BY DEF After, WidthAt
  <2>2. bytes + 0 + 0 + 0 = bytes
    BY <1>1
  <2> QED BY <1>1, <2>1, <2>2, ModSmall, WordAssumption
<1> HIDE DEF u
<1>4. /\ insts' = insts \o u /\ bytes' = After(u) /\ Len(u) \in 0..3 /\ Keeps(insts')
      /\ \A j \in 1..Len(u) : u[j].ref.kind = "back" => Marked(insts', u[j].ref.of, u[j].val)
      /\ \A j \in 1..Len(u) : CallOf(u[j], FALSE, calls', offsetOf')
  BY <1>2, <1>3
<1> QED BY ONLY IInv, Addressed, Emitting, Emitting', rd' = rd, <1>2, <1>4, GrowAddressed

(* A step that pushes what is neither a jump back nor a call. *)
LEMMA PlainAddressed ==
  ASSUME IInv, Addressed, Emitting, Emitting', rd' = rd,
         NEW u \in Seq(Insts), Len(u) \in 0..3, Emit(u), Keeps(insts'),
         \A j \in 1..Len(u) : u[j].ref.kind \notin {"back", "call"}
  PROVE  Addressed'
<1>1. insts' = insts \o u /\ bytes' = After(u)
  BY DEF Emit
<1>2. \A j \in 1..Len(u) : CallOf(u[j], FALSE, calls', offsetOf')
  BY DEF CallOf
<1>3. \A j \in 1..Len(u) : u[j].ref.kind = "back" => Marked(insts', u[j].ref.of, u[j].val)
  OBVIOUS
<1> QED BY <1>1, <1>2, <1>3, GrowAddressed
(* Every step of generation keeps the addresses right. *)
LEMMA AddressedCode ==
  ASSUME IInv, Addressed, Next, phase \in {"globals", "code"}, phase' \in {"globals", "code"}
  PROVE  Addressed'
<1> USE DEF InCode
<1>a. /\ insts \in Seq(Insts) /\ Len(insts) \in Nat /\ frames \in Seq(Frames)
      /\ calls \in Seq(Funcs) /\ Len(calls) \in Nat
      /\ bytes \in 0..(Word - 1) /\ NestingOf(frames) /\ jumps.num \in Nat
  BY DEF IInv, TypeOK, Nesting
<1>b. Emitting /\ Emitting'
  BY DEF Emitting
<1>c. frames # <<>> => Top \in Frames /\ Len(frames) \in 1..Len(frames)
  BY <1>a DEF Top
<1>d. /\ TypeOK' /\ \A op \in Ops : Plain(op) \in Insts /\ Plain(op).ref.kind = "none"
  BY InvStep DEF IInv, Plain, Inst, Insts, Refs, Kinds
<1>1. ASSUME NEW c \in Consts, NEW l \in IntLits \cup RealLits, DeclareConst(c, l)
      PROVE  Addressed'
  <2>1. c \notin Funcs
    BY SymbolsDisjoint
  <2>2. KeepsHeads(entry, entry', offsetOf, offsetOf', insts)
    BY <1>1, <2>1, KeepEntries DEF DeclareConst
  <2>3. /\ insts' = insts /\ bytes' = bytes /\ rd' = rd /\ land' = land
        /\ frames' = frames /\ calls' = calls
    BY <1>1 DEF DeclareConst
  <2>4. Keeps(insts)
    BY <2>2, <2>3, KeepSame DEF Keeps
  <2> QED BY <1>b, <2>3, <2>4, StayAddressed
<1>2. CASE StartMain
  <2>1. /\ insts' = insts /\ bytes' = bytes /\ rd' = rd /\ land' = land
        /\ calls' = calls /\ offsetOf' = offsetOf /\ entry' = entry
        /\ Len(frames') = 1 /\ frames'[1].kind = "main"
    BY <1>2 DEF StartMain, Frame
  <2>2. KeepsLoops(frames, frames', insts)
    BY <2>1 DEF KeepsLoops, IsLoop
  <2>3. Keeps(insts)
    BY <2>1, <2>2, KeepSame DEF Keeps
  <2> QED BY <1>b, <2>1, <2>3, StayAddressed
<1>3. ASSUME NEW op \in FillerOps, EmitPlain(op) PROVE Addressed'
  <2> DEFINE u == <<Plain(op)>>
  <2>1. u \in Seq(Insts) /\ Len(u) \in 0..3 /\ \A j \in 1..Len(u) : u[j].ref.kind = "none"
    BY <1>d, FillerAssumption DEF Ops
  <2>2. /\ Emit(u) /\ rd' = rd /\ land' = land /\ frames' = frames /\ calls' = calls
        /\ offsetOf' = offsetOf /\ entry' = entry
    BY <1>3 DEF EmitPlain
  <2>3. Keeps(insts')
    BY <2>2, KeepSame DEF Keeps
  <2> HIDE DEF u
  <2> QED BY <1>b, <2>1, <2>2, <2>3, PlainAddressed
<1>4. ASSUME NEW l \in IntLits \cup RealLits, PushLiteral(l) PROVE Addressed'
  <2> DEFINE q == IF l \in IntLits THEN "int" ELSE "real"
             mark == IF l \in IntLits THEN AINT ELSE AREAL
             off == IF l \in DOMAIN offsetOf THEN offsetOf[l] ELSE 8 * Len(pool[q])
             u == <<Inst("LV0", mark, q, l)>>
  <2>1. u \in Seq(Insts) /\ Len(u) \in 0..3 /\ \A j \in 1..Len(u) : u[j].ref.kind \in {"int", "real"}
    BY DEF Inst, Insts, Ops, Refs, Kinds, Queues, Symbols, AINT, AREAL
  <2>2. /\ Emit(u) /\ rd' = rd /\ land' = land /\ frames' = frames /\ calls' = calls
        /\ entry' = entry
        /\ offsetOf' = offsetOf \/ offsetOf' = Put(offsetOf, l, off)
    BY <1>4 DEF PushLiteral
  <2>3. l \notin Funcs
    BY SymbolsDisjoint
  <2> HIDE DEF u, off
  <2>4. KeepsHeads(entry, entry', offsetOf, offsetOf', insts')
    BY <2>2, <2>3, KeepSame, KeepEntries
  <2>5. Keeps(insts')
    BY <2>2, <2>4, KeepSame DEF Keeps
  <2> QED BY <1>b, <2>1, <2>2, <2>5, PlainAddressed
<1>5. ASSUME NEW c \in DOMAIN constLit, PushConst(c) PROVE Addressed'
  <2> DEFINE q == IF constLit[c] \in IntLits THEN "int" ELSE "real"
             mark == IF constLit[c] \in IntLits THEN AINT ELSE AREAL
             u == <<Inst("LV0", mark, q, constLit[c])>>
  <2>0. constLit[c] \in IntLits \cup RealLits
    BY DEF IInv, TypeOK
  <2>1. u \in Seq(Insts) /\ Len(u) \in 0..3 /\ \A j \in 1..Len(u) : u[j].ref.kind \in {"int", "real"}
    BY <2>0 DEF Inst, Insts, Ops, Refs, Kinds, Queues, Symbols, AINT, AREAL
  <2>2. /\ Emit(u) /\ rd' = rd /\ land' = land /\ frames' = frames /\ calls' = calls
        /\ entry' = entry /\ offsetOf' = offsetOf
    BY <1>5 DEF PushConst
  <2> HIDE DEF u
  <2>5. Keeps(insts')
    BY <2>2, KeepSame DEF Keeps
  <2> QED BY <1>b, <2>1, <2>2, <2>5, PlainAddressed
<1>6. ASSUME NEW n \in StrLens, PrintString(n) PROVE Addressed'
  <2> DEFINE x == Inst("LA0", ASTR, "str", Len(pool.str))
             u == <<x, Plain("STRPR")>>
  <2>1. x \in Insts /\ x.ref.kind = "str" /\ "STRPR" \in Ops
    BY DEF Inst, Insts, Ops, Refs, Kinds, Queues, ASTR, IInv, TypeOK
  <2>2. /\ Emit(u) /\ rd' = rd /\ land' = land /\ frames' = frames /\ calls' = calls
        /\ entry' = entry /\ offsetOf' = offsetOf
    BY <1>6 DEF PrintString
  <2>3. u \in Seq(Insts) /\ Len(u) \in 0..3 /\ \A j \in 1..Len(u) : u[j].ref.kind \in {"str", "none"}
    BY <1>d, <2>1
  <2> HIDE DEF u
  <2>5. Keeps(insts')
    BY <2>2, KeepSame DEF Keeps
  <2> QED BY <1>b, <2>2, <2>3, <2>5, PlainAddressed
<1>7. ASSUME NEW f \in Funcs, Call(f) PROVE Addressed'
  <2> DEFINE m == Len(calls) + 1
             x == Inst("LA0", AFUNC * m, "call", f)
             u == <<Plain("LB"), x, Plain("JS2")>>
  <2>1. x \in Insts /\ "LB" \in Ops /\ "JS2" \in Ops /\ x.val = AFUNC * m
        /\ x.ref.of = f /\ x.ref.kind = "call"
    BY <1>a DEF Inst, Insts, Ops, Refs, Kinds, AFUNC, Symbols
  <2>2. /\ insts' = insts \o u /\ bytes' = After(u) /\ rd' = rd /\ land' = land
        /\ frames' = frames /\ calls' = Append(calls, f)
        /\ entry' = entry /\ offsetOf' = offsetOf
    BY <1>7 DEF Call, Emit
  <2>3. /\ Len(calls') = m /\ calls'[m] = f /\ m \in 1..Len(calls')
        /\ KeepsCalls(calls, calls')
    BY <1>a, <2>2 DEF KeepsCalls
  <2>4. CallOf(x, FALSE, calls', offsetOf')
    BY <2>1, <2>3 DEF CallOf
  <2> HIDE DEF x
  <2>5. /\ u \in Seq(Insts) /\ Len(u) = 3
        /\ u[1] = Plain("LB") /\ u[2] = x /\ u[3] = Plain("JS2")
    BY <1>d, <2>1
  <2> HIDE DEF u, m
  <2>6. \A j \in 1..Len(u) : u[j].ref.kind # "back" /\ CallOf(u[j], FALSE, calls', offsetOf')
    <3>1. \A j \in 1..Len(u) : j = 1 \/ j = 2 \/ j = 3
      BY <2>5
    <3>2. u[1].ref.kind = "none" /\ u[3].ref.kind = "none"
      BY <1>d, <2>1, <2>5
    <3> QED BY <2>1, <2>4, <2>5, <3>1, <3>2 DEF CallOf
  <2>7. Keeps(insts')
    BY <2>2, <2>3, KeepSame DEF Keeps
  <2>8. Len(u) \in 0..3
    BY <2>5
  <2> QED BY <1>b, <2>2, <2>5, <2>6, <2>7, <2>8, GrowAddressed
<1>8. ASSUME NEW kind \in {"if", "ifelse"}, OpenBranch(kind) PROVE Addressed'
  <2> DEFINE u == <<Inst("LA0", AJUMP, "jump", 0)>>
             g == Frame(kind, "cond", jumps.num, 0, Len(insts) + 1, Len(insts) + 1, 0)
  <2>1. u \in Seq(Insts) /\ Len(u) \in 0..3 /\ \A j \in 1..Len(u) : u[j].ref.kind = "jump"
    BY DEF Inst, Insts, Ops, Refs, Kinds, AJUMP
  <2>2. /\ Emit(u) /\ rd' = rd /\ land' = land /\ frames' = Append(frames, g)
        /\ calls' = calls /\ entry' = entry /\ offsetOf' = offsetOf
    BY <1>8 DEF OpenBranch
  <2>3. g \in Frames /\ ~IsLoop(g)
    BY <1>a, WordAssumption DEF Frame, Frames, IsLoop
  <2> HIDE DEF u, g
  <2>4. KeepsLoops(frames, frames', insts')
    BY <1>a, <2>2, <2>3, KeepPushed
  <2>5. Keeps(insts')
    BY <2>2, <2>4, KeepSame DEF Keeps
  <2> QED BY <1>b, <2>1, <2>2, <2>5, PlainAddressed
<1>9. CASE OpenFor
  <2> DEFINE u == <<Inst("LA0", AJUMP, "jump", 0)>>
             g == Frame("for", "cond", jumps.num, bytes, Len(insts) + 1, Len(insts) + 1,
                        Len(insts) + 1)
  <2>1. u \in Seq(Insts) /\ Len(u) \in 0..3 /\ \A j \in 1..Len(u) : u[j].ref.kind = "jump"
    BY DEF Inst, Insts, Ops, Refs, Kinds, AJUMP
  <2>2. /\ Emit(u) /\ rd' = rd /\ land' = land /\ frames' = Append(frames, g)
        /\ calls' = calls /\ entry' = entry /\ offsetOf' = offsetOf
    BY <1>9 DEF OpenFor
  <2>3. g \in Frames /\ g.begin = Len(insts) + 1 /\ g.top = bytes
    BY <1>a DEF Frame, Frames
  <2> HIDE DEF u, g
  <2>4. insts' = insts \o u
    BY <2>2 DEF Emit
  <2>5. Marked(insts', g.begin, g.top)
    BY <1>b, <2>1, <2>3, <2>4, EndMarked
  <2>6. KeepsLoops(frames, frames', insts')
    BY <1>a, <2>2, <2>3, <2>5, KeepPushed
  <2>7. Keeps(insts')
    BY <2>2, <2>6, KeepSame DEF Keeps
  <2> QED BY <1>b, <2>1, <2>2, <2>7, PlainAddressed
<1>10. CASE OpenRepeat
  <2> DEFINE g == Frame("repeat", "body", 0, bytes, Len(insts), 0, Len(insts) + 1)
  <2>1. /\ insts' = insts /\ bytes' = bytes /\ rd' = rd /\ land' = land
        /\ frames' = Append(frames, g) /\ calls' = calls /\ entry' = entry
        /\ offsetOf' = offsetOf
    BY <1>10 DEF OpenRepeat
  <2>2. g \in Frames /\ g.begin = Len(insts) + 1 /\ g.top = bytes
    BY <1>a DEF Frame, Frames
  <2> HIDE DEF g
  <2>3. <<>> \in Seq(Insts) /\ Len(<<>>) \in 0..3
    OBVIOUS
  <2>4. Marked(insts, g.begin, g.top)
    BY <1>b, <2>2, <2>3, EndMarked
  <2>5. KeepsLoops(frames, frames', insts)
    BY <1>a, <2>1, <2>2, <2>4, KeepPushed
  <2>6. Keeps(insts)
    BY <2>1, <2>5, KeepSame DEF Keeps
  <2> QED BY <1>b, <2>1, <2>6, StayAddressed
<1>11. CASE BranchFalse
  <2> DEFINE u == <<Plain("BF")>>
             g == [Top EXCEPT
                     !.stage = IF Top.kind = "ifelse" THEN "then" ELSE "body",
                     !.mark  = Len(insts) + 1]
  <2>1. u \in Seq(Insts) /\ Len(u) \in 0..3 /\ \A j \in 1..Len(u) : u[j].ref.kind = "none"
    BY <1>d DEF Ops
  <2>2. /\ Emit(u) /\ rd' = rd /\ land' = land /\ frames' = SetTop(g)
        /\ calls' = calls /\ entry' = entry /\ offsetOf' = offsetOf /\ frames # <<>>
    BY <1>11 DEF BranchFalse
  <2>3. g \in Frames /\ g.kind = Top.kind /\ g.begin = Top.begin /\ g.top = Top.top
    <3>1. (IF Top.kind = "ifelse" THEN "then" ELSE "body")
            \in {"cond", "body", "then", "else", "until"}
      OBVIOUS
    <3>2. Top \in Frames /\ Len(insts) + 1 \in Nat
      BY <1>a, <1>c, <2>2
    <3>3. g \in Frames
      BY <3>1, <3>2, FrameStage
    <3> QED BY <3>2, <3>3 DEF Frames
  <2> HIDE DEF u, g
  <2>4. KeepsLoops(frames, frames', insts')
    BY <1>a, <2>2, <2>3, KeepTop
  <2>5. Keeps(insts')
    BY <2>2, <2>4, KeepSame DEF Keeps
  <2> QED BY <1>b, <2>1, <2>2, <2>5, PlainAddressed
<1>12. CASE Else
  <2> DEFINE u == <<Inst("LA0", AJUMP, "jump", 0), Plain("BR")>>
             g == InElse(Top, jumps.num, Len(insts) + 1, Len(insts) + 2)
  <2>1. u \in Seq(Insts) /\ Len(u) = 2 /\ \A j \in 1..Len(u) : u[j].ref.kind \in {"jump", "none"}
    <3>1. Inst("LA0", AJUMP, "jump", 0) \in Insts /\ "BR" \in Ops
          /\ Inst("LA0", AJUMP, "jump", 0).ref.kind = "jump"
      BY DEF Inst, Insts, Ops, Refs, Kinds, AJUMP
    <3> QED BY <1>d, <3>1
  <2>2. /\ Emit(u) /\ rd' = rd /\ LandHere(Top.at, Len(insts) + 3, After(u))
        /\ frames' = SetTop(g) /\ frames # <<>>
        /\ calls' = calls /\ entry' = entry /\ offsetOf' = offsetOf
    BY <1>12 DEF Else, InElse
  <2>3. g \in Frames /\ g.kind = Top.kind /\ g.begin = Top.begin /\ g.top = Top.top
    <3>1. Top \in Frames /\ Len(insts) + 1 \in Nat /\ Len(insts) + 2 \in Nat
      BY <1>a, <1>c, <2>2
    <3>2. g \in Frames
      BY <1>a, <3>1, ElseFrame
    <3> QED BY <3>1, <3>2 DEF Frames, InElse
  <2> HIDE DEF u, g
  <2>4. insts' = insts \o u /\ Len(u) \in 0..3 /\ Len(insts) + Len(u) + 1 = Len(insts) + 3
    BY <1>a, <2>1, <2>2 DEF Emit
  <2>5. Marked(insts', Len(insts) + 3, After(u))
    BY <1>b, <2>1, <2>4, EndMarked
  <2>6. KeepsLands(land, land', insts')
    BY <2>2, <2>5, KeepLanding
  <2>7. KeepsLoops(frames, frames', insts')
    BY <1>a, <2>2, <2>3, KeepTop
  <2>8. Keeps(insts')
    BY <2>2, <2>6, <2>7, KeepSame DEF Keeps
  <2> QED BY <1>b, <2>1, <2>2, <2>4, <2>8, PlainAddressed
<1>13. CASE CloseIf
  <2>1. /\ insts' = insts /\ bytes' = bytes /\ rd' = rd
        /\ LandHere(Top.at, Len(insts) + 1, bytes) /\ frames # <<>>
        /\ frames' = Pop /\ calls' = calls /\ entry' = entry /\ offsetOf' = offsetOf
    BY <1>13 DEF CloseIf
  <2>2. <<>> \in Seq(Insts) /\ Len(<<>>) \in 0..3
    OBVIOUS
  <2>3. Marked(insts, Len(insts) + 1, bytes)
    BY <1>b, <2>2, EndMarked
  <2>4. KeepsLands(land, land', insts)
    BY <2>1, <2>3, KeepLanding
  <2>5. KeepsLoops(frames, frames', insts)
    BY <1>a, <2>1, KeepPopped
  <2>6. Keeps(insts)
    BY <2>1, <2>4, <2>5, KeepSame DEF Keeps
  <2> QED BY <1>b, <2>1, <2>6, StayAddressed
<1>14. CASE CloseFor
  <2> DEFINE x == Inst("LA0", Top.top, "back", Top.begin)
             u == <<x, Plain("BR")>>
  <2>1. /\ insts' = insts \o u /\ bytes' = After(u) /\ rd' = rd
        /\ LandHere(Top.at, Len(insts) + 3, After(u)) /\ frames # <<>>
        /\ frames' = Pop /\ calls' = calls /\ entry' = entry /\ offsetOf' = offsetOf
        /\ Top.kind = "for"
    BY <1>14 DEF CloseFor, Emit
  <2>2. Top \in Frames /\ Len(frames) \in 1..Len(frames) /\ Top = frames[Len(frames)]
    BY <1>c, <2>1 DEF Top
  <2>3. /\ x \in Insts /\ "BR" \in Ops /\ x.ref.of = Top.begin /\ x.val = Top.top
        /\ x.ref.kind = "back"
    BY <2>2 DEF Inst, Insts, Ops, Refs, Kinds, Frames
  <2>4. Marked(insts, x.ref.of, x.val)
    BY <2>1, <2>2, <2>3 DEF Addressed, Loops, IsLoop
  <2> HIDE DEF x
  <2>5. u \in Seq(Insts) /\ Len(u) = 2 /\ u[1] = x /\ u[2] = Plain("BR")
    BY <1>d, <2>3
  <2> HIDE DEF u
  <2>6. Len(u) \in 0..3 /\ Len(insts) + Len(u) + 1 = Len(insts) + 3
    BY <1>a, <2>5
  <2>7. /\ \A j \in 1..Len(u) : u[j].ref.kind = "back" => Marked(insts', u[j].ref.of, u[j].val)
        /\ \A j \in 1..Len(u) : CallOf(u[j], FALSE, calls', offsetOf')
    <3>1. Marked(insts', x.ref.of, x.val)
      BY <1>a, <2>1, <2>4, <2>5, MarkedAppend
    <3>2. \A j \in 1..Len(u) : j = 1 \/ j = 2
      BY <2>5
    <3>3. u[2].ref.kind = "none"
      BY <1>d, <2>3, <2>5
    <3> QED BY <2>3, <2>5, <3>1, <3>2, <3>3 DEF CallOf
  <2>8. Marked(insts', Len(insts) + 3, After(u))
    BY <1>b, <2>1, <2>5, <2>6, EndMarked
  <2>9. KeepsLands(land, land', insts')
    BY <2>1, <2>8, KeepLanding
  <2>10. KeepsLoops(frames, frames', insts')
    BY <1>a, <2>1, KeepPopped
  <2>11. Keeps(insts')
    BY <2>1, <2>9, <2>10, KeepSame DEF Keeps
  <2> QED BY <1>b, <2>1, <2>5, <2>6, <2>7, <2>11, GrowAddressed
<1>15. CASE RepeatUntil
  <2> DEFINE x == Inst("LA0", Top.top, "back", Top.begin)
             u == <<x>>
             g == [Top EXCEPT !.stage = "until", !.mark = Len(insts) + 1]
  <2>1. /\ insts' = insts \o u /\ bytes' = After(u) /\ rd' = rd /\ land' = land
        /\ frames # <<>> /\ frames' = SetTop(g)
        /\ calls' = calls /\ entry' = entry /\ offsetOf' = offsetOf
        /\ Top.kind = "repeat"
    BY <1>15 DEF RepeatUntil, Emit
  <2>2. Top \in Frames /\ Len(frames) \in 1..Len(frames) /\ Top = frames[Len(frames)]
    BY <1>c, <2>1 DEF Top
  <2>3. x \in Insts /\ x.ref.of = Top.begin /\ x.val = Top.top /\ x.ref.kind = "back"
    BY <2>2 DEF Inst, Insts, Ops, Refs, Kinds, Frames
  <2>4. Marked(insts, x.ref.of, x.val)
    BY <2>1, <2>2, <2>3 DEF Addressed, Loops, IsLoop
  <2>5. g \in Frames /\ g.kind = Top.kind /\ g.begin = Top.begin /\ g.top = Top.top
    <3>1. Len(insts) + 1 \in Nat
      BY <1>a
    <3>2. g \in Frames
      BY <2>2, <3>1, FrameStage
    <3> QED BY <2>2, <3>2 DEF Frames
  <2> HIDE DEF x, g
  <2>6. u \in Seq(Insts) /\ Len(u) = 1 /\ u[1] = x /\ Len(u) \in 0..3
    BY <2>3
  <2> HIDE DEF u
  <2>7. /\ \A j \in 1..Len(u) : u[j].ref.kind = "back" => Marked(insts', u[j].ref.of, u[j].val)
        /\ \A j \in 1..Len(u) : CallOf(u[j], FALSE, calls', offsetOf')
    <3>1. Marked(insts', x.ref.of, x.val)
      BY <1>a, <2>1, <2>4, <2>6, MarkedAppend
    <3>2. \A j \in 1..Len(u) : j = 1
      BY <2>6
    <3> QED BY <2>3, <2>6, <3>1, <3>2 DEF CallOf
  <2>8. KeepsLoops(frames, frames', insts')
    BY <1>a, <2>1, <2>5, KeepTop
  <2>9. Keeps(insts')
    BY <2>1, <2>8, KeepSame DEF Keeps
  <2> QED BY <1>b, <2>1, <2>6, <2>7, <2>9, GrowAddressed
<1>16. CASE CloseRepeat
  <2> DEFINE u == <<Plain("BF")>>
  <2>1. u \in Seq(Insts) /\ Len(u) \in 0..3 /\ \A j \in 1..Len(u) : u[j].ref.kind = "none"
    BY <1>d DEF Ops
  <2>2. /\ Emit(u) /\ rd' = rd /\ land' = land /\ frames' = Pop /\ frames # <<>>
        /\ calls' = calls /\ entry' = entry /\ offsetOf' = offsetOf
    BY <1>16 DEF CloseRepeat
  <2> HIDE DEF u
  <2>3. KeepsLoops(frames, frames', insts')
    BY <1>a, <2>2, KeepPopped
  <2>4. Keeps(insts')
    BY <2>2, <2>3, KeepSame DEF Keeps
  <2> QED BY <1>b, <2>1, <2>2, <2>4, PlainAddressed
<1>17. CASE EndMain
  <2> DEFINE u == <<Plain("HALT")>>
  <2>1. u \in Seq(Insts) /\ Len(u) \in 0..3 /\ \A j \in 1..Len(u) : u[j].ref.kind = "none"
    BY <1>d DEF Ops
  <2>2. /\ Emit(u) /\ rd' = rd /\ land' = land /\ frames' = <<>>
        /\ calls' = calls /\ entry' = entry /\ offsetOf' = offsetOf
    BY <1>17 DEF EndMain
  <2> HIDE DEF u
  <2>3. KeepsLoops(frames, frames', insts')
    BY <2>2 DEF KeepsLoops
  <2>4. Keeps(insts')
    BY <2>2, <2>3, KeepSame DEF Keeps
  <2> QED BY <1>b, <2>1, <2>2, <2>4, PlainAddressed
<1>18. ASSUME NEW f \in Funcs, StartFunc(f) PROVE Addressed'
  <2>1. /\ insts' = insts /\ bytes' = bytes /\ rd' = rd /\ land' = land
        /\ Len(frames') = 1 /\ frames'[1].kind = "func" /\ calls' = calls
        /\ offsetOf' = Put(offsetOf, f, bytes) /\ entry' = Put(entry, f, Len(insts) + 1)
        /\ f \notin DOMAIN offsetOf
    BY <1>18 DEF StartFunc, Frame
  <2>2. <<>> \in Seq(Insts) /\ Len(<<>>) \in 0..3
    OBVIOUS
  <2>3. Marked(insts, Len(insts) + 1, bytes)
    BY <1>b, <2>2, EndMarked
  <2>4. /\ DOMAIN offsetOf' = DOMAIN offsetOf \cup {f} /\ offsetOf'[f] = bytes
        /\ DOMAIN entry' = DOMAIN entry \cup {f} /\ entry'[f] = Len(insts) + 1
        /\ \A x \in DOMAIN offsetOf : x # f => offsetOf'[x] = offsetOf[x]
        /\ \A x \in DOMAIN entry : x # f => entry'[x] = entry[x]
    BY <2>1 DEF Put
  <2>5. KeepsHeads(entry, entry', offsetOf, offsetOf', insts)
    <3> SUFFICES ASSUME NEW g \in Funcs \cap DOMAIN offsetOf'
                 PROVE  \/ /\ g \in DOMAIN offsetOf /\ offsetOf'[g] = offsetOf[g]
                           /\ g \in DOMAIN entry => g \in DOMAIN entry' /\ entry'[g] = entry[g]
                        \/ g \in DOMAIN entry' /\ Marked(insts, entry'[g], offsetOf'[g])
      BY DEF KeepsHeads
    <3>1. CASE g = f
      BY <2>3, <2>4, <3>1
    <3>2. CASE g # f
      BY <2>4, <3>2
    <3> QED BY <3>1, <3>2
  <2>6. KeepsLoops(frames, frames', insts)
    BY <2>1 DEF KeepsLoops, IsLoop
  <2>7. Keeps(insts)
    BY <2>1, <2>5, <2>6, KeepSame DEF Keeps
  <2> QED BY <1>b, <2>1, <2>7, StayAddressed
<1>19. CASE EndFunc
  <2>1. /\ insts' = insts /\ bytes' = bytes /\ rd' = rd /\ land' = land /\ frames' = <<>>
        /\ calls' = calls /\ entry' = entry /\ offsetOf' = offsetOf
    BY <1>19 DEF EndFunc
  <2>2. KeepsLoops(frames, frames', insts)
    BY <2>1 DEF KeepsLoops
  <2>3. Keeps(insts)
    BY <2>1, <2>2, KeepSame DEF Keeps
  <2> QED BY <1>b, <2>1, <2>3, StayAddressed
<1>20. ~StartPatching /\ ~Patching /\ ~Close /\ ~Done
  BY DEF StartPatching, Patching, Close, Done
<1> QED
  BY <1>1, <1>2, <1>3, <1>4, <1>5, <1>6, <1>7, <1>8, <1>9, <1>10, <1>11, <1>12, <1>13,
     <1>14, <1>15, <1>16, <1>17, <1>18, <1>19, <1>20
     DEF Next, PatchQueued, PatchJump, PatchCall, PatchNothing

(***************************************************************************)
(* The patching pass.                                                      *)
(***************************************************************************)
(* What each step of the pass finds under its cursor. *)
LEMMA CurKinds ==
  ASSUME IInv, Patching
  PROVE  /\ rd.inst \in 1..Len(insts) /\ Cur = insts[rd.inst] /\ Cur \in Insts
         /\ \A q \in Queues : Marks(Cur, q) => Cur.ref.kind = q
         /\ Cur.op = "LA0" /\ Cur.val = AJUMP => Cur.ref.kind = "jump"
         /\ Cur.op = "LA0" /\ Cur.val < 0 /\ Cur.val \notin {AINT, AREAL, ASTR, AJUMP}
              => Cur.ref.kind = "call"
         /\ Cur.op \notin {"LA0", "LV0"} \/ Cur.val >= 0 => Cur.ref.kind \in {"none", "back"}
<1> DEFINE x == insts[rd.inst]
<1>1. insts \in Seq(Insts) /\ rd.inst \in 1..Len(insts) /\ Len(calls) \in Nat
  BY DEF IInv, TypeOK, Stages, Patching
<1>2. Cur = x /\ x \in Insts /\ Unpatched(x, Len(calls))
  BY <1>1 DEF IInv, Placeholders, Cur
<1>3. x.ref.kind \in Kinds /\ x.val \in Int
  BY <1>2 DEF Insts, Refs
<1> HIDE DEF x
<1>4. \A m \in 1..Len(calls) : AFUNC * m < -10
  BY <1>1 DEF AFUNC
<1>5. Marks(x, "int") => x.ref.kind = "int"
  BY <1>2, <1>3 DEF Marks, Unpatched, Queues, Kinds, AINT, AREAL
<1>6. Marks(x, "real") => x.ref.kind = "real"
  BY <1>2, <1>3 DEF Marks, Unpatched, Queues, Kinds, AINT, AREAL
<1>7. Marks(x, "str") => x.ref.kind = "str"
  BY <1>2, <1>3, <1>4 DEF Marks, Unpatched, Queues, Kinds, ASTR, AJUMP
<1>8. \A q \in Queues : Marks(x, q) => x.ref.kind = q
  BY <1>5, <1>6, <1>7 DEF Queues
<1>9. x.op = "LA0" /\ x.val = AJUMP => x.ref.kind = "jump"
  BY <1>2, <1>3, <1>4 DEF Unpatched, Queues, Kinds, ASTR, AJUMP
<1>10. x.op = "LA0" /\ x.val < 0 /\ x.val \notin {AINT, AREAL, ASTR, AJUMP}
         => x.ref.kind = "call"
  BY <1>2, <1>3 DEF Unpatched, Queues, Kinds, AINT, AREAL, ASTR, AJUMP
<1>11. x.op \notin {"LA0", "LV0"} \/ x.val >= 0 => x.ref.kind \in {"none", "back"}
  <2>1. x.op \notin {"LA0", "LV0"} \/ x.val >= 0
          => x.ref.kind \notin {"jump", "int", "real", "str"}
    BY <1>2, <1>3 DEF Unpatched, AINT, AREAL, ASTR, AJUMP
  <2>2. x.op \notin {"LA0", "LV0"} \/ x.val >= 0 => x.ref.kind # "call"
    BY <1>2, <1>3, <1>4 DEF Unpatched
  <2> QED BY <1>3, <2>1, <2>2 DEF Queues, Kinds
<1> QED BY <1>1, <1>2, <1>8, <1>9, <1>10, <1>11 DEF x

(* A step of the pass writes one operand at most, and moves on by one. *)
LEMMA PassStep ==
  ASSUME IInv, Next, Patching
  PROVE  /\ PatchOnly /\ insts' \in Seq(Insts) /\ Len(insts') = Len(insts)
         /\ rd'.inst = rd.inst + 1
         /\ \A j \in 1..Len(insts) : insts'[j].op = insts[j].op /\ insts'[j].ref = insts[j].ref
         /\ \A j \in 1..Len(insts) : j # rd.inst => insts'[j] = insts[j]
         /\ \/ \E q \in Queues : /\ Cur.ref.kind = q /\ rd[q] < Len(pend[q])
                                 /\ insts'[rd.inst].val = Base(q) + pend[q][rd[q] + 1]
            \/ Cur.ref.kind = "jump"
            \/ /\ Cur.ref.kind = "call" 
               /\ insts'[rd.inst].val = offsetOf[calls[(-Cur.val) \div (-AFUNC)]]
            \/ Cur.ref.kind \in {"none", "back"} /\ insts' = insts
<1> DEFINE n == rd.inst
<1>1. /\ insts \in Seq(Insts) /\ n \in 1..Len(insts) /\ n \in Nat
      /\ rd \in [Cursors -> Nat] /\ phase = "patch" /\ Cur = insts[n]
  BY CurKinds DEF IInv, TypeOK, Cursors, Patching
<1>2. insts' \in Seq(Insts)
  BY InvStep DEF IInv, TypeOK
<1>3. ASSUME NEW v, insts' = [insts EXCEPT ![n].val = v]
      PROVE  /\ Len(insts') = Len(insts) /\ insts'[n].val = v
             /\ \A j \in 1..Len(insts) : insts'[j].op = insts[j].op /\ insts'[j].ref = insts[j].ref
             /\ \A j \in 1..Len(insts) : j # n => insts'[j] = insts[j]
  <2> DEFINE x == [insts[n] EXCEPT !.val = v]
  <2>1. insts[n] \in Insts
    BY <1>1
  <2>2. x.op = insts[n].op /\ x.ref = insts[n].ref /\ x.val = v
    BY <2>1 DEF Insts
  <2>3. insts' = [insts EXCEPT ![n] = x]
    BY <1>3
  <2> HIDE DEF x, n
  <2> QED BY <1>1, <2>2, <2>3
<1> HIDE DEF n
<1>4. ASSUME NEW q \in Queues, PatchQueued(q)
      PROVE  /\ PatchOnly /\ rd'.inst = n + 1 /\ Cur.ref.kind = q /\ rd[q] < Len(pend[q])
             /\ insts' = [insts EXCEPT ![n].val = Base(q) + pend[q][rd[q] + 1]]
  <2>1. /\ rd' = Moved(rd, q) /\ Marks(Cur, q) /\ PatchOnly /\ rd[q] < Len(pend[q])
        /\ insts' = [insts EXCEPT ![n].val = Base(q) + pend[q][rd[q] + 1]]
    BY <1>4 DEF PatchQueued, Patch, Moved, n
  <2>2. rd'.inst = n + 1
    BY <1>1, <2>1, MoveCursor DEF n
  <2> QED BY <2>1, <2>2, CurKinds
<1>5. CASE PatchJump
  <2> DEFINE v == IF rd.jump \in DOMAIN jumps.adr THEN jumps.adr[rd.jump] ELSE Garbage
  <2>1. /\ rd' = Moved(rd, "jump") /\ Cur.op = "LA0" /\ Cur.val = AJUMP /\ PatchOnly
        /\ insts' = [insts EXCEPT ![n].val = v]
    BY <1>5 DEF PatchJump, Patch, Moved, n
  <2>2. rd'.inst = n + 1
    BY <1>1, <2>1, MoveCursor DEF n
  <2>3. Cur.ref.kind = "jump"
    BY <2>1, CurKinds
  <2> HIDE DEF v
  <2> QED BY <1>2, <1>3, <2>1, <2>2, <2>3 DEF n
<1>6. CASE PatchCall
  <2> DEFINE v == offsetOf[calls[(-Cur.val) \div (-AFUNC)]]
  <2>1. /\ rd' = MovedOn(rd) /\ Cur.op = "LA0" /\ Cur.val < 0
        /\ Cur.val \notin {AINT, AREAL, ASTR, AJUMP} /\ PatchOnly
        /\ insts' = [insts EXCEPT ![n].val = v]
    BY <1>6 DEF PatchCall, Patch, MovedOn, n
  <2>2. rd'.inst = n + 1
    BY <1>1, <2>1, MoveOn DEF n, Queues
  <2>3. Cur.ref.kind = "call"
    BY <2>1, CurKinds
  <2>4. /\ Len(insts') = Len(insts) /\ insts'[n].val = v
        /\ \A j \in 1..Len(insts) : insts'[j].op = insts[j].op /\ insts'[j].ref = insts[j].ref
        /\ \A j \in 1..Len(insts) : j # n => insts'[j] = insts[j]
    <3> HIDE DEF v
    <3> QED BY <1>3, <2>1
  <2> QED BY <1>2, <2>1, <2>2, <2>3, <2>4 DEF n
<1>7. CASE PatchNothing
  <2>1. /\ rd' = MovedOn(rd) /\ (Cur.op \notin {"LA0", "LV0"} \/ Cur.val >= 0) /\ PatchOnly
        /\ insts' = insts
    BY <1>7 DEF PatchNothing, MovedOn
  <2>2. rd'.inst = n + 1
    BY <1>1, <2>1, MoveOn DEF n, Queues
  <2>3. Cur.ref.kind \in {"none", "back"}
    BY <2>1, CurKinds
  <2> QED BY <1>1, <2>1, <2>2, <2>3 DEF n
<1>8. ASSUME NEW q \in Queues, PatchQueued(q)
      PROVE  /\ PatchOnly /\ insts' \in Seq(Insts) /\ Len(insts') = Len(insts)
             /\ rd'.inst = rd.inst + 1
             /\ \A j \in 1..Len(insts) : insts'[j].op = insts[j].op /\ insts'[j].ref = insts[j].ref
             /\ \A j \in 1..Len(insts) : j # rd.inst => insts'[j] = insts[j]
             /\ \E p \in Queues : /\ Cur.ref.kind = p /\ rd[p] < Len(pend[p])
                                  /\ insts'[rd.inst].val = Base(p) + pend[p][rd[p] + 1]
  <2> DEFINE v == Base(q) + pend[q][rd[q] + 1]
  <2>1. /\ PatchOnly /\ rd'.inst = n + 1 /\ Cur.ref.kind = q /\ rd[q] < Len(pend[q])
        /\ insts' = [insts EXCEPT ![n].val = v]
    BY <1>4, <1>8
  <2>2. /\ Len(insts') = Len(insts) /\ insts'[n].val = v
        /\ \A j \in 1..Len(insts) : insts'[j].op = insts[j].op /\ insts'[j].ref = insts[j].ref
        /\ \A j \in 1..Len(insts) : j # n => insts'[j] = insts[j]
    <3> HIDE DEF v
    <3> QED BY <1>3, <2>1
  <2> QED BY <1>2, <2>1, <2>2 DEF n
<1>9. frames = <<>> /\ ~Close
  BY <1>1 DEF IInv, Stages, Close, Patching, n
<1> QED
  BY <1>1, <1>5, <1>6, <1>7, <1>8, <1>9
     DEF Next, DeclareConst, StartMain, EmitPlain, PushLiteral, PushConst, PrintString,
         Call, OpenBranch, OpenFor, OpenRepeat, CanOpen, BranchFalse, Else, CloseIf,
         CloseFor, RepeatUntil, CloseRepeat, EndMain, StartFunc, EndFunc, StartPatching,
         InCode, InBody, Done

(* The pass moves no instruction. *)
LEMMA MarkedPass ==
  ASSUME NEW s \in Seq(Insts), NEW t \in Seq(Insts), Len(t) = Len(s),
         \A j \in 1..Len(s) : t[j].op = s[j].op,
         NEW i, NEW b, Marked(s, i, b)
  PROVE  Marked(t, i, b)
<1>1. i \in 1..(Len(s) + 1) /\ b = Start(s, i) % Word /\ Len(s) \in Nat
  BY DEF Marked
<1>2. i <= Len(t) + 1 /\ \A j \in 1..(i - 1) : s[j].op = t[j].op
  BY <1>1
<1>3. Start(s, i) = Start(t, i)
  BY <1>1, <1>2, StartSame
<1> QED BY <1>1, <1>3 DEF Marked

(* The number of a call leads back to the function it names. *)
LEMMA CallNumber ==
  ASSUME NEW m \in Nat PROVE (-(AFUNC * m)) \div (-AFUNC) = m
<1>1. -(-11 * m) = 11 * m
  OBVIOUS
<1>2. (11 * m) \div 11 = m
  OBVIOUS
<1> QED BY <1>1, <1>2 DEF AFUNC

(* A step of the pass keeps the addresses right. *)
LEMMA AddressedPass ==
  ASSUME IInv, Addressed, Next, Patching
  PROVE  Addressed'
<1> DEFINE s == insts
           t == insts'
           n == rd.inst
<1>1. /\ PatchOnly /\ s \in Seq(Insts) /\ t \in Seq(Insts) /\ Len(t) = Len(s)
      /\ Len(s) \in Nat /\ n \in 1..Len(s) /\ rd'.inst = n + 1
      /\ \A j \in 1..Len(s) : t[j].op = s[j].op /\ t[j].ref = s[j].ref
      /\ \A j \in 1..Len(s) : j # n => t[j] = s[j]
      /\ Cur = s[n]
  <2>1. s \in Seq(Insts)
    BY DEF IInv, TypeOK
  <2>2. Len(s) \in Nat
    BY <2>1
  <2> QED BY <2>1, <2>2, PassStep, CurKinds
<1>2. /\ s[n].ref.kind = "call" => t[n].val = offsetOf[calls[(-s[n].val) \div (-AFUNC)]]
      /\ s[n].ref.kind = "back" => t = s
  BY <1>1, PassStep DEF Queues
<1>3. /\ phase = "patch" /\ phase' = "patch" /\ frames' = frames /\ bytes' = bytes
      /\ offsetOf' = offsetOf /\ calls' = calls /\ land' = land /\ entry' = entry
  BY <1>1 DEF PatchOnly, Patching
<1>4. /\ Lands(s, land) /\ Loops(s, frames) /\ Heads(s, entry, offsetOf)
      /\ Backs(s) /\ CallsOf(s, n, calls, offsetOf)
      /\ bytes = Pad(Start(s, Len(s) + 1) % Word)
  BY <1>3 DEF Addressed, Padded, Emitting
<1> HIDE DEF s, t, n
<1>5. \A i, b : Marked(s, i, b) => Marked(t, i, b)
  BY <1>1, MarkedPass
<1>6. Lands(t, land) /\ Loops(t, frames) /\ Heads(t, entry, offsetOf)
  BY <1>4, <1>5 DEF Lands, Loops, Heads
<1>7. Backs(t)
  <2> SUFFICES ASSUME NEW i \in 1..Len(t), t[i].ref.kind = "back"
               PROVE  Marked(t, t[i].ref.of, t[i].val)
    BY DEF Backs
  <2>1. i \in 1..Len(s) /\ s[i].ref.kind = "back" /\ t[i] = s[i]
    BY <1>1, <1>2
  <2> QED BY <1>4, <1>5, <2>1 DEF Backs
<1>8. CallsOf(t, n + 1, calls, offsetOf)
  <2> SUFFICES ASSUME NEW i \in 1..Len(t)
               PROVE  CallOf(t[i], i < n + 1, calls, offsetOf)
    BY DEF CallsOf
  <2>1. /\ i \in 1..Len(s) /\ t[i].ref = s[i].ref /\ n \in Int
        /\ CallOf(s[i], i < n, calls, offsetOf)
    BY <1>1, <1>4 DEF CallsOf
  <2>2. CASE i # n
    <3>1. t[i] = s[i] /\ ((i < n) <=> (i < n + 1))
      BY <1>1, <2>1, <2>2
    <3> QED BY <2>1, <3>1 DEF CallOf
  <2>3. CASE i = n /\ s[n].ref.kind = "call"
    <3>1. ~(i < n) /\ i < n + 1
      BY <2>1, <2>3
    <3>2. s[n].ref.of \in Funcs
      BY <2>1, <2>3 DEF CallOf
    <3>3. PICK m \in 1..Len(calls) : s[n].val = AFUNC * m /\ calls[m] = s[n].ref.of
      BY <2>1, <2>3, <3>1 DEF CallOf
    <3>4. m \in Nat
      BY <3>3
    <3>5. (-s[n].val) \div (-AFUNC) = m
      BY <3>3, <3>4, CallNumber
    <3>6. t[n].val = offsetOf[t[n].ref.of]
      BY <1>2, <2>1, <2>3, <3>3, <3>5
    <3> QED BY <2>1, <2>3, <3>1, <3>2, <3>6 DEF CallOf
  <2>4. CASE i = n /\ s[n].ref.kind # "call"
    BY <2>1, <2>4 DEF CallOf
  <2> QED BY <2>2, <2>3, <2>4
<1>9. Start(t, Len(t) + 1) = Start(s, Len(s) + 1)
  <2>1. Len(s) + 1 \in 1..(Len(s) + 1) /\ Len(s) + 1 <= Len(t) + 1
        /\ \A j \in 1..((Len(s) + 1) - 1) : s[j].op = t[j].op
    BY <1>1
  <2> QED BY <1>1, <2>1, StartSame
<1>10. bytes' = Pad(Start(t, Len(t) + 1) % Word)
  BY <1>3, <1>4, <1>9
<1>11. /\ Lands(insts', land') /\ Loops(insts', frames') /\ Heads(insts', entry', offsetOf')
       /\ Backs(insts') /\ CallsOf(insts', rd'.inst, calls', offsetOf')
  BY <1>1, <1>3, <1>6, <1>7, <1>8 DEF t
<1>12. ~Emitting' /\ phase' # "done"
  BY <1>3 DEF Emitting
<1> QED BY <1>10, <1>11, <1>12 DEF Addressed, Padded, t

(* Padding both counters before the pass. *)
LEMMA AddressedStart ==
  ASSUME IInv, Addressed, StartPatching PROVE Addressed'
<1>1. /\ phase = "code" /\ phase' = "patch" /\ bytes' = Pad(bytes)
      /\ UNCHANGED <<frames, insts, offsetOf, calls, rd, land, entry>>
  BY DEF StartPatching
<1>2. bytes = Start(insts, Len(insts) + 1) % Word
  BY <1>1 DEF Addressed, Padded, Emitting
<1> QED BY <1>1, <1>2 DEF Addressed, Padded, Emitting

(* Writing the module out, and the state after it. *)
LEMMA AddressedClose ==
  ASSUME Addressed, Close \/ UNCHANGED cgVars PROVE Addressed'
<1>1. CASE Close
  <2>1. /\ phase = "patch" /\ phase' = "done" /\ rd.inst = Len(insts) + 1
        /\ UNCHANGED <<frames, insts, bytes, offsetOf, calls, rd, land, entry>>
    BY <1>1 DEF Close
  <2> QED BY <2>1 DEF Addressed, Padded, Emitting
<1>2. CASE UNCHANGED cgVars
  BY <1>2 DEF cgVars, Addressed, Padded, Emitting
<1> QED BY <1>1, <1>2

(* The parts a step can belong to. *)
LEMMA StepParts ==
  ASSUME IInv, Next
  PROVE  \/ phase \in {"globals", "code"} /\ phase' \in {"globals", "code"}
         \/ StartPatching \/ Patching \/ Close \/ UNCHANGED cgVars
<1>1. CASE phase \in {"globals", "code"}
  BY <1>1 DEF Next, DeclareConst, StartMain, EmitPlain, PushLiteral, PushConst, PrintString,
         Call, OpenBranch, OpenFor, OpenRepeat, CanOpen, BranchFalse, Else, CloseIf,
         CloseFor, RepeatUntil, CloseRepeat, EndMain, StartFunc, EndFunc,
         PatchQueued, PatchJump, PatchCall, PatchNothing, Done
<1>2. CASE phase \notin {"globals", "code"}
  <2>1. frames = <<>> /\ phase # "code"
    BY <1>2 DEF IInv, TypeOK, Stages
  <2> QED
    BY <1>2, <2>1 DEF Next, DeclareConst, StartMain, EmitPlain, PushLiteral, PushConst,
       PrintString, Call, OpenBranch, OpenFor, OpenRepeat, CanOpen, BranchFalse, Else,
       CloseIf, CloseFor, RepeatUntil, CloseRepeat, EndMain, StartFunc, EndFunc,
       PatchQueued, PatchJump, PatchCall, PatchNothing, Done, InCode, InBody
<1> QED BY <1>1, <1>2

(* What is noted down about addresses is right when the generator starts. *)
LEMMA AddressedInit == Init => Addressed
<1> SUFFICES ASSUME Init PROVE Addressed
  OBVIOUS
<1>1. /\ frames = <<>> /\ insts = <<>> /\ Len(frames) = 0 /\ Len(insts) = 0 /\ bytes = 0
      /\ phase = "globals" /\ offsetOf = <<>> /\ land = <<>> /\ insts \in Seq(Insts)
  BY DEF Init
<1>2. DOMAIN offsetOf = {} /\ DOMAIN land = {}
  BY <1>1
<1>3. Start(insts, 1) = 0
  BY <1>1, StartIs
<1>4. 0 % Word = 0
  BY WordAssumption, ModSmall
<1>5. bytes = Padded(Start(insts, Len(insts) + 1))
  BY <1>1, <1>3, <1>4 DEF Padded, Emitting
<1> QED BY <1>1, <1>2, <1>5 DEF Addressed, Lands, Loops, Heads, Backs, CallsOf

(* Every step keeps the addresses right. *)
LEMMA AddressedStep == IInv /\ Addressed /\ [Next]_cgVars => Addressed'
<1>1. ASSUME IInv, Addressed, Next PROVE Addressed'
  BY <1>1, StepParts, AddressedCode, AddressedStart, AddressedPass, AddressedClose
<1> QED BY <1>1, AddressedClose

(* In every state the generator reaches, what it noted down about the places in
   the code is the address of those places, in 16 bits. *)
THEOREM AlwaysAddressed == Spec => []Addressed
BY Inductive, AddressedInit, AddressedStep, PTL DEF Spec

(* In a program that fits the counter a mark is the address itself. *)
LEMMA MarkIs ==
  ASSUME insts \in Seq(Insts), Fits, NEW i, NEW b, Marked(insts, i, b)
  PROVE  b = Address(i)
<1> DEFINE a == Start(insts, i)
           e == Start(insts, Len(insts) + 1)
<1>1. i \in 1..(Len(insts) + 1) /\ b = a % Word
  BY DEF Marked
<1>2. a \in Nat /\ a <= e /\ e \in Nat
  <2>1. Len(insts) + 1 \in 1..(Len(insts) + 1)
    OBVIOUS
  <2> QED BY <1>1, <2>1, StartIs
<1>3. e + 8 <= Word
  BY DEF Fits, Address
<1> HIDE DEF a, e
<1>4. a \in 0..(Word - 1)
  BY <1>2, <1>3, WordAssumption
<1>5. a % Word = a
  BY <1>4, WordAssumption, ModSmall
<1> QED BY <1>1, <1>5 DEF Address, a

(* In the module that is written out every branch reaches the instruction its
   construct means, in every program that fits the byte counter: landings and loop
   starts were marked, the pass patched each branch with its own landing, and
   marks of a program that fits are addresses. *)
THEOREM BranchesReach == Spec => []BranchTargets
<1>1. IInv /\ Addressed => BranchTargets
  <2> SUFFICES ASSUME IInv, Addressed, phase = "done", Fits, NEW i \in 1..Len(insts)
               PROVE  /\ insts[i].ref.kind = "jump" => insts[i].val = Address(land[i].inst)
                      /\ insts[i].ref.kind = "back" => insts[i].val = Address(insts[i].ref.of)
    BY DEF BranchTargets
  <2>1. insts \in Seq(Insts)
    BY DEF IInv, TypeOK
  <2>2. i < rd.inst
    BY <2>1 DEF Addressed
  <2>3. ASSUME insts[i].ref.kind = "jump" PROVE insts[i].val = Address(land[i].inst)
    <3>1. i \in DOMAIN land /\ insts[i].val = land[i].byte
      BY <2>2, <2>3 DEF IInv, BranchesLand
    <3>2. Marked(insts, land[i].inst, land[i].byte)
      BY <3>1 DEF Addressed, Lands
    <3> QED BY <2>1, <3>1, <3>2, MarkIs
  <2>4. ASSUME insts[i].ref.kind = "back" PROVE insts[i].val = Address(insts[i].ref.of)
    <3>1. Marked(insts, insts[i].ref.of, insts[i].val)
      BY <2>4 DEF Addressed, Backs
    <3> QED BY <2>1, <3>1, MarkIs
  <2> QED BY <2>3, <2>4
<1> QED BY <1>1, Inductive, AlwaysAddressed, PTL

(* A call reaches the first instruction of the function it names, in every program
   that fits the byte counter, wherever the function stands. *)
THEOREM CallsReach == Spec => []CallTargets
<1>1. IInv /\ Addressed => CallTargets
  <2> SUFFICES ASSUME IInv, Addressed, phase = "done", Fits, NEW i \in 1..Len(insts),
                      insts[i].ref.kind = "call"
               PROVE  insts[i].val = Address(entry[insts[i].ref.of])
    BY DEF CallTargets
  <2>1. insts \in Seq(Insts)
    BY DEF IInv, TypeOK
  <2>2. i < rd.inst
    BY <2>1 DEF Addressed
  <2>3. insts[i].ref.of \in Funcs /\ insts[i].val = offsetOf[insts[i].ref.of]
    BY <2>2 DEF Addressed, CallsOf, CallOf
  <2>4. insts[i].ref.of \in DOMAIN offsetOf
    BY <2>3 DEF IInv, Stages
  <2>5. Marked(insts, entry[insts[i].ref.of], offsetOf[insts[i].ref.of])
    BY <2>3, <2>4 DEF Addressed, Heads
  <2> QED BY <2>1, <2>3, <2>5, MarkIs
<1> QED BY <1>1, Inductive, AlwaysAddressed, PTL

(***************************************************************************)
(* The pools: what the queues and the symbol map hold.                     *)
(***************************************************************************)
(* off is the offset of the entry l of the pool p. *)
Holds(p, off, l) == \E m \in 0..(Len(p) - 1) : off = 8 * m /\ p[m + 1] = l
QueueOf(l) == IF l \in IntLits THEN "int" ELSE "real"
Lits       == IntLits \cup RealLits

(* A literal that was used, and a constant, are mapped to their own entries. *)
Literals(p, off)      == \A l \in Lits \cap DOMAIN off : Holds(p[QueueOf(l)], off[l], l)
Constants(p, off, cl) == \A c \in DOMAIN cl : Holds(p[QueueOf(cl[c])], off[c], cl[c])

(* The queued offset e leads to the entry of the pools p that is meant by of; for a
   string, in 16 bits. *)
Finds(q, p, of, e) ==
  /\ q \in {"int", "real"} => Holds(p[q], e, of)
  /\ q = "str" => of \in 0..Len(p.str) /\ e = Cell(p.str, of) % Word

(* The queues hold, at the turn of each placeholder, what it is waiting for. *)
Turned(s, pd, i) == pd[s[i].ref.kind][Before(s, i, s[i].ref.kind) + 1]
Waiting(s, p, pd) ==
  \A i \in 1..Len(s) :
    s[i].ref.kind \in Queues => Finds(s[i].ref.kind, p, s[i].ref.of, Turned(s, pd, i))

(* Base, with the padded counter n and the pools p as its parameters. *)
BaseOf(q, n, p) == CASE q = "int"  -> n
                     [] q = "real" -> n + 8 * Len(p.int)
                     [] q = "str"  -> n + 8 * Len(p.int) + 8 * Len(p.real)

(* The operands behind the cursor have what they waited for. *)
Filled ==
  \A i \in 1..Len(insts) :
    i < rd.inst /\ insts[i].ref.kind \in Queues =>
      insts[i].val = BaseOf(insts[i].ref.kind, bytes, pool) + Turned(insts, pend, i)

Pooled ==
  /\ pool.str \in Seq(Nat)
  /\ strBytes = Padded(Cell(pool.str, Len(pool.str)))
  /\ Literals(pool, offsetOf) /\ Constants(pool, offsetOf, constLit)
  /\ Waiting(insts, pool, pend) /\ Filled

(* Each list of g begins with that of f. *)
Grows(f, g) == \A q \in Queues : /\ Len(f[q]) <= Len(g[q])
                                 /\ \A m \in 1..Len(f[q]) : g[q][m] = f[q][m]

Cells(p) == [j \in 1..Len(p) |-> p[j] + 1]

(* The cells of strings are numbers to be added up. *)
LEMMA CellsAre ==
  ASSUME NEW p \in Seq(Nat)
  PROVE  /\ Cells(p) \in Seq(Nat) /\ Len(Cells(p)) = Len(p) /\ Len(p) \in Nat
         /\ \A j \in 1..Len(p) : Cells(p)[j] = p[j] + 1
         /\ \A k : Cell(p, k) = SumOf(Cells(p), k)
<1>1. \A j \in 1..Len(p) : p[j] + 1 \in Nat
  OBVIOUS
<1> QED BY <1>1 DEF Cells, Cell

(* A string starts where it did when others follow; none starts behind the end. *)
LEMMA CellSame ==
  ASSUME NEW p \in Seq(Nat), NEW g \in Seq(Nat), Len(p) <= Len(g),
         \A m \in 1..Len(p) : g[m] = p[m], NEW k \in 0..Len(p)
  PROVE  Cell(g, k) = Cell(p, k) /\ Cell(p, k) \in Nat /\ Cell(p, k) <= Cell(p, Len(p))
<1> DEFINE v == Cells(p)
           w == Cells(g)
<1>1. /\ v \in Seq(Nat) /\ Len(v) = Len(p) /\ w \in Seq(Nat) /\ Len(w) = Len(g)
      /\ Len(p) \in Nat /\ Len(g) \in Nat
      /\ \A j \in 1..Len(p) : v[j] = p[j] + 1
      /\ \A j \in 1..Len(g) : w[j] = g[j] + 1
      /\ \A j : Cell(p, j) = SumOf(v, j) /\ Cell(g, j) = SumOf(w, j)
  BY CellsAre
<1> HIDE DEF v, w
<1>2. k \in 0..Len(v) /\ k <= Len(w) /\ Len(p) \in k..Len(v)
      /\ \A j \in 1..k : j \in 1..Len(p) /\ j \in 1..Len(g)
  <2>1. k \in Nat /\ k <= Len(p) /\ Len(p) \in Nat /\ Len(g) \in Nat /\ Len(p) <= Len(g)
    BY <1>1
  <2>2. \A j \in 1..k : j \in 1..Len(p) /\ j \in 1..Len(g)
    BY <2>1
  <2> QED BY <1>1, <2>1, <2>2
<1>3. \A j \in 1..k : v[j] = w[j]
  BY <1>1, <1>2
<1>4. SumOf(v, k) = SumOf(w, k)
  BY <1>1, <1>2, <1>3, SumSame
<1>5. SumOf(v, k) \in Nat
  BY <1>1, <1>2, SumIs
<1>6. SumOf(v, k) <= SumOf(v, Len(p))
  BY <1>1, <1>2, SumGrows
<1> QED BY <1>1, <1>4, <1>5, <1>6

(* The starts of strings, and the end, by themselves. *)
LEMMA CellIs ==
  ASSUME NEW p \in Seq(Nat), NEW k \in 0..Len(p)
  PROVE  Cell(p, k) \in Nat /\ Cell(p, k) <= Cell(p, Len(p)) /\ Cell(p, Len(p)) \in Nat
<1>1. Len(p) \in Nat /\ Len(p) \in 0..Len(p) /\ Len(p) <= Len(p)
  OBVIOUS
<1>2. \A m \in 1..Len(p) : p[m] = p[m]
  OBVIOUS
<1> QED BY <1>1, <1>2, CellSame

(* A string takes its length and a byte more. *)
LEMMA CellNext ==
  ASSUME NEW p \in Seq(Nat), NEW n \in Nat
  PROVE  /\ Append(p, n) \in Seq(Nat) /\ Len(Append(p, n)) = Len(p) + 1
         /\ Cell(Append(p, n), Len(p) + 1) = Cell(p, Len(p)) + (n + 1)
<1> DEFINE g == Append(p, n)
<1>1. /\ g \in Seq(Nat) /\ Len(g) = Len(p) + 1 /\ Len(p) \in Nat /\ g[Len(p) + 1] = n
      /\ \A m \in 1..Len(p) : g[m] = p[m]
  OBVIOUS
<1> HIDE DEF g
<1>2. Len(p) \in 0..Len(p) /\ Len(p) <= Len(g) /\ Len(p) + 1 \in 1..Len(g)
      /\ (Len(p) + 1) - 1 = Len(p)
  BY <1>1
<1>3. Cell(g, Len(p)) = Cell(p, Len(p))
  BY <1>1, <1>2, CellSame
<1>4. /\ Cells(g) \in Seq(Nat) /\ Len(Cells(g)) = Len(g)
      /\ Cells(g)[Len(p) + 1] = n + 1
      /\ \A k : Cell(g, k) = SumOf(Cells(g), k)
  BY <1>1, <1>2, CellsAre
<1>5. SumOf(Cells(g), Len(p) + 1) = SumOf(Cells(g), Len(p)) + Cells(g)[Len(p) + 1]
  BY <1>2, <1>4, SumIs
<1> QED BY <1>1, <1>3, <1>4, <1>5 DEF g

(* What an offset leads to stays there when the pools grow. *)
LEMMA HoldsGrow ==
  ASSUME NEW p, NEW g, Len(p) \in Nat, Len(g) \in Nat, Len(p) <= Len(g),
         \A m \in 1..Len(p) : g[m] = p[m], NEW off, NEW l, Holds(p, off, l)
  PROVE  Holds(g, off, l)
<1>1. PICK m \in 0..(Len(p) - 1) : off = 8 * m /\ p[m + 1] = l
  BY DEF Holds
<1>2. m \in 0..(Len(g) - 1) /\ m + 1 \in 1..Len(p)
  BY <1>1
<1> QED BY <1>1, <1>2 DEF Holds

Pools == [Queues -> Seq(Nat \cup IntLits \cup RealLits)]

(* The same for any queue. *)
LEMMA FindsGrow ==
  ASSUME NEW p \in Pools, NEW g \in Pools, p.str \in Seq(Nat), g.str \in Seq(Nat),
         Grows(p, g), NEW q, NEW of, NEW e, Finds(q, p, of, e)
  PROVE  Finds(q, g, of, e)
<1>1. \A r \in Queues : Len(p[r]) \in Nat /\ Len(g[r]) \in Nat
  BY DEF Pools
<1>2. ASSUME q \in {"int", "real"} PROVE Holds(g[q], e, of)
  <2>1. q \in Queues /\ Holds(p[q], e, of)
    BY <1>2 DEF Finds, Queues
  <2> QED BY <1>1, <2>1, HoldsGrow DEF Grows
<1>3. ASSUME q = "str" PROVE of \in 0..Len(g.str) /\ e = Cell(g.str, of) % Word
  <2>1. "str" \in Queues /\ of \in 0..Len(p.str) /\ e = Cell(p.str, of) % Word
    BY <1>3 DEF Finds, Queues
  <2>2. Len(p.str) <= Len(g.str) /\ \A m \in 1..Len(p.str) : g.str[m] = p.str[m]
    BY <2>1 DEF Grows
  <2>3. Cell(g.str, of) = Cell(p.str, of)
    BY <2>1, <2>2, CellSame
  <2>4. of \in 0..Len(g.str)
    BY <1>1, <2>1, <2>2
  <2> QED BY <2>1, <2>3, <2>4
<1> QED BY <1>2, <1>3 DEF Finds

(* The entries of literals and constants stay theirs. *)
LEMMA EntriesGrow ==
  ASSUME NEW p \in Pools, NEW g \in Pools, Grows(p, g), NEW off, NEW cl
  PROVE  /\ Literals(p, off) => Literals(g, off)
         /\ Constants(p, off, cl) => Constants(g, off, cl)
<1>1. \A l : /\ QueueOf(l) \in Queues /\ Len(p[QueueOf(l)]) \in Nat /\ Len(g[QueueOf(l)]) \in Nat
             /\ Len(p[QueueOf(l)]) <= Len(g[QueueOf(l)])
             /\ \A m \in 1..Len(p[QueueOf(l)]) : g[QueueOf(l)][m] = p[QueueOf(l)][m]
  BY DEF QueueOf, Queues, Pools, Grows
<1>2. \A l, e, k : Holds(p[QueueOf(l)], e, k) => Holds(g[QueueOf(l)], e, k)
  BY <1>1, HoldsGrow
<1> QED BY <1>2 DEF Literals, Constants

(* A placeholder comes before the end: its turn is not past the last. *)
LEMMA BeforeEnd ==
  ASSUME NEW s \in Seq(Insts), NEW i \in 1..Len(s)
  PROVE  /\ Before(s, i, s[i].ref.kind) \in Nat
         /\ Before(s, i, s[i].ref.kind) + 1 <= Before(s, Len(s) + 1, s[i].ref.kind)
<1> DEFINE k == s[i].ref.kind
           n == Len(s) + 1
<1>1. i \in Nat \ {0} /\ i \in Nat /\ i + 1 \in Nat /\ n \in Nat /\ i + 1 <= n
  OBVIOUS
<1>2. Before(s, i + 1, k) = Before(s, i, k) + 1
  BY <1>1, BeforeNext
<1> HIDE DEF n, k
<1>3. Placed(s, i + 1, k) \subseteq Placed(s, n, k)
  BY <1>1 DEF Placed
<1>4. IsFiniteSet(Placed(s, n, k))
  BY <1>1, BeforeNat
<1>5. Before(s, i + 1, k) <= Before(s, n, k)
  BY <1>3, <1>4, FS_Subset DEF Before
<1>6. Before(s, i, k) \in Nat
  BY <1>1, BeforeNat
<1> QED BY <1>2, <1>5, <1>6 DEF k, n

(* What was waiting still waits for the same when the list, the pools and the
   queues grow; what is pushed first waits for what is queued with it. *)
Waits(u, p, f, g) ==
  \A j \in 1..Len(u) :
    LET q == u[j].ref.kind IN
    q \in Queues => /\ j = 1 /\ Len(f[q]) < Len(g[q])
                    /\ Finds(q, p, u[j].ref.of, g[q][Len(f[q]) + 1])

(* The premises of the lemma below, about a list s, its growth u, the pools p and
   h and the queues f and g. *)
Queueing(s, u, p, h, f, g) ==
  /\ s \in Seq(Insts) /\ u \in Seq(Insts) /\ p \in Pools /\ h \in Pools
  /\ f \in [Queues -> Seq(Nat)] /\ g \in [Queues -> Seq(Nat)]
  /\ p.str \in Seq(Nat) /\ h.str \in Seq(Nat)
  /\ Grows(p, h) /\ Grows(f, g) /\ Waiting(s, p, f) /\ Waits(u, h, f, g)
  /\ \A q \in Queues : Before(s, Len(s) + 1, q) = Len(f[q])

(* Nothing that waits is disturbed. *)
LEMMA GrowWaiting ==
  ASSUME NEW s, NEW u, NEW p, NEW h, NEW f, NEW g, Queueing(s, u, p, h, f, g)
  PROVE  Waiting(s \o u, h, g)
<1> DEFINE t == s \o u
<1> USE DEF Queueing
<1>1. /\ s \in Seq(Insts) /\ u \in Seq(Insts) /\ Len(s) \in Nat /\ Len(u) \in Nat
      /\ Len(t) = Len(s) + Len(u)
      /\ \A i \in 1..Len(s) : t[i] = s[i]
      /\ \A i \in 1..Len(t) :
           i \notin 1..Len(s) => i - Len(s) \in 1..Len(u) /\ t[i] = u[i - Len(s)]
  <2>1. s \in Seq(Insts) /\ u \in Seq(Insts)
    OBVIOUS
  <2> QED BY ONLY <2>1
<1>2. \A kind : \A i \in 1..(Len(s) + 1) : Before(t, i, kind) = Before(s, i, kind)
  BY <1>1, BeforeAppend
<1> HIDE DEF t
<1> SUFFICES ASSUME NEW i \in 1..Len(t), t[i].ref.kind \in Queues
             PROVE  Finds(t[i].ref.kind, h, t[i].ref.of, Turned(t, g, i))
  BY DEF Waiting, t
<1>3. CASE i \in 1..Len(s)
  <2> DEFINE q == s[i].ref.kind
             b == Before(s, i, q)
  <2>1. t[i] = s[i] /\ q \in Queues /\ i \in 1..(Len(s) + 1)
    BY <1>1, <1>3
  <2>2. b \in Nat /\ b + 1 <= Before(s, Len(s) + 1, q)
    BY <1>1, <1>3, BeforeEnd
  <2>3. Before(t, i, q) = b
    BY <1>2, <2>1
  <2>4. Turned(s, f, i) = f[q][b + 1] /\ Turned(t, g, i) = g[q][b + 1]
    BY <2>1, <2>3 DEF Turned
  <2>5. Finds(q, p, s[i].ref.of, f[q][b + 1])
    BY <1>3, <2>1, <2>4 DEF Waiting
  <2> HIDE DEF q, b
  <2>6. b + 1 \in 1..Len(f[q])
    <3>1. Len(f[q]) \in Nat /\ b + 1 <= Len(f[q])
      BY <2>1, <2>2
    <3> QED BY <2>2, <3>1
  <2>7. g[q][b + 1] = f[q][b + 1]
    BY <2>1, <2>6 DEF Grows
  <2>8. Finds(q, h, s[i].ref.of, g[q][b + 1])
    BY <2>5, <2>7, FindsGrow
  <2> QED BY <2>1, <2>4, <2>8 DEF q
<1>4. CASE i \notin 1..Len(s)
  <2> DEFINE j == i - Len(s)
             q == u[j].ref.kind
  <2>1. j \in 1..Len(u) /\ t[i] = u[j]
    BY <1>1, <1>4
  <2>2. j = 1 /\ Finds(q, h, u[j].ref.of, g[q][Len(f[q]) + 1])
    BY <2>1 DEF Waits
  <2>3. i = Len(s) + 1 /\ i \in 1..(Len(s) + 1)
    BY <1>1, <2>2
  <2>4. Before(t, i, q) = Len(f[q])
    BY <1>2, <2>1, <2>3
  <2>5. Turned(t, g, i) = g[q][Len(f[q]) + 1]
    BY <2>1, <2>4 DEF Turned
  <2> QED BY <2>1, <2>2, <2>5
<1> QED BY <1>3, <1>4

Pushed(f, q, v) == [f EXCEPT ![q] = Append(@, v)]

(* Pushing a value on one list leaves the others, and what was on it. *)
LEMMA PushGrows ==
  ASSUME NEW S, NEW f \in [Queues -> Seq(S)], NEW q \in Queues, NEW v \in S
  PROVE  LET g == Pushed(f, q, v) IN
         /\ g \in [Queues -> Seq(S)] /\ Grows(f, g)
         /\ g[q] = Append(f[q], v) /\ Len(g[q]) = Len(f[q]) + 1 /\ g[q][Len(f[q]) + 1] = v
         /\ \A r \in Queues : r # q => g[r] = f[r]
<1> DEFINE g == Pushed(f, q, v)
<1>1. g \in [Queues -> Seq(S)]
  BY PushQueue DEF Pushed
<1>2. /\ g[q] = Append(f[q], v) /\ \A r \in Queues : r # q => g[r] = f[r]
  BY DEF Pushed
<1>3. f[q] \in Seq(S)
  OBVIOUS
<1>4. /\ Len(Append(f[q], v)) = Len(f[q]) + 1 /\ Append(f[q], v)[Len(f[q]) + 1] = v
      /\ \A m \in 1..Len(f[q]) : Append(f[q], v)[m] = f[q][m]
      /\ Len(f[q]) \in Nat
  BY <1>3
<1> HIDE DEF g
<1>5. \A r \in Queues : Len(f[r]) \in Nat
  OBVIOUS
<1>6. ASSUME NEW r \in Queues
      PROVE  Len(f[r]) <= Len(g[r]) /\ \A m \in 1..Len(f[r]) : g[r][m] = f[r][m]
  <2>1. CASE r = q
    BY <1>2, <1>4, <2>1, SMTT(30)
  <2>2. CASE r # q
    BY <1>2, <1>5, <2>2
  <2> QED BY <2>1, <2>2
<1> QED BY <1>1, <1>2, <1>4, <1>6 DEF Grows, g

(* Nothing grows but what is pushed. *)
LEMMA SameGrows ==
  ASSUME NEW S, NEW f \in [Queues -> Seq(S)] PROVE Grows(f, f)
<1>1. \A r \in Queues : Len(f[r]) \in Nat
  OBVIOUS
<1> QED BY <1>1 DEF Grows

(* A step of generation keeps the pools right when the tables are. *)
LEMMA GrowPooled ==
  ASSUME IInv, IInv', Pooled, Emitting', rd' = rd,
         NEW u \in Seq(Insts), insts' = insts \o u,
         pool'.str \in Seq(Nat), Grows(pool, pool'), Grows(pend, pend'),
         Waits(u, pool', pend, pend'),
         Literals(pool', offsetOf'), Constants(pool', offsetOf', constLit'),
         strBytes' = Cell(pool'.str, Len(pool'.str)) % Word
  PROVE  Pooled'
<1>1. /\ insts \in Seq(Insts) /\ pool \in Pools /\ pool' \in Pools
      /\ pend \in [Queues -> Seq(Nat)] /\ pend' \in [Queues -> Seq(Nat)]
  BY DEF IInv, TypeOK, Pools
<1>2. \A q \in Queues : Before(insts, Len(insts) + 1, q) = Len(pend[q])
  BY DEF IInv, Turn
<1>3. Queueing(insts, u, pool, pool', pend, pend')
  BY <1>1, <1>2 DEF Queueing, Pooled
<1>4. Waiting(insts', pool', pend')
  BY <1>3, GrowWaiting
<1>5. rd'.inst = 1
  BY DEF IInv, Stages, Emitting
<1>6. Filled'
  BY <1>5 DEF Filled
<1>7. strBytes' = Padded(Cell(pool.str, Len(pool.str)))'
  BY DEF Padded
<1> QED BY <1>4, <1>6, <1>7 DEF Pooled

(* A step that pushes nothing for the queues and touches no pool. *)
LEMMA PlainPooled ==
  ASSUME IInv, IInv', Pooled, Emitting, Emitting', rd' = rd,
         NEW u \in Seq(Insts), insts' = insts \o u,
         \A j \in 1..Len(u) : u[j].ref.kind \notin Queues,
         pool' = pool, pend' = pend, strBytes' = strBytes, constLit' = constLit,
         \A k \in Lits \cup Consts :
           k \in DOMAIN offsetOf' => k \in DOMAIN offsetOf /\ offsetOf'[k] = offsetOf[k]
  PROVE  Pooled'
<1>1. pool \in Pools /\ pend \in [Queues -> Seq(Nat)]
  BY DEF IInv, TypeOK, Pools
<1>2. Grows(pool, pool') /\ Grows(pend, pend')
  BY <1>1, SameGrows DEF Pools
<1>3. Waits(u, pool', pend, pend')
  BY DEF Waits
<1>4. pool'.str \in Seq(Nat) /\ strBytes' = Cell(pool'.str, Len(pool'.str)) % Word
  BY DEF Pooled, Padded
<1>5. Literals(pool', offsetOf')
  BY DEF Pooled, Literals
<1>6. Constants(pool', offsetOf', constLit')
  <2>1. DOMAIN constLit' \subseteq Consts \cap DOMAIN offsetOf'
    BY DEF IInv, TypeOK
  <2> QED BY <2>1 DEF Pooled, Constants
<1> QED BY <1>2, <1>3, <1>4, <1>5, <1>6, GrowPooled

(* The number of entries of a pool, times eight, is the offset of the next. *)
LEMMA NextHolds ==
  ASSUME NEW S, NEW p \in Seq(S), NEW l \in S
  PROVE  Holds(Append(p, l), 8 * Len(p), l)
<1> DEFINE g == Append(p, l)
           m == Len(p)
<1>1. m \in Nat /\ Len(g) = m + 1 /\ g[m + 1] = l
  OBVIOUS
<1> HIDE DEF g, m
<1>2. m \in 0..(Len(g) - 1)
  BY <1>1
<1> QED BY <1>1, <1>2 DEF Holds, g, m

(* The same for the pools. *)
LEMMA PushPool ==
  ASSUME NEW p \in Pools, NEW q \in Queues, NEW v \in Nat \cup IntLits \cup RealLits
  PROVE  LET g == Pushed(p, q, v) IN
         /\ g \in Pools /\ Grows(p, g) /\ g[q] = Append(p[q], v)
         /\ \A r \in Queues : r # q => g[r] = p[r]
<1> DEFINE S == Nat \cup IntLits \cup RealLits
           g == Pushed(p, q, v)
<1>1. p \in [Queues -> Seq(S)] /\ v \in S
  BY DEF Pools
<1> HIDE DEF S
<1>2. /\ g \in [Queues -> Seq(S)] /\ Grows(p, g) /\ g[q] = Append(p[q], v)
      /\ \A r \in Queues : r # q => g[r] = p[r]
  BY <1>1, PushGrows
<1> QED BY <1>2 DEF Pools, S

(* A queue that gets the offset of what the instruction pushed with it means. *)
LEMMA OneWaits ==
  ASSUME NEW x \in Insts, NEW u, NEW p, NEW f \in [Queues -> Seq(Nat)], NEW q \in Queues,
         NEW e \in Nat, NEW g, g = Pushed(f, q, e),
         u = <<x>> \/ \E y \in Insts : u = <<x, y>> /\ y.ref.kind = "none",
         x.ref.kind = q, Finds(q, p, x.ref.of, e)
  PROVE  Grows(f, g) /\ Waits(u, p, f, g)
<1>1. /\ Grows(f, g) /\ Len(g[q]) = Len(f[q]) + 1 /\ g[q][Len(f[q]) + 1] = e
      /\ Len(f[q]) \in Nat
  <2>1. f[q] \in Seq(Nat)
    OBVIOUS
  <2> QED BY <2>1, PushGrows, SMTT(30)
<1>2. \A j \in 1..Len(u) : u[j].ref.kind \in Queues => j = 1 /\ u[j] = x
  <2>1. CASE u = <<x>>
    BY <2>1
  <2>2. ASSUME NEW y \in Insts, u = <<x, y>>, y.ref.kind = "none"
        PROVE  \A j \in 1..Len(u) : u[j].ref.kind \in Queues => j = 1 /\ u[j] = x
    <3>1. Len(u) = 2 /\ u[1] = x /\ u[2] = y
      BY <2>2
    <3>2. u[2].ref.kind \notin Queues
      BY <2>2, <3>1 DEF Queues
    <3>3. \A j \in 1..Len(u) : j = 1 \/ j = 2
      BY <3>1
    <3> QED BY <3>1, <3>2, <3>3
  <2> QED BY <2>1, <2>2
<1> QED BY <1>1, <1>2 DEF Waits

(* Every step of generation keeps the pools and queues right. *)
LEMMA PooledCode ==
  ASSUME IInv, Pooled, Next, phase \in {"globals", "code"}, phase' \in {"globals", "code"}
  PROVE  Pooled'
<1> USE DEF InCode
<1>a. /\ insts \in Seq(Insts) /\ Len(insts) \in Nat
      /\ pool \in Pools /\ pend \in [Queues -> Seq(Nat)]
      /\ \A q \in Queues : /\ pool[q] \in Seq(Nat \cup IntLits \cup RealLits)
                           /\ Len(pool[q]) \in Nat
  <2>1. insts \in Seq(Insts) /\ pool \in Pools /\ pend \in [Queues -> Seq(Nat)]
    BY DEF IInv, TypeOK, Pools
  <2>2. \A q \in Queues : pool[q] \in Seq(Nat \cup IntLits \cup RealLits)
    BY <2>1 DEF Pools
  <2>3. \A q \in Queues : Len(pool[q]) \in Nat
    BY <2>2
  <2> QED BY <2>1, <2>2, <2>3
<1>b. Emitting /\ Emitting'
  BY DEF Emitting
<1>c. IInv'
  BY InvStep
<1>d. pool.str \in Seq(Nat) /\ strBytes = Cell(pool.str, Len(pool.str)) % Word
  BY <1>b DEF Pooled, Padded
<1>e. /\ \A l \in Lits : QueueOf(l) \in {"int", "real"} /\ QueueOf(l) \in Queues /\ l \notin Consts
      /\ \A l \in Lits : l \in Nat \cup IntLits \cup RealLits
  BY SymbolsDisjoint DEF Lits, QueueOf, Queues
<1>f. Literals(pool, offsetOf) /\ Constants(pool, offsetOf, constLit)
  BY DEF Pooled
<1>g. ASSUME NEW u \in Seq(Insts), insts' = insts \o u, rd' = rd,
             \A j \in 1..Len(u) : u[j].ref.kind \notin Queues,
             UNCHANGED <<pool, pend, strBytes, constLit, offsetOf>>
      PROVE  Pooled'
  BY <1>b, <1>c, <1>g, PlainPooled
<1>h. ASSUME insts' = insts, rd' = rd, UNCHANGED <<pool, pend, strBytes, constLit, offsetOf>>
      PROVE  Pooled'
  <2> DEFINE u == <<>>
  <2>1. u \in Seq(Insts) /\ insts' = insts \o u /\ Len(u) = 0
    BY <1>a, <1>h
  <2> HIDE DEF u
  <2>2. \A j \in 1..Len(u) : u[j].ref.kind \notin Queues
    BY <2>1
  <2> QED BY <1>g, <1>h, <2>1, <2>2
<1>i. \A op \in Ops : Plain(op) \in Insts /\ Plain(op).ref.kind = "none"
  BY DEF Plain, Inst, Insts, Refs, Kinds
<1>j. \A op \in Ops : /\ <<Plain(op)>> \in Seq(Insts)
                      /\ \A j \in 1..Len(<<Plain(op)>>) : <<Plain(op)>>[j].ref.kind \notin Queues
  BY <1>i DEF Queues
<1>1. ASSUME NEW c \in Consts, NEW l \in IntLits \cup RealLits, DeclareConst(c, l)
      PROVE  Pooled'
  <2> DEFINE q == QueueOf(l)
  <2>1. /\ pool' = Pushed(pool, q, l)
        /\ offsetOf' = Put(offsetOf, c, 8 * Len(pool[q])) /\ constLit' = Put(constLit, c, l)
        /\ insts' = insts /\ rd' = rd /\ pend' = pend /\ strBytes' = strBytes
    BY <1>1 DEF DeclareConst, QueueOf, Pushed
  <2>2. q \in {"int", "real"} /\ q \in Queues /\ l \in Nat \cup IntLits \cup RealLits
        /\ l \in Lits /\ q # "str" /\ "str" \in Queues
    BY <1>e DEF Lits, Queues
  <2> HIDE DEF q
  <2>3. /\ pool' \in Pools /\ Grows(pool, pool') /\ pool'[q] = Append(pool[q], l)
        /\ \A r \in Queues : r # q => pool'[r] = pool[r]
    BY <1>a, <2>1, <2>2, PushPool
  <2>4. pool'.str = pool.str
    BY <2>2, <2>3
  <2>5. Grows(pend, pend')
    BY <1>a, <2>1, SameGrows
  <2>6. Holds(pool'[q], 8 * Len(pool[q]), l)
    BY <1>a, <2>2, <2>3, NextHolds
  <2>7. Literals(pool', offsetOf) /\ Constants(pool', offsetOf, constLit)
    BY <1>a, <1>f, <2>3, EntriesGrow
  <2>8. /\ DOMAIN offsetOf' = DOMAIN offsetOf \cup {c} /\ offsetOf'[c] = 8 * Len(pool[q])
        /\ \A x \in DOMAIN offsetOf : x # c => offsetOf'[x] = offsetOf[x]
        /\ DOMAIN constLit' = DOMAIN constLit \cup {c} /\ constLit'[c] = l
        /\ \A x \in DOMAIN constLit : x # c => constLit'[x] = constLit[x]
    BY <2>1 DEF Put
  <2>9. Literals(pool', offsetOf')
    <3>1. \A k \in Lits \cap DOMAIN offsetOf' : k \in DOMAIN offsetOf /\ offsetOf'[k] = offsetOf[k]
      BY <1>e, <2>8
    <3> QED BY <2>7, <3>1 DEF Literals
  <2>10. Constants(pool', offsetOf', constLit')
    <3> SUFFICES ASSUME NEW d \in DOMAIN constLit'
                 PROVE  Holds(pool'[QueueOf(constLit'[d])], offsetOf'[d], constLit'[d])
      BY DEF Constants
    <3>1. CASE d = c
      BY <2>6, <2>8, <3>1 DEF q
    <3>2. CASE d # c
      <4>1. d \in DOMAIN constLit /\ constLit'[d] = constLit[d] /\ d \in DOMAIN offsetOf
        BY <2>8, <3>2 DEF IInv, TypeOK
      <4>2. offsetOf'[d] = offsetOf[d]
        BY <2>8, <3>2, <4>1
      <4> QED BY <2>7, <4>1, <4>2 DEF Constants
    <3> QED BY <3>1, <3>2
  <2>11. <<>> \in Seq(Insts) /\ insts' = insts \o <<>> /\ Len(<<>>) = 0
    BY <1>a, <2>1
  <2>12. Waits(<<>>, pool', pend, pend')
    BY <2>11 DEF Waits
  <2> QED BY <1>b, <1>c, <1>d, <2>1, <2>3, <2>4, <2>5, <2>9, <2>10, <2>11, <2>12, GrowPooled
<1>2. ASSUME NEW l \in IntLits \cup RealLits, PushLiteral(l) PROVE Pooled'
  <2> DEFINE q == QueueOf(l)
             mark == IF l \in IntLits THEN AINT ELSE AREAL
             off == IF l \in DOMAIN offsetOf THEN offsetOf[l] ELSE 8 * Len(pool[q])
             x == Inst("LV0", mark, q, l)
             u == <<x>>
  <2>1. /\ insts' = insts \o u /\ rd' = rd /\ strBytes' = strBytes /\ constLit' = constLit
        /\ pend' = Pushed(pend, q, off)
        /\ l \in DOMAIN offsetOf => pool' = pool /\ offsetOf' = offsetOf
        /\ l \notin DOMAIN offsetOf => /\ pool' = Pushed(pool, q, l)
                                       /\ offsetOf' = Put(offsetOf, l, off)
    BY <1>2 DEF PushLiteral, QueueOf, Emit, Pushed
  <2>2. q \in {"int", "real"} /\ q \in Queues /\ l \in Nat \cup IntLits \cup RealLits
        /\ l \in Lits /\ l \notin Consts /\ q # "str" /\ "str" \in Queues
    BY <1>e DEF Lits, Queues
  <2>3. x \in Insts /\ x.ref.kind = q /\ x.ref.of = l
    BY <2>2 DEF Inst, Insts, Ops, Refs, Kinds, Symbols, AINT, AREAL, Lits
  <2>4. off \in Nat
    <3>1. l \in DOMAIN offsetOf => offsetOf[l] \in Nat
      BY DEF IInv, TypeOK
    <3> QED BY <1>a, <2>2, <3>1
  <2>0. off = IF l \in DOMAIN offsetOf THEN offsetOf[l] ELSE 8 * Len(pool[q])
    OBVIOUS
  <2> HIDE DEF q, off, x
  <2>5. /\ pool' \in Pools /\ Grows(pool, pool') /\ pool'.str = pool.str
        /\ Holds(pool'[q], off, l)
    <3>1. CASE l \in DOMAIN offsetOf
      <4>1. Grows(pool, pool)
        BY <1>a, SameGrows DEF Pools
      <4>2. Holds(pool[q], offsetOf[l], l)
        BY <1>f, <2>2, <3>1 DEF Literals, q
      <4> QED BY <1>a, <2>0, <2>1, <3>1, <4>1, <4>2
    <3>2. CASE l \notin DOMAIN offsetOf
      <4>0. pool' = Pushed(pool, q, l)
        BY <2>1, <3>2
      <4>1. /\ pool' \in Pools /\ Grows(pool, pool') /\ pool'[q] = Append(pool[q], l)
            /\ \A r \in Queues : r # q => pool'[r] = pool[r]
        BY <1>a, <2>2, <4>0, PushPool, ZenonT(60)
      <4>2. Holds(pool'[q], 8 * Len(pool[q]), l)
        BY <1>a, <2>2, <4>1, NextHolds
      <4> QED BY <2>0, <2>2, <3>2, <4>1, <4>2
    <3> QED BY <3>1, <3>2
  <2>6. Literals(pool', offsetOf) /\ Constants(pool', offsetOf, constLit)
    BY <1>a, <1>f, <2>5, EntriesGrow
  <2>7. \A k \in DOMAIN offsetOf' :
          \/ k = l /\ offsetOf'[k] = off
          \/ k # l /\ k \in DOMAIN offsetOf /\ offsetOf'[k] = offsetOf[k]
    BY <2>0, <2>1 DEF Put
  <2>8. Literals(pool', offsetOf')
    BY <2>5, <2>6, <2>7 DEF Literals, q
  <2>9. Constants(pool', offsetOf', constLit')
    <3>1. DOMAIN constLit' \subseteq Consts \cap DOMAIN offsetOf'
      BY <1>c DEF IInv, TypeOK
    <3>2. \A d \in DOMAIN constLit : offsetOf'[d] = offsetOf[d]
      BY <2>1, <2>2, <2>7, <3>1
    <3> QED BY <2>1, <2>6, <3>2 DEF Constants
  <2>10. Finds(q, pool', l, off)
    BY <2>2, <2>5 DEF Finds
  <2>11. Grows(pend, pend') /\ Waits(u, pool', pend, pend')
    BY <1>a, <2>1, <2>2, <2>3, <2>4, <2>10, OneWaits
  <2>12. u \in Seq(Insts)
    BY <2>3
  <2> HIDE DEF u
  <2> QED BY <1>b, <1>c, <1>d, <2>1, <2>5, <2>8, <2>9, <2>11, <2>12, GrowPooled
<1>3. ASSUME NEW c \in DOMAIN constLit, PushConst(c) PROVE Pooled'
  <2> DEFINE l == constLit[c]
             q == QueueOf(l)
             mark == IF l \in IntLits THEN AINT ELSE AREAL
             off == offsetOf[c]
             x == Inst("LV0", mark, q, l)
             u == <<x>>
  <2>1. /\ insts' = insts \o u /\ rd' = rd /\ strBytes' = strBytes /\ constLit' = constLit
        /\ pend' = Pushed(pend, q, off) /\ pool' = pool /\ offsetOf' = offsetOf
    BY <1>3 DEF PushConst, QueueOf, Emit, Pushed
  <2>2. l \in Lits /\ off \in Nat
    BY DEF IInv, TypeOK, Lits
  <2> HIDE DEF l
  <2>3. q \in {"int", "real"} /\ q \in Queues /\ q # "str"
    BY <1>e, <2>2
  <2>4. x \in Insts /\ x.ref.kind = q /\ x.ref.of = l
    BY <2>2, <2>3 DEF Inst, Insts, Ops, Refs, Kinds, Symbols, AINT, AREAL, Lits
  <2>5. Holds(pool'[q], off, l)
    BY <1>f, <2>1 DEF Constants, l
  <2> HIDE DEF q, off, x
  <2>6. Finds(q, pool', l, off)
    BY <2>3, <2>5 DEF Finds
  <2>7. Grows(pend, pend') /\ Waits(u, pool', pend, pend')
    BY <1>a, <2>1, <2>2, <2>3, <2>4, <2>6, OneWaits
  <2>8. u \in Seq(Insts)
    BY <2>4
  <2>9. Grows(pool, pool')
    BY <1>a, <2>1, SameGrows DEF Pools
  <2> HIDE DEF u
  <2> QED BY <1>b, <1>c, <1>d, <1>f, <2>1, <2>7, <2>8, <2>9, GrowPooled
<1>4. ASSUME NEW n \in StrLens, PrintString(n) PROVE Pooled'
  <2> DEFINE m == Len(pool.str)
             x == Inst("LA0", ASTR, "str", m)
             y == Plain("STRPR")
             u == <<x, y>>
  <2>1. /\ insts' = insts \o u /\ rd' = rd /\ constLit' = constLit
        /\ pool' = Pushed(pool, "str", n)
        /\ pend' = Pushed(pend, "str", strBytes)
        /\ strBytes' = (strBytes + n + 1) % Word /\ offsetOf' = offsetOf
    BY <1>4 DEF PrintString, Emit, Pushed
  <2>2. n \in Nat /\ "str" \in Queues /\ m \in Nat /\ strBytes \in Nat
    BY <1>d, StrLenAssumption, WordAssumption DEF Queues, IInv, TypeOK
  <2>3. x \in Insts /\ x.ref.kind = "str" /\ x.ref.of = m /\ y \in Insts /\ y.ref.kind = "none"
    BY <1>i, <2>2 DEF Inst, Insts, Ops, Refs, Kinds, ASTR
  <2>4. /\ pool' \in Pools /\ Grows(pool, pool') /\ pool'["str"] = Append(pool["str"], n)
    BY <1>a, <2>1, <2>2, PushPool
  <2>5. /\ pool'.str = Append(pool.str, n) /\ pool'.str \in Seq(Nat) /\ Len(pool'.str) = m + 1
        /\ Cell(pool'.str, m + 1) = Cell(pool.str, m) + (n + 1)
    <3> DEFINE p == pool.str
    <3>1. p \in Seq(Nat) /\ n \in Nat /\ pool'.str = Append(p, n) /\ m = Len(p)
      BY <1>d, <2>2, <2>4
    <3> HIDE DEF p
    <3>2. /\ Append(p, n) \in Seq(Nat) /\ Len(Append(p, n)) = Len(p) + 1
          /\ Cell(Append(p, n), Len(p) + 1) = Cell(p, Len(p)) + (n + 1)
      BY <3>1, CellNext
    <3> QED BY <3>1, <3>2 DEF p
  <2>6. Cell(pool'.str, m) = Cell(pool.str, m) /\ Cell(pool.str, m) \in Nat
    <3>1. m \in 0..Len(pool.str) /\ Len(pool.str) <= Len(pool'.str)
          /\ \A k \in 1..Len(pool.str) : pool'.str[k] = pool.str[k]
      BY <2>2, <2>4 DEF Grows
    <3> QED BY <1>d, <2>5, <3>1, CellSame
  <2>7. strBytes' = Cell(pool'.str, Len(pool'.str)) % Word
    <3> DEFINE a == Cell(pool.str, m)
               b == n + 1
    <3>1. a \in Nat /\ b \in Nat /\ strBytes = a % Word
      BY <1>d, <2>2, <2>6
    <3>2. strBytes + n + 1 = strBytes + b
      BY <2>2
    <3> HIDE DEF a, b
    <3>3. ((a % Word) + b) % Word = (a + b) % Word
      BY <3>1, WordAssumption, ModAdd
    <3> QED BY <2>1, <2>5, <3>1, <3>2, <3>3 DEF a, b
  <2>8. Finds("str", pool', m, strBytes)
    <3>1. m \in 0..Len(pool'.str)
      BY <2>2, <2>5
    <3> QED BY <1>d, <2>6, <3>1 DEF Finds
  <2> HIDE DEF x, y, m
  <2>9. Grows(pend, pend') /\ Waits(u, pool', pend, pend')
    BY <1>a, <2>1, <2>2, <2>3, <2>8, OneWaits
  <2>10. u \in Seq(Insts)
    BY <2>3
  <2>11. Literals(pool', offsetOf') /\ Constants(pool', offsetOf', constLit')
    BY <1>a, <1>f, <2>1, <2>4, EntriesGrow
  <2> HIDE DEF u
  <2> QED BY <1>b, <1>c, <2>1, <2>4, <2>5, <2>7, <2>9, <2>10, <2>11, GrowPooled
<1>5. CASE StartMain \/ OpenRepeat \/ CloseIf \/ EndFunc
  BY <1>5, <1>h DEF StartMain, OpenRepeat, CloseIf, EndFunc
<1>6. ASSUME NEW op \in FillerOps, EmitPlain(op) PROVE Pooled'
  <2>1. op \in Ops
    BY FillerAssumption DEF Ops
  <2> QED BY <1>6, <1>g, <1>j, <2>1 DEF EmitPlain, Emit
<1>7. CASE BranchFalse \/ CloseRepeat \/ EndMain
  <2>1. "BF" \in Ops /\ "HALT" \in Ops
    BY DEF Ops
  <2>2. CASE BranchFalse
    BY <1>g, <1>j, <2>1, <2>2 DEF BranchFalse, Emit
  <2>3. CASE CloseRepeat
    BY <1>g, <1>j, <2>1, <2>3 DEF CloseRepeat, Emit
  <2>4. CASE EndMain
    BY <1>g, <1>j, <2>1, <2>4 DEF EndMain, Emit
  <2> QED BY <1>7, <2>2, <2>3, <2>4
<1>8. ASSUME NEW f \in Funcs, Call(f) PROVE Pooled'
  <2> DEFINE x == Inst("LA0", AFUNC * (Len(calls) + 1), "call", f)
             u == <<Plain("LB"), x, Plain("JS2")>>
  <2>1. Len(calls) + 1 \in Nat
    BY DEF IInv, TypeOK
  <2>2. x \in Insts /\ x.ref.kind = "call" /\ "LB" \in Ops /\ "JS2" \in Ops
    BY <2>1 DEF Inst, Insts, Ops, Refs, Kinds, AFUNC, Symbols
  <2>3. insts' = insts \o u /\ rd' = rd /\ UNCHANGED <<pool, pend, strBytes, constLit, offsetOf>>
    BY <1>8 DEF Call, Emit
  <2> HIDE DEF x
  <2>4. u \in Seq(Insts) /\ \A j \in 1..Len(u) : u[j].ref.kind \in {"call", "none"}
    BY <1>i, <2>2
  <2>5. \A j \in 1..Len(u) : u[j].ref.kind \notin Queues
    BY <2>4 DEF Queues
  <2> HIDE DEF u
  <2> QED BY <1>g, <2>3, <2>4, <2>5
<1>9. ASSUME (\E kind \in {"if", "ifelse"} : OpenBranch(kind)) \/ OpenFor PROVE Pooled'
  <2> DEFINE u == <<Inst("LA0", AJUMP, "jump", 0)>>
  <2>1. u \in Seq(Insts) /\ \A j \in 1..Len(u) : u[j].ref.kind \notin Queues
    BY DEF Inst, Insts, Ops, Refs, Kinds, AJUMP, Queues
  <2>2. insts' = insts \o u /\ rd' = rd /\ UNCHANGED <<pool, pend, strBytes, constLit, offsetOf>>
    BY <1>9 DEF OpenBranch, OpenFor, Emit
  <2> HIDE DEF u
  <2> QED BY <1>g, <2>1, <2>2
<1>10. CASE Else
  <2> DEFINE u == <<Inst("LA0", AJUMP, "jump", 0), Plain("BR")>>
  <2>1. "BR" \in Ops /\ Inst("LA0", AJUMP, "jump", 0) \in Insts
        /\ Inst("LA0", AJUMP, "jump", 0).ref.kind = "jump"
    BY DEF Inst, Insts, Ops, Refs, Kinds, AJUMP
  <2>2. u \in Seq(Insts) /\ \A j \in 1..Len(u) : u[j].ref.kind \in {"jump", "none"}
    BY <1>i, <2>1
  <2>3. \A j \in 1..Len(u) : u[j].ref.kind \notin Queues
    BY <2>2 DEF Queues
  <2>4. insts' = insts \o u /\ rd' = rd /\ UNCHANGED <<pool, pend, strBytes, constLit, offsetOf>>
    BY <1>10 DEF Else, Emit
  <2> HIDE DEF u
  <2> QED BY <1>g, <2>2, <2>3, <2>4
<1>11. CASE CloseFor \/ RepeatUntil
  <2> DEFINE x == Inst("LA0", Top.top, "back", Top.begin)
             u == <<x, Plain("BR")>>
             v == <<x>>
  <2>1. Top \in Frames
    BY <1>11 DEF CloseFor, RepeatUntil, IInv, TypeOK, Top
  <2>2. x \in Insts /\ x.ref.kind = "back" /\ "BR" \in Ops
    BY <2>1 DEF Inst, Insts, Ops, Refs, Kinds, Frames
  <2>3. /\ insts' = insts \o u \/ insts' = insts \o v
        /\ rd' = rd /\ UNCHANGED <<pool, pend, strBytes, constLit, offsetOf>>
    BY <1>11 DEF CloseFor, RepeatUntil, Emit
  <2> HIDE DEF x
  <2>4. /\ u \in Seq(Insts) /\ \A j \in 1..Len(u) : u[j].ref.kind \in {"back", "none"}
        /\ v \in Seq(Insts) /\ \A j \in 1..Len(v) : v[j].ref.kind = "back"
    BY <1>i, <2>2
  <2>5. /\ \A j \in 1..Len(u) : u[j].ref.kind \notin Queues
        /\ \A j \in 1..Len(v) : v[j].ref.kind \notin Queues
    BY <2>4 DEF Queues
  <2> HIDE DEF u, v
  <2> QED BY <1>g, <2>3, <2>4, <2>5
<1>12. ASSUME NEW f \in Funcs, StartFunc(f) PROVE Pooled'
  <2>1. /\ insts' = insts /\ rd' = rd /\ UNCHANGED <<pool, pend, strBytes, constLit>>
        /\ offsetOf' = Put(offsetOf, f, bytes)
    BY <1>12 DEF StartFunc
  <2> DEFINE u == <<>>
  <2>2. u \in Seq(Insts) /\ insts' = insts \o u /\ Len(u) = 0
    BY <1>a, <2>1
  <2> HIDE DEF u
  <2>5. \A j \in 1..Len(u) : u[j].ref.kind \notin Queues
    BY <2>2
  <2>3. f \notin Lits \cup Consts
    BY SymbolsDisjoint DEF Lits
  <2>4. \A k \in Lits \cup Consts :
          k \in DOMAIN offsetOf' => k \in DOMAIN offsetOf /\ offsetOf'[k] = offsetOf[k]
    BY <2>1, <2>3 DEF Put
  <2> QED BY <1>b, <1>c, <2>1, <2>2, <2>4, <2>5, PlainPooled
<1>13. ~StartPatching /\ ~Patching /\ ~Close /\ ~Done
  BY DEF StartPatching, Patching, Close, Done
<1> QED
  BY <1>1, <1>2, <1>3, <1>4, <1>5, <1>6, <1>7, <1>8, <1>9, <1>10, <1>11, <1>12, <1>13
     DEF Next, PatchQueued, PatchJump, PatchCall, PatchNothing

(* A step of the pass fills the operand under its cursor from the right entry. *)
LEMMA PooledPass ==
  ASSUME IInv, Pooled, Next, Patching
  PROVE  Pooled'
<1> DEFINE s == insts
           t == insts'
           n == rd.inst
<1>1. /\ PatchOnly /\ s \in Seq(Insts) /\ Len(t) = Len(s)
      /\ n \in 1..Len(s) /\ rd'.inst = n + 1 /\ Cur = s[n] /\ Len(s) \in Nat
      /\ \A j \in 1..Len(s) : t[j].ref = s[j].ref
      /\ \A j \in 1..Len(s) : j # n => t[j] = s[j]
  <2>1. s \in Seq(Insts)
    BY DEF IInv, TypeOK
  <2>2. Len(s) \in Nat
    BY <2>1
  <2> QED BY <2>1, <2>2, PassStep, CurKinds
<1>2. s[n].ref.kind \in Queues =>
        t[n].val = BaseOf(s[n].ref.kind, bytes, pool)
                     + pend[s[n].ref.kind][rd[s[n].ref.kind] + 1]
  BY <1>1, PassStep DEF Queues, Base, BaseOf
<1>3. /\ phase = "patch" /\ phase' = "patch" /\ bytes' = bytes /\ pool' = pool
      /\ pend' = pend /\ strBytes' = strBytes /\ offsetOf' = offsetOf /\ constLit' = constLit
  BY <1>1 DEF PatchOnly, Patching
<1>4. \A q \in Queues : rd[q] = Before(s, n, q)
  BY DEF IInv, Turn
<1>5. /\ Waiting(s, pool, pend)
      /\ \A i \in 1..Len(s) : i < n /\ s[i].ref.kind \in Queues =>
           s[i].val = BaseOf(s[i].ref.kind, bytes, pool) + Turned(s, pend, i)
  BY DEF Pooled, Filled
<1> HIDE DEF s, t, n
<1>7. \A i \in 1..Len(s) : Turned(t, pend, i) = Turned(s, pend, i)
  <2> SUFFICES ASSUME NEW i \in 1..Len(s) PROVE Turned(t, pend, i) = Turned(s, pend, i)
    OBVIOUS
  <2>1. \A j \in 1..(i - 1) : t[j].ref = s[j].ref
    BY <1>1
  <2>2. \A kind : Before(t, i, kind) = Before(s, i, kind)
    BY <2>1, BeforeSame
  <2> QED BY <1>1, <2>2 DEF Turned
<1>8. Waiting(t, pool, pend)
  BY <1>1, <1>5, <1>7 DEF Waiting
<1>9. ASSUME NEW i \in 1..Len(t), i < n + 1, t[i].ref.kind \in Queues
      PROVE  t[i].val = BaseOf(t[i].ref.kind, bytes, pool) + Turned(t, pend, i)
  <2>1. i \in 1..Len(s) /\ t[i].ref = s[i].ref /\ n \in Int
    BY <1>1
  <2>2. CASE i = n
    BY <1>2, <1>4, <1>7, <1>9, <2>1, <2>2 DEF Turned
  <2>3. CASE i # n
    BY <1>1, <1>5, <1>7, <1>9, <2>1, <2>3
  <2> QED BY <2>2, <2>3
<1>10. Filled'
  BY <1>1, <1>3, <1>9 DEF Filled, t
<1>11. strBytes' = Padded(Cell(pool.str, Len(pool.str)))'
  BY <1>3 DEF Pooled, Padded, Emitting
<1> QED BY <1>3, <1>8, <1>10, <1>11 DEF Pooled, t

(* Padding both counters before the pass; no operand is filled yet. *)
LEMMA PooledStart ==
  ASSUME IInv, Pooled, StartPatching PROVE Pooled'
<1>1. /\ phase = "code" /\ phase' = "patch" /\ strBytes' = Pad(strBytes) /\ rd.inst = 1
      /\ UNCHANGED <<insts, pool, pend, offsetOf, rd, constLit>>
  BY DEF StartPatching, IInv, Stages
<1>2. strBytes = Cell(pool.str, Len(pool.str)) % Word
  BY <1>1 DEF Pooled, Padded, Emitting
<1>3. strBytes' = Padded(Cell(pool.str, Len(pool.str)))'
  BY <1>1, <1>2 DEF Padded, Emitting
<1>4. Filled'
  BY <1>1 DEF Filled
<1> QED BY <1>1, <1>3, <1>4 DEF Pooled

(* Writing the module out, and the state after it. *)
LEMMA PooledClose ==
  ASSUME Pooled, Close \/ UNCHANGED cgVars PROVE Pooled'
<1>1. /\ UNCHANGED <<insts, bytes, pool, pend, offsetOf, rd, constLit, strBytes>>
      /\ Emitting' = Emitting
  BY DEF Close, cgVars, Emitting
<1>2. Filled'
  BY <1>1 DEF Pooled, Filled
<1> QED BY <1>1, <1>2 DEF Pooled, Padded

(* Nothing is pooled when the generator starts. *)
LEMMA PooledInit == Init => Pooled
<1> SUFFICES ASSUME Init PROVE Pooled
  OBVIOUS
<1>1. /\ insts = <<>> /\ Len(insts) = 0 /\ pool = [q \in Queues |-> <<>>] /\ strBytes = 0
      /\ offsetOf = <<>> /\ constLit = <<>> /\ phase = "globals"
  BY DEF Init
<1>2. DOMAIN offsetOf = {} /\ DOMAIN constLit = {}
  BY <1>1
<1>3. pool.str = <<>> /\ pool.str \in Seq(Nat) /\ Len(pool.str) = 0
  BY <1>1 DEF Queues
<1>4. Cell(pool.str, 0) = 0
  <2>1. Cells(pool.str) \in Seq(Nat) /\ Cell(pool.str, 0) = SumOf(Cells(pool.str), 0)
    BY <1>3, CellsAre, ZenonT(60)
  <2> QED BY <2>1, SumIs
<1>5. 0 % Word = 0
  BY WordAssumption, ModSmall
<1>6. strBytes = Padded(Cell(pool.str, Len(pool.str)))
  BY <1>1, <1>3, <1>4, <1>5 DEF Padded, Emitting
<1>7. Filled /\ Waiting(insts, pool, pend)
  BY <1>1 DEF Filled, Waiting
<1> QED BY <1>2, <1>3, <1>6, <1>7 DEF Pooled, Literals, Constants

(* Every step keeps the pools and the queues right. *)
LEMMA PooledStep == IInv /\ Pooled /\ [Next]_cgVars => Pooled'
<1>1. ASSUME IInv, Pooled, Next PROVE Pooled'
  BY <1>1, StepParts, PooledCode, PooledStart, PooledPass, PooledClose
<1> QED BY <1>1, PooledClose

(* In every state the generator reaches, the symbol map leads literals and constants
   to their own entries, and the queues hold, at the turn of each placeholder, the
   offset it is waiting for. *)
THEOREM AlwaysPooled == Spec => []Pooled
BY Inductive, PooledInit, PooledStep, PTL DEF Spec

(* A whole number of words. *)
LEMMA Eights ==
  ASSUME NEW m \in Nat PROVE (8 * m) % 8 = 0 /\ (8 * m) \div 8 = m
OBVIOUS

(* In the module that is written out every pooled operand addresses the cell of its
   own literal, in every program that fits the byte counters: its queue entry is the
   offset of that literal, and the base the pass adds is where its pool begins. *)
THEOREM LiteralsReach == Spec => []LiteralTargets
<1>1. IInv /\ Addressed /\ Pooled => LiteralTargets
  <2> SUFFICES ASSUME IInv, Addressed, Pooled, phase = "done", Fits, NEW i \in 1..Len(insts)
               PROVE  LET r     == insts[i].ref
                          ints  == 8 * Len(pool.int)
                          reals == 8 * Len(pool.real)
                          v     == insts[i].val - CodeEnd
                      IN  /\ r.kind = "int"  => v \in 0..(ints - 1) /\ v % 8 = 0
                                                /\ pool.int[(v \div 8) + 1] = r.of
                          /\ r.kind = "real" => v \in ints..(ints + reals - 1) /\ v % 8 = 0
                                                /\ pool.real[((v - ints) \div 8) + 1] = r.of
                          /\ r.kind = "str"  => v = ints + reals + StringCell(r.of)
    BY DEF LiteralTargets
  <2> DEFINE r  == insts[i].ref
             v  == insts[i].val
             a  == Len(pool.int)
             b  == Len(pool.real)
             c  == CodeEnd
             e  == Turned(insts, pend, i)
  <2>1. /\ insts \in Seq(Insts) /\ pool.str \in Seq(Nat)
        /\ pool.int \in Seq(Nat \cup IntLits \cup RealLits)
        /\ pool.real \in Seq(Nat \cup IntLits \cup RealLits)
    BY DEF IInv, TypeOK, Pooled, Queues
  <2>2. /\ a \in Nat /\ b \in Nat /\ Len(insts) \in Nat /\ Len(insts) + 1 \in 1..(Len(insts) + 1)
        /\ Len(pool.str) \in Nat
    BY <2>1
  <2>3. bytes = c /\ c \in Nat
    <3> DEFINE n == Address(Len(insts) + 1)
    <3>1. n \in Nat
      BY <2>1, <2>2, StartIs DEF Address
    <3>2. n + 8 <= Word /\ bytes = Pad(n % Word)
      BY DEF Fits, Addressed, Padded, Emitting, Address
    <3> HIDE DEF n
    <3>3. bytes = 8 * ((n + 7) \div 8)
      BY <3>1, <3>2, PadFits
    <3>4. 8 * ((n + 7) \div 8) \in Nat
      BY <3>1
    <3> QED BY <3>3, <3>4 DEF CodeEnd, n
  <2>4. i < rd.inst
    BY <2>1, <2>2 DEF Addressed
  <2>5. r.kind \in Queues => v = BaseOf(r.kind, bytes, pool) + e /\ Finds(r.kind, pool, r.of, e)
    BY <2>4 DEF Pooled, Filled, Waiting
  <2>6. ASSUME r.kind = "int"
        PROVE  /\ v - c \in 0..(8 * a - 1) /\ (v - c) % 8 = 0
               /\ pool.int[((v - c) \div 8) + 1] = r.of
    <3>1. v = c + e /\ Holds(pool.int, e, r.of)
      BY <2>3, <2>5, <2>6 DEF Finds, BaseOf, Queues
    <3>2. PICK m \in 0..(a - 1) : e = 8 * m /\ pool.int[m + 1] = r.of
      BY <3>1 DEF Holds
    <3> HIDE DEF r, v, a, c, e
    <3>3. m \in Nat /\ v - c = 8 * m /\ 8 * m \in 0..(8 * a - 1)
      BY <2>2, <2>3, <3>1, <3>2
    <3> QED BY <3>2, <3>3, Eights
  <2>7. ASSUME r.kind = "real"
        PROVE  /\ v - c \in (8 * a)..(8 * a + 8 * b - 1) /\ (v - c) % 8 = 0
               /\ pool.real[((v - c - 8 * a) \div 8) + 1] = r.of
    <3>1. v = (c + 8 * a) + e /\ Holds(pool.real, e, r.of)
      BY <2>3, <2>5, <2>7 DEF Finds, BaseOf, Queues
    <3>2. PICK m \in 0..(b - 1) : e = 8 * m /\ pool.real[m + 1] = r.of
      BY <3>1 DEF Holds
    <3> HIDE DEF r, v, a, b, c, e
    <3>3. /\ m \in Nat /\ a + m \in Nat /\ v - c = 8 * (a + m) /\ v - c - 8 * a = 8 * m
          /\ 8 * (a + m) \in (8 * a)..(8 * a + 8 * b - 1)
      BY <2>2, <2>3, <3>1, <3>2
    <3> QED BY <3>2, <3>3, Eights
  <2>8. ASSUME r.kind = "str" PROVE v - c = 8 * a + 8 * b + StringCell(r.of)
    <3> DEFINE x == Cell(pool.str, r.of)
               y == Cell(pool.str, Len(pool.str))
    <3>1. v = (c + 8 * a + 8 * b) + e /\ r.of \in 0..Len(pool.str) /\ e = x % Word
      BY <2>3, <2>5, <2>8 DEF Finds, BaseOf, Queues
    <3>2. x \in Nat /\ x <= y /\ y \in Nat
      <4> DEFINE p == pool.str
                 k == r.of
      <4>1. p \in Seq(Nat) /\ k \in 0..Len(p)
        BY <2>1, <3>1
      <4>2. x = Cell(p, k) /\ y = Cell(p, Len(p))
        OBVIOUS
      <4> HIDE DEF p, k, x, y
      <4> QED BY <4>1, <4>2, CellIs
    <3>3. y + 8 <= Word
      BY DEF Fits, StringCell
    <3> HIDE DEF x, y, r, v, a, b, c, e
    <3>4. x \in 0..(Word - 1)
      BY <3>2, <3>3, WordAssumption
    <3>5. e = x
      BY <3>1, <3>4, WordAssumption, ModSmall
    <3>6. v - c = 8 * a + 8 * b + x
      BY <2>2, <2>3, <3>1, <3>2, <3>5
    <3> QED BY <3>6 DEF x, StringCell
  <2> HIDE DEF v, a, b, c
  <2> QED BY <2>6, <2>7, <2>8 DEF v, a, b, c
<1> QED BY <1>1, Inductive, AlwaysAddressed, AlwaysPooled, PTL
=============================================================================
