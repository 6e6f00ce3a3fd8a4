----------------------------- MODULE Sm25Codegen -----------------------------
(***************************************************************************)
(* The SM25 code generator (src/src/sm25_codegen/sm25_code_generation.c)   *)
(* as a machine that emits instructions one construct at a time and then   *)
(* patches, in one pass, the operands it could not know when it emitted    *)
(* them.                                                                   *)
(*                                                                         *)
(* The C call stack of the recursive generator is the sequence `frames':   *)
(* one frame per function body and per if, if-else, for and repeat that is *)
(* being generated.  What the program is, is chosen while it is generated. *)
(* Expressions are flat runs of pushes; only the pushes whose operand is   *)
(* patched later are told apart, the others are one "LB" or one "L".       *)
(***************************************************************************)
EXTENDS Integers, Sequences, FiniteSets

CONSTANTS
  IntLits,          \* symbols of the integer literals above 65535
  RealLits,         \* symbols of the real literals
  Consts,           \* names of the global constants
  Funcs,            \* symbols of the declared functions
  StrLens,          \* lengths of the string literals that can be printed
  FillerOps,        \* bound: the opcodes used for pushes without a patch
  InitialCapacity,  \* ints calloc'ed for jump_addresses (16 in the code)
  Word,             \* inst_bytes and str_bytes are u16: 2^16 in the code
  MaxInsts,         \* bound: nothing optional is emitted from here on
  MaxFiller,        \* bound: no optional push without a patch from here on
  MaxNesting        \* bound: open constructs, the function body included

ASSUME CapacityAssumption == InitialCapacity \in Nat \ {0}
ASSUME WordAssumption == Word \in Nat \ {0}
ASSUME FillerAssumption == FillerOps \subseteq {"LB", "L"}
ASSUME StrLenAssumption == StrLens \subseteq Nat
ASSUME SymbolsDisjoint ==
  /\ IntLits \cap RealLits = {}
  /\ Consts \cap (IntLits \cup RealLits) = {}
  /\ Funcs \cap (Consts \cup IntLits \cup RealLits) = {}

VARIABLES
  phase,     \* which part of sm25_code_gen is running
  frames,    \* the recursive calls in progress, outermost first
  insts,     \* cdg->instructions
  bytes,     \* cdg->inst_bytes
  pool,      \* cdg->ints, cdg->reals and the lengths of cdg->strings
  strBytes,  \* cdg->str_bytes
  pend,      \* cdg->int_offsets, real_offsets and str_offsets
  offsetOf,  \* cdg->symbol_offset_map for literals, constants and functions
  calls,     \* cdg->func_calls
  jumps,     \* num_jumps, jump_offsets_capacity, the ints allocated, the table
  rd,        \* the cursors of codegen_update_addresses
  constLit,  \* the initialiser of each constant (from the semantic pass)
  land,      \* auxiliary: for a branch, by its index in insts, where it should land
  entry      \* auxiliary: for a function, the index of its first instruction

cgVars == <<phase, frames, insts, bytes, pool, strBytes, pend, offsetOf,
            calls, jumps, rd, constLit, land, entry>>

-----------------------------------------------------------------------------
(* Operands that are patched later (enum addresstypes). *)
AJUMP == -2
ASTR  == -3
AINT  == -5
AREAL == -7
AFUNC == -11

Queues == {"int", "real", "str"}
Kinds  == Queues \cup {"jump", "back", "call", "none"}
Ops    == {"LB", "L", "LA0", "LV0", "BF", "BR", "JS2", "STRPR", "HALT"}

(* ref is auxiliary: what the operand of the instruction stands for. *)
Inst(op, val, kind, of) ==
  [op |-> op, val |-> val, ref |-> [kind |-> kind, of |-> of]]
Plain(op) == Inst(op, 0, "none", 0)

Put(f, k, v) == [x \in DOMAIN f \cup {k} |-> IF x = k THEN v ELSE f[x]]

(* Bytes an instruction takes: push_instruction's switch on the opcode. *)
Width(inst) == CASE inst.op = "LB"              -> 2
                 [] inst.op \in {"LA0", "LV0"}  -> 5
                 [] OTHER                       -> 1

(* No operation pushes more than three instructions at once. *)
WidthAt(s, k) == IF k <= Len(s) THEN Width(s[k]) ELSE 0
After(s) == (bytes + WidthAt(s, 1) + WidthAt(s, 2) + WidthAt(s, 3)) % Word

Emit(s) == /\ insts' = insts \o s
           /\ bytes' = After(s)

Top        == frames[Len(frames)]
SetTop(f)  == [frames EXCEPT ![Len(frames)] = f]
Pop        == SubSeq(frames, 1, Len(frames) - 1)
InCode     == frames # <<>>
InBody     == InCode /\ Top.stage \in {"body", "then", "else"}
Started    == Len(insts) > Top.mark     \* the part being generated is not empty
Room       == Len(insts) < MaxInsts

(* at is auxiliary: the branch whose landing the frame still owes; begin too:
   the instruction a loop jumps back to. *)
Frame(kind, stage, slot, top, mark, at, begin) ==
  [kind |-> kind, stage |-> stage, slot |-> slot, top |-> top, mark |-> mark,
   at |-> at, begin |-> begin]

(* Mutation: realloc takes the old capacity, not the number of jumps, as size. *)
MutAnchored(t, slot, byte) ==
  LET grow == slot >= t.cap
      size == IF grow THEN t.cap * 2 ELSE t.alloc
  IN  [num   |-> t.num,
       cap   |-> IF grow THEN t.cap * 2 ELSE t.cap,
       alloc |-> size,
       adr   |-> Put([s \in DOMAIN t.adr \cap 0..(size - 1) |-> t.adr[s]],
                    slot, byte)]

(* anchor_jump: the table grows when the index is past the capacity. *)
Anchored(t, slot, byte) ==
  LET grow == slot >= t.cap
      size == IF grow THEN t.num * 2 ELSE t.alloc
  IN  [num   |-> t.num,
       cap   |-> IF grow THEN t.cap * 2 ELSE t.cap,
       alloc |-> size,
       adr   |-> Put([s \in DOMAIN t.adr \cap 0..(size - 1) |-> t.adr[s]],
                    slot, byte)]

LandHere(at, n, byte) ==
  land' = Put(land, at, [inst |-> n, byte |-> byte])
-----------------------------------------------------------------------------
Init ==
  /\ phase = "globals" /\ frames = <<>> /\ insts = <<>> /\ bytes = 0
  /\ pool = [q \in Queues |-> <<>>]
  /\ pend = [q \in Queues |-> <<>>]
  /\ strBytes = 0 /\ calls = <<>>
  /\ offsetOf = <<>> /\ constLit = <<>>
  /\ jumps = [num |-> 0, cap |-> InitialCapacity, alloc |-> InitialCapacity,
              adr |-> <<>>]
  /\ rd = [inst |-> 1, jump |-> 0, int |-> 0, real |-> 0, str |-> 0]
  /\ land = <<>> /\ entry = <<>>

(* codegen_init: a constant initialised with a literal gets a pool entry of
   its own, under the constant's name. *)
DeclareConst(c, l) ==
  LET q == IF l \in IntLits THEN "int" ELSE "real" IN
  /\ phase = "globals" /\ c \notin DOMAIN constLit
  /\ pool' = [pool EXCEPT ![q] = Append(@, l)]
  /\ offsetOf' = Put(offsetOf, c, 8 * Len(pool[q]))
  /\ constLit' = Put(constLit, c, l)
  /\ UNCHANGED <<phase, frames, insts, bytes, strBytes, pend, calls, jumps, rd,
                 land, entry>>

StartMain ==
  /\ phase = "globals" /\ phase' = "code"
  /\ frames' = <<Frame("main", "body", 0, 0, 0, 0, 0)>>
  /\ UNCHANGED <<insts, bytes, pool, strBytes, pend, offsetOf, calls, jumps, rd,
                 constLit, land, entry>>

(* A push or a statement with nothing to patch. *)
EmitPlain(op) ==
  /\ InCode /\ (~Started \/ Len(insts) < MaxFiller)
  /\ Emit(<<Plain(op)>>)
  /\ UNCHANGED <<phase, frames, pool, strBytes, pend, offsetOf, calls, jumps, rd,
                 constLit, land, entry>>

(* Mutation: num_ints is counted only after the offset was taken from it, so the
   entry points one cell too low. *)
MutPushLiteral(l) ==
  LET q    == IF l \in IntLits THEN "int" ELSE "real"
      mark == IF l \in IntLits THEN AINT ELSE AREAL
      off  == IF l \in DOMAIN offsetOf THEN offsetOf[l] ELSE 8 * (Len(pool[q]) - 1)
  IN
  /\ InCode /\ Room
  /\ Emit(<<Inst("LV0", mark, q, l)>>)
  /\ pend' = [pend EXCEPT ![q] = Append(@, off)]
  /\ IF l \in DOMAIN offsetOf
     THEN UNCHANGED <<pool, offsetOf>>
     ELSE /\ pool' = [pool EXCEPT ![q] = Append(@, l)]
          /\ offsetOf' = Put(offsetOf, l, off)
  /\ UNCHANGED <<phase, frames, strBytes, calls, jumps, rd, constLit, land, entry>>

(* codegen_numeric_push on NILIT above 65535 and on NFLIT: one pool entry per
   symbol, one queue entry per use. *)
PushLiteral(l) ==
  LET q    == IF l \in IntLits THEN "int" ELSE "real"
      mark == IF l \in IntLits THEN AINT ELSE AREAL
      off  == IF l \in DOMAIN offsetOf THEN offsetOf[l] ELSE 8 * Len(pool[q])
  IN
  /\ InCode /\ Room
  /\ Emit(<<Inst("LV0", mark, q, l)>>)
  /\ pend' = [pend EXCEPT ![q] = Append(@, off)]
  /\ IF l \in DOMAIN offsetOf
     THEN UNCHANGED <<pool, offsetOf>>
     ELSE /\ pool' = [pool EXCEPT ![q] = Append(@, l)]
          /\ offsetOf' = Put(offsetOf, l, off)
  /\ UNCHANGED <<phase, frames, strBytes, calls, jumps, rd, constLit, land, entry>>

(* Mutation: the offset of a constant is not queued when it is used. *)
MutPushConst(c) ==
  /\ InCode /\ Room
  /\ IF constLit[c] \in IntLits
     THEN Emit(<<Inst("LV0", AINT, "int", constLit[c])>>)
     ELSE Emit(<<Inst("LV0", AREAL, "real", constLit[c])>>)
  /\ UNCHANGED <<phase, frames, pool, strBytes, pend, offsetOf, calls, jumps, rd,
                 constLit, land, entry>>

(* codegen_var_push on a global constant: the queue is chosen by its type. *)
PushConst(c) ==
  LET q    == IF constLit[c] \in IntLits THEN "int" ELSE "real"
      mark == IF constLit[c] \in IntLits THEN AINT ELSE AREAL
  IN
  /\ InCode /\ Room
  /\ Emit(<<Inst("LV0", mark, q, constLit[c])>>)
  /\ pend' = [pend EXCEPT ![q] = Append(@, offsetOf[c])]
  /\ UNCHANGED <<phase, frames, pool, strBytes, offsetOf, calls, jumps, rd,
                 constLit, land, entry>>

(* codegen_printitem on a string: never shared, a byte for the terminator. *)
PrintString(n) ==
  /\ InBody /\ Room
  /\ Emit(<<Inst("LA0", ASTR, "str", Len(pool.str)), Plain("STRPR")>>)
  /\ pool' = [pool EXCEPT !.str = Append(@, n)]
  /\ pend' = [pend EXCEPT !.str = Append(@, strBytes)]
  /\ strBytes' = (strBytes + n + 1) % Word
  /\ UNCHANGED <<phase, frames, offsetOf, calls, jumps, rd, constLit, land, entry>>

(* Mutation: calls are numbered from zero. *)
MutCall(f) ==
  /\ InCode /\ Room
  /\ Emit(<<Plain("LB"), Inst("LA0", AFUNC * Len(calls), "call", f), Plain("JS2")>>)
  /\ calls' = Append(calls, f)
  /\ UNCHANGED <<phase, frames, pool, strBytes, pend, offsetOf, jumps, rd,
                 constLit, land, entry>>

(* codegen_callstat: the call is numbered after its parameters were pushed; the
   number of parameters takes one push. *)
Call(f) ==
  /\ InCode /\ Room
  /\ Emit(<<Plain("LB"), Inst("LA0", AFUNC * (Len(calls) + 1), "call", f),
            Plain("JS2")>>)
  /\ calls' = Append(calls, f)
  /\ UNCHANGED <<phase, frames, pool, strBytes, pend, offsetOf, jumps, rd,
                 constLit, land, entry>>
-----------------------------------------------------------------------------
CanOpen == InBody /\ Room /\ Len(frames) < MaxNesting

(* codegen_if and codegen_ifelse up to the condition. *)
OpenBranch(kind) ==
  /\ CanOpen
  /\ Emit(<<Inst("LA0", AJUMP, "jump", 0)>>)
  /\ frames' = Append(frames, Frame(kind, "cond", jumps.num, 0, Len(insts) + 1,
                                    Len(insts) + 1, 0))
  /\ jumps' = [jumps EXCEPT !.num = @ + 1]
  /\ UNCHANGED <<phase, pool, strBytes, pend, offsetOf, calls, rd, constLit, land, entry>>

(* codegen_for up to the condition; its assignments were emitted before. *)
OpenFor ==
  /\ CanOpen
  /\ Emit(<<Inst("LA0", AJUMP, "jump", 0)>>)
  /\ frames' = Append(frames,
                      Frame("for", "cond", jumps.num, bytes, Len(insts) + 1,
                            Len(insts) + 1, Len(insts) + 1))
  /\ jumps' = [jumps EXCEPT !.num = @ + 1]
  /\ UNCHANGED <<phase, pool, strBytes, pend, offsetOf, calls, rd, constLit, land,
                 entry>>

OpenRepeat ==
  /\ CanOpen
  /\ frames' = Append(frames, Frame("repeat", "body", 0, bytes, Len(insts), 0,
                                    Len(insts) + 1))
  /\ UNCHANGED <<phase, insts, bytes, pool, strBytes, pend, offsetOf, calls, jumps,
                 rd, constLit, land, entry>>

(* The BF between the condition and the part it guards. *)
BranchFalse ==
  /\ InCode /\ Top.stage = "cond" /\ Started
  /\ Emit(<<Plain("BF")>>)
  /\ frames' = SetTop([Top EXCEPT
                 !.stage = IF Top.kind = "ifelse" THEN "then" ELSE "body",
                 !.mark  = Len(insts) + 1])
  /\ UNCHANGED <<phase, pool, strBytes, pend, offsetOf, calls, jumps, rd, constLit,
                 land, entry>>

(* Mutation: the first branch is anchored before the jump over the else part. *)
MutElseEarly ==
  LET s == <<Inst("LA0", AJUMP, "jump", 0), Plain("BR")>> IN
  /\ InCode /\ Top.stage = "then" /\ Started
  /\ Emit(s)
  /\ LandHere(Top.at, Len(insts) + 3, bytes)
  /\ jumps' = [Anchored(jumps, Top.slot, bytes) EXCEPT !.num = @ + 1]
  /\ frames' = SetTop([Top EXCEPT !.stage = "else", !.slot = jumps.num,
                               !.at = Len(insts) + 1, !.mark = Len(insts) + 2])
  /\ UNCHANGED <<phase, pool, strBytes, pend, offsetOf, calls, rd, constLit, entry>>

(* Mutation: the else part goes on with the slot of the then part. *)
MutElseSameSlot ==
  LET s == <<Inst("LA0", AJUMP, "jump", 0), Plain("BR")>> IN
  /\ InCode /\ Top.stage = "then" /\ Started
  /\ Emit(s)
  /\ LandHere(Top.at, Len(insts) + 3, After(s))
  /\ jumps' = [Anchored(jumps, Top.slot, After(s)) EXCEPT !.num = @ + 1]
  /\ frames' = SetTop([Top EXCEPT !.stage = "else",
                               !.at = Len(insts) + 1, !.mark = Len(insts) + 2])
  /\ UNCHANGED <<phase, pool, strBytes, pend, offsetOf, calls, rd, constLit, entry>>

(* Mutation: the first branch of an if-else is never anchored. *)
MutElseUnanchored ==
  LET s == <<Inst("LA0", AJUMP, "jump", 0), Plain("BR")>> IN
  /\ InCode /\ Top.stage = "then" /\ Started
  /\ Emit(s)
  /\ LandHere(Top.at, Len(insts) + 3, After(s))
  /\ jumps' = [jumps EXCEPT !.num = @ + 1]
  /\ frames' = SetTop([Top EXCEPT !.stage = "else", !.slot = jumps.num,
                               !.at = Len(insts) + 1, !.mark = Len(insts) + 2])
  /\ UNCHANGED <<phase, pool, strBytes, pend, offsetOf, calls, rd, constLit, entry>>

(* codegen_ifelse between its two parts: the jump over the else part is pushed,
   the first slot is anchored, and only then is the second slot taken. *)
Else ==
  LET s == <<Inst("LA0", AJUMP, "jump", 0), Plain("BR")>> IN
  /\ InCode /\ Top.stage = "then" /\ Started
  /\ Emit(s)
  /\ LandHere(Top.at, Len(insts) + 3, After(s))
  /\ jumps' = [Anchored(jumps, Top.slot, After(s)) EXCEPT !.num = @ + 1]
  /\ frames' = SetTop([Top EXCEPT !.stage = "else", !.slot = jumps.num,
                               !.at = Len(insts) + 1, !.mark = Len(insts) + 2])
  /\ UNCHANGED <<phase, pool, strBytes, pend, offsetOf, calls, rd, constLit, entry>>

(* Mutation: the branch anchored at the end is the youngest, not the own one. *)
MutCloseIf ==
  /\ InCode /\ Started
  /\ \/ Top.kind = "if" /\ Top.stage = "body"
     \/ Top.kind = "ifelse" /\ Top.stage = "else"
  /\ LandHere(Top.at, Len(insts) + 1, bytes)
  /\ jumps' = Anchored(jumps, jumps.num - 1, bytes)
  /\ frames' = Pop
  /\ UNCHANGED <<phase, insts, bytes, pool, strBytes, pend, offsetOf, calls, rd,
                 constLit, entry>>

CloseIf ==
  /\ InCode /\ Started
  /\ \/ Top.kind = "if" /\ Top.stage = "body"
     \/ Top.kind = "ifelse" /\ Top.stage = "else"
  /\ LandHere(Top.at, Len(insts) + 1, bytes)
  /\ jumps' = Anchored(jumps, Top.slot, bytes)
  /\ frames' = Pop
  /\ UNCHANGED <<phase, insts, bytes, pool, strBytes, pend, offsetOf, calls, rd,
                 constLit, entry>>

CloseFor ==
  LET s == <<Inst("LA0", Top.top, "back", Top.begin), Plain("BR")>> IN
  /\ InCode /\ Top.kind = "for" /\ Top.stage = "body" /\ Started
  /\ Emit(s)
  /\ LandHere(Top.at, Len(insts) + 3, After(s))
  /\ jumps' = Anchored(jumps, Top.slot, After(s))
  /\ frames' = Pop
  /\ UNCHANGED <<phase, pool, strBytes, pend, offsetOf, calls, rd, constLit, entry>>

RepeatUntil ==
  /\ InCode /\ Top.kind = "repeat" /\ Top.stage = "body" /\ Started
  /\ Emit(<<Inst("LA0", Top.top, "back", Top.begin)>>)
  /\ frames' = SetTop([Top EXCEPT !.stage = "until", !.mark = Len(insts) + 1])
  /\ UNCHANGED <<phase, pool, strBytes, pend, offsetOf, calls, jumps, rd, constLit,
                 land, entry>>

CloseRepeat ==
  /\ InCode /\ Top.stage = "until" /\ Started
  /\ Emit(<<Plain("BF")>>)
  /\ frames' = Pop
  /\ UNCHANGED <<phase, pool, strBytes, pend, offsetOf, calls, jumps, rd, constLit,
                 land, entry>>

(* sm25_code_gen: main ends with HALT, the functions follow. *)
EndMain ==
  /\ InCode /\ Top.kind = "main" /\ Started
  /\ Emit(<<Plain("HALT")>>)
  /\ frames' = <<>>
  /\ UNCHANGED <<phase, pool, strBytes, pend, offsetOf, calls, jumps, rd, constLit,
                 land, entry>>

(* codegen_func records where the function starts. *)
StartFunc(f) ==
  /\ phase = "code" /\ frames = <<>> /\ f \notin DOMAIN offsetOf
  /\ offsetOf' = Put(offsetOf, f, bytes)
  /\ frames' = <<Frame("func", "body", 0, 0, Len(insts), 0, 0)>>
  /\ entry' = Put(entry, f, Len(insts) + 1)
  /\ UNCHANGED <<phase, insts, bytes, pool, strBytes, pend, calls, jumps, rd, constLit, land>>

EndFunc ==
  /\ InCode /\ Top.kind = "func" /\ Started
  /\ frames' = <<>>
  /\ UNCHANGED <<phase, insts, bytes, pool, strBytes, pend, offsetOf, calls, jumps,
                 rd, constLit, land, entry>>

(* Both counters are padded to a whole number of 8-byte words. *)
Pad(n) == IF n % 8 = 0 THEN n ELSE (n + (8 - (n % 8))) % Word

StartPatching ==
  /\ phase = "code" /\ frames = <<>> /\ Funcs \subseteq DOMAIN offsetOf
  /\ phase' = "patch"
  /\ bytes' = Pad(bytes) /\ strBytes' = Pad(strBytes)
  /\ UNCHANGED <<frames, insts, pool, pend, offsetOf, calls, jumps, rd, constLit,
                 land, entry>>
-----------------------------------------------------------------------------
(* codegen_update_addresses, one instruction per step. *)
Patching == phase = "patch" /\ rd.inst <= Len(insts)
Cur      == insts[rd.inst]
Patch(v) == insts' = [insts EXCEPT ![rd.inst].val = v]
PatchOnly == UNCHANGED <<phase, frames, bytes, pool, strBytes, pend, offsetOf, calls,
                         jumps, constLit, land, entry>>

(* Mutation: the strings are taken to follow the integers. *)
MutBase(q) == CASE q = "int"  -> bytes
                [] q = "real" -> bytes + 8 * Len(pool.int)
                [] q = "str"  -> bytes + 8 * Len(pool.int)

Base(q) == CASE q = "int"  -> bytes
             [] q = "real" -> bytes + 8 * Len(pool.int)
             [] q = "str"  -> bytes + 8 * Len(pool.int) + 8 * Len(pool.real)

(* The value that marks an operand to be taken from queue q, and its opcode. *)
Marks(inst, q) == CASE q = "int"  -> inst.op = "LV0" /\ inst.val = AINT
                    [] q = "real" -> inst.op = "LV0" /\ inst.val = AREAL
                    [] q = "str"  -> inst.op = "LA0" /\ inst.val = ASTR

PatchQueued(q) ==
  /\ Patching /\ Marks(Cur, q) /\ rd[q] < Len(pend[q])
  /\ Patch(Base(q) + pend[q][rd[q] + 1])
  /\ rd' = [rd EXCEPT ![q] = @ + 1, !.inst = @ + 1]
  /\ PatchOnly

(* A slot nobody anchored holds whatever realloc left there. *)
Garbage == -1
PatchJump ==
  /\ Patching /\ Cur.op = "LA0" /\ Cur.val = AJUMP
  /\ Patch(IF rd.jump \in DOMAIN jumps.adr THEN jumps.adr[rd.jump] ELSE Garbage)
  /\ rd' = [rd EXCEPT !.jump = @ + 1, !.inst = @ + 1]
  /\ PatchOnly

(* Every other negative operand is AFUNC times the number of the call. *)
PatchCall ==
  /\ Patching /\ Cur.op = "LA0" /\ Cur.val < 0
  /\ Cur.val \notin {AINT, AREAL, ASTR, AJUMP}
  /\ Patch(offsetOf[calls[(-Cur.val) \div (-AFUNC)]])
  /\ rd' = [rd EXCEPT !.inst = @ + 1]
  /\ PatchOnly

PatchNothing ==
  /\ Patching /\ (Cur.op \notin {"LA0", "LV0"} \/ Cur.val >= 0)
  /\ rd' = [rd EXCEPT !.inst = @ + 1]
  /\ UNCHANGED insts /\ PatchOnly

(* codegen_close writes the module out. *)
Close ==
  /\ phase = "patch" /\ rd.inst = Len(insts) + 1
  /\ phase' = "done"
  /\ UNCHANGED <<frames, insts, bytes, pool, strBytes, pend, offsetOf, calls, jumps,
                 rd, constLit, land, entry>>

Done == phase = "done" /\ UNCHANGED cgVars
-----------------------------------------------------------------------------
Next ==
  \/ \E c \in Consts, l \in IntLits \cup RealLits : DeclareConst(c, l)
  \/ StartMain
  \/ \E op \in FillerOps : EmitPlain(op)
  \/ \E l \in IntLits \cup RealLits : PushLiteral(l)
  \/ \E c \in DOMAIN constLit : PushConst(c)
  \/ \E n \in StrLens : PrintString(n)
  \/ \E f \in Funcs : Call(f)
  \/ \E kind \in {"if", "ifelse"} : OpenBranch(kind)
  \/ OpenFor \/ OpenRepeat \/ BranchFalse \/ Else
  \/ CloseIf \/ CloseFor \/ RepeatUntil \/ CloseRepeat
  \/ EndMain \/ EndFunc
  \/ \E f \in Funcs : StartFunc(f)
  \/ StartPatching
  \/ \E q \in Queues : PatchQueued(q)
  \/ PatchJump \/ PatchCall \/ PatchNothing
  \/ Close \/ Done

Spec == Init /\ [][Next]_cgVars
-----------------------------------------------------------------------------
Frames == [kind: {"main", "func", "if", "ifelse", "for", "repeat"},
           stage: {"cond", "body", "then", "else", "until"},
           slot: Nat, top: 0..(Word - 1), mark: Nat, at: Nat, begin: Nat]
Symbols == IntLits \cup RealLits \cup Funcs
Refs   == [kind: Kinds, of: Nat \cup Symbols]
Insts  == [op: Ops, val: Int, ref: Refs]

(* The type of every variable of the generator: the byte counters stay u16,
   the queues hold offsets, and the jump table has a slot per branch taken. *)
TypeOK ==
  /\ phase \in {"globals", "code", "patch", "done"}
  /\ frames \in Seq(Frames)
  /\ insts \in Seq(Insts)
  /\ bytes \in 0..(Word - 1) /\ strBytes \in 0..(Word - 1)
  /\ pool \in [Queues -> Seq(Nat \cup IntLits \cup RealLits)]
  /\ pend \in [Queues -> Seq(Nat)]
  /\ calls \in Seq(Funcs)
  /\ DOMAIN offsetOf \subseteq Consts \cup Symbols
  /\ \A s \in DOMAIN offsetOf : offsetOf[s] \in Nat
  /\ DOMAIN constLit \subseteq Consts \cap DOMAIN offsetOf
  /\ \A c \in DOMAIN constLit : constLit[c] \in IntLits \cup RealLits
  /\ jumps.num \in Nat /\ jumps.cap \in Nat /\ jumps.alloc \in Nat
  /\ \A s \in DOMAIN jumps.adr : jumps.adr[s] \in 0..(Word - 1)
  /\ rd \in [{"inst", "jump", "int", "real", "str"} -> Nat]
  /\ \A i \in DOMAIN land : i \in Nat /\ land[i] \in [inst: Nat, byte: 0..(Word - 1)]
  /\ \A f \in DOMAIN entry : f \in Funcs /\ entry[f] \in Nat

(* How many operands of one kind were pushed before instruction i of s: the
   turn at which the patching pass meets it. *)
Placed(s, i, kind) == {j \in 1..(i - 1) : s[j].ref.kind = kind}
Before(s, i, kind) == Cardinality(Placed(s, i, kind))

(* anchor_jump never writes past the ints that realloc obtained, however deep
   the constructs nest: the inner slot is written first, the capacity only
   doubles, and the allocation follows the number of jumps (780-786). *)
JumpTableInBounds ==
  /\ jumps.cap <= jumps.alloc
  /\ DOMAIN jumps.adr \subseteq 0..(jumps.alloc - 1)

(* The queues and the jump table are consumed in the order the placeholders
   lie in the instruction list: before each step of the pass every cursor
   stands at the entry made for the next placeholder of its kind, and each list
   is as long as there are placeholders for it (1035-1094). *)
PassInStep ==
  phase \in {"patch", "done"} =>
    /\ \A q \in Queues : rd[q] = Before(insts, rd.inst, q)
    /\ rd.jump = Before(insts, rd.inst, "jump")
    /\ \A q \in Queues : Before(insts, Len(insts) + 1, q) = Len(pend[q])
    /\ Before(insts, Len(insts) + 1, "jump") = jumps.num

(* When the pass starts every slot handed out has been anchored: no branch is
   patched with memory that realloc left uninitialised. *)
EverySlotAnchored == phase = "patch" => DOMAIN jumps.adr = 0..(jumps.num - 1)

(* The patched operand of a branch is the address its own construct anchored
   for it, although slots are taken when constructs open, written when they
   close, and read back in instruction order. *)
BranchesLand ==
  \A i \in 1..Len(insts) :
    insts[i].ref.kind = "jump" /\ i < rd.inst =>
      i \in DOMAIN land /\ insts[i].val = land[i].byte

(* A slot keeps the address it was anchored with: growing the table loses
   nothing, and no construct writes the slot of another. *)
AnchoredOnce ==
  [][\A s \in DOMAIN jumps.adr : s \in DOMAIN jumps'.adr
                                  /\ jumps'.adr[s] = jumps.adr[s]]_jumps
-----------------------------------------------------------------------------
(* The first k of the numbers of a sequence added up. *)
SumOf(w, k) ==
  LET sum[j \in 0..Len(w)] == IF j = 0 THEN 0 ELSE sum[j - 1] + w[j]
  IN  sum[k]

(* Where instruction i of the list s starts, and here in the code that is
   written out; and where string k starts among the strings. *)
Start(s, i) == SumOf([j \in 1..Len(s) |-> Width(s[j])], i - 1)
Cell(lens, k) == SumOf([j \in 1..Len(lens) |-> lens[j] + 1], k)
Address(i)  == Start(insts, i)
StringCell(k) == Cell(pool.str, k)

(* The program fits the two 16-bit byte counters, padding included. *)
Fits == /\ Address(Len(insts) + 1) + 8 <= Word
        /\ StringCell(Len(pool.str)) + 8 <= Word

(* For a program that fits the 16-bit counter, what every branch reaches in the
   module that is written out is the instruction its construct means: the one
   behind the part that is skipped, or the one a loop starts with. *)
BranchTargets ==
  phase = "done" /\ Fits =>
    \A i \in 1..Len(insts) :
      /\ insts[i].ref.kind = "jump" => insts[i].val = Address(land[i].inst)
      /\ insts[i].ref.kind = "back" => insts[i].val = Address(insts[i].ref.of)

(* A call reaches the first instruction of the function it names, also when it
   was emitted before that function, as main's calls always are (1077-1088). *)
CallTargets ==
  phase = "done" /\ Fits =>
    \A i \in 1..Len(insts) :
      insts[i].ref.kind = "call" => insts[i].val = Address(entry[insts[i].ref.of])

(* A pooled operand addresses the cell of its own literal: the three pools lie
   one after the other behind the padded code, and the offsets queued while
   pools were still growing remain right (1045-1073). *)
CodeEnd == 8 * ((Address(Len(insts) + 1) + 7) \div 8)
LiteralTargets ==
  phase = "done" /\ Fits =>
    \A i \in 1..Len(insts) :
      LET r     == insts[i].ref
          ints  == 8 * Len(pool.int)
          reals == 8 * Len(pool.real)
          v     == insts[i].val - CodeEnd
      IN  /\ r.kind = "int"  => v \in 0..(ints - 1) /\ v % 8 = 0
                                /\ pool.int[(v \div 8) + 1] = r.of
          /\ r.kind = "real" => v \in ints..(ints + reals - 1) /\ v % 8 = 0
                                /\ pool.real[((v - ints) \div 8) + 1] = r.of
          /\ r.kind = "str"  => v = ints + reals + StringCell(r.of)
=============================================================================
