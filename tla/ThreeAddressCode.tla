-------------------------- MODULE ThreeAddressCode --------------------------
(***************************************************************************)
(* The generator of three-address code (src/src/threeaddresscode.c).       *)
(* `frames` is the C call stack of the recursive generator: one frame per  *)
(* function, statement and operator being generated.  The program is       *)
(* chosen while it is generated; a frame's `want` is what may come next.   *)
(* Operators of one kind are one operation, ADDI, ADDF, GTI, GTF or AND.   *)
(***************************************************************************)
EXTENDS Integers, Sequences, FiniteSets, SequencesExt

CONSTANTS
  Funcs,      \* names of the functions besides main
  Programs,   \* bound: a program is made of the constructs in one of these sets
  IntLits,    \* values of the integer literals
  RealLits,   \* values of the real literals, in units below Quantum
  Quantum,    \* 0.0001 in the units of RealLits
  MaxLines,   \* bound: nothing optional is generated from here on
  MaxNesting  \* bound: frames at once

ASSUME LiteralsAssumption == IntLits \subseteq Nat /\ RealLits \subseteq Nat
                             /\ Quantum \in Nat \ {0}
ASSUME NamesAssumption == "main" \notin Funcs

VARIABLES
  phase,      \* "globals", "code" or "done": the part of tac_from_ast
  frames,     \* the calls in progress, outermost first
  ts,         \* the T_S: lines, pools, pools' maps, counters, const_map
  uses,       \* auxiliary: the constructs of this program
  sigs,       \* parameters and result of each function (from the semantic pass)
  begun,      \* auxiliary: the functions whose generation has begun
  land        \* auxiliary: for a branch, by its line, the line it should reach

tacVars == <<phase, frames, ts, uses, sigs, begun, land>>

-----------------------------------------------------------------------------
(* An Adr.  ty and val are auxiliary: the type of what is there, and the
   literal it should be. *)
Adr(type, n, ty, val) == [type |-> type, n |-> n, ty |-> ty, val |-> val]
Blank == Adr("EMPTY", 0, "none", 0)

(* ref is auxiliary: of a PARAM, its call and its place in it; of a call, its own. *)
Line(op, left, middle, right) ==
  [op |-> op, left |-> left, middle |-> middle, right |-> right, ref |-> <<>>]
Binary(op, left, right) == Line(op, left, Blank, right)
Unary(op, left)         == Line(op, left, Blank, Blank)

(* append_line; mktmp; mklabel. *)
Emit(t, lines) == [t EXCEPT !.lines = @ \o lines]
Tmp(t, ty)     == Adr("TMP", t.tmp, ty, 0)
TookTmp(t)     == [t EXCEPT !.tmp = @ + 1]
Label(n)       == Adr("LABEL", n, "none", 0)

(* What tells two literals apart: for reals, quantise_double. *)
KeyOf(q, v)  == IF q = "real" THEN v \div Quantum ELSE v
LitType(q)   == CASE q = "int" -> "ILIT" [] q = "real" -> "FLIT" [] q = "str" -> "STR"

(* A map with one more entry.  hashmap_add would put a second entry of a key
   behind the first; every key that is added here is new. *)
Put(f, x, y) == [z \in DOMAIN f \cup {x} |-> IF z = x THEN y ELSE f[z]]

(* Mutation: a literal that is new is not entered in the map of seen ones. *)
MutIntern(t, q, v) ==
  IF KeyOf(q, v) \in DOMAIN t.seen[q] THEN t
  ELSE [t EXCEPT !.pool[q]  = Append(@, v),
                 !.seen[q]  = Put(@, KeyOf(q, v), t.count[q] + 1),
                 !.count[q] = @ + 1]

(* adr_of_int, adr_of_double and adr_of_sds: one entry per literal. *)
Intern(t, q, v) ==
  IF KeyOf(q, v) \in DOMAIN t.seen[q] THEN t
  ELSE [t EXCEPT !.pool[q]  = Append(@, v),
                 !.seen[q]  = Put(@, KeyOf(q, v), t.count[q]),
                 !.count[q] = @ + 1]
AdrOf(t, q, v) ==
  Adr(LitType(q), Intern(t, q, v).seen[q][KeyOf(q, v)], q, v)

-----------------------------------------------------------------------------
(* The data of the programs: locals of main and of a function, the one struct
   and the one array of the program, the signatures a function may have. *)
Fields     == <<"int", "real", "bool">>
StructSize == 8 * Len(Fields)
Locals     == <<"int", "real", "bool">>
Signatures == {[pars |-> <<"int">>, ret |-> "real"],
               [pars |-> <<"real", "int">>, ret |-> "int"],
               [pars |-> <<"ptr", "real">>, ret |-> "none"]}

(* A frame waits for what `want` says: statements, an operand of a type, the
   place of an element, or nothing ("step").  tys are the operands it needs,
   adrs those it has.  owe and begin are auxiliary: the branch whose landing is
   not there yet, and where a loop began. *)
Frame(k, tys, adrs) ==
  [k |-> k, tys |-> tys, adrs |-> adrs, ty |-> "none", out |-> Blank, labs |-> <<>>,
   want |-> IF Len(adrs) < Len(tys) THEN tys[Len(adrs) + 1] ELSE "stats",
   some |-> FALSE, owe |-> 0, begin |-> 0, name |-> "none", field |-> 0,
   call |-> <<>>]

InCode     == frames # <<>>
Top        == Last(frames)
SetTop(f)  == [frames EXCEPT ![Len(frames)] = f]
Room       == Len(ts.lines) < MaxLines /\ Len(frames) < MaxNesting
Uses(c)    == c \in uses
Stats      == InCode /\ Top.want = "stats"
Ready(k)   == InCode /\ Top.k = k /\ Top.want = "step"
Here       == Len(ts.lines) + 1
HasLocals  == frames[1].name = "main" \/ Uses("locals")
Pars       == IF frames[1].name = "main" THEN <<>> ELSE sigs[frames[1].name].pars

Ops2 == {"arith", "relop", "not", "logic"}

(* The frame on top gets an operand, and asks for the next. *)
Given(fs, adr) ==
  LET f == Last(fs)
      n == Len(f.adrs) + 1
  IN  [fs EXCEPT ![Len(fs)] =
         [f EXCEPT !.adrs = Append(@, adr),
                   !.want = IF n < Len(f.tys) /\ f.k \notin Ops2 THEN f.tys[n + 1]
                            ELSE "step"]]

Give(t, adr)   == ts' = t /\ frames' = Given(frames, adr)
Return(t, adr) == ts' = t /\ frames' = Given(Front(frames), adr)
Open(t, f)     == ts' = t /\ frames' = Append(frames, f)
Begin(t, f)    == ts' = t /\ frames' = Append(SetTop([Top EXCEPT !.some = TRUE]), f)
Whole(t)       == ts' = t /\ frames' = SetTop([Top EXCEPT !.some = TRUE])
EndStat(t)     == ts' = t /\ frames' = Front(frames)
Rest           == UNCHANGED <<phase, uses, sigs, begun, land>>
-----------------------------------------------------------------------------
Init ==
  /\ phase = "globals" /\ frames = <<>> /\ begun = {} /\ land = <<>>
  /\ uses \in Programs
  /\ sigs \in [Funcs -> IF uses \cap {"call", "fncall", "param", "return"} = {}
                         THEN {CHOOSE s \in Signatures : s.ret = "none"} ELSE Signatures]
  /\ ts = [lines |-> <<>>, tmp |-> 0, label |-> 0, consts |-> <<>>,
           pool  |-> [q \in {"int", "real", "str"} |-> <<>>],
           seen  |-> [q \in {"int", "real", "str"} |-> <<>>],
           count |-> [q \in {"int", "real", "str"} |-> 0]]

(* tac_gen_init: the value goes to the pool of the integers in either case, the
   number is taken from the counter of its own kind.  A constant is known by its
   value and kind. *)
DeclareConst(q, v) ==
  /\ phase = "globals" /\ Uses(q \o "const") /\ <<q, v>> \notin DOMAIN ts.consts
  /\ ts' = [ts EXCEPT !.pool.int = Append(@, v),
                      !.consts   = Put(@, <<q, v>>, ts.count[q]),
                      !.count[q] = @ + 1]
  /\ UNCHANGED <<frames, phase, uses, sigs, begun, land>>

(* tac_gen_func_locals, tac_gen_slist and tac_gen_sdecl: offsets in order of
   declaration, every variable set to zero or false. *)
Declared(t, i) ==
  LET ty == Locals[i]
      x  == Adr("VAR", i - 1, ty, 0)
  IN  IF ty = "bool" THEN Emit(t, <<Unary("FALSE", x)>>)
      ELSE Emit(Intern(t, ty, 0), <<Binary("ASIGN", x, AdrOf(t, ty, 0))>>)

(* tac_gen_func up to the statements, and the same in tac_from_ast for main.
   Locals are declared in main, in a function only if the program wants so. *)
StartFunc(f) ==
  LET named  == Emit(Intern(ts, "str", f), <<Unary("FUNC", AdrOf(ts, "str", f))>>)
      body   == [Frame("func", <<>>, <<>>) EXCEPT !.name = f]
  IN
  /\ phase \in {"globals", "code"} /\ frames = <<>>
  /\ IF f = "main" THEN begun = Funcs ELSE f \in Funcs \ begun
  /\ phase' = "code"
  /\ ts' = IF f = "main" \/ Uses("locals")
           THEN Declared(Declared(Declared(named, 1), 2), 3) ELSE named
  /\ frames' = <<body>>
  /\ begun' = begun \cup {f}
  /\ UNCHANGED <<uses, sigs, land>>

(* Temporaries are numbered anew in the next function, not after main. *)
EndFunc ==
  /\ Stats /\ Top.k = "func" /\ Top.some
  /\ frames' = <<>>
  /\ IF Top.name = "main" THEN phase' = "done" /\ UNCHANGED ts
     ELSE phase' = "code" /\ ts' = [ts EXCEPT !.tmp = 0]
  /\ UNCHANGED <<uses, sigs, begun, land>>

-----------------------------------------------------------------------------
(* tac_get_adr on names and literals.  tac_resolve_boolean takes a temporary
   before it looks at what the expression is. *)
Waits(ty)  == InCode /\ Top.want = ty
Ahead(ty)  == IF ty = "bool" THEN TookTmp(ts) ELSE ts
Values     == {"int", "real", "bool"}

Variable(i) ==
  /\ Waits(Locals[i]) /\ Uses("var")
  /\ HasLocals
  /\ Give(Ahead(Top.want), Adr("VAR", i - 1, Locals[i], 0)) /\ Rest

Parameter(i) ==
  /\ InCode /\ Uses("param") /\ i \in DOMAIN Pars /\ Waits(Pars[i])
  /\ Give(Ahead(Top.want), Adr("PARAM", i - 1, Pars[i], 0)) /\ Rest

(* The array itself, as an argument. *)
WholeArray == Waits("ptr") /\ Give(ts, Adr("ARRAY", 0, "ptr", 0)) /\ Rest

Literal(q, v) ==
  /\ Waits(q) /\ Give(Intern(ts, q, v), AdrOf(ts, q, v)) /\ Rest

Constant(c) ==
  /\ Waits(c[1])
  /\ Give(ts, Adr(LitType(c[1]), ts.consts[c], c[1], c[2])) /\ Rest

TrueValue ==
  /\ Waits("bool")
  /\ Give(Emit(TookTmp(ts), <<Unary("TRUE", Tmp(ts, "bool"))>>), Tmp(ts, "bool"))
  /\ Rest

-----------------------------------------------------------------------------
(* tac_resolve_numeric: the operands come first, then the temporary. *)
OpenArith(ty, tys) ==
  /\ Waits(ty) /\ Room /\ Uses("arith")
  /\ IF ty = "int" THEN tys = <<"int", "int">> ELSE "real" \in ToSet(tys)
  /\ Open(ts, [Frame("arith", tys, <<>>) EXCEPT !.ty = ty]) /\ Rest

(* Mutation: the temporary of a result is not counted. *)
MutOpenBool(k, tys) ==
  /\ Waits("bool") /\ Room /\ Uses(k)
  /\ Open(ts, [Frame(k, tys, <<>>) EXCEPT
                 !.out = Tmp(ts, "bool"),
                 !.ty  = IF "real" \in ToSet(tys) THEN "real" ELSE "int"])
  /\ Rest

(* tac_resolve_boolean on a relation, on NNOT, and on NBOOL: the temporary of
   the result comes first. *)
OpenBool(k, tys) ==
  /\ Waits("bool") /\ Room /\ Uses(k)
  /\ Open(TookTmp(ts),
          [Frame(k, tys, <<>>) EXCEPT
             !.out = Tmp(ts, "bool"),
             !.ty  = IF "real" \in ToSet(tys) THEN "real" ELSE "int"])
  /\ Rest

(* Mutation: the right operand is not promoted. *)
MutPromoted(t, f, adr) ==
  IF f.ty = "real" /\ Len(f.adrs) = 1 /\ f.tys[1] = "int"
  THEN Emit(TookTmp(t), <<Binary("ITOF", Tmp(t, "real"), adr)>>)
  ELSE t

(* An operand of the other type is made real, in a temporary of its own. *)
Promoted(t, f, adr) ==
  IF f.ty = "real" /\ f.tys[Len(f.adrs)] = "int"
  THEN Emit(TookTmp(t), <<Binary("ITOF", Tmp(t, "real"), adr)>>)
  ELSE t
Promotion(t, f, adr) == IF Promoted(t, f, adr) = t THEN adr ELSE Tmp(t, "real")

LeftOperand ==
  LET a == Top.adrs[1] IN
  /\ InCode /\ Top.k \in Ops2 /\ Top.want = "step" /\ Len(Top.adrs) = 1
  /\ ts' = Promoted(ts, Top, a)
  /\ frames' = SetTop([Top EXCEPT !.adrs = <<Promotion(ts, Top, a)>>,
                                  !.want = Top.tys[2]])
  /\ Rest

OpOf(f) == CASE f.k = "arith" -> IF f.ty = "real" THEN "ADDF" ELSE "ADDI"
             [] f.k = "logic" -> "AND"
             [] OTHER         -> IF f.ty = "real" THEN "GTF" ELSE "GTI"

RightOperand ==
  LET a   == Top.adrs[2]
      t   == Promoted(ts, Top, a)
      out == IF Top.k = "arith" THEN Tmp(t, Top.ty) ELSE Top.out
      t2  == Emit(IF Top.k = "arith" THEN TookTmp(t) ELSE t,
                  <<Line(OpOf(Top), out, Top.adrs[1], Promotion(ts, Top, a))>>)
  IN
  /\ InCode /\ Top.k \in Ops2 /\ Top.want = "step" /\ Len(Top.adrs) = 2
  /\ IF Top.k = "not"
     THEN Return(Emit(TookTmp(t2), <<Binary("NOT", Tmp(t2, "bool"), out)>>),
                 Tmp(t2, "bool"))
     ELSE Return(t2, out)
  /\ Rest

-----------------------------------------------------------------------------
(* tac_get_adr on NARRV: the address of a field of an element.  As an operand
   of arithmetic it is read through, into a temporary taken first; a print
   reads through it itself; as a Boolean operand it is not. *)
OpenElem(base, i) ==
  LET value == Top.want \in {"int", "real"} /\ Top.k # "print"
      ty    == IF Top.want = "place" THEN Top.ty ELSE Top.want
  IN
  /\ InCode
  /\ Top.want = "place" \/ (Room /\ Uses("elem"))
  /\ Top.want \in Values \cup {"place"} /\ Fields[i] = ty
  /\ ty = "bool" /\ Top.want = "bool" => Uses("boolelem")
  /\ base.type = "PARAM" => Uses("param")
  /\ Open(IF value \/ Top.want = "bool" THEN TookTmp(ts) ELSE ts,
          [Frame("elem", <<"ptr", "int">>, <<base>>) EXCEPT
             !.field = i,
             !.out = IF value THEN Tmp(ts, ty) ELSE Blank])
  /\ Rest

(* NAELT: the address of an element, for a copy of the struct. *)
OpenWhole(base) ==
  /\ Waits("whole")
  /\ Open(ts, Frame("elem", <<"ptr", "int">>, <<base>>))
  /\ Rest

(* The address: the index times the size of the struct, and the field's place. *)
CloseElem ==
  LET base  == Top.adrs[1]
      index == Top.adrs[2]
      t1    == Intern(ts, "int", StructSize)
      m     == Tmp(t1, "int")
      t2    == Emit(TookTmp(t1), <<Line("MULI", m, index, AdrOf(ts, "int", StructSize))>>)
      e     == Tmp(t2, "ptr")
      t3    == Emit(TookTmp(t2), <<Line("ADDI", e, base, m)>>)
      place == 8 * (Top.field - 1)
      t4    == Intern(t3, "int", place)
      a     == Tmp(t4, "ptr")
      t5    == Emit(TookTmp(t4), <<Line("ADDI", a, e, AdrOf(t3, "int", place))>>)
  IN
  /\ Ready("elem")
  /\ IF Top.field = 0 THEN Return(t3, e)
     ELSE IF Top.out.type = "TMP"
     THEN Return(Emit(t5, <<Binary("DEREF", Top.out, a)>>), Top.out)
     ELSE Return(t5, a)
  /\ Rest

-----------------------------------------------------------------------------
(* tac_gen_parameters, tac_gen_callstat and tac_gen_fncall.  An integer passes
   for a real argument in the semantic pass. *)
ArgTypes(par) == IF par = "real" /\ Uses("intarg") THEN {"real", "int"} ELSE {par}
CallFrame(f, k) ==
  [Frame(k, sigs[f].pars, <<>>) EXCEPT !.name = f, !.call = <<Here, Len(frames)>>]

OpenCallStat(f) ==
  /\ Stats /\ Room /\ Uses("call") /\ sigs[f].ret = "none"
  /\ Begin(ts, CallFrame(f, "call")) /\ Rest

OpenFnCall(f) ==
  /\ InCode /\ Room /\ Uses("fncall") /\ sigs[f].ret = Top.want
  /\ LET t == Ahead(Top.want)
     IN  Open(TookTmp(t), [CallFrame(f, "fncall") EXCEPT !.out = Tmp(t, Top.want)])
  /\ Rest

(* An integer argument for a real parameter goes on as it is. *)
IntegerForReal(v) ==
  /\ Waits("real") /\ Top.k \in {"call", "fncall"} /\ "int" \in ArgTypes("real")
  /\ Give(Intern(ts, "int", v), AdrOf(ts, "int", v)) /\ Rest

(* Every argument is worked out before the first one is passed, and the last
   is passed first: the recursion emits on its way back. *)
Params(f) ==
  [k \in 1..Len(f.adrs) |->
     LET j == Len(f.adrs) + 1 - k
     IN  [Unary("PARAM", f.adrs[j]) EXCEPT !.ref = Append(f.call, j)]]

CloseCall ==
  LET t1   == Emit(ts, Params(Top))
      n    == Len(Top.adrs)
      t2   == Intern(t1, "int", n)
      t3   == Intern(t2, "str", Top.name)
      name == AdrOf(t2, "str", Top.name)
      line == IF Top.k = "call" THEN Binary("CALL", name, AdrOf(t1, "int", n))
              ELSE Line("CALLVAL", Top.out, name, AdrOf(t1, "int", n))
      t4   == Emit(t3, <<[line EXCEPT !.ref = Top.call]>>)
  IN
  /\ InCode /\ Top.k \in {"call", "fncall"} /\ Top.want = "step"
  /\ IF Top.k = "call" THEN EndStat(t4) ELSE Return(t4, Top.out)
  /\ Rest

-----------------------------------------------------------------------------
(* tac_gen_nasgn: to a variable, or to a field of an element. *)
OpenAssign(i) ==
  /\ Stats /\ Room /\ Uses("asgn") /\ HasLocals
  /\ LET x == Adr("VAR", i - 1, Locals[i], 0)
     IN  Begin(ts, [Frame("asgn", <<Locals[i], Locals[i]>>, <<x>>) EXCEPT !.ty = Locals[i]])
  /\ Rest

OpenStore(ty) ==
  /\ Stats /\ Room /\ Uses("store")
  /\ Begin(ts, [Frame("asgn", <<"place", ty>>, <<>>) EXCEPT !.ty = ty]) /\ Rest

CloseAssign ==
  LET op == IF Top.tys[1] = "place" THEN "STORE" ELSE "ASIGN" IN
  /\ Ready("asgn") /\ EndStat(Emit(ts, <<Binary(op, Top.adrs[1], Top.adrs[2])>>)) /\ Rest

(* The copy of a struct: word by word, both addresses worked out anew. *)
OpenCopy ==
  /\ Stats /\ Room /\ Uses("copy")
  /\ Begin(ts, Frame("copy", <<"whole", "whole">>, <<>>)) /\ Rest

CopiedWord(t, place) ==
  LET lhs == Top.adrs[1]
      rhs == Top.adrs[2]
      k  == AdrOf(t, "int", place)
      t0 == Intern(t, "int", place)
      a  == Tmp(t0, "ptr")
      t1 == Emit(TookTmp(t0), <<Line("ADDI", a, lhs, k)>>)
      b  == Tmp(t1, "ptr")
      t2 == Emit(TookTmp(t1), <<Line("ADDI", b, rhs, k)>>)
      v  == Tmp(t2, Fields[(place \div 8) + 1])
  IN  Emit(TookTmp(t2), <<Binary("DEREF", v, b), Binary("STORE", a, v)>>)

CloseCopy ==
  /\ Ready("copy")
  /\ EndStat(CopiedWord(CopiedWord(CopiedWord(ts, 0), 8), 16))
  /\ Rest

(* tac_gen_nasgnop: `x += e`.  The test for an element looks for NAELT, which
   no left-hand side is, so that a field is taken for a variable.  Nothing
   checks the types: a real may be added to an integer. *)
OpenUpdate(i, ty) ==
  /\ Stats /\ Room /\ Uses("update") /\ HasLocals
  /\ Locals[i] = "int" /\ ty = "real" => Uses("mixupdate")
  /\ LET x == Adr("VAR", i - 1, Locals[i], 0)
     IN  Begin(ts, [Frame("update", <<Locals[i], ty>>, <<x>>) EXCEPT !.ty = Locals[i]])
  /\ Rest

OpenUpdateElem(ty) ==
  /\ Stats /\ Room /\ Uses("elemupdate")
  /\ Begin(ts, [Frame("update", <<"place", ty>>, <<>>) EXCEPT !.ty = ty]) /\ Rest

CloseUpdate ==
  LET x   == Top.adrs[1]
      t   == Promoted(ts, Top, Top.adrs[2])
      rhs == Promotion(ts, Top, Top.adrs[2])
      op  == IF Top.ty = "real" THEN "ADDF" ELSE "ADDI"
  IN
  /\ Ready("update") /\ EndStat(Emit(t, <<Line(op, x, x, rhs)>>)) /\ Rest

-----------------------------------------------------------------------------
(* tac_gen_printitem: a space, then the value; an element is read through. *)
OpenPrint(ty) ==
  /\ Stats /\ Room /\ Uses("print")
  /\ Begin(Emit(ts, <<Unary("PRINTSPC", Blank)>>),
           [Frame("print", <<ty>>, <<>>) EXCEPT !.ty = ty])
  /\ Rest

ClosePrint ==
  LET a    == Top.adrs[1]
      deref == a.ty = "ptr"
      t    == IF deref THEN Emit(TookTmp(ts), <<Binary("DEREF", Tmp(ts, Top.ty), a)>>) ELSE ts
      from == IF deref THEN Tmp(ts, Top.ty) ELSE a
      op   == IF Top.ty = "int" THEN "PRINTI" ELSE "PRINTF"
  IN
  /\ Ready("print") /\ EndStat(Emit(t, <<Unary(op, from)>>)) /\ Rest

PrintString(s) ==
  /\ Stats /\ Room /\ Uses("string")
  /\ Whole(Emit(Intern(ts, "str", s), <<Unary("PRINTSTR", AdrOf(ts, "str", s))>>)) /\ Rest

PrintLine ==
  /\ Stats /\ (~Top.some \/ (Room /\ Uses("line")))
  /\ Whole(Emit(ts, <<Unary("PRINTLN", Blank)>>)) /\ Rest

(* tac_gen_input_var: into a variable, or into a temporary that is stored. *)
ReadOp(ty) == IF ty = "real" THEN "READF" ELSE "READI"

ReadVariable(i) ==
  /\ Stats /\ Room /\ Uses("read") /\ HasLocals
  /\ Whole(Emit(ts, <<Unary(ReadOp(Locals[i]), Adr("VAR", i - 1, Locals[i], 0))>>)) /\ Rest

OpenReadElem(ty) ==
  /\ Stats /\ Room /\ Uses("readelem")
  /\ Begin(ts, [Frame("read", <<"place">>, <<>>) EXCEPT !.ty = ty]) /\ Rest

CloseReadElem ==
  LET input == Tmp(ts, Top.ty) IN
  /\ Ready("read")
  /\ EndStat(Emit(TookTmp(ts), <<Unary(ReadOp(Top.ty), input),
                                 Binary("STORE", Top.adrs[1], input)>>))
  /\ Rest

(* tac_gen_returnstat. *)
Return0 ==
  /\ Stats /\ Room /\ Uses("return")
  /\ frames[1].name \in Funcs /\ sigs[frames[1].name].ret = "none"
  /\ Whole(Emit(ts, <<Unary("RETN", Blank)>>)) /\ Rest

OpenReturn ==
  /\ Stats /\ Room /\ Uses("return")
  /\ frames[1].name \in Funcs /\ sigs[frames[1].name].ret # "none"
  /\ LET ty == sigs[frames[1].name].ret
     IN  Begin(ts, [Frame("return", <<ty>>, <<>>) EXCEPT !.ty = ty])
  /\ Rest

CloseReturn ==
  /\ Ready("return") /\ EndStat(Emit(ts, <<Unary("RVAL", Top.adrs[1])>>)) /\ Rest

-----------------------------------------------------------------------------
(* tac_gen_if, ifelse, for and repeat.  The assignments before a loop are
   assignments like any other. *)
Labelled(n)  == [ts EXCEPT !.label = @ + n]
Mark(t, n)   == Emit(t, <<Unary("LABEL", Label(n))>>)
Goto(n)      == Unary("GOTO", Label(n))
GotoF(n, c)  == Binary("GOTOF", Label(n), c)
(* The branch at line b lands at line l. *)
LandAt(b, l) == land' = Put(land, b, l)
Flow         == UNCHANGED <<phase, uses, sigs, begun>>

OpenIf ==
  /\ Stats /\ Room /\ Uses("if")
  /\ Begin(Labelled(1), [Frame("if", <<"bool">>, <<>>) EXCEPT !.labs = <<ts.label>>])
  /\ Rest

(* labs are truelabel and falselabel. *)
OpenIfElse ==
  /\ Stats /\ Room /\ Uses("ifelse")
  /\ Begin(Labelled(2), [Frame("ifelse", <<"bool">>, <<>>) EXCEPT
                            !.labs = <<ts.label, ts.label + 1>>])
  /\ Rest

(* labs are start and end. *)
OpenFor ==
  /\ Stats /\ Room /\ Uses("for")
  /\ Begin(Mark(Labelled(2), ts.label),
           [Frame("for", <<"bool">>, <<>>) EXCEPT
              !.labs = <<ts.label, ts.label + 1>>, !.begin = Here])
  /\ Rest

OpenRepeat ==
  /\ Stats /\ Room /\ Uses("repeat")
  /\ Begin(Mark(Labelled(1), ts.label),
           [Frame("repeat", <<>>, <<>>) EXCEPT !.labs = <<ts.label>>, !.begin = Here])
  /\ Rest

(* The branch past what the condition guards. *)
Condition ==
  /\ InCode /\ Top.k \in {"if", "ifelse", "for"} /\ Top.want = "step"
  /\ ts' = Emit(ts, <<GotoF(Last(Top.labs), Top.adrs[1])>>)
  /\ frames' = SetTop([Top EXCEPT !.want = "stats", !.owe = Here])
  /\ Rest

(* Mutation: the label of the else part is set before the jump over that part. *)
MutElse ==
  /\ Stats /\ Top.k = "ifelse" /\ Top.some /\ Top.field = 0
  /\ ts' = Emit(Mark(ts, Top.labs[2]), <<Goto(Top.labs[1])>>)
  /\ frames' = SetTop([Top EXCEPT !.some = FALSE, !.field = 1, !.owe = Here])
  /\ LandAt(Top.owe, Here + 1) /\ Flow

(* Between the two parts; field tells the second one. *)
Else ==
  /\ Stats /\ Top.k = "ifelse" /\ Top.some /\ Top.field = 0
  /\ ts' = Mark(Emit(ts, <<Goto(Top.labs[1])>>), Top.labs[2])
  /\ frames' = SetTop([Top EXCEPT !.some = FALSE, !.field = 1, !.owe = Here])
  /\ LandAt(Top.owe, Here + 1) /\ Flow

CloseIf ==
  /\ Stats /\ Top.some
  /\ Top.k = "if" \/ (Top.k = "ifelse" /\ Top.field = 1)
  /\ EndStat(Mark(ts, Top.labs[1]))
  /\ LandAt(Top.owe, Here) /\ Flow

CloseFor ==
  /\ Stats /\ Top.some /\ Top.k = "for"
  /\ EndStat(Mark(Emit(ts, <<Goto(Top.labs[1])>>), Top.labs[2]))
  /\ land' = Put(Put(land, Here, Top.begin), Top.owe, Here + 1) /\ Flow

RepeatUntil ==
  /\ Stats /\ Top.some /\ Top.k = "repeat"
  /\ frames' = SetTop([Top EXCEPT !.want = "bool", !.tys = <<"bool">>])
  /\ UNCHANGED ts /\ Rest

CloseRepeat ==
  /\ Ready("repeat")
  /\ EndStat(Emit(ts, <<GotoF(Top.labs[1], Top.adrs[1])>>))
  /\ LandAt(Here, Top.begin) /\ Flow

-----------------------------------------------------------------------------
Bases == {Adr("ARRAY", 0, "ptr", 0)}
         \cup {Adr("PARAM", i - 1, "ptr", 0) : i \in {j \in DOMAIN Pars : Pars[j] = "ptr"}}
Numeric == {"int", "real"}
LitsOf(q) == IF Uses("lits") \/ frames = <<>> THEN (IF q = "int" THEN IntLits ELSE RealLits)
             ELSE {1}

Operand ==
  \/ \E i \in DOMAIN Locals : Variable(i)
  \/ InCode /\ \E i \in DOMAIN Pars : Parameter(i)
  \/ WholeArray \/ TrueValue
  \/ \E q \in Numeric : \E v \in LitsOf(q) : Literal(q, v)
  \/ \E c \in DOMAIN ts.consts : Constant(c)
  \/ \E v \in LitsOf("int") : IntegerForReal(v)
Operator ==
  \/ \E ty \in Numeric, a \in Numeric, b \in Numeric : OpenArith(ty, <<a, b>>)
  \/ \E k \in {"relop", "not"}, a \in Numeric, b \in Numeric : OpenBool(k, <<a, b>>)
  \/ OpenBool("logic", <<"bool", "bool">>)
  \/ LeftOperand \/ RightOperand
  \/ InCode /\ \E base \in Bases : OpenWhole(base)
  \/ InCode /\ \E base \in Bases, i \in DOMAIN Fields : OpenElem(base, i)
  \/ CloseElem
  \/ \E f \in Funcs : OpenFnCall(f)
Statement ==
  \/ \E f \in Funcs : OpenCallStat(f)
  \/ CloseCall
  \/ \E i \in DOMAIN Locals : OpenAssign(i) \/ ReadVariable(i)
  \/ \E ty \in Values : OpenStore(ty) \/ OpenReadElem(ty)
  \/ CloseAssign \/ OpenCopy \/ CloseCopy \/ CloseReadElem
  \/ \E i \in {1, 2}, ty \in Numeric : OpenUpdate(i, ty)
  \/ \E ty \in Numeric : OpenUpdateElem(ty) \/ OpenPrint(ty)
  \/ CloseUpdate \/ ClosePrint \/ PrintLine
  \/ \E s \in Funcs : PrintString(s)
  \/ Return0 \/ OpenReturn \/ CloseReturn
Control ==
  \/ OpenIf \/ OpenIfElse \/ OpenFor \/ OpenRepeat
  \/ Condition \/ Else \/ CloseIf \/ CloseFor \/ RepeatUntil \/ CloseRepeat
Part ==
  \/ \E q \in Numeric : \E v \in LitsOf(q) : DeclareConst(q, v)
  \/ \E f \in Funcs \cup {"main"} : StartFunc(f)
  \/ EndFunc

TacNext == Part \/ Control \/ Statement \/ Operator \/ Operand
=============================================================================
