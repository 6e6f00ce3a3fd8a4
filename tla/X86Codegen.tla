----------------------------- MODULE X86Codegen -----------------------------
(***************************************************************************)
(* The x86 back end (src/src/x86_codegen/x86_code_generation.c) behind the *)
(* generator of three-address code: one step per line, with the cursor of  *)
(* the list of lines that the looking ahead shares with the emission.      *)
(***************************************************************************)
EXTENDS ThreeAddressCode

CONSTANT NumRegs  \* registers that take arguments: six in the code

ASSUME NumRegsAssumption == NumRegs \in Nat

VARIABLES
  cursor,   \* tac->lines->current, by index; 0 when there is none
  frame,    \* num_in_params, num_vars, num_tmp_regs and the bytes reserved
  asm       \* what was written: for each line its index, the register of an
            \* argument and the frame it was written with

vars == <<phase, frames, ts, uses, sigs, begun, land, cursor, frame, asm>>

-----------------------------------------------------------------------------
Lines == ts.lines
Count == Len(Lines)

(* Mutation: the last line has a successor. *)
MutForward(c) == IF c = 0 THEN 0 ELSE c + 1

(* linkedlist_forward and linkedlist_back do nothing without a current node. *)
Forward(c) == IF c = 0 \/ c = Count THEN 0 ELSE c + 1
Back(c, steps) == IF c <= steps THEN 0 ELSE c - steps

(* Where the first of some lines after i is, or behind the last line. *)
NextOf(i, ops) ==
  LET after == {j \in (i + 1)..Count : Lines[j].op \in ops}
  IN  IF after = {} THEN Count + 1 ELSE CHOOSE j \in after : \A k \in after : j <= k

(* Mutation: the parameters are counted from the line itself. *)
MutParamsBetween(i) ==
  Cardinality({j \in i..NextOf(i, {"CALL", "CALLVAL"}) :
                 j <= Count /\ Lines[j].op = "PARAM"})

(* params_of_next_call: the parameters passed between this one and its call. *)
ParamsBetween(i) ==
  Cardinality({j \in (i + 1)..NextOf(i, {"CALL", "CALLVAL"}) :
                 j <= Count /\ Lines[j].op = "PARAM"})

(* The biggest number of an address of some type in some place, and one. *)
Highest(i, type, places) ==
  LET here == i..(NextOf(i, {"FUNC"}) - 1)
      nums == UNION {{Lines[j][p].n + 1 : j \in {k \in here : Lines[k][p].type = type}} :
                     p \in places}
  IN  IF nums = {} THEN 0 ELSE CHOOSE n \in nums : \A m \in nums : n >= m

(* Mutation: only the left side of a line is looked at for parameters. *)
MutFrameFrom(i) ==
  LET nIn   == Highest(i, "PARAM", {"left"})
      nVars == Highest(i, "VAR", {"left"})
      nTmps == Highest(i, "TMP", {"left"})
      tmps  == IF nIn + nTmps + (nVars % 2) = 1 THEN nTmps + 1 ELSE nTmps
      bytes == 8 * (nIn + tmps + nVars)
  IN  [in |-> nIn, vars |-> nVars, tmps |-> tmps, bytes |-> bytes + (bytes % 16)]

(* O_FUNC: the frame from what the lines of the function use. *)
FrameFrom(i) ==
  LET nIn   == Highest(i, "PARAM", {"left", "middle", "right"})
      nVars == Highest(i, "VAR", {"left"})
      nTmps == Highest(i, "TMP", {"left"})
      tmps  == IF nIn + nTmps + (nVars % 2) = 1 THEN nTmps + 1 ELSE nTmps
      bytes == 8 * (nIn + tmps + nVars)
  IN  [in |-> nIn, vars |-> nVars, tmps |-> tmps, bytes |-> bytes + (bytes % 16)]

(* Mutation: at the end of the list the steps are not corrected. *)
MutAfterScan(i) ==
  LET stop == NextOf(i, {"FUNC"})
  IN  IF stop > Count THEN Back(Count, stop - i) ELSE Back(stop, stop - i)

(* Back from the next function, or from the last line after having gone past it. *)
AfterScan(i) ==
  LET stop == NextOf(i, {"FUNC"})
  IN  IF stop > Count THEN Back(Count, stop - i - 1) ELSE Back(stop, stop - i)

(* get_reg: parameters, variables and temporaries one after the other. *)
Slot(adr, f) == CASE adr.type = "PARAM" -> adr.n
                  [] adr.type = "VAR"   -> f.in + adr.n
                  [] adr.type = "TMP"   -> f.in + f.vars + adr.n

-----------------------------------------------------------------------------
Start ==
  /\ phase = "done" /\ phase' = "emit" /\ cursor' = 1
  /\ UNCHANGED <<frames, ts, uses, sigs, begun, land, frame, asm>>

Written(reg, f) == asm' = Append(asm, [line |-> cursor, reg |-> reg, frame |-> f])

Emitting == phase = "emit" /\ cursor # 0
Same     == UNCHANGED <<phase, frames, ts, uses, sigs, begun, land>>

(* resolve_line on a function, and the step of print_code after it. *)
ResolveFunc ==
  /\ Emitting /\ Lines[cursor].op = "FUNC"
  /\ frame' = FrameFrom(cursor)
  /\ Written(0, FrameFrom(cursor))
  /\ cursor' = Forward(AfterScan(cursor)) /\ Same

(* An argument: to the register its distance from the call names, or nowhere. *)
ResolveParam ==
  LET k    == ParamsBetween(cursor)
      call == NextOf(cursor, {"CALL", "CALLVAL"})
  IN
  /\ Emitting /\ Lines[cursor].op = "PARAM"
  /\ Written(IF k < NumRegs THEN k + 1 ELSE 0, frame)
  /\ cursor' = Forward(Back(call, call - cursor)) /\ Same
  /\ UNCHANGED frame

ResolveOther ==
  /\ Emitting /\ Lines[cursor].op \notin {"FUNC", "PARAM"}
  /\ Written(0, frame)
  /\ cursor' = Forward(cursor) /\ Same
  /\ UNCHANGED frame

Finished == phase = "emit" /\ cursor = 0 /\ UNCHANGED vars

X86Init == Init /\ cursor = 0 /\ asm = <<>>
           /\ frame = [in |-> 0, vars |-> 0, tmps |-> 0, bytes |-> 0]
Next == \/ TacNext /\ UNCHANGED <<cursor, frame, asm>>
        \/ Start \/ ResolveFunc \/ ResolveParam \/ ResolveOther \/ Finished
Spec == X86Init /\ [][Next]_vars
-----------------------------------------------------------------------------
Places  == {"left", "middle", "right"}
Types   == {"int", "real", "bool", "ptr", "none", "str"}
AdrOK(a) == /\ a.type \in {"EMPTY", "TMP", "VAR", "PARAM", "ARRAY", "LABEL", "ILIT",
                           "FLIT", "STR"}
            /\ a.n \in Nat /\ a.ty \in Types

(* The type of every variable of the pipeline: the cursor is on a line or on
   none, counters count, and no literal is numbered past what was counted. *)
TypeOK ==
  /\ phase \in {"globals", "code", "done", "emit"}
  /\ uses \in Programs /\ sigs \in [Funcs -> Signatures]
  /\ begun \subseteq Funcs \cup {"main"}
  /\ ts.tmp \in Nat /\ ts.label \in Nat
  /\ \A i \in 1..Count, p \in Places : AdrOK(Lines[i][p])
  /\ \A f \in ToSet(frames) : AdrOK(f.out) /\ \A a \in ToSet(f.adrs) : AdrOK(a)
  /\ \A q \in DOMAIN ts.seen : \A k \in DOMAIN ts.seen[q] : ts.seen[q][k] < ts.count[q]
  /\ cursor \in 0..Count /\ Len(asm) <= Count
  /\ frame \in [in : Nat, vars : Nat, tmps : Nat, bytes : Nat]

(* The state between the generator and the back end: the lines change no more. *)
Generated   == phase = "done"
FuncOf(i)   == CHOOSE j \in 1..i : Lines[j].op = "FUNC"
                                    /\ \A k \in (j + 1)..i : Lines[k].op # "FUNC"
NamedAt(i)  == Lines[FuncOf(i)].left.val
Branches    == {i \in 1..Count : Lines[i].op \in {"GOTO", "GOTOF"}}
DefsOf(n)   == {j \in 1..Count : Lines[j].op = "LABEL" /\ Lines[j].left.n = n}

(* Every branch reaches the line its construct means, whatever is nested in
   what: its label is set once, there, and in the same function, since the
   assembler keeps a label to the function it is in (797-836). *)
BranchesLand ==
  Generated => \A i \in Branches : /\ DefsOf(Lines[i].left.n) = {land[i]}
                                   /\ FuncOf(i) = FuncOf(land[i])

PoolOf(type) == CASE type = "ILIT" -> "int" [] type = "FLIT" -> "real" [] type = "STR" -> "str"
Resolves(a)  == LET q == PoolOf(a.type)
                IN  a.n < Len(ts.pool[q]) /\ KeyOf(q, ts.pool[q][a.n + 1]) = KeyOf(q, a.val)
LitsResolve  == \A i \in 1..Count, p \in Places :
                  Lines[i][p].type \in {"ILIT", "FLIT", "STR"} => Resolves(Lines[i][p])

(* The number of a literal is where tac_data finds that literal, although it is
   taken from a counter and not from the list, although constants enter the
   list without it, and although the generator itself adds counts, sizes and
   places of fields.  Not so in a program with a real constant (1081). *)
LiteralsResolve == Generated /\ (\A c \in DOMAIN ts.consts : c[1] # "real") => LitsResolve

(* What an operation takes and gives. *)
Typed(i) ==
  LET l == Lines[i]
      L == l.left.ty
      M == l.middle.ty
      R == l.right.ty
  IN  CASE l.op = "ADDI"  -> M \in {"int", "ptr"} /\ L = M /\ R = "int"
        [] l.op = "MULI"  -> {L, M, R} = {"int"}
        [] l.op = "ADDF"  -> {L, M, R} = {"real"}
        [] l.op = "GTI"   -> L = "bool" /\ {M, R} = {"int"}
        [] l.op = "GTF"   -> L = "bool" /\ {M, R} = {"real"}
        [] l.op = "AND"   -> {L, M, R} = {"bool"}
        [] l.op = "NOT"   -> {L, R} = {"bool"}
        [] l.op = "ITOF"  -> L = "real" /\ R = "int"
        [] l.op = "ASIGN" -> L = R /\ L \in Values
        [] l.op = "STORE" -> L = "ptr" /\ R \in Values
        [] l.op = "DEREF" -> L \in Values /\ R = "ptr"
        [] l.op = "PRINTI" -> L = "int"
        [] l.op \in {"PRINTF", "READF"} -> L = "real"
        [] l.op = "READI" -> L \in {"int", "bool"}
        [] l.op = "GOTOF" -> R = "bool"
        [] l.op \in {"TRUE", "FALSE"} -> L = "bool"
        [] l.op = "RVAL"  -> L = sigs[NamedAt(i)].ret
        [] l.op = "PARAM" ->
             LET call == Lines[NextOf(i, {"CALL", "CALLVAL"})]
                 f    == IF call.op = "CALL" THEN call.left.val ELSE call.middle.val
             IN  L = sigs[f].pars[l.ref[3]]
        [] OTHER          -> TRUE

(* Every operation works on operands of its type: integers are made real before
   they meet reals, pointers are read through, and arguments are of the type
   the function takes.  Not so for a Boolean field as an operand (406), for
   `+=` on a field (776) or of a real to an integer, and for an integer as a
   real argument (918). *)
Odd == {"boolelem", "elemupdate", "mixupdate", "intarg"}
OperandsTyped == Generated /\ uses \cap Odd = {} => \A i \in 1..Count : Typed(i)

Readers == {"STORE", "PARAM", "RVAL", "PRINTI", "PRINTF"}
Writers(t, i) == {j \in 1..Count : /\ Lines[j].left.type = "TMP" /\ Lines[j].left.n = t
                                   /\ Lines[j].op \notin Readers
                                   /\ FuncOf(j) = FuncOf(i)}

(* A temporary is written by one line of its function and only read after it,
   however deep the expressions nest, although some are taken before the
   operands and some after.  Not so for `+=` on a field, which adds to the
   address (776). *)
TempsHold ==
  Generated /\ "elemupdate" \notin uses =>
    \A i \in 1..Count, p \in Places :
      Lines[i][p].type = "TMP" =>
        LET w == Writers(Lines[i][p].n, i)
        IN  /\ Cardinality(w) = 1
            /\ \A j \in w : j < i \/ (j = i /\ p = "left")

(* The k-th argument of a call is in the k-th register when the call is made:
   nothing is emitted between the arguments and the call, not even the calls
   in other arguments (918-930, 468-498). *)
ArgumentsArrive ==
  asm # <<>> =>
    LET i == Last(asm).line IN
    Lines[i].op = "PARAM" =>
      LET k    == Lines[i].ref[3]
          call == NextOf(i, {"CALL", "CALLVAL"})
      IN  /\ k <= NumRegs => Last(asm).reg = k
          /\ call <= Count /\ Lines[call].ref = Front(Lines[i].ref)
          /\ \A j \in i..(call - 1) : Lines[j].op = "PARAM"

Stacked == {"PARAM", "VAR", "TMP"}

(* Every operand on the stack lies in the frame its function reserves, a
   parameter in a slot its register is saved to, no two in one slot, and the
   stack stays aligned to 16 bytes, although the frame is only guessed from
   the sides of the lines that were looked at (543-576). *)
FrameHolds ==
  asm # <<>> =>
    LET l == Lines[Last(asm).line]
        f == Last(asm).frame
    IN  /\ f.bytes % 16 = 0
        /\ \A p \in Places : l[p].type \in Stacked =>
             /\ 8 * (Slot(l[p], f) + 1) <= f.bytes
             /\ l[p].type = "PARAM" => l[p].n < f.in
             /\ l[p].type = "VAR"   => l[p].n < f.vars

(* Every line is resolved once and in order: after each look ahead the cursor is
   back at the line it started from, also when it ran off the list (540-584). *)
EachLineOnce ==
  /\ asm # <<>> => Last(asm).line = Len(asm)
  /\ phase = "emit" => cursor = IF Len(asm) = Count THEN 0 ELSE Len(asm) + 1
=============================================================================
