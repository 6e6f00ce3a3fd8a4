------------------------------ MODULE Semantics ------------------------------
(***************************************************************************)
(* src/src/semantic_analysis.c: update_node_symboltype, which types the    *)
(* tree from its leaves up, and analyse_node, which reports.               *)
(*                                                                         *)
(* A node is known by what either pass, at the node above, reads of it,    *)
(* and by whether its own subtree was reported.  Trees are built from the  *)
(* leaves up on a stack, as the passes come to their nodes; there are      *)
(* finitely many such nodes, so that the stack has had every expression,   *)
(* of every depth.  meant, checked and unchecked are only there for the    *)
(* properties: what the language makes of the same tree.                   *)
(***************************************************************************)
EXTENDS Naturals, Sequences, FiniteSets

CONSTANTS Declared,  \* name |-> its attribute, as symboltable_add_attribute
                     \* left them
          Names,     \* those names, and some that nobody declared
          Fields,    \* field |-> type, of the struct of every array
          MaxStack   \* bound: operands and arguments that wait

VARIABLES stack,  \* the subtrees that are complete
          stat    \* the statement above them, when that is complete

vars == <<stack, stat>>

NULL == "NULL"
ASSUME DeclaredAssumption == DOMAIN Declared \subseteq Names /\ NULL \notin Names

(* The declarations are without a fault: a parameter is an array, or a variable
   that has no data (append_attribute_from_node), the type of an array exists
   (analyse_arrdecl reports it otherwise), and a field is a number or a boolean
   (n_sdecl). *)
Primitive == {"SINT", "SREAL", "SBOOL"}
ASSUME ParserAssumption ==
  /\ \A n \in DOMAIN Declared :
       LET params == Declared[n].params IN
       /\ DOMAIN params = 1..Len(params)
       /\ \A k \in DOMAIN params :
            params[k].type = "SARRAY" \/ (params[k].type \in Primitive /\ params[k].data = NULL)
       /\ Declared[n].type = "SARRAY" => Declared[n].data \in DOMAIN Declared
  /\ \A f \in DOMAIN Fields : Fields[f] \in Primitive

(* Attribute: type, data, and the parameters that data leads to. *)
Attribute(n) == IF n \in DOMAIN Declared THEN Declared[n]
                ELSE [type |-> "SERROR", data |-> NULL, params |-> <<>>]
Known(n) == n \in DOMAIN Declared
-----------------------------------------------------------------------------
(* The language: a type is meant with the type of an array's elements. *)
Of(t, e) == [type |-> t, of |-> e]
Integer   == Of("SINT", NULL)
Float == Of("SREAL", NULL)
Bool  == Of("SBOOL", NULL)
Void  == Of("SVOID", NULL)
Wrong == Of("SERROR", NULL)
Numeric == {Integer, Float}
Right(kids) == \A k \in DOMAIN kids : kids[k].meant # Wrong

(* A node over its children: its type and name, what is said of it, and what it
   is meant to be.  It is at fault when its children are not and it is Wrong;
   checked says whether the analysis has a check for that. *)
Node(kids, type, name, report, crash, meant, checked) ==
  LET fault == Right(kids) /\ meant = Wrong
  IN [type |-> type, name |-> name, left |-> kids # <<>>,
      variable |-> FALSE,
      compiletime |-> \A k \in DOMAIN kids : kids[k].compiletime,
      ints |-> kids # <<>> /\ \A k \in DOMAIN kids : kids[k].ints,
      reported |-> report \/ \E k \in DOMAIN kids : kids[k].reported,
      crashed |-> crash \/ \E k \in DOMAIN kids : kids[k].crashed,
      negated |-> \E k \in DOMAIN kids : kids[k].negated,
      meant |-> IF Right(kids) THEN meant ELSE Wrong,
      checked |-> (fault /\ checked) \/ \E k \in DOMAIN kids : kids[k].checked,
      unchecked |-> (fault /\ ~checked) \/ \E k \in DOMAIN kids : kids[k].unchecked]

Accepted(n) == ~n.reported /\ ~n.crashed
-----------------------------------------------------------------------------
(* Leaves. *)
NILIT == [Node(<<>>, "SINT", NULL, FALSE, FALSE, Integer, TRUE) EXCEPT !.ints = TRUE]
NFLIT == Node(<<>>, "SREAL", NULL, FALSE, FALSE, Float, TRUE)
NTRUE == Node(<<>>, "SBOOL", NULL, FALSE, FALSE, Bool, TRUE)

(* update_nsimv, analyse_nsimv: a name whose attribute has data is a function
   or a struct; the name of an array type passes for a variable. *)
NSIMV(n) ==
  LET atr == Attribute(n)
      no  == ~Known(n) \/ (atr.type \notin {"SSTRUCT", "SARRAY"} /\ atr.data # NULL)
  IN [Node(<<>>, atr.type, n, no, FALSE,
           IF no \/ atr.type = "SSTRUCT" THEN Wrong ELSE Of(atr.type, atr.data), no)
      EXCEPT !.variable = TRUE, !.ints = atr.type = "SINT"]

IsArray(n) == Attribute(n).type = "SARRAY"
Element(node) == [node EXCEPT !.variable = TRUE, !.compiletime = FALSE, !.ints = FALSE]

(* update_naelt, analyse_naelt: no check of the index. *)
NAELT(n, index) ==
  LET atr == Attribute(n) IN
  Element(Node(<<NSIMV(n), index>>,
    IF IsArray(n) THEN "SSTRUCT" ELSE "SERROR", IF IsArray(n) THEN atr.data ELSE NULL,
    ~IsArray(n), FALSE,
    IF IsArray(n) /\ index.meant = Integer THEN Of("SSTRUCT", atr.data) ELSE Wrong,
    ~IsArray(n)))

(* update_narrv: the field is looked up in the struct of the array's type; that
   there is none, or no array, is not reported. *)
NARRV(n, index, field) ==
  LET typed == IsArray(n) /\ field \in DOMAIN Fields IN
  Element(Node(<<NSIMV(n), index>>,
    IF typed THEN Fields[field] ELSE "SERROR", field, FALSE, FALSE,
    IF typed /\ index.meant = Integer THEN Of(Fields[field], NULL) ELSE Wrong, FALSE))
-----------------------------------------------------------------------------
(* Operators. *)
Num == {"SINT", "SREAL"}

(* Mutation: only a real on the left makes the result real. *)
MutAddsubmuldiv(l, r) ==
  IF l.type \notin Num \/ r.type \notin Num THEN "SERROR"
  ELSE IF l.type = "SREAL" THEN "SREAL" ELSE "SINT"

update_addsubmuldiv(l, r) ==
  IF l.type \notin Num \/ r.type \notin Num THEN "SERROR"
  ELSE IF "SREAL" \in {l.type, r.type} THEN "SREAL" ELSE "SINT"
update_mod(l, r) ==
  IF l.type # "SINT" \/ r.type # "SINT" THEN "SERROR" ELSE "SINT"
update_pow(l, r) ==
  IF l.type \notin Num \/ r.type \notin Num THEN "SERROR"
  ELSE IF l.type = "SINT" /\ r.type = "SINT" THEN "SINT" ELSE "SREAL"

(* analyse_nmod, analyse_npow: silent when either side is in error already. *)
IntsOnly(l, r) == /\ l.type # "SINT" \/ r.type # "SINT"
                  /\ l.type # "SERROR" /\ r.type # "SERROR"

(* analyse_relop: one number is enough. *)
analyse_relop(l, r) == /\ l.type \notin Num /\ r.type \notin Num
                       /\ l.type # "SERROR" \/ r.type # "SERROR"

Arith(l, r) == Node(<<l, r>>, update_addsubmuldiv(l, r), NULL, FALSE, FALSE,
  IF {l.meant, r.meant} \subseteq Numeric
  THEN (IF Float \in {l.meant, r.meant} THEN Float ELSE Integer) ELSE Wrong, FALSE)
IntOp(l, r, type) == Node(<<l, r>>, type, NULL, IntsOnly(l, r), FALSE,
  IF {l.meant, r.meant} = {Integer} THEN Integer ELSE Wrong, TRUE)
Relop(l, r) == Node(<<l, r>>, "SBOOL", NULL, analyse_relop(l, r), FALSE,
  IF {l.meant, r.meant} \subseteq Numeric THEN Bool ELSE Wrong,
  {l.meant, r.meant} \cap Numeric = {})

(* The operator of NBOOL, and of NNOT, is a leaf in the middle. *)
NBOOL(l, r) == [Node(<<l, r>>, "SBOOL", NULL, FALSE, FALSE,
  IF {l.meant, r.meant} = {Bool} THEN Bool ELSE Wrong, FALSE) EXCEPT !.ints = FALSE]

(* analyse_node comes to the middle child of NNOT, a relational operator that
   has no children of its own, and analyse_relop reads theirs. *)
NNOT(l, r) == [Node(<<l, r>>, "SBOOL", NULL, FALSE, TRUE,
  IF {l.meant, r.meant} \subseteq Numeric THEN Bool ELSE Wrong, FALSE)
  EXCEPT !.ints = FALSE, !.negated = TRUE]

Binary(l, r) == {Arith(l, r), IntOp(l, r, update_mod(l, r)),
                 IntOp(l, r, update_pow(l, r)), Relop(l, r), NBOOL(l, r)}
-----------------------------------------------------------------------------
(* Calls. *)

(* Mutation: an integer is no real. *)
MutCompareArg(formal, arg) ==
  /\ arg.type # "SERROR"
  /\ IF formal.type # "SARRAY" \/ arg.type # "SARRAY" THEN arg.type # formal.type
     ELSE Attribute(arg.name).data # formal.data

(* compare_arg: whether the argument is reported. *)
compare_arg(formal, arg) ==
  /\ arg.type # "SERROR"
  /\ CASE formal.type = "SREAL" -> arg.type \notin Num
       [] formal.type \in {"SINT", "SBOOL"} -> arg.type # formal.type
       [] formal.type = "SARRAY" ->
            arg.type # "SARRAY" \/ Attribute(arg.name).data # formal.data

(* Mutation: arguments are only counted as far as there are parameters. *)
MutParams(params, args) ==
  \/ Len(args) < Len(params)
  \/ \E k \in DOMAIN params \cap DOMAIN args : compare_arg(params[k], args[k])

analyse_function_params(params, args) ==
  \/ Len(args) # Len(params)
  \/ \E k \in DOMAIN params \cap DOMAIN args : compare_arg(params[k], args[k])

Fits(params, args) ==
  /\ Len(args) = Len(params)
  /\ \A k \in DOMAIN params :
       \/ args[k].meant = Of(params[k].type, params[k].data)
       \/ args[k].meant = Integer /\ params[k].type = "SREAL"

(* update_nfcall, analyse_fncall: a function returns a number or a boolean, and
   its attribute has data. *)
NFCALL(n, args) ==
  LET atr  == Attribute(n)
      isFn == Known(n) /\ atr.data # NULL /\ atr.type \in {"SREAL", "SBOOL", "SINT"}
  IN [Node(args, atr.type, n, ~isFn \/ analyse_function_params(atr.params, args), FALSE,
           IF isFn /\ Fits(atr.params, args) THEN Of(atr.type, NULL) ELSE Wrong, TRUE)
      EXCEPT !.compiletime = FALSE, !.ints = FALSE]

(* analyse_ncall: what is not declared is taken for a procedure, and read. *)
NCALL(n, args) ==
  LET atr == Attribute(n)
      isProc == Known(n) /\ atr.type = "SVOID"
  IN Node(args, "SNONE", n,
          Known(n) /\ (~isProc \/ analyse_function_params(atr.params, args)), ~Known(n),
          IF isProc /\ Fits(atr.params, args) THEN Void ELSE Wrong, TRUE)
-----------------------------------------------------------------------------
(* Statements, constants and the sizes of array types. *)

(* analyse_nasgn: both attributes are those of the left side, so that arrays of
   two types are never told apart; one that is not there is read all the same. *)
NASGN(l, r) ==
  LET differ   == l.type # r.type /\ l.type # "SERROR" /\ r.type # "SERROR"
      compound == l.type = r.type /\ l.type \in {"SARRAY", "SSTRUCT"}
      left_atr == Attribute(l.name)
      right_atr == Attribute(l.name)
  IN Node(<<l, r>>, "SNONE", NULL,
          differ \/ (compound /\ left_atr.data # right_atr.data),
          compound /\ ~Known(l.name),
          IF l.meant = r.meant THEN Void ELSE Wrong, l.meant.type # r.meant.type)

(* analyse_printitem: the place of the report is that of the left child. *)
NOUTP(e) == Node(<<e>>, "SNONE", NULL, e.type \notin Num, e.type \notin Num /\ ~e.left,
                 IF e.meant \in Numeric THEN Void ELSE Wrong, TRUE)

(* analyse_init. *)
NINIT(e) == Node(<<e>>, "SNONE", NULL, ~e.compiletime, FALSE,
  IF e.compiletime /\ e.meant \in Numeric \cup {Bool} THEN Void ELSE Wrong, ~e.compiletime)

(* analyse_natype, consts_ints_only_expr: whether the leaves are integers. *)
NATYPE(e) == Node(<<e>>, "SNONE", NULL, ~e.ints, FALSE,
  IF e.compiletime /\ e.meant = Integer THEN Void ELSE Wrong, e.meant # Bool \/ ~e.ints)
-----------------------------------------------------------------------------
None == Node(<<>>, "SNONE", NULL, FALSE, FALSE, Void, TRUE)
Args == {stack, <<>>}

Init == stack = <<>> /\ stat = None

Push(node) == Len(stack) < MaxStack /\ stack' = Append(stack, node)

Leaf == stat = None /\ UNCHANGED stat /\
  (Push(NILIT) \/ Push(NFLIT) \/ Push(NTRUE) \/ \E n \in Names : Push(NSIMV(n)))

Top == stack[Len(stack)]
Replace(k, node) == stack' = Append(SubSeq(stack, 1, Len(stack) - k), node)

Index == /\ stat = None /\ stack # <<>> /\ UNCHANGED stat
         /\ \E n \in Names : \/ Replace(1, NAELT(n, Top))
                             \/ \E f \in DOMAIN Fields \cup {NULL} :
                                  Replace(1, NARRV(n, Top, f))

Operator == /\ stat = None /\ Len(stack) >= 2 /\ UNCHANGED stat
            /\ LET l == stack[Len(stack) - 1] IN
               \/ \E node \in Binary(l, Top) : Replace(2, node)
               \/ Replace(2, NNOT(l, Top))

Call == /\ stat = None /\ UNCHANGED stat
        /\ \E n \in Names, k \in 0..Len(stack) :
             /\ Len(stack) - k < MaxStack
             /\ Replace(k, NFCALL(n, SubSeq(stack, Len(stack) - k + 1, Len(stack))))

Statement(node) == stat = None /\ stat' = node /\ stack' = <<>>

Whole == \/ \E n \in Names : Statement(NCALL(n, stack))
         \/ /\ Len(stack) = 1
            /\ Statement(NOUTP(Top)) \/ Statement(NINIT(Top)) \/ Statement(NATYPE(Top))
         \/ /\ Len(stack) = 2 /\ stack[1].variable
            /\ Statement(NASGN(stack[1], stack[2]))

NextStatement == stat # None /\ stat' = None /\ UNCHANGED stack

Next == Leaf \/ Index \/ Operator \/ Call \/ Whole \/ NextStatement

Spec == Init /\ [][Next]_vars
-----------------------------------------------------------------------------
Subtrees == {stack[k] : k \in DOMAIN stack} \cup {stat}
Sound(n) == ~n.checked /\ ~n.unchecked

(* What the language has nothing against is not reported, and only where there
   is a `not` in it can the analysis crash (parser.c:1132 with
   semantic_analysis.c:446). *)
NoFalseReports ==
  \A n \in Subtrees : Sound(n) => ~n.reported /\ (n.crashed => n.negated)

(* A fault that the analysis has a check for never gets through, in however
   deep an expression and below however many others whose errors are kept back:
   the program is reported, or the compiler crashes on it. *)
FaultsStop == \A n \in Subtrees : n.checked => ~Accepted(n)

(* The type that update_node_symboltype leaves in a node, which the
   three-address code takes its instructions from, is the type the expression
   has; nothing without a fault is left without one. *)
TypesMeant == \A k \in DOMAIN stack :
                Sound(stack[k]) => stack[k].type = stack[k].meant.type
=============================================================================
