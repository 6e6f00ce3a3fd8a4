------------------------------- MODULE Parser -------------------------------
(***************************************************************************)
(* The recursive descent parser (src/src/parser.c) with its panic-mode     *)
(* error recovery.                                                         *)
(*                                                                         *)
(* The C call stack is the sequence `todo`: what the productions in        *)
(* progress still have to do, the innermost first.  An item of it is       *)
(*   - a token: match(p, token);                                           *)
(*   - a production, or the tail of one that looks at p->c before it goes  *)
(*     on: it is replaced by its own items;                                *)
(*   - "sync5" and the like: p->progress = 5;                              *)
(*   - "scope": p->scope++;       "declare": an attribute is added;        *)
(*   - "skip": next_token;        "report": lister_syn_error;              *)
(*   - "error", "abort": error_recovery, which never returns.              *)
(*                                                                         *)
(* A token is its type only, and the tokens of the file are chosen as they *)
(* are read.  The tree is left out: nothing the parser decides depends on  *)
(* it.                                                                     *)
(***************************************************************************)
EXTENDS Integers, Sequences, FiniteSets

CONSTANTS
  Tokens,     \* the token types that occur in the file, T_EOF apart
  MaxNesting, \* bound: constructs open at once
  MaxScope    \* bound: function headings in the file, and main's

Types    == {"TINTG", "TREAL", "TBOOL"}
AsgnOps  == {"TEQUL", "TPLEQ", "TMNEQ", "TSTEQ", "TDVEQ"}
RelOps   == {"TEQEQ", "TNEQL", "TGRTR", "TLESS", "TLEQL", "TGEQL"}
LogOps   == {"TTAND", "TTTOR", "TTXOR"}
ArithOps == {"TPLUS", "TMINS", "TSTAR", "TDIVD", "TPERC", "TCART"}
Literals == {"TILIT", "TFLIT", "TTRUE", "TFALS"}
StatStart == {"TTFOR", "TIFTH", "TREPT", "TIDEN", "TINPT", "TOUTP", "TRETN"}
TokenTypes ==
  Types \cup AsgnOps \cup RelOps \cup LogOps \cup ArithOps \cup Literals \cup
  StatStart \cup
  {"TCD25", "TCONS", "TTYPS", "TTTIS", "TARRS", "TMAIN", "TBEGN", "TTEND",
   "TARAY", "TTTOF", "TFUNC", "TVOID", "TCNST", "TELSE", "TUNTL", "TOUTL",
   "TNOTT", "TCOMA", "TLBRK", "TRBRK", "TLPAR", "TRPAR", "TSEMI", "TCOLN",
   "TDOTT", "TLSLS", "TGRGR", "TSTRG", "TUNDF"}

ASSUME TokensAssumption == Tokens \subseteq TokenTypes /\ Tokens # {}
ASSUME BoundsAssumption == MaxNesting \in Nat /\ MaxScope \in Nat

VARIABLES
  todo,      \* the calls in progress
  c, n,      \* p->c and p->n, the current token and the one after it
  progress,  \* p->progress
  scope,     \* p->scope
  fresh,     \* p->fresh_error
  recovering,\* p->in_recovery
  valid,     \* p->ast->is_valid
  reported,  \* the lister holds a syntax error
  outcome,   \* "parsing", and then what get_AST returns as root
  open       \* auxiliary: what is open, while no error has been met

parserVars == <<todo, c, n, progress, scope, fresh, recovering, valid,
                reported, outcome, open>>

-----------------------------------------------------------------------------
Opt(cond, items) == IF cond THEN items ELSE <<>>

(* A list goes on after a comma; a list of functions or statements does with
   the token that starts another one. *)
More == [initlist |-> "n_initlist", slist |-> "n_slist", fields |-> "n_fields",
         arrdecls |-> "n_arrdecls", params |-> "n_params", dlist |-> "n_dlist",
         asgnlist |-> "n_asgnlist", vlist |-> "n_vlist", elist |-> "n_elist",
         prlist |-> "n_prlist"]

(* Mutation: an operand that is none is reported and left at that. *)
MutOperandItems(p) ==
  CASE p = "n_exponent" ->
         (CASE c \in Literals -> <<c>>
            [] c = "TLPAR"    -> <<"TLPAR", "n_bool", "TRPAR">>
            [] c = "TIDEN"    -> <<IF n = "TLPAR" THEN "n_fncall" ELSE "n_var">>
            [] OTHER          -> <<"report", "skip">>)
    [] p = "n_fncall"    -> <<"TIDEN", "TLPAR", "args", "TRPAR">>
    [] p = "args"        -> Opt(c # "TRPAR", <<"n_elist">>)
    [] p = "n_prlist"    -> <<"n_printitem", "prlist">>
    [] p = "n_printitem" -> <<IF c = "TSTRG" THEN "TSTRG" ELSE "n_expr">>

(* Mutation: the parenthesis behind a group is not asked for. *)
MutGroupItems(p) ==
  CASE p = "n_exponent" ->
         (CASE c \in Literals -> <<c>>
            [] c = "TLPAR"    -> <<"TLPAR", "n_bool">>
            [] c = "TIDEN"    -> <<IF n = "TLPAR" THEN "n_fncall" ELSE "n_var">>
            [] OTHER          -> <<"skip", "error">>)
    [] p = "n_fncall"    -> <<"TIDEN", "TLPAR", "args", "TRPAR">>
    [] p = "args"        -> Opt(c # "TRPAR", <<"n_elist">>)
    [] p = "n_prlist"    -> <<"n_printitem", "prlist">>
    [] p = "n_printitem" -> <<IF c = "TSTRG" THEN "TSTRG" ELSE "n_expr">>

(* n_exponent, n_fncall and the printable items. *)
ValueItems(p) ==
  CASE p = "n_exponent" ->
         (CASE c \in Literals -> <<c>>
            [] c = "TLPAR"    -> <<"TLPAR", "n_bool", "TRPAR">>
            [] c = "TIDEN"    -> <<IF n = "TLPAR" THEN "n_fncall" ELSE "n_var">>
            [] OTHER          -> <<"skip", "error">>)
    [] p = "n_fncall"    -> <<"TIDEN", "TLPAR", "args", "TRPAR">>
    [] p = "args"        -> Opt(c # "TRPAR", <<"n_elist">>)
    [] p = "n_prlist"    -> <<"n_printitem", "prlist">>
    [] p = "n_printitem" -> <<IF c = "TSTRG" THEN "TSTRG" ELSE "n_expr">>

(* n_vlist to fact_helper: the tail of an operand looks for an operator.  The
   three levels of arithmetic differ in the tree only. *)
ExprItems(p) ==
  CASE p = "n_vlist" -> <<"n_var", "vlist">>
    [] p = "n_var"   -> IF n = "TLBRK"
                        THEN <<"TIDEN", "TLBRK", "n_expr", "TRBRK", "field">>
                        ELSE <<"TIDEN">>
    [] p = "field"   -> Opt(c = "TDOTT", <<"TDOTT", "TIDEN">>)
    [] p = "n_elist" -> <<"n_bool", "elist">>
    [] p = "n_bool"  -> <<"n_rel", "bool">>
    [] p = "bool"    -> Opt(c \in LogOps, <<c, "n_bool">>)
    [] p = "n_rel"   -> IF c = "TNOTT"
                        THEN <<"TNOTT", "n_expr", "n_relop", "n_expr">>
                        ELSE <<"n_expr", "rel">>
    [] p = "rel"     -> Opt(c \in RelOps, <<"n_relop", "n_rel">>)
    [] p = "n_relop" -> <<IF c \in RelOps THEN "skip" ELSE "error">>
    [] p = "n_expr"  -> <<"n_exponent", "expr">>
    [] p = "expr"    -> Opt(c \in ArithOps, <<c, "n_expr">>)
    [] OTHER         -> ValueItems(p)

(* n_asgnstat to n_returnstat. *)
SimpleItems(p) ==
  CASE p = "n_asgnstat"   -> <<"n_var", "asgnop", "n_bool">>
    [] p = "asgnop"       -> <<IF c \in AsgnOps THEN "skip" ELSE "error">>
    [] p = "n_iostat"     -> IF c = "TINPT" THEN <<"TINPT", "TGRGR", "n_vlist">>
                             ELSE <<"TOUTP", "TLSLS", "output">>
    [] p = "output"       -> IF c = "TOUTL" THEN <<"TOUTL">>
                             ELSE <<"n_prlist", "line">>
    [] p = "line"         -> Opt(c = "TLSLS", <<"TLSLS", "TOUTL">>)
    [] p = "n_callstat"   -> <<"TIDEN", "TLPAR", "args", "TRPAR">>
    [] p = "n_returnstat" -> <<"TRETN", "value">>
    [] p = "value"        -> <<IF c = "TVOID" THEN "TVOID" ELSE "n_expr">>
    [] OTHER              -> ExprItems(p)

(* n_stats to n_ifstat. *)
StatItems(p) ==
  CASE p = "n_stats"    -> <<"n_stat", "stats">>
    [] p = "stats"      -> Opt(c \in StatStart, <<"n_stats">>)
    [] p = "n_stat"     ->
         (CASE c = "TTFOR" -> <<"n_forstat">>
            [] c = "TIFTH" -> <<"n_ifstat">>
            [] c = "TREPT" -> <<"n_repstat", "TSEMI">>
            [] c \in {"TINPT", "TOUTP"} -> <<"n_iostat", "TSEMI">>
            [] c = "TRETN" -> <<"n_returnstat", "TSEMI">>
            [] c = "TIDEN" -> <<IF n = "TLPAR" THEN "n_callstat"
                                ELSE "n_asgnstat", "TSEMI">>
            [] OTHER       -> <<"error">>)
    [] p = "n_forstat"  -> <<"TTFOR", "TLPAR", "n_asgnlist", "TSEMI", "n_bool",
                             "TRPAR", "n_stats", "TTEND">>
    [] p = "n_repstat"  -> <<"TREPT", "TLPAR", "n_asgnlist", "TRPAR", "n_stats",
                             "TUNTL", "n_bool">>
    [] p = "n_asgnlist" -> Opt(c = "TIDEN", <<"n_asgnstat", "asgnlist">>)
    [] p = "n_ifstat"   -> <<"TIFTH", "TLPAR", "n_bool", "TRPAR", "n_stats",
                             "else", "TTEND">>
    [] p = "else"       -> Opt(c = "TELSE", <<"TELSE", "n_stats">>)
    [] OTHER            -> SimpleItems(p)

(* n_func to n_decl.  The last way out of n_decl leaves is_valid alone. *)
FuncItems(p) ==
  CASE p = "n_funcs"  -> Opt(c = "TFUNC", <<"n_func", "n_funcs">>)
    [] p = "n_func"   -> <<"sync5", "scope", "TFUNC", "TIDEN", "TLPAR", "sync6",
                           "n_plist", "TRPAR", "TCOLN", "rettype", "sync8",
                           "n_locals", "TBEGN", "sync9", "n_stats", "TTEND",
                           "declare">>
    [] p = "rettype"  -> IF c \in Types \cup {"TVOID"} THEN <<c>>
                         ELSE <<"sync8", "error">>
    [] p = "n_plist"  -> Opt(c # "TRPAR", <<"n_params">>)
    [] p = "n_params" -> <<"n_param", "params">>
    [] p = "n_param"  -> IF c = "TCNST" THEN <<"TCNST", "n_arrdecl">>
                         ELSE <<"n_decl">>
    [] p = "n_locals" -> Opt(c = "TIDEN", <<"n_dlist">>)
    [] p = "n_dlist"  -> <<"n_decl", "dlist">>
    [] p = "n_decl"   -> <<"TIDEN", "TCOLN", "decltype">>
    [] p = "decltype" -> IF c \in Types \cup {"TIDEN"} THEN <<"declare", c>>
                         ELSE <<"abort">>
    [] OTHER          -> StatItems(p)

(* n_type to n_arrdecl.  A type that is neither a struct nor an array is
   accepted without a report. *)
TypeItems(p) ==
  CASE p = "n_type"     -> <<"TIDEN", "TTTIS", "typebody">>
    [] p = "typebody"   ->
         (CASE c = "TIDEN" -> <<"n_fields", "declare", "TTEND">>
            [] c = "TARAY" -> <<"TARAY", "TLBRK", "n_expr", "TRBRK", "TTTOF",
                                "declare", "TIDEN", "TTEND">>
            [] OTHER       -> <<>>)
    [] p = "n_fields"   -> <<"n_sdecl", "fields">>
    [] p = "n_sdecl"    -> <<"TIDEN", "TCOLN", "sdecltype">>
    [] p = "sdecltype"  -> IF c \in Types
                           THEN Opt(scope # 0, <<"declare">>) \o <<c>>
                           ELSE <<"error">>
    [] p = "n_arrdecls" -> <<"sync3", "n_arrdecl", "arrdecls">>
    [] p = "n_arrdecl"  -> <<"TIDEN", "TCOLN", "TIDEN", "declare">>
    [] OTHER            -> FuncItems(p)

(* Mutation: nothing checks that the file ends with the program. *)
MutProgram == <<"TCD25", "TIDEN", "globals", "n_funcs", "n_mainbody">>

Program == <<"TCD25", "TIDEN", "globals", "n_funcs", "n_mainbody", "T_EOF">>

(* n_program to n_typelist: what each production does next, for a production
   or the tail of one. *)
Items(p) ==
  CASE p \in DOMAIN More -> Opt(c = "TCOMA", <<"TCOMA", More[p]>>)
    [] p = "n_program"  -> Program
    [] p = "globals"    -> Opt(c \in {"TCONS", "TTYPS", "TARRS"}, <<"n_globals">>)
    [] p = "n_globals"  -> <<"sync1", "consts", "types", "arrays">>
    [] p = "consts"     -> Opt(c = "TCONS", <<"TCONS", "n_initlist">>)
    [] p = "types"      -> Opt(c = "TTYPS", <<"TTYPS", "n_typelist">>)
    [] p = "arrays"     -> Opt(c = "TARRS", <<"TARRS", "n_arrdecls">>)
    [] p = "n_initlist" -> <<"n_init", "initlist">>
    [] p = "n_init"     -> <<"TIDEN", "TTTIS", "n_expr">>
    [] p = "n_mainbody" -> <<"scope", "TMAIN", "sync11", "n_slist", "sync12",
                             "TBEGN", "n_stats", "TTEND", "TCD25", "TIDEN">>
    [] p = "n_slist"    -> <<"n_sdecl", "slist">>
    [] p = "n_typelist" -> <<"sync2", "n_type", "typelist">>
    [] p = "typelist"   -> Opt(c = "TIDEN", <<"n_typelist">>)
    [] OTHER            -> TypeItems(p)

(* error_recovery, the sections before main's heading: what one turn of its loop
   does when p->c is the given token.  Every other token is skipped. *)
GlobalRecovery ==
  CASE progress \in {0, 1} ->
         (CASE c = "TCNST" -> <<"TCNST", "n_init">>
            [] c = "TCOMA" -> <<"TCOMA", "n_init">>
            [] c = "TTYPS" -> <<"sync2">>
            [] c = "TARRS" -> <<"sync3">>
            [] c = "TFUNC" -> <<"sync5">>
            [] c = "TMAIN" -> <<"sync11">>
            [] OTHER       -> <<"skip">>)
    [] progress = 2 ->
         (CASE c = "TTYPS" -> <<"TTYPS", "n_type">>
            [] c = "TIDEN" -> <<"n_type">>
            [] c = "TARRS" -> <<"sync3">>
            [] c = "TFUNC" -> <<"sync5">>
            [] c = "TMAIN" -> <<"sync11">>
            [] OTHER       -> <<"skip">>)
    [] progress = 3 ->
         (CASE c = "TARRS" -> <<"TARRS", "n_arrdecl">>
            [] c = "TCOMA" -> <<"TCOMA", "n_arrdecl">>
            [] c = "TFUNC" -> <<"sync5">>
            [] c = "TMAIN" -> <<"sync11">>
            [] OTHER       -> <<"skip">>)

FuncRecovery ==
  CASE progress = 5 ->
         (CASE c = "TFUNC" -> <<"TFUNC", "TIDEN", "TLPAR", "sync6">>
            [] c = "TMAIN" -> <<"sync11">>
            [] OTHER       -> <<"skip">>)
    [] progress = 6 ->
         (CASE c = "TIDEN" -> <<"n_param", "comma">>
            [] c = "TRPAR" -> <<"TRPAR", "TCOLN", "anytype", "sync8">>
            [] c = "TFUNC" -> <<"sync5">>
            [] c = "TMAIN" -> <<"sync11">>
            [] OTHER       -> <<"skip">>)
    [] progress = 8 ->
         (CASE c = "TIDEN" -> <<"n_decl", "comma">>
            [] c = "TBEGN" -> <<"TBEGN", "sync9", "n_stat">>
            [] c = "TFUNC" -> <<"sync5">>
            [] c = "TMAIN" -> <<"sync11">>
            [] OTHER       -> <<"skip">>)
    [] progress = 9 ->
         (CASE c = "TSEMI" -> <<"TSEMI", "unlessend">>
            [] c = "TTEND" -> <<"TTEND", "afterend">>
            [] c = "TMAIN" -> <<"sync11">>
            [] OTHER       -> <<"skip">>)

(* Mutation: main too looks out for functions, as the sections before it do. *)
MutMainFunc ==
  CASE progress = 11 ->
         (CASE c = "TMAIN" -> <<"TMAIN", "n_sdecl">>
            [] c = "TCOMA" -> <<"TCOMA", "n_sdecl">>
            [] c = "TFUNC" -> <<"sync5">>
            [] c = "TBEGN" -> <<"sync12", "TBEGN", "n_stat">>
            [] OTHER       -> <<"skip">>)
    [] progress = 12 ->
         (CASE c = "TSEMI" -> <<"TSEMI", "laststat">>
            [] c = "TTEND" -> <<"TTEND", "lastend">>
            [] OTHER       -> <<"skip">>)

(* Mutation: the end of the program is left for another turn to match. *)
MutMainEnd ==
  CASE progress = 11 ->
         (CASE c = "TMAIN" -> <<"TMAIN", "n_sdecl">>
            [] c = "TCOMA" -> <<"TCOMA", "n_sdecl">>
            [] c = "TBEGN" -> <<"sync12", "TBEGN", "n_stat">>
            [] OTHER       -> <<"skip">>)
    [] progress = 12 ->
         (CASE c = "TSEMI" -> <<"TSEMI", "laststat">>
            [] c = "TTEND" -> Opt(n # "TCD25", <<"TTEND", "n_stat">>)
            [] OTHER       -> <<"skip">>)

MainRecovery ==
  CASE progress = 11 ->
         (CASE c = "TMAIN" -> <<"TMAIN", "n_sdecl">>
            [] c = "TCOMA" -> <<"TCOMA", "n_sdecl">>
            [] c = "TBEGN" -> <<"sync12", "TBEGN", "n_stat">>
            [] OTHER       -> <<"skip">>)
    [] progress = 12 ->
         (CASE c = "TSEMI" -> <<"TSEMI", "laststat">>
            [] c = "TTEND" -> <<"TTEND", "lastend">>
            [] OTHER       -> <<"skip">>)

(* What follows a call or a match within a turn, after another look at p->c. *)
RestOfTurn(p) ==
  CASE p = "comma"     -> Opt(c = "TCOMA", <<"TCOMA">>)
    [] p = "anytype"   -> Opt(c \notin Types \cup {"TVOID"}, <<"report">>)
                          \o <<"skip">>
    [] p = "unlessend" -> Opt(c # "TTEND", <<"n_stat">>)
    [] p = "afterend"  -> IF c = "TFUNC" THEN <<"sync5">>
                          ELSE Opt(c # "TMAIN", <<"n_stat">>)
    [] p = "laststat"  -> IF c = "TTEND" /\ n = "TCD25"
                          THEN <<"TTEND", "TCD25", "TIDEN">> ELSE <<"n_stat">>
    [] p = "lastend"   -> IF c = "TCD25" THEN <<"TCD25", "TIDEN">>
                          ELSE <<"n_stat">>
RestNames == {"comma", "anytype", "unlessend", "afterend", "laststat", "lastend"}

Turn == CASE progress < 5  -> GlobalRecovery
          [] progress > 10 -> MainRecovery
          [] OTHER         -> FuncRecovery

-----------------------------------------------------------------------------
(* Mutation: one of the two numbers that were given up is still in use. *)
MutSyncPoint == [sync1 |-> 1, sync2 |-> 2, sync3 |-> 3, sync5 |-> 5, sync6 |-> 6,
                 sync8 |-> 7, sync9 |-> 9, sync11 |-> 11, sync12 |-> 12]

(* The values p->progress takes. *)
SyncPoint == [sync1 |-> 1, sync2 |-> 2, sync3 |-> 3, sync5 |-> 5, sync6 |-> 6,
              sync8 |-> 8, sync9 |-> 9, sync11 |-> 11, sync12 |-> 12]
Marks == {"scope", "declare", "skip", "report", "error", "abort"}

Running == outcome = "parsing" /\ todo # <<>>
Now     == Head(todo)
GoOn(items) == todo' = items \o Tail(todo)

(* lexer_get_token: any token of the file, or its end, which stays. *)
Openers == {"TLPAR", "TLBRK", "TIFTH", "TTFOR", "TREPT"}
Closers == {"TRPAR", "TRBRK", "TTEND", "TUNTL"}
Nesting == Cardinality({i \in DOMAIN todo : todo[i] \in Closers})
           + Cardinality({k \in {1, 2} : <<c, n>>[k] \in Openers})
Lexed ==
  IF n = "T_EOF" THEN {"T_EOF"}
  ELSE {"T_EOF"} \cup
       {t \in Tokens : (t \in Openers => Nesting < MaxNesting)
                       /\ (t = "TFUNC" => scope < MaxScope - 1)}

(* next_token *)
NextToken == c' = n /\ n' \in Lexed

(* What a matched token opens and closes; a type's end is not an end here. *)
Ledger(tok) ==
  [paren |-> CASE tok = "TLPAR" -> 1 [] tok = "TRPAR" -> -1 [] OTHER -> 0,
   brkt  |-> CASE tok = "TLBRK" -> 1 [] tok = "TRBRK" -> -1 [] OTHER -> 0,
   end   |-> CASE scope # 0 /\ tok \in {"TBEGN", "TIFTH", "TTFOR"} -> 1
               [] scope # 0 /\ tok = "TTEND" -> -1
               [] OTHER -> 0]

Closed == [paren |-> 0, brkt |-> 0, end |-> 0]

(* match on the token it expects. *)
Match ==
  /\ Running /\ Now = c
  /\ NextToken /\ GoOn(<<>>)
  /\ open' = IF recovering THEN Closed
             ELSE [k \in DOMAIN open |-> open[k] + Ledger(c)[k]]
  /\ UNCHANGED <<progress, scope, fresh, recovering, valid, reported, outcome>>

Mismatch == Running /\ Now \in TokenTypes \cup {"T_EOF"} /\ Now # c

(* match on another token while the program is still being parsed: the calls in
   progress are given up for the recovery loop. *)
Panic ==
  /\ Mismatch /\ fresh /\ ~recovering
  /\ fresh' = FALSE /\ reported' = TRUE /\ valid' = FALSE
  /\ recovering' = TRUE /\ todo' = <<>> /\ open' = Closed
  /\ UNCHANGED <<c, n, progress, scope, outcome>>

(* match on another token within the recovery: the first one is reported, and
   all of them are passed over. *)
Pass ==
  /\ Mismatch /\ (recovering \/ ~fresh)
  /\ fresh' = FALSE /\ reported' = (reported \/ fresh)
  /\ NextToken /\ GoOn(<<>>)
  /\ UNCHANGED <<progress, scope, recovering, valid, outcome, open>>

(* A production that has no alternative for p->c. *)
Fail ==
  /\ Running /\ Now = "error"
  /\ reported' = TRUE /\ valid' = FALSE /\ recovering' = TRUE
  /\ todo' = <<>> /\ open' = Closed
  /\ UNCHANGED <<c, n, progress, scope, fresh, outcome>>

(* n_decl on no type reports and recovers, and that is all. *)
Abort ==
  /\ Running /\ Now = "abort"
  /\ reported' = TRUE /\ recovering' = TRUE /\ todo' = <<>> /\ open' = Closed
  /\ UNCHANGED <<c, n, progress, scope, fresh, valid, outcome>>

Report ==
  /\ Running /\ Now = "report"
  /\ reported' = TRUE /\ GoOn(<<>>)
  /\ UNCHANGED <<c, n, progress, scope, fresh, recovering, valid, outcome,
                 open>>

Skip ==
  /\ Running /\ Now = "skip"
  /\ NextToken /\ GoOn(<<>>)
  /\ UNCHANGED <<progress, scope, fresh, recovering, valid, reported, outcome, open>>

Sync ==
  /\ Running /\ Now \in DOMAIN SyncPoint
  /\ progress' = SyncPoint[Now] /\ GoOn(<<>>)
  /\ UNCHANGED <<c, n, scope, fresh, recovering, valid, reported, outcome,
                 open>>

EnterScope ==
  /\ Running /\ Now = "scope"
  /\ scope' = scope + 1 /\ GoOn(<<>>)
  /\ UNCHANGED <<c, n, progress, fresh, recovering, valid, reported,
                 outcome, open>>

(* The name may have an attribute already: symbol_redefinition_error. *)
Declare ==
  /\ Running /\ Now = "declare"
  /\ valid' \in {valid, FALSE} /\ GoOn(<<>>)
  /\ UNCHANGED <<c, n, progress, scope, fresh, recovering, reported,
                 outcome, open>>

Step ==
  /\ Running
  /\ Now \notin TokenTypes \cup {"T_EOF"} \cup DOMAIN SyncPoint \cup Marks
  /\ GoOn(IF Now \in RestNames THEN RestOfTurn(Now) ELSE Items(Now))
  /\ UNCHANGED <<c, n, progress, scope, fresh, recovering, valid, reported,
                 outcome, open>>

(* A turn of the loop of error_recovery. *)
Resync ==
  /\ outcome = "parsing" /\ recovering /\ todo = <<>> /\ c # "T_EOF"
  /\ fresh' = TRUE /\ todo' = Turn
  /\ UNCHANGED <<c, n, progress, scope, recovering, valid, reported,
                 outcome, open>>

(* longjmp to get_AST, which returns no root. *)
GiveUp ==
  /\ outcome = "parsing" /\ recovering /\ todo = <<>> /\ c = "T_EOF"
  /\ outcome' = "null"
  /\ UNCHANGED <<todo, c, n, progress, scope, fresh, recovering, valid,
                 reported, open>>

Accept ==
  /\ outcome = "parsing" /\ ~recovering /\ todo = <<>>
  /\ outcome' = "tree"
  /\ UNCHANGED <<todo, c, n, progress, scope, fresh, recovering, valid,
                 reported, open>>

Done == outcome # "parsing" /\ UNCHANGED parserVars
-----------------------------------------------------------------------------
(* get_AST reads two tokens ahead and calls n_program. *)
Init ==
  /\ todo = <<"n_program">>
  /\ c \in Tokens \cup {"T_EOF"}
  /\ n \in IF c = "T_EOF" THEN {"T_EOF"} ELSE Tokens \cup {"T_EOF"}
  /\ progress = 0 /\ scope = 0 /\ fresh = TRUE /\ recovering = FALSE
  /\ valid = TRUE /\ reported = FALSE /\ outcome = "parsing"
  /\ open = Closed

Next == \/ Match \/ Panic \/ Pass \/ Fail \/ Abort \/ Report \/ Skip \/ Sync
        \/ EnterScope \/ Declare \/ Step \/ Resync \/ GiveUp \/ Accept \/ Done

(* One thread, which goes on as long as it can, and a file that ends. *)
ReadsEnd == (Match \/ Pass \/ Skip) /\ n' = "T_EOF"
Spec == /\ Init /\ [][Next]_parserVars
        /\ WF_parserVars(Next) /\ SF_parserVars(ReadsEnd)
-----------------------------------------------------------------------------
(* What may be on the stack: tokens, productions and tails of productions, and
   what recovery adds to the grammar. *)
Lex == TokenTypes \cup {"T_EOF"}
ValueNames == {"n_exponent", "n_fncall", "args", "n_prlist", "n_printitem"}
ExprNames  == {"n_vlist", "n_var", "field", "n_elist", "n_bool", "bool", "n_rel",
               "rel", "n_relop", "n_expr", "expr"}
SimpleNames == {"n_asgnstat", "asgnop", "n_iostat", "output", "line",
                "n_callstat", "n_returnstat", "value"}
StatNames  == {"n_stats", "stats", "n_stat", "n_forstat", "n_repstat",
               "n_asgnlist", "n_ifstat", "else"}
FuncNames  == {"n_funcs", "n_func", "rettype", "n_plist", "n_params", "n_param",
               "n_locals", "n_dlist", "n_decl", "decltype"}
TypeNames  == {"n_type", "typebody", "n_fields", "n_sdecl", "sdecltype",
               "n_arrdecls", "n_arrdecl"}
TopNames   == {"n_program", "globals", "n_globals", "consts", "types", "arrays",
               "n_initlist", "n_init", "n_mainbody", "n_slist", "n_typelist",
               "typelist"}
ListNames  == DOMAIN More
SyncNames  == DOMAIN SyncPoint

Grammar == Lex \cup ValueNames \cup ExprNames \cup SimpleNames \cup StatNames
           \cup FuncNames \cup TypeNames \cup TopNames \cup ListNames
           \cup SyncNames \cup {"scope", "declare", "skip", "error", "abort"}
Names   == Grammar \cup RestNames \cup {"report"}

(* The type of every variable of the parser: the stack holds nothing that no case
   of the parser is for, and p->progress is one of the numbers that
   error_recovery has a case for. *)
TypeOK ==
  /\ todo \in Seq(Names)
  /\ {c, n} \subseteq Tokens \cup {"T_EOF"}
  /\ progress \in {0, 1, 2, 3, 5, 6, 8, 9, 11, 12} /\ scope \in Nat
  /\ {fresh, recovering, valid, reported} \subseteq BOOLEAN
  /\ outcome \in {"parsing", "tree", "null"}
  /\ open \in [{"paren", "brkt", "end"} -> Int]

(* The whole file is read whatever becomes of it, so that the lister has every
   line and every lexical error. *)
WholeFileRead == outcome # "parsing" => c = "T_EOF" /\ n = "T_EOF"

(* A program is rejected exactly when the lister has a syntax error to show for
   it: no error is passed over in silence, and none in a program accepted. *)
VerdictMatchesReports ==
  outcome # "parsing" => (reported <=> outcome = "null")

(* What a program that is accepted opens it closes: parentheses, brackets, and
   the begin, if and for of its functions and of main. *)
AcceptedIsBalanced ==
  outcome = "tree" => open = Closed

(* The sections follow each other in the order of the grammar, also while errors
   are being recovered from: only a function may be followed by another one, and
   main by nothing. *)
SectionsForward ==
  [][progress' >= progress \/ (progress < 11 /\ progress' = 5)]_parserVars

(* Every file is parsed to an end: each turn of the recovery loop gets on. *)
Terminates == <>(outcome # "parsing")

(* "as no compilation will proceed": without a tree the program is invalid. *)
NoTreeNoCompilation == outcome = "null" => ~valid
=============================================================================
