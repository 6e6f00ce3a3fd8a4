----------------------------- MODULE MCSemantics -----------------------------
(***************************************************************************)
(* Semantics for TLC: a name for each kind of attribute, arrays of two     *)
(* types, functions with parameters of every type.                         *)
(***************************************************************************)
EXTENDS Semantics

Var(t, d)   == [type |-> t, data |-> d, params |-> <<>>]
Fun(t, ps)  == [type |-> t, data |-> "list", params |-> ps]

MCDeclared ==
  [i |-> Var("SINT", NULL), r |-> Var("SREAL", NULL), b |-> Var("SBOOL", NULL),
   a1 |-> Var("SARRAY", "t1"), a2 |-> Var("SARRAY", "t2"),
   t1 |-> Var("SSTRUCT", "s"), t2 |-> Var("SSTRUCT", "s"), s |-> Var("SFIELDS", "list"),
   f |-> Fun("SINT", <<Var("SREAL", NULL)>>),
   g |-> Fun("SBOOL", <<Var("SARRAY", "t1"), Var("SINT", NULL)>>),
   p |-> Fun("SVOID", <<Var("SBOOL", NULL)>>)]
MCNames  == DOMAIN MCDeclared \cup {"undeclared"}
MCFields == [x |-> "SREAL", c |-> "SINT"]
=============================================================================
