------------------------------- MODULE Scopes -------------------------------
(***************************************************************************)
(* What src/src/astree.c promises the parser and the passes behind it:     *)
(* every identifier means one thing in every scope.  A scope is a number,  *)
(* 0 for the globals, one for each function, the last one for main; the    *)
(* first declaration of a name in a scope stands, a later one is refused   *)
(* and reported; a use means its own scope's declaration, else the global. *)
(***************************************************************************)
EXTENDS Integers

CONSTANTS Names,      \* the identifiers
          Kinds,      \* what one can be declared as
          LastScope,  \* bound: the scopes a program has
          Null        \* the answer for a name that means nothing

VARIABLES decls,     \* <<name, scope>> |-> kind
          reports,   \* the declarations that were refused
          answer     \* the last use, and the declaration it means or Null

scopesVars == <<decls, reports, answer>>

Means(n, s) == IF <<n, s>> \in DOMAIN decls THEN <<n, s, decls[<<n, s>>]>>
               ELSE IF <<n, 0>> \in DOMAIN decls THEN <<n, 0, decls[<<n, 0>>]>>
               ELSE Null

Init == decls = <<>> /\ reports = 0 /\ answer = Null

Accept(n, s, k) == /\ decls' = [d \in DOMAIN decls \cup {<<n, s>>} |->
                                  IF d = <<n, s>> THEN k ELSE decls[d]]
                   /\ UNCHANGED reports
Refuse == reports' = reports + 1 /\ UNCHANGED decls

Declare(n, s, k) ==
  /\ UNCHANGED answer
  /\ IF <<n, s>> \in DOMAIN decls THEN Refuse ELSE Accept(n, s, k)

(* An array that is global, or a constant parameter of a function, must not
   even hide a global. *)
DeclareFresh(n, s, k) ==
  /\ UNCHANGED answer
  /\ IF Means(n, s) # Null THEN Refuse ELSE Accept(n, s, k)

Use(n, s) == answer' = <<n, s, Means(n, s)>> /\ UNCHANGED <<decls, reports>>

Next == \E n \in Names, s \in 0..LastScope :
          \/ \E k \in Kinds : Declare(n, s, k) \/ DeclareFresh(n, s, k)
          \/ Use(n, s)

Spec == Init /\ [][Next]_scopesVars
=============================================================================
