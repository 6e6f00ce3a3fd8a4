---------------------------- MODULE MCSymbolTable ----------------------------
(***************************************************************************)
(* SymbolTable for TLC: the names "a" and "aa", one a part of the other;   *)
(* with two buckets, symbols of every scope share them.                    *)
(***************************************************************************)
EXTENDS SymbolTable

MCNames == {<<97>>, <<97, 97>>}
=============================================================================
