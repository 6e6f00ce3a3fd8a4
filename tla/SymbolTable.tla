----------------------------- MODULE SymbolTable -----------------------------
(***************************************************************************)
(* src/src/astree.c over src/src/lib/hashmap.c, driven by the productions  *)
(* of src/src/parser.c that enter names, then by the passes that look them *)
(* up and, in one place, write into a symbol.                              *)
(*                                                                         *)
(* Identifiers are spelled once, in stringspace; a Symbol is a slice of it *)
(* and a scope.  Symbols are passed by address: every mention of a name    *)
(* makes a new one, and the keys of the hash map, the tree and the         *)
(* attributes of arrays share them.  An address is a position in symbols   *)
(* or attrs, 0 is NULL.  iden and of are only there for the properties:    *)
(* what a symbol was made from, what an attribute was made for.            *)
(***************************************************************************)
EXTENDS Integers, Sequences, FiniteSets, Functions

CONSTANTS Names,       \* identifiers, sequences of character codes
          Word,        \* where a u32 wraps round: 2^32
          Size,        \* buckets of a hash map: table_size
          MaxSymbols,  \* bound: symbols a program makes
          LastScope,   \* bound: functions and main
          Null         \* no answer

Kinds == {"SINT", "SARRAY", "SSTRUCT", "SFIELDS", "SVOID"}

ASSUME SizeAssumption == Size \in Nat \ {0} /\ Word \in Nat \ {0}
ASSUME ScopeAssumption == LastScope \in Nat \ {0}
ASSUME NamesAssumption == Names \subseteq Seq(Nat)
ASSUME NullAssumption == Null \notin Names \X (0..LastScope) \X Kinds

VARIABLES
  st,       \* the SymbolTable, and the symbols and attributes that exist
  scope,    \* p->scope
  phase,    \* the section of the program the parser is in, or the pass
  fn,       \* n_func: the function's symbol, its array parameters' symbols
  inits,    \* the constants, whose attributes wait for the analysis
  reports,  \* reports of a collision
  answer,   \* the last lookup, and what it found
  freed     \* by symboltable_free: how often each symbol and attribute

vars == <<st, scope, phase, fn, inits, reports, answer, freed>>
-----------------------------------------------------------------------------
(* The hash map: buckets of entries, the first one with the key counts. *)
hash_str(s) ==
  LET h[k \in 0..Len(s)] == IF k = 0 THEN 0 ELSE s[k] + 31 * h[k - 1]
  IN  (h[Len(s)] % Word) % Size
hash_symbol(y) ==
  ((((17 * 31 + y.start) * 31 + y.len) * 31 + y.scope) % Word) % Size

equal_symbol(y, z) ==
  y.start = z.start /\ y.len = z.len /\ y.scope = z.scope

hashmap_add(map, b, k, v) == [map EXCEPT ![b] = Append(@, [key |-> k, val |-> v])]
Hits(map, b, keys) == {i \in DOMAIN map[b] : map[b][i].key \in keys}
hashmap_get(map, b, keys) ==
  LET hits == Hits(map, b, keys)
  IN  map[b][CHOOSE i \in hits : \A j \in hits : i <= j].val

(* live_pointers: what hashmap_free will hand to free. *)
Register(s, a) == IF a = 0 \/ a \in Range(s.live) THEN s
                  ELSE [s EXCEPT !.live = Append(@, a)]

(* Mutation: a name is written to stringspace each time it is met. *)
MutIntern(s, n) ==
  [s EXCEPT !.space = @ \o n,
            !.seen = [@ EXCEPT ![hash_str(n)] =
              <<[key |-> n, val |-> [start |-> Len(s.space), len |-> Len(n)]]>> \o @]]

(* A name that was not met before goes to the end of stringspace. *)
Intern(s, n) ==
  IF Hits(s.seen, hash_str(n), {n}) # {} THEN s
  ELSE [s EXCEPT !.space = @ \o n,
                 !.seen = hashmap_add(@, hash_str(n), n,
                            [start |-> Len(s.space), len |-> Len(n)])]

make_symbol(s, n, sc) ==
  LET index == hashmap_get(s.seen, hash_str(n), {n}) IN
  [s EXCEPT !.symbols = Append(@, [start |-> index.start, len |-> index.len,
                                   scope |-> sc, iden |-> n])]
Newest(s) == Len(s.symbols)

(* Mutation: the new symbol is not entered in live_pointers. *)
MutAddSymbol(s, n, sc) == make_symbol(Intern(s, n), n, sc)

symboltable_add(s, n, sc) ==
  LET made == make_symbol(Intern(s, n), n, sc) IN Register(made, Newest(made))

(* astree_get_symbol: no symbol for a name that was not met, and the new one
   is not entered in live_pointers here. *)
Met(s, n) == Hits(s.seen, hash_str(n), {n}) # {}
GetSymbol(s, n) == IF Met(s, n) THEN make_symbol(s, n, 0) ELSE s

AttributeAt(s, y) ==
  LET keys == {k \in DOMAIN s.symbols : equal_symbol(s.symbols[k], y)}
  IN  IF Hits(s.table, hash_symbol(y), keys) = {} THEN 0
      ELSE hashmap_get(s.table, hash_symbol(y), keys)

(* Mutation: the global of the name is preferred. *)
MutGetAttribute(s, a) ==
  LET global == AttributeAt(s, [s.symbols[a] EXCEPT !.scope = 0])
  IN  IF global # 0 THEN global ELSE AttributeAt(s, s.symbols[a])

astree_get_attribute(s, a) ==
  LET own == AttributeAt(s, s.symbols[a])
  IN  IF own # 0 THEN own
      ELSE AttributeAt(s, [s.symbols[a] EXCEPT !.scope = 0])

(* astree_attribute_create, make_func_attribute, struct_types_attribute: only
   the first knows of live_pointers. *)
Create(s, a, kind, data, list) ==
  LET made == [s EXCEPT !.attrs = Append(@,
                 [type |-> kind, data |-> data, list |-> list,
                  of |-> <<s.symbols[a].iden, s.symbols[a].scope>>])]
  IN  IF kind \in {"SARRAY", "SSTRUCT"} THEN Register(made, data) ELSE made

(* Create and symboltable_add_attribute: a second attribute is reported, and
   belongs to nobody. *)
Declare(s, a, kind, data, list) ==
  LET made == Create(s, a, kind, data, list)
      key  == s.symbols[a]
  IN  IF AttributeAt(made, key) # 0
      THEN st' = made /\ reports' = reports + 1
      ELSE /\ st' = Register([made EXCEPT !.table =
                      hashmap_add(@, hash_symbol(key), a, Len(made.attrs))], a)
           /\ UNCHANGED reports
-----------------------------------------------------------------------------
Empty == [b \in 0..Size - 1 |-> <<>>]
None  == [key |-> 0, params |-> <<>>]

Init ==
  /\ st = [space |-> [i \in 1..32 |-> 0], seen |-> Empty, table |-> Empty,
           symbols |-> <<>>, live |-> <<>>, attrs |-> <<>>]
  /\ scope = 0 /\ phase = "consts" /\ fn = None /\ inits = <<>>
  /\ reports = 0 /\ answer = Null
  /\ freed = [symbols |-> <<>>, attrs |-> <<>>]

Room(k) == Len(st.symbols) + k <= MaxSymbols
Elsewhere == UNCHANGED <<answer, freed>>

(* Every other mention of a name, a number or a text: n_var, n_callstat,
   n_fncall, n_exponent, n_printitem, the program's name. *)
Mention(n) ==
  /\ phase \in {"consts", "locals", "main"} /\ Room(1)
  /\ st' = symboltable_add(st, n, scope)
  /\ UNCHANGED <<scope, phase, fn, inits, reports>> /\ Elsewhere

n_init(n) ==
  /\ phase = "consts" /\ Room(1)
  /\ st' = symboltable_add(st, n, scope)
  /\ inits' = Append(inits, Newest(st'))
  /\ UNCHANGED <<scope, phase, fn, reports>> /\ Elsewhere

(* n_type, a struct: in scope 0 its field is a symbol and nothing more. *)
RecordType(n, field) ==
  LET named == symboltable_add(st, n, scope) IN
  /\ phase \in {"consts", "types"} /\ Room(2)
  /\ phase' = "types"
  /\ Declare(symboltable_add(named, field, scope), Newest(named), "SFIELDS", 0, <<>>)
  /\ UNCHANGED <<scope, fn, inits>> /\ Elsewhere

(* n_type, an array. *)
ArrayType(n, type) ==
  LET named == symboltable_add(st, n, scope)
      typed == symboltable_add(named, type, scope) IN
  /\ phase \in {"consts", "types"} /\ Room(2)
  /\ phase' = "types"
  /\ Declare(typed, Newest(named), "SSTRUCT", Newest(typed), <<>>)
  /\ UNCHANGED <<scope, fn, inits>> /\ Elsewhere

(* n_arrdecl: a name that means anything already is refused. *)
Arrdecl(n, type) ==
  LET named == symboltable_add(st, n, scope)
      typed == symboltable_add(named, type, scope) IN
  /\ Room(2)
  /\ IF astree_get_attribute(typed, Newest(named)) = 0
     THEN Declare(typed, Newest(named), "SARRAY", Newest(typed), <<>>)
     ELSE st' = typed /\ reports' = reports + 1

GlobalArray(n, type) ==
  /\ phase \in {"consts", "types", "arrays"} /\ phase' = "arrays"
  /\ Arrdecl(n, type)
  /\ UNCHANGED <<scope, fn, inits>> /\ Elsewhere

(* n_func up to the parameters: the function's own name is global. *)
n_func(n) ==
  /\ phase \in {"consts", "types", "arrays", "funcs"} /\ phase' = "params"
  /\ Room(1) /\ scope + 1 < LastScope
  /\ scope' = scope + 1
  /\ st' = symboltable_add(st, n, 0)
  /\ fn' = [key |-> Newest(st'), params |-> <<>>]
  /\ UNCHANGED <<inits, reports>> /\ Elsewhere

ConstParam(n, type) ==
  /\ phase = "params"
  /\ Arrdecl(n, type)
  /\ fn' = [fn EXCEPT !.params = Append(@, Len(st.symbols) + 1)]
  /\ UNCHANGED <<scope, phase, inits>> /\ Elsewhere

(* n_decl, an array: its type's symbol is global, NULL when nothing has the
   type's name so far. *)
DeclArray(n, type) ==
  LET named == symboltable_add(st, n, scope)
      typed == GetSymbol(named, type) IN
  /\ Room(2)
  /\ Declare(typed, Newest(named), "SARRAY",
             IF Met(named, type) THEN Newest(typed) ELSE 0, <<>>)

ArrayParam(n, type) ==
  /\ phase = "params"
  /\ DeclArray(n, type)
  /\ fn' = [fn EXCEPT !.params = Append(@, Len(st.symbols) + 1)]
  /\ UNCHANGED <<scope, phase, inits>> /\ Elsewhere

ArrayLocal(n, type) ==
  /\ phase \in {"params", "locals"} /\ phase' = "locals"
  /\ DeclArray(n, type)
  /\ UNCHANGED <<scope, fn, inits>> /\ Elsewhere

(* n_decl and n_sdecl, a variable of a primitive type. *)
Variable(n) ==
  LET named == symboltable_add(st, n, scope) IN
  /\ phase \in {"params", "locals", "main"} /\ Room(1)
  /\ Declare(named, Newest(named), "SINT", 0, <<>>)
  /\ UNCHANGED <<scope, phase, fn, inits>> /\ Elsewhere

(* n_func's end: the attributes of its array parameters, as they are looked up
   now, are in the list of the function's too. *)
EndFunction ==
  /\ phase \in {"params", "locals"} /\ phase' = "funcs"
  /\ Declare(st, fn.key, "SVOID", 0,
             [k \in DOMAIN fn.params |-> astree_get_attribute(st, fn.params[k])])
  /\ fn' = None
  /\ UNCHANGED <<scope, inits>> /\ Elsewhere

n_mainbody ==
  /\ phase \in {"consts", "types", "arrays", "funcs"} /\ phase' = "main"
  /\ scope' = scope + 1
  /\ UNCHANGED <<st, fn, inits, reports>> /\ Elsewhere

(* update_node_symboltype: only now do the constants get their attributes. *)
analyse_program ==
  /\ phase = "main" /\ phase' = "analysis"
  /\ UNCHANGED <<st, scope, fn, inits, reports>> /\ Elsewhere

UpdateInit ==
  /\ phase = "analysis" /\ inits # <<>>
  /\ Declare(st, Head(inits), "SINT", 0, <<>>)
  /\ inits' = Tail(inits)
  /\ UNCHANGED <<scope, phase, fn>> /\ Elsewhere

(* The analysis and the code generators look up the symbol of a node. *)
Lookup(a) ==
  LET atr == astree_get_attribute(st, a)
      of  == st.attrs[atr].of IN
  /\ phase = "analysis"
  /\ answer' = <<st.symbols[a].iden, st.symbols[a].scope,
                 IF atr = 0 THEN Null ELSE <<of[1], of[2], st.attrs[atr].type>>>>
  /\ UNCHANGED <<st, scope, phase, fn, inits, reports, freed>>

(* Mutation: the array's own symbol is made global, not that of its type. *)
MutRescope(b, e) ==
  /\ phase = "analysis" /\ inits = <<>> /\ reports = 0
  /\ e \in DOMAIN st.table[b] /\ st.attrs[st.table[b][e].val].type = "SARRAY"
  /\ st' = [st EXCEPT !.symbols[st.table[b][e].key].scope = 0]
  /\ UNCHANGED <<scope, phase, fn, inits, reports>> /\ Elsewhere

(* tac_get_adr of the three-address code: the type's symbol is written to. *)
Rescope(b, e) ==
  LET data == st.attrs[st.table[b][e].val].data IN
  /\ phase = "analysis" /\ inits = <<>> /\ reports = 0
  /\ e \in DOMAIN st.table[b] /\ st.attrs[st.table[b][e].val].type = "SARRAY"
  /\ data # 0
  /\ st' = [st EXCEPT !.symbols[data].scope = 0]
  /\ UNCHANGED <<scope, phase, fn, inits, reports>> /\ Elsewhere

(* symboltable_free, which main comes to when nothing was reported: each entry
   of the table frees its attribute and what that one owns, the attributes in a
   function's list too; then every live pointer is freed. *)
Entries == UNION {Range(st.table[b]) : b \in DOMAIN st.table}
Owned(e) == st.attrs[e.val]
symboltable_free ==
  LET times(S) == Cardinality(S) IN
  /\ phase = "analysis" /\ inits = <<>> /\ reports = 0 /\ phase' = "done"
  /\ freed' = [symbols |-> [a \in DOMAIN st.symbols |->
                 times({k \in DOMAIN st.live : st.live[k] = a})
                 + times({e \in Entries : Owned(e).type \in {"SARRAY", "SSTRUCT"}
                                          /\ Owned(e).data = a})],
               attrs |-> [x \in DOMAIN st.attrs |->
                 times({e \in Entries : e.val = x})
                 + times({e \in Entries : x \in Range(Owned(e).list)})]]
  /\ UNCHANGED <<st, scope, fn, inits, reports, answer>>

Next ==
  \/ \E n \in Names : Mention(n) \/ n_init(n) \/ n_func(n) \/ Variable(n)
  \/ \E n, m \in Names : \/ RecordType(n, m) \/ ArrayType(n, m) \/ GlobalArray(n, m)
                         \/ ConstParam(n, m) \/ ArrayParam(n, m) \/ ArrayLocal(n, m)
  \/ EndFunction \/ n_mainbody \/ analyse_program \/ UpdateInit
  \/ \E a \in DOMAIN st.symbols : Lookup(a)
  \/ \E b \in DOMAIN st.table : \E e \in DOMAIN st.table[b] : Rescope(b, e)
  \/ symboltable_free

Spec == Init /\ [][Next]_vars
-----------------------------------------------------------------------------
Addresses == DOMAIN st.symbols

(* The type of the table: its entries lead from symbols to attributes, and are
   where hashing the symbol, as it is now, looks for them, one for each key. *)
TypeOK ==
  /\ \A a \in Addresses : st.symbols[a].scope \in 0..LastScope
  /\ \A x \in DOMAIN st.attrs : st.attrs[x].type \in Kinds
                                /\ st.attrs[x].data \in Addresses \cup {0}
  /\ \A b \in DOMAIN st.table : \A e \in Range(st.table[b]) :
       e.key \in Addresses /\ e.val \in DOMAIN st.attrs
       /\ hash_symbol(st.symbols[e.key]) = b
  /\ \A e, f \in Entries :
       e # f => ~equal_symbol(st.symbols[e.key], st.symbols[f.key])

(* A symbol's slice of stringspace spells the identifier it was made from, and
   two symbols have the same slice exactly when they were made from the same
   identifier: comparing slices is comparing names (unscoped_symbol_equals),
   one being a part of the other notwithstanding. *)
Spelled ==
  \A a \in Addresses : LET y == st.symbols[a] IN
    /\ SubSeq(st.space, y.start + 1, y.start + y.len) = y.iden
    /\ \A c \in Addresses : LET z == st.symbols[c] IN
         (y.iden = z.iden) <=> (y.start = z.start /\ y.len = z.len)

(* When the compiler is done, no symbol and no attribute that is in the table
   is left, and none was freed twice, but for those with two owners: the types
   of arrays (astree.c:173 and 193), and the attributes of array parameters,
   which their function's list owns too (astree.c:183 and parser.c:51). *)
Released ==
  phase = "done" =>
    /\ \A a \in Addresses :
         /\ freed.symbols[a] >= 1
         /\ freed.symbols[a] > 1 =>
              \E e \in Entries : Owned(e).type \in {"SARRAY", "SSTRUCT"}
                                 /\ Owned(e).data = a
    /\ \A e \in Entries :
         /\ freed.attrs[e.val] >= 1
         /\ freed.attrs[e.val] > 1 => Owned(e).type = "SARRAY"

(* The table implements what the passes rely on: the first declaration of a
   name in a scope stands, a later one is reported, a lookup finds the scope's
   own declaration or else the global one, whatever was done to symbols that
   the table, the tree and the attributes share. *)
Meanings == INSTANCE Scopes WITH
  decls <- [d \in {Owned(e).of : e \in Entries} |->
              Owned(CHOOSE e \in Entries : Owned(e).of = d).type]
ImplementsScopes == Meanings!Spec
=============================================================================
