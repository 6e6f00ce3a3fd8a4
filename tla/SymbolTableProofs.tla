-------------------------- MODULE SymbolTableProofs --------------------------
(***************************************************************************)
(* Proofs about the symbol table: its types, that slices of stringspace    *)
(* spell the identifiers they were made from, that the table implements    *)
(* Scopes, and that what it owns is freed.                                 *)
(*                                                                         *)
(* Two arguments carry it.  Every identifier has one entry in seen, so     *)
(* that comparing slices is comparing names and hashing a symbol is        *)
(* hashing a name and a scope.  And the symbol that tac_get_adr writes to, *)
(* the type of an array, is never the key of an entry, nor one that is     *)
(* still to become a key: a constant's, or the function's whose parameters *)
(* and body are being parsed.                                              *)
(***************************************************************************)
EXTENDS SymbolTable, FiniteSetTheorems, SequenceTheorems, WellFoundedInduction, TLAPS

(***************************************************************************)
(* Induction over numbers, with a set in the place of the predicate: the   *)
(* theorems of NaturalsInduction take an operator, which no prover at hand *)
(* instantiates; a set {n \in Nat : P(n)} does the same work.              *)
(***************************************************************************)
(* A set of natural numbers that has an element has a least one. *)
LEMMA LeastNat ==
  ASSUME NEW T, T \subseteq Nat, T # {}
  PROVE  \E x \in T : \A y \in T : x <= y
<1> DEFINE Below == {p \in Nat \X Nat : p[1] < p[2]}
<1>1. IsWellFoundedOn(Below, Nat)
  BY NatLessThanWellFounded DEF OpToRel
<1> HIDE DEF Below
<1>2. \E x \in T : \A y \in T : <<y, x>> \notin Below
  BY <1>1, WFMin, Zenon
<1>3. PICK x \in T : \A y \in T : <<y, x>> \notin Below
  BY <1>2
<1>4. ASSUME NEW y \in T PROVE x <= y
  <2>1. x \in Nat /\ y \in Nat /\ <<y, x>> \notin Below
    BY <1>3
  <2>2. y < x => <<y, x>> \in Below
    BY <2>1 DEF Below
  <2> QED BY <2>1, <2>2
<1> QED BY <1>4

(* Induction from a number a, up to b. *)
LEMMA InductUpTo ==
  ASSUME NEW a \in Int, NEW b \in Int, NEW S, a \in S,
         \A k \in a..(b - 1) : k \in S => k + 1 \in S
  PROVE  a..b \subseteq S
<1> SUFFICES ASSUME NEW m \in a..b, m \notin S PROVE FALSE
  OBVIOUS
<1> DEFINE Out == {n \in Nat : a + n \in a..b /\ a + n \notin S}
<1>1. Out \subseteq Nat /\ m - a \in Out
  <2>1. m - a \in Nat /\ a + (m - a) = m
    OBVIOUS
  <2> QED BY <2>1
<1>2. \A n \in Nat : n \in Out <=> a + n \in a..b /\ a + n \notin S
  OBVIOUS
<1> HIDE DEF Out
<1>3. PICK x \in Out : \A y \in Out : x <= y
  BY <1>1, LeastNat
<1>4. x \in Nat /\ a + x \in a..b /\ a + x \notin S
  BY <1>1, <1>2
<1>5. x - 1 \in Nat /\ a + (x - 1) \in a..(b - 1) /\ (a + (x - 1)) + 1 = a + x
  <2>1. x # 0
    BY <1>4
  <2> QED BY <1>4, <2>1
<1>6. x - 1 \notin Out
  BY <1>3, <1>4, <1>5
<1> QED BY <1>2, <1>4, <1>5, <1>6

Buckets  == 0..(Size - 1)
Slices   == [start : Nat, len : Nat]
Spelling == [key : Names, val : Slices]
Entry    == [key : Nat, val : Nat]
Symbol   == [start : Nat, len : Nat, scope : 0..LastScope, iden : Names]
Attribute == [type : Kinds, data : Nat, list : Seq(Nat),
              of : Names \X (0..LastScope)]
Table    == [space : Seq(Nat), seen : [Buckets -> Seq(Spelling)],
             table : [Buckets -> Seq(Entry)], symbols : Seq(Symbol),
             live : Seq(Nat), attrs : Seq(Attribute)]

(* What a slice spells. *)
Spells(space, v, n) ==
  /\ v.start + v.len <= Len(space)
  /\ SubSeq(space, v.start + 1, v.start + v.len) = n

(* Every identifier is written once, where hash_str looks for it. *)
SeenOnce(s) ==
  \A b \in Buckets : \A i \in DOMAIN s.seen[b] :
    /\ hash_str(s.seen[b][i].key) = b
    /\ Spells(s.space, s.seen[b][i].val, s.seen[b][i].key)
    /\ \A j \in DOMAIN s.seen[b] : s.seen[b][j].key = s.seen[b][i].key => j = i

(* The slice of a symbol is that of its identifier. *)
Slice(y) == [start |-> y.start, len |-> y.len]
Cut(s, y) ==
  \E i \in DOMAIN s.seen[hash_str(y.iden)] :
    s.seen[hash_str(y.iden)][i] = [key |-> y.iden, val |-> Slice(y)]
AllCut(s) == \A a \in DOMAIN s.symbols : Cut(s, s.symbols[a])

Origin(y) == <<y.iden, y.scope>>
EntriesOf(s) == UNION {Range(s.table[b]) : b \in DOMAIN s.table}

(* Every entry leads from a symbol, as it is now, to the attribute that was made
   for it, and no other does. *)
Keyed(s) ==
  /\ \A b \in Buckets : \A i \in DOMAIN s.table[b] :
       /\ s.table[b][i].key \in DOMAIN s.symbols
       /\ s.table[b][i].val \in DOMAIN s.attrs
       /\ hash_symbol(s.symbols[s.table[b][i].key]) = b
       /\ s.attrs[s.table[b][i].val].of = Origin(s.symbols[s.table[b][i].key])
  /\ \A e, f \in EntriesOf(s) : s.attrs[e.val].of = s.attrs[f.val].of => e = f

DataKnown(s) ==
  \A x \in DOMAIN s.attrs : s.attrs[x].data \in DOMAIN s.symbols \cup {0}

Sound(s) ==
  s \in Table /\ SeenOnce(s) /\ AllCut(s) /\ Keyed(s) /\ DataKnown(s)

(***************************************************************************)
(* Hashing.                                                                *)
(***************************************************************************)
(* The recursion over a string's characters has a value for every string. *)
LEMMA HashOfString ==
  ASSUME NEW s \in Seq(Nat)
  PROVE  hash_str(s) \in Buckets
<1> DEFINE G(m) == {g \in [0..m -> Int] :
                      \A k \in 0..m : g[k] = IF k = 0 THEN 0 ELSE s[k] + 31 * g[k - 1]}
           S == {m \in Nat : m <= Len(s) => G(m) # {}}
<1>0. \A m : m \in S <=> m \in Nat /\ (m <= Len(s) => G(m) # {})
  OBVIOUS
<1> HIDE DEF S
<1>3. Len(s) \in Nat
  OBVIOUS
<1>1. 0 \in S
  <2>1. [k \in 0..0 |-> 0] \in G(0)
    OBVIOUS
  <2> QED BY <1>0, <2>1
<1>2. ASSUME NEW m \in 0..(Len(s) - 1), m \in S PROVE m + 1 \in S
  <2>0. G(m) # {}
    <3>1. m \in Nat /\ m <= Len(s)
      BY <1>3
    <3> HIDE DEF G
    <3> QED BY <1>0, <1>2, <3>1
  <2>1. PICK g \in [0..m -> Int] :
          \A k \in 0..m : g[k] = IF k = 0 THEN 0 ELSE s[k] + 31 * g[k - 1]
    BY <2>0
  <2> DEFINE h == [k \in 0..(m + 1) |-> IF k <= m THEN g[k] ELSE s[m + 1] + 31 * g[m]]
  <2>2. s[m + 1] \in Nat /\ g[m] \in Int /\ m \in Nat
    BY <1>2, <2>1
  <2>3. h \in [0..(m + 1) -> Int]
    BY <2>1, <2>2
  <2>4. ASSUME NEW k \in 0..(m + 1)
        PROVE  h[k] = IF k = 0 THEN 0 ELSE s[k] + 31 * h[k - 1]
    <3>1. CASE k <= m
      <4>1. k \in 0..m /\ (k # 0 => k - 1 \in 0..m /\ k - 1 <= m /\ k - 1 \in 0..(m + 1))
        BY <2>2, <3>1
      <4>2. h[k] = g[k] /\ (k # 0 => h[k - 1] = g[k - 1])
        BY <3>1, <4>1
      <4> QED BY <2>1, <4>1, <4>2
    <3>2. CASE k = m + 1
      <4>1. k # 0 /\ ~(k <= m) /\ k - 1 = m /\ m \in 0..(m + 1)
        BY <2>2, <3>2
      <4>2. h[k] = s[m + 1] + 31 * g[m] /\ h[m] = g[m]
        BY <2>2, <4>1
      <4> QED BY <3>2, <4>1, <4>2
    <3> QED BY <2>2, <3>1, <3>2
  <2> HIDE DEF h
  <2>5. h \in G(m + 1)
    BY <2>3, <2>4
  <2>6. m + 1 \in Nat /\ G(m + 1) # {}
    <3> HIDE DEF G
    <3> QED BY <2>2, <2>5
  <2> HIDE DEF G
  <2> QED BY <1>0, <2>6
<1>4. Len(s) \in S
  <2>1. 0 \in Int /\ Len(s) \in Int /\ Len(s) \in 0..Len(s)
    BY <1>3
  <2>2. 0..Len(s) \subseteq S
    BY <1>1, <1>2, <2>1, InductUpTo
  <2> QED BY <2>1, <2>2
<1> DEFINE h == CHOOSE h : h = [k \in 0..Len(s) |-> IF k = 0 THEN 0 ELSE s[k] + 31 * h[k - 1]]
<1>5. h = [k \in 0..Len(s) |-> IF k = 0 THEN 0 ELSE s[k] + 31 * h[k - 1]]
  <2>0. G(Len(s)) # {}
    BY <1>0, <1>3, <1>4
  <2>1. PICK g \in [0..Len(s) -> Int] :
          \A k \in 0..Len(s) : g[k] = IF k = 0 THEN 0 ELSE s[k] + 31 * g[k - 1]
    BY <2>0
  <2>2. g = [k \in 0..Len(s) |-> IF k = 0 THEN 0 ELSE s[k] + 31 * g[k - 1]]
    BY <2>1
  <2> QED BY <2>2
<1> DEFINE I == {k \in Nat : k <= Len(s) => h[k] \in Int}
<1>6. 0 \in I
  <2> HIDE DEF h
  <2> QED BY <1>3, <1>5
<1>7. ASSUME NEW k \in 0..(Len(s) - 1), k \in I PROVE k + 1 \in I
  <2> HIDE DEF h
  <2>1. h[k] \in Int /\ k + 1 \in 0..Len(s) /\ k + 1 # 0 /\ (k + 1) - 1 = k
        /\ s[k + 1] \in Nat /\ k + 1 \in Nat
    BY <1>3, <1>7
  <2>2. h[k + 1] = s[k + 1] + 31 * h[k]
    BY <1>5, <2>1
  <2> QED BY <2>1, <2>2
<1>8. h[Len(s)] \in Int
  <2>1. 0 \in Int /\ Len(s) \in Int /\ Len(s) \in 0..Len(s) /\ Len(s) \in Nat
    BY <1>3
  <2> HIDE DEF h
  <2>3. \A k \in I : k <= Len(s) => h[k] \in Int
    OBVIOUS
  <2> HIDE DEF I
  <2>2. 0..Len(s) \subseteq I
    BY <1>6, <1>7, <2>1, InductUpTo
  <2> QED BY <2>1, <2>2, <2>3
<1>9. hash_str(s) = (h[Len(s)] % Word) % Size
  BY DEF hash_str
<1> HIDE DEF h
<1>10. h[Len(s)] % Word \in Nat
  BY <1>8, SizeAssumption
<1> QED BY <1>9, <1>10, SizeAssumption DEF Buckets

(* Where a symbol is hashed to depends on its slice and its scope. *)
LEMMA HashOfSymbol ==
  ASSUME NEW y \in Symbol
  PROVE  hash_symbol(y) \in Buckets
<1>1. y.start \in Nat /\ y.len \in Nat /\ y.scope \in Nat
  BY ScopeAssumption DEF Symbol
<1> DEFINE h == ((17 * 31 + y.start) * 31 + y.len) * 31 + y.scope
<1>2. h \in Nat
  BY <1>1
<1>3. hash_symbol(y) = (h % Word) % Size
  BY DEF hash_symbol
<1> HIDE DEF h
<1>4. h % Word \in Nat
  BY <1>2, SizeAssumption
<1> QED BY <1>3, <1>4, SizeAssumption DEF Buckets

(* What hashmap_get returns is the value of an entry with an equal key. *)
LEMMA GetIs ==
  ASSUME NEW map, NEW b, NEW keys, NEW T, map[b] \in Seq(T), Hits(map, b, keys) # {}
  PROVE  \E i \in DOMAIN map[b] :
           map[b][i].key \in keys /\ hashmap_get(map, b, keys) = map[b][i].val
<1> DEFINE hits == Hits(map, b, keys)
<1>1. hits \subseteq Nat /\ hits # {}
  BY DEF Hits
<1>2. \A i \in hits : i \in DOMAIN map[b] /\ map[b][i].key \in keys
  BY DEF Hits
<1>3. hashmap_get(map, b, keys) = map[b][CHOOSE i \in hits : \A j \in hits : i <= j].val
  BY DEF hashmap_get
<1> HIDE DEF hits
<1>4. \E i \in hits : \A j \in hits : i <= j
  BY <1>1, LeastNat
<1> DEFINE i == CHOOSE i \in hits : \A j \in hits : i <= j
<1>5. i \in hits
  BY <1>4
<1> QED BY <1>2, <1>3, <1>5

(***************************************************************************)
(* Spelling.                                                               *)
(***************************************************************************)
(* A slice of the left part of a sequence, and the right part of it. *)
LEMMA SliceLeft ==
  ASSUME NEW S, NEW a \in Seq(S), NEW b \in Seq(S), NEW p \in Nat, NEW l \in Nat,
         p + l <= Len(a)
  PROVE  SubSeq(a \o b, p + 1, p + l) = SubSeq(a, p + 1, p + l)
<1> DEFINE u == a \o b
<1>1. /\ Len(a) \in Nat /\ Len(b) \in Nat /\ Len(u) = Len(a) + Len(b)
      /\ \A i \in 1..Len(a) : u[i] = a[i] /\ a[i] \in S
  OBVIOUS
<1> HIDE DEF u
<1>2. \A i \in (p + 1)..(p + l) : u[i] = a[i] /\ a[i] \in S
  BY <1>1
<1>3. /\ p + 1 \in Int /\ p + l \in Int /\ \A i \in (p + 1)..(p + l) : u[i] \in S
      /\ \A i \in (p + 1)..(p + l) : a[i] \in S
  BY <1>2
<1> DEFINE v == SubSeq(u, p + 1, p + l)
           w == SubSeq(a, p + 1, p + l)
           m == (p + l) - (p + 1) + 1
<1>4. v \in Seq(S) /\ Len(v) = (IF p + 1 <= p + l THEN m ELSE 0)
      /\ \A i \in 1..m : v[i] = u[p + 1 + i - 1]
  BY ONLY <1>3, SubSeqProperties
<1>5. w \in Seq(S) /\ Len(w) = (IF p + 1 <= p + l THEN m ELSE 0)
      /\ \A i \in 1..m : w[i] = a[p + 1 + i - 1]
  BY ONLY <1>3, SubSeqProperties
<1>6. m = l /\ (IF p + 1 <= p + l THEN m ELSE 0) = l
  OBVIOUS
<1>7. \A i \in 1..l : p + 1 + i - 1 \in (p + 1)..(p + l)
  OBVIOUS
<1> HIDE DEF v, w, m
<1>8. Len(v) = Len(w) /\ \A i \in 1..Len(v) : v[i] = w[i]
  BY <1>2, <1>4, <1>5, <1>6, <1>7
<1>9. v = w
  BY <1>4, <1>5, <1>8, SeqEqual
<1> QED BY <1>9 DEF u, v, w

(* The second half of two sequences put together is the second of them. *)
LEMMA SliceRight ==
  ASSUME NEW S, NEW a \in Seq(S), NEW b \in Seq(S)
  PROVE  SubSeq(a \o b, Len(a) + 1, Len(a) + Len(b)) = b
<1> DEFINE u == a \o b
           p == Len(a)
           l == Len(b)
<1>1. /\ p \in Nat /\ l \in Nat /\ Len(u) = p + l
      /\ \A i \in (p + 1)..(p + l) : u[i] = b[i - p]
      /\ \A i \in 1..l : b[i] \in S
  OBVIOUS
<1> HIDE DEF u, p, l
<1>2. /\ p + 1 \in Int /\ p + l \in Int /\ \A i \in (p + 1)..(p + l) : u[i] \in S
  <2>1. \A i \in (p + 1)..(p + l) : i - p \in 1..l
    BY <1>1
  <2> QED BY <1>1, <2>1
<1> DEFINE v == SubSeq(u, p + 1, p + l)
           m == (p + l) - (p + 1) + 1
<1>4. v \in Seq(S) /\ Len(v) = (IF p + 1 <= p + l THEN m ELSE 0)
      /\ \A i \in 1..m : v[i] = u[p + 1 + i - 1]
  BY ONLY <1>2, SubSeqProperties
<1>6. m = l /\ (IF p + 1 <= p + l THEN m ELSE 0) = l
  BY <1>1
<1>7. \A i \in 1..l : p + 1 + i - 1 \in (p + 1)..(p + l) /\ (p + 1 + i - 1) - p = i
  BY <1>1
<1> HIDE DEF v, m
<1>8. Len(v) = Len(b) /\ \A i \in 1..Len(v) : v[i] = b[i]
  <2>1. Len(v) = l
    BY <1>4, <1>6
  <2>2. ASSUME NEW i \in 1..l PROVE v[i] = b[i]
    <3>1. v[i] = u[p + 1 + i - 1]
      BY <1>4, <1>6
    <3> QED BY <1>1, <1>7, <3>1
  <2> QED BY <2>1, <2>2 DEF l
<1>9. v = b
  BY <1>4, <1>8, SeqEqual
<1> QED BY <1>9 DEF u, v, p, l

(* Comparing slices is comparing identifiers. *)
LEMMA SlicesSpell ==
  ASSUME NEW s, Sound(s), NEW y, NEW z, y.iden \in Names, z.iden \in Names,
         Cut(s, y), Cut(s, z)
  PROVE  /\ (y.iden = z.iden) <=> (y.start = z.start /\ y.len = z.len)
         /\ Spells(s.space, Slice(y), y.iden)
<1>0. SeenOnce(s)
  BY DEF Sound
<1>1. hash_str(y.iden) \in Buckets /\ hash_str(z.iden) \in Buckets
  BY NamesAssumption, HashOfString
<1>2. PICK i \in DOMAIN s.seen[hash_str(y.iden)] :
        s.seen[hash_str(y.iden)][i] = [key |-> y.iden, val |-> Slice(y)]
  BY DEF Cut
<1>3. PICK j \in DOMAIN s.seen[hash_str(z.iden)] :
        s.seen[hash_str(z.iden)][j] = [key |-> z.iden, val |-> Slice(z)]
  BY DEF Cut
<1>4. Spells(s.space, Slice(y), y.iden) /\ Spells(s.space, Slice(z), z.iden)
  <2>1. /\ s.seen[hash_str(y.iden)][i].key = y.iden
        /\ s.seen[hash_str(y.iden)][i].val = Slice(y)
    BY <1>2
  <2>2. /\ s.seen[hash_str(z.iden)][j].key = z.iden
        /\ s.seen[hash_str(z.iden)][j].val = Slice(z)
    BY <1>3
  <2> QED BY <1>0, <1>1, <2>1, <2>2 DEF SeenOnce
<1>5. y.iden = z.iden => Slice(y) = Slice(z)
  <2>1. ASSUME y.iden = z.iden PROVE Slice(y) = Slice(z)
    <3>1. /\ s.seen[hash_str(y.iden)][i].key = s.seen[hash_str(y.iden)][j].key
          /\ j \in DOMAIN s.seen[hash_str(y.iden)]
      BY <1>2, <1>3, <2>1
    <3>2. i = j
      BY <1>0, <1>1, <3>1 DEF SeenOnce
    <3>3. [key |-> y.iden, val |-> Slice(y)] = [key |-> z.iden, val |-> Slice(z)]
      BY <1>2, <1>3, <2>1, <3>2
    <3> QED BY <3>3
  <2> QED BY <2>1
<1>6. Slice(y) = Slice(z) => y.iden = z.iden
  BY <1>4 DEF Spells
<1>7. Slice(y) = Slice(z) <=> y.start = z.start /\ y.len = z.len
  BY DEF Slice
<1> QED BY <1>4, <1>5, <1>6, <1>7

(* Two symbols are equal to the hash map when they have the same origin, and then
   they are in the same bucket. *)
LEMMA EqualIsOrigin ==
  ASSUME NEW s, Sound(s), NEW y \in Symbol, NEW z \in Symbol, Cut(s, y), Cut(s, z)
  PROVE  /\ equal_symbol(y, z) <=> Origin(y) = Origin(z)
         /\ equal_symbol(y, z) => hash_symbol(y) = hash_symbol(z)
<1>1. y.iden \in Names /\ z.iden \in Names
  BY DEF Symbol
<1>2. (y.iden = z.iden) <=> (y.start = z.start /\ y.len = z.len)
  BY <1>1, SlicesSpell
<1> QED BY <1>2 DEF equal_symbol, Origin, hash_symbol

(***************************************************************************)
(* Making symbols.                                                         *)
(***************************************************************************)
(* All that is said of a table is said of its parts. *)
LEMMA TableIs ==
  ASSUME NEW s, s \in Table
  PROVE  /\ s.space \in Seq(Nat) /\ s.seen \in [Buckets -> Seq(Spelling)]
         /\ s.table \in [Buckets -> Seq(Entry)] /\ s.symbols \in Seq(Symbol)
         /\ s.live \in Seq(Nat) /\ s.attrs \in Seq(Attribute)
         /\ DOMAIN s.table = Buckets /\ DOMAIN s.seen = Buckets
  BY DEF Table

(* What was met has one entry, with its slice. *)
LEMMA MetIs ==
  ASSUME NEW s, Sound(s), NEW n \in Names
  PROVE  Met(s, n) <=> \E i \in DOMAIN s.seen[hash_str(n)] : s.seen[hash_str(n)][i].key = n
  BY DEF Met, Hits

(* A name that was not met before gets a slice of its own. *)
LEMMA InternIs ==
  ASSUME NEW s, Sound(s), NEW n \in Names, NEW t, t = Intern(s, n)
  PROVE  /\ Sound(t) /\ Met(t, n)
         /\ t.symbols = s.symbols /\ t.table = s.table /\ t.attrs = s.attrs
         /\ t.live = s.live
<1> DEFINE b == hash_str(n)
           v == [start |-> Len(s.space), len |-> Len(n)]
           e == [key |-> n, val |-> v]
<1>0. s \in Table /\ n \in Seq(Nat) /\ b \in Buckets /\ SeenOnce(s)
  BY NamesAssumption, HashOfString DEF Sound
<1>1. CASE Met(s, n)
  BY <1>1 DEF Intern, Met
<1>2. CASE ~Met(s, n)
  <2> DEFINE seen == [s.seen EXCEPT ![b] = Append(s.seen[b], e)]
  <2>1. t = [s EXCEPT !.space = s.space \o n, !.seen = seen]
    BY <1>0, <1>2 DEF Intern, Met, hashmap_add, Table
  <2>2. /\ s.space \in Seq(Nat) /\ s.seen \in [Buckets -> Seq(Spelling)]
        /\ Len(s.space) \in Nat /\ Len(n) \in Nat /\ s.seen[b] \in Seq(Spelling)
    BY <1>0, TableIs
  <2>3. e \in Spelling
    BY <2>2 DEF Spelling, Slices
  <2> HIDE DEF b, e
  <2>4. /\ t.space = s.space \o n /\ t.seen = seen
        /\ t.symbols = s.symbols /\ t.table = s.table /\ t.attrs = s.attrs
        /\ t.live = s.live
    BY <1>0, <2>1 DEF Table
  <2>5. /\ Append(s.seen[b], e) \in Seq(Spelling)
        /\ Len(Append(s.seen[b], e)) = Len(s.seen[b]) + 1 /\ Len(s.seen[b]) \in Nat
        /\ DOMAIN s.seen[b] = 1..Len(s.seen[b])
        /\ DOMAIN Append(s.seen[b], e) = 1..(Len(s.seen[b]) + 1)
        /\ \A i \in 1..Len(s.seen[b]) : Append(s.seen[b], e)[i] = s.seen[b][i]
        /\ Append(s.seen[b], e)[Len(s.seen[b]) + 1] = e
    BY <2>2, <2>3
  <2>6. /\ t.seen[b] = Append(s.seen[b], e)
        /\ \A c \in Buckets : c # b => t.seen[c] = s.seen[c]
    BY <1>0, <2>2, <2>4
  <2>7. t \in Table
    <3>1. s.space \o n \in Seq(Nat)
      BY <1>0, <2>2
    <3>2. seen \in [Buckets -> Seq(Spelling)]
      BY <2>2, <2>5
    <3> HIDE DEF seen
    <3> QED BY <1>0, <2>1, <3>1, <3>2 DEF Table
  <2>8. e.key = n /\ e.val = v
    BY DEF e
  <2>9. ASSUME NEW c \in Buckets, NEW i \in DOMAIN s.seen[c]
        PROVE  /\ hash_str(s.seen[c][i].key) = c
               /\ Spells(t.space, s.seen[c][i].val, s.seen[c][i].key)
               /\ s.seen[c][i].key # n
    <3>1. s.seen[c][i] \in Spelling
      BY <2>2
    <3>2. /\ hash_str(s.seen[c][i].key) = c
          /\ Spells(s.space, s.seen[c][i].val, s.seen[c][i].key)
      BY <1>0 DEF SeenOnce
    <3>3. s.seen[c][i].key # n
      BY <1>2, <3>2, MetIs DEF b
    <3>4. s.seen[c][i].val.start \in Nat /\ s.seen[c][i].val.len \in Nat
      BY <3>1 DEF Spelling, Slices
    <3>5. Spells(s.space \o n, s.seen[c][i].val, s.seen[c][i].key)
      <4> DEFINE p == s.seen[c][i].val.start
                 l == s.seen[c][i].val.len
      <4>1. p + l <= Len(s.space) /\ SubSeq(s.space, p + 1, p + l) = s.seen[c][i].key
        BY <3>2 DEF Spells
      <4>2. Len(s.space \o n) = Len(s.space) + Len(n)
        BY <1>0, <2>2
      <4> HIDE DEF p, l
      <4>3. p \in Nat /\ l \in Nat
        BY <3>4 DEF p, l
      <4>4. SubSeq(s.space \o n, p + 1, p + l) = SubSeq(s.space, p + 1, p + l)
        <5> DEFINE sp == s.space
        <5>1. /\ sp \in Seq(Nat) /\ n \in Seq(Nat) /\ p \in Nat /\ l \in Nat
              /\ p + l <= Len(sp)
          BY <1>0, <2>2, <4>1, <4>3
        <5> HIDE DEF sp
        <5>2. SubSeq(sp \o n, p + 1, p + l) = SubSeq(sp, p + 1, p + l)
          BY ONLY <5>1, SliceLeft
        <5> QED BY <5>2 DEF sp
      <4>5. p + l <= Len(s.space \o n)
        BY <2>2, <4>1, <4>2, <4>3
      <4> QED BY <4>1, <4>4, <4>5 DEF Spells, p, l
    <3> QED BY <2>4, <3>2, <3>3, <3>5
  <2>10. Spells(t.space, v, n)
    <3>1. SubSeq(s.space \o n, Len(s.space) + 1, Len(s.space) + Len(n)) = n
      BY <1>0, <2>2, SliceRight
    <3>2. Len(s.space \o n) = Len(s.space) + Len(n)
      BY <1>0, <2>2
    <3>3. v.start = Len(s.space) /\ v.len = Len(n) /\ t.space = s.space \o n
      BY <2>4
    <3> HIDE DEF v
    <3>4. v.start + v.len <= Len(t.space)
      BY <2>2, <3>2, <3>3
    <3>5. SubSeq(t.space, v.start + 1, v.start + v.len) = n
      BY <3>1, <3>3
    <3> QED BY <3>4, <3>5 DEF Spells
  <2>11. SeenOnce(t)
    <3>1. ASSUME NEW c \in Buckets, NEW i \in DOMAIN t.seen[c]
          PROVE  /\ hash_str(t.seen[c][i].key) = c
                 /\ Spells(t.space, t.seen[c][i].val, t.seen[c][i].key)
                 /\ \A j \in DOMAIN t.seen[c] : t.seen[c][j].key = t.seen[c][i].key => j = i
      <4>1. CASE c # b
        BY <1>0, <2>6, <2>9, <4>1 DEF SeenOnce
      <4>2. CASE c = b
        <5>1. \A j \in DOMAIN t.seen[b] :
                \/ j \in DOMAIN s.seen[b] /\ t.seen[b][j] = s.seen[b][j]
                \/ j = Len(s.seen[b]) + 1 /\ t.seen[b][j] = e
          BY <2>5, <2>6
        <5>2. hash_str(n) = b
          BY DEF b
        <5>3. \A j, k \in DOMAIN s.seen[b] : s.seen[b][j].key = s.seen[b][k].key => j = k
          BY <1>0 DEF SeenOnce
        <5>4. \A j \in DOMAIN s.seen[b] : s.seen[b][j].key # n
          BY <1>0, <2>9
        <5>5. i \in DOMAIN t.seen[b] /\ t.seen[c] = t.seen[b]
          BY <3>1, <4>2
        <5>6. \A j \in DOMAIN t.seen[b] : t.seen[b][j].key = t.seen[b][i].key => j = i
          BY <2>8, <5>1, <5>3, <5>4, <5>5
        <5>7. /\ hash_str(t.seen[b][i].key) = b
              /\ Spells(t.space, t.seen[b][i].val, t.seen[b][i].key)
          BY <1>0, <2>8, <2>9, <2>10, <5>1, <5>2, <5>5
        <5> QED BY <4>2, <5>6, <5>7
      <4> QED BY <4>1, <4>2
    <3> QED BY <3>1 DEF SeenOnce
  <2>12. Met(t, n)
    <3>1. Len(s.seen[b]) + 1 \in DOMAIN t.seen[b] /\ t.seen[b][Len(s.seen[b]) + 1].key = n
      BY <2>5, <2>6, <2>8
    <3> QED BY <3>1 DEF Met, Hits, b
  <2>13. AllCut(t)
    <3>1. ASSUME NEW a \in DOMAIN t.symbols PROVE Cut(t, t.symbols[a])
      <4>1. t.symbols[a] = s.symbols[a] /\ Cut(s, s.symbols[a]) /\ s.symbols[a] \in Symbol
        BY <1>0, <2>4, TableIs DEF Sound, AllCut
      <4> DEFINE y == s.symbols[a]
                 c == hash_str(y.iden)
      <4>2. c \in Buckets
        BY <4>1, NamesAssumption, HashOfString DEF Symbol
      <4>3. \A i \in DOMAIN s.seen[c] : i \in DOMAIN t.seen[c] /\ t.seen[c][i] = s.seen[c][i]
        <5> HIDE DEF c
        <5>1. CASE c # b
          BY <2>6, <4>2, <5>1
        <5>2. CASE c = b
          BY <2>5, <2>6, <5>2
        <5> QED BY <5>1, <5>2
      <4> QED BY <4>1, <4>3 DEF Cut
    <3> QED BY <3>1 DEF AllCut
  <2>14. Keyed(t) /\ DataKnown(t)
    BY <2>4 DEF Sound, Keyed, DataKnown, EntriesOf
  <2> QED BY <2>4, <2>7, <2>11, <2>12, <2>13, <2>14 DEF Sound
<1> QED BY <1>1, <1>2

(* One symbol more than there were, and nothing else that is looked at. *)
Adds(s, t, n, sc) ==
  /\ t.table = s.table /\ t.attrs = s.attrs
  /\ Len(t.symbols) = Len(s.symbols) + 1
  /\ DOMAIN s.symbols = 1..Len(s.symbols) /\ Len(s.symbols) \in Nat
  /\ DOMAIN t.symbols = 1..(Len(s.symbols) + 1)
  /\ \A a \in DOMAIN s.symbols : t.symbols[a] = s.symbols[a]
  /\ Origin(t.symbols[Len(s.symbols) + 1]) = <<n, sc>>

(* A symbol more changes nothing of what the others are. *)
LEMMA MakeIs ==
  ASSUME NEW s, Sound(s), NEW n \in Names, Met(s, n), NEW sc \in 0..LastScope,
         NEW t, t = make_symbol(s, n, sc)
  PROVE  Sound(t) /\ Adds(s, t, n, sc) /\ t.live = s.live
<1> DEFINE b == hash_str(n)
           index == hashmap_get(s.seen, b, {n})
           y == [start |-> index.start, len |-> index.len, scope |-> sc, iden |-> n]
<1>0. s \in Table /\ b \in Buckets
  BY NamesAssumption, HashOfString DEF Sound
<1>1. s.seen[b] \in Seq(Spelling) /\ s.symbols \in Seq(Symbol)
  BY <1>0, TableIs
<1>2. PICK i \in DOMAIN s.seen[b] : s.seen[b][i].key = n /\ index = s.seen[b][i].val
  <2>1. Hits(s.seen, b, {n}) # {}
    BY DEF Met
  <2> HIDE DEF b
  <2>2. \E i \in DOMAIN s.seen[b] : s.seen[b][i].key \in {n} /\ index = s.seen[b][i].val
    BY <1>1, <2>1, GetIs, ZenonT(60)
  <2> QED BY <2>2
<1>3. t = [s EXCEPT !.symbols = Append(@, y)]
  BY DEF make_symbol
<1> HIDE DEF index
<1>4. s.seen[b][i] \in Spelling
  <2> HIDE DEF b
  <2> QED BY <1>1
<1>5. index \in Slices /\ s.seen[b][i] = [key |-> n, val |-> index]
  BY <1>2, <1>4 DEF Spelling
<1>6. y \in Symbol /\ y.iden = n /\ y.scope = sc /\ Slice(y) = index
  BY <1>5 DEF Symbol, Slices, Slice
<1>7. Cut(s, y)
  BY <1>2, <1>5, <1>6 DEF Cut
<1> HIDE DEF y, b
<1>8. /\ t.space = s.space /\ t.seen = s.seen /\ t.table = s.table /\ t.attrs = s.attrs
      /\ t.live = s.live /\ t.symbols = Append(s.symbols, y)
  BY <1>0, <1>3 DEF Table
<1>9. /\ Append(s.symbols, y) \in Seq(Symbol)
      /\ Len(t.symbols) = Len(s.symbols) + 1
      /\ DOMAIN s.symbols = 1..Len(s.symbols) /\ Len(s.symbols) \in Nat
      /\ DOMAIN t.symbols = 1..(Len(s.symbols) + 1)
      /\ \A a \in DOMAIN s.symbols : t.symbols[a] = s.symbols[a]
      /\ t.symbols[Len(s.symbols) + 1] = y
  BY <1>1, <1>6, <1>8
<1>10. t \in Table
  BY <1>0, <1>3, <1>9 DEF Table
<1>11. SeenOnce(t)
  BY <1>8 DEF Sound, SeenOnce
<1>12. AllCut(t)
  <2>1. \A z : Cut(t, z) <=> Cut(s, z)
    BY <1>8 DEF Cut
  <2>2. \A a \in DOMAIN t.symbols : a \in DOMAIN s.symbols \/ a = Len(s.symbols) + 1
    BY <1>9
  <2> QED BY <1>7, <1>9, <2>1, <2>2 DEF AllCut, Sound
<1>13. Keyed(t) /\ DataKnown(t)
  <2>1. EntriesOf(t) = EntriesOf(s) /\ Keyed(s) /\ DataKnown(s)
    BY <1>8 DEF EntriesOf, Sound
  <2>2. DOMAIN s.symbols \subseteq DOMAIN t.symbols
    BY <1>9
  <2>3. DataKnown(t)
    BY <1>8, <2>1, <2>2 DEF DataKnown
  <2>4. Keyed(t)
    BY <1>8, <1>9, <2>1, <2>2, SMTT(30) DEF Keyed
  <2> QED BY <2>3, <2>4
<1>14. Adds(s, t, n, sc)
  BY <1>6, <1>8, <1>9 DEF Adds, Origin
<1> QED BY <1>8, <1>10, <1>11, <1>12, <1>13, <1>14 DEF Sound

(* What is to be freed is nobody else's business. *)
LEMMA RegisterIs ==
  ASSUME NEW s, Sound(s), NEW a \in Nat, NEW t, t = Register(s, a)
  PROVE  /\ Sound(t) /\ t.symbols = s.symbols /\ t.table = s.table /\ t.attrs = s.attrs
         /\ t.seen = s.seen
<1>1. CASE t = s
  BY <1>1
<1>2. CASE t = [s EXCEPT !.live = Append(@, a)]
  <2>1. s \in Table /\ s.live \in Seq(Nat) /\ Append(s.live, a) \in Seq(Nat)
    BY TableIs DEF Sound
  <2>2. /\ t.symbols = s.symbols /\ t.table = s.table /\ t.attrs = s.attrs
        /\ t.seen = s.seen /\ t.space = s.space
    BY <1>2, <2>1 DEF Table
  <2>3. t \in Table
    BY <1>2, <2>1 DEF Table
  <2>4. SeenOnce(t) /\ DataKnown(t)
    BY <2>2 DEF Sound, SeenOnce, DataKnown
  <2>5. AllCut(t)
    <3>1. \A z : Cut(t, z) <=> Cut(s, z)
      BY <2>2 DEF Cut
    <3> QED BY <2>2, <3>1 DEF Sound, AllCut
  <2>6. Keyed(t)
    <3>1. EntriesOf(t) = EntriesOf(s)
      BY <2>2 DEF EntriesOf
    <3> QED BY <2>2, <3>1 DEF Sound, Keyed
  <2> QED BY <2>2, <2>3, <2>4, <2>5, <2>6 DEF Sound
<1> QED BY <1>1, <1>2 DEF Register

(* A mention of a name makes a symbol for it. *)
LEMMA AddIs ==
  ASSUME NEW s, Sound(s), NEW n \in Names, NEW sc \in 0..LastScope,
         NEW t, t = symboltable_add(s, n, sc)
  PROVE  Sound(t) /\ Adds(s, t, n, sc)
<1> DEFINE u == Intern(s, n)
           m == make_symbol(u, n, sc)
<1>1. Sound(u) /\ Met(u, n) /\ u.symbols = s.symbols /\ u.table = s.table /\ u.attrs = s.attrs
  BY InternIs
<1> HIDE DEF u
<1>2. Sound(m) /\ Adds(u, m, n, sc)
  BY <1>1, MakeIs
<1>3. t = Register(m, Len(m.symbols))
  BY DEF symboltable_add, Newest, u
<1> HIDE DEF m
<1>4. Len(m.symbols) \in Nat
  BY <1>2 DEF Adds
<1>5. Sound(t) /\ t.symbols = m.symbols /\ t.table = m.table /\ t.attrs = m.attrs
  BY <1>2, <1>3, <1>4, RegisterIs
<1> QED BY <1>1, <1>2, <1>5 DEF Adds

(* A lookup of a name makes one if the name was met. *)
LEMMA GetSymbolIs ==
  ASSUME NEW s, Sound(s), NEW n \in Names, NEW t, t = GetSymbol(s, n)
  PROVE  Sound(t) /\ IF Met(s, n) THEN Adds(s, t, n, 0) ELSE t = s
<1>1. 0 \in 0..LastScope
  BY ScopeAssumption
<1> QED BY <1>1, MakeIs DEF GetSymbol

(***************************************************************************)
(* Looking up.                                                             *)
(***************************************************************************)
(* An entry is in a bucket. *)
LEMMA EntryIn ==
  ASSUME NEW s, Sound(s)
  PROVE  /\ \A b \in Buckets : \A i \in DOMAIN s.table[b] : s.table[b][i] \in EntriesOf(s)
         /\ \A e \in EntriesOf(s) :
              /\ \E b \in Buckets : \E i \in DOMAIN s.table[b] : e = s.table[b][i]
              /\ e.key \in DOMAIN s.symbols /\ e.val \in DOMAIN s.attrs
              /\ s.attrs[e.val].of = Origin(s.symbols[e.key])
              /\ e \in Entry
<1>1. DOMAIN s.table = Buckets /\ s.table \in [Buckets -> Seq(Entry)] /\ Keyed(s)
  BY TableIs DEF Sound
<1>2. \A b \in Buckets : \A i \in DOMAIN s.table[b] : s.table[b][i] \in EntriesOf(s)
  BY <1>1 DEF EntriesOf, Range
<1>3. \A e \in EntriesOf(s) : \E b \in Buckets : \E i \in DOMAIN s.table[b] : e = s.table[b][i]
  BY <1>1 DEF EntriesOf, Range
<1>4. \A b \in Buckets : \A i \in DOMAIN s.table[b] : s.table[b][i] \in Entry
  BY <1>1
<1> QED BY <1>1, <1>2, <1>3, <1>4 DEF Keyed

(* What is found is the attribute that was made for the name and the scope. *)
Found(s, v, o) ==
  IF v = 0 THEN \A e \in EntriesOf(s) : s.attrs[e.val].of # o
  ELSE \E e \in EntriesOf(s) : v = e.val /\ s.attrs[e.val].of = o

(* A bucket is searched for the contents of a symbol: what is found is the entry
   of that name and scope, and nothing is found when there is none (astree.c:236). *)
LEMMA AttributeAtIs ==
  ASSUME NEW s, Sound(s), NEW y \in Symbol, Cut(s, y)
  PROVE  Found(s, AttributeAt(s, y), Origin(y))
<1> DEFINE keys == {k \in DOMAIN s.symbols : equal_symbol(s.symbols[k], y)}
           b == hash_symbol(y)
           v == AttributeAt(s, y)
<1>0. /\ b \in Buckets /\ s \in Table /\ Keyed(s) /\ AllCut(s) /\ s.symbols \in Seq(Symbol)
      /\ s.table \in [Buckets -> Seq(Entry)] /\ s.attrs \in Seq(Attribute)
  BY HashOfSymbol, TableIs DEF Sound
<1>1. \A k \in DOMAIN s.symbols :
        /\ equal_symbol(s.symbols[k], y) <=> Origin(s.symbols[k]) = Origin(y)
        /\ equal_symbol(s.symbols[k], y) => hash_symbol(s.symbols[k]) = b
  <2>1. ASSUME NEW k \in DOMAIN s.symbols
        PROVE  /\ equal_symbol(s.symbols[k], y) <=> Origin(s.symbols[k]) = Origin(y)
               /\ equal_symbol(s.symbols[k], y) => hash_symbol(s.symbols[k]) = b
    <3>1. s.symbols[k] \in Symbol /\ Cut(s, s.symbols[k])
      BY <1>0 DEF AllCut
    <3> QED BY <3>1, EqualIsOrigin
  <2> QED BY <2>1
<1>2. \A k : k \in keys <=> k \in DOMAIN s.symbols /\ Origin(s.symbols[k]) = Origin(y)
  BY <1>1
<1>3. \A k \in keys : k \in DOMAIN s.symbols /\ hash_symbol(s.symbols[k]) = b
  BY <1>1
<1>4. v = IF Hits(s.table, b, keys) = {} THEN 0 ELSE hashmap_get(s.table, b, keys)
  BY DEF AttributeAt
<1> HIDE DEF keys, b, v
<1>5. CASE Hits(s.table, b, keys) = {}
  <2>1. ASSUME NEW e \in EntriesOf(s), s.attrs[e.val].of = Origin(y) PROVE FALSE
    <3>1. PICK c \in Buckets : \E i \in DOMAIN s.table[c] : e = s.table[c][i]
      BY EntryIn
    <3>2. PICK i \in DOMAIN s.table[c] : e = s.table[c][i]
      BY <3>1
    <3>3. /\ e.key \in DOMAIN s.symbols /\ hash_symbol(s.symbols[e.key]) = c
          /\ Origin(s.symbols[e.key]) = Origin(y)
      BY <1>0, <2>1, <3>2 DEF Keyed
    <3>4. e.key \in keys /\ c = b
      BY <1>2, <1>3, <3>3
    <3> QED BY <1>5, <3>2, <3>4 DEF Hits
  <2> QED BY <1>4, <1>5, <2>1 DEF Found, v
<1>6. CASE Hits(s.table, b, keys) # {}
  <2>1. s.table[b] \in Seq(Entry)
    BY <1>0
  <2>2. PICK i \in DOMAIN s.table[b] :
          s.table[b][i].key \in keys /\ hashmap_get(s.table, b, keys) = s.table[b][i].val
    BY <1>6, <2>1, GetIs, ZenonT(60)
  <2> DEFINE e == s.table[b][i]
  <2>3. e \in EntriesOf(s) /\ e.val \in DOMAIN s.attrs
    BY <1>0, EntryIn
  <2>4. v = e.val
    BY <1>4, <1>6, <2>2
  <2>5. s.attrs[e.val].of = Origin(y)
    BY <1>0, <1>2, <2>2 DEF Keyed
  <2>6. v # 0
    BY <1>0, <2>3, <2>4
  <2> HIDE DEF e
  <2> QED BY <2>3, <2>4, <2>5, <2>6 DEF Found, v
<1> QED BY <1>5, <1>6

(* What the table declares, as a function of name and scope. *)
DeclsOf(s) ==
  [d \in {s.attrs[e.val].of : e \in EntriesOf(s)} |->
     s.attrs[(CHOOSE e \in EntriesOf(s) : s.attrs[e.val].of = d).val].type]

(* The declarations a table stands for: one for each entry, with the kind of the
   attribute that the entry points to. *)
LEMMA DeclsAre ==
  ASSUME NEW s, Sound(s)
  PROVE  /\ DOMAIN DeclsOf(s) = {s.attrs[e.val].of : e \in EntriesOf(s)}
         /\ \A e \in EntriesOf(s) : /\ s.attrs[e.val].of \in DOMAIN DeclsOf(s)
                                    /\ DeclsOf(s)[s.attrs[e.val].of] = s.attrs[e.val].type
         /\ \A d \in DOMAIN DeclsOf(s) : \E e \in EntriesOf(s) : s.attrs[e.val].of = d
         /\ DeclsOf(s) = [d \in DOMAIN DeclsOf(s) |-> DeclsOf(s)[d]]
<1>1. DOMAIN DeclsOf(s) = {s.attrs[e.val].of : e \in EntriesOf(s)}
  BY DEF DeclsOf
<1>2. ASSUME NEW e \in EntriesOf(s)
      PROVE  /\ s.attrs[e.val].of \in DOMAIN DeclsOf(s)
             /\ DeclsOf(s)[s.attrs[e.val].of] = s.attrs[e.val].type
  <2> DEFINE d == s.attrs[e.val].of
             f == CHOOSE f \in EntriesOf(s) : s.attrs[f.val].of = d
  <2>1. d \in DOMAIN DeclsOf(s)
    BY <1>1
  <2>2. f \in EntriesOf(s) /\ s.attrs[f.val].of = d
    OBVIOUS
  <2>3. f = e
    BY <2>2 DEF Sound, Keyed
  <2>4. DeclsOf(s)[d] = s.attrs[f.val].type
    BY <2>1 DEF DeclsOf
  <2> QED BY <2>1, <2>3, <2>4
<1>3. DeclsOf(s) = [d \in DOMAIN DeclsOf(s) |-> DeclsOf(s)[d]]
  BY DEF DeclsOf
<1> QED BY <1>1, <1>2, <1>3

(* A lookup of a symbol finds what its name means in its scope. *)
MeansOf(D, n, sc) ==
  IF <<n, sc>> \in DOMAIN D THEN <<n, sc, D[<<n, sc>>]>>
  ELSE IF <<n, 0>> \in DOMAIN D THEN <<n, 0, D[<<n, 0>>]>>
  ELSE Null

(* astree_get_attribute finds what the name means in its scope: its own declaration,
   or else the global one (astree.c:230-247). *)
LEMMA LookupIs ==
  ASSUME NEW s, Sound(s), NEW a \in DOMAIN s.symbols, NEW y, y = s.symbols[a],
         NEW v, v = astree_get_attribute(s, a)
  PROVE  /\ v \in {e.val : e \in EntriesOf(s)} \cup {0}
         /\ MeansOf(DeclsOf(s), y.iden, y.scope) =
              IF v = 0 THEN Null
              ELSE <<s.attrs[v].of[1], s.attrs[v].of[2], s.attrs[v].type>>
<1> DEFINE z == [y EXCEPT !.scope = 0]
           own == AttributeAt(s, y)
           global == AttributeAt(s, z)
           D == DeclsOf(s)
<1>1. y \in Symbol /\ Cut(s, y)
  BY TableIs DEF Sound, AllCut
<1>2. z \in Symbol /\ z.iden = y.iden /\ z.start = y.start /\ z.len = y.len /\ z.scope = 0
  BY <1>1, ScopeAssumption DEF Symbol
<1>3. Cut(s, z)
  BY <1>1, <1>2 DEF Cut, Slice
<1>4. Found(s, own, <<y.iden, y.scope>>) /\ Found(s, global, <<y.iden, 0>>)
  BY <1>1, <1>2, <1>3, AttributeAtIs DEF Origin
<1>5. v = IF own # 0 THEN own ELSE global
  BY DEF astree_get_attribute
<1> HIDE DEF own, global
<1>6. ASSUME NEW u, u # 0, NEW n, NEW sc, Found(s, u, <<n, sc>>)
      PROVE  /\ u \in {e.val : e \in EntriesOf(s)}
             /\ <<n, sc>> \in DOMAIN D /\ D[<<n, sc>>] = s.attrs[u].type
             /\ s.attrs[u].of[1] = n /\ s.attrs[u].of[2] = sc
  <2>1. PICK e \in EntriesOf(s) : u = e.val /\ s.attrs[e.val].of = <<n, sc>>
    BY <1>6 DEF Found
  <2>2. s.attrs[e.val].of \in DOMAIN D /\ D[s.attrs[e.val].of] = s.attrs[e.val].type
    BY DeclsAre
  <2> HIDE DEF D
  <2>3. <<n, sc>> \in DOMAIN D /\ D[<<n, sc>>] = s.attrs[u].type
    BY <2>1, <2>2
  <2>4. u \in {f.val : f \in EntriesOf(s)}
    BY <2>1
  <2>5. s.attrs[u].of = <<n, sc>>
    BY <2>1
  <2> QED BY <2>3, <2>4, <2>5
<1>7. ASSUME NEW o, Found(s, 0, o) PROVE o \notin DOMAIN D
  BY <1>7, DeclsAre DEF Found
<1> HIDE DEF D
<1>8. CASE own # 0
  BY <1>4, <1>5, <1>6, <1>8 DEF MeansOf, D
<1>9. CASE own = 0 /\ global # 0
  BY <1>4, <1>5, <1>6, <1>7, <1>9 DEF MeansOf, D
<1>10. CASE own = 0 /\ global = 0
  BY <1>4, <1>5, <1>7, <1>10 DEF MeansOf, D
<1> QED BY <1>8, <1>9, <1>10

(***************************************************************************)
(* Declaring.                                                              *)
(***************************************************************************)
(* The same entries with the same attributes declare the same. *)
LEMMA SameDecls ==
  ASSUME NEW s, NEW t, Sound(s), Sound(t), EntriesOf(t) = EntriesOf(s),
         \A e \in EntriesOf(s) : t.attrs[e.val] = s.attrs[e.val]
  PROVE  DeclsOf(t) = DeclsOf(s)
<1>1. DOMAIN DeclsOf(t) = DOMAIN DeclsOf(s)
  <2>1. {t.attrs[e.val].of : e \in EntriesOf(t)} = {s.attrs[e.val].of : e \in EntriesOf(s)}
    OBVIOUS
  <2> QED BY <2>1, DeclsAre
<1>2. ASSUME NEW d \in DOMAIN DeclsOf(s) PROVE DeclsOf(t)[d] = DeclsOf(s)[d]
  <2>1. PICK e \in EntriesOf(s) : s.attrs[e.val].of = d
    BY DeclsAre
  <2>2. DeclsOf(s)[s.attrs[e.val].of] = s.attrs[e.val].type
    BY DeclsAre
  <2>3. DeclsOf(t)[t.attrs[e.val].of] = t.attrs[e.val].type
    BY DeclsAre
  <2> QED BY <2>1, <2>2, <2>3
<1>3. /\ DeclsOf(s) = [d \in DOMAIN DeclsOf(s) |-> DeclsOf(s)[d]]
      /\ DeclsOf(t) = [d \in DOMAIN DeclsOf(t) |-> DeclsOf(t)[d]]
  BY DeclsAre
<1> QED BY <1>1, <1>2, <1>3

(* A new attribute, that no entry leads to yet. *)
Makes(s, t, a, kind, data) ==
  /\ t.symbols = s.symbols /\ t.table = s.table
  /\ Len(s.attrs) \in Nat /\ Len(t.attrs) = Len(s.attrs) + 1
  /\ DOMAIN t.attrs = 1..(Len(s.attrs) + 1) /\ DOMAIN s.attrs = 1..Len(s.attrs)
  /\ \A x \in DOMAIN s.attrs : t.attrs[x] = s.attrs[x]
  /\ t.attrs[Len(s.attrs) + 1].type = kind
  /\ t.attrs[Len(s.attrs) + 1].data = data
  /\ t.attrs[Len(s.attrs) + 1].of = Origin(s.symbols[a])

Declarable(s, a, kind, data, list) ==
  /\ Sound(s) /\ a \in DOMAIN s.symbols /\ kind \in Kinds
  /\ data \in DOMAIN s.symbols \cup {0} /\ list \in Seq(Nat)

(* Making an attribute declares nothing yet: no entry points to it. *)
LEMMA CreateIs ==
  ASSUME NEW s, NEW a, NEW kind, NEW data, NEW list, Declarable(s, a, kind, data, list),
         NEW t, t = Create(s, a, kind, data, list)
  PROVE  /\ Sound(t) /\ Makes(s, t, a, kind, data)
         /\ EntriesOf(t) = EntriesOf(s) /\ DeclsOf(t) = DeclsOf(s)
<1> DEFINE x == [type |-> kind, data |-> data, list |-> list,
                 of |-> <<s.symbols[a].iden, s.symbols[a].scope>>]
           m == [s EXCEPT !.attrs = Append(@, x)]
<1>a. /\ Sound(s) /\ a \in DOMAIN s.symbols /\ kind \in Kinds
      /\ data \in DOMAIN s.symbols \cup {0} /\ list \in Seq(Nat)
  BY DEF Declarable
<1>0. /\ s \in Table /\ s.symbols \in Seq(Symbol) /\ s.attrs \in Seq(Attribute)
      /\ s.symbols[a] \in Symbol /\ Len(s.attrs) \in Nat /\ a \in Nat /\ data \in Nat
      /\ DOMAIN s.attrs = 1..Len(s.attrs)
  BY <1>a, TableIs DEF Sound
<1>1. x \in Attribute /\ x.type = kind /\ x.data = data /\ x.of = Origin(s.symbols[a])
  BY <1>0, <1>a DEF Attribute, Symbol, Origin
<1> HIDE DEF x
<1>2. /\ m.symbols = s.symbols /\ m.table = s.table /\ m.seen = s.seen
      /\ m.space = s.space /\ m.attrs = Append(s.attrs, x)
  BY <1>0 DEF Table
<1>3. /\ Append(s.attrs, x) \in Seq(Attribute) /\ Len(m.attrs) = Len(s.attrs) + 1
      /\ DOMAIN m.attrs = 1..(Len(s.attrs) + 1)
      /\ \A k \in DOMAIN s.attrs : m.attrs[k] = s.attrs[k]
      /\ m.attrs[Len(s.attrs) + 1] = x
  BY <1>0, <1>1, <1>2
<1>4. m \in Table
  BY <1>0, <1>3 DEF Table
<1>5. t = IF kind \in {"SARRAY", "SSTRUCT"} THEN Register(m, data) ELSE m
  BY DEF Create, x
<1> HIDE DEF m
<1>6. Makes(s, m, a, kind, data)
  BY <1>0, <1>1, <1>2, <1>3 DEF Makes
<1>7. Sound(m)
  <2>0. SeenOnce(m)
    BY <1>2, <1>a DEF Sound, SeenOnce
  <2>5. \A z : Cut(m, z) <=> Cut(s, z)
    BY <1>2 DEF Cut
  <2>1. AllCut(m)
    BY <1>2, <1>a, <2>5 DEF Sound, AllCut
  <2>2. EntriesOf(m) = EntriesOf(s) /\ \A e \in EntriesOf(s) : e.val \in DOMAIN s.attrs
    BY <1>2, <1>a, EntryIn DEF EntriesOf
  <2>3. Keyed(m)
    <3>1. ASSUME NEW b \in Buckets, NEW i \in DOMAIN m.table[b]
          PROVE  /\ m.table[b][i].key \in DOMAIN m.symbols
                 /\ m.table[b][i].val \in DOMAIN m.attrs
                 /\ hash_symbol(m.symbols[m.table[b][i].key]) = b
                 /\ m.attrs[m.table[b][i].val].of = Origin(m.symbols[m.table[b][i].key])
      <4>1. /\ i \in DOMAIN s.table[b] /\ s.table[b][i].val \in DOMAIN s.attrs
            /\ s.table[b][i].key \in DOMAIN s.symbols
            /\ hash_symbol(s.symbols[s.table[b][i].key]) = b
            /\ s.attrs[s.table[b][i].val].of = Origin(s.symbols[s.table[b][i].key])
        BY <1>2, <1>a DEF Sound, Keyed
      <4>2. s.table[b][i].val \in DOMAIN m.attrs
        BY <1>0, <1>3, <4>1
      <4> QED BY <1>2, <1>3, <4>1, <4>2
    <3>2. ASSUME NEW e \in EntriesOf(m), NEW f \in EntriesOf(m), m.attrs[e.val].of = m.attrs[f.val].of
          PROVE  e = f
      BY <1>3, <1>a, <2>2, <3>2 DEF Sound, Keyed
    <3> QED BY <3>1, <3>2 DEF Keyed
  <2>4. DataKnown(m)
    <3>1. \A k \in DOMAIN m.attrs : k \in DOMAIN s.attrs \/ k = Len(s.attrs) + 1
      BY <1>0, <1>3
    <3> QED BY <1>1, <1>2, <1>3, <1>a, <3>1 DEF DataKnown, Sound
  <2> QED BY <1>4, <2>0, <2>1, <2>3, <2>4 DEF Sound
<1>8. Sound(t) /\ t.symbols = m.symbols /\ t.table = m.table /\ t.attrs = m.attrs
  BY <1>0, <1>5, <1>7, RegisterIs, ZenonT(60)
<1>9. Makes(s, t, a, kind, data)
  BY <1>6, <1>8 DEF Makes
<1>10. EntriesOf(t) = EntriesOf(s)
  BY <1>9 DEF Makes, EntriesOf
<1>11. \A e \in EntriesOf(s) : t.attrs[e.val] = s.attrs[e.val]
  BY <1>9, <1>a, EntryIn DEF Makes
<1>12. DeclsOf(t) = DeclsOf(s)
  BY <1>8, <1>a, <1>10, <1>11, SameDecls
<1> QED BY <1>8, <1>9, <1>10, <1>12

(* Entered under a symbol whose name has none in its scope, the attribute is its
   declaration. *)
Enter(s, a, x) ==
  [s EXCEPT !.table = hashmap_add(@, hash_symbol(s.symbols[a]), a, x)]

(* hashmap_add with a symbol that has no entry yet adds exactly one declaration. *)
LEMMA EnterIs ==
  ASSUME NEW s, Sound(s), NEW a \in DOMAIN s.symbols, NEW x \in DOMAIN s.attrs,
         NEW o, o = Origin(s.symbols[a]), s.attrs[x].of = o, Found(s, 0, o),
         NEW t, t = Enter(s, a, x)
  PROVE  /\ Sound(t) /\ t.symbols = s.symbols /\ t.attrs = s.attrs
         /\ EntriesOf(t) = EntriesOf(s) \cup {[key |-> a, val |-> x]}
         /\ DeclsOf(t) = [d \in DOMAIN DeclsOf(s) \cup {o} |->
                            IF d = o THEN s.attrs[x].type ELSE DeclsOf(s)[d]]
<1> DEFINE b == hash_symbol(s.symbols[a])
           e == [key |-> a, val |-> x]
           q == Append(s.table[b], e)
<1>0. /\ s \in Table /\ s.symbols \in Seq(Symbol) /\ s.attrs \in Seq(Attribute)
      /\ s.table \in [Buckets -> Seq(Entry)] /\ s.symbols[a] \in Symbol
      /\ DOMAIN s.table = Buckets /\ Keyed(s)
  BY TableIs DEF Sound
<1>1. b \in Buckets /\ e \in Entry /\ e.key = a /\ e.val = x
  BY <1>0, HashOfSymbol DEF Entry
<1>2. t = [s EXCEPT !.table = [s.table EXCEPT ![b] = q]]
  BY DEF hashmap_add, Enter
<1>3. b = hash_symbol(s.symbols[a])
  OBVIOUS
<1> HIDE DEF b, e
<1>4. /\ q \in Seq(Entry) /\ Len(s.table[b]) \in Nat
      /\ DOMAIN s.table[b] = 1..Len(s.table[b])
      /\ DOMAIN q = 1..(Len(s.table[b]) + 1)
      /\ \A i \in DOMAIN s.table[b] : q[i] = s.table[b][i]
      /\ q[Len(s.table[b]) + 1] = e
  <2>1. s.table[b] \in Seq(Entry)
    BY <1>0, <1>1
  <2> QED BY <1>1, <2>1
<1> HIDE DEF q
<1>5. /\ t.symbols = s.symbols /\ t.attrs = s.attrs /\ t.seen = s.seen /\ t.space = s.space
      /\ t.table = [s.table EXCEPT ![b] = q]
  BY <1>0, <1>2 DEF Table
<1>6. /\ t.table[b] = q /\ DOMAIN t.table = Buckets
      /\ \A c \in Buckets : c # b => t.table[c] = s.table[c]
  BY <1>0, <1>1, <1>5
<1>7. t \in Table
  <2>1. [s.table EXCEPT ![b] = q] \in [Buckets -> Seq(Entry)]
    BY <1>0, <1>1, <1>4
  <2> QED BY <1>0, <1>2, <2>1 DEF Table
<1>8. \A c \in Buckets : \A i \in DOMAIN t.table[c] :
        \/ i \in DOMAIN s.table[c] /\ t.table[c][i] = s.table[c][i]
        \/ c = b /\ t.table[c][i] = e
  <2>1. ASSUME NEW c \in Buckets, NEW i \in DOMAIN t.table[c]
        PROVE  \/ i \in DOMAIN s.table[c] /\ t.table[c][i] = s.table[c][i]
               \/ c = b /\ t.table[c][i] = e
    <3>1. CASE c # b
      BY <1>6, <3>1
    <3>2. CASE c = b
      BY <1>4, <1>6, <3>2
    <3> QED BY <3>1, <3>2
  <2> QED BY <2>1
<1>9. EntriesOf(t) = EntriesOf(s) \cup {e}
  <2>1. \A f : f \in EntriesOf(t) <=> \E c \in Buckets : \E i \in DOMAIN t.table[c] : f = t.table[c][i]
    BY <1>6 DEF EntriesOf, Range
  <2>2. \A f : f \in EntriesOf(s) <=> \E c \in Buckets : \E i \in DOMAIN s.table[c] : f = s.table[c][i]
    BY <1>0 DEF EntriesOf, Range
  <2>3. \A f \in EntriesOf(t) : f \in EntriesOf(s) \/ f = e
    BY <1>8, <2>1, <2>2
  <2>4. e \in EntriesOf(t)
    <3>1. Len(s.table[b]) + 1 \in DOMAIN t.table[b] /\ t.table[b][Len(s.table[b]) + 1] = e
      BY <1>4, <1>6
    <3> QED BY <1>1, <2>1, <3>1
  <2>5. ASSUME NEW f \in EntriesOf(s) PROVE f \in EntriesOf(t)
    <3>1. PICK c \in Buckets : \E i \in DOMAIN s.table[c] : f = s.table[c][i]
      BY <2>2
    <3>2. PICK i \in DOMAIN s.table[c] : f = s.table[c][i]
      BY <3>1
    <3>3. i \in DOMAIN t.table[c] /\ t.table[c][i] = s.table[c][i]
      <4>1. CASE c # b
        BY <1>6, <4>1
      <4>2. CASE c = b
        BY <1>4, <1>6, <4>2
      <4> QED BY <4>1, <4>2
    <3> QED BY <2>1, <3>2, <3>3
  <2> QED BY <2>3, <2>4, <2>5
<1>10. \A f \in EntriesOf(s) : s.attrs[f.val].of # o
  BY DEF Found
<1>11. Keyed(t)
  <2>1. ASSUME NEW c \in Buckets, NEW i \in DOMAIN t.table[c]
        PROVE  /\ t.table[c][i].key \in DOMAIN t.symbols
               /\ t.table[c][i].val \in DOMAIN t.attrs
               /\ hash_symbol(t.symbols[t.table[c][i].key]) = c
               /\ t.attrs[t.table[c][i].val].of = Origin(t.symbols[t.table[c][i].key])
    <3>1. CASE i \in DOMAIN s.table[c] /\ t.table[c][i] = s.table[c][i]
      <4>1. /\ s.table[c][i].key \in DOMAIN s.symbols /\ s.table[c][i].val \in DOMAIN s.attrs
            /\ hash_symbol(s.symbols[s.table[c][i].key]) = c
            /\ s.attrs[s.table[c][i].val].of = Origin(s.symbols[s.table[c][i].key])
        BY <1>0, <3>1 DEF Keyed
      <4>2. t.symbols = s.symbols /\ t.attrs = s.attrs
        BY <1>5
      <4> QED BY <3>1, <4>1, <4>2
    <3>2. CASE c = b /\ t.table[c][i] = e
      BY <1>1, <1>3, <1>5, <3>2
    <3> QED BY <1>8, <3>1, <3>2
  <2>2. ASSUME NEW f \in EntriesOf(t), NEW g \in EntriesOf(t), t.attrs[f.val].of = t.attrs[g.val].of
        PROVE  f = g
    <3>1. CASE f \in EntriesOf(s) /\ g \in EntriesOf(s)
      BY <1>0, <1>5, <2>2, <3>1 DEF Keyed
    <3>2. CASE f = e /\ g \in EntriesOf(s)
      BY <1>1, <1>5, <1>10, <2>2, <3>2
    <3>3. CASE g = e /\ f \in EntriesOf(s)
      BY <1>1, <1>5, <1>10, <2>2, <3>3
    <3> QED BY <1>9, <3>1, <3>2, <3>3
  <2> QED BY <2>1, <2>2 DEF Keyed
<1>12. Sound(t)
  <2>1. SeenOnce(t) /\ AllCut(t)
    BY <1>5 DEF Sound, SeenOnce, AllCut, Cut
  <2>2. DataKnown(t)
    BY <1>5 DEF Sound, DataKnown
  <2> QED BY <1>7, <1>11, <2>1, <2>2 DEF Sound
<1>13. DeclsOf(t) = [d \in DOMAIN DeclsOf(s) \cup {o} |->
                       IF d = o THEN s.attrs[x].type ELSE DeclsOf(s)[d]]
  <2>1. DOMAIN DeclsOf(t) = DOMAIN DeclsOf(s) \cup {o}
    <3>1. {t.attrs[f.val].of : f \in EntriesOf(t)} = {s.attrs[f.val].of : f \in EntriesOf(s)} \cup {o}
      BY <1>1, <1>5, <1>9
    <3>2. DOMAIN DeclsOf(t) = {t.attrs[f.val].of : f \in EntriesOf(t)}
      BY ONLY <1>12, DeclsAre
    <3>3. DOMAIN DeclsOf(s) = {s.attrs[f.val].of : f \in EntriesOf(s)}
      BY DeclsAre
    <3> QED BY <3>1, <3>2, <3>3
  <2>2. ASSUME NEW f \in EntriesOf(t)
        PROVE  /\ t.attrs[f.val].of = s.attrs[f.val].of
               /\ DeclsOf(t)[s.attrs[f.val].of] = s.attrs[f.val].type
    <3>1. DeclsOf(t)[t.attrs[f.val].of] = t.attrs[f.val].type
      BY ONLY <1>12, <2>2, DeclsAre
    <3>2. t.attrs = s.attrs
      BY <1>5
    <3> QED BY <3>1, <3>2
  <2>3. DeclsOf(t)[o] = s.attrs[x].type
    BY <1>1, <1>9, <2>2
  <2>4. ASSUME NEW d \in DOMAIN DeclsOf(s) PROVE d # o /\ DeclsOf(t)[d] = DeclsOf(s)[d]
    <3>1. PICK f \in EntriesOf(s) : s.attrs[f.val].of = d
      BY DeclsAre
    <3>2. DeclsOf(s)[s.attrs[f.val].of] = s.attrs[f.val].type
      BY DeclsAre
    <3>3. DeclsOf(t)[s.attrs[f.val].of] = s.attrs[f.val].type
      BY <1>9, <2>2
    <3> QED BY <1>10, <3>1, <3>2, <3>3
  <2>5. DeclsOf(t) = [d \in DOMAIN DeclsOf(t) |-> DeclsOf(t)[d]]
    BY <1>12, DeclsAre
  <2> QED BY <2>1, <2>3, <2>4, <2>5
<1> QED BY <1>5, <1>9, <1>12, <1>13 DEF e

(***************************************************************************)
(* A declaration as a step.                                                *)
(***************************************************************************)
(* What a declaration makes of a table: an attribute more, and an entry for it
   unless the name has one in its scope. *)
Fresh(s, a, kind, data, x) ==
  x.type = kind /\ x.data = data /\ x.of = Origin(s.symbols[a])

Declared(s, t, a, kind, data) ==
  /\ Sound(t) /\ t.symbols = s.symbols
  /\ \A x \in DOMAIN s.attrs : x \in DOMAIN t.attrs /\ t.attrs[x] = s.attrs[x]
  /\ IF Origin(s.symbols[a]) \in DOMAIN DeclsOf(s)
     THEN EntriesOf(t) = EntriesOf(s) /\ DeclsOf(t) = DeclsOf(s)
     ELSE /\ \E v \in DOMAIN t.attrs :
               /\ EntriesOf(t) = EntriesOf(s) \cup {[key |-> a, val |-> v]}
               /\ Fresh(s, a, kind, data, t.attrs[v])
          /\ DeclsOf(t) = [d \in DOMAIN DeclsOf(s) \cup {Origin(s.symbols[a])} |->
                             IF d = Origin(s.symbols[a]) THEN kind ELSE DeclsOf(s)[d]]

(* astree_add_attribute declares a symbol that is new in its scope, and reports one
   that is not, without touching the table. *)
LEMMA DeclareIs ==
  ASSUME NEW s, NEW a, NEW kind, NEW data, NEW list, Declarable(s, a, kind, data, list),
         Declare(s, a, kind, data, list)
  PROVE  /\ Declared(s, st', a, kind, data)
         /\ reports' = IF Origin(s.symbols[a]) \in DOMAIN DeclsOf(s)
                       THEN reports + 1 ELSE reports
<1> DEFINE made == Create(s, a, kind, data, list)
           y    == s.symbols[a]
           o    == Origin(y)
           x    == Len(made.attrs)
           u    == Enter(made, a, x)
           at   == AttributeAt(made, y)
<1>a. /\ Sound(s) /\ a \in DOMAIN s.symbols /\ kind \in Kinds
      /\ data \in DOMAIN s.symbols \cup {0} /\ list \in Seq(Nat)
  BY DEF Declarable
<1>1. /\ at # 0 => st' = made /\ reports' = reports + 1
      /\ at = 0 => st' = Register(u, a) /\ reports' = reports
  <2>1. /\ at # 0 => st' = made /\ reports' = reports + 1
        /\ at = 0 => /\ st' = Register([made EXCEPT !.table = hashmap_add(@, hash_symbol(y), a, x)], a)
                     /\ reports' = reports
    BY DEF Declare
  <2>2. made.symbols = s.symbols
    <3>1. \A q : q = made => Makes(s, q, a, kind, data)
      BY CreateIs
    <3> QED BY <3>1 DEF Makes
  <2> QED BY <2>1, <2>2 DEF Enter
<1>7. made = Create(s, a, kind, data, list)
  OBVIOUS
<1> HIDE DEF made
<1>0. Sound(made) /\ Makes(s, made, a, kind, data)
      /\ EntriesOf(made) = EntriesOf(s) /\ DeclsOf(made) = DeclsOf(s)
  BY <1>7, CreateIs
<1>2. /\ made.symbols = s.symbols /\ x \in DOMAIN made.attrs
      /\ Fresh(s, a, kind, data, made.attrs[x])
      /\ \A k \in DOMAIN s.attrs : k \in DOMAIN made.attrs /\ made.attrs[k] = s.attrs[k]
  BY <1>0 DEF Makes, Fresh
<1>3. y \in Symbol /\ made.symbols[a] = y /\ a \in DOMAIN made.symbols /\ a \in Nat
  BY <1>2, <1>a, TableIs DEF Sound
<1>4. Found(made, at, o)
  <2>1. Cut(made, y)
    BY <1>0, <1>3 DEF Sound, AllCut
  <2> QED BY <1>0, <1>3, <2>1, AttributeAtIs
<1> HIDE DEF at, x
<1>5. CASE at # 0
  <2>1. o \in DOMAIN DeclsOf(s)
    <3>1. \E e \in EntriesOf(made) : made.attrs[e.val].of = o
      BY <1>4, <1>5 DEF Found
    <3>2. \A e \in EntriesOf(made) : made.attrs[e.val].of \in DOMAIN DeclsOf(made)
      BY ONLY <1>0, DeclsAre
    <3> QED BY <1>0, <3>1, <3>2
  <2> QED BY <1>0, <1>1, <1>2, <1>5, <2>1 DEF Declared
<1>6. CASE at = 0
  <2>1. o \notin DOMAIN DeclsOf(s)
    <3>1. \A e \in EntriesOf(made) : made.attrs[e.val].of # o
      BY <1>4, <1>6 DEF Found
    <3>2. \A d \in DOMAIN DeclsOf(made) : \E e \in EntriesOf(made) : made.attrs[e.val].of = d
      BY <1>0, DeclsAre
    <3> QED BY <1>0, <3>1, <3>2
  <2>2. Found(made, 0, o)
    BY <1>4, <1>6
  <2>3. made.attrs[x].of = o /\ made.attrs[x].type = kind
    BY <1>2 DEF Fresh
  <2>4. o = Origin(made.symbols[a])
        /\ u = Enter(made, a, x)
    BY <1>3
  <2>14. Sound(made) /\ a \in DOMAIN made.symbols /\ x \in DOMAIN made.attrs
    BY <1>0, <1>2, <1>3
  <2> HIDE DEF u, o, y
  <2>5. /\ Sound(u) /\ u.symbols = made.symbols /\ u.attrs = made.attrs
        /\ EntriesOf(u) = EntriesOf(made) \cup {[key |-> a, val |-> x]}
        /\ DeclsOf(u) = [d \in DOMAIN DeclsOf(made) \cup {o} |->
                           IF d = o THEN made.attrs[x].type ELSE DeclsOf(made)[d]]
    BY ONLY <2>2, <2>3, <2>4, <2>14, EnterIs
  <2>6. Sound(st') /\ st'.symbols = u.symbols /\ st'.table = u.table /\ st'.attrs = u.attrs
    BY <1>1, <1>3, <1>6, <2>5, RegisterIs
  <2>7. EntriesOf(st') = EntriesOf(u)
    BY <2>6 DEF EntriesOf
  <2>8. DeclsOf(st') = DeclsOf(u)
    BY <2>5, <2>6, <2>7, SameDecls
  <2>9. \E v \in DOMAIN st'.attrs :
          /\ EntriesOf(st') = EntriesOf(s) \cup {[key |-> a, val |-> v]}
          /\ Fresh(s, a, kind, data, st'.attrs[v])
    BY <1>0, <1>2, <2>5, <2>6, <2>7
  <2>10. DeclsOf(st') = [d \in DOMAIN DeclsOf(s) \cup {o} |->
                           IF d = o THEN kind ELSE DeclsOf(s)[d]]
    BY <1>0, <2>3, <2>5, <2>8
  <2>11. o = Origin(s.symbols[a])
    BY DEF o, y
  <2>12. \A k \in DOMAIN s.attrs : k \in DOMAIN st'.attrs /\ st'.attrs[k] = s.attrs[k]
    BY <1>2, <2>5, <2>6
  <2>13. Declared(s, st', a, kind, data)
    BY <1>2, <2>1, <2>5, <2>6, <2>9, <2>10, <2>11, <2>12 DEF Declared
  <2> QED BY <1>1, <1>6, <2>1, <2>11, <2>13
<1> QED BY <1>5, <1>6

(***************************************************************************)
(* Arrays' types.                                                          *)
(***************************************************************************)
(* The symbol of no array's type is a key, or held to become one. *)
Apart(s, H) ==
  \A e \in EntriesOf(s) :
    s.attrs[e.val].type = "SARRAY" /\ s.attrs[e.val].data # 0 =>
      s.attrs[e.val].data \notin H \cup {f.key : f \in EntriesOf(s)}

(* Less may be held. *)
LEMMA ApartLess ==
  ASSUME NEW s, NEW H, NEW K, Apart(s, H), K \subseteq H \cup {0}
  PROVE  Apart(s, K)
BY DEF Apart

(* A mention makes a symbol that is apart from all there were. *)
Mentions(s, t, H, n, sc) ==
  /\ Sound(t) /\ Adds(s, t, n, sc)
  /\ EntriesOf(t) = EntriesOf(s) /\ DeclsOf(t) = DeclsOf(s)
  /\ Apart(t, H \cup {Len(s.symbols) + 1})
  /\ Len(s.symbols) + 1 \notin H
  /\ \A e \in EntriesOf(t) : e.key # Len(s.symbols) + 1

(* A symbol that was just added is held by nobody, and is the key of nothing. *)
LEMMA AddsApart ==
  ASSUME NEW s, Sound(s), NEW t, Sound(t), NEW n, NEW sc, Adds(s, t, n, sc),
         NEW H, Apart(s, H), H \subseteq DOMAIN s.symbols \cup {0}
  PROVE  Mentions(s, t, H, n, sc)
<1> DEFINE a == Len(s.symbols) + 1
<1>1. /\ t.table = s.table /\ t.attrs = s.attrs /\ Len(s.symbols) \in Nat
      /\ DOMAIN s.symbols = 1..Len(s.symbols)
  BY DEF Adds
<1>2. EntriesOf(t) = EntriesOf(s)
  BY <1>1 DEF EntriesOf
<1>3. DeclsOf(t) = DeclsOf(s)
  BY <1>1, <1>2, SameDecls
<1>4. a \notin DOMAIN s.symbols /\ a # 0
  BY <1>1
<1> HIDE DEF a
<1>5. \A e \in EntriesOf(s) : /\ e.key \in DOMAIN s.symbols
                              /\ s.attrs[e.val].data \in DOMAIN s.symbols \cup {0}
  <2>1. \A e \in EntriesOf(s) : e.key \in DOMAIN s.symbols /\ e.val \in DOMAIN s.attrs
    BY EntryIn
  <2> QED BY <2>1 DEF Sound, DataKnown
<1>6. Apart(t, H \cup {a})
  BY <1>1, <1>2, <1>4, <1>5 DEF Apart
<1>7. a \notin H /\ \A e \in EntriesOf(t) : e.key # a
  BY <1>2, <1>4, <1>5
<1> QED BY <1>2, <1>3, <1>6, <1>7 DEF Mentions, a

(* astree_add_symbol spells the name and leaves every declaration as it was. *)
LEMMA MentionIs ==
  ASSUME NEW s, Sound(s), NEW n \in Names, NEW sc \in 0..LastScope,
         NEW t, t = symboltable_add(s, n, sc),
         NEW H, Apart(s, H), H \subseteq DOMAIN s.symbols \cup {0}
  PROVE  Mentions(s, t, H, n, sc)
<1>1. Sound(t) /\ Adds(s, t, n, sc)
  BY AddIs
<1> QED BY <1>1, AddsApart

(* A name that is to be declared and, if there is one, the symbol of its type. *)
Paired(s, t, H, n, sc, data) ==
  LET a == Len(s.symbols) + 1 IN
  /\ Sound(t) /\ DeclsOf(t) = DeclsOf(s)
  /\ a \in DOMAIN t.symbols /\ DOMAIN s.symbols \subseteq DOMAIN t.symbols
  /\ Origin(t.symbols[a]) = <<n, sc>>
  /\ Apart(t, H \cup {a})
  /\ data \in DOMAIN t.symbols \cup {0}
  /\ data # 0 => data \notin H \cup {a} /\ \A e \in EntriesOf(t) : e.key # data

(* A name alone. *)
LEMMA AloneIs ==
  ASSUME NEW s, Sound(s), NEW t, NEW H, NEW n, NEW sc, Mentions(s, t, H, n, sc)
  PROVE  Paired(s, t, H, n, sc, 0) /\ Newest(t) = Len(s.symbols) + 1
BY DEF Mentions, Paired, Adds, Newest

(* Two names, one after the other. *)
LEMMA PairedIs ==
  ASSUME NEW s, Sound(s), NEW H, H \subseteq DOMAIN s.symbols \cup {0},
         NEW n, NEW sc, NEW t, Mentions(s, t, H, n, sc),
         NEW m, NEW sd, NEW u, Sound(u), Adds(t, u, m, sd)
  PROVE  /\ Paired(s, u, H, n, sc, Newest(u))
         /\ Newest(t) = Len(s.symbols) + 1 /\ Newest(u) \in DOMAIN u.symbols
<1> DEFINE a == Len(s.symbols) + 1
           b == Len(t.symbols) + 1
           K == H \cup {a}
<1>1. /\ Sound(t) /\ DeclsOf(t) = DeclsOf(s) /\ Apart(t, K) /\ Adds(s, t, n, sc)
  BY DEF Mentions
<1>2. /\ DOMAIN s.symbols = 1..Len(s.symbols) /\ Len(s.symbols) \in Nat
      /\ Len(t.symbols) = a /\ a \in DOMAIN t.symbols
      /\ DOMAIN s.symbols \subseteq DOMAIN t.symbols
      /\ Origin(t.symbols[a]) = <<n, sc>>
  BY <1>1 DEF Adds
<1>3. K \subseteq DOMAIN t.symbols \cup {0}
  BY <1>2
<1> HIDE DEF K
<1>4. Mentions(t, u, K, m, sd)
  BY <1>1, <1>3, AddsApart
<1>5. /\ Len(u.symbols) = b /\ b \in DOMAIN u.symbols /\ b # 0
      /\ DOMAIN t.symbols \subseteq DOMAIN u.symbols
      /\ \A k \in DOMAIN t.symbols : u.symbols[k] = t.symbols[k]
  BY <1>2 DEF Adds
<1> HIDE DEF a, b
<1>6. /\ DeclsOf(u) = DeclsOf(t) /\ Apart(u, K \cup {b}) /\ b \notin K
      /\ \A e \in EntriesOf(u) : e.key # b
  BY <1>4 DEF Mentions, b
<1>7. Apart(u, K)
  BY <1>6, ApartLess
<1>8. Paired(s, u, H, n, sc, b)
  BY <1>1, <1>2, <1>5, <1>6, <1>7 DEF Paired, a, K
<1> QED BY <1>2, <1>5, <1>8 DEF Newest, a, b

(* What becomes of a declaration, for Scopes. *)
Outcome(n, sc, kind) ==
  IF <<n, sc>> \in DOMAIN DeclsOf(st)
  THEN DeclsOf(st') = DeclsOf(st) /\ reports' = reports + 1
  ELSE /\ DeclsOf(st') = [d \in DOMAIN DeclsOf(st) \cup {<<n, sc>>} |->
                            IF d = <<n, sc>> THEN kind ELSE DeclsOf(st)[d]]
       /\ reports' = reports

(* A declaration of what is held leaves arrays' types apart. *)
LEMMA DeclareKeeps ==
  ASSUME NEW s, NEW a, NEW kind, NEW data, NEW list, Declarable(s, a, kind, data, list),
         Declare(s, a, kind, data, list), DeclsOf(s) = DeclsOf(st),
         NEW H, a \in H, Apart(s, H),
         kind = "SARRAY" /\ data # 0 =>
           data \notin H /\ \A e \in EntriesOf(s) : e.key # data,
         NEW n, NEW sc, Origin(s.symbols[a]) = <<n, sc>>
  PROVE  Sound(st') /\ Apart(st', H) /\ st'.symbols = s.symbols /\ Outcome(n, sc, kind)
<1> DEFINE o == Origin(s.symbols[a])
<1>1. /\ Declared(s, st', a, kind, data)
      /\ reports' = IF o \in DOMAIN DeclsOf(s) THEN reports + 1 ELSE reports
  BY DeclareIs
<1>2. /\ Sound(st') /\ st'.symbols = s.symbols
      /\ \A x \in DOMAIN s.attrs : x \in DOMAIN st'.attrs /\ st'.attrs[x] = s.attrs[x]
  BY <1>1 DEF Declared
<1>3. \A e \in EntriesOf(s) : e.val \in DOMAIN s.attrs
  BY EntryIn DEF Declarable
<1>4. CASE o \in DOMAIN DeclsOf(s)
  <2>1. EntriesOf(st') = EntriesOf(s) /\ DeclsOf(st') = DeclsOf(s)
    BY <1>1, <1>4 DEF Declared
  <2>2. Apart(st', H)
    BY <1>2, <1>3, <2>1 DEF Apart
  <2> QED BY <1>1, <1>2, <1>4, <2>1, <2>2 DEF Outcome
<1>5. CASE o \notin DOMAIN DeclsOf(s)
  <2>1. PICK v \in DOMAIN st'.attrs :
          /\ EntriesOf(st') = EntriesOf(s) \cup {[key |-> a, val |-> v]}
          /\ Fresh(s, a, kind, data, st'.attrs[v])
    BY <1>1, <1>5 DEF Declared
  <2>2. DeclsOf(st') = [d \in DOMAIN DeclsOf(s) \cup {o} |->
                          IF d = o THEN kind ELSE DeclsOf(s)[d]]
    BY <1>1, <1>5 DEF Declared
  <2>3. Apart(st', H)
    <3>1. ASSUME NEW e \in EntriesOf(st'), st'.attrs[e.val].type = "SARRAY",
                 st'.attrs[e.val].data # 0, NEW f \in EntriesOf(st')
          PROVE  st'.attrs[e.val].data \notin H /\ st'.attrs[e.val].data # f.key
      <4>1. f \in EntriesOf(s) \/ f.key = a
        BY <2>1
      <4>2. CASE e \in EntriesOf(s)
        <5>1. st'.attrs[e.val] = s.attrs[e.val]
          BY <1>2, <1>3, <4>2
        <5> QED BY <3>1, <4>1, <4>2, <5>1 DEF Apart
      <4>3. CASE e = [key |-> a, val |-> v]
        <5>1. kind = "SARRAY" /\ data # 0 /\ st'.attrs[e.val].data = data
          BY <2>1, <3>1, <4>3 DEF Fresh
        <5> QED BY <4>1, <5>1
      <4> QED BY <2>1, <4>2, <4>3
    <3> QED BY <3>1 DEF Apart
  <2> QED BY <1>1, <1>2, <1>5, <2>2, <2>3 DEF Outcome
<1> QED BY <1>4, <1>5

(***************************************************************************)
(* The invariant.                                                          *)
(***************************************************************************)
(* The symbols that are still to become keys, or may. *)
Held == {fn.key} \cup Range(inits)

Phases == {"consts", "types", "arrays", "funcs", "params", "locals", "main",
           "analysis", "done"}

Typed ==
  /\ scope \in 0..LastScope
  /\ phase \in Phases
  /\ phase \in {"consts", "types", "arrays", "funcs"} => scope < LastScope
  /\ phase \in {"params", "locals"} => scope < LastScope /\ fn.key # 0
  /\ fn \in [key : Addresses \cup {0}, params : Seq(Addresses)]
  /\ inits \in Seq(Addresses)

IInv == Sound(st) /\ Apart(st, Held) /\ Typed

AbstractNext == [Meanings!Next]_(Meanings!scopesVars)

(* What the refinement maps to Scopes' variable. *)
LEMMA DeclsMapped ==
  /\ DeclsOf(st) = [d \in {Owned(e).of : e \in Entries} |->
                      Owned(CHOOSE e \in Entries : Owned(e).of = d).type]
  /\ DeclsOf(st') = [d \in {Owned(e).of : e \in Entries} |->
                      Owned(CHOOSE e \in Entries : Owned(e).of = d).type]'
BY DEF DeclsOf, EntriesOf, Entries, Owned

(* Where nothing is declared, reported or answered, Scopes stutters. *)
LEMMA Stutters ==
  ASSUME DeclsOf(st') = DeclsOf(st), reports' = reports, answer' = answer
  PROVE  AbstractNext
<1>1. UNCHANGED Meanings!scopesVars
  BY DeclsMapped DEF Meanings!scopesVars
<1> QED BY <1>1 DEF AbstractNext

(* A declaration is accepted or refused as Scopes says. *)
LEMMA DeclareAbstract ==
  ASSUME NEW n \in Names, NEW sc \in 0..LastScope, NEW kind \in Kinds,
         Outcome(n, sc, kind), answer' = answer
  PROVE  AbstractNext
<1>1. Meanings!Declare(n, sc, kind)
  BY DeclsMapped DEF Outcome, Meanings!Declare, Meanings!Accept, Meanings!Refuse
<1>2. Meanings!Next
  BY <1>1 DEF Meanings!Next
<1> QED BY <1>2 DEF AbstractNext

(* The declarations are of names, in scopes. *)
LEMMA DeclsTyped ==
  ASSUME NEW s, Sound(s), NEW n \in Names, NEW sc \in 0..LastScope
  PROVE  /\ \A d \in DOMAIN DeclsOf(s) : DeclsOf(s)[d] \in Kinds
         /\ MeansOf(DeclsOf(s), n, sc) # Null <=>
              \/ <<n, sc>> \in DOMAIN DeclsOf(s)
              \/ <<n, 0>> \in DOMAIN DeclsOf(s)
<1> DEFINE D == DeclsOf(s)
<1>1. ASSUME NEW d \in DOMAIN D PROVE D[d] \in Kinds
  <2>1. PICK e \in EntriesOf(s) : s.attrs[e.val].of = d
    BY DeclsAre
  <2>2. D[s.attrs[e.val].of] = s.attrs[e.val].type
    BY DeclsAre
  <2>3. s.attrs[e.val] \in Attribute
    <3>1. e.val \in DOMAIN s.attrs /\ s.attrs \in Seq(Attribute)
      BY EntryIn, TableIs DEF Sound
    <3> QED BY <3>1
  <2> HIDE DEF D
  <2> QED BY <2>1, <2>2, <2>3 DEF Attribute
<1> HIDE DEF D
<1>2. 0 \in 0..LastScope
  BY ScopeAssumption
<1>3. \A c \in 0..LastScope : <<n, c>> \in DOMAIN D => <<n, c, D[<<n, c>>]>> # Null
  BY <1>1, NullAssumption
<1> QED BY <1>1, <1>2, <1>3 DEF MeansOf, D

(* A declaration is a step of Scopes: the name gets its kind if it is free there,
   and a report if it is not. *)
LEMMA FreshAbstract ==
  ASSUME NEW n \in Names, NEW sc \in 0..LastScope, NEW kind \in Kinds, Sound(st),
         answer' = answer,
         IF MeansOf(DeclsOf(st), n, sc) = Null THEN Outcome(n, sc, kind)
         ELSE DeclsOf(st') = DeclsOf(st) /\ reports' = reports + 1
  PROVE  AbstractNext
<1>1. MeansOf(DeclsOf(st), n, sc) = Null => <<n, sc>> \notin DOMAIN DeclsOf(st)
  BY DeclsTyped
<1>2. Meanings!Means(n, sc) = MeansOf(DeclsOf(st), n, sc)
  BY DeclsMapped DEF Meanings!Means, MeansOf
<1>3. Meanings!DeclareFresh(n, sc, kind)
  BY <1>1, <1>2, DeclsMapped
     DEF Outcome, Meanings!DeclareFresh, Meanings!Accept, Meanings!Refuse
<1>4. Meanings!Next
  BY <1>3 DEF Meanings!Next
<1> QED BY <1>4 DEF AbstractNext

(* A use gets the answer that Scopes gives. *)
LEMMA UseAbstract ==
  ASSUME NEW n \in Names, NEW sc \in 0..LastScope,
         answer' = <<n, sc, MeansOf(DeclsOf(st), n, sc)>>,
         DeclsOf(st') = DeclsOf(st), reports' = reports
  PROVE  AbstractNext
<1>2. Meanings!Means(n, sc) = MeansOf(DeclsOf(st), n, sc)
  BY DeclsMapped DEF Meanings!Means, MeansOf
<1>3. Meanings!Use(n, sc)
  BY <1>2, DeclsMapped DEF Meanings!Use
<1>4. Meanings!Next
  BY <1>3 DEF Meanings!Next
<1> QED BY <1>4 DEF AbstractNext

(***************************************************************************)
(* The operations.                                                         *)
(***************************************************************************)
(* What is held exists, or is NULL. *)
LEMMA HeldKnown ==
  ASSUME IInv
  PROVE  /\ Held \subseteq DOMAIN st.symbols \cup {0}
         /\ Sound(st) /\ Apart(st, Held) /\ scope \in 0..LastScope
         /\ 0 \in 0..LastScope /\ Len(st.symbols) + 1 \in Nat
<1>1. inits \in Seq(DOMAIN st.symbols) /\ fn.key \in DOMAIN st.symbols \cup {0}
  BY DEF IInv, Typed, Addresses
<1>2. Range(inits) \subseteq DOMAIN st.symbols
  BY <1>1 DEF Range
<1>3. st.symbols \in Seq(Symbol)
  BY TableIs DEF IInv, Sound
<1> QED BY <1>1, <1>2, <1>3, ScopeAssumption DEF IInv, Held, Typed

(* More symbols change no types. *)
LEMMA TypesGrow ==
  ASSUME IInv, NEW B, DOMAIN st.symbols \subseteq B
  PROVE  /\ fn \in [key : B \cup {0}, params : Seq(B)] /\ inits \in Seq(B)
         /\ \A k \in B : /\ Append(inits, k) \in Seq(B)
                         /\ Range(Append(inits, k)) \subseteq Range(inits) \cup {k}
                         /\ [fn EXCEPT !.params = Append(@, k)]
                              \in [key : B \cup {0}, params : Seq(B)]
                         /\ [fn EXCEPT !.params = Append(@, k)].key = fn.key
                         /\ [key |-> k, params |-> <<>>] \in [key : B \cup {0}, params : Seq(B)]
<1> DEFINE A == DOMAIN st.symbols
<1>1. fn \in [key : A \cup {0}, params : Seq(A)] /\ inits \in Seq(A)
  BY DEF IInv, Typed, Addresses
<1> HIDE DEF A
<1>2. \A q \in Seq(A) : q \in Seq(B)
  BY DEF A
<1>3. fn \in [key : B \cup {0}, params : Seq(B)] /\ inits \in Seq(B)
  BY <1>1, <1>2 DEF A
<1>4. ASSUME NEW k \in B
      PROVE  /\ Append(inits, k) \in Seq(B)
             /\ Range(Append(inits, k)) \subseteq Range(inits) \cup {k}
             /\ [fn EXCEPT !.params = Append(@, k)]
                  \in [key : B \cup {0}, params : Seq(B)]
             /\ [fn EXCEPT !.params = Append(@, k)].key = fn.key
             /\ [key |-> k, params |-> <<>>] \in [key : B \cup {0}, params : Seq(B)]
  <2>1. Append(inits, k) \in Seq(B) /\ Range(Append(inits, k)) \subseteq Range(inits) \cup {k}
    BY <1>3 DEF Range
  <2>2. fn.params \in Seq(B) /\ Append(fn.params, k) \in Seq(B) /\ <<>> \in Seq(B)
    BY <1>3
  <2>3. /\ [fn EXCEPT !.params = Append(@, k)] \in [key : B \cup {0}, params : Seq(B)]
        /\ [fn EXCEPT !.params = Append(@, k)].key = fn.key
    BY <1>3, <2>2
  <2>4. [key |-> k, params |-> <<>>] \in [key : B \cup {0}, params : Seq(B)]
    BY <2>2
  <2> QED BY <2>1, <2>3, <2>4
<1> QED BY <1>3, <1>4

(* A mention of a name: the symbol is new, and may be held from now on. *)
LEMMA MentionStep ==
  ASSUME IInv, NEW n \in Names, NEW sc \in 0..LastScope,
         st' = symboltable_add(st, n, sc), reports' = reports, answer' = answer
  PROVE  /\ Sound(st') /\ Apart(st', Held \cup {Len(st.symbols) + 1}) /\ AbstractNext
         /\ DOMAIN st.symbols \subseteq DOMAIN st'.symbols
         /\ Newest(st') = Len(st.symbols) + 1 /\ Newest(st') \in DOMAIN st'.symbols
         /\ Newest(st') # 0
<1>1. Mentions(st, st', Held, n, sc)
  BY HeldKnown, MentionIs
<1>2. Sound(st') /\ DeclsOf(st') = DeclsOf(st) /\ Apart(st', Held \cup {Len(st.symbols) + 1})
  BY <1>1 DEF Mentions
<1>3. /\ DOMAIN st.symbols \subseteq DOMAIN st'.symbols
      /\ Newest(st') = Len(st.symbols) + 1 /\ Newest(st') \in DOMAIN st'.symbols
      /\ Newest(st') # 0
  BY <1>1 DEF Mentions, Adds, Newest
<1> QED BY <1>2, <1>3, Stutters

(* Mention keeps the invariant and is a stutter of Scopes. *)
LEMMA MentionRefines ==
  ASSUME IInv, NEW n \in Names, Mention(n)
  PROVE  IInv' /\ AbstractNext
<1>1. /\ Sound(st') /\ Apart(st', Held \cup {Len(st.symbols) + 1}) /\ AbstractNext
      /\ DOMAIN st.symbols \subseteq DOMAIN st'.symbols
  BY HeldKnown, MentionStep DEF Mention, Elsewhere
<1>2. scope' = scope /\ phase' = phase /\ fn' = fn /\ inits' = inits
  BY DEF Mention
<1>3. Typed'
  BY <1>1, <1>2, TypesGrow DEF Typed, IInv, Addresses
<1>4. Apart(st', Held')
  BY <1>1, <1>2, ApartLess DEF Held
<1> QED BY <1>1, <1>3, <1>4 DEF IInv

(* n_init keeps the invariant and is a stutter of Scopes: the constant gets its
   attribute in the analysis. *)
LEMMA InitRefines ==
  ASSUME IInv, NEW n \in Names, n_init(n)
  PROVE  IInv' /\ AbstractNext
<1>1. /\ Sound(st') /\ Apart(st', Held \cup {Len(st.symbols) + 1}) /\ AbstractNext
      /\ DOMAIN st.symbols \subseteq DOMAIN st'.symbols
      /\ Newest(st') = Len(st.symbols) + 1 /\ Newest(st') \in DOMAIN st'.symbols
  BY HeldKnown, MentionStep DEF n_init, Elsewhere
<1>2. scope' = scope /\ phase' = phase /\ fn' = fn /\ inits' = Append(inits, Newest(st'))
  BY DEF n_init
<1>3. inits' \in Seq(DOMAIN st'.symbols) /\ Range(inits') \subseteq Range(inits) \cup {Newest(st')}
  BY <1>1, <1>2, TypesGrow
<1>4. Typed'
  BY <1>1, <1>2, <1>3, TypesGrow DEF Typed, IInv, Addresses
<1>5. Apart(st', Held')
  <2>1. Held' \subseteq Held \cup {Len(st.symbols) + 1} \cup {0}
    BY <1>1, <1>2, <1>3 DEF Held
  <2> QED BY <1>1, <2>1, ApartLess
<1> QED BY <1>1, <1>4, <1>5 DEF IInv

(* n_func keeps the invariant and is a stutter of Scopes: the function is declared
   when its parameters are known. *)
LEMMA FuncRefines ==
  ASSUME IInv, NEW n \in Names, n_func(n)
  PROVE  IInv' /\ AbstractNext
<1>1. /\ Sound(st') /\ Apart(st', Held \cup {Len(st.symbols) + 1}) /\ AbstractNext
      /\ DOMAIN st.symbols \subseteq DOMAIN st'.symbols
      /\ Newest(st') = Len(st.symbols) + 1 /\ Newest(st') \in DOMAIN st'.symbols
      /\ Newest(st') # 0
  BY HeldKnown, MentionStep DEF n_func, Elsewhere
<1>2. /\ scope' = scope + 1 /\ scope + 1 < LastScope /\ phase' = "params"
      /\ fn' = [key |-> Newest(st'), params |-> <<>>] /\ inits' = inits
  BY DEF n_func
<1>3. fn'.key = Newest(st')
  BY <1>2
<1>4. Typed'
  <2>1. scope' \in 0..LastScope /\ scope' < LastScope
    BY <1>2, ScopeAssumption DEF IInv, Typed
  <2>2. fn' \in [key : DOMAIN st'.symbols \cup {0}, params : Seq(DOMAIN st'.symbols)]
    BY <1>1, <1>2, TypesGrow
  <2>3. inits' \in Seq(DOMAIN st'.symbols)
    BY <1>1, <1>2, TypesGrow
  <2> QED BY <1>1, <1>2, <1>3, <2>1, <2>2, <2>3 DEF Typed, Addresses, Phases
<1>5. Apart(st', Held')
  <2>1. Held' \subseteq Held \cup {Len(st.symbols) + 1} \cup {0}
    BY <1>1, <1>2, <1>3 DEF Held
  <2> QED BY <1>1, <2>1, ApartLess
<1> QED BY <1>1, <1>4, <1>5 DEF IInv

(* A section or a pass begins. *)
LEMMA TurnRefines ==
  ASSUME IInv, n_mainbody \/ analyse_program
  PROVE  IInv' /\ AbstractNext
<1>1. /\ st' = st /\ fn' = fn /\ inits' = inits /\ reports' = reports /\ answer' = answer
      /\ phase' \in {"main", "analysis"}
  BY DEF n_mainbody, analyse_program, Elsewhere
<1>2. scope' \in 0..LastScope
  <2>1. CASE n_mainbody
    BY <2>1, ScopeAssumption DEF n_mainbody, IInv, Typed
  <2>2. CASE analyse_program
    BY <2>2 DEF analyse_program, IInv, Typed
  <2> QED BY <2>1, <2>2
<1>3. Typed'
  BY <1>1, <1>2 DEF Typed, IInv, Addresses, Phases
<1>4. Sound(st') /\ Apart(st', Held')
  BY <1>1 DEF IInv, Held
<1>5. AbstractNext
  BY <1>1, Stutters
<1> QED BY <1>3, <1>4, <1>5 DEF IInv

(***************************************************************************)
(* The operations that declare.                                            *)
(***************************************************************************)
(* Something of the name n is declared, in the present scope, with the symbol of
   its type made before. *)
LEMMA DeclareStep ==
  ASSUME IInv, NEW n \in Names, NEW s, NEW d, Paired(st, s, Held, n, scope, d),
         NEW kind \in Kinds, NEW data \in {0, d}, NEW list \in Seq(Nat),
         Declare(s, Len(st.symbols) + 1, kind, data, list)
  PROVE  /\ Sound(st') /\ Apart(st', Held \cup {Len(st.symbols) + 1})
         /\ Outcome(n, scope, kind)
         /\ DOMAIN st.symbols \subseteq DOMAIN st'.symbols
         /\ Len(st.symbols) + 1 \in DOMAIN st'.symbols
<1> DEFINE a == Len(st.symbols) + 1
           H == Held \cup {a}
<1>1. /\ Sound(s) /\ DeclsOf(s) = DeclsOf(st)
      /\ a \in DOMAIN s.symbols /\ DOMAIN st.symbols \subseteq DOMAIN s.symbols
      /\ Origin(s.symbols[a]) = <<n, scope>>
      /\ Apart(s, H)
      /\ d \in DOMAIN s.symbols \cup {0}
      /\ d # 0 => d \notin H /\ \A e \in EntriesOf(s) : e.key # d
  BY DEF Paired
<1>2. a \in H
  OBVIOUS
<1> HIDE DEF a, H
<1>3. Declarable(s, a, kind, data, list)
  BY <1>1 DEF Declarable
<1>4. Declare(s, a, kind, data, list)
  BY DEF a
<1>5. kind = "SARRAY" /\ data # 0 => data \notin H /\ \A e \in EntriesOf(s) : e.key # data
  BY <1>1
<1>6. Sound(st') /\ Apart(st', H) /\ st'.symbols = s.symbols /\ Outcome(n, scope, kind)
  BY ONLY <1>1, <1>2, <1>3, <1>4, <1>5, DeclareKeeps
<1> QED BY <1>1, <1>6 DEF a, H

(* A name and its type's name, mentioned. *)
LEMMA TwoMentioned ==
  ASSUME IInv, NEW n \in Names, NEW m \in Names,
         NEW named, named = symboltable_add(st, n, scope),
         NEW typed, typed = symboltable_add(named, m, scope)
  PROVE  /\ Paired(st, typed, Held, n, scope, Newest(typed))
         /\ Newest(named) = Len(st.symbols) + 1
         /\ Newest(typed) \in DOMAIN typed.symbols
<1>1. Mentions(st, named, Held, n, scope)
  BY HeldKnown, MentionIs
<1>2. Sound(named)
  BY <1>1 DEF Mentions
<1>3. Sound(typed) /\ Adds(named, typed, m, scope)
  BY <1>2, HeldKnown, AddIs
<1> QED BY <1>1, <1>3, HeldKnown, PairedIs

(* Where the section and what is held stay as they are, the invariant does. *)
LEMMA Settles ==
  ASSUME IInv, Sound(st'), NEW K, Apart(st', Held \cup K),
         DOMAIN st.symbols \subseteq DOMAIN st'.symbols,
         scope' = scope, inits' = inits,
         fn'.key = fn.key,
         fn' \in [key : DOMAIN st'.symbols \cup {0}, params : Seq(DOMAIN st'.symbols)],
         phase' \in Phases,
         phase' \in {"consts", "types", "arrays", "funcs", "params", "locals"} => scope < LastScope,
         phase' \in {"params", "locals"} => fn.key # 0
  PROVE  IInv'
<1>1. inits' \in Seq(DOMAIN st'.symbols)
  BY TypesGrow
<1>2. Typed'
  BY <1>1 DEF Typed, IInv, Addresses
<1>3. Apart(st', Held')
  <2>1. Held' \subseteq (Held \cup K) \cup {0}
    BY DEF Held
  <2> QED BY <2>1, ApartLess
<1> QED BY <1>2, <1>3 DEF IInv

(* RecordType keeps the invariant and declares one name in Scopes. *)
LEMMA RecordTypeRefines ==
  ASSUME IInv, NEW n \in Names, NEW m \in Names, RecordType(n, m)
  PROVE  IInv' /\ AbstractNext
<1> DEFINE named == symboltable_add(st, n, scope)
           typed == symboltable_add(named, m, scope)
           d     == Newest(typed)
<1>1. Paired(st, typed, Held, n, scope, d) /\ Newest(named) = Len(st.symbols) + 1
  BY TwoMentioned
<1>2. /\ phase \in {"consts", "types"} /\ phase' = "types"
      /\ Declare(typed, Newest(named), "SFIELDS", 0, <<>>)
      /\ scope' = scope /\ fn' = fn /\ inits' = inits /\ answer' = answer
  BY DEF RecordType, Elsewhere
<1> HIDE DEF named, typed, d
<1>3. Declare(typed, Len(st.symbols) + 1, "SFIELDS", 0, <<>>)
  BY <1>1, <1>2
<1>4. "SFIELDS" \in Kinds /\ 0 \in {0, d} /\ <<>> \in Seq(Nat)
  BY DEF Kinds
<1>5. /\ Sound(st') /\ Apart(st', Held \cup {Len(st.symbols) + 1})
      /\ Outcome(n, scope, "SFIELDS") /\ DOMAIN st.symbols \subseteq DOMAIN st'.symbols
  BY <1>1, <1>3, <1>4, DeclareStep
<1>6. IInv'
  <2>1. scope < LastScope
    BY <1>2 DEF IInv, Typed
  <2>2. fn' \in [key : DOMAIN st'.symbols \cup {0}, params : Seq(DOMAIN st'.symbols)]
    BY <1>2, <1>5, TypesGrow
  <2> QED BY <1>2, <1>5, <2>1, <2>2, Settles DEF Phases
<1>7. AbstractNext
  BY <1>2, <1>4, <1>5, HeldKnown, DeclareAbstract
<1> QED BY <1>6, <1>7

(* ArrayType keeps the invariant and declares one name in Scopes. *)
LEMMA ArrayTypeRefines ==
  ASSUME IInv, NEW n \in Names, NEW m \in Names, ArrayType(n, m)
  PROVE  IInv' /\ AbstractNext
<1> DEFINE named == symboltable_add(st, n, scope)
           typed == symboltable_add(named, m, scope)
           d     == Newest(typed)
<1>1. Paired(st, typed, Held, n, scope, d) /\ Newest(named) = Len(st.symbols) + 1
  BY TwoMentioned
<1>2. /\ phase \in {"consts", "types"} /\ phase' = "types"
      /\ Declare(typed, Newest(named), "SSTRUCT", d, <<>>)
      /\ scope' = scope /\ fn' = fn /\ inits' = inits /\ answer' = answer
  BY DEF ArrayType, Elsewhere
<1> HIDE DEF named, typed, d
<1>3. Declare(typed, Len(st.symbols) + 1, "SSTRUCT", d, <<>>)
  BY <1>1, <1>2
<1>4. "SSTRUCT" \in Kinds /\ d \in {0, d} /\ <<>> \in Seq(Nat)
  BY DEF Kinds
<1>5. /\ Sound(st') /\ Apart(st', Held \cup {Len(st.symbols) + 1})
      /\ Outcome(n, scope, "SSTRUCT") /\ DOMAIN st.symbols \subseteq DOMAIN st'.symbols
  BY <1>1, <1>3, <1>4, DeclareStep
<1>6. IInv'
  <2>1. scope < LastScope
    BY <1>2 DEF IInv, Typed
  <2>2. fn' \in [key : DOMAIN st'.symbols \cup {0}, params : Seq(DOMAIN st'.symbols)]
    BY <1>2, <1>5, TypesGrow
  <2> QED BY <1>2, <1>5, <2>1, <2>2, Settles DEF Phases
<1>7. AbstractNext
  BY <1>2, <1>4, <1>5, HeldKnown, DeclareAbstract
<1> QED BY <1>6, <1>7

(* Variable keeps the invariant and declares one name in Scopes. *)
LEMMA VariableRefines ==
  ASSUME IInv, NEW n \in Names, Variable(n)
  PROVE  IInv' /\ AbstractNext
<1> DEFINE named == symboltable_add(st, n, scope)
<1>1. Paired(st, named, Held, n, scope, 0) /\ Newest(named) = Len(st.symbols) + 1
  <2>1. Mentions(st, named, Held, n, scope)
    BY HeldKnown, MentionIs
  <2> QED BY <2>1, HeldKnown, AloneIs
<1>2. /\ Declare(named, Newest(named), "SINT", 0, <<>>)
      /\ scope' = scope /\ fn' = fn /\ inits' = inits /\ phase' = phase /\ answer' = answer
  BY DEF Variable, Elsewhere
<1> HIDE DEF named
<1>3. Declare(named, Len(st.symbols) + 1, "SINT", 0, <<>>)
  BY <1>1, <1>2
<1>4. "SINT" \in Kinds /\ 0 \in {0, 0} /\ <<>> \in Seq(Nat)
  BY DEF Kinds
<1>5. /\ Sound(st') /\ Apart(st', Held \cup {Len(st.symbols) + 1})
      /\ Outcome(n, scope, "SINT") /\ DOMAIN st.symbols \subseteq DOMAIN st'.symbols
  BY <1>1, <1>3, <1>4, DeclareStep
<1>6. IInv'
  <2>1. fn' \in [key : DOMAIN st'.symbols \cup {0}, params : Seq(DOMAIN st'.symbols)]
    BY <1>2, <1>5, TypesGrow
  <2>2. /\ phase' \in Phases
        /\ phase' \in {"consts", "types", "arrays", "funcs", "params", "locals"} => scope < LastScope
        /\ phase' \in {"params", "locals"} => fn.key # 0
    BY <1>2 DEF IInv, Typed
  <2> QED BY <1>2, <1>5, <2>1, <2>2, Settles
<1>7. AbstractNext
  BY <1>2, <1>4, <1>5, HeldKnown, DeclareAbstract
<1> QED BY <1>6, <1>7

(***************************************************************************)
(* Arrays.                                                                 *)
(***************************************************************************)
(* Nothing is found exactly for a name that means nothing. *)
LEMMA NothingFound ==
  ASSUME NEW s, Sound(s), NEW a \in DOMAIN s.symbols, NEW n, NEW sc,
         Origin(s.symbols[a]) = <<n, sc>>,
         NEW v, v = astree_get_attribute(s, a)
  PROVE  v = 0 <=> MeansOf(DeclsOf(s), n, sc) = Null
<1> DEFINE y == s.symbols[a]
<1>1. y.iden = n /\ y.scope = sc
  BY DEF Origin
<1>2. /\ v \in {e.val : e \in EntriesOf(s)} \cup {0}
      /\ MeansOf(DeclsOf(s), y.iden, y.scope) =
           IF v = 0 THEN Null
           ELSE <<s.attrs[v].of[1], s.attrs[v].of[2], s.attrs[v].type>>
  BY LookupIs
<1> HIDE DEF y
<1>3. CASE v = 0
  BY <1>1, <1>2, <1>3
<1>4. CASE v # 0
  <2>1. v \in DOMAIN s.attrs
    BY <1>2, <1>4, EntryIn
  <2>2. s.attrs[v] \in Attribute
    BY <2>1, TableIs DEF Sound
  <2>3. s.attrs[v].of \in Names \X (0..LastScope) /\ s.attrs[v].type \in Kinds
    BY <2>2 DEF Attribute
  <2>4. s.attrs[v].of[1] \in Names /\ s.attrs[v].of[2] \in 0..LastScope
    BY <2>3
  <2>5. <<s.attrs[v].of[1], s.attrs[v].of[2], s.attrs[v].type>>
          \in Names \X (0..LastScope) \X Kinds
    BY <2>3, <2>4
  <2> QED BY <1>1, <1>2, <1>4, <2>5, NullAssumption
<1> QED BY <1>3, <1>4

(* An array that must not hide anything. *)
LEMMA ArrdeclStep ==
  ASSUME IInv, NEW n \in Names, NEW m \in Names, Arrdecl(n, m), answer' = answer
  PROVE  /\ Sound(st') /\ Apart(st', Held \cup {Len(st.symbols) + 1}) /\ AbstractNext
         /\ DOMAIN st.symbols \subseteq DOMAIN st'.symbols
         /\ Len(st.symbols) + 1 \in DOMAIN st'.symbols
<1> DEFINE named == symboltable_add(st, n, scope)
           typed == symboltable_add(named, m, scope)
           d     == Newest(typed)
           a     == Len(st.symbols) + 1
           v     == astree_get_attribute(typed, a)
<1>1. Paired(st, typed, Held, n, scope, d) /\ Newest(named) = a
  BY TwoMentioned
<1>2. IF astree_get_attribute(typed, Newest(named)) = 0
      THEN Declare(typed, Newest(named), "SARRAY", d, <<>>)
      ELSE st' = typed /\ reports' = reports + 1
  BY DEF Arrdecl
<1> HIDE DEF named, typed, d
<1>3. IF v = 0 THEN Declare(typed, a, "SARRAY", d, <<>>)
      ELSE st' = typed /\ reports' = reports + 1
  BY <1>1, <1>2
<1>4. /\ Sound(typed) /\ DeclsOf(typed) = DeclsOf(st)
      /\ a \in DOMAIN typed.symbols /\ DOMAIN st.symbols \subseteq DOMAIN typed.symbols
      /\ Origin(typed.symbols[a]) = <<n, scope>> /\ Apart(typed, Held \cup {a})
  BY <1>1 DEF Paired
<1>5. v = 0 <=> MeansOf(DeclsOf(st), n, scope) = Null
  <2> HIDE DEF a
  <2>1. v = 0 <=> MeansOf(DeclsOf(typed), n, scope) = Null
    BY <1>4, NothingFound
  <2> QED BY <1>4, <2>1
<1> HIDE DEF v
<1>6. CASE v = 0
  <2>1. "SARRAY" \in Kinds /\ d \in {0, d} /\ <<>> \in Seq(Nat)
    BY DEF Kinds
  <2>2. Declare(typed, Len(st.symbols) + 1, "SARRAY", d, <<>>)
    BY <1>3, <1>6
  <2>3. /\ Sound(st') /\ Apart(st', Held \cup {Len(st.symbols) + 1})
        /\ Outcome(n, scope, "SARRAY") /\ DOMAIN st.symbols \subseteq DOMAIN st'.symbols
        /\ Len(st.symbols) + 1 \in DOMAIN st'.symbols
    BY <1>1, <2>1, <2>2, DeclareStep
  <2>4. AbstractNext
    BY <1>5, <1>6, <2>1, <2>3, HeldKnown, FreshAbstract
  <2> QED BY <2>3, <2>4
<1>7. CASE v # 0
  <2>1. st' = typed /\ reports' = reports + 1
    BY <1>3, <1>7
  <2>2. DeclsOf(st') = DeclsOf(st)
    BY <1>4, <2>1
  <2>3. "SARRAY" \in Kinds
    BY DEF Kinds
  <2>4. AbstractNext
    BY <1>5, <1>7, <2>1, <2>2, <2>3, HeldKnown, FreshAbstract
  <2> QED BY <1>4, <2>1, <2>4
<1> QED BY <1>6, <1>7

(* GlobalArray keeps the invariant and declares one name in Scopes. *)
LEMMA GlobalArrayRefines ==
  ASSUME IInv, NEW n \in Names, NEW m \in Names, GlobalArray(n, m)
  PROVE  IInv' /\ AbstractNext
<1>1. /\ phase \in {"consts", "types", "arrays"} /\ phase' = "arrays" /\ Arrdecl(n, m)
      /\ scope' = scope /\ fn' = fn /\ inits' = inits /\ answer' = answer
  BY DEF GlobalArray, Elsewhere
<1>2. /\ Sound(st') /\ Apart(st', Held \cup {Len(st.symbols) + 1}) /\ AbstractNext
      /\ DOMAIN st.symbols \subseteq DOMAIN st'.symbols
  BY <1>1, ArrdeclStep
<1>3. scope < LastScope
  BY <1>1 DEF IInv, Typed
<1>4. fn' \in [key : DOMAIN st'.symbols \cup {0}, params : Seq(DOMAIN st'.symbols)]
  BY <1>1, <1>2, TypesGrow
<1>5. IInv'
  BY <1>1, <1>2, <1>3, <1>4, Settles DEF Phases
<1> QED BY <1>2, <1>5

(* ConstParam keeps the invariant and declares one name in Scopes. *)
LEMMA ConstParamRefines ==
  ASSUME IInv, NEW n \in Names, NEW m \in Names, ConstParam(n, m)
  PROVE  IInv' /\ AbstractNext
<1>1. /\ phase = "params" /\ phase' = phase /\ Arrdecl(n, m)
      /\ fn' = [fn EXCEPT !.params = Append(@, Len(st.symbols) + 1)]
      /\ scope' = scope /\ inits' = inits /\ answer' = answer
  BY DEF ConstParam, Elsewhere
<1>2. /\ Sound(st') /\ Apart(st', Held \cup {Len(st.symbols) + 1}) /\ AbstractNext
      /\ DOMAIN st.symbols \subseteq DOMAIN st'.symbols
      /\ Len(st.symbols) + 1 \in DOMAIN st'.symbols
  BY <1>1, ArrdeclStep
<1>3. scope < LastScope /\ fn.key # 0
  BY <1>1 DEF IInv, Typed
<1>4. /\ fn' \in [key : DOMAIN st'.symbols \cup {0}, params : Seq(DOMAIN st'.symbols)]
      /\ fn'.key = fn.key
  BY <1>1, <1>2, TypesGrow
<1>5. IInv'
  BY <1>1, <1>2, <1>3, <1>4, Settles DEF Phases
<1> QED BY <1>2, <1>5

(* An array that may hide a global; its type may be unknown. *)
LEMMA DeclArrayStep ==
  ASSUME IInv, NEW n \in Names, NEW m \in Names, DeclArray(n, m), answer' = answer
  PROVE  /\ Sound(st') /\ Apart(st', Held \cup {Len(st.symbols) + 1}) /\ AbstractNext
         /\ DOMAIN st.symbols \subseteq DOMAIN st'.symbols
         /\ Len(st.symbols) + 1 \in DOMAIN st'.symbols
<1> DEFINE named == symboltable_add(st, n, scope)
           typed == GetSymbol(named, m)
           d     == IF Met(named, m) THEN Newest(typed) ELSE 0
<1>1. Mentions(st, named, Held, n, scope)
  BY HeldKnown, MentionIs
<1>2. /\ Sound(named) /\ Newest(named) = Len(st.symbols) + 1
      /\ Paired(st, named, Held, n, scope, 0)
  BY <1>1, HeldKnown, AloneIs DEF Mentions
<1>3. Sound(typed) /\ IF Met(named, m) THEN Adds(named, typed, m, 0) ELSE typed = named
  BY <1>2, GetSymbolIs
<1>4. Declare(typed, Newest(named), "SARRAY", d, <<>>)
  BY DEF DeclArray
<1> HIDE DEF named, typed
<1>5. Paired(st, typed, Held, n, scope, d)
  <2>1. CASE Met(named, m)
    <3>1. Paired(st, typed, Held, n, scope, Newest(typed))
      BY <1>1, <1>3, <2>1, HeldKnown, PairedIs
    <3> QED BY <2>1, <3>1
  <2>2. CASE ~Met(named, m)
    BY <1>2, <1>3, <2>2
  <2> QED BY <2>1, <2>2
<1> HIDE DEF d
<1>6. "SARRAY" \in Kinds /\ d \in {0, d} /\ <<>> \in Seq(Nat)
  BY DEF Kinds
<1>7. Declare(typed, Len(st.symbols) + 1, "SARRAY", d, <<>>)
  BY <1>2, <1>4
<1>8. /\ Sound(st') /\ Apart(st', Held \cup {Len(st.symbols) + 1})
      /\ Outcome(n, scope, "SARRAY") /\ DOMAIN st.symbols \subseteq DOMAIN st'.symbols
      /\ Len(st.symbols) + 1 \in DOMAIN st'.symbols
  BY <1>5, <1>6, <1>7, DeclareStep
<1>9. AbstractNext
  BY <1>6, <1>8, HeldKnown, DeclareAbstract
<1> QED BY <1>8, <1>9

(* ArrayParam keeps the invariant and declares one name in Scopes. *)
LEMMA ArrayParamRefines ==
  ASSUME IInv, NEW n \in Names, NEW m \in Names, ArrayParam(n, m)
  PROVE  IInv' /\ AbstractNext
<1>1. /\ phase = "params" /\ phase' = phase /\ DeclArray(n, m)
      /\ fn' = [fn EXCEPT !.params = Append(@, Len(st.symbols) + 1)]
      /\ scope' = scope /\ inits' = inits /\ answer' = answer
  BY DEF ArrayParam, Elsewhere
<1>2. /\ Sound(st') /\ Apart(st', Held \cup {Len(st.symbols) + 1}) /\ AbstractNext
      /\ DOMAIN st.symbols \subseteq DOMAIN st'.symbols
      /\ Len(st.symbols) + 1 \in DOMAIN st'.symbols
  BY <1>1, DeclArrayStep
<1>3. scope < LastScope /\ fn.key # 0
  BY <1>1 DEF IInv, Typed
<1>4. /\ fn' \in [key : DOMAIN st'.symbols \cup {0}, params : Seq(DOMAIN st'.symbols)]
      /\ fn'.key = fn.key
  BY <1>1, <1>2, TypesGrow
<1>5. IInv'
  BY <1>1, <1>2, <1>3, <1>4, Settles DEF Phases
<1> QED BY <1>2, <1>5

(* ArrayLocal keeps the invariant and declares one name in Scopes. *)
LEMMA ArrayLocalRefines ==
  ASSUME IInv, NEW n \in Names, NEW m \in Names, ArrayLocal(n, m)
  PROVE  IInv' /\ AbstractNext
<1>1. /\ phase \in {"params", "locals"} /\ phase' = "locals" /\ DeclArray(n, m)
      /\ fn' = fn /\ scope' = scope /\ inits' = inits /\ answer' = answer
  BY DEF ArrayLocal, Elsewhere
<1>2. /\ Sound(st') /\ Apart(st', Held \cup {Len(st.symbols) + 1}) /\ AbstractNext
      /\ DOMAIN st.symbols \subseteq DOMAIN st'.symbols
  BY <1>1, DeclArrayStep
<1>3. scope < LastScope /\ fn.key # 0
  BY <1>1 DEF IInv, Typed
<1>4. fn' \in [key : DOMAIN st'.symbols \cup {0}, params : Seq(DOMAIN st'.symbols)]
  BY <1>1, <1>2, TypesGrow
<1>5. IInv'
  BY <1>1, <1>2, <1>3, <1>4, Settles DEF Phases
<1> QED BY <1>2, <1>5

(***************************************************************************)
(* Symbols that were held.                                                 *)
(***************************************************************************)
(* What was held is declared now. *)
LEMMA HeldStep ==
  ASSUME IInv, NEW a \in DOMAIN st.symbols, a \in Held, NEW kind \in Kinds \ {"SARRAY"},
         NEW list \in Seq(Nat), Declare(st, a, kind, 0, list), answer' = answer
  PROVE  /\ Sound(st') /\ Apart(st', Held) /\ st'.symbols = st.symbols /\ AbstractNext
<1> DEFINE n  == st.symbols[a].iden
           sc == st.symbols[a].scope
<1>1. st.symbols[a] \in Symbol
  BY TableIs DEF IInv, Sound
<1>2. n \in Names /\ sc \in 0..LastScope /\ Origin(st.symbols[a]) = <<n, sc>>
  BY <1>1 DEF Symbol, Origin
<1> HIDE DEF n, sc
<1>3. Declarable(st, a, kind, 0, list) /\ kind # "SARRAY"
  BY DEF Declarable, IInv
<1>4. Declare(st, a, kind, 0, list) /\ a \in Held /\ Apart(st, Held)
  BY DEF IInv
<1>7. \A s : s = st =>
        \A d : d = 0 /\ Declarable(s, a, kind, d, list) /\ Declare(s, a, kind, d, list)
                 /\ DeclsOf(s) = DeclsOf(st) =>
          \A H : a \in H /\ Apart(s, H) /\ Origin(s.symbols[a]) = <<n, sc>> =>
            Sound(st') /\ Apart(st', H) /\ st'.symbols = s.symbols /\ Outcome(n, sc, kind)
  BY ONLY <1>3, DeclareKeeps
<1>5. Sound(st') /\ Apart(st', Held) /\ st'.symbols = st.symbols /\ Outcome(n, sc, kind)
  BY ONLY <1>2, <1>3, <1>4, <1>7
<1>6. AbstractNext
  BY <1>2, <1>3, <1>5, DeclareAbstract
<1> QED BY <1>5, <1>6

(* EndFunction keeps the invariant and declares the function in Scopes, under the
   scope its symbol was added with. *)
LEMMA EndFunctionRefines ==
  ASSUME IInv, EndFunction
  PROVE  IInv' /\ AbstractNext
<1> DEFINE list == [k \in DOMAIN fn.params |-> astree_get_attribute(st, fn.params[k])]
<1>1. /\ phase \in {"params", "locals"} /\ phase' = "funcs"
      /\ Declare(st, fn.key, "SVOID", 0, list)
      /\ fn' = None /\ scope' = scope /\ inits' = inits /\ answer' = answer
  BY DEF EndFunction, Elsewhere
<1>2. /\ fn.key \in DOMAIN st.symbols /\ fn.params \in Seq(DOMAIN st.symbols)
      /\ scope < LastScope /\ inits \in Seq(DOMAIN st.symbols)
  BY <1>1 DEF IInv, Typed, Addresses
<1>3. \A a \in DOMAIN st.symbols : astree_get_attribute(st, a) \in Nat
  <2>1. ASSUME NEW a \in DOMAIN st.symbols, NEW v, v = astree_get_attribute(st, a)
        PROVE  v \in Nat
    <3>1. v \in {e.val : e \in EntriesOf(st)} \cup {0}
      BY <2>1, HeldKnown, LookupIs
    <3>2. \A e \in EntriesOf(st) : e.val \in Nat
      BY HeldKnown, EntryIn DEF Entry
    <3> QED BY <3>1, <3>2
  <2> QED BY <2>1
<1>4. list \in Seq(Nat)
  <2>1. /\ Len(fn.params) \in Nat /\ DOMAIN fn.params = 1..Len(fn.params)
        /\ \A k \in DOMAIN fn.params : fn.params[k] \in DOMAIN st.symbols
    BY <1>2
  <2>2. list \in [1..Len(fn.params) -> Nat]
    BY <1>3, <2>1
  <2> HIDE DEF list
  <2> QED BY <2>1, <2>2
<1> HIDE DEF list
<1>5. fn.key \in Held /\ "SVOID" \in Kinds \ {"SARRAY"}
  BY DEF Held, Kinds
<1>6. Sound(st') /\ Apart(st', Held) /\ st'.symbols = st.symbols /\ AbstractNext
  BY <1>1, <1>2, <1>4, <1>5, HeldStep
<1>7. Typed'
  <2>1. <<>> \in Seq(DOMAIN st.symbols)
    OBVIOUS
  <2> QED BY <1>1, <1>2, <1>6, <2>1 DEF Typed, IInv, Addresses, Phases, None
<1>8. Apart(st', Held')
  <2>1. Held' \subseteq Held \cup {0}
    BY <1>1 DEF Held, None
  <2> QED BY <1>6, <2>1, ApartLess
<1> QED BY <1>6, <1>7, <1>8 DEF IInv

(* UpdateInit keeps the invariant and declares a constant in Scopes. *)
LEMMA UpdateInitRefines ==
  ASSUME IInv, UpdateInit
  PROVE  IInv' /\ AbstractNext
<1>1. /\ phase = "analysis" /\ phase' = phase /\ inits # <<>>
      /\ Declare(st, Head(inits), "SINT", 0, <<>>) /\ inits' = Tail(inits)
      /\ fn' = fn /\ scope' = scope /\ answer' = answer
  BY DEF UpdateInit, Elsewhere
<1>2. inits \in Seq(DOMAIN st.symbols)
  BY DEF IInv, Typed, Addresses
<1>3. /\ Head(inits) \in DOMAIN st.symbols /\ Head(inits) \in Range(inits)
      /\ Tail(inits) \in Seq(DOMAIN st.symbols) /\ Range(Tail(inits)) \subseteq Range(inits)
  <2>1. /\ Len(inits) \in Nat /\ Len(inits) # 0 /\ DOMAIN inits = 1..Len(inits)
        /\ Head(inits) = inits[1] /\ inits[1] \in DOMAIN st.symbols
        /\ Tail(inits) \in Seq(DOMAIN st.symbols)
        /\ DOMAIN Tail(inits) = 1..(Len(inits) - 1)
        /\ \A k \in 1..(Len(inits) - 1) : Tail(inits)[k] = inits[k + 1]
    BY <1>1, <1>2
  <2> QED BY <2>1 DEF Range
<1>4. /\ Head(inits) \in Held /\ "SINT" \in Kinds \ {"SARRAY"} /\ <<>> \in Seq(Nat)
  BY <1>3 DEF Held, Kinds
<1>6. Sound(st') /\ Apart(st', Held) /\ st'.symbols = st.symbols /\ AbstractNext
  BY <1>1, <1>3, <1>4, HeldStep
<1>7. Typed'
  BY <1>1, <1>3, <1>6 DEF Typed, IInv, Addresses, Phases
<1>8. Apart(st', Held')
  <2>1. Held' \subseteq Held \cup {0}
    BY <1>1, <1>3 DEF Held
  <2> QED BY <1>6, <2>1, ApartLess
<1> QED BY <1>6, <1>7, <1>8 DEF IInv

(* Lookup answers what Scopes answers, for every symbol of the program. *)
LEMMA LookupRefines ==
  ASSUME IInv, NEW a \in DOMAIN st.symbols, Lookup(a)
  PROVE  IInv' /\ AbstractNext
<1> DEFINE y   == st.symbols[a]
           atr == astree_get_attribute(st, a)
           of  == st.attrs[atr].of
           D   == DeclsOf(st)
<1>1. /\ st' = st /\ scope' = scope /\ phase' = phase /\ fn' = fn /\ inits' = inits
      /\ reports' = reports
      /\ answer' = <<y.iden, y.scope,
                     IF atr = 0 THEN Null ELSE <<of[1], of[2], st.attrs[atr].type>>>>
  BY DEF Lookup
<1>2. MeansOf(D, y.iden, y.scope) =
        IF atr = 0 THEN Null ELSE <<of[1], of[2], st.attrs[atr].type>>
  BY HeldKnown, LookupIs
<1>3. y.iden \in Names /\ y.scope \in 0..LastScope
  <2>1. y \in Symbol
    BY TableIs DEF IInv, Sound
  <2> QED BY <2>1 DEF Symbol
<1> HIDE DEF y, atr
<1>4. answer' = <<y.iden, y.scope, MeansOf(D, y.iden, y.scope)>> /\ DeclsOf(st') = DeclsOf(st)
  BY <1>1, <1>2
<1>5. AbstractNext
  BY <1>1, <1>3, <1>4, UseAbstract
<1>6. IInv'
  BY <1>1 DEF IInv, Typed, Held, Addresses, Phases
<1> QED BY <1>5, <1>6

(***************************************************************************)
(* After the parser.                                                       *)
(***************************************************************************)
(* A symbol that is no key can be moved to another scope. *)
LEMMA RescopeIs ==
  ASSUME NEW s, Sound(s), NEW d \in DOMAIN s.symbols, \A e \in EntriesOf(s) : e.key # d,
         NEW t, t = [s EXCEPT !.symbols[d].scope = 0]
  PROVE  /\ Sound(t) /\ EntriesOf(t) = EntriesOf(s) /\ t.attrs = s.attrs
         /\ DOMAIN t.symbols = DOMAIN s.symbols /\ DeclsOf(t) = DeclsOf(s)
<1> DEFINE z == [s.symbols[d] EXCEPT !.scope = 0]
           q == [s.symbols EXCEPT ![d] = z]
<1>1. s \in Table /\ s.symbols \in Seq(Symbol) /\ s.symbols[d] \in Symbol
  BY TableIs DEF Sound
<1>2. z \in Symbol /\ z.iden = s.symbols[d].iden /\ Slice(z) = Slice(s.symbols[d])
  <2>1. 0 \in 0..LastScope
    BY ScopeAssumption
  <2> QED BY ONLY <1>1, <2>1 DEF Symbol, Slice, z
<1>3. t = [s EXCEPT !.symbols = q]
  OBVIOUS
<1> HIDE DEF z
<1>4. /\ q \in Seq(Symbol) /\ DOMAIN q = DOMAIN s.symbols /\ q[d] = z
      /\ \A k \in DOMAIN s.symbols : k # d => q[k] = s.symbols[k]
  BY <1>1, <1>2
<1> HIDE DEF q
<1>5. /\ t.symbols = q /\ t.space = s.space /\ t.seen = s.seen /\ t.table = s.table
      /\ t.attrs = s.attrs
  BY <1>1, <1>3 DEF Table
<1>6. t \in Table
  BY <1>1, <1>3, <1>4 DEF Table
<1>7. SeenOnce(t)
  BY <1>5 DEF Sound, SeenOnce
<1>8. AllCut(t)
  <2>1. \A y : Cut(t, y) <=> Cut(s, y)
    BY <1>5 DEF Cut
  <2>2. Cut(s, z)
    <3>1. Cut(s, s.symbols[d])
      BY DEF Sound, AllCut
    <3> QED BY <1>2, <3>1 DEF Cut
  <2>3. \A k \in DOMAIN s.symbols : Cut(s, q[k])
    <3>1. \A k \in DOMAIN s.symbols : Cut(s, s.symbols[k])
      BY DEF Sound, AllCut
    <3> QED BY <1>4, <2>2, <3>1
  <2> QED BY <1>4, <1>5, <2>1, <2>3 DEF AllCut
<1>9. EntriesOf(t) = EntriesOf(s)
  BY <1>5 DEF EntriesOf
<1>10. Keyed(t)
  <2>1. ASSUME NEW b \in Buckets, NEW i \in DOMAIN t.table[b]
        PROVE  /\ t.table[b][i].key \in DOMAIN t.symbols
               /\ t.table[b][i].val \in DOMAIN t.attrs
               /\ hash_symbol(t.symbols[t.table[b][i].key]) = b
               /\ t.attrs[t.table[b][i].val].of = Origin(t.symbols[t.table[b][i].key])
    <3>1. /\ i \in DOMAIN s.table[b] /\ s.table[b][i].val \in DOMAIN s.attrs
          /\ s.table[b][i].key \in DOMAIN s.symbols
          /\ hash_symbol(s.symbols[s.table[b][i].key]) = b
          /\ s.attrs[s.table[b][i].val].of = Origin(s.symbols[s.table[b][i].key])
      BY <1>5 DEF Sound, Keyed
    <3>2. s.table[b][i].key # d
      BY <3>1, EntryIn
    <3>3. t.symbols[s.table[b][i].key] = s.symbols[s.table[b][i].key]
      BY <1>4, <1>5, <3>1, <3>2
    <3> QED BY <1>4, <1>5, <3>1, <3>3
  <2>2. \A e, f \in EntriesOf(t) : t.attrs[e.val].of = t.attrs[f.val].of => e = f
    BY <1>5, <1>9 DEF Sound, Keyed
  <2> QED BY <2>1, <2>2 DEF Keyed
<1>11. DataKnown(t)
  BY <1>4, <1>5 DEF Sound, DataKnown
<1>12. Sound(t)
  BY <1>6, <1>7, <1>8, <1>10, <1>11 DEF Sound
<1>13. DeclsOf(t) = DeclsOf(s)
  BY <1>5, <1>9, <1>12, SameDecls
<1> QED BY <1>4, <1>5, <1>9, <1>12, <1>13

(* Rescope writes into a symbol that others may hold; that no key of the table is
   among them makes it a stutter of Scopes (threeaddresscode.c:558). *)
LEMMA RescopeRefines ==
  ASSUME IInv, NEW b \in DOMAIN st.table, NEW i \in DOMAIN st.table[b], Rescope(b, i)
  PROVE  IInv' /\ AbstractNext
<1> DEFINE e == st.table[b][i]
           d == st.attrs[e.val].data
<1>1. /\ st.attrs[e.val].type = "SARRAY" /\ d # 0
      /\ st' = [st EXCEPT !.symbols[d].scope = 0]
      /\ scope' = scope /\ phase' = phase /\ fn' = fn /\ inits' = inits
      /\ reports' = reports /\ answer' = answer
  BY DEF Rescope, Elsewhere
<1>2. Sound(st) /\ Apart(st, Held)
  BY DEF IInv
<1>3. b \in Buckets /\ e \in EntriesOf(st) /\ e.val \in DOMAIN st.attrs
  <2>1. b \in Buckets
    BY <1>2, TableIs DEF Sound
  <2> QED BY <1>2, <2>1, EntryIn
<1> HIDE DEF e
<1>4. d \in DOMAIN st.symbols
  BY <1>1, <1>2, <1>3 DEF Sound, DataKnown
<1>5. \A f \in EntriesOf(st) : f.key # d
  BY <1>1, <1>2, <1>3 DEF Apart
<1> HIDE DEF d
<1>6. /\ Sound(st') /\ EntriesOf(st') = EntriesOf(st) /\ st'.attrs = st.attrs
      /\ DOMAIN st'.symbols = DOMAIN st.symbols /\ DeclsOf(st') = DeclsOf(st)
  BY <1>1, <1>2, <1>4, <1>5, RescopeIs
<1>7. Apart(st', Held')
  BY <1>1, <1>2, <1>6 DEF Apart, Held
<1>8. Typed'
  BY <1>1, <1>6 DEF IInv, Typed, Addresses
<1>9. AbstractNext
  BY <1>1, <1>6, Stutters
<1> QED BY <1>6, <1>7, <1>8, <1>9 DEF IInv

(* symboltable_free keeps the invariant and is a stutter of Scopes. *)
LEMMA FreeRefines ==
  ASSUME IInv, symboltable_free
  PROVE  IInv' /\ AbstractNext
<1>1. /\ st' = st /\ scope' = scope /\ phase' = "done" /\ fn' = fn /\ inits' = inits
      /\ reports' = reports /\ answer' = answer
  BY DEF symboltable_free
<1>2. IInv'
  BY <1>1 DEF IInv, Typed, Held, Addresses, Phases
<1> QED BY <1>1, <1>2, Stutters

(***************************************************************************)
(* The theorems.                                                           *)
(***************************************************************************)
LEMMA StepRefines ==
  ASSUME IInv, [Next]_vars
  PROVE  IInv' /\ AbstractNext
<1>1. ASSUME NEW n \in Names, Mention(n) PROVE IInv' /\ AbstractNext
  BY <1>1, MentionRefines
<1>2. ASSUME NEW n \in Names, n_init(n) PROVE IInv' /\ AbstractNext
  BY <1>2, InitRefines
<1>3. ASSUME NEW n \in Names, n_func(n) PROVE IInv' /\ AbstractNext
  BY <1>3, FuncRefines
<1>4. ASSUME NEW n \in Names, Variable(n) PROVE IInv' /\ AbstractNext
  BY <1>4, VariableRefines
<1>5. ASSUME NEW n \in Names, NEW m \in Names, RecordType(n, m) PROVE IInv' /\ AbstractNext
  BY <1>5, RecordTypeRefines
<1>6. ASSUME NEW n \in Names, NEW m \in Names, ArrayType(n, m) PROVE IInv' /\ AbstractNext
  BY <1>6, ArrayTypeRefines
<1>7. ASSUME NEW n \in Names, NEW m \in Names, GlobalArray(n, m) PROVE IInv' /\ AbstractNext
  BY <1>7, GlobalArrayRefines
<1>8. ASSUME NEW n \in Names, NEW m \in Names, ConstParam(n, m) PROVE IInv' /\ AbstractNext
  BY <1>8, ConstParamRefines
<1>9. ASSUME NEW n \in Names, NEW m \in Names, ArrayParam(n, m) PROVE IInv' /\ AbstractNext
  BY <1>9, ArrayParamRefines
<1>10. ASSUME NEW n \in Names, NEW m \in Names, ArrayLocal(n, m) PROVE IInv' /\ AbstractNext
  BY <1>10, ArrayLocalRefines
<1>11. ASSUME EndFunction PROVE IInv' /\ AbstractNext
  BY <1>11, EndFunctionRefines
<1>12. ASSUME n_mainbody \/ analyse_program PROVE IInv' /\ AbstractNext
  BY <1>12, TurnRefines
<1>13. ASSUME UpdateInit PROVE IInv' /\ AbstractNext
  BY <1>13, UpdateInitRefines
<1>14. ASSUME NEW a \in DOMAIN st.symbols, Lookup(a) PROVE IInv' /\ AbstractNext
  BY <1>14, LookupRefines
<1>15. ASSUME NEW b \in DOMAIN st.table, NEW e \in DOMAIN st.table[b], Rescope(b, e)
       PROVE IInv' /\ AbstractNext
  BY <1>15, RescopeRefines
<1>16. ASSUME symboltable_free PROVE IInv' /\ AbstractNext
  BY <1>16, FreeRefines
<1>17. ASSUME UNCHANGED vars PROVE IInv' /\ AbstractNext
  <2>1. /\ st' = st /\ scope' = scope /\ phase' = phase /\ fn' = fn /\ inits' = inits
        /\ reports' = reports /\ answer' = answer
    BY <1>17 DEF vars
  <2>2. IInv'
    BY <2>1 DEF IInv, Typed, Held, Addresses, Phases
  <2> QED BY <2>1, <2>2, Stutters
<1> QED BY <1>1, <1>2, <1>3, <1>4, <1>5, <1>6, <1>7, <1>8, <1>9, <1>10, <1>11, <1>12,
           <1>13, <1>14, <1>15, <1>16, <1>17 DEF Next

(* What the compiler starts with. *)
LEMMA InitIs ==
  ASSUME Init
  PROVE  IInv /\ Meanings!Init
<1>1. /\ st = [space |-> [i \in 1..32 |-> 0], seen |-> Empty, table |-> Empty,
               symbols |-> <<>>, live |-> <<>>, attrs |-> <<>>]
      /\ scope = 0 /\ phase = "consts" /\ fn = None /\ inits = <<>>
      /\ reports = 0 /\ answer = Null
  BY DEF Init
<1>2. Empty = [b \in Buckets |-> <<>>]
  BY DEF Empty, Buckets
<1>3. st \in Table
  <2>1. [i \in 1..32 |-> 0] \in Seq(Nat)
    OBVIOUS
  <2>2. Empty \in [Buckets -> Seq(Spelling)] /\ Empty \in [Buckets -> Seq(Entry)]
    BY <1>2
  <2>3. <<>> \in Seq(Symbol) /\ <<>> \in Seq(Nat) /\ <<>> \in Seq(Attribute)
    OBVIOUS
  <2> QED BY <1>1, <2>1, <2>2, <2>3 DEF Table
<1>4. /\ st.seen = Empty /\ st.table = Empty /\ DOMAIN st.symbols = {} /\ DOMAIN st.attrs = {}
  BY <1>1
<1>5. EntriesOf(st) = {} /\ \A b \in Buckets : DOMAIN st.seen[b] = {} /\ DOMAIN st.table[b] = {}
  BY <1>2, <1>4 DEF EntriesOf, Range
<1>6. Sound(st)
  BY <1>3, <1>4, <1>5 DEF Sound, SeenOnce, AllCut, Keyed, DataKnown
<1>7. Apart(st, Held)
  BY <1>5 DEF Apart
<1>8. Typed
  <2>1. None \in [key : Addresses \cup {0}, params : Seq(Addresses)] /\ <<>> \in Seq(Addresses)
    BY DEF None
  <2> QED BY <1>1, <2>1, ScopeAssumption DEF Typed, Phases
<1>9. DeclsOf(st) = <<>>
  <2>1. DOMAIN DeclsOf(st) = {}
    BY <1>5 DEF DeclsOf
  <2> QED BY <1>5 DEF DeclsOf
<1>10. Meanings!Init
  BY <1>1, <1>9, DeclsMapped DEF Meanings!Init
<1> QED BY <1>6, <1>7, <1>8, <1>10 DEF IInv

(* The invariant holds in every state of the symbol table. *)
THEOREM Inductive == Spec => []IInv
<1>1. Init => IInv
  BY InitIs
<1>2. IInv /\ [Next]_vars => IInv'
  BY StepRefines
<1> QED BY <1>1, <1>2, PTL DEF Spec

(* Every entry of the table leads from a symbol to an attribute and is where
   hashing its symbol looks for it, one for each key, although symbols that are
   shared with the table are written to after it was filled. *)
THEOREM TypeCorrect == Spec => []TypeOK
<1>1. ASSUME IInv PROVE TypeOK
  <2>1. Sound(st) /\ st \in Table /\ Keyed(st) /\ DataKnown(st) /\ AllCut(st)
    BY <1>1 DEF IInv, Sound
  <2>2. st.symbols \in Seq(Symbol) /\ st.attrs \in Seq(Attribute) /\ DOMAIN st.table = Buckets
    BY <2>1, TableIs
  <2>3. \A a \in Addresses : st.symbols[a] \in Symbol /\ st.symbols[a].scope \in 0..LastScope
    <3>1. \A a \in Addresses : st.symbols[a] \in Symbol
      BY <2>2 DEF Addresses
    <3>2. \A y \in Symbol : y.scope \in 0..LastScope
      BY DEF Symbol
    <3> QED BY <3>1, <3>2
  <2>4. \A x \in DOMAIN st.attrs : st.attrs[x].type \in Kinds
                                   /\ st.attrs[x].data \in Addresses \cup {0}
    <3>1. \A x \in DOMAIN st.attrs : st.attrs[x] \in Attribute
      BY <2>2
    <3>2. \A y \in Attribute : y.type \in Kinds
      BY DEF Attribute
    <3> QED BY <2>1, <3>1, <3>2 DEF DataKnown, Addresses
  <2>5. \A b \in DOMAIN st.table : \A e \in Range(st.table[b]) :
          e.key \in Addresses /\ e.val \in DOMAIN st.attrs
          /\ hash_symbol(st.symbols[e.key]) = b
    BY <2>1, <2>2 DEF Keyed, Addresses, Range
  <2>6. ASSUME NEW e \in Entries, NEW f \in Entries, e # f
        PROVE  ~equal_symbol(st.symbols[e.key], st.symbols[f.key])
    <3>1. e \in EntriesOf(st) /\ f \in EntriesOf(st)
      BY DEF Entries, EntriesOf
    <3>2. /\ e.key \in DOMAIN st.symbols /\ f.key \in DOMAIN st.symbols
          /\ st.attrs[e.val].of = Origin(st.symbols[e.key])
          /\ st.attrs[f.val].of = Origin(st.symbols[f.key])
      BY <2>1, <3>1, EntryIn
    <3>3. st.attrs[e.val].of # st.attrs[f.val].of
      BY <2>1, <2>6, <3>1 DEF Keyed
    <3>4. Cut(st, st.symbols[e.key]) /\ Cut(st, st.symbols[f.key])
      BY <2>1, <3>2 DEF AllCut
    <3>5. equal_symbol(st.symbols[e.key], st.symbols[f.key])
            <=> Origin(st.symbols[e.key]) = Origin(st.symbols[f.key])
      BY <2>1, <2>3, <3>2, <3>4, EqualIsOrigin DEF Addresses
    <3> QED BY <3>2, <3>3, <3>5
  <2> QED BY <2>3, <2>4, <2>5, <2>6 DEF TypeOK
<1> QED BY <1>1, Inductive, PTL

(* A symbol's slice of stringspace spells its identifier, and comparing slices
   is comparing identifiers. *)
THEOREM SpellingRight == Spec => []Spelled
<1>1. ASSUME IInv PROVE Spelled
  <2>1. Sound(st) /\ AllCut(st)
    BY <1>1 DEF IInv, Sound
  <2>2. \A a \in Addresses : st.symbols[a].iden \in Names /\ Cut(st, st.symbols[a])
    <3>1. st.symbols \in Seq(Symbol)
      BY <2>1, TableIs DEF Sound
    <3>2. \A a \in Addresses : st.symbols[a] \in Symbol
      BY <3>1 DEF Addresses
    <3> QED BY <2>1, <3>2 DEF AllCut, Addresses, Symbol
  <2>3. ASSUME NEW a \in Addresses, NEW y, y = st.symbols[a]
        PROVE  /\ SubSeq(st.space, y.start + 1, y.start + y.len) = y.iden
               /\ \A c \in Addresses : LET z == st.symbols[c] IN
                    (y.iden = z.iden) <=> (y.start = z.start /\ y.len = z.len)
    <3>1. Spells(st.space, Slice(y), y.iden)
      BY <2>1, <2>2, <2>3, SlicesSpell
    <3>2. SubSeq(st.space, y.start + 1, y.start + y.len) = y.iden
      BY <3>1 DEF Spells, Slice
    <3>3. \A c \in Addresses : LET z == st.symbols[c] IN
            (y.iden = z.iden) <=> (y.start = z.start /\ y.len = z.len)
      BY <2>1, <2>2, <2>3, SlicesSpell
    <3> QED BY <3>2, <3>3
  <2> QED BY <2>3 DEF Spelled
<1> QED BY <1>1, Inductive, PTL

(* The symbol table implements Scopes: the first declaration of a name in a
   scope stands, a later one is refused and reported, and every lookup, of any
   symbol, at any time, answers what the name means in its scope. *)
THEOREM Implements == Spec => ImplementsScopes
<1>1. Init => Meanings!Init
  BY InitIs
<1>2. IInv /\ [Next]_vars => [Meanings!Next]_(Meanings!scopesVars)
  BY StepRefines DEF AbstractNext
<1> QED BY <1>1, <1>2, Inductive, PTL DEF Spec, ImplementsScopes, Meanings!Spec

(***************************************************************************)
(* Who frees what.                                                         *)
(***************************************************************************)
(* No address is in live_pointers twice, and every symbol is there but those in U. *)
Once(s)    == \A i, j \in DOMAIN s.live : s.live[i] = s.live[j] => i = j
Kept(s, U) == Once(s) /\ DOMAIN s.symbols \subseteq Range(s.live) \cup U

(* What a function's list holds are attributes of arrays. *)
IsArray(s, x) == x \in DOMAIN s.attrs /\ s.attrs[x].type = "SARRAY"
Lists(s) == \A x \in DOMAIN s.attrs : \A k \in DOMAIN s.attrs[x].list :
              s.attrs[x].list[k] # 0 => IsArray(s, s.attrs[x].list[k])
(* A symbol leads to an array. *)
Leads(s, a) == \E e \in EntriesOf(s) : e.key = a /\ IsArray(s, e.val)

(* A program that was not reported has only arrays in its functions' lists: what was
   added to one led to its array, and still does at the end of the function. *)
Owning ==
  /\ Kept(st, {}) /\ reports \in Nat
  /\ reports = 0 => /\ Lists(st)
                    /\ \A k \in DOMAIN fn.params : Leads(st, fn.params[k])
  /\ Released

(* What free is handed is handed once: an address that is registered twice is in
   live_pointers once. *)
LEMMA RegisterOnce ==
  ASSUME NEW s, s \in Table, Once(s), NEW a \in Nat, NEW t, t = Register(s, a)
  PROVE  Once(t) /\ Range(s.live) \subseteq Range(t.live) /\ {a} \subseteq Range(t.live) \cup {0}
<1>1. s.live \in Seq(Nat)
  BY TableIs
<1>2. CASE a = 0 \/ a \in Range(s.live)
  BY <1>2 DEF Register
<1>3. CASE ~(a = 0 \/ a \in Range(s.live))
  <2>1. t = [s EXCEPT !.live = Append(@, a)]
    BY <1>3 DEF Register
  <2>2. t.live = Append(s.live, a)
    BY <2>1 DEF Table
  <2>3. /\ Len(s.live) \in Nat /\ DOMAIN s.live = 1..Len(s.live)
        /\ DOMAIN t.live = 1..(Len(s.live) + 1)
        /\ \A i \in DOMAIN s.live : t.live[i] = s.live[i]
        /\ t.live[Len(s.live) + 1] = a
    BY <1>1, <2>2
  <2>4. \A i \in DOMAIN s.live : s.live[i] # a
    BY <1>3 DEF Range
  <2>5. \A i \in DOMAIN t.live : i \in DOMAIN s.live \/ i = Len(s.live) + 1
    BY <2>3
  <2>6. Once(t)
    BY <2>3, <2>4, <2>5 DEF Once
  <2>7. DOMAIN s.live \subseteq DOMAIN t.live /\ Len(s.live) + 1 \in DOMAIN t.live
    BY <2>3
  <2>8. Range(s.live) \subseteq Range(t.live) /\ a \in Range(t.live)
    BY <2>3, <2>7 DEF Range
  <2> QED BY <2>6, <2>8
<1> QED BY <1>2, <1>3

(* A mention registers the symbol it makes. *)
LEMMA AddKept ==
  ASSUME NEW s, Sound(s), Kept(s, {}), NEW n \in Names, NEW sc \in 0..LastScope,
         NEW t, t = symboltable_add(s, n, sc)
  PROVE  Sound(t) /\ Kept(t, {}) /\ Adds(s, t, n, sc)
<1> DEFINE u == Intern(s, n)
           m == make_symbol(u, n, sc)
<1>1. Sound(u) /\ Met(u, n) /\ u.live = s.live /\ u.symbols = s.symbols
  BY InternIs
<1>2. t = Register(m, Len(m.symbols))
  BY DEF symboltable_add, Newest
<1> HIDE DEF u
<1>3. Sound(m) /\ Adds(u, m, n, sc) /\ m.live = u.live
  BY <1>1, MakeIs
<1> HIDE DEF m
<1>4. Len(m.symbols) \in Nat /\ Len(m.symbols) # 0 /\ m \in Table
      /\ DOMAIN m.symbols = DOMAIN s.symbols \cup {Len(m.symbols)}
  BY <1>1, <1>3 DEF Adds, Sound
<1>5. Once(m)
  BY <1>1, <1>3 DEF Kept, Once
<1>6. /\ Once(t) /\ Range(m.live) \subseteq Range(t.live)
      /\ {Len(m.symbols)} \subseteq Range(t.live) \cup {0}
  BY <1>2, <1>4, <1>5, RegisterOnce
<1>7. t.symbols = m.symbols
  BY <1>2, <1>3, <1>4, RegisterIs
<1>8. DOMAIN s.symbols \subseteq Range(m.live)
  BY <1>1, <1>3 DEF Kept
<1>9. Kept(t, {})
  BY <1>4, <1>6, <1>7, <1>8 DEF Kept
<1> QED BY <1>9, AddIs

(* What a declaration is made of: an attribute more, with its list, and at most one
   entry more. *)
LEMMA DeclareMakes ==
  ASSUME NEW s, NEW a, NEW kind, NEW data, NEW list, Declarable(s, a, kind, data, list),
         Declare(s, a, kind, data, list), Once(s)
  PROVE  /\ Once(st') /\ Range(s.live) \subseteq Range(st'.live)
         /\ kind \in {"SARRAY", "SSTRUCT"} => {data} \subseteq Range(st'.live) \cup {0}
         /\ \E x \in Attribute : st'.attrs = Append(s.attrs, x) /\ x.list = list
<1> DEFINE x == [type |-> kind, data |-> data, list |-> list,
                 of |-> <<s.symbols[a].iden, s.symbols[a].scope>>]
           m == [s EXCEPT !.attrs = Append(@, x)]
           made == Create(s, a, kind, data, list)
           u == [made EXCEPT !.table = hashmap_add(@, hash_symbol(s.symbols[a]), a, Len(made.attrs))]
<1>1. /\ Sound(s) /\ a \in DOMAIN s.symbols /\ kind \in Kinds
      /\ data \in DOMAIN s.symbols \cup {0} /\ list \in Seq(Nat)
  BY DEF Declarable
<1>2. /\ s \in Table /\ s.symbols \in Seq(Symbol) /\ s.attrs \in Seq(Attribute)
      /\ s.symbols[a] \in Symbol /\ a \in Nat /\ data \in Nat /\ a # 0
  BY <1>1, TableIs DEF Sound
<1>3. st' = made \/ st' = Register(u, a)
  BY DEF Declare
<1>4. made = IF kind \in {"SARRAY", "SSTRUCT"} THEN Register(m, data) ELSE m
  BY DEF Create
<1>5. x \in Attribute /\ x.list = list
  BY <1>1, <1>2 DEF Attribute, Symbol
<1>6. Sound(made)
  <2>1. \A q : q = made => Sound(q)
    BY CreateIs
  <2> QED BY <2>1
<1> HIDE DEF x
<1>7. m \in Table /\ m.live = s.live /\ m.attrs = Append(s.attrs, x)
  <2>1. Append(s.attrs, x) \in Seq(Attribute)
    BY <1>2, <1>5
  <2> QED BY <1>2, <2>1 DEF Table
<1> HIDE DEF m, made
<1>8. /\ Once(made) /\ Range(s.live) \subseteq Range(made.live)
      /\ kind \in {"SARRAY", "SSTRUCT"} => {data} \subseteq Range(made.live) \cup {0}
      /\ made.attrs = Append(s.attrs, x)
  <2>1. Once(m)
    BY <1>7 DEF Once
  <2>2. CASE kind \in {"SARRAY", "SSTRUCT"}
    <3>1. made = Register(m, data)
      BY <1>4, <2>2
    <3>2. /\ Once(made) /\ Range(m.live) \subseteq Range(made.live)
          /\ {data} \subseteq Range(made.live) \cup {0}
      BY <1>2, <1>7, <2>1, <3>1, RegisterOnce
    <3>3. made.attrs = m.attrs
      BY <1>7, <3>1 DEF Register, Table
    <3> QED BY <1>7, <3>2, <3>3
  <2>3. CASE kind \notin {"SARRAY", "SSTRUCT"}
    BY <1>4, <1>7, <2>1, <2>3
  <2> QED BY <2>2, <2>3
<1>9. CASE st' = made
  BY <1>5, <1>8, <1>9
<1>10. CASE st' = Register(u, a)
  <2>1. made \in Table
    BY <1>6 DEF Sound
  <2>2. u \in Table /\ u.live = made.live /\ u.attrs = made.attrs
    <3> DEFINE b == hash_symbol(s.symbols[a])
               e == [key |-> a, val |-> Len(made.attrs)]
    <3>1. b \in Buckets
      BY <1>2, HashOfSymbol
    <3>2. e \in Entry
      <4>1. Len(made.attrs) \in Nat
        BY <2>1, TableIs
      <4> QED BY <1>2, <4>1 DEF Entry
    <3>3. u = [made EXCEPT !.table = [made.table EXCEPT ![b] = Append(made.table[b], e)]]
      BY <2>1 DEF hashmap_add, Table
    <3> HIDE DEF u, b, e
    <3>4. made.table \in [Buckets -> Seq(Entry)]
      BY <2>1, TableIs
    <3>5. [made.table EXCEPT ![b] = Append(made.table[b], e)] \in [Buckets -> Seq(Entry)]
      <4>1. Append(made.table[b], e) \in Seq(Entry)
        BY <3>1, <3>2, <3>4
      <4> QED BY <3>4, <4>1
    <3> QED BY <2>1, <3>3, <3>5 DEF Table
  <2> HIDE DEF u
  <2>3. Once(u)
    BY <1>8, <2>2 DEF Once
  <2>4. Once(st') /\ Range(u.live) \subseteq Range(st'.live)
    BY <1>2, <1>10, <2>2, <2>3, RegisterOnce
  <2>5. st'.attrs = u.attrs
    BY <1>10, <2>2 DEF Register, Table
  <2> QED BY <1>5, <1>8, <2>2, <2>4, <2>5
<1> QED BY <1>3, <1>9, <1>10

(* Where attributes and entries stay, so does what they lead to. *)
LEMMA SameOwned ==
  ASSUME NEW s, NEW t, t.table = s.table, t.attrs = s.attrs
  PROVE  /\ \A x : IsArray(t, x) <=> IsArray(s, x)
         /\ Lists(t) <=> Lists(s)
         /\ \A a : Leads(t, a) <=> Leads(s, a)
<1>1. EntriesOf(t) = EntriesOf(s)
  BY DEF EntriesOf
<1> QED BY <1>1 DEF IsArray, Lists, Leads

(* A declaration frees nothing twice, and an array that is not reported leads to
   its attribute from then on. *)
LEMMA DeclareOwns ==
  ASSUME NEW s, NEW a, NEW kind, NEW data, NEW list, Declarable(s, a, kind, data, list),
         Declare(s, a, kind, data, list), NEW U, Kept(s, U), reports \in Nat,
         U \subseteq IF kind \in {"SARRAY", "SSTRUCT"} THEN {data} ELSE {}
  PROVE  /\ Kept(st', {}) /\ reports' \in Nat /\ (reports' = 0 => reports = 0)
         /\ Lists(s) /\ (\A k \in DOMAIN list : list[k] # 0 => IsArray(s, list[k])) => Lists(st')
         /\ \A c : Leads(s, c) => Leads(st', c)
         /\ reports' = 0 /\ kind = "SARRAY" => Leads(st', a)
<1>1. /\ Declared(s, st', a, kind, data)
      /\ reports' = IF Origin(s.symbols[a]) \in DOMAIN DeclsOf(s) THEN reports + 1 ELSE reports
  BY DeclareIs
<1>2. Sound(s) /\ s.symbols \in Seq(Symbol) /\ s.attrs \in Seq(Attribute)
  BY TableIs DEF Declarable, Sound
<1>3. /\ Once(st') /\ Range(s.live) \subseteq Range(st'.live)
      /\ kind \in {"SARRAY", "SSTRUCT"} => {data} \subseteq Range(st'.live) \cup {0}
      /\ \E x \in Attribute : st'.attrs = Append(s.attrs, x) /\ x.list = list
  BY DeclareMakes DEF Kept
<1>4. Kept(st', {})
  <2>1. st'.symbols = s.symbols /\ 0 \notin DOMAIN s.symbols
    BY <1>1, <1>2 DEF Declared
  <2> QED BY <1>3, <2>1 DEF Kept
<1>5. reports' \in Nat /\ (reports' = 0 => reports = 0 /\ Origin(s.symbols[a]) \notin DOMAIN DeclsOf(s))
  BY <1>1
<1>6. \A x : IsArray(s, x) => IsArray(st', x)
  BY <1>1 DEF IsArray, Declared
<1>7. EntriesOf(s) \subseteq EntriesOf(st')
  BY <1>1 DEF Declared
<1>8. \A c : Leads(s, c) => Leads(st', c)
  BY <1>6, <1>7 DEF Leads
<1>9. ASSUME Lists(s), \A k \in DOMAIN list : list[k] # 0 => IsArray(s, list[k])
      PROVE  Lists(st')
  <2>1. PICK x \in Attribute : st'.attrs = Append(s.attrs, x) /\ x.list = list
    BY <1>3
  <2>2. \A y \in DOMAIN st'.attrs : \/ y \in DOMAIN s.attrs /\ st'.attrs[y] = s.attrs[y]
                                    \/ st'.attrs[y] = x
    BY <1>2, <2>1
  <2> QED BY <1>6, <1>9, <2>1, <2>2 DEF Lists
<1>10. ASSUME reports' = 0, kind = "SARRAY" PROVE Leads(st', a)
  <2>1. PICK v \in DOMAIN st'.attrs :
          /\ EntriesOf(st') = EntriesOf(s) \cup {[key |-> a, val |-> v]}
          /\ Fresh(s, a, kind, data, st'.attrs[v])
    BY <1>1, <1>5, <1>10 DEF Declared
  <2>2. IsArray(st', v)
    BY <1>10, <2>1 DEF IsArray, Fresh
  <2> DEFINE e == [key |-> a, val |-> v]
  <2>3. e \in EntriesOf(st') /\ e.key = a /\ e.val = v
    BY <2>1
  <2> QED BY <2>2, <2>3 DEF Leads
<1> QED BY <1>4, <1>5, <1>8, <1>9, <1>10

(* A step that declares what was mentioned. *)
LEMMA DeclareOwning ==
  ASSUME Owning, NEW s, s.table = st.table, s.attrs = st.attrs,
         NEW a, NEW kind, NEW data, NEW list, Declarable(s, a, kind, data, list),
         Declare(s, a, kind, data, list), NEW U, Kept(s, U),
         U \subseteq IF kind \in {"SARRAY", "SSTRUCT"} THEN {data} ELSE {},
         reports = 0 => \A k \in DOMAIN list : list[k] # 0 => IsArray(st, list[k]),
         phase' # "done",
         \A k \in DOMAIN fn'.params : \/ \E j \in DOMAIN fn.params : fn'.params[k] = fn.params[j]
                                      \/ kind = "SARRAY" /\ fn'.params[k] = a
  PROVE  Owning'
<1>1. reports \in Nat
  BY DEF Owning
<1>2. /\ Kept(st', {}) /\ reports' \in Nat /\ (reports' = 0 => reports = 0)
      /\ Lists(s) /\ (\A k \in DOMAIN list : list[k] # 0 => IsArray(s, list[k])) => Lists(st')
      /\ \A c : Leads(s, c) => Leads(st', c)
      /\ reports' = 0 /\ kind = "SARRAY" => Leads(st', a)
  BY ONLY <1>1, DeclareOwns, Declarable(s, a, kind, data, list),
     Declare(s, a, kind, data, list), Kept(s, U),
     U \subseteq IF kind \in {"SARRAY", "SSTRUCT"} THEN {data} ELSE {}
<1>3. /\ \A x : IsArray(s, x) <=> IsArray(st, x)
      /\ Lists(s) <=> Lists(st)
      /\ \A c : Leads(s, c) <=> Leads(st, c)
  BY SameOwned
<1>4. reports' = 0 => Lists(st') /\ \A k \in DOMAIN fn'.params : Leads(st', fn'.params[k])
  BY <1>2, <1>3 DEF Owning
<1>5. Released'
  BY DEF Released
<1> QED BY <1>2, <1>4, <1>5 DEF Owning

(* A step that declares nothing. *)
LEMMA MentionOwning ==
  ASSUME Owning, st'.table = st.table, st'.attrs = st.attrs, Kept(st', {}),
         reports' \in {reports, reports + 1}, phase' # "done",
         reports' = 0 => \A k \in DOMAIN fn'.params :
           \E j \in DOMAIN fn.params : fn'.params[k] = fn.params[j]
  PROVE  Owning'
<1>1. /\ Lists(st') <=> Lists(st)
      /\ \A c : Leads(st', c) <=> Leads(st, c)
  BY SameOwned
<1>2. reports' \in Nat /\ (reports' = 0 => reports = 0)
  BY DEF Owning
<1>3. Released'
  BY DEF Released
<1> QED BY <1>1, <1>2, <1>3 DEF Owning

(* What a mention of a name leaves. *)
LEMMA NamedIs ==
  ASSUME IInv, Owning, NEW n \in Names, NEW sc \in 0..LastScope,
         NEW t, t = symboltable_add(st, n, sc)
  PROVE  /\ Sound(t) /\ Kept(t, {}) /\ t.table = st.table /\ t.attrs = st.attrs
         /\ Newest(t) = Len(st.symbols) + 1 /\ Newest(t) \in DOMAIN t.symbols
<1>1. Sound(st) /\ Kept(st, {})
  BY DEF IInv, Owning
<1>2. Sound(t) /\ Kept(t, {}) /\ Adds(st, t, n, sc)
  BY <1>1, AddKept
<1> QED BY <1>2 DEF Adds, Newest

(* And a second one, of its type. *)
LEMMA TypedIs ==
  ASSUME IInv, Owning, NEW n \in Names, NEW m \in Names,
         NEW s, s = symboltable_add(st, n, scope), NEW t, t = symboltable_add(s, m, scope)
  PROVE  /\ Sound(t) /\ Kept(t, {}) /\ t.table = st.table /\ t.attrs = st.attrs
         /\ Newest(s) = Len(st.symbols) + 1 /\ Newest(s) \in DOMAIN t.symbols
         /\ Newest(t) \in DOMAIN t.symbols
<1>1. /\ Sound(s) /\ Kept(s, {}) /\ s.table = st.table /\ s.attrs = st.attrs
      /\ Newest(s) = Len(st.symbols) + 1 /\ Newest(s) \in DOMAIN s.symbols
  BY HeldKnown, NamedIs
<1>2. Sound(t) /\ Kept(t, {}) /\ Adds(s, t, m, scope)
  BY <1>1, HeldKnown, AddKept
<1>3. /\ Len(t.symbols) = Len(s.symbols) + 1 /\ Len(s.symbols) \in Nat
      /\ DOMAIN s.symbols = 1..Len(s.symbols) /\ DOMAIN t.symbols = 1..(Len(s.symbols) + 1)
      /\ t.table = s.table /\ t.attrs = s.attrs
  BY <1>2 DEF Adds
<1>4. Newest(s) \in DOMAIN t.symbols /\ Newest(t) \in DOMAIN t.symbols
  BY <1>1, <1>3 DEF Newest
<1> QED BY <1>1, <1>2, <1>3, <1>4

(* Mentions of a name alone, and the heads of constants and functions. *)
LEMMA MentionOwns ==
  ASSUME IInv, Owning, NEW n \in Names, Mention(n) \/ n_init(n) \/ n_func(n)
  PROVE  Owning'
<1>1. /\ st' = symboltable_add(st, n, scope) \/ st' = symboltable_add(st, n, 0)
      /\ reports' = reports /\ phase' # "done"
      /\ fn' = fn \/ fn'.params = <<>>
  BY DEF Mention, n_init, n_func
<1>2. Kept(st', {}) /\ st'.table = st.table /\ st'.attrs = st.attrs
  BY <1>1, HeldKnown, NamedIs
<1>3. \A k \in DOMAIN fn'.params : \E j \in DOMAIN fn.params : fn'.params[k] = fn.params[j]
  <2>1. CASE fn' = fn
    BY <2>1
  <2>2. CASE fn'.params = <<>>
    BY <2>2
  <2> QED BY <1>1, <2>1, <2>2
<1> QED BY <1>1, <1>2, <1>3, MentionOwning

(* The turns of the sections, and lookups. *)
LEMMA TurnOwns ==
  ASSUME Owning, n_mainbody \/ analyse_program \/ \E a \in DOMAIN st.symbols : Lookup(a)
  PROVE  Owning'
<1>1. st' = st /\ reports' = reports /\ phase' # "done" /\ fn' = fn
  BY DEF n_mainbody, analyse_program, Lookup
<1>2. Kept(st', {})
  BY <1>1 DEF Owning
<1> QED BY <1>1, <1>2, MentionOwning

(* A symbol that is written to is registered as before. *)
LEMMA RescopeOwns ==
  ASSUME IInv, Owning, NEW b \in DOMAIN st.table, NEW i \in DOMAIN st.table[b], Rescope(b, i)
  PROVE  Owning'
<1> DEFINE d == st.attrs[st.table[b][i].val].data
           q == [st.symbols EXCEPT ![d].scope = 0]
<1>1. /\ st' = [st EXCEPT !.symbols[d].scope = 0] /\ phase' # "done"
      /\ reports' = reports /\ fn' = fn
  BY DEF Rescope
<1>2. st \in Table
  BY DEF IInv, Sound
<1>3. st' = [st EXCEPT !.symbols = q]
  BY <1>1
<1>4. DOMAIN q = DOMAIN st.symbols
  OBVIOUS
<1> HIDE DEF q
<1>5. st'.table = st.table /\ st'.attrs = st.attrs /\ st'.live = st.live /\ st'.symbols = q
  BY <1>2, <1>3 DEF Table
<1>6. Kept(st', {})
  BY <1>4, <1>5 DEF Owning, Kept, Once
<1> QED BY <1>1, <1>5, <1>6, MentionOwning

(* Types of records and of arrays are in the list of no function, *)
LEMMA TypeOwns ==
  ASSUME IInv, Owning, NEW n \in Names, NEW m \in Names, RecordType(n, m) \/ ArrayType(n, m)
  PROVE  Owning'
<1> DEFINE s == symboltable_add(st, n, scope)
           t == symboltable_add(s, m, scope)
           a == Newest(s)
           d == Newest(t)
<1>1. /\ Sound(t) /\ Kept(t, {}) /\ t.table = st.table /\ t.attrs = st.attrs
      /\ a \in DOMAIN t.symbols /\ d \in DOMAIN t.symbols
  BY TypedIs
<1>2. /\ Declare(t, a, "SFIELDS", 0, <<>>) \/ Declare(t, a, "SSTRUCT", d, <<>>)
      /\ phase' # "done" /\ fn' = fn
  BY DEF RecordType, ArrayType
<1> HIDE DEF t, a, d
<1>3. /\ Declarable(t, a, "SFIELDS", 0, <<>>) /\ Declarable(t, a, "SSTRUCT", d, <<>>)
  <2>1. <<>> \in Seq(Nat)
    OBVIOUS
  <2> QED BY <1>1, <2>1 DEF Declarable, Kinds
<1>4. \A k \in DOMAIN <<>> : FALSE
  OBVIOUS
<1>5. \A k \in DOMAIN fn'.params : \E j \in DOMAIN fn.params : fn'.params[k] = fn.params[j]
  BY <1>2
<1>6. ASSUME NEW kind, NEW data, NEW list, list = <<>>, Declare(t, a, kind, data, list),
             Declarable(t, a, kind, data, list)
      PROVE  Owning'
  <2>1. \A k \in DOMAIN list : list[k] # 0 => IsArray(st, list[k])
    BY <1>6
  <2>2. {} \subseteq IF kind \in {"SARRAY", "SSTRUCT"} THEN {data} ELSE {}
    OBVIOUS
  <2> QED BY <1>1, <1>2, <1>5, <1>6, <2>1, <2>2, DeclareOwning
<1> QED BY <1>2, <1>3, <1>6

(* and variables are not either. *)
LEMMA VariableOwns ==
  ASSUME IInv, Owning, NEW n \in Names, Variable(n)
  PROVE  Owning'
<1> DEFINE t == symboltable_add(st, n, scope)
           a == Newest(t)
<1>1. /\ Sound(t) /\ Kept(t, {}) /\ t.table = st.table /\ t.attrs = st.attrs
      /\ a \in DOMAIN t.symbols
  BY HeldKnown, NamedIs
<1>2. Declare(t, a, "SINT", 0, <<>>) /\ phase' # "done" /\ fn' = fn
  BY DEF Variable
<1> HIDE DEF t, a
<1>3. Declarable(t, a, "SINT", 0, <<>>)
  <2>1. <<>> \in Seq(Nat)
    OBVIOUS
  <2> QED BY <1>1, <2>1 DEF Declarable, Kinds
<1>5. \A k \in DOMAIN fn'.params : \E j \in DOMAIN fn.params : fn'.params[k] = fn.params[j]
  BY <1>2
<1>6. ASSUME NEW kind, NEW data, NEW list, list = <<>>, Declare(t, a, kind, data, list),
             Declarable(t, a, kind, data, list)
      PROVE  Owning'
  <2>1. \A k \in DOMAIN list : list[k] # 0 => IsArray(st, list[k])
    BY <1>6
  <2>2. {} \subseteq IF kind \in {"SARRAY", "SSTRUCT"} THEN {data} ELSE {}
    OBVIOUS
  <2> QED BY <1>1, <1>2, <1>5, <1>6, <2>1, <2>2, DeclareOwning
<1> QED BY <1>2, <1>3, <1>6

(* What a step may do to the parameters: add the array that it declares. *)
Lengthens ==
  \A k \in DOMAIN fn'.params : \/ \E j \in DOMAIN fn.params : fn'.params[k] = fn.params[j]
                               \/ fn'.params[k] = Len(st.symbols) + 1

(* An array is declared, or reported. *)
LEMMA ArrdeclOwns ==
  ASSUME IInv, Owning, NEW n \in Names, NEW m \in Names, Arrdecl(n, m),
         phase' # "done", Lengthens
  PROVE  Owning'
<1> DEFINE s == symboltable_add(st, n, scope)
           t == symboltable_add(s, m, scope)
           a == Newest(s)
           d == Newest(t)
<1>1. /\ Sound(t) /\ Kept(t, {}) /\ t.table = st.table /\ t.attrs = st.attrs
      /\ a = Len(st.symbols) + 1 /\ a \in DOMAIN t.symbols /\ d \in DOMAIN t.symbols
  BY TypedIs
<1>2. \/ Declare(t, a, "SARRAY", d, <<>>)
      \/ st' = t /\ reports' = reports + 1
  BY DEF Arrdecl
<1> HIDE DEF t, a, d
<1>3. CASE Declare(t, a, "SARRAY", d, <<>>)
  <2>1. <<>> \in Seq(Nat) /\ \A list : list = <<>> => \A k \in DOMAIN list : FALSE
    OBVIOUS
  <2>2. Declarable(t, a, "SARRAY", d, <<>>)
    BY <1>1, <2>1 DEF Declarable, Kinds
  <2>3. \A k \in DOMAIN fn'.params : \/ \E j \in DOMAIN fn.params : fn'.params[k] = fn.params[j]
                                     \/ fn'.params[k] = a
    BY <1>1 DEF Lengthens
  <2>4. ASSUME NEW kind, kind = "SARRAY", NEW list, list = <<>>, Declare(t, a, kind, d, list),
               Declarable(t, a, kind, d, list)
        PROVE  Owning'
    <3>1. \A k \in DOMAIN list : list[k] # 0 => IsArray(st, list[k])
      BY <2>4
    <3>2. {} \subseteq IF kind \in {"SARRAY", "SSTRUCT"} THEN {d} ELSE {}
      OBVIOUS
    <3> QED BY <1>1, <2>3, <2>4, <3>1, <3>2, DeclareOwning
  <2> QED BY <1>3, <2>2, <2>4
<1>4. CASE st' = t /\ reports' = reports + 1
  <2>1. reports' # 0
    BY <1>4 DEF Owning
  <2> QED BY <1>1, <1>4, <2>1, MentionOwning
<1> QED BY <1>2, <1>3, <1>4

(* An array whose type's symbol is not registered until the attribute is made. *)
LEMMA DeclArrayOwns ==
  ASSUME IInv, Owning, NEW n \in Names, NEW m \in Names, DeclArray(n, m),
         phase' # "done", Lengthens
  PROVE  Owning'
<1> DEFINE s == symboltable_add(st, n, scope)
           t == GetSymbol(s, m)
           a == Newest(s)
           d == IF Met(s, m) THEN Newest(t) ELSE 0
<1>1. /\ Sound(s) /\ Kept(s, {}) /\ s.table = st.table /\ s.attrs = st.attrs
      /\ a = Len(st.symbols) + 1 /\ a \in DOMAIN s.symbols
  BY HeldKnown, NamedIs
<1>2. Declare(t, a, "SARRAY", d, <<>>)
  BY DEF DeclArray
<1>3. t = IF Met(s, m) THEN make_symbol(s, m, 0) ELSE s
  BY DEF GetSymbol
<1> HIDE DEF s, t, a
<1>4. /\ Sound(t) /\ t.table = st.table /\ t.attrs = st.attrs /\ a \in DOMAIN t.symbols
      /\ d \in DOMAIN t.symbols \cup {0} /\ Kept(t, {d})
  <2>1. CASE Met(s, m)
    <3>1. Sound(t) /\ Adds(s, t, m, 0) /\ t.live = s.live
      BY <1>1, <1>3, <2>1, HeldKnown, MakeIs
    <3>2. /\ t.table = s.table /\ t.attrs = s.attrs
          /\ d = Len(t.symbols) /\ d \in DOMAIN t.symbols
          /\ DOMAIN t.symbols = DOMAIN s.symbols \cup {d}
      BY <2>1, <3>1 DEF Adds, Newest
    <3> QED BY <1>1, <3>1, <3>2 DEF Kept, Once
  <2>2. CASE ~Met(s, m)
    <3>1. t = s /\ d = 0
      BY <1>3, <2>2
    <3> QED BY <1>1, <3>1 DEF Kept
  <2> QED BY <2>1, <2>2
<1> HIDE DEF d
<1>5. <<>> \in Seq(Nat)
  OBVIOUS
<1>6. Declarable(t, a, "SARRAY", d, <<>>)
  BY <1>4, <1>5 DEF Declarable, Kinds
<1>7. \A k \in DOMAIN fn'.params : \/ \E j \in DOMAIN fn.params : fn'.params[k] = fn.params[j]
                                   \/ fn'.params[k] = a
  BY <1>1 DEF Lengthens
<1>8. ASSUME NEW kind, kind = "SARRAY", NEW list, list = <<>>, Declare(t, a, kind, d, list),
             Declarable(t, a, kind, d, list)
      PROVE  Owning'
  <2>1. \A k \in DOMAIN list : list[k] # 0 => IsArray(st, list[k])
    BY <1>8
  <2>2. {d} \subseteq IF kind \in {"SARRAY", "SSTRUCT"} THEN {d} ELSE {}
    BY <1>8
  <2> QED BY <1>4, <1>7, <1>8, <2>1, <2>2, DeclareOwning
<1> QED BY <1>2, <1>6, <1>8

(* Arrays as globals, as parameters and as locals. *)
LEMMA ArrayOwns ==
  ASSUME IInv, Owning, NEW n \in Names, NEW m \in Names,
         GlobalArray(n, m) \/ ConstParam(n, m) \/ ArrayParam(n, m) \/ ArrayLocal(n, m)
  PROVE  Owning'
<1>1. /\ Arrdecl(n, m) \/ DeclArray(n, m)
      /\ phase' # "done"
      /\ fn' = fn \/ fn' = [fn EXCEPT !.params = Append(@, Len(st.symbols) + 1)]
  BY DEF GlobalArray, ConstParam, ArrayParam, ArrayLocal
<1>2. fn \in [key : Addresses \cup {0}, params : Seq(Addresses)]
  BY DEF IInv, Typed
<1>3. Lengthens
  <2>1. CASE fn' = fn
    BY <2>1 DEF Lengthens
  <2>2. CASE fn' = [fn EXCEPT !.params = Append(@, Len(st.symbols) + 1)]
    <3> DEFINE a == Len(st.symbols) + 1
    <3>1. fn'.params = Append(fn.params, a) /\ fn.params \in Seq(Addresses)
      BY <1>2, <2>2
    <3> HIDE DEF a
    <3>2. \A k \in DOMAIN Append(fn.params, a) :
            \/ k \in DOMAIN fn.params /\ Append(fn.params, a)[k] = fn.params[k]
            \/ Append(fn.params, a)[k] = a
      BY <3>1
    <3> QED BY <3>1, <3>2 DEF Lengthens, a
  <2> QED BY <1>1, <2>1, <2>2
<1> QED BY <1>1, <1>3, ArrdeclOwns, DeclArrayOwns

(* A symbol that leads to an array is looked up as one, whatever else has its name. *)
LEMMA LeadsFound ==
  ASSUME NEW s, Sound(s), NEW a \in DOMAIN s.symbols, Leads(s, a)
  PROVE  IsArray(s, astree_get_attribute(s, a))
<1> DEFINE y == s.symbols[a]
           own == AttributeAt(s, y)
<1>1. y \in Symbol /\ Cut(s, y) /\ Keyed(s)
  BY TableIs DEF Sound, AllCut
<1>2. Found(s, own, Origin(y))
  BY <1>1, AttributeAtIs
<1>3. PICK e \in EntriesOf(s) : e.key = a /\ IsArray(s, e.val)
  BY DEF Leads
<1>4. s.attrs[e.val].of = Origin(y)
  BY <1>3, EntryIn
<1>5. own = e.val
  <2>1. own # 0
    BY <1>2, <1>4 DEF Found
  <2>2. PICK f \in EntriesOf(s) : own = f.val /\ s.attrs[f.val].of = Origin(y)
    BY <1>2, <2>1 DEF Found
  <2>3. f = e
    BY <1>1, <1>4, <2>2 DEF Keyed
  <2> QED BY <2>2, <2>3
<1>6. e.val # 0
  <2>1. s.attrs \in Seq(Attribute)
    BY TableIs DEF Sound
  <2> QED BY <1>3, <2>1 DEF IsArray
<1>7. astree_get_attribute(s, a) = own
  BY <1>5, <1>6 DEF astree_get_attribute
<1> QED BY <1>3, <1>5, <1>7

(* The list of a function has the attributes of its array parameters. *)
LEMMA EndFunctionOwns ==
  ASSUME IInv, Owning, EndFunction
  PROVE  Owning'
<1> DEFINE list == [k \in DOMAIN fn.params |-> astree_get_attribute(st, fn.params[k])]
<1>1. /\ Declare(st, fn.key, "SVOID", 0, list) /\ phase' # "done" /\ fn' = None
      /\ phase \in {"params", "locals"}
  BY DEF EndFunction
<1>2. /\ fn.key \in DOMAIN st.symbols /\ fn.params \in Seq(DOMAIN st.symbols) /\ Sound(st)
  BY <1>1 DEF IInv, Typed, Addresses
<1>3. \A a \in DOMAIN st.symbols : astree_get_attribute(st, a) \in Nat
  <2>1. ASSUME NEW a \in DOMAIN st.symbols, NEW v, v = astree_get_attribute(st, a)
        PROVE  v \in Nat
    <3>1. v \in {e.val : e \in EntriesOf(st)} \cup {0}
      BY <1>2, <2>1, LookupIs
    <3>2. \A e \in EntriesOf(st) : e.val \in Nat
      BY <1>2, EntryIn DEF Entry
    <3> QED BY <3>1, <3>2
  <2> QED BY <2>1
<1>4. /\ DOMAIN list = DOMAIN fn.params
      /\ \A k \in DOMAIN list : fn.params[k] \in DOMAIN st.symbols
                                /\ list[k] = astree_get_attribute(st, fn.params[k])
  BY <1>2
<1>5. list \in Seq(Nat)
  <2>1. Len(fn.params) \in Nat /\ DOMAIN fn.params = 1..Len(fn.params)
    BY <1>2
  <2>2. list \in [1..Len(fn.params) -> Nat]
    BY <1>3, <1>4, <2>1
  <2> HIDE DEF list
  <2> QED BY <2>1, <2>2
<1> HIDE DEF list
<1>6. reports = 0 => \A k \in DOMAIN list : IsArray(st, list[k])
  BY <1>2, <1>4, LeadsFound DEF Owning
<1>7. Declarable(st, fn.key, "SVOID", 0, list)
  BY <1>2, <1>5 DEF Declarable, Kinds
<1>8. DOMAIN fn'.params = {}
  BY <1>1 DEF None
<1>9. Kept(st, {})
  BY DEF Owning
<1>10. ASSUME NEW s, s = st, NEW a, NEW kind, NEW data, Declare(s, a, kind, data, list),
              Declarable(s, a, kind, data, list), Kept(s, {})
       PROVE  Owning'
  <2>1. {} \subseteq IF kind \in {"SARRAY", "SSTRUCT"} THEN {data} ELSE {}
    OBVIOUS
  <2> QED BY <1>1, <1>6, <1>8, <1>10, <2>1, DeclareOwning
<1> QED BY <1>1, <1>7, <1>9, <1>10

(* A constant gets its attribute. *)
LEMMA UpdateInitOwns ==
  ASSUME IInv, Owning, UpdateInit
  PROVE  Owning'
<1>1. /\ Declare(st, Head(inits), "SINT", 0, <<>>) /\ phase' # "done" /\ fn' = fn
      /\ inits # <<>>
  BY DEF UpdateInit
<1>2. Head(inits) \in DOMAIN st.symbols /\ Sound(st)
  BY <1>1 DEF IInv, Typed, Addresses
<1>3. <<>> \in Seq(Nat)
  OBVIOUS
<1>4. Declarable(st, Head(inits), "SINT", 0, <<>>)
  BY <1>2, <1>3 DEF Declarable, Kinds
<1>5. \A k \in DOMAIN fn'.params : \E j \in DOMAIN fn.params : fn'.params[k] = fn.params[j]
  BY <1>1
<1>6. Kept(st, {})
  BY DEF Owning
<1>7. ASSUME NEW s, s = st, NEW a, NEW kind, NEW data, NEW list, list = <<>>,
             Declare(s, a, kind, data, list), Declarable(s, a, kind, data, list), Kept(s, {})
      PROVE  Owning'
  <2>1. {} \subseteq IF kind \in {"SARRAY", "SSTRUCT"} THEN {data} ELSE {}
    OBVIOUS
  <2>2. \A k \in DOMAIN list : list[k] # 0 => IsArray(st, list[k])
    BY <1>7
  <2> QED BY <1>1, <1>5, <1>7, <2>1, <2>2, DeclareOwning
<1> QED BY <1>1, <1>4, <1>6, <1>7

(* There are no more entries than attributes. *)
LEMMA EntriesFinite ==
  ASSUME NEW s, Sound(s)
  PROVE  IsFiniteSet(EntriesOf(s))
<1> DEFINE f == [e \in EntriesOf(s) |-> e.val]
<1>1. s.attrs \in Seq(Attribute) /\ Keyed(s)
  BY TableIs DEF Sound
<1>2. DOMAIN s.attrs = 1..Len(s.attrs) /\ Len(s.attrs) \in Nat
  BY <1>1
<1>3. IsFiniteSet(DOMAIN s.attrs)
  BY <1>2, FS_Interval
<1>4. \A e \in EntriesOf(s) : e.val \in DOMAIN s.attrs
  BY EntryIn
<1>5. \A d, e \in EntriesOf(s) : d.val = e.val => d = e
  BY <1>1 DEF Keyed
<1>6. f \in Injection(EntriesOf(s), DOMAIN s.attrs)
  BY <1>4, <1>5 DEF Injection, IsInjective
<1> QED BY <1>3, <1>6, FS_Injection

(* Sets of entries and of places are counted by what is in them. *)
LEMMA CountIs ==
  ASSUME NEW S, IsFiniteSet(S)
  PROVE  /\ Cardinality(S) \in Nat
         /\ Cardinality(S) > 0 => S # {}
         /\ \A x : x \in S /\ (\A y \in S : y = x) => Cardinality(S) = 1
<1>1. Cardinality(S) \in Nat
  BY FS_CardinalityType
<1>2. Cardinality(S) > 0 => S # {}
  BY FS_EmptySet
<1>3. ASSUME NEW x \in S, \A y \in S : y = x PROVE Cardinality(S) = 1
  <2>1. S = {x}
    BY <1>3
  <2> QED BY <2>1, FS_Singleton
<1> QED BY <1>1, <1>2, <1>3

(* What symboltable_free does is what Released says. *)
LEMMA FreeOwns ==
  ASSUME IInv, Owning, symboltable_free
  PROVE  Owning'
<1> DEFINE At(a) == {k \in DOMAIN st.live : st.live[k] = a}
           Of(a) == {e \in Entries : Owned(e).type \in {"SARRAY", "SSTRUCT"} /\ Owned(e).data = a}
           To(x) == {e \in Entries : e.val = x}
           In(x) == {e \in Entries : x \in Range(Owned(e).list)}
<1>1. /\ st' = st /\ fn' = fn /\ reports' = reports /\ reports = 0
      /\ freed' = [symbols |-> [a \in DOMAIN st.symbols |-> Cardinality(At(a)) + Cardinality(Of(a))],
                   attrs   |-> [x \in DOMAIN st.attrs |-> Cardinality(To(x)) + Cardinality(In(x))]]
  BY DEF symboltable_free
<1>2. Sound(st) /\ Kept(st, {}) /\ Lists(st) /\ Keyed(st) /\ st.live \in Seq(Nat)
      /\ st.attrs \in Seq(Attribute)
  BY <1>1, TableIs DEF IInv, Owning, Sound
<1>3. Entries = EntriesOf(st)
  BY DEF Entries, EntriesOf
<1>4. /\ \A a : At(a) \subseteq DOMAIN st.live /\ Of(a) \subseteq Entries
      /\ \A x : To(x) \subseteq Entries /\ In(x) \subseteq Entries
  OBVIOUS
<1>5. /\ \A a : IsFiniteSet(At(a)) /\ IsFiniteSet(Of(a))
      /\ \A x : IsFiniteSet(To(x)) /\ IsFiniteSet(In(x))
  <2>1. IsFiniteSet(DOMAIN st.live)
    <3>1. DOMAIN st.live = 1..Len(st.live) /\ Len(st.live) \in Nat
      BY <1>2
    <3> QED BY <3>1, FS_Interval
  <2>2. IsFiniteSet(Entries)
    BY <1>2, <1>3, EntriesFinite
  <2> HIDE DEF At, Of, To, In
  <2>3. \A S : S \subseteq Entries => IsFiniteSet(S)
    BY <2>2, FS_Subset
  <2>4. \A S : S \subseteq DOMAIN st.live => IsFiniteSet(S)
    BY <2>1, FS_Subset
  <2> QED BY <1>4, <2>3, <2>4
<1>6. ASSUME NEW a \in Addresses
      PROVE  /\ freed'.symbols[a] >= 1
             /\ freed'.symbols[a] > 1 =>
                  \E e \in Entries : Owned(e).type \in {"SARRAY", "SSTRUCT"} /\ Owned(e).data = a
  <2>1. freed'.symbols[a] = Cardinality(At(a)) + Cardinality(Of(a))
    BY <1>1 DEF Addresses
  <2>2. PICK k \in DOMAIN st.live : st.live[k] = a
    BY <1>2 DEF Kept, Addresses, Range
  <2>3. k \in At(a) /\ \A j \in At(a) : j = k
    BY <1>2, <2>2 DEF Kept, Once
  <2>4. Of(a) # {} =>
          \E e \in Entries : Owned(e).type \in {"SARRAY", "SSTRUCT"} /\ Owned(e).data = a
    OBVIOUS
  <2> HIDE DEF At, Of
  <2>5. Cardinality(At(a)) = 1 /\ Cardinality(Of(a)) \in Nat /\ (Cardinality(Of(a)) > 0 => Of(a) # {})
    BY <1>5, <2>3, CountIs
  <2> QED BY <2>1, <2>4, <2>5
<1>7. ASSUME NEW e \in Entries
      PROVE  /\ freed'.attrs[e.val] >= 1
             /\ freed'.attrs[e.val] > 1 => Owned(e).type = "SARRAY"
  <2> DEFINE x == e.val
  <2>1. x \in DOMAIN st.attrs /\ x # 0
    BY <1>2, <1>3, EntryIn
  <2>2. freed'.attrs[x] = Cardinality(To(x)) + Cardinality(In(x))
    BY <1>1, <2>1
  <2>3. e \in To(x) /\ \A f \in To(x) : f = e
    BY <1>2, <1>3 DEF Keyed
  <2>4. In(x) # {} => Owned(e).type = "SARRAY"
    <3>1. ASSUME NEW f \in In(x) PROVE Owned(e).type = "SARRAY"
      <4>1. f.val \in DOMAIN st.attrs /\ x \in Range(st.attrs[f.val].list)
        BY <1>2, <1>3, EntryIn DEF Owned
      <4>2. PICK k \in DOMAIN st.attrs[f.val].list : st.attrs[f.val].list[k] = x
        BY <4>1 DEF Range
      <4> QED BY <1>2, <2>1, <4>1, <4>2 DEF Lists, IsArray, Owned
    <3> QED BY <3>1
  <2> HIDE DEF To, In
  <2>5. Cardinality(To(x)) = 1 /\ Cardinality(In(x)) \in Nat /\ (Cardinality(In(x)) > 0 => In(x) # {})
    BY <1>5, <2>3, CountIs
  <2> QED BY <2>2, <2>4, <2>5
<1> HIDE DEF At, Of, To, In
<1>8. Released'
  <2>1. Addresses' = Addresses /\ Entries' = Entries /\ \A e : Owned(e)' = Owned(e)
    BY <1>1 DEF Addresses, Entries, Owned
  <2>2. /\ \A a \in Addresses :
             /\ freed'.symbols[a] >= 1
             /\ freed'.symbols[a] > 1 =>
                  \E e \in Entries : Owned(e).type \in {"SARRAY", "SSTRUCT"} /\ Owned(e).data = a
        /\ \A e \in Entries : /\ freed'.attrs[e.val] >= 1
                              /\ freed'.attrs[e.val] > 1 => Owned(e).type = "SARRAY"
    BY <1>6, <1>7
  <2> QED BY <1>1, <2>2 DEF Released, Addresses, Entries, Owned
<1> QED BY <1>1, <1>8 DEF Owning

(* Every step keeps it. *)
LEMMA StepOwns ==
  ASSUME IInv, Owning, [Next]_vars
  PROVE  Owning'
<1>1. ASSUME NEW n \in Names, Mention(n) \/ n_init(n) \/ n_func(n) PROVE Owning'
  BY <1>1, MentionOwns
<1>2. ASSUME NEW n \in Names, Variable(n) PROVE Owning'
  BY <1>2, VariableOwns
<1>3. ASSUME NEW n \in Names, NEW m \in Names, RecordType(n, m) \/ ArrayType(n, m) PROVE Owning'
  BY <1>3, TypeOwns
<1>4. ASSUME NEW n \in Names, NEW m \in Names,
             GlobalArray(n, m) \/ ConstParam(n, m) \/ ArrayParam(n, m) \/ ArrayLocal(n, m)
      PROVE  Owning'
  BY <1>4, ArrayOwns
<1>5. ASSUME EndFunction PROVE Owning'
  BY <1>5, EndFunctionOwns
<1>6. ASSUME n_mainbody \/ analyse_program \/ \E a \in DOMAIN st.symbols : Lookup(a) PROVE Owning'
  BY <1>6, TurnOwns
<1>7. ASSUME UpdateInit PROVE Owning'
  BY <1>7, UpdateInitOwns
<1>8. ASSUME NEW b \in DOMAIN st.table, NEW i \in DOMAIN st.table[b], Rescope(b, i) PROVE Owning'
  BY <1>8, RescopeOwns
<1>9. ASSUME symboltable_free PROVE Owning'
  BY <1>9, FreeOwns
<1>10. ASSUME UNCHANGED vars PROVE Owning'
  <2>1. /\ st' = st /\ phase' = phase /\ fn' = fn /\ reports' = reports /\ freed' = freed
    BY <1>10 DEF vars
  <2>2. Released'
    BY <2>1 DEF Owning, Released, Addresses, Entries, Owned
  <2> QED BY <2>1, <2>2 DEF Owning
<1> QED BY <1>1, <1>2, <1>3, <1>4, <1>5, <1>6, <1>7, <1>8, <1>9, <1>10 DEF Next

(* The parser starts with nothing to free. *)
LEMMA InitOwns ==
  ASSUME Init
  PROVE  Owning
<1>1. /\ st.live = <<>> /\ st.symbols = <<>> /\ st.attrs = <<>>
      /\ phase = "consts" /\ fn = None /\ reports = 0
  BY DEF Init
<1>2. Kept(st, {})
  BY <1>1 DEF Kept, Once
<1>3. Lists(st) /\ DOMAIN fn.params = {}
  BY <1>1 DEF Lists, None
<1>4. Released
  BY <1>1 DEF Released
<1> QED BY <1>1, <1>2, <1>3, <1>4 DEF Owning

(* At the end every symbol and every attribute of the table is freed, and only what
   has two owners is freed twice: types of arrays, and the attributes of arrays. *)
THEOREM AllReleased == Spec => []Released
<1>1. Init => IInv /\ Owning
  BY InitIs, InitOwns
<1>2. (IInv /\ Owning) /\ [Next]_vars => (IInv /\ Owning)'
  BY StepRefines, StepOwns
<1>3. Owning => Released
  BY DEF Owning
<1> QED BY <1>1, <1>2, <1>3, PTL DEF Spec
=============================================================================
