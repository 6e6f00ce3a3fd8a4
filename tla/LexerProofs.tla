---------------------------- MODULE LexerProofs ----------------------------
(***************************************************************************)
(* Theorems about the lexer, for every text and every bound: the automaton *)
(* makes the tokens that the text means by longest match.                  *)
(*                                                                         *)
(* What is read is a text that may go on.  So what is known of a piece of  *)
(* it is said of every text that begins with what was read: then it stays  *)
(* known, whatever comes next.                                             *)
(***************************************************************************)
EXTENDS Lexer, FiniteSetTheorems, SequenceTheorems, WellFoundedInduction, TLAPS

(***************************************************************************)
(* Induction over numbers, with a set in the place of the predicate: the   *)
(* theorems of NaturalsInduction take an operator, which no prover at hand *)
(* instantiates; a set {n \in Nat : P(n)} does the same work.              *)
(***************************************************************************)
(* A set of natural numbers that has an element has a least one. *)
LEMMA LeastNat ==
  ASSUME NEW T, T \subseteq Nat, T # {}
  PROVE  \E x \in T : \A y \in T : x <= y
<1> DEFINE Below == {p \in Nat \X Nat : p[1] < p[2]}
<1>1. IsWellFoundedOn(Below, Nat)
  BY NatLessThanWellFounded DEF OpToRel
<1> HIDE DEF Below
<1>2. \E x \in T : \A y \in T : <<y, x>> \notin Below
  BY <1>1, WFMin, Zenon
<1>3. PICK x \in T : \A y \in T : <<y, x>> \notin Below
  BY <1>2
<1>4. ASSUME NEW y \in T PROVE x <= y
  <2>1. x \in Nat /\ y \in Nat /\ <<y, x>> \notin Below
    BY <1>3
  <2>2. y < x => <<y, x>> \in Below
    BY <2>1 DEF Below
  <2> QED BY <2>1, <2>2
<1> QED BY <1>4

(* So has a set of integers that is bounded from below, and one that is bounded
   from above has a greatest one. *)
LEMMA LeastInt ==
  ASSUME NEW T, T \subseteq Int, T # {}, NEW m \in Int, \A t \in T : m <= t
  PROVE  \E x \in T : \A y \in T : x <= y
<1> DEFINE U == {n \in Nat : n + m \in T}
<1>1. U \subseteq Nat
  OBVIOUS
<1>2. U # {}
  <2>1. PICK t \in T : TRUE
    OBVIOUS
  <2>2. t - m \in Nat /\ (t - m) + m = t
    BY <2>1
  <2>3. t - m \in U
    BY <2>2
  <2> QED BY <2>3
<1>3. \A t \in T : t - m \in U
  OBVIOUS
<1>4. \A u \in U : u \in Nat /\ u + m \in T
  OBVIOUS
<1> HIDE DEF U
<1>5. PICK u \in U : \A w \in U : u <= w
  BY <1>1, <1>2, LeastNat
<1>6. u + m \in T
  BY <1>4
<1>7. ASSUME NEW t \in T PROVE u + m <= t
  <2>1. u <= t - m /\ u \in Nat
    BY <1>3, <1>4, <1>5
  <2> QED BY <2>1
<1> QED BY <1>6, <1>7

(* A non-empty set of integers with an upper bound has a greatest element. *)
LEMMA GreatestInt ==
  ASSUME NEW T, T \subseteq Int, T # {}, NEW m \in Int, \A t \in T : t <= m
  PROVE  \E x \in T : \A y \in T : y <= x
<1> DEFINE U == {n \in Nat : m - n \in T}
<1>1. U \subseteq Nat
  OBVIOUS
<1>2. U # {}
  <2>1. PICK t \in T : TRUE
    OBVIOUS
  <2>2. m - t \in Nat /\ m - (m - t) = t
    BY <2>1
  <2>3. m - t \in U
    BY <2>2
  <2> QED BY <2>3
<1>3. \A t \in T : m - t \in U
  OBVIOUS
<1>4. \A u \in U : u \in Nat /\ m - u \in T
  OBVIOUS
<1> HIDE DEF U
<1>5. PICK u \in U : \A w \in U : u <= w
  BY <1>1, <1>2, LeastNat
<1>6. m - u \in T
  BY <1>4
<1>7. ASSUME NEW t \in T PROVE t <= m - u
  <2>1. u <= m - t /\ u \in Nat
    BY <1>3, <1>4, <1>5
  <2> QED BY <2>1
<1> QED BY <1>6, <1>7

(* Induction from a number a, up to b. *)
LEMMA InductUpTo ==
  ASSUME NEW a \in Int, NEW b \in Int, NEW S, a \in S,
         \A k \in a..(b - 1) : k \in S => k + 1 \in S
  PROVE  a..b \subseteq S
<1>1. SUFFICES ASSUME NEW m \in a..b, m \notin S PROVE FALSE
  OBVIOUS
<1> DEFINE Out == {k \in a..b : k \notin S}
<1>2. Out \subseteq Int /\ Out # {} /\ \A t \in Out : a <= t
  BY <1>1
<1>3. \A k \in a..b : k \notin Out => k \in S
  OBVIOUS
<1>4. \A k \in Out : k \in a..b /\ k \notin S
  OBVIOUS
<1> HIDE DEF Out
<1>5. PICK x \in Out : \A y \in Out : x <= y
  BY <1>2, LeastInt
<1>6. x \in a..b /\ x \notin S
  BY <1>4
<1>7. x # a /\ x - 1 \in a..(b - 1) /\ x - 1 \in a..b /\ (x - 1) + 1 = x
  BY <1>6
<1>8. x - 1 \notin Out
  BY <1>5, <1>7, <1>6
<1> QED BY <1>3, <1>6, <1>7, <1>8

(***************************************************************************)
(* Spellings.                                                              *)
(***************************************************************************)
(* A slice, character by character. *)
LEMMA SliceIs ==
  ASSUME NEW u \in Seq(Chars), NEW i \in Nat \ {0}, NEW n \in Nat, i + n - 1 <= Len(u)
  PROVE  /\ Slice(u, i, n) \in Seq(Chars) /\ Len(Slice(u, i, n)) = n
         /\ \A k \in 1..n : Slice(u, i, n)[k] = u[i + k - 1]
         /\ \A k \in 1..n : u[i + k - 1] \in Chars
<1>1. \A k \in i..(i + n - 1) : k \in 1..Len(u) /\ u[k] \in Chars
  OBVIOUS
<1>2. Slice(u, i, n) = [k \in 1..n |-> u[i + k - 1]]
  BY DEF Slice
<1>3. \A k \in 1..n : i + k - 1 \in i..(i + n - 1)
  OBVIOUS
<1>4. Slice(u, i, n) \in Seq(Chars)
  <2> DEFINE f == [k \in 1..n |-> u[i + k - 1]]
  <2>1. f \in [1..n -> Chars]
    BY <1>1, <1>3
  <2> QED BY <1>2, <2>1, SeqDef
<1> QED BY <1>1, <1>2, <1>3, <1>4

(* Which slices are spellings of signs. *)
LEMMA SignIs ==
  ASSUME NEW s \in Seq(Chars), s # <<>>
  PROVE  /\ OperatorOf(s) # "none" =>
              /\ s[1] \in Signs \cup DOMAIN Lone
              /\ \/ Len(s) = 1 /\ s[1] # "!"
                 \/ Len(s) = 2 /\ s[1] \in Signs /\ s[2] = "="
                 \/ Len(s) = 2 /\ s[1] \in {"<", ">"} /\ s[2] = s[1]
         /\ Len(s) = 1 /\ s[1] \in DOMAIN Lone => OperatorOf(s) = Lone[s[1]]
         /\ Len(s) = 1 /\ s[1] \in DOMAIN Alone => OperatorOf(s) = Alone[s[1]]
         /\ Len(s) = 2 /\ s[1] \in Signs /\ s[2] = "=" => OperatorOf(s) = BeforeEqual[s[1]]
         /\ Len(s) = 2 /\ s[1] \in {"<", ">"} /\ s[2] = s[1] => OperatorOf(s) = Twice[s[1]]
<1>1. Len(s) \in Nat /\ Len(s) # 0
  OBVIOUS
<1>2. /\ DOMAIN Lone = {";", ".", "("} /\ DOMAIN Alone = Signs \ {"!"}
      /\ DOMAIN BeforeEqual = Signs /\ DOMAIN Twice = {"<", ">"}
  BY DEF Lone, Alone, BeforeEqual, Twice, Signs
<1>3. /\ "none" \notin {"="} /\ "!" \notin DOMAIN Lone \cup DOMAIN Alone
      /\ DOMAIN Lone \cap DOMAIN Alone = {} /\ DOMAIN Alone \subseteq Signs
      /\ {"<", ">"} \subseteq Signs /\ "=" \notin {"<", ">"}
  BY <1>2 DEF Signs
<1> DEFINE a == Len(s) = 1 /\ s[1] \in DOMAIN Lone
           b == Len(s) = 1 /\ s[1] \in DOMAIN Alone
           c == Len(s) = 2 /\ s[1] \in DOMAIN BeforeEqual /\ s[2] = "="
           d == Len(s) = 2 /\ s[1] \in DOMAIN Twice /\ s[2] = s[1]
<1>4. ~(a /\ b) /\ ~(a /\ c) /\ ~(a /\ d) /\ ~(b /\ c) /\ ~(b /\ d) /\ ~(c /\ d)
  <2>1. ~(a /\ b)
    BY <1>3
  <2>2. ~(a /\ c) /\ ~(a /\ d) /\ ~(b /\ c) /\ ~(b /\ d)
    OBVIOUS
  <2>3. ~(c /\ d)
    BY <1>2
  <2> QED BY <2>1, <2>2, <2>3
<1>5. /\ a => OperatorOf(s) = Lone[s[1]]
      /\ b => OperatorOf(s) = Alone[s[1]]
      /\ c => OperatorOf(s) = BeforeEqual[s[1]]
      /\ d => OperatorOf(s) = Twice[s[1]]
      /\ ~a /\ ~b /\ ~c /\ ~d => OperatorOf(s) = "none"
  BY <1>4 DEF OperatorOf
<1>6. OperatorOf(s) # "none" => a \/ b \/ c \/ d
  BY <1>5
<1>7. Len(s) = 1 /\ s[1] = "!" => ~a /\ ~b
  BY <1>3
<1>8. /\ a => s[1] \in DOMAIN Lone /\ Len(s) = 1 /\ s[1] # "!"
      /\ b => s[1] \in Signs /\ Len(s) = 1 /\ s[1] # "!"
      /\ c => Len(s) = 2 /\ s[1] \in Signs /\ s[2] = "="
      /\ d => Len(s) = 2 /\ s[1] \in {"<", ">"} /\ s[1] \in Signs /\ s[2] = s[1]
  <2>1. a => s[1] \in DOMAIN Lone /\ Len(s) = 1 /\ s[1] # "!"
    BY <1>7
  <2>2. b => s[1] \in Signs /\ Len(s) = 1 /\ s[1] # "!"
    BY <1>3, <1>7
  <2>3. c => Len(s) = 2 /\ s[1] \in Signs /\ s[2] = "="
    BY <1>2
  <2>4. d => Len(s) = 2 /\ s[1] \in {"<", ">"} /\ s[1] \in Signs /\ s[2] = s[1]
    BY <1>2, <1>3
  <2> QED BY <2>1, <2>2, <2>3, <2>4
<1>9. /\ Len(s) = 2 /\ s[1] \in Signs /\ s[2] = "=" => c
      /\ Len(s) = 2 /\ s[1] \in {"<", ">"} /\ s[2] = s[1] => d
  BY <1>2
<1> HIDE DEF a, b, c, d
<1>x. /\ Len(s) = 1 /\ s[1] \in DOMAIN Lone => a
      /\ Len(s) = 1 /\ s[1] \in DOMAIN Alone => b
  BY DEF a, b
<1> QED BY <1>5, <1>6, <1>8, <1>9, <1>x

(* The names of the signs. *)
LEMMA SignNames ==
  /\ \A ch \in DOMAIN Lone : Lone[ch] \in TokenTypes \ {"TUNDF", "TIDEN", "TILIT", "TFLIT"}
  /\ \A ch \in DOMAIN Alone : Alone[ch] \in TokenTypes \ {"TUNDF", "TIDEN", "TILIT", "TFLIT"}
  /\ \A ch \in Signs : BeforeEqual[ch] \in TokenTypes \ {"TUNDF", "TIDEN", "TILIT", "TFLIT"}
  /\ \A ch \in {"<", ">"} : Twice[ch] \in TokenTypes \ {"TUNDF", "TIDEN", "TILIT", "TFLIT"}
  /\ \A w \in DOMAIN Keywords :
       Keywords[w] \in TokenTypes \ {"TUNDF", "TIDEN", "TILIT", "TFLIT"}
<1>1. \A w \in DOMAIN Keywords : Keywords[w] \in {"TINPT", "TTTIS"}
  BY DEF Keywords
<1>2. \A ch \in DOMAIN Lone : Lone[ch] \in {"TSEMI", "TDOTT", "TLPAR"}
  BY DEF Lone
<1>3. \A ch \in DOMAIN Alone :
        Alone[ch] \in {"TPLUS", "TMINS", "TSTAR", "TEQUL", "TLESS", "TGRTR", "TDIVD"}
  BY DEF Alone
<1>4. \A ch \in Signs :
        BeforeEqual[ch] \in {"TPLEQ", "TMNEQ", "TSTEQ", "TEQEQ", "TLEQL", "TGEQL", "TNEQL",
                             "TDVEQ"}
  BY DEF BeforeEqual, Signs
<1>5. \A ch \in {"<", ">"} : Twice[ch] \in {"TLSLS", "TGRGR"}
  BY DEF Twice
<1> QED BY <1>1, <1>2, <1>3, <1>4, <1>5 DEF TokenTypes

(* The first character decides which kind of spelling it can be. *)
LEMMA FirstDecides ==
  ASSUME NEW s \in Seq(Chars), s # <<>>
  PROVE  /\ s[1] \in Letters => (IsSpelling(s) <=> OnlyOf(Letters \cup Digits, s))
         /\ s[1] \in Digits => (IsSpelling(s) <=> IsDigits(s) \/ IsReal(s))
         /\ s[1] = "q" => (IsSpelling(s) <=> IsQuoted(s))
         /\ s[1] \notin Letters \cup Digits \cup {"q"} =>
              (IsSpelling(s) <=> OperatorOf(s) # "none")
         /\ IsWord(s) => s[1] \in Letters
         /\ IsDigits(s) => s[1] \in Digits
         /\ IsReal(s) => s[1] \in Digits
         /\ IsQuoted(s) => s[1] = "q"
         /\ OperatorOf(s) # "none" => s[1] \in Signs \cup DOMAIN Lone
<1>1. Len(s) \in Nat /\ Len(s) >= 1 /\ 1 \in DOMAIN s
  OBVIOUS
<1>2. IsReal(s) => s[1] \in Digits
  <2> SUFFICES ASSUME NEW k \in 2..(Len(s) - 1), IsDigits(Slice(s, 1, k - 1))
               PROVE  s[1] \in Digits
    BY DEF IsReal
  <2>1. /\ Len(Slice(s, 1, k - 1)) = k - 1 /\ 1 \in 1..(k - 1)
        /\ Slice(s, 1, k - 1)[1] = s[1] /\ Slice(s, 1, k - 1) \in Seq(Chars)
    BY <1>1, SliceIs
  <2>2. 1 \in DOMAIN Slice(s, 1, k - 1)
    BY <2>1
  <2> QED BY <2>1, <2>2 DEF IsDigits, OnlyOf
<1>3. IsDigits(s) => s[1] \in Digits
  BY <1>1 DEF IsDigits, OnlyOf
<1>4. OperatorOf(s) # "none" => s[1] \in Signs \cup DOMAIN Lone
  BY SignIs
<1>5. /\ Letters \cap Digits = {} /\ "q" \notin Letters \cup Digits
      /\ (Letters \cup Digits \cup {"q"}) \cap (Signs \cup DOMAIN Lone) = {}
  BY DEF Letters, Lower, Digits, Signs, Lone
<1>6. IsWord(s) => s[1] \in Letters
  BY DEF IsWord
<1>7. IsQuoted(s) => s[1] = "q"
  BY DEF IsQuoted
<1>8. s[1] \in Letters => (IsWord(s) <=> OnlyOf(Letters \cup Digits, s))
  BY DEF IsWord
<1>9. IsSpelling(s) <=> IsWord(s) \/ IsDigits(s) \/ IsReal(s) \/ IsQuoted(s)
                        \/ OperatorOf(s) # "none"
  BY DEF IsSpelling
<1> QED BY <1>2, <1>3, <1>4, <1>5, <1>6, <1>7, <1>8, <1>9, Zenon

(***************************************************************************)
(* The longest spelling, and pieces.                                       *)
(***************************************************************************)
(* The greatest and the least element of a set of numbers. *)
LEMMA MaxIs ==
  ASSUME NEW S, S \subseteq Int, NEW n \in S, \A x \in S : x <= n
  PROVE  Max(S) = n
<1>1. \A y \in S : n >= y
  OBVIOUS
<1>2. \A x \in S : (\A y \in S : x >= y) => x = n
  OBVIOUS
<1> QED BY <1>1, <1>2, Zenon DEF Max

(* A bound of a set from below that is in it is its least element. *)
LEMMA MinIs ==
  ASSUME NEW S, S \subseteq Int, NEW n \in S, \A x \in S : n <= x
  PROVE  Min(S) = n
<1>1. \A x \in S : (\A y \in S : x <= y) => x = n
  OBVIOUS
<1> QED BY <1>1, Zenon DEF Min

(* One length makes a spelling and no greater one does. *)
LEMMA LongestIs ==
  ASSUME NEW u \in Seq(Chars), NEW i \in 1..Len(u), NEW n \in 1..(Len(u) - i + 1),
         IsSpelling(Slice(u, i, n)),
         \A m \in (n + 1)..(Len(u) - i + 1) : ~IsSpelling(Slice(u, i, m))
  PROVE  Size(u, i) = n
<1> DEFINE S == {0} \cup {m \in 1..(Len(u) - i + 1) : IsSpelling(Slice(u, i, m))}
<1>1. S \subseteq Int /\ n \in S
  OBVIOUS
<1>2. ASSUME NEW m \in S PROVE m <= n
  <2>1. m = 0 \/ (m \in 1..(Len(u) - i + 1) /\ IsSpelling(Slice(u, i, m)))
    OBVIOUS
  <2>2. Len(u) \in Nat
    OBVIOUS
  <2> QED BY <2>1, <2>2
<1> HIDE DEF S
<1>3. Max(S) = n
  BY <1>1, <1>2, MaxIs
<1>4. Longest(u, i) = n
  BY <1>3 DEF Longest, S
<1> QED BY <1>4 DEF Size

(* No length does. *)
LEMMA LongestNone ==
  ASSUME NEW u \in Seq(Chars), NEW i \in 1..Len(u),
         \A m \in 1..(Len(u) - i + 1) : ~IsSpelling(Slice(u, i, m))
  PROVE  Size(u, i) = JunkAt(u, i)
<1>1. {0} \cup {m \in 1..(Len(u) - i + 1) : IsSpelling(Slice(u, i, m))} = {0}
  OBVIOUS
<1>2. Max({0}) = 0
  <2> DEFINE S == {0}
  <2>1. S \subseteq Int /\ 0 \in S /\ \A x \in S : x <= 0
    OBVIOUS
  <2> HIDE DEF S
  <2>2. Max(S) = 0
    BY <2>1, MaxIs
  <2> QED BY <2>2 DEF S
<1>3. Longest(u, i) = 0
  BY <1>1, <1>2 DEF Longest
<1> QED BY <1>3 DEF Size

(* The first place where a run of junk may end is where it does. *)
JunkEnds(u, i, j) ==
  \/ j = Len(u)
  \/ IF u[i] = "q" THEN u[j + 1] = "nl" ELSE valid_char(u[j + 1])

(* The first place where junk ends is how long it is. *)
LEMMA JunkIs ==
  ASSUME NEW u \in Seq(Chars), NEW i \in 1..Len(u), NEW e \in i..Len(u), JunkEnds(u, i, e),
         \A j \in i..(e - 1) : ~JunkEnds(u, i, j)
  PROVE  JunkAt(u, i) = e - i + 1
<1> DEFINE S == {j \in i..Len(u) : JunkEnds(u, i, j)}
<1>1. S \subseteq Int /\ e \in S
  OBVIOUS
<1>2. \A j \in S : e <= j
  OBVIOUS
<1> HIDE DEF S
<1>3. Min(S) = e
  BY <1>1, <1>2, MinIs
<1>4. JunkAt(u, i) = Min(S) - i + 1
  BY DEF JunkAt, JunkEnds, S
<1> QED BY <1>3, <1>4

(* A piece has a character and lies in the text. *)
LEMMA SizeFits ==
  ASSUME NEW u \in Seq(Chars), NEW i \in 1..Len(u)
  PROVE  Size(u, i) \in 1..(Len(u) - i + 1)
<1>1. CASE \E m \in 1..(Len(u) - i + 1) : IsSpelling(Slice(u, i, m))
  <2> DEFINE S == {m \in 1..(Len(u) - i + 1) : IsSpelling(Slice(u, i, m))}
  <2>1. S \subseteq Int /\ S # {} /\ \A t \in S : t <= Len(u) - i + 1
    BY <1>1
  <2>2. Len(u) - i + 1 \in Int
    OBVIOUS
  <2>3. \A m \in 1..(Len(u) - i + 1) : m \notin S => ~IsSpelling(Slice(u, i, m))
    OBVIOUS
  <2>4. \A m \in S : m \in 1..(Len(u) - i + 1) /\ IsSpelling(Slice(u, i, m))
    OBVIOUS
  <2> HIDE DEF S
  <2>5. PICK n \in S : \A y \in S : y <= n
    BY <2>1, <2>2, GreatestInt
  <2>6. n \in 1..(Len(u) - i + 1) /\ IsSpelling(Slice(u, i, n))
    BY <2>4
  <2>7. \A m \in (n + 1)..(Len(u) - i + 1) : ~IsSpelling(Slice(u, i, m))
    <3> SUFFICES ASSUME NEW m \in (n + 1)..(Len(u) - i + 1) PROVE ~IsSpelling(Slice(u, i, m))
      OBVIOUS
    <3>1. m \in 1..(Len(u) - i + 1) /\ ~(m <= n)
      BY <2>6
    <3> QED BY <2>3, <2>5, <3>1
  <2> QED BY <2>6, <2>7, LongestIs
<1>2. CASE \A m \in 1..(Len(u) - i + 1) : ~IsSpelling(Slice(u, i, m))
  <2> DEFINE S == {j \in i..Len(u) : JunkEnds(u, i, j)}
  <2>1. S \subseteq Int /\ Len(u) \in S /\ i \in Int /\ \A t \in S : i <= t
    BY DEF JunkEnds
  <2>2. \A j \in S : j \in i..Len(u) /\ JunkEnds(u, i, j)
    OBVIOUS
  <2>3. \A j \in i..Len(u) : j \notin S => ~JunkEnds(u, i, j)
    OBVIOUS
  <2> HIDE DEF S
  <2>4. PICK e \in S : \A y \in S : e <= y
    BY <2>1, LeastInt
  <2>5. e \in i..Len(u) /\ JunkEnds(u, i, e)
    BY <2>2
  <2>6. \A j \in i..(e - 1) : ~JunkEnds(u, i, j)
    <3> SUFFICES ASSUME NEW j \in i..(e - 1) PROVE ~JunkEnds(u, i, j)
      OBVIOUS
    <3>1. j \in i..Len(u) /\ ~(e <= j)
      BY <2>5
    <3> QED BY <2>3, <2>4, <3>1
  <2>7. JunkAt(u, i) = e - i + 1
    BY <2>5, <2>6, JunkIs
  <2>8. Size(u, i) = e - i + 1
    BY <1>2, <2>7, LongestNone
  <2> QED BY <2>5, <2>8
<1> QED BY <1>1, <1>2

(* A comment ends behind its opening, if it does. *)
CommentEnds(u, i) ==
  IF Slice(u, i, 3) = <<"/", "*", "*">>
  THEN {j \in (i + 5)..Len(u) : Slice(u, j - 2, 3) = <<"*", "*", "/">>}
  ELSE {j \in (i + 3)..Len(u) : u[j] = "nl"}

(* The end of a comment is the first place where one can end. *)
LEMMA CommentIs ==
  ASSUME NEW u \in Seq(Chars), NEW i \in 1..Len(u)
  PROVE  /\ CommentEnds(u, i) = {} => CommentEnd(u, i) = 0
         /\ CommentEnds(u, i) # {} => /\ CommentEnd(u, i) \in CommentEnds(u, i)
                                      /\ \A j \in CommentEnds(u, i) : CommentEnd(u, i) <= j
         /\ CommentEnds(u, i) \subseteq (i + 3)..Len(u)
<1> DEFINE S == CommentEnds(u, i)
<1>1. S \subseteq (i + 3)..Len(u)
  BY DEF CommentEnds
<1>2. CommentEnd(u, i) = IF S = {} THEN 0 ELSE Min(S)
  BY DEF CommentEnd, CommentEnds
<1>3. S \subseteq Int /\ i \in Int /\ \A t \in S : i <= t
  BY <1>1
<1> HIDE DEF S
<1>4. CASE S # {}
  <2>1. PICK e \in S : \A y \in S : e <= y
    BY <1>3, <1>4, LeastInt
  <2>2. Min(S) = e
    BY <1>3, <2>1, MinIs
  <2> QED BY <1>1, <1>2, <1>4, <2>1, <2>2 DEF S
<1> QED BY <1>1, <1>2, <1>4 DEF S

(***************************************************************************)
(* What is written from a place on.                                        *)
(***************************************************************************)
PieceSet == [s : Seq(Chars), at : Nat \ {0}]

(* The body of the recursion. *)
FromAt(u, f, i) ==
  IF i > Len(u) THEN <<>>
  ELSE IF u[i] \in Blanks THEN f[i + 1]
  ELSE IF OpensComment(u, i)
  THEN IF CommentEnd(u, i) = 0 THEN <<>> ELSE f[CommentEnd(u, i) + 1]
  ELSE <<Piece(u, i)>> \o f[i + Size(u, i)]

(* It goes on behind the place it is at, within the text. *)
LEMMA GoesOn ==
  ASSUME NEW u \in Seq(Chars), NEW i \in 1..Len(u)
  PROVE  /\ i + 1 \in (i + 1)..(Len(u) + 1)
         /\ CommentEnd(u, i) # 0 => CommentEnd(u, i) + 1 \in (i + 1)..(Len(u) + 1)
         /\ i + Size(u, i) \in (i + 1)..(Len(u) + 1)
         /\ Piece(u, i) \in PieceSet
         /\ Piece(u, i).s = Slice(u, i, Size(u, i)) /\ Piece(u, i).at = i
<1>1. Len(u) \in Nat /\ i \in Nat \ {0} /\ i <= Len(u)
  OBVIOUS
<1>2. Size(u, i) \in 1..(Len(u) - i + 1)
  BY SizeFits
<1>3. CommentEnd(u, i) # 0 => CommentEnd(u, i) \in (i + 3)..Len(u)
  BY CommentIs
<1>4. Slice(u, i, Size(u, i)) \in Seq(Chars)
  <2>1. Size(u, i) \in Nat /\ i + Size(u, i) - 1 <= Len(u)
    BY <1>1, <1>2
  <2> QED BY <1>1, <2>1, SliceIs
<1>5. /\ Piece(u, i) \in PieceSet
      /\ Piece(u, i).s = Slice(u, i, Size(u, i)) /\ Piece(u, i).at = i
  BY <1>1, <1>4 DEF Piece, PieceSet
<1> QED BY <1>1, <1>2, <1>3, <1>5

(* So it uses only what lies behind, *)
LEMMA FromBehind ==
  ASSUME NEW u \in Seq(Chars), NEW f, NEW g, NEW i \in 1..(Len(u) + 1),
         \A j \in (i + 1)..(Len(u) + 1) : f[j] = g[j] /\ g[j] \in Seq(PieceSet)
  PROVE  FromAt(u, f, i) = FromAt(u, g, i) /\ FromAt(u, g, i) \in Seq(PieceSet)
<1>1. CASE i \in 1..Len(u)
  <2>1. f[i + 1] = g[i + 1] /\ g[i + 1] \in Seq(PieceSet)
    BY <1>1, GoesOn
  <2>2. CommentEnd(u, i) # 0 => /\ f[CommentEnd(u, i) + 1] = g[CommentEnd(u, i) + 1]
                                /\ g[CommentEnd(u, i) + 1] \in Seq(PieceSet)
    BY <1>1, GoesOn
  <2>3. /\ f[i + Size(u, i)] = g[i + Size(u, i)] /\ g[i + Size(u, i)] \in Seq(PieceSet)
        /\ Piece(u, i) \in PieceSet
    BY <1>1, GoesOn
  <2>4. <<Piece(u, i)>> \o g[i + Size(u, i)] \in Seq(PieceSet)
    BY <2>3
  <2>5. <<>> \in Seq(PieceSet)
    OBVIOUS
  <2> QED BY <2>1, <2>2, <2>3, <2>4, <2>5 DEF FromAt
<1>2. CASE i = Len(u) + 1
  <2>1. i > Len(u) /\ <<>> \in Seq(PieceSet)
    BY <1>2
  <2> QED BY <2>1 DEF FromAt
<1> QED BY <1>1, <1>2

(* and there is a function that satisfies the recursion. *)
LEMMA FromIs ==
  ASSUME NEW u \in Seq(Chars)
  PROVE  /\ \A i \in 1..(Len(u) + 1) : From(u)[i] = FromAt(u, From(u), i)
         /\ \A i \in 1..(Len(u) + 1) : From(u)[i] \in Seq(PieceSet)
<1> DEFINE n == Len(u)
           To(m) == (n + 1 - m)..(n + 1)
           G(m) == {g \in [To(m) -> Seq(PieceSet)] : \A k \in To(m) : g[k] = FromAt(u, g, k)}
           S == {m \in 0..n : G(m) # {}}
<1>0. n \in Nat
  OBVIOUS
<1>a. \A m : m \in S <=> (m \in 0..n /\ G(m) # {})
  OBVIOUS
<1> HIDE DEF S
<1>1. 0 \in S
  <2> DEFINE h == [k \in To(0) |-> <<>>]
  <2>1. \A k \in To(0) : k = n + 1 /\ k > Len(u)
    BY <1>0
  <2>2. h \in [To(0) -> Seq(PieceSet)]
    OBVIOUS
  <2>3. \A k \in To(0) : h[k] = FromAt(u, h, k)
    BY <2>1 DEF FromAt
  <2>4. h \in G(0)
    BY <2>2, <2>3
  <2>5. 0 \in 0..n
    BY <1>0
  <2> HIDE DEF G
  <2> QED BY <1>a, <2>4, <2>5
<1>2. ASSUME NEW m \in 0..(n - 1), m \in S PROVE m + 1 \in S
  <2>0. G(m) # {}
    <3> HIDE DEF G
    <3> QED BY <1>a, <1>2
  <2>1. PICK g \in [To(m) -> Seq(PieceSet)] : \A k \in To(m) : g[k] = FromAt(u, g, k)
    BY <2>0
  <2> DEFINE i == n - m
             h == [k \in To(m + 1) |-> IF k = i THEN FromAt(u, g, i) ELSE g[k]]
  <2>2. /\ i \in 1..n /\ m + 1 \in 0..n /\ To(m) = (i + 1)..(n + 1)
        /\ To(m + 1) = i..(n + 1) /\ i \in To(m + 1)
    BY <1>0
  <2>3. \A k \in To(m) : k # i /\ k \in To(m + 1) /\ g[k] \in Seq(PieceSet)
    BY <2>1, <2>2
  <2>4. \A k \in To(m + 1) : k = i \/ k \in To(m)
    BY <2>2
  <2> HIDE DEF To, n, i
  <2>5. FromAt(u, g, i) \in Seq(PieceSet)
    <3>1. i \in 1..(Len(u) + 1) /\ \A j \in (i + 1)..(Len(u) + 1) : j \in To(m)
      BY <2>2 DEF n
    <3> QED BY <2>3, <3>1, FromBehind
  <2>6. h \in [To(m + 1) -> Seq(PieceSet)]
    BY <2>3, <2>4, <2>5
  <2>7. h[i] = FromAt(u, g, i) /\ \A k \in To(m) : h[k] = g[k]
    BY <2>2, <2>3
  <2> HIDE DEF h
  <2>8. ASSUME NEW k \in To(m + 1) PROVE h[k] = FromAt(u, h, k)
    <3>1. k \in 1..(Len(u) + 1) /\ \A j \in (k + 1)..(Len(u) + 1) : j \in To(m)
      BY <1>0, <2>2 DEF n
    <3>2. FromAt(u, h, k) = FromAt(u, g, k)
      BY <2>3, <2>7, <3>1, FromBehind
    <3> QED BY <2>1, <2>4, <2>7, <3>2
  <2>9. h \in G(m + 1)
    BY <2>6, <2>8
  <2> HIDE DEF G
  <2> QED BY <1>a, <2>2, <2>9
<1>b. 0 \in Int /\ n \in Int /\ n \in 0..n /\ To(n) = 1..(n + 1)
  BY <1>0
<1>3. n \in S
  <2>1. 0..n \subseteq S
    BY <1>1, <1>2, <1>b, InductUpTo
  <2> QED BY <1>b, <2>1
<1>4. PICK g \in [1..(n + 1) -> Seq(PieceSet)] : \A k \in 1..(n + 1) : g[k] = FromAt(u, g, k)
  <2>1. G(n) # {}
    <3> HIDE DEF G
    <3> QED BY <1>3, <1>a
  <2> QED BY <1>b, <2>1
<1>5. g = [i \in 1..(Len(u) + 1) |-> FromAt(u, g, i)]
  BY <1>4
<1>6. From(u) = CHOOSE from : from = [i \in 1..(Len(u) + 1) |-> FromAt(u, from, i)]
  BY DEF From, FromAt
<1>7. From(u) = [i \in 1..(Len(u) + 1) |-> FromAt(u, From(u), i)]
  BY <1>5, <1>6
<1> DEFINE f == From(u)
<1>8. f = [i \in 1..(n + 1) |-> FromAt(u, f, i)]
  BY <1>7
<1> HIDE DEF f
<1>9. \A i \in 1..(n + 1) : f[i] = FromAt(u, f, i)
  BY <1>8
<1> DEFINE T == {m \in 0..n : \A k \in To(m) : f[k] \in Seq(PieceSet)}
<1>c. 0 \in T
  <2>1. \A k \in To(0) : k = n + 1 /\ k > Len(u) /\ k \in 1..(n + 1)
    BY <1>0
  <2>2. \A k \in To(0) : f[k] = <<>>
    BY <1>9, <2>1 DEF FromAt
  <2>3. 0 \in 0..n /\ <<>> \in Seq(PieceSet)
    BY <1>0
  <2>4. \A k \in To(0) : f[k] \in Seq(PieceSet)
    BY <2>2, <2>3
  <2> HIDE DEF To
  <2> QED BY <2>3, <2>4
<1>d. ASSUME NEW m \in 0..(n - 1), m \in T PROVE m + 1 \in T
  <2>1. /\ n - m \in 1..(Len(u) + 1) /\ m + 1 \in 0..n
        /\ \A j \in ((n - m) + 1)..(Len(u) + 1) : j \in To(m)
        /\ \A k \in To(m + 1) : k = n - m \/ k \in To(m)
    BY <1>0
  <2>2. \A k \in To(m) : f[k] \in Seq(PieceSet)
    BY <1>d
  <2>3. FromAt(u, f, n - m) \in Seq(PieceSet)
    BY <2>1, <2>2, FromBehind
  <2> QED BY <1>9, <2>1, <2>2, <2>3
<1>e. n \in T
  <2> HIDE DEF T
  <2>1. 0..n \subseteq T
    BY <1>b, <1>c, <1>d, InductUpTo
  <2> QED BY <1>b, <2>1
<1>f. \A k \in 1..(n + 1) : f[k] \in Seq(PieceSet)
  BY <1>b, <1>e
<1> QED BY <1>9, <1>f DEF f

(***************************************************************************)
(* Recursions along a sequence.                                            *)
(***************************************************************************)
Climbs(n, S)      == 0 \in S /\ \A k \in 0..(n - 1) : k \in S => k + 1 \in S
Steps(n, X, a, F) == a \in X /\ F \in [(1..n) \X X -> X]

(* From 0 on, one by one. *)
LEMMA ClimbsTo ==
  ASSUME NEW n \in Nat, NEW S, Climbs(n, S)
  PROVE  0..n \subseteq S
BY InductUpTo DEF Climbs

(* A step of a recursion, given as a function, can be taken as often as there
   are elements. *)
LEMMA StepsGo ==
  ASSUME NEW n \in Nat, NEW X, NEW a, NEW F, Steps(n, X, a, F)
  PROVE  \E g \in [0..n -> X] : g[0] = a /\ \A k \in 1..n : g[k] = F[<<k, g[k - 1]>>]
<1> DEFINE G(m) == {g \in [0..m -> X] : g[0] = a /\ \A k \in 1..m : g[k] = F[<<k, g[k - 1]>>]}
           S == {m \in 0..n : G(m) # {}}
<1>a. \A m : m \in S <=> (m \in 0..n /\ G(m) # {})
  OBVIOUS
<1>b. a \in X /\ F \in [(1..n) \X X -> X]
  BY DEF Steps
<1> HIDE DEF S
<1>1. 0 \in S
  <2>1. [k \in 0..0 |-> a] \in G(0) /\ 0 \in 0..n
    BY <1>b
  <2> HIDE DEF G
  <2> QED BY <1>a, <2>1
<1>2. ASSUME NEW m \in 0..(n - 1), m \in S PROVE m + 1 \in S
  <2>0. G(m) # {}
    <3> HIDE DEF G
    <3> QED BY <1>a, <1>2
  <2>1. PICK g \in [0..m -> X] : g[0] = a /\ \A k \in 1..m : g[k] = F[<<k, g[k - 1]>>]
    BY <2>0
  <2> DEFINE x == F[<<m + 1, g[m]>>]
             h == [k \in 0..(m + 1) |-> IF k <= m THEN g[k] ELSE x]
  <2>2. m \in 0..m /\ m + 1 \in 1..n /\ g[m] \in X
    BY <2>1
  <2>3. x \in X
    BY <1>b, <2>2
  <2>4. h \in [0..(m + 1) -> X]
    BY <2>1, <2>3
  <2>5. h[0] = a /\ h[m + 1] = x /\ \A k \in 0..m : h[k] = g[k]
    BY <2>1, <2>2
  <2>6. \A k \in 1..(m + 1) : k - 1 \in 0..m /\ (k = m + 1 \/ k \in 1..m) /\ (k \in 1..m => k \in 0..m)
    OBVIOUS
  <2> HIDE DEF h
  <2>7. ASSUME NEW k \in 1..(m + 1) PROVE h[k] = F[<<k, h[k - 1]>>]
    <3>1. h[k - 1] = g[k - 1]
      BY <2>5, <2>6
    <3>2. CASE k \in 1..m
      BY <2>1, <2>5, <2>6, <3>1, <3>2
    <3>3. CASE k = m + 1
      <4>1. k - 1 = m
        BY <3>3
      <4> QED BY <2>5, <3>1, <3>3, <4>1
    <3> QED BY <2>6, <3>2, <3>3
  <2>8. h \in G(m + 1) /\ m + 1 \in 0..n
    BY <2>2, <2>4, <2>5, <2>7
  <2> HIDE DEF G
  <2> QED BY <1>a, <2>8
<1>3. n \in S
  <2>1. 0..n \subseteq S
    BY <1>1, <1>2, InductUpTo
  <2> QED BY <2>1
<1>4. G(n) # {}
  <2> HIDE DEF G
  <2> QED BY <1>3, <1>a
<1> QED BY <1>4

(* What the text is without returns: its recursion. *)
KeptOf(t) == CHOOSE kept : kept = [n \in 0..Len(t) |->
                                     IF n = 0 THEN <<>>
                                     ELSE IF t[n] = "cr" THEN kept[n - 1]
                                     ELSE Append(kept[n - 1], t[n])]

(* The recursion of NoReturns, as a function on the length of the text. *)
LEMMA KeptIs ==
  ASSUME NEW t \in Seq(Chars)
  PROVE  /\ NoReturns(t) = KeptOf(t)[Len(t)]
         /\ KeptOf(t)[0] = <<>>
         /\ \A n \in 1..Len(t) : KeptOf(t)[n] = IF t[n] = "cr" THEN KeptOf(t)[n - 1]
                                                ELSE Append(KeptOf(t)[n - 1], t[n])
         /\ \A n \in 0..Len(t) : KeptOf(t)[n] \in Seq(Chars)
<1> DEFINE N == Len(t)
           X == Seq(Chars)
           F == [z \in (1..N) \X X |-> IF t[z[1]] = "cr" THEN z[2] ELSE Append(z[2], t[z[1]])]
<1>1. N \in Nat /\ <<>> \in X
  OBVIOUS
<1>2. \A k \in 1..N, x \in X :
        /\ <<k, x>> \in (1..N) \X X
        /\ F[<<k, x>>] = IF t[k] = "cr" THEN x ELSE Append(x, t[k])
  OBVIOUS
<1>3. F \in [(1..N) \X X -> X]
  <2>1. \A z \in (1..N) \X X : z[1] \in 1..N /\ z[2] \in X /\ t[z[1]] \in Chars
    OBVIOUS
  <2> QED BY <2>1
<1> HIDE DEF F, X, N
<1> DEFINE a == <<>>
<1>x. N \in Nat /\ a \in X
  BY <1>1
<1> HIDE DEF a
<1>z. Steps(N, X, a, F)
  BY <1>x, <1>3 DEF Steps
<1>y. PICK g \in [0..N -> X] : g[0] = a /\ \A k \in 1..N : g[k] = F[<<k, g[k - 1]>>]
  BY <1>x, <1>z, StepsGo
<1>4. g[0] = <<>> /\ \A k \in 1..N : g[k] = F[<<k, g[k - 1]>>]
  BY <1>y DEF a
<1>5. \A k \in 1..N : g[k] = IF t[k] = "cr" THEN g[k - 1] ELSE Append(g[k - 1], t[k])
  <2> SUFFICES ASSUME NEW k \in 1..N
               PROVE  g[k] = IF t[k] = "cr" THEN g[k - 1] ELSE Append(g[k - 1], t[k])
    OBVIOUS
  <2>1. k - 1 \in 0..N
    BY <1>1
  <2> QED BY <1>2, <1>4, <2>1
<1>6. \A k \in 0..N : k = 0 \/ k \in 1..N
  BY <1>1
<1>7. g = [n \in 0..N |-> IF n = 0 THEN <<>> ELSE IF t[n] = "cr" THEN g[n - 1]
                          ELSE Append(g[n - 1], t[n])]
  BY <1>4, <1>5, <1>6
<1> DEFINE f == KeptOf(t)
<1>8. f = [n \in 0..N |-> IF n = 0 THEN <<>> ELSE IF t[n] = "cr" THEN f[n - 1]
                          ELSE Append(f[n - 1], t[n])]
  BY <1>7 DEF KeptOf, N
<1> HIDE DEF f
<1>9. f[0] = <<>> /\ \A n \in 1..N : f[n] = IF t[n] = "cr" THEN f[n - 1] ELSE Append(f[n - 1], t[n])
  <2>1. 0 \in 0..N /\ \A n \in 1..N : n \in 0..N /\ n # 0
    BY <1>1
  <2>2. \A n \in 0..N : f[n] = IF n = 0 THEN <<>> ELSE IF t[n] = "cr" THEN f[n - 1]
                               ELSE Append(f[n - 1], t[n])
    BY <1>8, Zenon
  <2> QED BY <2>1, <2>2
<1>a. \A n \in 0..N : f[n] = g[n]
  <2>1. f[0] = g[0]
    BY <1>4, <1>9
  <2>2. \A k \in 1..N : f[k - 1] = g[k - 1] => f[k] = g[k]
    BY <1>5, <1>9
  <2> DEFINE S == {k \in 0..N : f[k] = g[k]}
  <2>3. 0 \in S /\ N \in Int
    BY <1>1, <2>1
  <2>4. ASSUME NEW k \in 0..(N - 1), k \in S PROVE k + 1 \in S
    <3>1. k + 1 \in 1..N /\ (k + 1) - 1 = k /\ k + 1 \in 0..N
      BY <1>1
    <3> QED BY <2>2, <2>4, <3>1
  <2>5. \A k \in S : f[k] = g[k]
    OBVIOUS
  <2> HIDE DEF S
  <2>6. 0..N \subseteq S
    BY <2>3, <2>4, ClimbsTo DEF Climbs
  <2> QED BY <2>5, <2>6
<1>b. \A n \in 0..N : f[n] \in X
  BY <1>a
<1>c. NoReturns(t) = f[N]
  BY DEF NoReturns, f, KeptOf, N
<1> QED BY <1>9, <1>b, <1>c DEF f, X, N

(* It grows with the text. *)
LEMMA NoReturnsIs ==
  /\ NoReturns(<<>>) = <<>>
  /\ \A t \in Seq(Chars) : NoReturns(t) \in Seq(Chars)
  /\ \A t \in Seq(Chars), ch \in Chars :
       NoReturns(Append(t, ch)) = IF ch = "cr" THEN NoReturns(t) ELSE Append(NoReturns(t), ch)
<1>1. NoReturns(<<>>) = <<>>
  <2>1. <<>> \in Seq(Chars) /\ Len(<<>>) = 0
    OBVIOUS
  <2> QED BY <2>1, KeptIs
<1>2. ASSUME NEW t \in Seq(Chars) PROVE NoReturns(t) \in Seq(Chars)
  <2>1. Len(t) \in 0..Len(t)
    OBVIOUS
  <2> QED BY <2>1, KeptIs
<1>3. ASSUME NEW t \in Seq(Chars), NEW ch \in Chars
      PROVE  NoReturns(Append(t, ch)) =
               IF ch = "cr" THEN NoReturns(t) ELSE Append(NoReturns(t), ch)
  <2> DEFINE u == Append(t, ch)
             f == KeptOf(u)
             g == KeptOf(t)
             N == Len(t)
  <2>1. /\ u \in Seq(Chars) /\ Len(u) = N + 1 /\ N \in Nat /\ u[N + 1] = ch
        /\ \A k \in 1..N : u[k] = t[k]
    OBVIOUS
  <2>2. /\ NoReturns(u) = f[N + 1] /\ f[0] = <<>>
        /\ \A n \in 1..(N + 1) : f[n] = IF u[n] = "cr" THEN f[n - 1] ELSE Append(f[n - 1], u[n])
    <3> HIDE DEF u, N
    <3>1. u \in Seq(Chars) /\ Len(u) = N + 1
      BY <2>1
    <3> QED BY <3>1, KeptIs
  <2>3. /\ NoReturns(t) = g[N] /\ g[0] = <<>>
        /\ \A n \in 1..N : g[n] = IF t[n] = "cr" THEN g[n - 1] ELSE Append(g[n - 1], t[n])
    BY KeptIs
  <2> HIDE DEF u, f, g, N
  <2>4. \A k \in 1..N : f[k - 1] = g[k - 1] => f[k] = g[k]
    <3> SUFFICES ASSUME NEW k \in 1..N, f[k - 1] = g[k - 1] PROVE f[k] = g[k]
      OBVIOUS
    <3>1. k \in 1..(N + 1)
      BY <2>1
    <3> QED BY <2>1, <2>2, <2>3, <3>1
  <2>5. f[N] = g[N]
    <3> DEFINE S == {k \in 0..N : f[k] = g[k]}
    <3>1. 0 \in S /\ N \in Int
      BY <2>1, <2>2, <2>3
    <3>2. ASSUME NEW k \in 0..(N - 1), k \in S PROVE k + 1 \in S
      <4>1. k + 1 \in 1..N /\ (k + 1) - 1 = k /\ k + 1 \in 0..N
        BY <2>1
      <4> QED BY <2>4, <3>2, <4>1
    <3>3. \A k \in S : f[k] = g[k]
      OBVIOUS
    <3> HIDE DEF S
    <3>4. 0..N \subseteq S
      BY <3>1, <3>2, ClimbsTo DEF Climbs
    <3> QED BY <2>1, <3>3, <3>4
  <2>6. N + 1 \in 1..(N + 1) /\ (N + 1) - 1 = N
    BY <2>1
  <2> QED BY <2>1, <2>2, <2>3, <2>5, <2>6 DEF u
<1> QED BY <1>1, <1>2, <1>3

(* What is reported about pieces: its recursion. *)
ReportSet == [kind : {"error", "warning"}, row : Nat \ {0}, col : Int]
Tokens    == TokenSet(TokenTypes)

SaidOf(m, toks) == CHOOSE said : said = [k \in 0..Len(m) |->
                                           IF k = 0 THEN <<>>
                                           ELSE said[k - 1] \o About(m[k].s, toks[k])]

(* What is said of a token are reports. *)
LEMMA AboutIs ==
  ASSUME NEW s, NEW tok \in Tokens
  PROVE  About(s, tok) \in Seq(ReportSet)
<1>1. tok.row \in Nat \ {0} /\ tok.col \in Int
  BY DEF Tokens, TokenSet
<1>2. \A kind \in {"error", "warning"} : Report(kind, tok.row, tok.col) \in ReportSet
  BY <1>1 DEF Report, ReportSet
<1>3. \A x \in ReportSet : <<x>> \in Seq(ReportSet)
  OBVIOUS
<1>4. <<>> \in Seq(ReportSet)
  OBVIOUS
<1>5. /\ <<Report("error", tok.row, tok.col)>> \in Seq(ReportSet)
      /\ <<Report("warning", tok.row, tok.col)>> \in Seq(ReportSet)
  BY <1>2, <1>3
<1> QED BY <1>4, <1>5 DEF About

(* The recursion of Said, as a function on the number of tokens. *)
LEMMA SaidRecursion ==
  ASSUME NEW m \in Seq(PieceSet), NEW toks \in Seq(Tokens), Len(toks) = Len(m)
  PROVE  /\ Said(m, toks) = SaidOf(m, toks)[Len(m)]
         /\ SaidOf(m, toks)[0] = <<>>
         /\ \A k \in 1..Len(m) :
              SaidOf(m, toks)[k] = SaidOf(m, toks)[k - 1] \o About(m[k].s, toks[k])
         /\ \A k \in 0..Len(m) : SaidOf(m, toks)[k] \in Seq(ReportSet)
<1> DEFINE N == Len(m)
           X == Seq(ReportSet)
           a == <<>>
           F == [z \in (1..N) \X X |-> z[2] \o About(m[z[1]].s, toks[z[1]])]
<1>1. N \in Nat /\ a \in X
  OBVIOUS
<1>2. \A k \in 1..N, x \in X :
        <<k, x>> \in (1..N) \X X /\ F[<<k, x>>] = x \o About(m[k].s, toks[k])
  OBVIOUS
<1>3. Steps(N, X, a, F)
  <2>1. ASSUME NEW z \in (1..N) \X X PROVE z[2] \o About(m[z[1]].s, toks[z[1]]) \in X
    <3>1. z[2] \in X /\ toks[z[1]] \in Tokens
      OBVIOUS
    <3>2. About(m[z[1]].s, toks[z[1]]) \in Seq(ReportSet)
      BY <3>1, AboutIs
    <3> QED BY <3>1, <3>2
  <2> HIDE DEF X
  <2>2. F \in [(1..N) \X X -> X]
    BY <2>1
  <2> HIDE DEF F, N
  <2> QED BY <1>1, <2>2 DEF Steps
<1> HIDE DEF F, X, N, a
<1>y. PICK g \in [0..N -> X] : g[0] = a /\ \A k \in 1..N : g[k] = F[<<k, g[k - 1]>>]
  BY ONLY <1>1, <1>3, StepsGo
<1>5. \A k \in 1..N : g[k] = g[k - 1] \o About(m[k].s, toks[k])
  <2> SUFFICES ASSUME NEW k \in 1..N PROVE g[k] = g[k - 1] \o About(m[k].s, toks[k])
    OBVIOUS
  <2>1. k - 1 \in 0..N
    BY <1>1
  <2> QED BY <1>2, <1>y, <2>1
<1>6. \A k \in 0..N : k = 0 \/ k \in 1..N
  BY <1>1
<1>4. g[0] = <<>>
  BY <1>y DEF a
<1>7. g = [k \in 0..N |-> IF k = 0 THEN <<>> ELSE g[k - 1] \o About(m[k].s, toks[k])]
  BY <1>4, <1>5, <1>6
<1> DEFINE f == SaidOf(m, toks)
<1>8. f = [k \in 0..N |-> IF k = 0 THEN <<>> ELSE f[k - 1] \o About(m[k].s, toks[k])]
  BY <1>7 DEF SaidOf, N
<1> HIDE DEF f
<1>9. f[0] = <<>> /\ \A k \in 1..N : f[k] = f[k - 1] \o About(m[k].s, toks[k])
  <2>1. 0 \in 0..N /\ \A k \in 1..N : k \in 0..N /\ k # 0
    BY <1>1
  <2>2. \A k \in 0..N : f[k] = IF k = 0 THEN <<>> ELSE f[k - 1] \o About(m[k].s, toks[k])
    BY <1>8, Zenon
  <2> QED BY <2>1, <2>2
<1>a. \A k \in 0..N : f[k] = g[k]
  <2> DEFINE S == {k \in 0..N : f[k] = g[k]}
  <2>3. 0 \in S /\ N \in Int
    BY <1>1, <1>4, <1>9
  <2>4. ASSUME NEW k \in 0..(N - 1), k \in S PROVE k + 1 \in S
    <3>1. k + 1 \in 1..N /\ (k + 1) - 1 = k /\ k + 1 \in 0..N
      BY <1>1
    <3> QED BY <1>5, <1>9, <2>4, <3>1
  <2>5. \A k \in S : f[k] = g[k]
    OBVIOUS
  <2> HIDE DEF S
  <2>6. 0..N \subseteq S
    <3>1. Climbs(N, S)
      BY <2>3, <2>4 DEF Climbs
    <3> QED BY <1>1, <3>1, ClimbsTo
  <2> QED BY <2>5, <2>6
<1>b. \A k \in 0..N : f[k] \in X
  BY <1>a
<1>c. Said(m, toks) = f[N]
  BY DEF Said, f, SaidOf, N
<1> QED BY <1>9, <1>b, <1>c DEF f, X, N

(* The reports of one more token come after those of the tokens before it. *)
LEMMA SaidIs ==
  /\ Said(<<>>, <<>>) = <<>>
  /\ \A m \in Seq(PieceSet), toks \in Seq(Tokens) :
       Len(toks) = Len(m) => Said(m, toks) \in Seq(ReportSet)
  /\ \A m \in Seq(PieceSet), toks \in Seq(Tokens), g \in PieceSet, tok \in Tokens :
       Len(toks) = Len(m) =>
         Said(Append(m, g), Append(toks, tok)) = Said(m, toks) \o About(g.s, tok)
<1>1. Said(<<>>, <<>>) = <<>>
  <2> DEFINE e == <<>>
  <2>1. e \in Seq(PieceSet) /\ e \in Seq(Tokens) /\ Len(e) = 0
    OBVIOUS
  <2> HIDE DEF e
  <2>2. Said(e, e) = SaidOf(e, e)[Len(e)] /\ SaidOf(e, e)[0] = <<>>
    BY <2>1, SaidRecursion
  <2>3. Said(e, e) = <<>>
    BY <2>1, <2>2
  <2> QED BY <2>3 DEF e
<1>2. ASSUME NEW m \in Seq(PieceSet), NEW toks \in Seq(Tokens), Len(toks) = Len(m)
      PROVE  Said(m, toks) \in Seq(ReportSet)
  <2>1. Len(m) \in 0..Len(m)
    OBVIOUS
  <2> QED BY <1>2, <2>1, SaidRecursion
<1>3. ASSUME NEW m \in Seq(PieceSet), NEW toks \in Seq(Tokens), NEW x \in PieceSet,
             NEW tok \in Tokens, Len(toks) = Len(m)
      PROVE  Said(Append(m, x), Append(toks, tok)) = Said(m, toks) \o About(x.s, tok)
  <2> DEFINE mm == Append(m, x)
             tt == Append(toks, tok)
             f == SaidOf(mm, tt)
             g == SaidOf(m, toks)
             N == Len(m)
  <2>1. /\ mm \in Seq(PieceSet) /\ Len(mm) = N + 1 /\ N \in Nat /\ mm[N + 1] = x
        /\ tt \in Seq(Tokens) /\ Len(tt) = N + 1 /\ tt[N + 1] = tok
        /\ \A k \in 1..N : mm[k] = m[k] /\ tt[k] = toks[k]
    BY <1>3
  <2>2. /\ Said(mm, tt) = f[N + 1] /\ f[0] = <<>>
        /\ \A k \in 1..(N + 1) : f[k] = f[k - 1] \o About(mm[k].s, tt[k])
    <3> HIDE DEF mm, tt, N
    <3> QED BY <2>1, SaidRecursion
  <2>3. /\ Said(m, toks) = g[N] /\ g[0] = <<>>
        /\ \A k \in 1..N : g[k] = g[k - 1] \o About(m[k].s, toks[k])
    BY <1>3, SaidRecursion
  <2> HIDE DEF mm, tt, f, g, N
  <2>5. f[N] = g[N]
    <3> DEFINE S == {k \in 0..N : f[k] = g[k]}
    <3>1. 0 \in S /\ N \in Int
      BY <2>1, <2>2, <2>3
    <3>2. ASSUME NEW k \in 0..(N - 1), k \in S PROVE k + 1 \in S
      <4>1. k + 1 \in 1..N /\ (k + 1) - 1 = k /\ k + 1 \in 0..N /\ k + 1 \in 1..(N + 1)
        BY <2>1
      <4>2. f[k + 1] = f[k] \o About(mm[k + 1].s, tt[k + 1])
        BY <2>2, <4>1
      <4>3. g[k + 1] = g[k] \o About(m[k + 1].s, toks[k + 1])
        BY <2>3, <4>1
      <4>4. mm[k + 1] = m[k + 1] /\ tt[k + 1] = toks[k + 1] /\ f[k] = g[k]
        BY <2>1, <3>2, <4>1
      <4> QED BY <4>1, <4>2, <4>3, <4>4
    <3>3. \A k \in S : f[k] = g[k]
      OBVIOUS
    <3> HIDE DEF S
    <3>4. 0..N \subseteq S
      <4>1. Climbs(N, S)
        BY <3>1, <3>2 DEF Climbs
      <4> QED BY <2>1, <4>1, ClimbsTo
    <3> QED BY <2>1, <3>3, <3>4
  <2>6. N + 1 \in 1..(N + 1) /\ (N + 1) - 1 = N
    BY <2>1
  <2> QED BY <2>1, <2>2, <2>3, <2>5, <2>6 DEF mm, tt
<1> QED BY <1>1, <1>2, <1>3

(***************************************************************************)
(* Rows and columns.                                                       *)
(***************************************************************************)
(* A text that begins with another one. *)
Extends(u, t) == Len(t) <= Len(u) /\ \A j \in 1..Len(t) : u[j] = t[j]

(* Where the lines end before a place, and where tabs are on its line. *)
Ends(t, i)    == {j \in 1..(i - 1) : t[j] = "nl"}
Line(t, i)    == Max({0} \cup Ends(t, i))
Tabs(t, l, i) == {j \in (l + 1)..(i - 1) : t[j] = "tab"}

(* One character more: the ends of line before it, *)
LEMMA EndsIs ==
  ASSUME NEW t, NEW i \in Nat \ {0}
  PROVE  /\ IsFiniteSet(Ends(t, i)) /\ Cardinality(Ends(t, i)) \in Nat
         /\ Ends(t, i) \subseteq 1..(i - 1)
         /\ Ends(t, i + 1) = IF t[i] = "nl" THEN Ends(t, i) \cup {i} ELSE Ends(t, i)
         /\ i \notin Ends(t, i)
<1>1. Ends(t, i) \subseteq 1..(i - 1) /\ i \notin Ends(t, i)
  BY DEF Ends
<1>2. IsFiniteSet(1..(i - 1))
  BY FS_Interval
<1>3. IsFiniteSet(Ends(t, i))
  BY <1>1, <1>2, FS_Subset
<1>4. Cardinality(Ends(t, i)) \in Nat
  BY <1>3, FS_CardinalityType
<1>5. \A j : j \in 1..((i + 1) - 1) <=> (j \in 1..(i - 1) \/ j = i)
  OBVIOUS
<1>6. \A j : j \in Ends(t, i + 1) <=> (j \in Ends(t, i) \/ (j = i /\ t[i] = "nl"))
  BY <1>5 DEF Ends
<1>7. Ends(t, i + 1) = IF t[i] = "nl" THEN Ends(t, i) \cup {i} ELSE Ends(t, i)
  <2>1. CASE t[i] = "nl"
    BY ONLY <1>6, <2>1
  <2>2. CASE t[i] # "nl"
    BY ONLY <1>6, <2>2
  <2> QED BY <2>1, <2>2
<1> QED BY <1>1, <1>3, <1>4, <1>7

(* and the tabs of its line. *)
LEMMA TabsIs ==
  ASSUME NEW t, NEW l \in Nat, NEW i \in Nat \ {0}, l < i
  PROVE  /\ IsFiniteSet(Tabs(t, l, i)) /\ Cardinality(Tabs(t, l, i)) \in Nat
         /\ Tabs(t, l, i + 1) = IF t[i] = "tab" THEN Tabs(t, l, i) \cup {i} ELSE Tabs(t, l, i)
         /\ i \notin Tabs(t, l, i)
<1>1. Tabs(t, l, i) \subseteq (l + 1)..(i - 1) /\ i \notin Tabs(t, l, i)
  BY DEF Tabs
<1>2. IsFiniteSet((l + 1)..(i - 1))
  BY FS_Interval
<1>3. IsFiniteSet(Tabs(t, l, i))
  BY <1>1, <1>2, FS_Subset
<1>4. Cardinality(Tabs(t, l, i)) \in Nat
  BY <1>3, FS_CardinalityType
<1>5. \A j : j \in (l + 1)..((i + 1) - 1) <=> (j \in (l + 1)..(i - 1) \/ j = i)
  OBVIOUS
<1>6. \A j : j \in Tabs(t, l, i + 1) <=> (j \in Tabs(t, l, i) \/ (j = i /\ t[i] = "tab"))
  BY <1>5 DEF Tabs
<1>7. Tabs(t, l, i + 1) = IF t[i] = "tab" THEN Tabs(t, l, i) \cup {i} ELSE Tabs(t, l, i)
  <2>1. CASE t[i] = "tab"
    BY ONLY <1>6, <2>1
  <2>2. CASE t[i] # "tab"
    BY ONLY <1>6, <2>2
  <2> QED BY <2>1, <2>2
<1> QED BY <1>1, <1>3, <1>4, <1>7

(* The row of the next character. *)
LEMMA RowNext ==
  ASSUME NEW t, NEW i \in Nat \ {0}
  PROVE  /\ RowOf(t, 1) = 1 /\ RowOf(t, i) \in Nat \ {0}
         /\ RowOf(t, i + 1) = IF t[i] = "nl" THEN RowOf(t, i) + 1 ELSE RowOf(t, i)
<1>1. \A j \in Nat \ {0} : RowOf(t, j) = 1 + Cardinality(Ends(t, j))
  BY DEF RowOf, Ends
<1>2. Ends(t, 1) = {}
  BY DEF Ends
<1>3. RowOf(t, 1) = 1
  BY <1>1, <1>2, FS_EmptySet
<1>4. Cardinality(Ends(t, i) \cup {i}) = Cardinality(Ends(t, i)) + 1
  BY EndsIs, FS_AddElement
<1>5. i + 1 \in Nat \ {0} /\ Cardinality(Ends(t, i)) \in Nat
  <2>1. Cardinality(Ends(t, i)) \in Nat
    BY EndsIs
  <2> QED BY <2>1
<1>7. Ends(t, i + 1) = IF t[i] = "nl" THEN Ends(t, i) \cup {i} ELSE Ends(t, i)
  BY EndsIs
<1>6. RowOf(t, i + 1) = IF t[i] = "nl" THEN RowOf(t, i) + 1 ELSE RowOf(t, i)
  <2>1. /\ RowOf(t, i) = 1 + Cardinality(Ends(t, i))
        /\ RowOf(t, i + 1) = 1 + Cardinality(Ends(t, i + 1))
    BY <1>1, <1>5
  <2> QED BY <1>4, <1>5, <1>7, <2>1
<1> QED BY <1>1, <1>3, <1>5, <1>6

(* The beginning of its line. *)
LEMMA LineNext ==
  ASSUME NEW t, NEW i \in Nat \ {0}
  PROVE  /\ Line(t, i) \in 0..(i - 1)
         /\ Line(t, i + 1) = IF t[i] = "nl" THEN i ELSE Line(t, i)
         /\ Line(t, 1) = 0
<1>1. ASSUME NEW j \in Nat \ {0}
      PROVE  Line(t, j) \in {0} \cup Ends(t, j) /\ \A x \in {0} \cup Ends(t, j) : x <= Line(t, j)
  <2> DEFINE S == {0} \cup Ends(t, j)
  <2>0. Ends(t, j) \subseteq 1..(j - 1)
    BY EndsIs
  <2>1. S \subseteq 0..(j - 1) /\ 0 \in S
    BY <2>0
  <2>2. S \subseteq Int /\ S # {} /\ j - 1 \in Int /\ \A x \in S : x <= j - 1
    BY <2>1
  <2> HIDE DEF S
  <2>3. PICK n \in S : \A y \in S : y <= n
    BY <2>2, GreatestInt
  <2>4. Max(S) = n
    BY <2>2, <2>3, MaxIs
  <2> QED BY <2>3, <2>4 DEF Line, S
<1>0. Ends(t, i) \subseteq 1..(i - 1)
  BY EndsIs
<1>2. Line(t, i) \in 0..(i - 1)
  <2>1. Line(t, i) \in {0} \cup Ends(t, i)
    BY <1>1
  <2> QED BY <1>0, <2>1
<1>3. Line(t, i + 1) = IF t[i] = "nl" THEN i ELSE Line(t, i)
  <2>0. i + 1 \in Nat \ {0}
    OBVIOUS
  <2>1. CASE t[i] = "nl"
    <3>1. Ends(t, i + 1) = Ends(t, i) \cup {i}
      BY <2>1, EndsIs
    <3>2. \A x \in {0} \cup Ends(t, i + 1) : x <= i /\ x \in Int
      BY <1>0, <3>1
    <3>3. i <= Line(t, i + 1) /\ Line(t, i + 1) <= i /\ Line(t, i + 1) \in Int
      BY <1>1, <2>0, <3>1, <3>2
    <3> QED BY <2>1, <3>3
  <2>2. CASE t[i] # "nl"
    <3>1. Ends(t, i + 1) = Ends(t, i)
      BY <2>2, EndsIs
    <3> QED BY <2>2, <3>1 DEF Line
  <2> QED BY <2>1, <2>2
<1>4. Line(t, 1) = 0
  <2>1. Line(t, 1) \in {0} \cup Ends(t, 1) /\ Ends(t, 1) = {}
    BY <1>1 DEF Ends
  <2> QED BY <2>1
<1> QED BY <1>2, <1>3, <1>4

(* The column of the next character. *)
LEMMA ColNext ==
  ASSUME NEW t, NEW i \in Nat \ {0}
  PROVE  /\ ColOf(t, 1) = 1 /\ ColOf(t, i) \in Nat \ {0}
         /\ ColOf(t, i + 1) = IF t[i] = "nl" THEN 1
                              ELSE IF t[i] = "tab" THEN ColOf(t, i) + 4
                              ELSE ColOf(t, i) + 1
<1>1. \A j \in Nat \ {0} :
        ColOf(t, j) = j - Line(t, j) + 3 * Cardinality(Tabs(t, Line(t, j), j))
  BY DEF ColOf, Line, Ends, Tabs
<1>2. \A l \in Nat : Tabs(t, l, l + 1) = {}
  BY DEF Tabs
<1>3. ColOf(t, 1) = 1
  <2>1. Tabs(t, 0, 1) = {} /\ Line(t, 1) = 0
    BY LineNext DEF Tabs
  <2>2. Cardinality(Tabs(t, 0, 1)) = 0
    BY <2>1, FS_EmptySet
  <2> QED BY <1>1, <2>1, <2>2
<1> DEFINE l == Line(t, i)
           c == Cardinality(Tabs(t, l, i))
<1>4. l \in Nat /\ l < i /\ i + 1 \in Nat \ {0}
  BY LineNext
<1>5. c \in Nat
  BY <1>4, TabsIs
<1>6. ColOf(t, i) = i - l + 3 * c
  BY <1>1
<1> HIDE DEF l, c
<1>7. CASE t[i] = "nl"
  <2>1. Line(t, i + 1) = i
    BY <1>7, LineNext
  <2>2. Tabs(t, i, i + 1) = {}
    BY DEF Tabs
  <2>3. ColOf(t, i + 1) = (i + 1) - i + 3 * Cardinality({})
    BY <1>1, <1>4, <2>1, <2>2
  <2>4. Cardinality({}) = 0
    BY FS_EmptySet
  <2> QED BY <1>4, <1>5, <1>6, <1>7, <1>3, <2>3, <2>4
<1>8. CASE t[i] # "nl"
  <2>1. Line(t, i + 1) = l
    BY <1>8, LineNext DEF l
  <2>2. ColOf(t, i + 1) = (i + 1) - l + 3 * Cardinality(Tabs(t, l, i + 1))
    BY <1>1, <1>4, <2>1
  <2>3. Cardinality(Tabs(t, l, i + 1)) = IF t[i] = "tab" THEN c + 1 ELSE c
    <3>1. /\ IsFiniteSet(Tabs(t, l, i)) /\ i \notin Tabs(t, l, i)
          /\ Tabs(t, l, i + 1) = IF t[i] = "tab" THEN Tabs(t, l, i) \cup {i} ELSE Tabs(t, l, i)
      BY <1>4, TabsIs
    <3>2. Cardinality(Tabs(t, l, i) \cup {i}) = c + 1
      BY <3>1, FS_AddElement DEF c
    <3> QED BY <3>1, <3>2 DEF c
  <2> QED BY <1>3, <1>4, <1>5, <1>6, <1>8, <2>2, <2>3
<1> QED BY <1>7, <1>8

(* Both are known from what stands before. *)
LEMMA PlaceStays ==
  ASSUME NEW t \in Seq(Chars), NEW u \in Seq(Chars), Extends(u, t), NEW i \in 1..(Len(t) + 1)
  PROVE  RowOf(u, i) = RowOf(t, i) /\ ColOf(u, i) = ColOf(t, i)
<1>1. \A j \in 1..(i - 1) : u[j] = t[j]
  BY DEF Extends
<1>2. Ends(u, i) = Ends(t, i)
  BY <1>1 DEF Ends
<1>3. Line(u, i) = Line(t, i) /\ Line(t, i) \in 0..(i - 1)
  <2>1. i \in Nat \ {0}
    OBVIOUS
  <2>2. Line(t, i) \in 0..(i - 1)
    BY <2>1, LineNext
  <2> QED BY <1>2, <2>2 DEF Line
<1>4. Tabs(u, Line(t, i), i) = Tabs(t, Line(t, i), i)
  BY <1>1, <1>3 DEF Tabs
<1>5. RowOf(u, i) = RowOf(t, i)
  BY <1>2 DEF RowOf, Ends
<1>6. ColOf(u, i) = ColOf(t, i)
  <2>1. ColOf(t, i) = i - Line(t, i) + 3 * Cardinality(Tabs(t, Line(t, i), i))
    BY DEF ColOf, Line, Ends, Tabs
  <2>2. ColOf(u, i) = i - Line(u, i) + 3 * Cardinality(Tabs(u, Line(u, i), i))
    BY DEF ColOf, Line, Ends, Tabs
  <2> QED BY <1>3, <1>4, <2>1, <2>2
<1> QED BY <1>5, <1>6

(* Along a piece without an end of line the row is one, and the columns go up by
   one each, by more where a tab is. *)
LEMMA PlaceAlong ==
  ASSUME NEW t, NEW p \in Nat \ {0}, NEW n \in Nat,
         \A j \in p..(p + n - 1) : t[j] # "nl"
  PROVE  /\ RowOf(t, p + n) = RowOf(t, p)
         /\ ColOf(t, p + n) >= ColOf(t, p) + n
         /\ (\A j \in p..(p + n - 1) : t[j] # "tab") => ColOf(t, p + n) = ColOf(t, p) + n
<1> DEFINE S == {k \in 0..n :
                   /\ RowOf(t, p + k) = RowOf(t, p)
                   /\ ColOf(t, p + k) >= ColOf(t, p) + k
                   /\ (\A j \in p..(p + k - 1) : t[j] # "tab") =>
                        ColOf(t, p + k) = ColOf(t, p) + k}
<1>1. 0 \in S
  <2>1. p + 0 = p /\ ColOf(t, p) \in Nat
    BY ColNext
  <2> QED BY <2>1
<1>2. ASSUME NEW k \in 0..(n - 1), k \in S PROVE k + 1 \in S
  <2>1. /\ p + k \in Nat \ {0} /\ p + (k + 1) = (p + k) + 1 /\ p + k \in p..(p + n - 1)
        /\ k + 1 \in 0..n /\ p + k \in p..(p + (k + 1) - 1)
        /\ \A j \in p..(p + k - 1) : j \in p..(p + (k + 1) - 1)
    OBVIOUS
  <2>2. /\ RowOf(t, p + k) = RowOf(t, p)
        /\ ColOf(t, p + k) >= ColOf(t, p) + k
        /\ (\A j \in p..(p + k - 1) : t[j] # "tab") => ColOf(t, p + k) = ColOf(t, p) + k
    BY <1>2
  <2>3. RowOf(t, p + (k + 1)) = RowOf(t, p + k)
    BY <2>1, RowNext
  <2>4. /\ ColOf(t, p + k) \in Nat /\ ColOf(t, p) \in Nat
        /\ ColOf(t, p + (k + 1)) = IF t[p + k] = "tab" THEN ColOf(t, p + k) + 4
                                   ELSE ColOf(t, p + k) + 1
    BY <2>1, ColNext
  <2>5. ColOf(t, p + (k + 1)) >= ColOf(t, p) + (k + 1)
    BY <2>2, <2>4
  <2>6. (\A j \in p..(p + (k + 1) - 1) : t[j] # "tab") =>
          ColOf(t, p + (k + 1)) = ColOf(t, p) + (k + 1)
    BY <2>1, <2>2, <2>4
  <2> QED BY <2>1, <2>2, <2>3, <2>5, <2>6
<1>3. n \in S => /\ RowOf(t, p + n) = RowOf(t, p)
                 /\ ColOf(t, p + n) >= ColOf(t, p) + n
                 /\ (\A j \in p..(p + n - 1) : t[j] # "tab") =>
                      ColOf(t, p + n) = ColOf(t, p) + n
  OBVIOUS
<1> HIDE DEF S
<1>4. 0..n \subseteq S
  <2>1. Climbs(n, S)
    BY <1>1, <1>2 DEF Climbs
  <2> QED BY <2>1, ClimbsTo
<1> QED BY <1>3, <1>4

(***************************************************************************)
(* Where each kind of piece ends.                                          *)
(***************************************************************************)
(* A real has one dot with digits on both sides. *)
LEMMA RealIs ==
  ASSUME NEW s \in Seq(Chars)
  PROVE  IsReal(s) <=> \E k \in 2..(Len(s) - 1) :
                         s[k] = "." /\ \A j \in 1..Len(s) : j # k => s[j] \in Digits
<1>1. ASSUME NEW k \in 2..(Len(s) - 1)
      PROVE  /\ IsDigits(Slice(s, 1, k - 1)) <=> \A j \in 1..(k - 1) : s[j] \in Digits
             /\ IsDigits(SubSeq(s, k + 1, Len(s))) <=> \A j \in (k + 1)..Len(s) : s[j] \in Digits
  <2>1. /\ Len(s) \in Nat /\ k - 1 \in Nat /\ 1 \in 1..(k - 1) /\ 1 + (k - 1) - 1 <= Len(s)
        /\ Len(s) - k \in Nat /\ 1 \in 1..(Len(s) - k) /\ k + 1 \in Nat \ {0}
        /\ (k + 1) + (Len(s) - k) - 1 = Len(s)
    OBVIOUS
  <2> DEFINE a == Slice(s, 1, k - 1)
             b == Slice(s, k + 1, Len(s) - k)
  <2>2. a \in Seq(Chars) /\ Len(a) = k - 1 /\ \A j \in 1..(k - 1) : a[j] = s[1 + j - 1]
    <3> DEFINE x == k - 1
    <3>1. x \in Nat /\ 1 + x - 1 <= Len(s) /\ 1 \in Nat \ {0}
      BY <2>1
    <3> HIDE DEF x
    <3>2. /\ Slice(s, 1, x) \in Seq(Chars) /\ Len(Slice(s, 1, x)) = x
          /\ \A j \in 1..x : Slice(s, 1, x)[j] = s[1 + j - 1]
      BY <3>1, SliceIs
    <3> QED BY <3>2 DEF x
  <2>3. b \in Seq(Chars) /\ Len(b) = Len(s) - k /\ \A j \in 1..(Len(s) - k) : b[j] = s[(k + 1) + j - 1]
    <3> DEFINE x == Len(s) - k
               y == k + 1
    <3>1. x \in Nat /\ y + x - 1 <= Len(s) /\ y \in Nat \ {0}
      BY <2>1
    <3> HIDE DEF x, y
    <3>2. /\ Slice(s, y, x) \in Seq(Chars) /\ Len(Slice(s, y, x)) = x
          /\ \A j \in 1..x : Slice(s, y, x)[j] = s[y + j - 1]
      BY <3>1, SliceIs
    <3> QED BY <3>2 DEF x, y
  <2>4. SubSeq(s, k + 1, Len(s)) = b
    BY <2>1 DEF Slice
  <2> HIDE DEF a, b
  <2>5. IsDigits(a) <=> \A j \in 1..(k - 1) : s[j] \in Digits
    <3>1. DOMAIN a = 1..(k - 1) /\ a # <<>> /\ \A j \in 1..(k - 1) : a[j] = s[j]
      BY <2>1, <2>2
    <3> QED BY <3>1 DEF IsDigits, OnlyOf
  <2>6. IsDigits(b) <=> \A j \in (k + 1)..Len(s) : s[j] \in Digits
    <3>1. DOMAIN b = 1..(Len(s) - k) /\ b # <<>>
      BY <2>1, <2>3
    <3>2. \A j \in 1..(Len(s) - k) : b[j] = s[k + j] /\ k + j \in (k + 1)..Len(s)
      BY <2>1, <2>3
    <3>3. \A j \in (k + 1)..Len(s) : j - k \in 1..(Len(s) - k) /\ k + (j - k) = j
      BY <2>1
    <3>4. \A j \in (k + 1)..Len(s) : b[j - k] = s[j]
      BY <3>2, <3>3
    <3> QED BY <3>1, <3>2, <3>3, <3>4 DEF IsDigits, OnlyOf
  <2> QED BY <2>4, <2>5, <2>6 DEF a
<1>2. \A k \in 2..(Len(s) - 1) :
        (\A j \in 1..Len(s) : j # k => s[j] \in Digits) <=>
          (\A j \in 1..(k - 1) : s[j] \in Digits) /\ (\A j \in (k + 1)..Len(s) : s[j] \in Digits)
  <2> SUFFICES ASSUME NEW k \in 2..(Len(s) - 1)
               PROVE  (\A j \in 1..Len(s) : j # k => s[j] \in Digits) <=>
                        /\ \A j \in 1..(k - 1) : s[j] \in Digits
                        /\ \A j \in (k + 1)..Len(s) : s[j] \in Digits
    OBVIOUS
  <2>1. Len(s) \in Nat
    OBVIOUS
  <2>2. \A j \in 1..Len(s) : j # k => j \in 1..(k - 1) \/ j \in (k + 1)..Len(s)
    BY <2>1
  <2>3. \A j \in 1..(k - 1) : j \in 1..Len(s) /\ j # k
    BY <2>1
  <2>4. \A j \in (k + 1)..Len(s) : j \in 1..Len(s) /\ j # k
    BY <2>1
  <2> QED BY <2>2, <2>3, <2>4
<1> QED BY <1>1, <1>2 DEF IsReal

(* A string has marks at its ends and none within, and no end of line. *)
LEMMA QuotedIs ==
  ASSUME NEW s \in Seq(Chars)
  PROVE  IsQuoted(s) <=> /\ Len(s) >= 2 /\ s[1] = "q" /\ s[Len(s)] = "q"
                         /\ \A j \in 2..(Len(s) - 1) : s[j] \notin {"q", "nl"}
<1>1. CASE Len(s) >= 2
  <2>1. Len(s) \in Nat /\ Len(s) - 2 \in Nat /\ 2 + (Len(s) - 2) - 1 <= Len(s)
    BY <1>1
  <2> DEFINE a == Slice(s, 2, Len(s) - 2)
  <2>2. /\ a \in Seq(Chars) /\ Len(a) = Len(s) - 2
        /\ \A j \in 1..(Len(s) - 2) : a[j] = s[2 + j - 1]
    BY <2>1, SliceIs
  <2> HIDE DEF a
  <2>3. \A j \in 1..(Len(s) - 2) : a[j] = s[j + 1] /\ j + 1 \in 2..(Len(s) - 1) /\ s[j + 1] \in Chars
    BY <2>1, <2>2
  <2>4. \A j \in 2..(Len(s) - 1) : j - 1 \in 1..(Len(s) - 2) /\ (j - 1) + 1 = j
    BY <2>1
  <2>5. \A j \in 2..(Len(s) - 1) : a[j - 1] = s[j] /\ s[j] \in Chars
    BY <2>3, <2>4
  <2>6. DOMAIN a = 1..(Len(s) - 2)
    BY <2>1, <2>2
  <2>7. OnlyOf(Chars \ {"q", "nl"}, a) <=> \A j \in 2..(Len(s) - 1) : s[j] \notin {"q", "nl"}
    BY <2>3, <2>4, <2>5, <2>6 DEF OnlyOf
  <2> QED BY <2>7 DEF IsQuoted, a
<1>2. CASE ~(Len(s) >= 2)
  BY <1>2 DEF IsQuoted
<1> QED BY <1>1, <1>2

(* A comment opens with a slash and two stars, or two bars. *)
LEMMA OpensIs ==
  ASSUME NEW u \in Seq(Chars), NEW p \in 1..Len(u)
  PROVE  /\ OpensComment(u, p) <=>
              /\ p + 2 <= Len(u) /\ u[p] = "/"
              /\ \/ u[p + 1] = "*" /\ u[p + 2] = "*"
                 \/ u[p + 1] = "-" /\ u[p + 2] = "-"
         /\ OpensComment(u, p) => (Slice(u, p, 3) = <<"/", "*", "*">> <=> u[p + 1] = "*")
<1>1. CASE p + 2 <= Len(u)
  <2>1. p \in Nat \ {0} /\ 3 \in Nat /\ p + 3 - 1 <= Len(u)
    BY <1>1
  <2> DEFINE a == Slice(u, p, 3)
  <2>2. a \in Seq(Chars) /\ Len(a) = 3 /\ \A k \in 1..3 : a[k] = u[p + k - 1]
    BY <2>1, SliceIs
  <2> HIDE DEF a
  <2>3. a[1] = u[p] /\ a[2] = u[p + 1] /\ a[3] = u[p + 2]
    BY <2>1, <2>2
  <2>4. a = <<a[1], a[2], a[3]>>
    BY <2>2
  <2>5. /\ a = <<"/", "*", "*">> <=> a[1] = "/" /\ a[2] = "*" /\ a[3] = "*"
        /\ a = <<"/", "-", "-">> <=> a[1] = "/" /\ a[2] = "-" /\ a[3] = "-"
    BY <2>4
  <2> QED BY <1>1, <2>3, <2>5 DEF OpensComment, a
<1>2. CASE ~(p + 2 <= Len(u))
  BY <1>2 DEF OpensComment
<1> QED BY <1>1, <1>2

(* What is written at p is a piece of n characters. *)
Cut(u, p, n) == /\ p \in 1..Len(u) /\ u[p] \notin Blanks /\ ~OpensComment(u, p)
                /\ Size(u, p) = n

(* Slices from p on, and the character behind one of them. *)
LEMMA SliceAhead ==
  ASSUME NEW u \in Seq(Chars), NEW p \in 1..Len(u), NEW m \in 1..(Len(u) - p + 1)
  PROVE  /\ Slice(u, p, m) \in Seq(Chars) /\ Len(Slice(u, p, m)) = m /\ Slice(u, p, m) # <<>>
         /\ \A k \in 1..m : Slice(u, p, m)[k] = u[p + k - 1]
         /\ Slice(u, p, m)[1] = u[p]
<1>1. p \in Nat \ {0} /\ m \in Nat /\ p + m - 1 <= Len(u) /\ 1 \in 1..m /\ p + 1 - 1 = p
  OBVIOUS
<1>2. /\ Slice(u, p, m) \in Seq(Chars) /\ Len(Slice(u, p, m)) = m
      /\ \A k \in 1..m : Slice(u, p, m)[k] = u[p + k - 1]
  BY <1>1, SliceIs
<1>3. Slice(u, p, m)[1] = u[p]
  BY <1>1, <1>2
<1>4. Slice(u, p, m) # <<>>
  BY <1>1, <1>2
<1> QED BY <1>2, <1>3, <1>4

(* A spelling starts with no blank; only a slash opens a comment. *)
LEMMA CutSpelling ==
  ASSUME NEW u \in Seq(Chars), NEW p \in 1..Len(u), NEW n \in 1..(Len(u) - p + 1),
         IsSpelling(Slice(u, p, n)), ~OpensComment(u, p),
         \A m \in (n + 1)..(Len(u) - p + 1) : ~IsSpelling(Slice(u, p, m))
  PROVE  Cut(u, p, n)
<1>1. Slice(u, p, n) \in Seq(Chars) /\ Slice(u, p, n) # <<>> /\ Slice(u, p, n)[1] = u[p]
  BY SliceAhead
<1>2. u[p] \in Letters \cup Digits \cup {"q"} \cup Signs \cup DOMAIN Lone
  BY <1>1, FirstDecides DEF IsSpelling
<1>3. u[p] \notin Blanks
  BY <1>2 DEF Letters, Lower, Digits, Signs, Lone, Blanks
<1> QED BY <1>3, LongestIs DEF Cut

(* A word ends before what is no letter or digit, *)
LEMMA WordCut ==
  ASSUME NEW u \in Seq(Chars), NEW p \in 1..Len(u), NEW n \in Nat \ {0}, p + n <= Len(u),
         IsWord(Slice(u, p, n)), u[p + n] \notin Letters \cup Digits
  PROVE  Cut(u, p, n)
<1>1. n \in 1..(Len(u) - p + 1)
  OBVIOUS
<1>2. Slice(u, p, n) \in Seq(Chars) /\ Slice(u, p, n) # <<>> /\ Slice(u, p, n)[1] = u[p]
  BY <1>1, SliceAhead
<1>3. u[p] \in Letters
  BY <1>2 DEF IsWord
<1>4. ~OpensComment(u, p)
  BY <1>3, OpensIs DEF Letters, Lower
<1>5. ASSUME NEW m \in (n + 1)..(Len(u) - p + 1) PROVE ~IsSpelling(Slice(u, p, m))
  <2>1. m \in 1..(Len(u) - p + 1) /\ n + 1 \in 1..m /\ p + (n + 1) - 1 = p + n
    OBVIOUS
  <2> DEFINE s == Slice(u, p, m)
  <2>2. /\ s \in Seq(Chars) /\ Len(s) = m /\ s # <<>> /\ s[1] = u[p]
        /\ s[n + 1] = u[p + n]
    BY <2>1, SliceAhead
  <2> HIDE DEF s
  <2>3. n + 1 \in DOMAIN s
    BY <2>1, <2>2
  <2>4. ~OnlyOf(Letters \cup Digits, s)
    BY <2>2, <2>3 DEF OnlyOf
  <2>5. ~IsSpelling(s)
    BY <1>3, <2>2, <2>4, FirstDecides
  <2> QED BY <2>5 DEF s
<1>6. IsSpelling(Slice(u, p, n))
  BY DEF IsSpelling
<1> QED BY <1>1, <1>4, <1>5, <1>6, CutSpelling

(* digits end before what is no digit and no dot with a digit behind it, *)
LEMMA DigitsCut ==
  ASSUME NEW u \in Seq(Chars), NEW p \in 1..Len(u), NEW n \in Nat \ {0}, p + n <= Len(u),
         IsDigits(Slice(u, p, n)), u[p + n] \notin Digits,
         u[p + n] = "." => p + n + 1 <= Len(u) /\ u[p + n + 1] \notin Digits
  PROVE  Cut(u, p, n)
<1>1. n \in 1..(Len(u) - p + 1)
  OBVIOUS
<1>2. /\ Slice(u, p, n) \in Seq(Chars) /\ Slice(u, p, n) # <<>> /\ Slice(u, p, n)[1] = u[p]
      /\ Len(Slice(u, p, n)) = n /\ \A k \in 1..n : Slice(u, p, n)[k] = u[p + k - 1]
  BY <1>1, SliceAhead
<1>3. u[p] \in Digits
  BY <1>2, FirstDecides
<1>4. ~OpensComment(u, p)
  BY <1>3, OpensIs DEF Digits
<1>5. ASSUME NEW m \in (n + 1)..(Len(u) - p + 1) PROVE ~IsSpelling(Slice(u, p, m))
  <2>1. m \in 1..(Len(u) - p + 1) /\ n + 1 \in 1..m /\ p + (n + 1) - 1 = p + n
    OBVIOUS
  <2> DEFINE s == Slice(u, p, m)
  <2>2. /\ s \in Seq(Chars) /\ Len(s) = m /\ s # <<>> /\ s[1] = u[p]
        /\ \A k \in 1..m : s[k] = u[p + k - 1]
    BY <2>1, SliceAhead
  <2>3. s[n + 1] = u[p + n]
    BY <2>1, <2>2
  <2> HIDE DEF s
  <2>4. ~IsDigits(s)
    <3>1. n + 1 \in DOMAIN s
      BY <2>1, <2>2
    <3> QED BY <2>3, <3>1 DEF IsDigits, OnlyOf
  <2>5. ASSUME NEW k \in 2..(Len(s) - 1), s[k] = ".", \A j \in 1..Len(s) : j # k => s[j] \in Digits
        PROVE  FALSE
    <3>1. k = n + 1
      BY <2>1, <2>2, <2>3, <2>5
    <3>2. n + 2 \in 1..m /\ p + (n + 2) - 1 = p + n + 1 /\ n + 2 # k
      BY <2>1, <2>2, <2>5, <3>1
    <3>3. s[n + 2] = u[p + n + 1] /\ s[n + 2] \in Digits
      BY <2>2, <2>5, <3>2
    <3> QED BY <2>3, <2>5, <3>1, <3>3
  <2>6. ~IsReal(s)
    BY <2>2, <2>5, RealIs
  <2>7. ~IsSpelling(s)
    BY <1>3, <2>2, <2>4, <2>6, FirstDecides
  <2> QED BY <2>7 DEF s
<1>6. IsSpelling(Slice(u, p, n))
  BY DEF IsSpelling
<1> QED BY <1>1, <1>4, <1>5, <1>6, CutSpelling

(* a real before what is no digit, *)
LEMMA RealCut ==
  ASSUME NEW u \in Seq(Chars), NEW p \in 1..Len(u), NEW n \in Nat \ {0}, p + n <= Len(u),
         IsReal(Slice(u, p, n)), u[p + n] \notin Digits
  PROVE  Cut(u, p, n)
<1>1. n \in 1..(Len(u) - p + 1)
  OBVIOUS
<1>2. /\ Slice(u, p, n) \in Seq(Chars) /\ Slice(u, p, n) # <<>> /\ Slice(u, p, n)[1] = u[p]
      /\ Len(Slice(u, p, n)) = n /\ \A k \in 1..n : Slice(u, p, n)[k] = u[p + k - 1]
  BY <1>1, SliceAhead
<1>d. PICK d \in 2..(n - 1) : Slice(u, p, n)[d] = "."
  BY <1>2, RealIs
<1>3. u[p] \in Digits
  BY <1>2, FirstDecides
<1>4. ~OpensComment(u, p)
  BY <1>3, OpensIs DEF Digits
<1>5. ASSUME NEW m \in (n + 1)..(Len(u) - p + 1) PROVE ~IsSpelling(Slice(u, p, m))
  <2>1. m \in 1..(Len(u) - p + 1) /\ n + 1 \in 1..m /\ p + (n + 1) - 1 = p + n
        /\ d \in 1..m /\ d \in 1..n /\ d # n + 1
    OBVIOUS
  <2> DEFINE s == Slice(u, p, m)
  <2>2. /\ s \in Seq(Chars) /\ Len(s) = m /\ s # <<>> /\ s[1] = u[p]
        /\ \A k \in 1..m : s[k] = u[p + k - 1]
    BY <2>1, SliceAhead
  <2>3. s[n + 1] = u[p + n] /\ s[d] = "."
    BY <1>2, <1>d, <2>1, <2>2
  <2> HIDE DEF s
  <2>4. s[n + 1] \notin Digits /\ s[d] \notin Digits
    BY <2>3 DEF Digits
  <2>5. ~IsDigits(s)
    <3>1. n + 1 \in DOMAIN s
      BY <2>1, <2>2
    <3> QED BY <2>4, <3>1 DEF IsDigits, OnlyOf
  <2>6. ~IsReal(s)
    BY <2>1, <2>2, <2>4, RealIs
  <2>7. ~IsSpelling(s)
    BY <1>3, <2>2, <2>5, <2>6, FirstDecides
  <2> QED BY <2>7 DEF s
<1>6. IsSpelling(Slice(u, p, n))
  BY DEF IsSpelling
<1> QED BY <1>1, <1>4, <1>5, <1>6, CutSpelling

(* a string with its second mark, *)
LEMMA QuotedCut ==
  ASSUME NEW u \in Seq(Chars), NEW p \in 1..Len(u), NEW n \in Nat \ {0}, p + n - 1 <= Len(u),
         IsQuoted(Slice(u, p, n))
  PROVE  Cut(u, p, n)
<1>1. n \in 1..(Len(u) - p + 1)
  OBVIOUS
<1>2. /\ Slice(u, p, n) \in Seq(Chars) /\ Slice(u, p, n) # <<>> /\ Slice(u, p, n)[1] = u[p]
      /\ Len(Slice(u, p, n)) = n /\ \A k \in 1..n : Slice(u, p, n)[k] = u[p + k - 1]
  BY <1>1, SliceAhead
<1>3. n >= 2 /\ u[p] = "q" /\ Slice(u, p, n)[n] = "q"
  BY <1>2, QuotedIs
<1>4. ~OpensComment(u, p)
  BY <1>3, OpensIs
<1>5. ASSUME NEW m \in (n + 1)..(Len(u) - p + 1) PROVE ~IsSpelling(Slice(u, p, m))
  <2>1. m \in 1..(Len(u) - p + 1) /\ n \in 1..m /\ n \in 1..n /\ n \in 2..(m - 1)
    BY <1>3
  <2> DEFINE s == Slice(u, p, m)
  <2>2. /\ s \in Seq(Chars) /\ Len(s) = m /\ s # <<>> /\ s[1] = u[p]
        /\ \A k \in 1..m : s[k] = u[p + k - 1]
    BY <2>1, SliceAhead
  <2>3. s[n] = "q"
    BY <1>2, <1>3, <2>1, <2>2
  <2> HIDE DEF s
  <2>4. ~IsQuoted(s)
    BY <2>1, <2>2, <2>3, QuotedIs
  <2>5. ~IsSpelling(s)
    BY <1>3, <2>2, <2>4, FirstDecides
  <2> QED BY <2>5 DEF s
<1>6. IsSpelling(Slice(u, p, n))
  BY DEF IsSpelling
<1> QED BY <1>1, <1>4, <1>5, <1>6, CutSpelling

(* one that its line does not finish with the line, *)
LEMMA OpenCut ==
  ASSUME NEW u \in Seq(Chars), NEW p \in 1..Len(u), NEW n \in Nat \ {0}, p + n <= Len(u),
         u[p] = "q", u[p + n] = "nl", \A j \in (p + 1)..(p + n - 1) : u[j] \notin {"q", "nl"}
  PROVE  Cut(u, p, n) /\ ~IsSpelling(Slice(u, p, n))
<1>1. ASSUME NEW m \in 1..(Len(u) - p + 1) PROVE ~IsSpelling(Slice(u, p, m))
  <2> DEFINE s == Slice(u, p, m)
  <2>2. /\ s \in Seq(Chars) /\ Len(s) = m /\ s # <<>> /\ s[1] = "q"
        /\ \A k \in 1..m : s[k] = u[p + k - 1]
    BY SliceAhead
  <2> HIDE DEF s
  <2>3. ~IsQuoted(s)
    <3> SUFFICES ASSUME m >= 2, s[m] = "q", \A j \in 2..(m - 1) : s[j] \notin {"q", "nl"}
                 PROVE  FALSE
      BY <2>2, QuotedIs
    <3>1. CASE m <= n
      <4>1. m \in 1..m /\ p + m - 1 \in (p + 1)..(p + n - 1)
        BY <3>1
      <4> QED BY <2>2, <4>1
    <3>2. CASE m > n
      <4>1. n + 1 \in 1..m /\ p + (n + 1) - 1 = p + n
        BY <3>2
      <4>2. s[n + 1] = "nl"
        BY <2>2, <4>1
      <4>3. n + 1 = m \/ n + 1 \in 2..(m - 1)
        BY <3>2
      <4> QED BY <4>2, <4>3
    <3> QED BY <3>1, <3>2
  <2>4. ~IsSpelling(s)
    BY <2>2, <2>3, FirstDecides
  <2> QED BY <2>4 DEF s
<1>2. n \in 1..(Len(u) - p + 1) /\ p + n - 1 \in p..Len(u) /\ (p + n - 1) + 1 = p + n
      /\ (p + n - 1) - p + 1 = n
  OBVIOUS
<1>3. JunkEnds(u, p, p + n - 1)
  BY <1>2 DEF JunkEnds
<1>4. ASSUME NEW j \in p..((p + n - 1) - 1) PROVE ~JunkEnds(u, p, j)
  <2>1. j # Len(u) /\ j + 1 \in (p + 1)..(p + n - 1)
    OBVIOUS
  <2> QED BY <2>1 DEF JunkEnds
<1>5. JunkAt(u, p) = n
  <2> DEFINE e == p + n - 1
  <2>1. e \in p..Len(u) /\ JunkEnds(u, p, e) /\ \A j \in p..(e - 1) : ~JunkEnds(u, p, j)
    BY <1>2, <1>3, <1>4
  <2>2. e - p + 1 = n
    BY <1>2
  <2> HIDE DEF e
  <2> QED BY <2>1, <2>2, JunkIs
<1>6. Size(u, p) = n
  BY <1>1, <1>5, LongestNone
<1>7. ~OpensComment(u, p)
  BY OpensIs
<1> QED BY <1>1, <1>2, <1>6, <1>7 DEF Cut, Blanks

(* and unknown characters before a known one. *)
LEMMA JunkCut ==
  ASSUME NEW u \in Seq(Chars), NEW p \in 1..Len(u), NEW n \in Nat \ {0}, p + n <= Len(u),
         u[p] \in {"!", "?"}, u[p] = "!" => u[p + 1] # "=",
         valid_char(u[p + n]), \A j \in (p + 1)..(p + n - 1) : ~valid_char(u[j])
  PROVE  Cut(u, p, n) /\ ~IsSpelling(Slice(u, p, n))
<1>1. ASSUME NEW m \in 1..(Len(u) - p + 1) PROVE ~IsSpelling(Slice(u, p, m))
  <2> DEFINE s == Slice(u, p, m)
  <2>2. /\ s \in Seq(Chars) /\ Len(s) = m /\ s # <<>> /\ s[1] = u[p]
        /\ \A k \in 1..m : s[k] = u[p + k - 1]
    BY SliceAhead
  <2> HIDE DEF s
  <2>3. m = 2 => s[2] = u[p + 1]
    BY <2>2
  <2>4. OperatorOf(s) = "none"
    <3>1. "?" \notin Signs \cup DOMAIN Lone /\ "!" \notin {"<", ">"}
      BY DEF Signs, Lone
    <3> QED BY <2>2, <2>3, <3>1, SignIs
  <2>5. s[1] \notin Letters \cup Digits \cup {"q"}
    BY <2>2 DEF Letters, Lower, Digits
  <2>6. ~IsSpelling(s)
    BY <2>2, <2>4, <2>5, FirstDecides
  <2> QED BY <2>6 DEF s
<1>2. n \in 1..(Len(u) - p + 1) /\ p + n - 1 \in p..Len(u) /\ (p + n - 1) + 1 = p + n
      /\ (p + n - 1) - p + 1 = n
  OBVIOUS
<1>3. JunkEnds(u, p, p + n - 1)
  BY <1>2 DEF JunkEnds
<1>4. ASSUME NEW j \in p..((p + n - 1) - 1) PROVE ~JunkEnds(u, p, j)
  <2>1. j # Len(u) /\ j + 1 \in (p + 1)..(p + n - 1)
    OBVIOUS
  <2> QED BY <2>1 DEF JunkEnds
<1>5. JunkAt(u, p) = n
  <2> DEFINE e == p + n - 1
  <2>1. e \in p..Len(u) /\ JunkEnds(u, p, e) /\ \A j \in p..(e - 1) : ~JunkEnds(u, p, j)
    BY <1>2, <1>3, <1>4
  <2>2. e - p + 1 = n
    BY <1>2
  <2> HIDE DEF e
  <2> QED BY <2>1, <2>2, JunkIs
<1>6. Size(u, p) = n
  BY <1>1, <1>5, LongestNone
<1>7. ~OpensComment(u, p)
  BY OpensIs
<1> QED BY <1>1, <1>2, <1>6, <1>7 DEF Cut, Blanks

(* A sign that stands alone in every text is one character, *)
LEMMA LoneCut ==
  ASSUME NEW u \in Seq(Chars), NEW p \in 1..Len(u), u[p] \in DOMAIN Lone
  PROVE  Cut(u, p, 1)
<1>1. 1 \in 1..(Len(u) - p + 1)
  OBVIOUS
<1>2. /\ Slice(u, p, 1) \in Seq(Chars) /\ Slice(u, p, 1) # <<>> /\ Slice(u, p, 1)[1] = u[p]
      /\ Len(Slice(u, p, 1)) = 1
  BY <1>1, SliceAhead
<1>3. u[p] \notin Signs \cup Letters \cup Digits \cup {"q"}
  BY DEF Lone, Signs, Letters, Lower, Digits
<1>4. ~OpensComment(u, p)
  BY <1>3, OpensIs DEF Signs
<1>5. ASSUME NEW m \in (1 + 1)..(Len(u) - p + 1) PROVE ~IsSpelling(Slice(u, p, m))
  <2>1. m \in 1..(Len(u) - p + 1) /\ m >= 2
    OBVIOUS
  <2> DEFINE s == Slice(u, p, m)
  <2>2. s \in Seq(Chars) /\ Len(s) = m /\ s # <<>> /\ s[1] = u[p]
    BY <2>1, SliceAhead
  <2> HIDE DEF s
  <2>3. OperatorOf(s) = "none"
    <3>1. {"<", ">"} \subseteq Signs
      BY DEF Signs
    <3>2. Len(s) # 1 /\ s[1] \notin Signs /\ s[1] \notin {"<", ">"}
      BY <1>3, <2>1, <2>2, <3>1
    <3>3. s \in Seq(Chars) /\ s # <<>>
      BY <2>2
    <3> QED BY ONLY <3>2, <3>3, SignIs
  <2>4. ~IsSpelling(s)
    BY <1>3, <2>2, <2>3, FirstDecides
  <2> QED BY <2>4 DEF s
<1>6. OperatorOf(Slice(u, p, 1)) # "none"
  <2>1. OperatorOf(Slice(u, p, 1)) = Lone[u[p]]
    BY <1>2, SignIs
  <2>2. Lone[u[p]] \in {"TSEMI", "TDOTT", "TLPAR"}
    BY DEF Lone
  <2> QED BY <2>1, <2>2
<1>7. IsSpelling(Slice(u, p, 1))
  BY <1>6 DEF IsSpelling
<1> QED BY <1>1, <1>4, <1>5, <1>7, CutSpelling

(* no sign is longer than two, and none of two starts with others than these; *)
LEMMA SignAhead ==
  ASSUME NEW u \in Seq(Chars), NEW p \in 1..Len(u), u[p] \in Signs,
         NEW m \in 1..(Len(u) - p + 1), IsSpelling(Slice(u, p, m))
  PROVE  \/ m = 1 /\ u[p] # "!"
         \/ m = 2 /\ u[p + 1] = "="
         \/ m = 2 /\ u[p] \in {"<", ">"} /\ u[p + 1] = u[p]
<1> DEFINE s == Slice(u, p, m)
<1>1. /\ s \in Seq(Chars) /\ Len(s) = m /\ s # <<>> /\ s[1] = u[p]
      /\ \A k \in 1..m : s[k] = u[p + k - 1]
  BY SliceAhead
<1>2. m = 2 => s[2] = u[p + 1]
  BY <1>1
<1>3. IsSpelling(s)
  OBVIOUS
<1> HIDE DEF s
<1>4. u[p] \notin Letters \cup Digits \cup {"q"}
  BY DEF Signs, Letters, Lower, Digits
<1>5. OperatorOf(s) # "none"
  BY <1>1, <1>3, <1>4, FirstDecides
<1>6. \/ Len(s) = 1 /\ s[1] # "!"
      \/ Len(s) = 2 /\ s[1] \in Signs /\ s[2] = "="
      \/ Len(s) = 2 /\ s[1] \in {"<", ">"} /\ s[2] = s[1]
  BY <1>1, <1>5, SignIs
<1> QED BY <1>1, <1>2, <1>6

(* so two that belong together are a piece, *)
LEMMA PairCut ==
  ASSUME NEW u \in Seq(Chars), NEW p \in 1..Len(u), p + 1 <= Len(u), u[p] \in Signs,
         u[p + 1] = "=" \/ (u[p] \in {"<", ">"} /\ u[p + 1] = u[p])
  PROVE  /\ Cut(u, p, 2)
         /\ OperatorOf(Slice(u, p, 2)) = IF u[p + 1] = "=" THEN BeforeEqual[u[p]] ELSE Twice[u[p]]
<1>1. 2 \in 1..(Len(u) - p + 1) /\ 1 \in 1..2 /\ 2 \in 1..2 /\ p + 2 - 1 = p + 1
  OBVIOUS
<1> DEFINE s == Slice(u, p, 2)
<1>2. /\ s \in Seq(Chars) /\ Len(s) = 2 /\ s # <<>> /\ s[1] = u[p]
      /\ \A k \in 1..2 : s[k] = u[p + k - 1]
  BY <1>1, SliceAhead
<1>3. s[2] = u[p + 1]
  BY <1>1, <1>2
<1> HIDE DEF s
<1>4. ~OpensComment(u, p)
  BY OpensIs
<1>5. \A m \in (2 + 1)..(Len(u) - p + 1) : ~IsSpelling(Slice(u, p, m))
  BY SignAhead
<1>6. OperatorOf(s) = IF u[p + 1] = "=" THEN BeforeEqual[u[p]] ELSE Twice[u[p]]
  BY <1>2, <1>3, SignIs
<1>7. OperatorOf(s) # "none"
  <2>1. BeforeEqual[u[p]] \in TokenTypes
    BY SignNames
  <2>2. u[p + 1] # "=" => Twice[u[p]] \in TokenTypes
    BY SignNames
  <2>3. "none" \notin TokenTypes
    BY DEF TokenTypes
  <2> QED BY <1>6, <2>1, <2>2, <2>3
<1>8. IsSpelling(Slice(u, p, 2))
  BY <1>7 DEF IsSpelling, s
<1> QED BY <1>1, <1>4, <1>5, <1>6, <1>8, CutSpelling DEF s

(* and one before others, where no comment opens, is a piece itself. *)
LEMMA AloneCut ==
  ASSUME NEW u \in Seq(Chars), NEW p \in 1..Len(u), p + 1 <= Len(u),
         u[p] \in DOMAIN Alone, u[p + 1] # "=", u[p] \in {"<", ">"} => u[p + 1] # u[p],
         ~OpensComment(u, p)
  PROVE  Cut(u, p, 1) /\ OperatorOf(Slice(u, p, 1)) = Alone[u[p]]
<1>1. 1 \in 1..(Len(u) - p + 1)
  OBVIOUS
<1>2. /\ Slice(u, p, 1) \in Seq(Chars) /\ Slice(u, p, 1) # <<>> /\ Slice(u, p, 1)[1] = u[p]
      /\ Len(Slice(u, p, 1)) = 1
  BY <1>1, SliceAhead
<1>3. u[p] \in Signs
  BY DEF Alone, Signs
<1>4. ASSUME NEW m \in (1 + 1)..(Len(u) - p + 1) PROVE ~IsSpelling(Slice(u, p, m))
  <2>1. m \in 1..(Len(u) - p + 1) /\ m # 1
    OBVIOUS
  <2> QED BY <1>3, <2>1, SignAhead
<1>5. OperatorOf(Slice(u, p, 1)) = Alone[u[p]]
  BY <1>2, SignIs
<1>6. OperatorOf(Slice(u, p, 1)) # "none"
  <2>1. Alone[u[p]] \in TokenTypes /\ "none" \notin TokenTypes
    BY SignNames DEF TokenTypes
  <2> QED BY <1>5, <2>1
<1>7. IsSpelling(Slice(u, p, 1))
  BY <1>6 DEF IsSpelling
<1> QED BY <1>1, <1>4, <1>5, <1>7, CutSpelling

(* What a piece is called, and what it is worth. *)
LEMMA TypeIs ==
  ASSUME NEW s \in Seq(Chars), s # <<>>
  PROVE  /\ IsWord(s) => TypeOf(s) = IF ToLower(s) \in DOMAIN Keywords
                                     THEN Keywords[ToLower(s)] ELSE "TIDEN"
         /\ IsDigits(s) => TypeOf(s) = IF Fits(s) THEN "TILIT" ELSE "TUNDF"
         /\ IsReal(s) => TypeOf(s) = IF Fits(s) THEN "TFLIT" ELSE "TUNDF"
         /\ IsQuoted(s) => TypeOf(s) = "TSTRG"
         /\ OperatorOf(s) # "none" => TypeOf(s) = OperatorOf(s)
         /\ ~IsSpelling(s) => TypeOf(s) = "TUNDF"
<1>1. /\ Letters \cap Digits = {} /\ "q" \notin Letters \cup Digits
      /\ (Letters \cup Digits \cup {"q"}) \cap (Signs \cup DOMAIN Lone) = {}
  BY DEF Letters, Lower, Digits, Signs, Lone
<1>2. ~(IsDigits(s) /\ IsReal(s))
  <2> SUFFICES ASSUME IsDigits(s), NEW k \in 2..(Len(s) - 1), s[k] = "." PROVE FALSE
    BY RealIs
  <2>1. k \in DOMAIN s
    OBVIOUS
  <2> QED BY <2>1 DEF IsDigits, OnlyOf, Digits
<1>3. /\ ~(IsWord(s) /\ IsDigits(s)) /\ ~(IsWord(s) /\ IsReal(s)) /\ ~(IsWord(s) /\ IsQuoted(s))
      /\ ~(IsWord(s) /\ OperatorOf(s) # "none") /\ ~(IsDigits(s) /\ IsQuoted(s))
      /\ ~(IsDigits(s) /\ OperatorOf(s) # "none") /\ ~(IsReal(s) /\ IsQuoted(s))
      /\ ~(IsReal(s) /\ OperatorOf(s) # "none") /\ ~(IsQuoted(s) /\ OperatorOf(s) # "none")
  BY <1>1, FirstDecides
<1> DEFINE w == IsWord(s)
           d == IsDigits(s)
           r == IsReal(s)
           q == IsQuoted(s)
           o == OperatorOf(s) # "none"
<1>4. IsSpelling(s) <=> w \/ d \/ r \/ q \/ o
  BY DEF IsSpelling
<1> QED BY <1>2, <1>3, <1>4 DEF TypeOf

(* The value goes by the name. *)
LEMMA ValIs ==
  ASSUME NEW s \in Seq(Chars), s # <<>>
  PROVE  /\ TypeOf(s) \in {"TIDEN", "TILIT", "TFLIT", "TUNDF"} => ValOf(s) = s
         /\ IsQuoted(s) => ValOf(s) = Slice(s, 2, Len(s) - 2)
         /\ TypeOf(s) \notin {"TIDEN", "TILIT", "TFLIT", "TUNDF"} /\ ~IsQuoted(s) =>
              ValOf(s) = <<>>
<1>1. IsQuoted(s) => TypeOf(s) \notin {"TIDEN", "TILIT", "TFLIT", "TUNDF"}
  BY TypeIs
<1> QED BY <1>1 DEF ValOf

(***************************************************************************)
(* What has been read so far.                                              *)
(***************************************************************************)
(* A longer text begins with what a shorter one begins with. *)
LEMMA ExtendsIs ==
  ASSUME NEW t \in Seq(Chars), NEW ch \in Chars
  PROVE  /\ Extends(t, t)
         /\ Append(t, ch) \in Seq(Chars) /\ Len(Append(t, ch)) = Len(t) + 1
         /\ Append(t, ch)[Len(t) + 1] = ch /\ \A j \in 1..Len(t) : Append(t, ch)[j] = t[j]
         /\ Extends(Append(t, ch), t)
         /\ \A u \in Seq(Chars) : Extends(u, Append(t, ch)) => Extends(u, t)
<1> DEFINE v == Append(t, ch)
<1>1. /\ v \in Seq(Chars) /\ Len(v) = Len(t) + 1 /\ Len(t) \in Nat /\ v[Len(t) + 1] = ch
      /\ \A j \in 1..Len(t) : v[j] = t[j]
  OBVIOUS
<1> HIDE DEF v
<1>2. Extends(t, t)
  BY <1>1 DEF Extends
<1>3. Extends(v, t)
  BY <1>1 DEF Extends
<1>4. \A u \in Seq(Chars) : Extends(u, v) => Extends(u, t)
  <2> SUFFICES ASSUME NEW u \in Seq(Chars), Len(v) <= Len(u), \A j \in 1..Len(v) : u[j] = v[j]
               PROVE  Extends(u, t)
    BY DEF Extends
  <2>1. Len(u) \in Nat /\ \A j \in 1..Len(t) : j \in 1..Len(v)
    BY <1>1
  <2> QED BY <1>1, <2>1 DEF Extends
<1> QED BY <1>1, <1>2, <1>3, <1>4 DEF v

(* A slice of a text is that of every text that goes on. *)
LEMMA SliceStays ==
  ASSUME NEW t \in Seq(Chars), NEW u \in Seq(Chars), Extends(u, t),
         NEW p \in Nat \ {0}, NEW n \in Nat, p + n - 1 <= Len(t)
  PROVE  Slice(u, p, n) = Slice(t, p, n)
<1>1. Len(t) \in Nat /\ Len(u) \in Nat /\ p + n - 1 <= Len(u)
  BY DEF Extends
<1>2. /\ Slice(t, p, n) \in Seq(Chars) /\ Len(Slice(t, p, n)) = n
      /\ \A k \in 1..n : Slice(t, p, n)[k] = t[p + k - 1]
  BY SliceIs
<1>3. /\ Slice(u, p, n) \in Seq(Chars) /\ Len(Slice(u, p, n)) = n
      /\ \A k \in 1..n : Slice(u, p, n)[k] = u[p + k - 1]
  BY <1>1, SliceIs
<1>4. \A k \in 1..n : u[p + k - 1] = t[p + k - 1]
  <2>1. \A k \in 1..n : p + k - 1 \in 1..Len(t)
    BY <1>1
  <2> QED BY <2>1 DEF Extends
<1> DEFINE x == Slice(u, p, n)
           y == Slice(t, p, n)
<1>5. x \in Seq(Chars) /\ y \in Seq(Chars) /\ Len(x) = Len(y) /\ \A k \in 1..Len(x) : x[k] = y[k]
  BY <1>2, <1>3, <1>4
<1> HIDE DEF x, y
<1>6. x = y
  BY <1>5, SeqEqual
<1> QED BY <1>6 DEF x, y

(* What the texts that begin with t mean is m, up to p. *)
Reads(t, m, p)  == \A u \in Seq(Chars) : Extends(u, t) => From(u)[1] = m \o From(u)[p]
CutIn(t, p, n)  == \A u \in Seq(Chars) : Extends(u, t) => Cut(u, p, n)
(* A token is the one that a piece means, at the place where it may be said to
   be, *)
Shifted(t, shift, type) == \/ shift = 0
                           \/ shift = 1 /\ type \in LateSigns
                           \/ shift > 0 /\ \E j \in DOMAIN t : t[j] = "tab"
Agrees(t, g, tok) == /\ g.at \in 1..Len(t)
                     /\ tok.type = TypeOf(g.s) /\ tok.val = ValOf(g.s)
                     /\ tok.row = RowOf(t, g.at)
                     /\ Shifted(t, tok.col - ColOf(t, g.at), tok.type)
(* and the tokens and the reports are those of the text up to p. *)
ToldAs(t, toks, rep, p, m) ==
  /\ m \in Seq(PieceSet) /\ Reads(t, m, p) /\ Len(m) = Len(toks)
  /\ \A k \in 1..Len(m) : Agrees(t, m[k], toks[k])
  /\ rep = Said(m, toks)
Told(t, toks, rep, p) == /\ toks \in Seq(Tokens) /\ p \in 1..(Len(t) + 1)
                         /\ \E m \in Seq(PieceSet) : ToldAs(t, toks, rep, p, m)

(* Nothing is told of an empty text. *)
LEMMA ToldFirst ==
  Told(<<>>, <<>>, <<>>, 1)
<1> DEFINE e == <<>>
<1>1. e \in Seq(Chars) /\ e \in Seq(Tokens) /\ e \in Seq(PieceSet) /\ Len(e) = 0
  OBVIOUS
<1>2. Said(e, e) = e
  BY SaidIs
<1>3. Reads(e, e, 1)
  <2>1. ASSUME NEW u \in Seq(Chars) PROVE From(u)[1] = e \o From(u)[1]
    <3>1. 1 \in 1..(Len(u) + 1)
      OBVIOUS
    <3>2. From(u)[1] \in Seq(PieceSet)
      BY <3>1, FromIs
    <3> QED BY <3>2
  <2> QED BY <2>1 DEF Reads
<1> HIDE DEF e
<1>4. ToldAs(e, e, e, 1, e)
  BY <1>1, <1>2, <1>3 DEF ToldAs
<1>5. 1 \in 1..(Len(e) + 1)
  BY <1>1
<1>6. Told(e, e, e, 1)
  BY <1>1, <1>4, <1>5 DEF Told
<1> QED BY <1>6 DEF e

(* A token stays the one meant when the text goes on, *)
LEMMA AgreesGrows ==
  ASSUME NEW t \in Seq(Chars), NEW ch \in Chars, NEW g, NEW tok, Agrees(t, g, tok)
  PROVE  Agrees(Append(t, ch), g, tok)
<1> DEFINE v == Append(t, ch)
<1>1. /\ v \in Seq(Chars) /\ Len(v) = Len(t) + 1 /\ Extends(v, t) /\ Len(t) \in Nat
      /\ \A j \in 1..Len(t) : v[j] = t[j]
  BY ExtendsIs
<1> HIDE DEF v
<1>2. g.at \in 1..Len(t) /\ g.at \in 1..(Len(t) + 1) /\ g.at \in 1..Len(v)
  BY <1>1 DEF Agrees
<1>3. RowOf(v, g.at) = RowOf(t, g.at) /\ ColOf(v, g.at) = ColOf(t, g.at)
  BY <1>1, <1>2, PlaceStays
<1>4. (\E j \in DOMAIN t : t[j] = "tab") => (\E j \in DOMAIN v : v[j] = "tab")
  <2>1. DOMAIN t = 1..Len(t) /\ DOMAIN v = 1..Len(v) /\ \A j \in 1..Len(t) : j \in 1..Len(v)
    BY <1>1
  <2> QED BY <1>1, <2>1
<1>5. \A shift, type : Shifted(t, shift, type) => Shifted(v, shift, type)
  BY <1>4 DEF Shifted
<1>6. Agrees(v, g, tok)
  BY <1>2, <1>3, <1>5 DEF Agrees
<1> QED BY <1>6 DEF v

(* and what is told stays told. *)
LEMMA ToldGrows ==
  ASSUME NEW t \in Seq(Chars), NEW ch \in Chars, NEW toks, NEW rep, NEW p,
         Told(t, toks, rep, p)
  PROVE  Told(Append(t, ch), toks, rep, p)
<1> DEFINE v == Append(t, ch)
<1>1. /\ v \in Seq(Chars) /\ Len(v) = Len(t) + 1 /\ Len(t) \in Nat
      /\ \A u \in Seq(Chars) : Extends(u, v) => Extends(u, t)
  BY ExtendsIs
<1>2. PICK m \in Seq(PieceSet) : ToldAs(t, toks, rep, p, m)
  BY DEF Told
<1>3. Reads(v, m, p)
  BY <1>1, <1>2 DEF ToldAs, Reads
<1>4. \A k \in 1..Len(m) : Agrees(v, m[k], toks[k])
  BY <1>2, AgreesGrows DEF ToldAs
<1> HIDE DEF v
<1>5. ToldAs(v, toks, rep, p, m)
  BY <1>2, <1>3, <1>4 DEF ToldAs
<1>6. p \in 1..(Len(v) + 1) /\ toks \in Seq(Tokens)
  BY <1>1 DEF Told
<1> QED BY <1>5, <1>6 DEF Told, v

(* One more step of the recursion: it skips, *)
LEMMA ToldSkip ==
  ASSUME NEW t \in Seq(Chars), NEW toks, NEW rep, NEW p, Told(t, toks, rep, p),
         NEW q \in 1..(Len(t) + 1), 
         \A u \in Seq(Chars) : Extends(u, t) => From(u)[p] = From(u)[q]
  PROVE  Told(t, toks, rep, q)
<1>1. PICK m \in Seq(PieceSet) : ToldAs(t, toks, rep, p, m)
  BY DEF Told
<1>2. Reads(t, m, q)
  BY <1>1 DEF ToldAs, Reads
<1>3. ToldAs(t, toks, rep, q, m)
  BY <1>1, <1>2 DEF ToldAs
<1> QED BY <1>3 DEF Told

(* a blank, *)
LEMMA ToldBlank ==
  ASSUME NEW t \in Seq(Chars), NEW toks, NEW rep, NEW p, Told(t, toks, rep, p),
         p <= Len(t), t[p] \in Blanks
  PROVE  Told(t, toks, rep, p + 1)
<1>1. p \in 1..Len(t) /\ p + 1 \in 1..(Len(t) + 1)
  BY DEF Told
<1>2. ASSUME NEW u \in Seq(Chars), Extends(u, t) PROVE From(u)[p] = From(u)[p + 1]
  <2>1. u[p] = t[p] /\ p \in 1..Len(u) /\ p \in 1..(Len(u) + 1)
    BY <1>1, <1>2 DEF Extends
  <2>2. ~(p > Len(u)) /\ u[p] \in Blanks
    BY <2>1
  <2>3. From(u)[p] = FromAt(u, From(u), p)
    BY <2>1, FromIs
  <2> QED BY <2>2, <2>3 DEF FromAt
<1> QED BY <1>1, <1>2, ToldSkip

(* a comment, *)
LEMMA ToldComment ==
  ASSUME NEW t \in Seq(Chars), NEW toks, NEW rep, NEW p, Told(t, toks, rep, p),
         p <= Len(t), OpensComment(t, p), NEW e \in 1..Len(t), e \in CommentEnds(t, p),
         \A j \in CommentEnds(t, p) : e <= j
  PROVE  Told(t, toks, rep, e + 1)
<1>1. p \in 1..Len(t) /\ e + 1 \in 1..(Len(t) + 1) /\ p + 2 <= Len(t) /\ p \in Nat \ {0}
      /\ t[p] = "/"
  <2>1. p \in 1..Len(t) /\ e + 1 \in 1..(Len(t) + 1)
    BY DEF Told
  <2> QED BY <2>1, OpensIs
<1>2. ASSUME NEW u \in Seq(Chars), Extends(u, t) PROVE From(u)[p] = From(u)[e + 1]
  <2>1. /\ u[p] = t[p] /\ p \in 1..Len(u) /\ p \in 1..(Len(u) + 1) /\ p + 2 <= Len(u)
        /\ e <= Len(u)
    BY <1>1, <1>2 DEF Extends
  <2>2. ~(p > Len(u)) /\ u[p] \notin Blanks
    BY <1>1, <2>1 DEF Blanks
  <2>3. From(u)[p] = FromAt(u, From(u), p)
    BY <2>1, FromIs
  <2>4. Slice(u, p, 3) = Slice(t, p, 3)
    <3>1. p + 3 - 1 <= Len(t) /\ 3 \in Nat
      BY <1>1
    <3> QED BY <1>1, <1>2, <3>1, SliceStays
  <2>5. OpensComment(u, p)
    BY <2>1, <2>4 DEF OpensComment
  <2>6. ASSUME NEW j \in 1..Len(t) PROVE j \in CommentEnds(t, p) <=> j \in CommentEnds(u, p)
    <3>1. u[j] = t[j] /\ j \in Int /\ j <= Len(u) /\ j <= Len(t) /\ Len(u) \in Int /\ Len(t) \in Int
      BY <1>2 DEF Extends
    <3>2. j >= p + 5 => Slice(u, j - 2, 3) = Slice(t, j - 2, 3)
      <4> DEFINE i == j - 2
      <4>1. j >= p + 5 => i \in Nat \ {0} /\ 3 \in Nat /\ i + 3 - 1 <= Len(t)
        BY <1>1
      <4> HIDE DEF i
      <4>2. j >= p + 5 => Slice(u, i, 3) = Slice(t, i, 3)
        BY <1>2, <4>1, SliceStays
      <4> QED BY <4>2 DEF i
    <3>3. CASE Slice(t, p, 3) = <<"/", "*", "*">>
      BY <1>1, <2>4, <3>1, <3>2, <3>3 DEF CommentEnds
    <3>4. CASE Slice(t, p, 3) # <<"/", "*", "*">>
      BY <1>1, <2>4, <3>1, <3>4 DEF CommentEnds
    <3> QED BY <3>3, <3>4
  <2>7. e \in CommentEnds(u, p) /\ CommentEnds(u, p) # {}
    BY <2>6
  <2>8. /\ CommentEnd(u, p) \in CommentEnds(u, p) /\ CommentEnds(u, p) \subseteq (p + 3)..Len(u)
        /\ CommentEnd(u, p) <= e
    BY <2>1, <2>7, CommentIs
  <2>9. CommentEnd(u, p) \in 1..Len(t)
    BY <1>1, <2>8
  <2>a. CommentEnd(u, p) \in CommentEnds(t, p)
    BY <2>6, <2>8, <2>9
  <2>b. CommentEnd(u, p) = e
    BY <2>8, <2>9, <2>a
  <2>c. CommentEnd(u, p) # 0
    BY <2>9
  <2> HIDE DEF CommentEnds
  <2> QED BY <2>2, <2>3, <2>5, <2>b, <2>c DEF FromAt
<1> QED BY <1>1, <1>2, ToldSkip

(* and a piece, of which a token is made. *)
LEMMA ToldPiece ==
  ASSUME NEW t \in Seq(Chars), NEW toks, NEW rep, NEW p, Told(t, toks, rep, p),
         NEW n \in Nat \ {0}, p + n - 1 <= Len(t), CutIn(t, p, n), NEW tok \in Tokens,
         Agrees(t, [s |-> Slice(t, p, n), at |-> p], tok)
  PROVE  Told(t, Append(toks, tok), rep \o About(Slice(t, p, n), tok), p + n)
<1>1. PICK m \in Seq(PieceSet) : ToldAs(t, toks, rep, p, m)
  BY DEF Told
<1>2. toks \in Seq(Tokens) /\ p \in 1..(Len(t) + 1) /\ Len(m) = Len(toks) /\ Reads(t, m, p)
  BY <1>1 DEF Told, ToldAs
<1> DEFINE x == Slice(t, p, n)
           g == [s |-> x, at |-> p]
           mm == Append(m, g)
           tt == Append(toks, tok)
<1>3. p \in Nat \ {0} /\ p + n \in 1..(Len(t) + 1) /\ p \in 1..Len(t)
  BY <1>2
<1>4. x \in Seq(Chars)
  BY <1>3, SliceIs
<1>5. g \in PieceSet /\ g.s = x
  BY <1>3, <1>4 DEF PieceSet
<1>6. Agrees(t, g, tok)
  OBVIOUS
<1> HIDE DEF g
<1>7. Reads(t, mm, p + n)
  <2> SUFFICES ASSUME NEW u \in Seq(Chars), Extends(u, t) PROVE From(u)[1] = mm \o From(u)[p + n]
    BY DEF Reads
  <2>1. From(u)[1] = m \o From(u)[p] /\ Cut(u, p, n)
    BY <1>2 DEF Reads, CutIn
  <2>2. p \in 1..Len(u) /\ u[p] \notin Blanks /\ ~OpensComment(u, p) /\ Size(u, p) = n
    BY <2>1 DEF Cut
  <2>3. ~(p > Len(u)) /\ p \in 1..(Len(u) + 1) /\ p + n \in 1..(Len(u) + 1)
    <3>1. Len(t) <= Len(u)
      BY DEF Extends
    <3> QED BY <1>3, <2>2, <3>1
  <2>4. From(u)[p] = <<Piece(u, p)>> \o From(u)[p + n]
    <3>1. From(u)[p] = FromAt(u, From(u), p)
      BY <2>3, FromIs
    <3> QED BY <2>2, <2>3, <3>1 DEF FromAt
  <2>5. Piece(u, p) = g
    <3>1. Slice(u, p, n) = Slice(t, p, n)
      BY <1>3, SliceStays
    <3> QED BY <2>2, <3>1 DEF Piece, g
  <2>6. From(u)[p + n] \in Seq(PieceSet)
    BY <2>3, FromIs
  <2> DEFINE f == From(u)[p + n]
  <2>7. m \o (<<g>> \o f) = Append(m, g) \o f
    <3>1. f \in Seq(PieceSet)
      BY <2>6
    <3> HIDE DEF f
    <3> QED BY ONLY <1>5, <3>1, m \in Seq(PieceSet)
  <2> QED BY <2>1, <2>4, <2>5, <2>7
<1>8. mm \in Seq(PieceSet) /\ Len(mm) = Len(m) + 1 /\ mm[Len(m) + 1] = g
      /\ \A k \in 1..Len(m) : mm[k] = m[k]
  BY <1>5
<1>9. tt \in Seq(Tokens) /\ Len(tt) = Len(m) + 1 /\ tt[Len(m) + 1] = tok
      /\ \A k \in 1..Len(m) : tt[k] = toks[k]
  BY <1>2
<1>a. Said(mm, tt) = rep \o About(x, tok)
  <2>1. rep = Said(m, toks)
    BY <1>1 DEF ToldAs
  <2> HIDE DEF x
  <2> QED BY <1>2, <1>5, <2>1, SaidIs
<1> HIDE DEF mm, tt, x
<1>b. \A k \in 1..Len(mm) : Agrees(t, mm[k], tt[k])
  <2>1. \A k \in 1..Len(m) : Agrees(t, m[k], toks[k])
    BY <1>1 DEF ToldAs
  <2>2. Len(m) \in Nat
    BY <1>1
  <2>3. \A k \in 1..Len(mm) : k = Len(m) + 1 \/ k \in 1..Len(m)
    BY <1>8, <2>2
  <2> QED BY <1>6, <1>8, <1>9, <2>1, <2>3
<1>c. Len(mm) = Len(tt)
  BY <1>8, <1>9
<1> DEFINE rr == rep \o About(x, tok)
<1>d. rr = Said(mm, tt)
  BY <1>a
<1> HIDE DEF rr
<1>e. ToldAs(t, tt, rr, p + n, mm)
  BY <1>7, <1>8, <1>b, <1>c, <1>d DEF ToldAs
<1>f. Told(t, tt, rr, p + n)
  BY <1>3, <1>8, <1>9, <1>e DEF Told
<1> QED BY <1>f DEF tt, rr, x

(***************************************************************************)
(* What waits for the next character.                                      *)
(***************************************************************************)
Quiet    == {"START", "ML_COM", "ML_COMSTR", "ML_COMSTRSTR", "SL_COM"}
Buffered == States \ Quiet

(* The text has the row and the column that the lexer counts. *)
Placed(t) == /\ t \in Seq(Chars) /\ row = RowOf(t, Len(t) + 1) /\ col = ColOf(t, Len(t) + 1)
(* The characters from p on are in the buffer, *)
Waiting(t, p, b) == /\ p \in 1..Len(t) /\ b = Slice(t, p, Len(t) - p + 1)
                    /\ \A j \in p..Len(t) : t[j] # "nl"
(* and the state says what they are. *)
Shape(s, b) ==
  /\ s = "NUM"      => IsDigits(b)
  /\ s = "ALPHANUM" => IsWord(b)
  /\ s = "NUMDOT"   => /\ Len(b) >= 2 /\ b[Len(b)] = "."
                       /\ \A j \in 1..(Len(b) - 1) : b[j] \in Digits
  /\ s = "FLOAT"    => IsReal(b)
  /\ s = "PRE_EQUAL" => Len(b) = 1 /\ b[1] \in {"+", "-", "*", "="}
  /\ s = "LESS"     => Len(b) = 1 /\ b[1] = "<"
  /\ s = "GRTR"     => Len(b) = 1 /\ b[1] = ">"
  /\ s = "EXCLM"    => Len(b) = 1 /\ b[1] = "!"
  /\ s = "SLASH"    => Len(b) = 1 /\ b[1] = "/"
  /\ s = "SLASHSTAR"  => Len(b) = 2 /\ b[1] = "/" /\ b[2] = "*"
  /\ s = "SLASHMINUS" => Len(b) = 2 /\ b[1] = "/" /\ b[2] = "-"
  /\ s = "STRING"   => b[1] = "q" /\ \A j \in 2..Len(b) : b[j] \notin {"q", "nl"}
  /\ s = "ERROR"    => /\ b[1] \in {"!", "?"} /\ (b[1] = "!" => Len(b) >= 2)
                       /\ \A j \in 2..Len(b) : ~valid_char(b[j])
(* A comment is open at p, and the state counts the stars it ends with. *)
Within(t, p, s) ==
  /\ p \in 1..Len(t) /\ OpensComment(t, p) /\ CommentEnds(t, p) = {}
  /\ s = "SL_COM" <=> t[p + 1] = "-"
  /\ s = "ML_COM" => Len(t) = p + 2 \/ t[Len(t)] # "*"
  /\ s = "ML_COMSTR" => /\ Len(t) >= p + 3 /\ t[Len(t)] = "*"
                        /\ Len(t) = p + 3 \/ t[Len(t) - 1] # "*"
  /\ s = "ML_COMSTRSTR" => Len(t) >= p + 4 /\ t[Len(t)] = "*" /\ t[Len(t) - 1] = "*"
Pending(t, p, s, b) ==
  /\ s = "START" => p = Len(t) + 1 /\ b = <<>>
  /\ s \in Buffered => Waiting(t, p, b) /\ Shape(s, b)
  /\ s \in Quiet \ {"START"} => b = <<>> /\ Within(t, p, s)

(* The effect of a character: what is told of the text with it. *)
Goes(t, ch, toks, rep, e) ==
  \E q \in 1..(Len(t) + 2) :
    /\ Told(Append(t, ch), toks \o e.made, rep \o e.said, q)
    /\ Pending(Append(t, ch), q, e.state, e.buffer)

(* The text has none of the spellings that the two read differently. *)
OddIn(t) == \E i \in DOMAIN t, n \in {2, 3} : i + n - 1 <= Len(t) /\ Slice(t, i, n) \in Oddities

(* A text that goes on keeps an odd spelling, *)
LEMMA OddGrows ==
  ASSUME NEW t \in Seq(Chars), NEW ch \in Chars, OddIn(t)
  PROVE  OddIn(Append(t, ch))
<1> DEFINE v == Append(t, ch)
<1>1. /\ v \in Seq(Chars) /\ Len(v) = Len(t) + 1 /\ Extends(v, t) /\ Len(t) \in Nat
  BY ExtendsIs
<1> HIDE DEF v
<1>2. PICK i \in DOMAIN t, n \in {2, 3} : i + n - 1 <= Len(t) /\ Slice(t, i, n) \in Oddities
  BY DEF OddIn
<1>3. i \in Nat \ {0} /\ n \in Nat /\ i + n - 1 <= Len(v) /\ i \in DOMAIN v
  BY <1>1, <1>2
<1>4. Slice(v, i, n) = Slice(t, i, n)
  BY <1>1, <1>2, <1>3, SliceStays
<1>5. OddIn(v)
  BY <1>2, <1>3, <1>4 DEF OddIn
<1> QED BY <1>5 DEF v

(* and these are the ones that matter. *)
LEMMA NotOdd ==
  ASSUME NEW t \in Seq(Chars), ~OddIn(t), NEW i \in 1..Len(t)
  PROVE  /\ i + 1 <= Len(t) => ~(t[i] = "!" /\ t[i + 1] = "!")
         /\ i + 2 <= Len(t) => /\ ~(t[i] = "/" /\ t[i + 1] \in {"*", "-"} /\ t[i + 2] = "=")
                               /\ ~(t[i] = "*" /\ t[i + 1] = "*" /\ t[i + 2] = "*")
<1>1. i \in DOMAIN t /\ i \in Nat \ {0}
  OBVIOUS
<1>2. i + 1 <= Len(t) => Slice(t, i, 2) = <<t[i], t[i + 1]>>
  <2> DEFINE a == Slice(t, i, 2)
  <2>1. i + 1 <= Len(t) => i + 2 - 1 <= Len(t) /\ 2 \in Nat
    BY <1>1
  <2>2. i + 1 <= Len(t) =>
          a \in Seq(Chars) /\ Len(a) = 2 /\ \A k \in 1..2 : a[k] = t[i + k - 1]
    BY <1>1, <2>1, SliceIs
  <2> HIDE DEF a
  <2>3. i + 1 <= Len(t) => a[1] = t[i] /\ a[2] = t[i + 1]
    BY <1>1, <2>2
  <2>4. i + 1 <= Len(t) => a = <<a[1], a[2]>>
    BY <2>2
  <2> QED BY <2>3, <2>4 DEF a
<1>3. i + 2 <= Len(t) => Slice(t, i, 3) = <<t[i], t[i + 1], t[i + 2]>>
  <2> DEFINE a == Slice(t, i, 3)
  <2>1. i + 2 <= Len(t) => i + 3 - 1 <= Len(t) /\ 3 \in Nat
    BY <1>1
  <2>2. i + 2 <= Len(t) =>
          a \in Seq(Chars) /\ Len(a) = 3 /\ \A k \in 1..3 : a[k] = t[i + k - 1]
    BY <1>1, <2>1, SliceIs
  <2> HIDE DEF a
  <2>3. i + 2 <= Len(t) => a[1] = t[i] /\ a[2] = t[i + 1] /\ a[3] = t[i + 2]
    BY <1>1, <2>2
  <2>4. i + 2 <= Len(t) => a = <<a[1], a[2], a[3]>>
    BY <2>2
  <2> QED BY <2>3, <2>4 DEF a
<1>4. i + 1 <= Len(t) => Slice(t, i, 2) \notin Oddities
  <2>1. 2 \in {2, 3} /\ (i + 1 <= Len(t) => i + 2 - 1 <= Len(t))
    OBVIOUS
  <2> QED BY <1>1, <2>1 DEF OddIn
<1>5. i + 2 <= Len(t) => Slice(t, i, 3) \notin Oddities
  <2>1. 3 \in {2, 3} /\ (i + 2 <= Len(t) => i + 3 - 1 <= Len(t))
    OBVIOUS
  <2> QED BY <1>1, <2>1 DEF OddIn
<1>6. i + 1 <= Len(t) => ~(t[i] = "!" /\ t[i + 1] = "!")
  BY <1>2, <1>4 DEF Oddities
<1>7. i + 2 <= Len(t) => ~(t[i] = "/" /\ t[i + 1] \in {"*", "-"} /\ t[i + 2] = "=")
  BY <1>3, <1>5 DEF Oddities
<1>8. i + 2 <= Len(t) => ~(t[i] = "*" /\ t[i + 1] = "*" /\ t[i + 2] = "*")
  BY <1>3, <1>5 DEF Oddities
<1> QED BY <1>6, <1>7, <1>8

(* Where a piece that starts at i on this line is said to be. *)
LEMMA PlaceHere ==
  ASSUME NEW t \in Seq(Chars), Placed(t), NEW ch \in Chars, NEW i \in 1..(Len(t) + 1),
         \A j \in i..Len(t) : t[j] # "nl"
  PROVE  /\ row = RowOf(Append(t, ch), i) /\ row \in Nat \ {0} /\ col \in Nat \ {0}
         /\ Here(ch) \in Int
         /\ \A type : Shifted(Append(t, ch), (Here(ch) - (Len(t) + 1 - i)) - ColOf(Append(t, ch), i),
                              type)
         /\ \A type \in LateSigns :
              Shifted(Append(t, ch), (Here(ch) - (Len(t) - i)) - ColOf(Append(t, ch), i), type)
<1> DEFINE v == Append(t, ch)
           n == Len(t) + 1 - i
<1>1. /\ v \in Seq(Chars) /\ Len(v) = Len(t) + 1 /\ Extends(v, t) /\ Len(t) \in Nat
      /\ v[Len(t) + 1] = ch /\ \A j \in 1..Len(t) : v[j] = t[j]
  BY ExtendsIs
<1>2. RowOf(v, i) = RowOf(t, i) /\ ColOf(v, i) = ColOf(t, i)
  <2> HIDE DEF v
  <2> QED BY <1>1, PlaceStays
<1>3. n \in Nat /\ i + n = Len(t) + 1 /\ i \in Nat \ {0} /\ Len(t) - i = n - 1
      /\ i + n - 1 = Len(t)
  BY <1>1
<1> HIDE DEF v, n
<1>4. /\ RowOf(t, Len(t) + 1) = RowOf(t, i)
      /\ ColOf(t, Len(t) + 1) >= ColOf(t, i) + n
      /\ (\A j \in i..Len(t) : t[j] # "tab") => ColOf(t, Len(t) + 1) = ColOf(t, i) + n
  <2>1. \A j \in i..(i + n - 1) : t[j] # "nl"
    BY <1>3
  <2>2. /\ RowOf(t, i + n) = RowOf(t, i)
        /\ ColOf(t, i + n) >= ColOf(t, i) + n
        /\ (\A j \in i..(i + n - 1) : t[j] # "tab") => ColOf(t, i + n) = ColOf(t, i) + n
    BY <1>3, <2>1, PlaceAlong
  <2> QED BY <1>3, <2>2
<1>5. /\ ColOf(t, i) \in Nat \ {0} /\ RowOf(t, i) \in Nat \ {0}
      /\ ColOf(t, Len(t) + 1) \in Nat \ {0}
  <2>1. Len(t) + 1 \in Nat \ {0}
    BY <1>1
  <2> QED BY <1>3, <2>1, RowNext, ColNext
<1>6. row = RowOf(t, Len(t) + 1) /\ col = ColOf(t, Len(t) + 1)
  BY DEF Placed
<1>7. Here(ch) \in Int /\ Here(ch) >= col /\ (ch # "tab" => Here(ch) = col)
      /\ (ch = "tab" => Here(ch) > col)
  BY <1>5, <1>6 DEF Here
<1> DEFINE c == ColOf(t, i)
           tabbed == \E j \in DOMAIN v : v[j] = "tab"
           h == Here(ch)
<1>8. \/ tabbed /\ h - n - c >= 0 /\ h - (n - 1) - c > 0
      \/ h - n - c = 0 /\ h - (n - 1) - c = 1
  <2>1. CASE ch = "tab"
    <3>1. Len(t) + 1 \in DOMAIN v
      BY <1>1
    <3>2. tabbed
      BY <1>1, <2>1, <3>1
    <3> HIDE DEF tabbed
    <3> QED BY <1>3, <1>4, <1>5, <1>6, <1>7, <3>2
  <2>2. CASE \E j \in i..Len(t) : t[j] = "tab"
    <3>1. PICK j \in i..Len(t) : t[j] = "tab"
      BY <2>2
    <3>2. j \in DOMAIN v /\ v[j] = t[j]
      BY <1>1
    <3>3. tabbed
      BY <3>1, <3>2
    <3> HIDE DEF tabbed
    <3> QED BY <1>3, <1>4, <1>5, <1>6, <1>7, <3>3
  <2>3. CASE ch # "tab" /\ \A j \in i..Len(t) : t[j] # "tab"
    <3> HIDE DEF tabbed
    <3> QED BY <1>3, <1>4, <1>5, <1>6, <1>7, <2>3
  <2> QED BY <2>1, <2>2, <2>3
<1>9. (h - n) - ColOf(v, i) = h - n - c /\ (h - (Len(t) - i)) - ColOf(v, i) = h - (n - 1) - c
  BY <1>2, <1>3
<1> DEFINE x == h - n - c
           y == h - (n - 1) - c
<1>a. /\ x \in Int /\ y \in Int
      /\ (tabbed /\ x >= 0 /\ y > 0) \/ (x = 0 /\ y = 1)
  BY <1>3, <1>5, <1>7, <1>8
<1> HIDE DEF x, y
<1>b. \A type : Shifted(v, x, type)
  BY <1>a DEF Shifted
<1>c. \A type \in LateSigns : Shifted(v, y, type)
  BY <1>a DEF Shifted
<1>e. (h - (Len(t) + 1 - i)) - ColOf(v, i) = x /\ (h - (Len(t) - i)) - ColOf(v, i) = y
  BY <1>9 DEF x, y, n
<1>f. row = RowOf(v, i) /\ row \in Nat \ {0} /\ col \in Nat \ {0} /\ h \in Int
  BY <1>2, <1>4, <1>5, <1>6, <1>7
<1> QED BY <1>b, <1>c, <1>e, <1>f DEF v

(* What every text shows that goes on with ch. *)
LEMMA Ahead ==
  ASSUME NEW t \in Seq(Chars), NEW ch \in Chars, NEW p, NEW b, Waiting(t, p, b),
         NEW u \in Seq(Chars), Extends(u, Append(t, ch))
  PROVE  /\ p \in 1..Len(u) /\ Len(b) \in Nat \ {0} /\ p + Len(b) = Len(t) + 1
         /\ p + Len(b) <= Len(u) /\ u[p + Len(b)] = ch
         /\ b \in Seq(Chars) /\ b # <<>> /\ Slice(u, p, Len(b)) = b
         /\ \A k \in 1..Len(b) : u[p + k - 1] = b[k] /\ b[k] # "nl"
<1>1. /\ p \in 1..Len(t) /\ b = Slice(t, p, Len(t) - p + 1)
      /\ \A j \in p..Len(t) : t[j] # "nl"
  BY DEF Waiting
<1> DEFINE n == Len(t) - p + 1
<1>2. n \in Nat \ {0} /\ p \in Nat \ {0} /\ p + n - 1 <= Len(t) /\ p + n = Len(t) + 1
      /\ Len(t) \in Nat
  BY <1>1
<1> HIDE DEF n
<1>3. b = Slice(t, p, n)
  BY <1>1 DEF n
<1>4. /\ b \in Seq(Chars) /\ Len(b) = n /\ \A k \in 1..n : b[k] = t[p + k - 1]
  BY <1>2, <1>3, SliceIs
<1>5. Extends(u, t) /\ u[Len(t) + 1] = ch /\ Len(t) + 1 <= Len(u)
  <2>1. /\ Append(t, ch) \in Seq(Chars) /\ Len(Append(t, ch)) = Len(t) + 1
        /\ Append(t, ch)[Len(t) + 1] = ch /\ Extends(u, t)
    BY ExtendsIs
  <2>2. Len(t) + 1 \in 1..(Len(t) + 1)
    BY <1>2
  <2> QED BY <2>1, <2>2 DEF Extends
<1>6. Slice(u, p, n) = b
  BY <1>2, <1>3, <1>5, SliceStays
<1>7. \A k \in 1..n : p + k - 1 \in 1..Len(t) /\ p + k - 1 \in p..Len(t)
  BY <1>2
<1>8. \A k \in 1..n : u[p + k - 1] = b[k] /\ b[k] # "nl"
  BY <1>1, <1>4, <1>5, <1>7 DEF Extends
<1>9. p \in 1..Len(u) /\ p + n <= Len(u) /\ u[p + n] = ch /\ b # <<>>
  BY <1>1, <1>2, <1>4, <1>5
<1> QED BY <1>2, <1>4, <1>6, <1>8, <1>9

(* And what the text itself shows. *)
LEMMA WaitIs ==
  ASSUME NEW t \in Seq(Chars), NEW ch \in Chars, NEW p, NEW b, Waiting(t, p, b)
  PROVE  /\ p \in 1..Len(t) /\ Len(t) \in Nat /\ Len(b) \in Nat \ {0} /\ p + Len(b) = Len(t) + 1
         /\ b \in Seq(Chars) /\ b # <<>> /\ Slice(Append(t, ch), p, Len(b)) = b
         /\ \A k \in 1..Len(b) : Append(t, ch)[p + k - 1] = b[k]
         /\ \A j \in p..Len(t) : t[j] # "nl"
<1> DEFINE v == Append(t, ch)
<1>1. v \in Seq(Chars) /\ Len(t) \in Nat
  OBVIOUS
<1>2. Extends(v, Append(t, ch))
  <2>1. v = Append(t, ch)
    OBVIOUS
  <2> HIDE DEF v
  <2>2. Extends(v, v)
    BY <1>1 DEF Extends
  <2> QED BY <2>1, <2>2
<1> HIDE DEF v
<1>3. /\ Len(b) \in Nat \ {0} /\ p + Len(b) = Len(t) + 1
      /\ b \in Seq(Chars) /\ b # <<>> /\ Slice(v, p, Len(b)) = b
      /\ \A k \in 1..Len(b) : v[p + k - 1] = b[k]
  BY <1>1, <1>2, Ahead
<1>4. p \in 1..Len(t) /\ \A j \in p..Len(t) : t[j] # "nl"
  BY DEF Waiting
<1> QED BY <1>1, <1>3, <1>4 DEF v

(* The names of tokens and their values. *)
LEMMA TokenIs ==
  ASSUME NEW s \in Seq(Chars), s # <<>>
  PROVE  TypeOf(s) \in TokenTypes /\ ValOf(s) \in Seq(Chars)
<1>1. TypeOf(s) \in TokenTypes
  <2>1. OperatorOf(s) \in TokenTypes \cup {"none"}
    <3>1. DOMAIN BeforeEqual = Signs /\ DOMAIN Twice = {"<", ">"}
      BY DEF BeforeEqual, Twice
    <3> QED BY <3>1, SignNames DEF OperatorOf
  <2>2. {"TIDEN", "TILIT", "TFLIT", "TUNDF", "TSTRG"} \subseteq TokenTypes
    BY DEF TokenTypes
  <2>3. \A w \in DOMAIN Keywords : Keywords[w] \in TokenTypes
    BY SignNames
  <2> QED BY <2>1, <2>2, <2>3, TypeIs DEF IsSpelling
<1>2. ValOf(s) \in Seq(Chars)
  <2>1. IsQuoted(s) => Slice(s, 2, Len(s) - 2) \in Seq(Chars)
    <3>1. IsQuoted(s) => Len(s) - 2 \in Nat /\ 2 + (Len(s) - 2) - 1 <= Len(s)
      BY DEF IsQuoted
    <3> DEFINE n == Len(s) - 2
    <3>2. IsQuoted(s) => n \in Nat /\ 2 + n - 1 <= Len(s)
      BY <3>1
    <3> HIDE DEF n
    <3>3. IsQuoted(s) => Slice(s, 2, n) \in Seq(Chars)
      BY <3>2, SliceIs
    <3> QED BY <3>3 DEF n
  <2>2. <<>> \in Seq(Chars)
    OBVIOUS
  <2> QED BY <2>1, <2>2, ValIs
<1> QED BY <1>1, <1>2

(* A piece becomes the token of its name and value. *)
LEMMA TokenHere ==
  ASSUME NEW t \in Seq(Chars), Placed(t), NEW ch \in Chars, NEW toks, NEW rep, NEW p,
         Told(Append(t, ch), toks, rep, p), NEW n \in Nat \ {0}, p + n <= Len(t) + 2,
         CutIn(Append(t, ch), p, n), \A j \in p..Len(t) : t[j] # "nl",
         NEW s, s = Slice(Append(t, ch), p, n), NEW c,
         \/ c = Here(ch) - (Len(t) + 1 - p)
         \/ c = Here(ch) - (Len(t) - p) /\ TypeOf(s) \in LateSigns
  PROVE  /\ Token(TypeOf(s), ValOf(s), row, c) \in Tokens
         /\ Told(Append(t, ch), Append(toks, Token(TypeOf(s), ValOf(s), row, c)),
                 rep \o About(s, Token(TypeOf(s), ValOf(s), row, c)), p + n)
<1> DEFINE v == Append(t, ch)
           tok == Token(TypeOf(s), ValOf(s), row, c)
<1>1. /\ v \in Seq(Chars) /\ Len(v) = Len(t) + 1 /\ Len(t) \in Nat
  BY ExtendsIs
<1>2. p \in 1..(Len(t) + 2)
  BY <1>1 DEF Told
<1>3. p \in Nat \ {0} /\ p + n - 1 <= Len(v) /\ p \in 1..(Len(t) + 1) /\ p \in 1..Len(v)
  BY <1>1, <1>2
<1>4. /\ row = RowOf(v, p) /\ row \in Nat \ {0} /\ Here(ch) \in Int
      /\ Shifted(v, c - ColOf(v, p), TypeOf(s))
  BY <1>3, PlaceHere
<1> HIDE DEF v
<1>5. s = Slice(v, p, n) /\ s \in Seq(Chars) /\ s # <<>>
  <2>1. s = Slice(v, p, n)
    BY DEF v
  <2>2. Slice(v, p, n) \in Seq(Chars) /\ Len(Slice(v, p, n)) = n
    BY <1>1, <1>3, SliceIs
  <2> QED BY <2>1, <2>2
<1>6. TypeOf(s) \in TokenTypes /\ ValOf(s) \in Seq(Chars) /\ c \in Int
  <2>1. TypeOf(s) \in TokenTypes /\ ValOf(s) \in Seq(Chars)
    BY <1>5, TokenIs
  <2>2. c \in Int
    BY <1>1, <1>3, <1>4
  <2> QED BY <2>1, <2>2
<1>7. tok \in Tokens
  BY <1>4, <1>6 DEF Token, Tokens, TokenSet
<1>8. /\ tok.type = TypeOf(s) /\ tok.val = ValOf(s) /\ tok.row = row /\ tok.col = c
  BY DEF Token
<1> HIDE DEF tok
<1>9. Agrees(v, [s |-> s, at |-> p], tok)
  BY <1>3, <1>4, <1>8 DEF Agrees
<1>a. Told(v, Append(toks, tok), rep \o About(s, tok), p + n)
  <2>1. Told(v, toks, rep, p) /\ CutIn(v, p, n)
    BY DEF v
  <2> QED BY <1>1, <1>3, <1>5, <1>7, <1>9, <2>1, ToldPiece
<1> QED BY <1>7, <1>a DEF v, tok

(***************************************************************************)
(* How a character goes on.                                                *)
(***************************************************************************)
LEMMA ToldTyped ==
  ASSUME NEW t, NEW toks, NEW rep, NEW p, Told(t, toks, rep, p)
  PROVE  toks \in Seq(Tokens) /\ rep \in Seq(ReportSet)
<1>1. PICK m \in Seq(PieceSet) : ToldAs(t, toks, rep, p, m)
  BY DEF Told
<1>2. Len(m) = Len(toks) /\ rep = Said(m, toks) /\ toks \in Seq(Tokens)
  BY <1>1 DEF ToldAs, Told
<1> QED BY <1>2, SaidIs

(* Sequences put together. *)
LEMMA Joins ==
  ASSUME NEW S, NEW a \in Seq(S), NEW b \in Seq(S), NEW c \in Seq(S), NEW x \in S
  PROVE  /\ a \o <<>> = a /\ <<>> \o a = a /\ a \o <<x>> = Append(a, x)
         /\ a \o Append(b, x) = Append(a \o b, x)
         /\ a \o (b \o c) = (a \o b) \o c
         /\ a \o b \in Seq(S) /\ Append(a, x) \in Seq(S) /\ <<x>> \in Seq(S)
  OBVIOUS

(* The fields of an effect. *)
LEMMA EffectIs ==
  ASSUME NEW s, NEW b, NEW made, NEW said
  PROVE  /\ Effect(s, b, made, said).state = s /\ Effect(s, b, made, said).buffer = b
         /\ Effect(s, b, made, said).made = made /\ Effect(s, b, made, said).said = said
BY DEF Effect

(* The character joins those in the buffer. *)
LEMMA ShiftGoes ==
  ASSUME NEW t \in Seq(Chars), NEW ch \in Chars \ {"nl"}, NEW toks, NEW rep, NEW p,
         Told(t, toks, rep, p), Waiting(t, p, buffer), NEW s \in Buffered,
         Shape(s, Append(buffer, ch))
  PROVE  Goes(t, ch, toks, rep, Shift(s, ch))
<1> DEFINE v == Append(t, ch)
           b == Append(buffer, ch)
           e == Shift(s, ch)
<1>1. /\ v \in Seq(Chars) /\ Len(v) = Len(t) + 1 /\ Len(t) \in Nat /\ v[Len(t) + 1] = ch
      /\ \A j \in 1..Len(t) : v[j] = t[j]
  BY ExtendsIs
<1>2. e.state = s /\ e.buffer = b /\ e.made = <<>> /\ e.said = <<>>
  BY DEF Shift, Go, Effect
<1>3. Told(v, toks \o <<>>, rep \o <<>>, p)
  <2>1. toks \in Seq(Tokens) /\ rep \in Seq(ReportSet)
    BY ToldTyped
  <2>2. toks \o <<>> = toks /\ rep \o <<>> = rep
    BY <2>1
  <2> QED BY <2>2, ToldGrows
<1>4. Waiting(v, p, b)
  <2>1. p \in 1..Len(t) /\ \A j \in p..Len(t) : t[j] # "nl"
    BY DEF Waiting
  <2> DEFINE n == Len(buffer)
  <2>2. /\ n \in Nat \ {0} /\ p + n = Len(t) + 1 /\ buffer \in Seq(Chars)
        /\ \A k \in 1..n : v[p + k - 1] = buffer[k]
    <3>1. Extends(v, v)
      BY <1>1 DEF Extends
    <3> HIDE DEF v
    <3>2. Extends(v, Append(t, ch))
      BY <3>1 DEF v
    <3> QED BY <1>1, <3>2, Ahead
  <2>3. b \in Seq(Chars) /\ Len(b) = n + 1 /\ \A k \in 1..n : b[k] = buffer[k]
    BY <2>2
  <2>a. b[n + 1] = ch
    BY <2>2
  <2> HIDE DEF v, b, n
  <2>4. p \in Nat \ {0} /\ n + 1 \in Nat /\ p + (n + 1) - 1 <= Len(v) /\ Len(v) - p + 1 = n + 1
    <3>1. p \in Nat \ {0} /\ n \in Nat /\ p + n = Len(t) + 1 /\ Len(v) = Len(t) + 1
          /\ Len(t) \in Nat
      BY <1>1, <2>1, <2>2
    <3> QED BY ONLY <3>1
  <2> DEFINE m == n + 1
             x == Slice(v, p, m)
  <2> HIDE DEF m
  <2>5. x \in Seq(Chars) /\ Len(x) = m /\ \A k \in 1..m : x[k] = v[p + k - 1]
    <3>1. m \in Nat /\ p + m - 1 <= Len(v)
      BY <2>4 DEF m
    <3> QED BY <1>1, <2>4, <3>1, SliceIs
  <2> HIDE DEF x
  <2>6. \A k \in 1..m : x[k] = b[k]
    <3> SUFFICES ASSUME NEW k \in 1..m PROVE x[k] = b[k]
      OBVIOUS
    <3>1. CASE k = m
      <4>1. p + k - 1 = Len(t) + 1 /\ k = n + 1
        BY <2>2, <3>1 DEF m
      <4> QED BY <1>1, <2>a, <2>5, <4>1
    <3>2. CASE k # m
      <4>1. k \in 1..n
        BY <2>2, <3>2 DEF m
      <4> QED BY <2>2, <2>3, <2>5, <4>1
    <3> QED BY <3>1, <3>2
  <2>7. x = b
    <3>1. Len(x) = Len(b) /\ \A k \in 1..Len(x) : x[k] = b[k]
      BY <2>3, <2>5, <2>6 DEF m
    <3> QED BY <2>3, <2>5, <3>1, SeqEqual
  <2>8. \A j \in p..Len(v) : v[j] # "nl"
    <3>1. \A j \in p..Len(v) : j = Len(t) + 1 \/ (j \in p..Len(t) /\ j \in 1..Len(t))
      BY <1>1, <2>1
    <3> QED BY <1>1, <2>1, <3>1
  <2>9. p \in 1..Len(v) /\ b = Slice(v, p, Len(v) - p + 1)
    BY <1>1, <2>1, <2>4, <2>7 DEF x, m
  <2> QED BY <2>8, <2>9 DEF Waiting
<1>5. Pending(v, p, s, b)
  BY <1>4 DEF Pending, Buffered, Quiet
<1>6. p \in 1..(Len(t) + 2)
  BY <1>1 DEF Told
<1> HIDE DEF v, e, b
<1>7. Told(v, toks \o e.made, rep \o e.said, p) /\ Pending(v, p, e.state, e.buffer)
  BY <1>2, <1>3, <1>5
<1> QED BY <1>6, <1>7 DEF Goes, v, e

(* Nothing is left. *)
LEMMA DoneGoes ==
  ASSUME NEW t \in Seq(Chars), NEW ch \in Chars, NEW toks, NEW rep, NEW made, NEW said,
         Told(Append(t, ch), toks \o made, rep \o said, Len(t) + 2)
  PROVE  Goes(t, ch, toks, rep, Effect("START", <<>>, made, said))
<1> DEFINE v == Append(t, ch)
           e == Effect("START", <<>>, made, said)
<1>1. Len(v) = Len(t) + 1 /\ Len(t) \in Nat
  BY ExtendsIs
<1>2. e.state = "START" /\ e.buffer = <<>> /\ e.made = made /\ e.said = said
  BY EffectIs
<1>3. Pending(v, Len(t) + 2, "START", <<>>)
  <2>1. "START" \notin Buffered /\ "START" \notin Quiet \ {"START"} /\ Len(t) + 2 = Len(v) + 1
    BY <1>1 DEF Buffered, Quiet
  <2> HIDE DEF v
  <2> QED BY <2>1 DEF Pending
<1>4. Len(t) + 2 \in 1..(Len(t) + 2)
  BY <1>1
<1> HIDE DEF v, e
<1>5. Told(v, toks \o e.made, rep \o e.said, Len(t) + 2)
  BY <1>2 DEF v
<1>6. Pending(v, Len(t) + 2, e.state, e.buffer)
  BY <1>2, <1>3
<1> QED BY <1>4, <1>5, <1>6 DEF Goes, v, e

(* What is made before comes first. *)
LEMMA FlushIs ==
  ASSUME NEW made, NEW said, NEW ch, NEW s, NEW b, NEW m, NEW r,
         FromStart(ch) = Effect(s, b, m, r)
  PROVE  Flush(made, said, ch) = Effect(s, b, made \o m, said \o r)
<1> DEFINE e == Effect(s, b, m, r)
<1>1. Flush(made, said, ch) = [e EXCEPT !.made = made \o e.made, !.said = said \o e.said]
  BY DEF Flush
<1>2. /\ DOMAIN e = {"state", "buffer", "made", "said"}
      /\ e.state = s /\ e.buffer = b /\ e.made = m /\ e.said = r
  BY DEF Effect
<1> DEFINE x == made \o m
           y == said \o r
<1>3. Flush(made, said, ch) = [e EXCEPT !.made = x, !.said = y]
  BY <1>1, <1>2
<1> HIDE DEF x, y
<1>4. Flush(made, said, ch) = Effect(s, b, x, y)
  BY <1>3 DEF Effect
<1> QED BY <1>4 DEF x, y

(* The first character of a piece. *)
LEMMA FirstIs ==
  ASSUME NEW ch \in Chars \ {"cr"}
  PROVE  \/ ch \in Blanks /\ FromStart(ch) = Effect("START", <<>>, <<>>, <<>>)
         \/ /\ ch \in DOMAIN Lone
            /\ FromStart(ch) = Effect("START", <<>>, <<Token(Lone[ch], <<>>, row, Here(ch))>>, <<>>)
         \/ /\ ch # "nl"
            /\ \E s \in Buffered : FromStart(ch) = Effect(s, <<ch>>, <<>>, <<>>) /\ Shape(s, <<ch>>)
<1> DEFINE b == <<ch>>
<1>0. b \in Seq(Chars) /\ Len(b) = 1 /\ b[1] = ch /\ b # <<>>
  OBVIOUS
<1>b. {"NUM", "ALPHANUM", "PRE_EQUAL", "LESS", "GRTR", "EXCLM", "STRING", "SLASH", "ERROR"}
        \subseteq Buffered
  BY DEF Buffered, States, Quiet
<1>c. \A j \in 1..Len(b) : b[j] = ch
  BY <1>0
<1>d. DOMAIN b = 1..Len(b)
  BY <1>0
<1>e. \A j \in 2..Len(b) : FALSE
  BY <1>0
<1>f. DOMAIN Lone = {";", ".", "("}
  BY DEF Lone
<1> HIDE DEF b
<1>1. CASE ch \in Blanks
  <2>1. ch \notin Letters \cup Digits \cup DOMAIN Lone \cup Signs \cup {"q"}
    BY <1>1, <1>f DEF Blanks, Digits, Letters, Lower, Signs
  <2> QED BY <1>1, <2>1 DEF FromStart, Go, Signs
<1>2. CASE ch \in DOMAIN Lone
  <2>1. ch \notin Blanks \cup Digits \cup Letters \cup Signs \cup {"q"}
    BY <1>2, <1>f DEF Blanks, Digits, Letters, Lower, Signs
  <2> QED BY <1>2, <2>1 DEF FromStart, Made, Signs
<1>3. CASE ch \in Digits
  <2>1. /\ ch \notin Blanks \cup Letters \cup DOMAIN Lone \cup Signs \cup {"q"}
        /\ ch # "nl"
    BY <1>3, <1>f DEF Blanks, Digits, Letters, Lower, Signs
  <2>2. FromStart(ch) = Effect("NUM", b, <<>>, <<>>)
    BY <1>3, <2>1 DEF FromStart, Go, b, Signs
  <2>3. IsDigits(b)
    BY <1>0, <1>3, <1>c, <1>d DEF IsDigits, OnlyOf
  <2>4. Shape("NUM", b)
    BY <2>3 DEF Shape
  <2> QED BY <1>b, <2>1, <2>2, <2>4 DEF b
<1>4. CASE ch \in Letters
  <2>1. /\ ch \notin Blanks \cup Digits \cup DOMAIN Lone \cup Signs \cup {"q"}
        /\ ch # "nl"
    BY <1>4, <1>f DEF Blanks, Digits, Letters, Lower, Signs
  <2>2. FromStart(ch) = Effect("ALPHANUM", b, <<>>, <<>>)
    BY <1>4, <2>1 DEF FromStart, Go, b, Signs
  <2>3. IsWord(b)
    BY <1>0, <1>4, <1>c, <1>d DEF IsWord, OnlyOf
  <2>4. Shape("ALPHANUM", b)
    BY <2>3 DEF Shape
  <2> QED BY <1>b, <2>1, <2>2, <2>4 DEF b
<1>5. CASE ch \in Signs \cup {"q", "?"}
  <2>1. ch \notin Blanks \cup Digits \cup Letters \cup DOMAIN Lone /\ ch # "nl"
    BY <1>5, <1>f DEF Blanks, Digits, Letters, Lower, Signs
  <2>2. ch \in {"+", "-", "*", "="} => FromStart(ch) = Effect("PRE_EQUAL", b, <<>>, <<>>)
                                       /\ Shape("PRE_EQUAL", b)
    BY <1>0, <2>1 DEF FromStart, Go, b, Shape
  <2>3. ch = "<" => FromStart(ch) = Effect("LESS", b, <<>>, <<>>) /\ Shape("LESS", b)
    BY <1>0, <2>1 DEF FromStart, Go, b, Shape
  <2>4. ch = ">" => FromStart(ch) = Effect("GRTR", b, <<>>, <<>>) /\ Shape("GRTR", b)
    BY <1>0, <2>1 DEF FromStart, Go, b, Shape
  <2>5. ch = "!" => FromStart(ch) = Effect("EXCLM", b, <<>>, <<>>) /\ Shape("EXCLM", b)
    BY <1>0, <2>1 DEF FromStart, Go, b, Shape
  <2>6. ch = "q" => FromStart(ch) = Effect("STRING", b, <<>>, <<>>) /\ Shape("STRING", b)
    BY <1>0, <1>e, <2>1 DEF FromStart, Go, b, Shape
  <2>7. ch = "/" => FromStart(ch) = Effect("SLASH", b, <<>>, <<>>) /\ Shape("SLASH", b)
    BY <1>0, <2>1 DEF FromStart, Go, b, Shape
  <2>8. ch = "?" => FromStart(ch) = Effect("ERROR", b, <<>>, <<>>) /\ Shape("ERROR", b)
    BY <1>0, <1>e, <2>1 DEF FromStart, Go, b, Shape
  <2>9. \/ ch \in {"+", "-", "*", "="} \/ ch = "<" \/ ch = ">" \/ ch = "!" \/ ch = "q"
        \/ ch = "/" \/ ch = "?"
    BY <1>5 DEF Signs
  <2> QED BY <1>b, <2>1, <2>2, <2>3, <2>4, <2>5, <2>6, <2>7, <2>8, <2>9 DEF b
<1>6. ch \in Blanks \cup DOMAIN Lone \cup Digits \cup Letters \cup (Signs \cup {"q", "?"})
  BY DEF Chars
<1> QED BY <1>1, <1>2, <1>3, <1>4, <1>5, <1>6

(* A step that returns to the start of a piece with the character. *)
LEMMA FlushGoes ==
  ASSUME NEW t \in Seq(Chars), Placed(t), NEW ch \in Chars \ {"cr"}, NEW toks, NEW rep,
         toks \in Seq(Tokens), rep \in Seq(ReportSet),
         NEW made \in Seq(Tokens), NEW said \in Seq(ReportSet),
         Told(Append(t, ch), toks \o made, rep \o said, Len(t) + 1)
  PROVE  Goes(t, ch, toks, rep, Flush(made, said, ch))
<1> DEFINE v == Append(t, ch)
           p == Len(t) + 1
           tt == toks \o made
           rr == rep \o said
<1>1. /\ v \in Seq(Chars) /\ Len(v) = Len(t) + 1 /\ Len(t) \in Nat /\ v[Len(t) + 1] = ch
      /\ \A u \in Seq(Chars) : Extends(u, v) => Len(v) <= Len(u) /\ u[p] = ch /\ p \in 1..Len(u)
  <2>1. /\ v \in Seq(Chars) /\ Len(v) = Len(t) + 1 /\ Len(t) \in Nat /\ v[Len(t) + 1] = ch
    BY ExtendsIs
  <2> HIDE DEF v
  <2>2. p \in 1..Len(v)
    BY <2>1
  <2>3. ASSUME NEW u \in Seq(Chars), Extends(u, v)
        PROVE  Len(v) <= Len(u) /\ u[p] = ch /\ p \in 1..Len(u)
    <3>1. Len(v) <= Len(u) /\ u[p] = v[p]
      BY <2>2, <2>3 DEF Extends
    <3> QED BY <2>1, <2>2, <3>1
  <2> QED BY <2>1, <2>3
<1>2. \A s, b, m, r : FromStart(ch) = Effect(s, b, m, r) =>
        Flush(made, said, ch) = Effect(s, b, made \o m, said \o r)
  BY FlushIs
<1>3. tt \in Seq(Tokens) /\ rr \in Seq(ReportSet) /\ made \o <<>> = made /\ said \o <<>> = said
  OBVIOUS
<1>4. CASE ch \in Blanks /\ FromStart(ch) = Effect("START", <<>>, <<>>, <<>>)
  <2>1. Flush(made, said, ch) = Effect("START", <<>>, made, said)
    BY <1>2, <1>3, <1>4
  <2>2. Told(v, tt, rr, p + 1)
    <3>1. Told(v, tt, rr, p) /\ p <= Len(v) /\ v[p] \in Blanks
      BY <1>1, <1>4
    <3> HIDE DEF v, tt, rr, p
    <3> QED BY <1>1, <3>1, ToldBlank
  <2>3. p + 1 = Len(t) + 2
    BY <1>1
  <2> HIDE DEF p
  <2>4. Told(Append(t, ch), toks \o made, rep \o said, Len(t) + 2)
    BY <2>2, <2>3
  <2> QED BY <2>1, <2>4, DoneGoes
<1>5. CASE /\ ch \in DOMAIN Lone
           /\ FromStart(ch) = Effect("START", <<>>, <<Token(Lone[ch], <<>>, row, Here(ch))>>, <<>>)
  <2> DEFINE s == Slice(v, p, 1)
             tok == Token(Lone[ch], <<>>, row, Here(ch))
  <2>1. Flush(made, said, ch) = Effect("START", <<>>, made \o <<tok>>, said)
    BY <1>2, <1>3, <1>5
  <2>2. CutIn(v, p, 1)
    BY <1>1, <1>5, LoneCut DEF CutIn
  <2>3. s \in Seq(Chars) /\ Len(s) = 1 /\ s # <<>> /\ s[1] = ch
    <3>1. p \in 1..Len(v) /\ 1 \in 1..(Len(v) - p + 1) /\ v[p] = ch /\ v \in Seq(Chars)
      BY <1>1
    <3> HIDE DEF v, p
    <3>2. /\ Slice(v, p, 1) \in Seq(Chars) /\ Len(Slice(v, p, 1)) = 1
          /\ Slice(v, p, 1) # <<>> /\ Slice(v, p, 1)[1] = v[p]
      BY ONLY <3>1, SliceAhead
    <3> QED BY <3>1, <3>2
  <2>4. OperatorOf(s) = Lone[ch] /\ Lone[ch] \in {"TSEMI", "TDOTT", "TLPAR"}
    <3>1. OperatorOf(s) = Lone[ch]
      BY <1>5, <2>3, SignIs
    <3>2. Lone[ch] \in {"TSEMI", "TDOTT", "TLPAR"}
      BY <1>5 DEF Lone
    <3> QED BY <3>1, <3>2
  <2>5. TypeOf(s) = Lone[ch] /\ ~IsQuoted(s) /\ ~IsWord(s)
    <3>1. s[1] # "q" /\ s[1] \notin Letters
      BY <1>5, <2>3 DEF Lone, Letters, Lower
    <3> QED BY <2>3, <2>4, <3>1, TypeIs, FirstDecides
  <2>6. ValOf(s) = <<>>
    BY <2>3, <2>4, <2>5, ValIs
  <2>7. About(s, tok) = <<>>
    BY <2>4, <2>5 DEF About
  <2>8. p + 1 = Len(t) + 2 /\ Here(ch) = Here(ch) - (Len(t) + 1 - p)
        /\ \A j \in p..Len(t) : t[j] # "nl"
    <3>1. Here(ch) \in Int
      <4>1. col \in Nat \ {0}
        <5>1. p \in Nat \ {0}
          BY <1>1
        <5> QED BY <5>1, ColNext DEF Placed
      <4> QED BY <4>1 DEF Here
    <3> QED BY <1>1, <3>1
  <2>9. Told(v, tt, rr, p) /\ 1 \in Nat \ {0} /\ p + 1 <= Len(t) + 2
    BY <2>8
  <2>a. /\ tok \in Tokens
        /\ Told(v, Append(tt, tok), rr \o About(s, tok), p + 1)
    <3>1. tok = Token(TypeOf(s), ValOf(s), row, Here(ch))
      BY <2>5, <2>6
    <3> HIDE DEF tok, tt, rr, p, s, Placed, CutIn
    <3>2. s = Slice(Append(t, ch), p, 1)
      BY DEF s
    <3>3. Told(Append(t, ch), tt, rr, p) /\ CutIn(Append(t, ch), p, 1)
      BY <2>2, <2>9
    <3> HIDE DEF v
    <3>4. /\ tok \in Tokens
          /\ Told(Append(t, ch), Append(tt, tok), rr \o About(s, tok), p + 1)
      BY <2>8, <2>9, <3>1, <3>2, <3>3, TokenHere
    <3> QED BY <3>4 DEF v
  <2>b. Append(tt, tok) = toks \o (made \o <<tok>>) /\ rr \o <<>> = rr
    <3> HIDE DEF tok
    <3>1. made \o <<tok>> = Append(made, tok) /\ rr \o <<>> = rr
      BY <1>3, <2>a
    <3>2. toks \o Append(made, tok) = Append(toks \o made, tok)
      BY <2>a, Joins
    <3> QED BY <3>1, <3>2
  <2>c. Told(Append(t, ch), toks \o (made \o <<tok>>), rep \o said, Len(t) + 2)
    <3> HIDE DEF tok, p
    <3>1. Told(v, Append(tt, tok), rr, p + 1)
      BY <2>7, <2>a, <2>b
    <3> QED BY <2>8, <2>b, <3>1
  <2> QED BY <2>1, <2>c, DoneGoes
<1>6. CASE /\ ch # "nl"
           /\ \E s \in Buffered : FromStart(ch) = Effect(s, <<ch>>, <<>>, <<>>) /\ Shape(s, <<ch>>)
  <2>1. PICK s \in Buffered : FromStart(ch) = Effect(s, <<ch>>, <<>>, <<>>) /\ Shape(s, <<ch>>)
    BY <1>6
  <2> DEFINE b == <<ch>>
             e == Effect(s, b, made, said)
  <2>2. Flush(made, said, ch) = e
    BY <1>2, <1>3, <2>1
  <2>3. Waiting(v, p, b)
    <3>1. p \in 1..Len(v) /\ Len(v) - p + 1 = 1 /\ 1 \in 1..(Len(v) - p + 1)
      BY <1>1
    <3>2. Slice(v, p, 1) \in Seq(Chars) /\ Len(Slice(v, p, 1)) = 1 /\ Slice(v, p, 1)[1] = ch
      <4>1. v[p] = ch /\ v \in Seq(Chars)
        BY <1>1
      <4> HIDE DEF v, p
      <4> QED BY <3>1, <4>1, SliceAhead
    <3>3. Slice(v, p, 1) = b
      BY <3>2
    <3>4. \A j \in p..Len(v) : j = p
      BY <1>1
    <3> HIDE DEF b
    <3> QED BY <1>1, <1>6, <3>1, <3>3, <3>4 DEF Waiting
  <2>4. Pending(v, p, s, b)
    <3> HIDE DEF b, v, p
    <3>1. Shape(s, b)
      BY <2>1 DEF b
    <3> QED BY <2>3, <3>1 DEF Pending, Buffered, Quiet
  <2>5. e.state = s /\ e.buffer = b /\ e.made = made /\ e.said = said
    BY EffectIs
  <2>6. p \in 1..(Len(t) + 2)
    BY <1>1
  <2> HIDE DEF e, b
  <2>7. Told(v, toks \o e.made, rep \o e.said, p) /\ Pending(v, p, e.state, e.buffer)
    BY <2>4, <2>5
  <2>8. Goes(t, ch, toks, rep, e)
    BY <2>6, <2>7 DEF Goes
  <2> QED BY <2>2, <2>8
<1> HIDE DEF v, p, tt, rr
<1> QED BY <1>4, <1>5, <1>6, FirstIs

(* The characters that wait are a piece, *)
LEMMA OneGoes ==
  ASSUME NEW t \in Seq(Chars), Placed(t), NEW ch \in Chars \ {"cr"}, NEW toks, NEW rep, NEW p,
         Told(t, toks, rep, p), Waiting(t, p, buffer), CutIn(Append(t, ch), p, Len(buffer)),
         NEW c, \/ c = Back(ch)
                \/ c = Back(ch) + 1 /\ TypeOf(buffer) \in LateSigns,
         NEW tok, tok = Token(TypeOf(buffer), ValOf(buffer), row, c)
  PROVE  Goes(t, ch, toks, rep, Flush(<<tok>>, About(buffer, tok), ch))
<1> DEFINE v == Append(t, ch)
           n == Len(buffer)
           said == About(buffer, tok)
<1>1. /\ Len(buffer) \in Nat \ {0} /\ p + Len(buffer) = Len(t) + 1 /\ Len(t) \in Nat
      /\ Slice(Append(t, ch), p, Len(buffer)) = buffer /\ p \in Int
  BY WaitIs
<1>2. /\ n \in Nat \ {0} /\ p + n = Len(t) + 1 /\ Slice(v, p, n) = buffer /\ Len(t) \in Nat
  BY <1>1
<1>3. p \in 1..Len(t) /\ \A j \in p..Len(t) : t[j] # "nl"
  BY DEF Waiting
<1>4. toks \in Seq(Tokens) /\ rep \in Seq(ReportSet) /\ Told(v, toks, rep, p)
  BY ToldTyped, ToldGrows
<1>5. \/ c = Here(ch) - (Len(t) + 1 - p)
      \/ c = Here(ch) - (Len(t) - p) /\ TypeOf(buffer) \in LateSigns
  <2>1. Here(ch) \in Int
    BY <1>3, PlaceHere
  <2> HIDE DEF v
  <2>2. Back(ch) = Here(ch) - (Len(t) + 1 - p) /\ Back(ch) + 1 = Here(ch) - (Len(t) - p)
    <3>1. n = Len(t) + 1 - p /\ p \in Int
      BY <1>2, <1>3
    <3> QED BY <1>2, <2>1, <3>1 DEF Back
  <2> QED BY <2>2
<1>6. tok \in Tokens /\ Told(v, Append(toks, tok), rep \o said, p + n)
  <2>1. p + n <= Len(t) + 2 /\ buffer = Slice(Append(t, ch), p, n)
    BY <1>2
  <2>2. Told(Append(t, ch), toks, rep, p)
    BY <1>4
  <2> HIDE DEF v, n, said
  <2>3. CutIn(Append(t, ch), p, n)
    BY DEF n
  <2>4. tok \in Tokens /\ Told(Append(t, ch), Append(toks, tok), rep \o About(buffer, tok), p + n)
    BY <1>2, <1>3, <1>5, <2>1, <2>2, <2>3, TokenHere
  <2> QED BY <2>4 DEF v, said
<1>7. said \in Seq(ReportSet)
  BY <1>6, AboutIs
<1>8. toks \o <<tok>> = Append(toks, tok) /\ <<tok>> \in Seq(Tokens)
  BY <1>4, <1>6
<1> DEFINE made == <<tok>>
<1> HIDE DEF said, made
<1>9. Told(Append(t, ch), toks \o made, rep \o said, Len(t) + 1)
  BY <1>2, <1>6, <1>8 DEF made
<1>a. made \in Seq(Tokens)
  BY <1>8 DEF made
<1>b. Goes(t, ch, toks, rep, Flush(made, said, ch))
  BY <1>4, <1>7, <1>9, <1>a, FlushGoes
<1> QED BY <1>b DEF made, said

(* or two, of which the second is one sign, *)
LEMMA TwoGoes ==
  ASSUME NEW t \in Seq(Chars), Placed(t), NEW ch \in Chars \ {"cr"}, NEW toks, NEW rep, NEW p,
         Told(t, toks, rep, p), Waiting(t, p, buffer),
         NEW n \in Nat \ {0}, n = Len(buffer) - 1,
         CutIn(Append(t, ch), p, n), CutIn(Append(t, ch), p + n, 1),
         NEW s1, s1 = Slice(Append(t, ch), p, n), NEW s2, s2 = Slice(Append(t, ch), p + n, 1),
         NEW c, \/ c = Back(ch)
                \/ c = Back(ch) + 1 /\ TypeOf(s1) \in LateSigns,
         TypeOf(s2) \in LateSigns,
         NEW tok1, tok1 = Token(TypeOf(s1), ValOf(s1), row, c),
         NEW tok2, tok2 = Token(TypeOf(s2), ValOf(s2), row, Here(ch))
  PROVE  Goes(t, ch, toks, rep,
              Flush(<<tok1, tok2>>, About(s1, tok1) \o About(s2, tok2), ch))
<1> DEFINE v == Append(t, ch)
           said1 == About(s1, tok1)
           said2 == About(s2, tok2)
<1>1. /\ Len(buffer) \in Nat \ {0} /\ p + Len(buffer) = Len(t) + 1 /\ Len(t) \in Nat
      /\ Slice(Append(t, ch), p, Len(buffer)) = buffer /\ p \in Int
  BY WaitIs
<1>2. /\ Len(buffer) = n + 1 /\ p + Len(buffer) = Len(t) + 1 /\ Len(t) \in Nat
  BY <1>1
<1>3. p \in 1..Len(t) /\ \A j \in p..Len(t) : t[j] # "nl"
  BY DEF Waiting
<1>4. toks \in Seq(Tokens) /\ rep \in Seq(ReportSet) /\ Told(v, toks, rep, p)
  BY ToldTyped, ToldGrows
<1>h. Here(ch) \in Int
  BY <1>3, PlaceHere
<1>5. \/ c = Here(ch) - (Len(t) + 1 - p)
      \/ c = Here(ch) - (Len(t) - p) /\ TypeOf(s1) \in LateSigns
  <2> HIDE DEF v
  <2>2. Back(ch) = Here(ch) - (Len(t) + 1 - p) /\ Back(ch) + 1 = Here(ch) - (Len(t) - p)
    <3>1. n + 1 = Len(t) + 1 - p /\ p \in Int
      BY <1>2, <1>3
    <3> QED BY <1>2, <1>h, <3>1 DEF Back
  <2> QED BY <2>2
<1>6. tok1 \in Tokens /\ Told(v, Append(toks, tok1), rep \o said1, p + n)
  <2>1. p + n <= Len(t) + 2
    BY <1>2, <1>3
  <2>2. Told(Append(t, ch), toks, rep, p)
    BY <1>4
  <2> HIDE DEF v, said1
  <2>4. tok1 \in Tokens /\ Told(Append(t, ch), Append(toks, tok1), rep \o About(s1, tok1), p + n)
    BY <1>2, <1>3, <1>5, <2>1, <2>2, TokenHere
  <2> QED BY <2>4 DEF v, said1
<1> DEFINE toks1 == Append(toks, tok1)
           rep1 == rep \o said1
           q == p + n
<1>q. q \in 1..Len(t) /\ q = Len(t) /\ Len(t) - q = 0 /\ q + 1 = Len(t) + 1
  BY <1>2, <1>3
<1>7. tok2 \in Tokens /\ Told(v, Append(toks1, tok2), rep1 \o said2, q + 1)
  <2>1. q + 1 <= Len(t) + 2 /\ 1 \in Nat \ {0} /\ \A j \in q..Len(t) : t[j] # "nl"
    BY <1>q, <1>3
  <2>2. Here(ch) = Here(ch) - (Len(t) - q)
    BY <1>q, <1>h
  <2>3. Told(Append(t, ch), toks1, rep1, q) /\ CutIn(Append(t, ch), q, 1)
        /\ s2 = Slice(Append(t, ch), q, 1)
    BY <1>6
  <2> HIDE DEF v, said2, toks1, rep1, q
  <2>4. tok2 \in Tokens
        /\ Told(Append(t, ch), Append(toks1, tok2), rep1 \o About(s2, tok2), q + 1)
    BY <2>1, <2>2, <2>3, TokenHere
  <2> QED BY <2>4 DEF v, said2
<1>8. said1 \in Seq(ReportSet) /\ said2 \in Seq(ReportSet)
  BY <1>6, <1>7, AboutIs
<1> DEFINE made == <<tok1, tok2>>
           said == said1 \o said2
<1>9. toks \o made = Append(toks1, tok2) /\ made \in Seq(Tokens)
  BY <1>4, <1>6, <1>7
<1>a. rep \o said = rep1 \o said2 /\ said \in Seq(ReportSet)
  <2> HIDE DEF said1, said2
  <2>1. rep \o (said1 \o said2) = (rep \o said1) \o said2 /\ said1 \o said2 \in Seq(ReportSet)
    BY ONLY <1>4, <1>8
  <2> QED BY <2>1
<1> HIDE DEF said, made, said1, said2, toks1, rep1
<1>b. Told(Append(t, ch), toks \o made, rep \o said, Len(t) + 1)
  BY <1>7, <1>9, <1>a, <1>q
<1>c. Goes(t, ch, toks, rep, Flush(made, said, ch))
  BY <1>4, <1>9, <1>a, <1>b, FlushGoes
<1> QED BY <1>c DEF made, said, said1, said2

(* or a piece together with the character. *)
LEMMA FullGoes ==
  ASSUME NEW t \in Seq(Chars), Placed(t), NEW ch \in Chars, NEW toks, NEW rep, NEW p,
         Told(t, toks, rep, p), Waiting(t, p, buffer),
         CutIn(Append(t, ch), p, Len(buffer) + 1),
         NEW s, s = Slice(Append(t, ch), p, Len(buffer) + 1), TypeOf(s) # "TUNDF", ~IsWord(s),
         NEW tok, tok = Token(TypeOf(s), ValOf(s), row, Back(ch))
  PROVE  Goes(t, ch, toks, rep, Made(tok))
<1> DEFINE v == Append(t, ch)
           n == Len(buffer) + 1
<1>1. /\ Len(buffer) \in Nat \ {0} /\ p + Len(buffer) = Len(t) + 1 /\ Len(t) \in Nat
      /\ Slice(Append(t, ch), p, Len(buffer)) = buffer /\ p \in Int
  BY WaitIs
<1>2. /\ n \in Nat \ {0} /\ p + n = Len(t) + 2 /\ Len(t) \in Nat
  BY <1>1
<1>3. p \in 1..Len(t) /\ \A j \in p..Len(t) : t[j] # "nl"
  BY DEF Waiting
<1>4. toks \in Seq(Tokens) /\ rep \in Seq(ReportSet) /\ Told(v, toks, rep, p)
  BY ToldTyped, ToldGrows
<1>5. Back(ch) = Here(ch) - (Len(t) + 1 - p)
  <2>1. Here(ch) \in Int
    BY <1>3, PlaceHere
  <2>2. Len(buffer) = Len(t) + 1 - p
    BY <1>1
  <2> QED BY <2>1, <2>2 DEF Back
<1>6. tok \in Tokens /\ Told(v, Append(toks, tok), rep \o About(s, tok), p + n)
  <2>1. p + n <= Len(t) + 2
    BY <1>2
  <2>2. Told(Append(t, ch), toks, rep, p) /\ CutIn(Append(t, ch), p, n)
        /\ s = Slice(Append(t, ch), p, n)
    BY <1>4
  <2> HIDE DEF v, n
  <2>4. tok \in Tokens /\ Told(Append(t, ch), Append(toks, tok), rep \o About(s, tok), p + n)
    BY <1>2, <1>3, <1>5, <2>1, <2>2, TokenHere
  <2> QED BY <2>4 DEF v
<1>7. About(s, tok) = <<>> /\ rep \o <<>> = rep
  BY <1>4 DEF About
<1>8. toks \o <<tok>> = Append(toks, tok)
  BY <1>4, <1>6
<1> HIDE DEF n
<1>9. Told(Append(t, ch), toks \o <<tok>>, rep \o <<>>, Len(t) + 2)
  BY <1>2, <1>6, <1>7, <1>8
<1>a. Goes(t, ch, toks, rep, Effect("START", <<>>, <<tok>>, <<>>))
  BY <1>9, DoneGoes
<1> QED BY <1>a DEF Made

(***************************************************************************)
(* State by state.                                                         *)
(***************************************************************************)
(* What a state finds when it reads ch: the file holds t so far. *)
Reader(t, ch, toks, rep, p, s) ==
  /\ t \in Seq(Chars) /\ Placed(t) /\ ch \in Chars \ {"cr"}
  /\ Told(t, toks, rep, p) /\ Pending(t, p, s, buffer) /\ ~OddIn(Append(t, ch))

(* With something in the buffer, it is the end of the text. *)
LEMMA ReaderWaits ==
  ASSUME NEW t, NEW ch, NEW toks, NEW rep, NEW p, NEW s \in Buffered,
         Reader(t, ch, toks, rep, p, s)
  PROVE  /\ t \in Seq(Chars) /\ Placed(t) /\ ch \in Chars /\ ch # "cr" /\ ch \in Chars \ {"cr"}
         /\ Told(t, toks, rep, p) /\ Waiting(t, p, buffer) /\ Shape(s, buffer)
         /\ ~OddIn(Append(t, ch))
BY DEF Reader, Pending

(* One more character in the buffer. *)
LEMMA Appended ==
  ASSUME NEW b \in Seq(Chars), NEW ch \in Chars
  PROVE  /\ Append(b, ch) \in Seq(Chars) /\ Len(Append(b, ch)) = Len(b) + 1
         /\ Append(b, ch)[Len(b) + 1] = ch /\ \A j \in 1..Len(b) : Append(b, ch)[j] = b[j]
         /\ Append(b, ch) # <<>> /\ Len(b) \in Nat
         /\ \A j \in 1..(Len(b) + 1) : j \in 1..Len(b) \/ j = Len(b) + 1
<1> DEFINE x == Append(b, ch)
<1>1. /\ x \in Seq(Chars) /\ Len(x) = Len(b) + 1 /\ Len(b) \in Nat
      /\ x[Len(b) + 1] = ch /\ \A j \in 1..Len(b) : x[j] = b[j]
  OBVIOUS
<1> HIDE DEF x
<1>2. x # <<>>
  BY <1>1
<1>3. \A j \in 1..(Len(b) + 1) : j \in 1..Len(b) \/ j = Len(b) + 1
  BY <1>1
<1> QED BY <1>1, <1>2, <1>3 DEF x

(* Tokens of signs are never reported. *)
LEMMA SignToken ==
  ASSUME NEW s \in Seq(Chars), s # <<>>, OperatorOf(s) # "none"
  PROVE  /\ TypeOf(s) = OperatorOf(s) /\ ValOf(s) = <<>> /\ ~IsWord(s) /\ ~IsQuoted(s)
         /\ TypeOf(s) # "TUNDF" /\ \A tok : About(s, tok) = <<>>
<1>1. TypeOf(s) = OperatorOf(s)
  BY TypeIs
<1>2. OperatorOf(s) \notin {"TUNDF", "TIDEN", "TILIT", "TFLIT"}
  <2>1. DOMAIN BeforeEqual = Signs /\ DOMAIN Twice = {"<", ">"}
    BY DEF BeforeEqual, Twice
  <2> QED BY <2>1, SignNames DEF OperatorOf
<1>3. ~IsWord(s) /\ ~IsQuoted(s)
  <2>1. s[1] \in Signs \cup DOMAIN Lone
    BY FirstDecides
  <2>2. s[1] \notin Letters \cup {"q"}
    BY <2>1 DEF Letters, Lower, Signs, Lone
  <2> QED BY <2>2, FirstDecides
<1>4. ValOf(s) = <<>>
  BY <1>1, <1>2, <1>3, ValIs
<1>5. \A tok : About(s, tok) = <<>>
  BY <1>1, <1>2, <1>3 DEF About
<1> QED BY <1>1, <1>2, <1>3, <1>4, <1>5

(* A numeral makes the token it means. *)
LEMMA NumeralIs ==
  ASSUME NEW s \in Seq(Chars), s # <<>>, NEW type, NEW c,
         (IsDigits(s) /\ type = "TILIT") \/ (IsReal(s) /\ type = "TFLIT")
  PROVE  /\ Numeral(type, s, c).made = <<Token(TypeOf(s), ValOf(s), row, c)>>
         /\ Numeral(type, s, c).said = About(s, Token(TypeOf(s), ValOf(s), row, c))
<1>1. TypeOf(s) = IF Fits(s) THEN type ELSE "TUNDF"
  BY TypeIs
<1>2. ValOf(s) = s
  BY <1>1, ValIs
<1>3. ~IsWord(s)
  <2>1. s[1] \in Digits
    BY FirstDecides
  <2>2. s[1] \notin Letters
    BY <2>1 DEF Digits, Letters, Lower
  <2> QED BY <2>2, FirstDecides
<1> DEFINE tok == Token(TypeOf(s), s, row, c)
<1>4. tok.row = row /\ tok.col = c
  BY DEF Token
<1>5. CASE Fits(s)
  <2>1. TypeOf(s) = type /\ type # "TUNDF"
    BY <1>1, <1>5
  <2>2. About(s, tok) = <<>>
    BY <1>3, <2>1 DEF About
  <2>3. Numeral(type, s, c) = [made |-> <<tok>>, said |-> <<>>]
    BY <1>5, <2>1 DEF Numeral, Fits
  <2> HIDE DEF tok
  <2>4. Numeral(type, s, c).made = <<tok>> /\ Numeral(type, s, c).said = <<>>
    BY <2>3
  <2> QED BY <1>2, <2>2, <2>4 DEF tok
<1>6. CASE ~Fits(s)
  <2>1. TypeOf(s) = "TUNDF"
    BY <1>1, <1>6
  <2>2. About(s, tok) = <<Report("error", row, c)>>
    <3> HIDE DEF tok
    <3> QED BY <1>4, <2>1 DEF About
  <2> DEFINE r == <<Report("error", row, c)>>
  <2>3. Numeral(type, s, c) = [made |-> <<tok>>, said |-> r]
    BY <1>6, <2>1 DEF Numeral, Fits
  <2> HIDE DEF tok, r
  <2>4. Numeral(type, s, c).made = <<tok>> /\ Numeral(type, s, c).said = r
    BY <2>3
  <2> QED BY <1>2, <2>2, <2>4 DEF tok, r
<1> QED BY <1>5, <1>6

(* Nothing is in the buffer: the character begins something or is a blank. *)
LEMMA StartGoes ==
  ASSUME NEW t, NEW ch, NEW toks, NEW rep, NEW p, Reader(t, ch, toks, rep, p, "START")
  PROVE  Goes(t, ch, toks, rep, FromStart(ch))
<1>1. /\ t \in Seq(Chars) /\ Placed(t) /\ ch \in Chars \ {"cr"} /\ Told(t, toks, rep, p)
      /\ p = Len(t) + 1
  BY DEF Reader, Pending
<1>2. toks \in Seq(Tokens) /\ rep \in Seq(ReportSet) /\ Told(Append(t, ch), toks, rep, p)
  BY <1>1, ToldTyped, ToldGrows
<1> DEFINE e == <<>>
<1>3. toks \o e = toks /\ rep \o e = rep /\ e \in Seq(Tokens) /\ e \in Seq(ReportSet)
  BY <1>2
<1> HIDE DEF e
<1>4. Goes(t, ch, toks, rep, Flush(e, e, ch))
  <2>1. Told(Append(t, ch), toks \o e, rep \o e, Len(t) + 1)
    BY <1>1, <1>2, <1>3
  <2> QED BY <1>1, <1>2, <1>3, <2>1, FlushGoes
<1>5. ASSUME NEW s, NEW b, NEW m, FromStart(ch) = Effect(s, b, m, e), e \o m = m
      PROVE  Goes(t, ch, toks, rep, FromStart(ch))
  <2>1. Flush(e, e, ch) = Effect(s, b, e \o m, e \o e)
    <3>1. \A x, y, z, r : FromStart(ch) = Effect(x, y, z, r) =>
            Flush(e, e, ch) = Effect(x, y, e \o z, e \o r)
      BY FlushIs
    <3> QED BY <1>5, <3>1
  <2>2. e \o e = e
    BY <1>3
  <2> QED BY <1>4, <1>5, <2>1, <2>2
<1>6. CASE ch \in Blanks /\ FromStart(ch) = Effect("START", <<>>, <<>>, <<>>)
  BY <1>3, <1>5, <1>6 DEF e
<1> DEFINE x == <<Token(Lone[ch], <<>>, row, Here(ch))>>
<1>7. CASE ch \in DOMAIN Lone /\ FromStart(ch) = Effect("START", <<>>, x, <<>>)
  <2>1. <<>> \o x = x
    OBVIOUS
  <2> HIDE DEF x
  <2> QED BY <1>5, <1>7, <2>1 DEF e
<1>8. CASE ch # "nl" /\ \E s \in Buffered : FromStart(ch) = Effect(s, <<ch>>, <<>>, <<>>)
                                           /\ Shape(s, <<ch>>)
  <2>1. PICK s \in Buffered : FromStart(ch) = Effect(s, <<ch>>, <<>>, <<>>)
    BY <1>8
  <2> DEFINE b == <<ch>>
  <2>2. FromStart(ch) = Effect(s, b, e, e) /\ e \o e = e
    BY <1>3, <2>1 DEF e
  <2> HIDE DEF b
  <2> QED BY <1>5, <2>2
<1> QED BY <1>1, <1>6, <1>7, <1>8, FirstIs

(* Digits: one more, a dot that may begin a fraction, or the numeral is over. *)
LEMMA NumGoes ==
  ASSUME NEW t, NEW ch, NEW toks, NEW rep, NEW p, Reader(t, ch, toks, rep, p, "NUM")
  PROVE  Goes(t, ch, toks, rep, InNum(ch))
<1>0. "NUM" \in Buffered /\ "NUMDOT" \in Buffered
  BY DEF Buffered, States, Quiet
<1>1. /\ t \in Seq(Chars) /\ Placed(t) /\ ch \in Chars /\ ch # "cr" /\ ch \in Chars \ {"cr"}
      /\ Told(t, toks, rep, p) /\ Waiting(t, p, buffer) /\ IsDigits(buffer)
  BY <1>0, ReaderWaits DEF Shape
<1>2. /\ Len(buffer) \in Nat \ {0} /\ buffer \in Seq(Chars) /\ buffer # <<>>
      /\ DOMAIN buffer = 1..Len(buffer)
  BY <1>1, WaitIs
<1> DEFINE b == Append(buffer, ch)
<1>3. /\ b \in Seq(Chars) /\ Len(b) = Len(buffer) + 1 /\ b # <<>> /\ DOMAIN b = 1..Len(b)
      /\ b[Len(buffer) + 1] = ch /\ \A j \in 1..Len(buffer) : b[j] = buffer[j]
      /\ \A j \in 1..Len(b) : j \in 1..Len(buffer) \/ j = Len(buffer) + 1
  BY <1>1, <1>2, Appended
<1>4. \A j \in 1..Len(buffer) : b[j] \in Digits
  BY <1>1, <1>2, <1>3 DEF IsDigits, OnlyOf
<1>n. ch \in Digits \/ ch = "." => ch # "nl"
  BY DEF Digits
<1>5. CASE ch \in Digits
  <2> HIDE DEF b
  <2>1. IsDigits(b)
    BY <1>3, <1>4, <1>5 DEF IsDigits, OnlyOf
  <2>2. Shape("NUM", b)
    BY <2>1 DEF Shape
  <2>3. Goes(t, ch, toks, rep, Shift("NUM", ch))
    BY <1>0, <1>1, <1>5, <1>n, <2>2, ShiftGoes DEF b
  <2> QED BY <1>5, <2>3 DEF InNum
<1>6. CASE ch = "."
  <2> HIDE DEF b
  <2>1. Len(b) >= 2 /\ b[Len(b)] = "." /\ Len(b) - 1 = Len(buffer)
    BY <1>2, <1>3, <1>6
  <2>2. Shape("NUMDOT", b)
    BY <1>4, <2>1 DEF Shape
  <2>3. Goes(t, ch, toks, rep, Shift("NUMDOT", ch))
    BY <1>0, <1>1, <1>6, <1>n, <2>2, ShiftGoes DEF b
  <2>4. ch \notin Digits
    BY <1>6 DEF Digits
  <2> QED BY <1>6, <2>3, <2>4 DEF InNum
<1>7. CASE ch \notin Digits /\ ch # "."
  <2>1. CutIn(Append(t, ch), p, Len(buffer))
    <3> SUFFICES ASSUME NEW u \in Seq(Chars), Extends(u, Append(t, ch))
                 PROVE  Cut(u, p, Len(buffer))
      BY DEF CutIn
    <3>1. /\ p \in 1..Len(u) /\ p + Len(buffer) <= Len(u) /\ u[p + Len(buffer)] = ch
          /\ Slice(u, p, Len(buffer)) = buffer
      BY <1>1, Ahead
    <3> QED BY <1>1, <1>2, <1>7, <3>1, DigitsCut
  <2> DEFINE tok == Token(TypeOf(buffer), ValOf(buffer), row, Back(ch))
             said == About(buffer, tok)
  <2>2. /\ Numeral("TILIT", buffer, Back(ch)).made = <<tok>>
        /\ Numeral("TILIT", buffer, Back(ch)).said = said
    BY <1>1, <1>2, NumeralIs
  <2>3. InNum(ch) = Flush(<<tok>>, said, ch)
    BY <1>7, <2>2 DEF InNum
  <2> HIDE DEF tok
  <2>4. Goes(t, ch, toks, rep, Flush(<<tok>>, About(buffer, tok), ch))
    BY <1>1, <2>1, OneGoes DEF tok
  <2> QED BY <2>3, <2>4
<1> QED BY <1>5, <1>6, <1>7

(* A fraction: one more digit, or the numeral is over. *)
LEMMA FloatGoes ==
  ASSUME NEW t, NEW ch, NEW toks, NEW rep, NEW p, Reader(t, ch, toks, rep, p, "FLOAT")
  PROVE  Goes(t, ch, toks, rep, InFloat(ch))
<1>0. "FLOAT" \in Buffered
  BY DEF Buffered, States, Quiet
<1>1. /\ t \in Seq(Chars) /\ Placed(t) /\ ch \in Chars /\ ch # "cr" /\ ch \in Chars \ {"cr"}
      /\ Told(t, toks, rep, p) /\ Waiting(t, p, buffer) /\ IsReal(buffer)
  BY <1>0, ReaderWaits DEF Shape
<1>2. /\ Len(buffer) \in Nat \ {0} /\ buffer \in Seq(Chars) /\ buffer # <<>>
      /\ DOMAIN buffer = 1..Len(buffer)
  BY <1>1, WaitIs
<1> DEFINE b == Append(buffer, ch)
<1>3. /\ b \in Seq(Chars) /\ Len(b) = Len(buffer) + 1
      /\ b[Len(buffer) + 1] = ch /\ \A j \in 1..Len(buffer) : b[j] = buffer[j]
      /\ \A j \in 1..Len(b) : j \in 1..Len(buffer) \/ j = Len(buffer) + 1
  BY <1>1, <1>2, Appended
<1>5. CASE ch \in Digits
  <2> HIDE DEF b
  <2>1. PICK k \in 2..(Len(buffer) - 1) :
          buffer[k] = "." /\ \A j \in 1..Len(buffer) : j # k => buffer[j] \in Digits
    BY <1>1, <1>2, RealIs
  <2>2. k \in 2..(Len(b) - 1) /\ k \in 1..Len(buffer) /\ k # Len(buffer) + 1
    BY <1>2, <1>3
  <2>3. b[k] = "." /\ \A j \in 1..Len(b) : j # k => b[j] \in Digits
    BY <1>3, <1>5, <2>1, <2>2
  <2>4. IsReal(b)
    BY <1>3, <2>2, <2>3, RealIs
  <2>5. Shape("FLOAT", b)
    BY <2>4 DEF Shape
  <2>6. ch # "nl"
    BY <1>5 DEF Digits
  <2>7. Goes(t, ch, toks, rep, Shift("FLOAT", ch))
    BY <1>0, <1>1, <2>5, <2>6, ShiftGoes DEF b
  <2> QED BY <1>5, <2>7 DEF InFloat
<1>7. CASE ch \notin Digits
  <2>1. CutIn(Append(t, ch), p, Len(buffer))
    <3> SUFFICES ASSUME NEW u \in Seq(Chars), Extends(u, Append(t, ch))
                 PROVE  Cut(u, p, Len(buffer))
      BY DEF CutIn
    <3>1. /\ p \in 1..Len(u) /\ p + Len(buffer) <= Len(u) /\ u[p + Len(buffer)] = ch
          /\ Slice(u, p, Len(buffer)) = buffer
      BY <1>1, Ahead
    <3> QED BY <1>1, <1>2, <1>7, <3>1, RealCut
  <2> DEFINE tok == Token(TypeOf(buffer), ValOf(buffer), row, Back(ch))
             said == About(buffer, tok)
  <2>2. /\ Numeral("TFLIT", buffer, Back(ch)).made = <<tok>>
        /\ Numeral("TFLIT", buffer, Back(ch)).said = said
    BY <1>1, <1>2, NumeralIs
  <2>3. InFloat(ch) = Flush(<<tok>>, said, ch)
    BY <1>7, <2>2 DEF InFloat
  <2> HIDE DEF tok
  <2>4. Goes(t, ch, toks, rep, Flush(<<tok>>, About(buffer, tok), ch))
    BY <1>1, <2>1, OneGoes DEF tok
  <2> QED BY <2>3, <2>4
<1> QED BY <1>5, <1>7

(* A word: one more character of it, or it is a keyword or a name. *)
LEMMA AlphanumGoes ==
  ASSUME NEW t, NEW ch, NEW toks, NEW rep, NEW p, Reader(t, ch, toks, rep, p, "ALPHANUM")
  PROVE  Goes(t, ch, toks, rep, InAlphanum(ch))
<1>0. "ALPHANUM" \in Buffered
  BY DEF Buffered, States, Quiet
<1>1. /\ t \in Seq(Chars) /\ Placed(t) /\ ch \in Chars /\ ch # "cr" /\ ch \in Chars \ {"cr"}
      /\ Told(t, toks, rep, p) /\ Waiting(t, p, buffer) /\ IsWord(buffer)
  BY <1>0, ReaderWaits DEF Shape
<1>2. /\ Len(buffer) \in Nat \ {0} /\ buffer \in Seq(Chars) /\ buffer # <<>>
      /\ DOMAIN buffer = 1..Len(buffer)
  BY <1>1, WaitIs
<1>5. CASE ch \in Letters \cup Digits
  <2> DEFINE b == Append(buffer, ch)
  <2>1. /\ b \in Seq(Chars) /\ Len(b) = Len(buffer) + 1 /\ b # <<>> /\ DOMAIN b = 1..Len(b)
        /\ b[Len(buffer) + 1] = ch /\ \A j \in 1..Len(buffer) : b[j] = buffer[j]
        /\ \A j \in 1..Len(b) : j \in 1..Len(buffer) \/ j = Len(buffer) + 1
    BY <1>1, <1>2, Appended
  <2> HIDE DEF b
  <2>2. buffer[1] \in Letters /\ \A j \in 1..Len(buffer) : buffer[j] \in Letters \cup Digits
    BY <1>1, <1>2 DEF IsWord, OnlyOf
  <2>3. 1 \in 1..Len(buffer)
    BY <1>2
  <2>4. b[1] \in Letters /\ \A j \in 1..Len(b) : b[j] \in Letters \cup Digits
    BY <1>5, <2>1, <2>2, <2>3
  <2>5. Shape("ALPHANUM", b)
    BY <2>1, <2>4 DEF Shape, IsWord, OnlyOf
  <2>6. ch # "nl"
    BY <1>5 DEF Digits, Letters, Lower
  <2>7. Goes(t, ch, toks, rep, Shift("ALPHANUM", ch))
    BY <1>0, <1>1, <2>5, <2>6, ShiftGoes DEF b
  <2> QED BY <1>5, <2>7 DEF InAlphanum
<1>7. CASE ch \notin Letters \cup Digits
  <2>1. CutIn(Append(t, ch), p, Len(buffer))
    <3> SUFFICES ASSUME NEW u \in Seq(Chars), Extends(u, Append(t, ch))
                 PROVE  Cut(u, p, Len(buffer))
      BY DEF CutIn
    <3>1. /\ p \in 1..Len(u) /\ p + Len(buffer) <= Len(u) /\ u[p + Len(buffer)] = ch
          /\ Slice(u, p, Len(buffer)) = buffer
      BY <1>1, Ahead
    <3> QED BY <1>1, <1>2, <1>7, <3>1, WordCut
  <2> DEFINE word == ToLower(buffer)
             c == Back(ch)
             made == IF word \in DOMAIN Keywords THEN Token(Keywords[word], <<>>, row, c)
                     ELSE Token("TIDEN", buffer, row, c)
             said == IF word \in DOMAIN Keywords /\ buffer # Proper[word]
                     THEN <<Report("warning", row, c)>> ELSE <<>>
             tok == Token(TypeOf(buffer), ValOf(buffer), row, c)
  <2>2. InAlphanum(ch) = Flush(<<made>>, said, ch)
    BY <1>7 DEF InAlphanum
  <2>3. TypeOf(buffer) = IF word \in DOMAIN Keywords THEN Keywords[word] ELSE "TIDEN"
    BY <1>1, <1>2, TypeIs
  <2>4. word \in DOMAIN Keywords => Keywords[word] \notin {"TUNDF", "TIDEN", "TILIT", "TFLIT"}
    BY SignNames
  <2>5. ~IsQuoted(buffer)
    <3>1. buffer[1] \in Letters
      BY <1>1 DEF IsWord
    <3>2. buffer[1] # "q"
      BY <3>1 DEF Letters, Lower
    <3> QED BY <1>2, <3>2, FirstDecides
  <2>6. ValOf(buffer) = IF word \in DOMAIN Keywords THEN <<>> ELSE buffer
    BY <1>2, <2>3, <2>4, <2>5, ValIs
  <2>7. tok = made
    BY <2>3, <2>6
  <2>8. About(buffer, tok) = said
    <3>1. tok.row = row /\ tok.col = c /\ TypeOf(buffer) # "TUNDF"
      BY <2>3, <2>4 DEF Token
    <3> HIDE DEF tok, c
    <3> QED BY <1>1, <3>1 DEF About
  <2> HIDE DEF tok, made, said
  <2>9. Goes(t, ch, toks, rep, Flush(<<tok>>, About(buffer, tok), ch))
    BY <1>1, <2>1, OneGoes DEF tok
  <2> QED BY <2>2, <2>7, <2>8, <2>9
<1> QED BY <1>5, <1>7

(* A sign that the character does not go on with, *)
LEMMA AloneGoes ==
  ASSUME NEW t \in Seq(Chars), Placed(t), NEW ch \in Chars \ {"cr"}, NEW toks, NEW rep, NEW p,
         Told(t, toks, rep, p), Waiting(t, p, buffer), Len(buffer) = 1,
         buffer[1] \in DOMAIN Alone, ch # "=", buffer[1] \in {"<", ">"} => ch # buffer[1],
         buffer[1] = "/" => ch \notin {"*", "-"},
         NEW c, \/ c = Back(ch)
                \/ c = Back(ch) + 1 /\ Alone[buffer[1]] \in LateSigns
  PROVE  Goes(t, ch, toks, rep, Flush(<<Token(Alone[buffer[1]], <<>>, row, c)>>, <<>>, ch))
<1>1. buffer \in Seq(Chars) /\ buffer # <<>> /\ p \in Int
  BY WaitIs
<1>2. OperatorOf(buffer) = Alone[buffer[1]] /\ OperatorOf(buffer) # "none"
  <2>1. "none" \notin TokenTypes
    BY DEF TokenTypes
  <2>2. Alone[buffer[1]] \in TokenTypes
    BY SignNames
  <2> QED BY <1>1, <2>1, <2>2, SignIs
<1>3. /\ TypeOf(buffer) = Alone[buffer[1]] /\ ValOf(buffer) = <<>>
      /\ \A tok : About(buffer, tok) = <<>>
  BY <1>1, <1>2, SignToken
<1>4. CutIn(Append(t, ch), p, Len(buffer))
  <2> SUFFICES ASSUME NEW u \in Seq(Chars), Extends(u, Append(t, ch))
               PROVE  Cut(u, p, 1)
    BY DEF CutIn
  <2>1. /\ p \in 1..Len(u) /\ p + Len(buffer) <= Len(u) /\ u[p + Len(buffer)] = ch
        /\ \A k \in 1..Len(buffer) : u[p + k - 1] = buffer[k]
    <3>1. ch \in Chars /\ Waiting(t, p, buffer) /\ u \in Seq(Chars) /\ t \in Seq(Chars)
          /\ Extends(u, Append(t, ch))
      OBVIOUS
    <3> QED BY ONLY <3>1, Ahead
  <2>2. p + 1 <= Len(u) /\ u[p + 1] = ch /\ u[p] = buffer[1]
    <3>1. 1 \in 1..Len(buffer) /\ p + 1 - 1 = p
      BY <1>1
    <3> QED BY <2>1, <3>1
  <2>3. ~OpensComment(u, p)
    BY <2>1, <2>2, OpensIs
  <2> QED BY <2>1, <2>2, <2>3, AloneCut
<1> DEFINE tok == Token(TypeOf(buffer), ValOf(buffer), row, c)
<1>5. tok = Token(Alone[buffer[1]], <<>>, row, c) /\ About(buffer, tok) = <<>>
  BY <1>3
<1> HIDE DEF tok
<1>6. Goes(t, ch, toks, rep, Flush(<<tok>>, About(buffer, tok), ch))
  BY <1>3, <1>4, OneGoes DEF tok
<1> QED BY <1>5, <1>6

(* and one that it does. *)
LEMMA PairGoes ==
  ASSUME NEW t \in Seq(Chars), Placed(t), NEW ch \in Chars, NEW toks, NEW rep, NEW p,
         Told(t, toks, rep, p), Waiting(t, p, buffer), Len(buffer) = 1, buffer[1] \in Signs,
         ch = "=" \/ (buffer[1] \in {"<", ">"} /\ ch = buffer[1]),
         NEW type, type = IF ch = "=" THEN BeforeEqual[buffer[1]] ELSE Twice[buffer[1]]
  PROVE  Goes(t, ch, toks, rep, Made(Token(type, <<>>, row, Here(ch) - 1)))
<1> DEFINE v == Append(t, ch)
           s == Slice(v, p, 2)
<1>1. v \in Seq(Chars) /\ Len(v) = Len(t) + 1 /\ v[Len(t) + 1] = ch
  BY ExtendsIs
<1>2. p \in 1..Len(t) /\ Len(t) \in Nat /\ p + 1 = Len(t) + 1 /\ v[p] = buffer[1]
  <2>1. p \in 1..Len(t) /\ Len(t) \in Nat /\ p + Len(buffer) = Len(t) + 1
        /\ \A k \in 1..Len(buffer) : v[p + k - 1] = buffer[k]
    <3>1. ch \in Chars /\ Waiting(t, p, buffer) /\ t \in Seq(Chars)
      OBVIOUS
    <3> QED BY ONLY <3>1, WaitIs
  <2>2. 1 \in 1..Len(buffer) /\ p + 1 - 1 = p
    BY <2>1
  <2> QED BY <2>1, <2>2
<1> HIDE DEF v
<1>3. /\ Cut(v, p, 2) /\ OperatorOf(s) = type /\ s \in Seq(Chars) /\ s # <<>>
  <2>1. p \in 1..Len(v) /\ p + 1 <= Len(v) /\ v[p + 1] = ch
    BY <1>1, <1>2
  <2>2. 2 \in 1..(Len(v) - p + 1)
    BY <1>1, <1>2
  <2>3. s \in Seq(Chars) /\ s # <<>>
    BY <1>1, <2>1, <2>2, SliceAhead
  <2> QED BY <1>1, <1>2, <2>1, <2>3, PairCut
<1>4. OperatorOf(s) # "none"
  <2>1. "none" \notin TokenTypes
    BY DEF TokenTypes
  <2>2. type \in TokenTypes
    BY SignNames
  <2> QED BY <1>3, <2>1, <2>2
<1>5. TypeOf(s) = type /\ ValOf(s) = <<>> /\ TypeOf(s) # "TUNDF" /\ ~IsWord(s)
  BY <1>3, <1>4, SignToken
<1>6. CutIn(v, p, 2)
  <2> SUFFICES ASSUME NEW u \in Seq(Chars), Extends(u, v) PROVE Cut(u, p, 2)
    BY DEF CutIn
  <2>1. /\ p \in 1..Len(u) /\ p + Len(buffer) <= Len(u) /\ u[p + Len(buffer)] = ch
        /\ \A k \in 1..Len(buffer) : u[p + k - 1] = buffer[k]
    BY Ahead DEF v
  <2>2. p + 1 <= Len(u) /\ u[p + 1] = ch /\ u[p] = buffer[1]
    BY <2>1
  <2> QED BY <2>1, <2>2, PairCut
<1>7. Len(buffer) + 1 = 2 /\ Back(ch) = Here(ch) - 1
  BY DEF Back
<1> DEFINE tok == Token(TypeOf(s), ValOf(s), row, Back(ch))
<1>8. tok = Token(type, <<>>, row, Here(ch) - 1)
  BY <1>5, <1>7
<1>9. s = Slice(Append(t, ch), p, Len(buffer) + 1) /\ CutIn(Append(t, ch), p, Len(buffer) + 1)
  BY <1>6, <1>7 DEF v
<1> HIDE DEF tok, s
<1>a. Goes(t, ch, toks, rep, Made(tok))
  BY <1>5, <1>9, FullGoes DEF tok
<1> QED BY <1>8, <1>a

(* A sign that an equals sign may follow, *)
LEMMA PreEqualGoes ==
  ASSUME NEW t, NEW ch, NEW toks, NEW rep, NEW p, Reader(t, ch, toks, rep, p, "PRE_EQUAL")
  PROVE  Goes(t, ch, toks, rep, InPreEqual(ch))
<1>0. "PRE_EQUAL" \in Buffered
  BY DEF Buffered, States, Quiet
<1>1. /\ t \in Seq(Chars) /\ Placed(t) /\ ch \in Chars /\ ch # "cr" /\ ch \in Chars \ {"cr"}
      /\ Told(t, toks, rep, p) /\ Waiting(t, p, buffer)
      /\ Len(buffer) = 1 /\ buffer[1] \in {"+", "-", "*", "="}
  BY <1>0, ReaderWaits DEF Shape
<1>2. /\ buffer[1] \in Signs /\ buffer[1] \in DOMAIN Alone
      /\ buffer[1] \notin {"<", ">", "/"}
  BY <1>1 DEF Signs, Alone
<1>3. Back(ch) = Here(ch) - 1
  BY <1>1 DEF Back
<1>4. CASE ch = "="
  <2>1. Goes(t, ch, toks, rep, Made(Token(BeforeEqual[buffer[1]], <<>>, row, Here(ch) - 1)))
    BY <1>1, <1>2, <1>4, PairGoes
  <2> QED BY <1>4, <2>1 DEF InPreEqual
<1>5. CASE ch # "="
  <2>1. Goes(t, ch, toks, rep,
             Flush(<<Token(Alone[buffer[1]], <<>>, row, Here(ch) - 1)>>, <<>>, ch))
    BY <1>1, <1>2, <1>3, <1>5, AloneGoes
  <2> QED BY <1>5, <2>1 DEF InPreEqual
<1> QED BY <1>4, <1>5

(* that may also be doubled, *)
LEMMA AngleGoes ==
  ASSUME NEW t, NEW ch, NEW toks, NEW rep, NEW p, NEW s \in {"LESS", "GRTR"},
         Reader(t, ch, toks, rep, p, s),
         NEW sign, sign = IF s = "LESS" THEN "<" ELSE ">"
  PROVE  Goes(t, ch, toks, rep, InAngle(sign, ch))
<1>0. s \in Buffered
  BY DEF Buffered, States, Quiet
<1>1. /\ t \in Seq(Chars) /\ Placed(t) /\ ch \in Chars /\ ch # "cr" /\ ch \in Chars \ {"cr"}
      /\ Told(t, toks, rep, p) /\ Waiting(t, p, buffer)
      /\ Len(buffer) = 1 /\ buffer[1] = sign
  BY <1>0, ReaderWaits DEF Shape
<1>2. /\ sign \in {"<", ">"} /\ sign # "=" /\ sign # "/" /\ sign \in Signs
      /\ sign \in DOMAIN Alone /\ Alone[sign] \in LateSigns
  BY DEF Signs, Alone, LateSigns
<1>3. Back(ch) + 1 = Here(ch)
  <2>1. col \in Nat \ {0}
    <3>1. Len(t) + 1 \in Nat \ {0} /\ col = ColOf(t, Len(t) + 1)
      BY <1>1 DEF Placed
    <3> QED BY <3>1, ColNext
  <2> QED BY <1>1, <2>1 DEF Back, Here
<1>4. CASE ch = sign
  <2>1. Goes(t, ch, toks, rep, Made(Token(Twice[sign], <<>>, row, Here(ch) - 1)))
    BY <1>1, <1>2, <1>4, PairGoes
  <2> QED BY <1>4, <2>1 DEF InAngle
<1>5. CASE ch # sign /\ ch = "="
  <2>1. Goes(t, ch, toks, rep, Made(Token(BeforeEqual[sign], <<>>, row, Here(ch) - 1)))
    BY <1>1, <1>2, <1>5, PairGoes
  <2> QED BY <1>5, <2>1 DEF InAngle
<1>6. CASE ch # sign /\ ch # "="
  <2>1. Goes(t, ch, toks, rep, Flush(<<Token(Alone[sign], <<>>, row, Here(ch))>>, <<>>, ch))
    BY <1>1, <1>2, <1>3, <1>6, AloneGoes
  <2> QED BY <1>6, <2>1 DEF InAngle
<1> QED BY <1>4, <1>5, <1>6

(* or that may open a comment. *)
LEMMA SlashGoes ==
  ASSUME NEW t, NEW ch, NEW toks, NEW rep, NEW p, Reader(t, ch, toks, rep, p, "SLASH")
  PROVE  Goes(t, ch, toks, rep, InSlash(ch))
<1>0. "SLASH" \in Buffered /\ "SLASHSTAR" \in Buffered /\ "SLASHMINUS" \in Buffered
  BY DEF Buffered, States, Quiet
<1>1. /\ t \in Seq(Chars) /\ Placed(t) /\ ch \in Chars /\ ch # "cr" /\ ch \in Chars \ {"cr"}
      /\ Told(t, toks, rep, p) /\ Waiting(t, p, buffer)
      /\ Len(buffer) = 1 /\ buffer[1] = "/"
  BY <1>0, ReaderWaits DEF Shape
<1>2. "/" \in Signs /\ "/" \in DOMAIN Alone /\ Alone["/"] = "TDIVD"
  BY DEF Signs, Alone
<1>3. Back(ch) = Here(ch) - 1
  BY <1>1 DEF Back
<1> DEFINE b == Append(buffer, ch)
<1>b. Len(b) = 2 /\ b[1] = "/" /\ b[2] = ch
  <2>1. buffer \in Seq(Chars)
    BY <1>1, WaitIs
  <2>2. /\ Len(b) = Len(buffer) + 1 /\ b[Len(buffer) + 1] = ch
        /\ \A j \in 1..Len(buffer) : b[j] = buffer[j]
    BY <1>1, <2>1, Appended
  <2> HIDE DEF b
  <2> QED BY <1>1, <2>2
<1> HIDE DEF b
<1>4. CASE ch = "="
  <2>1. Goes(t, ch, toks, rep, Made(Token(BeforeEqual["/"], <<>>, row, Here(ch) - 1)))
    BY <1>1, <1>2, <1>4, PairGoes
  <2> QED BY <1>4, <2>1 DEF InSlash
<1>5. CASE ch = "*"
  <2>1. Shape("SLASHSTAR", b)
    BY <1>b, <1>5 DEF Shape
  <2>2. Goes(t, ch, toks, rep, Shift("SLASHSTAR", ch))
    BY <1>0, <1>1, <1>5, <2>1, ShiftGoes DEF b
  <2> QED BY <1>5, <2>2 DEF InSlash
<1>6. CASE ch = "-"
  <2>1. Shape("SLASHMINUS", b)
    BY <1>b, <1>6 DEF Shape
  <2>2. Goes(t, ch, toks, rep, Shift("SLASHMINUS", ch))
    BY <1>0, <1>1, <1>6, <2>1, ShiftGoes DEF b
  <2> QED BY <1>6, <2>2 DEF InSlash
<1>7. CASE ch \notin {"=", "*", "-"}
  <2>1. Goes(t, ch, toks, rep, Flush(<<Token(Alone["/"], <<>>, row, Here(ch) - 1)>>, <<>>, ch))
    BY <1>1, <1>2, <1>3, <1>7, AloneGoes
  <2> QED BY <1>2, <1>7, <2>1 DEF InSlash
<1> QED BY <1>4, <1>5, <1>6, <1>7

(* An exclamation mark, which is unknown unless an equals sign follows. *)
LEMMA ExclmGoes ==
  ASSUME NEW t, NEW ch, NEW toks, NEW rep, NEW p, Reader(t, ch, toks, rep, p, "EXCLM")
  PROVE  Goes(t, ch, toks, rep, InExclm(ch))
<1>0. "EXCLM" \in Buffered /\ "ERROR" \in Buffered
  BY DEF Buffered, States, Quiet
<1>1. /\ t \in Seq(Chars) /\ Placed(t) /\ ch \in Chars /\ ch # "cr" /\ ch \in Chars \ {"cr"}
      /\ Told(t, toks, rep, p) /\ Waiting(t, p, buffer)
      /\ Len(buffer) = 1 /\ buffer[1] = "!" /\ ~OddIn(Append(t, ch))
  BY <1>0, ReaderWaits DEF Shape
<1>2. /\ p \in 1..Len(t) /\ Len(t) \in Nat /\ p = Len(t) /\ buffer \in Seq(Chars)
      /\ buffer # <<>> /\ Append(t, ch)[p] = "!"
  <2>1. /\ p \in 1..Len(t) /\ Len(t) \in Nat /\ p + Len(buffer) = Len(t) + 1
        /\ buffer \in Seq(Chars) /\ buffer # <<>>
        /\ \A k \in 1..Len(buffer) : Append(t, ch)[p + k - 1] = buffer[k]
    BY <1>1, WaitIs
  <2>2. 1 \in 1..Len(buffer) /\ p + 1 - 1 = p /\ p = Len(t)
    BY <1>1, <2>1
  <2> QED BY <1>1, <2>1, <2>2
<1>3. Back(ch) = Here(ch) - 1
  BY <1>1 DEF Back
<1>4. ch # "!"
  <2> DEFINE v == Append(t, ch)
  <2>1. v \in Seq(Chars) /\ Len(v) = Len(t) + 1 /\ v[Len(t) + 1] = ch
    BY <1>1, ExtendsIs
  <2> HIDE DEF v
  <2>2. v[p] = "!" /\ ~OddIn(v)
    BY <1>1, <1>2 DEF v
  <2>3. p \in 1..Len(v) /\ p + 1 <= Len(v) /\ p + 1 = Len(t) + 1
    BY <1>2, <2>1
  <2>4. ~(v[p] = "!" /\ v[p + 1] = "!")
    BY <2>1, <2>2, <2>3, NotOdd
  <2> QED BY <2>1, <2>2, <2>3, <2>4
<1>5. CASE ch = "="
  <2>1. "!" \in Signs
    BY DEF Signs
  <2>2. Goes(t, ch, toks, rep, Made(Token(BeforeEqual["!"], <<>>, row, Here(ch) - 1)))
    BY <1>1, <1>5, <2>1, PairGoes
  <2> QED BY <1>5, <2>2 DEF InExclm
<1>6. CASE ~valid_char(ch)
  <2> DEFINE b == Append(buffer, ch)
  <2>1. Len(b) = 2 /\ b[1] = "!" /\ b[2] = ch
    <3>1. /\ Len(b) = Len(buffer) + 1 /\ b[Len(buffer) + 1] = ch
          /\ \A j \in 1..Len(buffer) : b[j] = buffer[j]
      BY <1>1, <1>2, Appended
    <3> HIDE DEF b
    <3> QED BY <1>1, <3>1
  <2> HIDE DEF b
  <2>2. \A j \in 2..Len(b) : j = 2
    BY <2>1
  <2>3. Shape("ERROR", b)
    BY <1>6, <2>1, <2>2 DEF Shape
  <2>4. ch # "nl" /\ ch # "="
    BY <1>6 DEF valid_char
  <2>5. Goes(t, ch, toks, rep, Shift("ERROR", ch))
    BY <1>0, <1>1, <2>3, <2>4, ShiftGoes DEF b
  <2> QED BY <1>6, <2>4, <2>5 DEF InExclm
<1>7. CASE valid_char(ch) /\ ch # "="
  <2>1. ASSUME NEW u \in Seq(Chars), Extends(u, Append(t, ch))
        PROVE  Cut(u, p, 1) /\ ~IsSpelling(Slice(u, p, 1)) /\ Slice(u, p, 1) = buffer
    <3>1. /\ p \in 1..Len(u) /\ p + Len(buffer) <= Len(u) /\ u[p + Len(buffer)] = ch
          /\ Slice(u, p, Len(buffer)) = buffer
          /\ \A k \in 1..Len(buffer) : u[p + k - 1] = buffer[k]
      BY <1>1, <2>1, Ahead
    <3>2. p + 1 <= Len(u) /\ u[p + 1] = ch /\ u[p] = "!" /\ Slice(u, p, 1) = buffer
      BY <1>1, <3>1
    <3>3. \A j \in (p + 1)..(p + 1 - 1) : FALSE
      BY <1>2
    <3> QED BY <1>7, <3>1, <3>2, <3>3, JunkCut
  <2>2. CutIn(Append(t, ch), p, Len(buffer))
    BY <1>1, <2>1 DEF CutIn
  <2>3. ~IsSpelling(buffer)
    <3> DEFINE v == Append(t, ch)
    <3>1. v \in Seq(Chars)
      BY <1>1
    <3> HIDE DEF v
    <3>2. Extends(v, v)
      BY <3>1 DEF Extends
    <3>3. Extends(v, Append(t, ch))
      BY <3>2 DEF v
    <3> QED BY <2>1, <3>1, <3>3
  <2>4. TypeOf(buffer) = "TUNDF"
    BY <1>2, <2>3, TypeIs
  <2>5. ValOf(buffer) = buffer
    BY <1>2, <2>4, ValIs
  <2> DEFINE tok == Token(TypeOf(buffer), ValOf(buffer), row, Back(ch))
  <2>6. tok = Token("TUNDF", buffer, row, Here(ch) - 1)
    BY <1>3, <2>4, <2>5
  <2>7. About(buffer, tok) = <<Report("error", row, Here(ch) - 1)>>
    <3>1. tok.row = row /\ tok.col = Here(ch) - 1
      BY <1>3 DEF Token
    <3> HIDE DEF tok
    <3> QED BY <2>4, <3>1 DEF About
  <2> HIDE DEF tok
  <2>8. Goes(t, ch, toks, rep, Flush(<<tok>>, About(buffer, tok), ch))
    BY <1>1, <2>2, OneGoes DEF tok
  <2> QED BY <1>4, <1>7, <2>6, <2>7, <2>8 DEF InExclm
<1> QED BY <1>5, <1>6, <1>7

(* Unknown characters. *)
LEMMA ErrorGoes ==
  ASSUME NEW t, NEW ch, NEW toks, NEW rep, NEW p, Reader(t, ch, toks, rep, p, "ERROR")
  PROVE  Goes(t, ch, toks, rep, InError(ch))
<1>0. "ERROR" \in Buffered
  BY DEF Buffered, States, Quiet
<1>1. /\ t \in Seq(Chars) /\ Placed(t) /\ ch \in Chars /\ ch # "cr" /\ ch \in Chars \ {"cr"}
      /\ Told(t, toks, rep, p) /\ Waiting(t, p, buffer) /\ buffer[1] \in {"!", "?"}
      /\ (buffer[1] = "!" => Len(buffer) >= 2) /\ \A j \in 2..Len(buffer) : ~valid_char(buffer[j])
  BY <1>0, ReaderWaits DEF Shape
<1>2. /\ p \in 1..Len(t) /\ Len(buffer) \in Nat \ {0} /\ buffer \in Seq(Chars) /\ buffer # <<>>
  BY <1>1, WaitIs
<1>5. CASE ~valid_char(ch)
  <2> DEFINE b == Append(buffer, ch)
  <2>1. /\ Len(b) = Len(buffer) + 1 /\ b[Len(buffer) + 1] = ch
        /\ \A j \in 1..Len(buffer) : b[j] = buffer[j]
        /\ \A j \in 1..(Len(buffer) + 1) : j \in 1..Len(buffer) \/ j = Len(buffer) + 1
    BY <1>1, <1>2, Appended
  <2> HIDE DEF b
  <2>2. \A j \in 2..Len(b) : j \in 2..Len(buffer) \/ j = Len(buffer) + 1
    BY <1>2, <2>1
  <2>3. 1 \in 1..Len(buffer) /\ \A j \in 2..Len(buffer) : j \in 1..Len(buffer)
    BY <1>2
  <2>4. b[1] = buffer[1] /\ Len(b) >= 2 /\ \A j \in 2..Len(b) : ~valid_char(b[j])
    BY <1>1, <1>2, <1>5, <2>1, <2>2, <2>3
  <2>5. Shape("ERROR", b)
    BY <1>1, <2>4 DEF Shape
  <2>6. ch # "nl"
    BY <1>5 DEF valid_char
  <2>7. Goes(t, ch, toks, rep, Shift("ERROR", ch))
    BY <1>0, <1>1, <2>5, <2>6, ShiftGoes DEF b
  <2> QED BY <1>5, <2>7 DEF InError
<1>7. CASE valid_char(ch)
  <2> DEFINE n == Len(buffer)
  <2>1. ASSUME NEW u \in Seq(Chars), Extends(u, Append(t, ch))
        PROVE  Cut(u, p, n) /\ ~IsSpelling(Slice(u, p, n)) /\ Slice(u, p, n) = buffer
    <3>1. /\ p \in 1..Len(u) /\ p + n <= Len(u) /\ u[p + n] = ch
          /\ Slice(u, p, n) = buffer
          /\ \A k \in 1..n : u[p + k - 1] = buffer[k]
      BY <1>1, <2>1, Ahead
    <3>2. u[p] = buffer[1]
      <4>1. 1 \in 1..n /\ p + 1 - 1 = p
        BY <1>2
      <4> QED BY <3>1, <4>1
    <3>3. u[p] = "!" => u[p + 1] # "="
      <4>1. u[p] = "!" => 2 \in 1..n /\ p + 2 - 1 = p + 1 /\ 2 \in 2..Len(buffer)
        BY <1>1, <1>2, <3>2
      <4>2. u[p] = "!" => u[p + 1] = buffer[2] /\ ~valid_char(buffer[2])
        BY <1>1, <3>1, <4>1
      <4> QED BY <4>2 DEF valid_char
    <3>4. \A j \in (p + 1)..(p + n - 1) : ~valid_char(u[j])
      <4> SUFFICES ASSUME NEW j \in (p + 1)..(p + n - 1) PROVE ~valid_char(u[j])
        OBVIOUS
      <4> DEFINE k == j - p + 1
      <4>1. k \in 1..n /\ k \in 2..Len(buffer) /\ p + k - 1 = j
        BY <1>2
      <4> HIDE DEF k
      <4>2. u[p + k - 1] = buffer[k] /\ ~valid_char(buffer[k])
        BY <1>1, <3>1, <4>1
      <4> QED BY <4>1, <4>2
    <3> HIDE DEF n
    <3>5. n \in Nat \ {0}
      BY <1>2 DEF n
    <3> QED BY <1>1, <1>7, <3>1, <3>2, <3>3, <3>4, <3>5, JunkCut
  <2>2. CutIn(Append(t, ch), p, Len(buffer))
    BY <1>1, <2>1 DEF CutIn
  <2>3. ~IsSpelling(buffer)
    <3> DEFINE v == Append(t, ch)
    <3>1. v \in Seq(Chars)
      BY <1>1
    <3> HIDE DEF v
    <3>2. Extends(v, v)
      BY <3>1 DEF Extends
    <3>3. Extends(v, Append(t, ch))
      BY <3>2 DEF v
    <3> QED BY <2>1, <3>1, <3>3
  <2>4. TypeOf(buffer) = "TUNDF"
    BY <1>2, <2>3, TypeIs
  <2>5. ValOf(buffer) = buffer
    BY <1>2, <2>4, ValIs
  <2> DEFINE tok == Token(TypeOf(buffer), ValOf(buffer), row, Back(ch))
  <2>6. tok = Token("TUNDF", buffer, row, Back(ch))
    BY <2>4, <2>5
  <2>7. About(buffer, tok) = <<Report("error", row, Back(ch))>>
    <3>1. tok.row = row /\ tok.col = Back(ch)
      BY DEF Token
    <3> HIDE DEF tok
    <3> QED BY <2>4, <3>1 DEF About
  <2> HIDE DEF tok
  <2>8. Goes(t, ch, toks, rep, Flush(<<tok>>, About(buffer, tok), ch))
    BY <1>1, <2>2, OneGoes DEF tok
  <2> QED BY <1>7, <2>6, <2>7, <2>8 DEF InError
<1> QED BY <1>5, <1>7

(* A dot with no digit behind it. *)
LEMMA NumdotGoes ==
  ASSUME NEW t, NEW ch, NEW toks, NEW rep, NEW p, Reader(t, ch, toks, rep, p, "NUMDOT")
  PROVE  Goes(t, ch, toks, rep, InNumdot(ch))
<1>0. "FLOAT" \in Buffered /\ "NUMDOT" \in Buffered
  BY DEF Buffered, States, Quiet
<1>1. /\ t \in Seq(Chars) /\ Placed(t) /\ ch \in Chars /\ ch # "cr" /\ ch \in Chars \ {"cr"}
      /\ Told(t, toks, rep, p) /\ Waiting(t, p, buffer)
      /\ Len(buffer) >= 2 /\ buffer[Len(buffer)] = "."
      /\ \A j \in 1..(Len(buffer) - 1) : buffer[j] \in Digits
  BY <1>0, ReaderWaits DEF Shape
<1>2. /\ Len(buffer) \in Nat \ {0} /\ buffer \in Seq(Chars) /\ p \in 1..Len(t)
      /\ p + Len(buffer) = Len(t) + 1 /\ Len(t) \in Nat
      /\ \A k \in 1..Len(buffer) : Append(t, ch)[p + k - 1] = buffer[k]
  BY <1>1, WaitIs
<1>3. CASE ch \in Digits
  <2> DEFINE b == Append(buffer, ch)
             k == Len(buffer)
  <2>1. /\ b \in Seq(Chars) /\ Len(b) = k + 1
        /\ b[k + 1] = ch /\ \A j \in 1..k : b[j] = buffer[j]
        /\ \A j \in 1..(k + 1) : j \in 1..k \/ j = k + 1
    BY <1>1, <1>2, Appended
  <2> HIDE DEF b
  <2>2. /\ k \in 2..(Len(b) - 1) /\ k \in 1..k
        /\ \A j \in 1..k : j # k => j \in 1..(Len(buffer) - 1)
    BY <1>1, <1>2, <2>1
  <2>3. b[k] = "." /\ \A j \in 1..Len(b) : j # k => b[j] \in Digits
    BY <1>1, <1>3, <2>1, <2>2
  <2>4. IsReal(b)
    BY <2>1, <2>2, <2>3, RealIs
  <2>5. Shape("FLOAT", b)
    BY <2>4 DEF Shape
  <2>6. ch # "nl"
    BY <1>3 DEF Digits
  <2>7. Goes(t, ch, toks, rep, Shift("FLOAT", ch))
    BY <1>0, <1>1, <2>5, <2>6, ShiftGoes DEF b
  <2> QED BY <1>3, <2>7 DEF InNumdot
<1>4. CASE ch \notin Digits
  <2> DEFINE n == Len(buffer) - 1
             v == Append(t, ch)
             s1 == Slice(v, p, n)
             s2 == Slice(v, p + n, 1)
  <2>1. /\ v \in Seq(Chars) /\ Len(v) = Len(t) + 1
    BY <1>1, ExtendsIs
  <2>2. /\ n \in Nat \ {0} /\ p + n = Len(t) /\ p \in Nat \ {0} /\ p + n - 1 <= Len(t)
        /\ p + n \in 1..Len(v) /\ n + 1 = Len(buffer) /\ 1 \in 1..(Len(v) - (p + n) + 1)
    BY <1>1, <1>2, <2>1
  <2>v. \A k \in 1..Len(buffer) : v[p + k - 1] = buffer[k]
    BY <1>2
  <2> HIDE DEF n, v
  <2>3. s1 \in Seq(Chars) /\ Len(s1) = n /\ \A k \in 1..n : s1[k] = v[p + k - 1]
    <3>1. p + n - 1 <= Len(v)
      BY <2>1, <2>2, <1>2
    <3> QED BY <2>1, <2>2, <3>1, SliceIs
  <2>4. s2 \in Seq(Chars) /\ Len(s2) = 1 /\ s2[1] = v[p + n] /\ s2 # <<>>
    <3> DEFINE q == p + n
    <3>1. q \in 1..Len(v) /\ 1 \in 1..(Len(v) - q + 1)
      BY <2>2
    <3> HIDE DEF q
    <3>2. Slice(v, q, 1) \in Seq(Chars) /\ Len(Slice(v, q, 1)) = 1 /\ Slice(v, q, 1)[1] = v[q]
          /\ Slice(v, q, 1) # <<>>
      BY <2>1, <3>1, SliceAhead
    <3> QED BY <3>2 DEF q
  <2>5. v[p + n] = "."
    <3>1. n + 1 \in 1..Len(buffer) /\ p + (n + 1) - 1 = p + n
      BY <2>2
    <3> QED BY <1>1, <2>v, <2>2, <3>1
  <2> HIDE DEF s1, s2
  <2>6. \A k \in 1..n : s1[k] = buffer[k] /\ s1[k] \in Digits
    <3>1. \A k \in 1..n : k \in 1..Len(buffer) /\ k \in 1..(Len(buffer) - 1)
      BY <2>2
    <3> QED BY <1>1, <2>v, <2>3, <3>1
  <2>7. IsDigits(s1) /\ s1 # <<>>
    <3>1. s1 # <<>> /\ DOMAIN s1 = 1..n
      BY <2>2, <2>3
    <3> QED BY <2>6, <3>1 DEF IsDigits, OnlyOf
  <2>8. s1 = Front(buffer)
    <3> DEFINE x == Slice(buffer, 1, n)
    <3>1. x \in Seq(Chars) /\ Len(x) = n /\ \A k \in 1..n : x[k] = buffer[1 + k - 1]
      <4>1. 1 \in Nat \ {0} /\ n \in Nat /\ 1 + n - 1 <= Len(buffer)
        BY <2>2
      <4> QED BY <1>2, <4>1, SliceIs
    <3>2. \A k \in 1..n : x[k] = buffer[k]
      BY <3>1
    <3>3. x = Front(buffer)
      <4>1. 1 + n - 1 = n /\ Len(buffer) - 1 = n
        BY <2>2
      <4> QED BY <4>1 DEF Slice, Front
    <3> HIDE DEF x
    <3>4. Len(x) = Len(s1) /\ \A k \in 1..Len(x) : x[k] = s1[k]
      BY <2>3, <2>6, <3>1, <3>2
    <3>5. x = s1
      BY <2>3, <3>1, <3>4, SeqEqual
    <3> QED BY <3>3, <3>5
  <2>9. CutIn(v, p, n) /\ CutIn(v, p + n, 1)
    <3> SUFFICES ASSUME NEW u \in Seq(Chars), Extends(u, v)
                 PROVE  Cut(u, p, n) /\ Cut(u, p + n, 1)
      BY DEF CutIn
    <3>1. /\ p \in 1..Len(u) /\ p + Len(buffer) <= Len(u) /\ u[p + Len(buffer)] = ch
      BY <1>1, Ahead DEF v
    <3>2. Len(v) <= Len(u) /\ u[p + n] = v[p + n]
      BY <2>2 DEF Extends
    <3>3. Slice(u, p, n) = s1
      <4>1. p + n - 1 <= Len(v) /\ n \in Nat
        BY <1>2, <2>1, <2>2
      <4> QED BY <2>1, <2>2, <4>1, SliceStays DEF s1
    <3>4. p + n <= Len(u) /\ p + n + 1 <= Len(u) /\ p + n \in 1..Len(u) /\ u[p + n + 1] = ch
      <4>1. p + n + 1 = p + Len(buffer) /\ Len(u) \in Nat
        BY <2>2, <3>1
      <4> QED BY <1>2, <2>1, <2>2, <3>1, <3>2, <4>1
    <3>5. "." \notin Digits /\ "." \in DOMAIN Lone
      BY DEF Digits, Lone
    <3>6. Cut(u, p, n)
      BY <1>4, <2>2, <2>5, <2>7, <3>1, <3>2, <3>3, <3>4, <3>5, DigitsCut
    <3>7. Cut(u, p + n, 1)
      <4> DEFINE q == p + n
      <4>1. q \in 1..Len(u) /\ u[q] \in DOMAIN Lone
        BY <2>5, <3>2, <3>4, <3>5
      <4> HIDE DEF q
      <4>2. Cut(u, q, 1)
        BY <4>1, LoneCut
      <4> QED BY <4>2 DEF q
    <3> QED BY <3>6, <3>7
  <2>a. TypeOf(s2) = "TDOTT" /\ ValOf(s2) = <<>> /\ \A tok : About(s2, tok) = <<>>
    <3>1. Lone["."] = "TDOTT" /\ "." \in DOMAIN Lone
      BY DEF Lone
    <3>2. OperatorOf(s2) = "TDOTT"
      BY <2>4, <2>5, <3>1, SignIs
    <3> QED BY <2>4, <3>2, SignToken
  <2> DEFINE c == Back(ch)
             tok1 == Token(TypeOf(s1), ValOf(s1), row, c)
             tok2 == Token(TypeOf(s2), ValOf(s2), row, Here(ch))
  <2>b. Numeral("TILIT", s1, c).made = <<tok1>> /\ Numeral("TILIT", s1, c).said = About(s1, tok1)
    BY <2>3, <2>7, NumeralIs
  <2>c. tok2 = Token("TDOTT", <<>>, row, Here(ch)) /\ About(s2, tok2) = <<>>
    BY <2>a
  <2>d. "TDOTT" \in LateSigns
    BY DEF LateSigns
  <2>e. Goes(t, ch, toks, rep, Flush(<<tok1, tok2>>, About(s1, tok1) \o About(s2, tok2), ch))
    <3> HIDE DEF c
    <3>1. TypeOf(s2) \in LateSigns /\ c = Back(ch) /\ n = Len(buffer) - 1
      BY <2>a, <2>d DEF c, n
    <3>2. /\ CutIn(Append(t, ch), p, n) /\ CutIn(Append(t, ch), p + n, 1)
          /\ s1 = Slice(Append(t, ch), p, n) /\ s2 = Slice(Append(t, ch), p + n, 1)
      BY <2>9 DEF v, s1, s2
    <3>3. tok1 = Token(TypeOf(s1), ValOf(s1), row, c)
          /\ tok2 = Token(TypeOf(s2), ValOf(s2), row, Here(ch))
      OBVIOUS
    <3>4. /\ t \in Seq(Chars) /\ Placed(t) /\ ch \in Chars \ {"cr"} /\ Told(t, toks, rep, p)
          /\ Waiting(t, p, buffer) /\ n \in Nat \ {0}
      BY <1>1, <2>2
    <3> HIDE DEF tok1, tok2
    <3> QED BY ONLY <3>1, <3>2, <3>3, <3>4, TwoGoes, SMTT(60)
  <2>f. InNumdot(ch) = Flush(Append(<<tok1>>, tok2), About(s1, tok1), ch)
    <3> HIDE DEF tok1, tok2
    <3>1. tok2 = Token("TDOTT", <<>>, row, Here(ch))
      BY <2>c
    <3> QED BY <1>4, <2>8, <2>b, <3>1 DEF InNumdot
  <2>g. Append(<<tok1>>, tok2) = <<tok1, tok2>>
    <3> HIDE DEF tok1, tok2
    <3> DEFINE S == {tok1, tok2}
               x == <<tok1>>
    <3>1. x \in Seq(S) /\ Len(x) = 1 /\ x[1] = tok1 /\ tok2 \in S
      OBVIOUS
    <3> HIDE DEF x, S
    <3> DEFINE y == Append(x, tok2)
    <3>a. x \in Seq(S) /\ tok2 \in S
      BY <3>1
    <3>b. /\ y \in Seq(S) /\ Len(y) = Len(x) + 1 /\ y[Len(x) + 1] = tok2
          /\ \A j \in 1..Len(x) : y[j] = x[j]
      BY ONLY <3>a
    <3>2. y \in Seq(S) /\ Len(y) = 2 /\ y[1] = tok1 /\ y[2] = tok2
      <4> HIDE DEF y
      <4> QED BY ONLY <3>1, <3>b
    <3> HIDE DEF y
    <3>3. y = <<y[1], y[2]>>
      BY <3>2
    <3> QED BY <3>2, <3>3 DEF x, y
  <2>h. About(s1, tok1) \o About(s2, tok2) = About(s1, tok1)
    <3>1. tok1 \in Tokens
      <4>1. TypeOf(s1) \in TokenTypes /\ ValOf(s1) \in Seq(Chars)
        BY <2>3, <2>7, TokenIs
      <4>2. row \in Nat \ {0} /\ c \in Int
        <5>1. row \in Nat \ {0} /\ Here(ch) \in Int
          <6>1. p \in 1..(Len(t) + 1) /\ \A j \in p..Len(t) : t[j] # "nl"
            BY <1>1, <1>2 DEF Waiting
          <6> QED BY <1>1, <6>1, PlaceHere
        <5> QED BY <1>2, <5>1 DEF Back
      <4> HIDE DEF c
      <4> QED BY <4>1, <4>2 DEF Tokens, TokenSet, Token
    <3> HIDE DEF tok1, tok2
    <3>2. About(s1, tok1) \in Seq(ReportSet)
      BY <3>1, AboutIs
    <3> DEFINE a == About(s1, tok1)
    <3>3. a \o <<>> = a
      <4> HIDE DEF a
      <4>1. a \in Seq(ReportSet)
        BY <3>2 DEF a
      <4> QED BY <4>1
    <3> QED BY <2>c, <3>3
  <2> HIDE DEF tok1, tok2
  <2> QED BY <2>e, <2>f, <2>g, <2>h
<1> QED BY <1>3, <1>4

(* A string: its end, the end of its line, or one more character. *)
LEMMA StringGoes ==
  ASSUME NEW t, NEW ch, NEW toks, NEW rep, NEW p, Reader(t, ch, toks, rep, p, "STRING")
  PROVE  Goes(t, ch, toks, rep, InString(ch))
<1>0. "STRING" \in Buffered
  BY DEF Buffered, States, Quiet
<1>1. /\ t \in Seq(Chars) /\ Placed(t) /\ ch \in Chars /\ ch # "cr" /\ ch \in Chars \ {"cr"}
      /\ Told(t, toks, rep, p) /\ Waiting(t, p, buffer) /\ buffer[1] = "q"
      /\ \A j \in 2..Len(buffer) : buffer[j] \notin {"q", "nl"}
  BY <1>0, ReaderWaits DEF Shape
<1> DEFINE n == Len(buffer)
<1>2. /\ p \in 1..Len(t) /\ n \in Nat \ {0} /\ buffer \in Seq(Chars) /\ buffer # <<>>
      /\ p + n = Len(t) + 1 /\ Len(t) \in Nat
      /\ \A k \in 1..n : Append(t, ch)[p + k - 1] = buffer[k]
  BY <1>1, WaitIs
<1> DEFINE b == Append(buffer, ch)
<1>3. /\ b \in Seq(Chars) /\ Len(b) = n + 1 /\ b[n + 1] = ch /\ b # <<>>
      /\ \A j \in 1..n : b[j] = buffer[j]
      /\ \A j \in 1..(n + 1) : j \in 1..n \/ j = n + 1
  BY <1>1, <1>2, Appended
<1>4. /\ 1 \in 1..n /\ \A j \in 2..n : j \in 1..n
      /\ \A j \in 2..(n + 1) : j \in 2..n \/ j = n + 1
  BY <1>2
<1>b. b[1] = "q" /\ \A j \in 2..n : b[j] \notin {"q", "nl"}
  BY <1>1, <1>3, <1>4
<1> HIDE DEF b
<1>5. CASE ch = "q"
  <2>1. IsQuoted(b)
    <3>1. Len(b) >= 2 /\ Len(b) - 1 = n
      BY <1>2, <1>3
    <3> QED BY <1>3, <1>5, <1>b, <3>1, QuotedIs
  <2> DEFINE v == Append(t, ch)
             m == n + 1
             s == Slice(v, p, m)
  <2>2. v \in Seq(Chars) /\ Len(v) = Len(t) + 1 /\ v[Len(t) + 1] = ch
    BY <1>1, ExtendsIs
  <2>3. m \in Nat \ {0} /\ m \in Nat /\ p \in Nat \ {0} /\ p + m - 1 <= Len(v) /\ p + m - 1 = Len(t) + 1
    BY <1>2, <2>2
  <2>v. \A k \in 1..n : v[p + k - 1] = buffer[k]
    BY <1>2
  <2> HIDE DEF v, m
  <2>4. s \in Seq(Chars) /\ Len(s) = m /\ \A k \in 1..m : s[k] = v[p + k - 1]
    BY <2>2, <2>3, SliceIs
  <2>5. s = b
    <3> HIDE DEF s
    <3>1. \A k \in 1..m : k \in 1..n \/ k = n + 1
      BY <1>3 DEF m
    <3>2. \A k \in 1..m : s[k] = b[k]
      <4> SUFFICES ASSUME NEW k \in 1..m PROVE s[k] = b[k]
        OBVIOUS
      <4>1. CASE k \in 1..n
        BY <1>3, <2>v, <2>4, <4>1
      <4>2. CASE k = n + 1
        <5>1. k = m /\ p + k - 1 = Len(t) + 1
          BY <2>3, <4>2 DEF m
        <5> QED BY <1>3, <2>2, <2>4, <4>2, <5>1
      <4> QED BY <3>1, <4>1, <4>2
    <3>3. Len(s) = Len(b) /\ \A k \in 1..Len(s) : s[k] = b[k]
      BY <1>3, <2>4, <3>2 DEF m
    <3> QED BY <1>3, <2>4, <3>3, SeqEqual
  <2>6. CutIn(v, p, m)
    <3> SUFFICES ASSUME NEW u \in Seq(Chars), Extends(u, v)
                 PROVE  Cut(u, p, m)
      BY DEF CutIn
    <3>1. Slice(u, p, m) = b
      BY <2>2, <2>3, <2>5, SliceStays
    <3>2. p \in 1..Len(u) /\ p + m - 1 <= Len(u)
      <4>1. Len(v) <= Len(u) /\ Len(u) \in Nat
        BY DEF Extends
      <4> QED BY <1>2, <2>2, <2>3, <4>1
    <3> QED BY <2>1, <2>3, <3>1, <3>2, QuotedCut
  <2>7. TypeOf(b) = "TSTRG" /\ ~IsWord(b)
    <3>1. ~IsWord(b)
      <4>1. b[1] \notin Letters
        BY <1>b DEF Letters, Lower
      <4> QED BY <4>1 DEF IsWord
    <3> QED BY <1>3, <2>1, <3>1, TypeIs
  <2>8. ValOf(b) = Tail(buffer)
    <3> DEFINE k == n - 1
               x == Slice(b, 2, k)
               y == Tail(buffer)
    <3>1. ValOf(b) = Slice(b, 2, Len(b) - 2)
      BY <1>3, <2>1, ValIs
    <3>2. k \in Nat /\ 2 \in Nat \ {0} /\ 2 + k - 1 <= Len(b) /\ Len(b) - 2 = k
      BY <1>2, <1>3
    <3>3. y \in Seq(Chars) /\ Len(y) = n - 1 /\ \A j \in 1..(n - 1) : y[j] = buffer[j + 1]
      BY <1>2
    <3> HIDE DEF k, y
    <3>4. x \in Seq(Chars) /\ Len(x) = k /\ \A j \in 1..k : x[j] = b[2 + j - 1]
      BY <1>3, <3>2, SliceIs
    <3> HIDE DEF x
    <3>5. \A j \in 1..k : 2 + j - 1 = j + 1 /\ j + 1 \in 1..n
      BY <1>2 DEF k
    <3>6. \A j \in 1..k : x[j] = y[j]
      BY <1>3, <3>3, <3>4, <3>5 DEF k
    <3>7. Len(x) = Len(y) /\ \A j \in 1..Len(x) : x[j] = y[j]
      BY <3>3, <3>4, <3>6 DEF k
    <3>8. x = y
      BY <3>3, <3>4, <3>7, SeqEqual
    <3> QED BY <3>1, <3>2, <3>8 DEF x, y
  <2> DEFINE tok == Token(TypeOf(b), ValOf(b), row, Back(ch))
  <2>9. tok = Token("TSTRG", Tail(buffer), row, Back(ch))
    BY <2>7, <2>8
  <2>a. /\ CutIn(Append(t, ch), p, Len(buffer) + 1) /\ TypeOf(b) # "TUNDF"
        /\ b = Slice(Append(t, ch), p, Len(buffer) + 1)
    BY <2>5, <2>6, <2>7 DEF v, m
  <2> HIDE DEF tok, n
  <2>b. Goes(t, ch, toks, rep, Made(tok))
    BY <1>1, <2>7, <2>a, FullGoes DEF tok
  <2> QED BY <1>5, <2>9, <2>b DEF InString
<1>6. CASE ch = "nl"
  <2>1. ASSUME NEW u \in Seq(Chars), Extends(u, Append(t, ch))
        PROVE  Cut(u, p, n) /\ ~IsSpelling(Slice(u, p, n)) /\ Slice(u, p, n) = buffer
    <3>1. /\ p \in 1..Len(u) /\ p + n <= Len(u) /\ u[p + n] = ch
          /\ Slice(u, p, n) = buffer
          /\ \A k \in 1..n : u[p + k - 1] = buffer[k]
      BY <1>1, <2>1, Ahead
    <3>2. u[p] = "q"
      <4>1. 1 \in 1..n /\ p + 1 - 1 = p
        BY <1>2
      <4> QED BY <1>1, <3>1, <4>1
    <3>4. \A j \in (p + 1)..(p + n - 1) : u[j] \notin {"q", "nl"}
      <4> SUFFICES ASSUME NEW j \in (p + 1)..(p + n - 1) PROVE u[j] \notin {"q", "nl"}
        OBVIOUS
      <4> DEFINE k == j - p + 1
      <4>1. k \in 1..n /\ k \in 2..Len(buffer) /\ p + k - 1 = j
        BY <1>2
      <4> HIDE DEF k
      <4>2. u[p + k - 1] = buffer[k] /\ buffer[k] \notin {"q", "nl"}
        BY <1>1, <3>1, <4>1
      <4> QED BY <4>1, <4>2
    <3> HIDE DEF n
    <3> QED BY <1>2, <1>6, <3>1, <3>2, <3>4, OpenCut
  <2>2. CutIn(Append(t, ch), p, Len(buffer))
    BY <1>1, <2>1 DEF CutIn
  <2>3. ~IsSpelling(buffer)
    <3> DEFINE v == Append(t, ch)
    <3>1. v \in Seq(Chars)
      BY <1>1
    <3> HIDE DEF v
    <3>2. Extends(v, v)
      BY <3>1 DEF Extends
    <3>3. Extends(v, Append(t, ch))
      BY <3>2 DEF v
    <3> QED BY <2>1, <3>1, <3>3
  <2>4. TypeOf(buffer) = "TUNDF"
    BY <1>2, <2>3, TypeIs
  <2>5. ValOf(buffer) = buffer
    BY <1>2, <2>4, ValIs
  <2> DEFINE tok == Token(TypeOf(buffer), ValOf(buffer), row, Back(ch))
             made == <<tok>>
             said == <<Report("error", row, Back(ch))>>
  <2>6. tok = Token("TUNDF", buffer, row, Back(ch))
    BY <2>4, <2>5
  <2>7. About(buffer, tok) = said
    <3>1. tok.row = row /\ tok.col = Back(ch)
      BY DEF Token
    <3> HIDE DEF tok
    <3> QED BY <2>4, <3>1 DEF About
  <2> HIDE DEF tok
  <2>8. Goes(t, ch, toks, rep, Flush(made, About(buffer, tok), ch))
    BY <1>1, <2>2, OneGoes DEF tok
  <2>9. FromStart(ch) = Effect("START", <<>>, <<>>, <<>>)
    <3>1. ch \in Blanks
      BY <1>6 DEF Blanks
    <3>2. ch \notin DOMAIN Lone
      BY <1>6 DEF Lone
    <3>3. ch \notin Letters \cup Digits \cup Signs \cup {"q"}
      BY <1>6 DEF Letters, Lower, Digits, Signs
    <3> QED BY <3>1, <3>2, <3>3 DEF FromStart, Go, Signs
  <2>a. Flush(made, said, ch) = Effect("START", <<>>, made \o <<>>, said \o <<>>)
    <3>1. \A x, y, z, r : FromStart(ch) = Effect(x, y, z, r) =>
            Flush(made, said, ch) = Effect(x, y, made \o z, said \o r)
      BY FlushIs
    <3> QED BY <2>9, <3>1
  <2>b. made \o <<>> = made /\ said \o <<>> = said
    OBVIOUS
  <2>c. InString(ch) = Effect("START", <<>>, made, said)
    BY <1>6, <2>6 DEF InString
  <2> HIDE DEF made, said
  <2> QED BY <2>7, <2>8, <2>a, <2>b, <2>c
<1>7. CASE ch \notin {"q", "nl"}
  <2>1. Shape("STRING", b)
    <3>1. \A j \in 2..Len(b) : b[j] \notin {"q", "nl"}
      BY <1>3, <1>4, <1>7, <1>b
    <3> QED BY <1>b, <3>1 DEF Shape
  <2>2. Goes(t, ch, toks, rep, Shift("STRING", ch))
    BY <1>0, <1>1, <1>7, <2>1, ShiftGoes DEF b
  <2> QED BY <1>7, <2>2 DEF InString
<1> QED BY <1>5, <1>6, <1>7

(* A text t with a comment that is open at p, and the text v with one more
   character. *)
Grown(t, ch, p, v) ==
  /\ v \in Seq(Chars) /\ Len(v) = Len(t) + 1 /\ v[Len(v)] = ch
  /\ \A j \in 1..Len(t) : v[j] = t[j]
  /\ p \in 1..Len(v) /\ OpensComment(v, p) /\ p + 2 <= Len(t) /\ v[p + 1] = t[p + 1]
  /\ t[p] = "/" /\ t[p + 1] \in {"*", "-"} /\ t[p + 2] = t[p + 1]
  /\ CommentEnds(v, p) \subseteq {Len(v)}
  /\ t[p + 1] = "*" => (Len(v) \in CommentEnds(v, p) <=>
       Len(t) >= p + 4 /\ t[Len(t) - 1] = "*" /\ t[Len(t)] = "*" /\ ch = "/")
  /\ t[p + 1] = "-" => (Len(v) \in CommentEnds(v, p) <=> ch = "nl")

(* A comment that is open goes on in the text with one more character, or ends
   there. *)
LEMMA CommentGrows ==
  ASSUME NEW t \in Seq(Chars), NEW ch \in Chars, NEW p \in 1..Len(t), OpensComment(t, p),
         CommentEnds(t, p) = {}, NEW v, v = Append(t, ch)
  PROVE  Grown(t, ch, p, v)
<1>1. /\ v \in Seq(Chars) /\ Len(v) = Len(t) + 1 /\ v[Len(v)] = ch /\ Len(t) \in Nat
      /\ \A j \in 1..Len(t) : v[j] = t[j]
  <2>1. /\ v \in Seq(Chars) /\ Len(v) = Len(t) + 1 /\ v[Len(t) + 1] = ch /\ Len(t) \in Nat
        /\ \A j \in 1..Len(t) : v[j] = t[j]
    BY ExtendsIs
  <2> QED BY <2>1
<1>2. /\ p + 2 <= Len(t) /\ t[p] = "/"
      /\ \/ t[p + 1] = "*" /\ t[p + 2] = "*"
         \/ t[p + 1] = "-" /\ t[p + 2] = "-"
      /\ (Slice(t, p, 3) = <<"/", "*", "*">> <=> t[p + 1] = "*")
  BY OpensIs
<1>3. /\ p \in Nat \ {0} /\ p \in 1..Len(v) /\ p \in 1..Len(t) /\ p + 1 \in 1..Len(t)
      /\ p + 2 \in 1..Len(t) /\ p + 2 <= Len(v)
  BY <1>1, <1>2
<1>4. v[p] = t[p] /\ v[p + 1] = t[p + 1] /\ v[p + 2] = t[p + 2]
  BY <1>1, <1>3
<1>5. OpensComment(v, p) /\ (Slice(v, p, 3) = <<"/", "*", "*">> <=> v[p + 1] = "*")
  <2>1. /\ v \in Seq(Chars) /\ p \in Nat \ {0} /\ p + 2 <= Len(v) /\ v[p] = "/"
        /\ \/ v[p + 1] = "*" /\ v[p + 2] = "*"
           \/ v[p + 1] = "-" /\ v[p + 2] = "-"
    BY <1>1, <1>2, <1>3, <1>4
  <2>2. p \in 1..Len(v)
    BY <1>3
  <2>3. OpensComment(v, p)
    BY ONLY <2>1, <2>2, OpensIs
  <2>4. Slice(v, p, 3) = <<"/", "*", "*">> <=> v[p + 1] = "*"
    BY ONLY <2>1, <2>2, <2>3, OpensIs
  <2> QED BY <2>3, <2>4
<1>6. ASSUME NEW j, j \in (p + 5)..Len(v)
      PROVE  Slice(v, j - 2, 3) = <<"*", "*", "/">> <=> v[j - 2] = "*" /\ v[j - 1] = "*" /\ v[j] = "/"
  <2> DEFINE i == j - 2
             x == Slice(v, i, 3)
  <2>1. i \in Nat \ {0} /\ 3 \in Nat /\ i + 3 - 1 <= Len(v) /\ i + 1 = j - 1 /\ i + 2 = j
    BY <1>1, <1>3, <1>6
  <2> HIDE DEF i
  <2>2. x \in Seq(Chars) /\ Len(x) = 3 /\ \A k \in 1..3 : x[k] = v[i + k - 1]
    BY <1>1, <2>1, SliceIs
  <2> HIDE DEF x
  <2>3. x[1] = v[i] /\ x[2] = v[i + 1] /\ x[3] = v[i + 2]
    BY <2>1, <2>2
  <2>4. x = <<x[1], x[2], x[3]>>
    BY <2>2
  <2>5. x = <<"*", "*", "/">> <=> x[1] = "*" /\ x[2] = "*" /\ x[3] = "/"
    BY <2>4
  <2>6. x = <<"*", "*", "/">> <=> v[j - 2] = "*" /\ v[j - 1] = "*" /\ v[j] = "/"
    BY <2>1, <2>3, <2>5 DEF i
  <2> QED BY <2>6 DEF x, i
<1>7. CASE t[p + 1] = "*"
  <2>1. CommentEnds(v, p) = {j \in (p + 5)..Len(v) : Slice(v, j - 2, 3) = <<"*", "*", "/">>}
    BY <1>4, <1>5, <1>7 DEF CommentEnds
  <2>2. CommentEnds(t, p) = {j \in (p + 5)..Len(t) : Slice(t, j - 2, 3) = <<"*", "*", "/">>}
    BY <1>2, <1>7 DEF CommentEnds
  <2>3. ASSUME NEW j \in (p + 5)..Len(t) PROVE Slice(v, j - 2, 3) = Slice(t, j - 2, 3)
    <3> DEFINE i == j - 2
    <3>1. i \in Nat \ {0} /\ 3 \in Nat /\ i + 3 - 1 <= Len(t)
      BY <1>1, <1>3
    <3> HIDE DEF i
    <3>2. Extends(v, t)
      BY <1>1 DEF Extends
    <3>3. Slice(v, i, 3) = Slice(t, i, 3)
      BY <1>1, <3>1, <3>2, SliceStays
    <3> QED BY <3>3 DEF i
  <2>4. \A j \in CommentEnds(v, p) : j = Len(v)
    <3> SUFFICES ASSUME NEW j \in CommentEnds(v, p), j # Len(v) PROVE FALSE
      OBVIOUS
    <3>1. j \in (p + 5)..Len(v) /\ Slice(v, j - 2, 3) = <<"*", "*", "/">>
      BY <2>1
    <3>2. j \in (p + 5)..Len(t)
      <4>1. j \in (p + 5)..Len(v) /\ j # Len(v) /\ Len(v) = Len(t) + 1 /\ Len(t) \in Nat
            /\ p \in Nat
        BY <1>1, <1>3, <3>1
      <4> QED BY ONLY <4>1
    <3>3. j \in CommentEnds(t, p)
      BY <2>2, <2>3, <3>1, <3>2
    <3> QED BY <3>3
  <2>5. Len(v) \in CommentEnds(v, p) <=>
          Len(t) >= p + 4 /\ t[Len(t) - 1] = "*" /\ t[Len(t)] = "*" /\ ch = "/"
    <3>1. Len(v) \in (p + 5)..Len(v) <=> Len(t) >= p + 4
      BY <1>1, <1>3
    <3>2. Len(v) - 2 = Len(t) - 1 /\ Len(v) - 1 = Len(t)
      BY <1>1
    <3>3. Len(t) >= p + 4 => v[Len(t) - 1] = t[Len(t) - 1] /\ v[Len(t)] = t[Len(t)]
      <4>1. Len(t) >= p + 4 => Len(t) - 1 \in 1..Len(t) /\ Len(t) \in 1..Len(t)
        BY <1>1, <1>3
      <4> QED BY <1>1, <4>1
    <3> DEFINE l == Len(v)
    <3> HIDE DEF l
    <3>4. l \in CommentEnds(v, p) <=> l \in (p + 5)..Len(v) /\ v[l - 2] = "*" /\ v[l - 1] = "*"
                                      /\ v[l] = "/"
      BY <1>6, <2>1
    <3> QED BY <1>1, <3>1, <3>2, <3>3, <3>4 DEF l
  <2> HIDE DEF CommentEnds
  <2> QED BY <1>1, <1>2, <1>3, <1>4, <1>5, <1>7, <2>4, <2>5 DEF Grown
<1>8. CASE t[p + 1] = "-"
  <2>1. CommentEnds(v, p) = {j \in (p + 3)..Len(v) : v[j] = "nl"}
    BY <1>4, <1>5, <1>8 DEF CommentEnds
  <2>2. CommentEnds(t, p) = {j \in (p + 3)..Len(t) : t[j] = "nl"}
    BY <1>2, <1>8 DEF CommentEnds
  <2>4. \A j \in CommentEnds(v, p) : j = Len(v)
    <3> SUFFICES ASSUME NEW j \in CommentEnds(v, p), j # Len(v) PROVE FALSE
      OBVIOUS
    <3>1. j \in (p + 3)..Len(v) /\ v[j] = "nl"
      BY <2>1
    <3>2. j \in (p + 3)..Len(t) /\ j \in 1..Len(t)
      BY <1>1, <1>3, <3>1
    <3>3. j \in CommentEnds(t, p)
      BY <1>1, <2>2, <3>1, <3>2
    <3> QED BY <3>3
  <2>5. Len(v) \in CommentEnds(v, p) <=> ch = "nl"
    <3>1. Len(v) \in (p + 3)..Len(v)
      BY <1>1, <1>2, <1>3
    <3> QED BY <1>1, <2>1, <3>1
  <2> HIDE DEF CommentEnds
  <2> QED BY <1>1, <1>2, <1>3, <1>4, <1>5, <1>8, <2>4, <2>5 DEF Grown
<1> QED BY <1>2, <1>7, <1>8

(* It stays open, *)
LEMMA InsideGoes ==
  ASSUME NEW t \in Seq(Chars), NEW ch \in Chars, NEW toks, NEW rep, NEW p,
         Told(t, toks, rep, p), NEW s \in Quiet \ {"START"}, Within(Append(t, ch), p, s)
  PROVE  Goes(t, ch, toks, rep, Go(s, <<>>))
<1> DEFINE v == Append(t, ch)
           e == Go(s, <<>>)
<1>1. e.state = s /\ e.buffer = <<>> /\ e.made = <<>> /\ e.said = <<>>
  BY DEF Go, Effect
<1>2. toks \o <<>> = toks /\ rep \o <<>> = rep
  <2>1. toks \in Seq(Tokens) /\ rep \in Seq(ReportSet)
    BY ToldTyped
  <2> QED BY <2>1
<1>3. Told(v, toks, rep, p)
  BY ToldGrows
<1>4. Pending(v, p, s, <<>>)
  <2>1. s # "START" /\ s \notin Buffered
    BY DEF Buffered
  <2> HIDE DEF v
  <2> QED BY <2>1 DEF Pending, v
<1>5. p \in 1..(Len(t) + 2)
  <2>1. Len(v) = Len(t) + 1 /\ Len(t) \in Nat
    BY ExtendsIs
  <2>2. p \in 1..Len(v)
    BY DEF Within
  <2> QED BY <2>1, <2>2
<1> HIDE DEF v, e
<1>6. Told(v, toks \o e.made, rep \o e.said, p) /\ Pending(v, p, e.state, e.buffer)
  BY <1>1, <1>2, <1>3, <1>4
<1> QED BY <1>5, <1>6 DEF Goes, v, e

(* or ends. *)
LEMMA CloseGoes ==
  ASSUME NEW t \in Seq(Chars), NEW ch \in Chars, NEW toks, NEW rep, NEW p,
         Told(t, toks, rep, p), p <= Len(t), OpensComment(Append(t, ch), p),
         Len(Append(t, ch)) \in CommentEnds(Append(t, ch), p),
         CommentEnds(Append(t, ch), p) \subseteq {Len(Append(t, ch))}
  PROVE  Goes(t, ch, toks, rep, Go("START", <<>>))
<1> DEFINE v == Append(t, ch)
           l == Len(v)
<1>1. v \in Seq(Chars) /\ l = Len(t) + 1 /\ Len(t) \in Nat /\ l + 1 = Len(t) + 2
  <2>1. v \in Seq(Chars) /\ l = Len(t) + 1 /\ Len(t) \in Nat
    BY ExtendsIs
  <2> QED BY <2>1
<1>2. Told(v, toks, rep, p)
  BY ToldGrows
<1>3. OpensComment(v, p) /\ l \in CommentEnds(v, p) /\ \A j \in CommentEnds(v, p) : l <= j
  <2>1. l \in CommentEnds(v, p) /\ \A j \in CommentEnds(v, p) : j = l
    OBVIOUS
  <2> HIDE DEF CommentEnds
  <2> QED BY <1>1, <2>1
<1>4. l \in 1..Len(v) /\ p <= Len(v)
  <2>1. p \in 1..(Len(v) + 1)
    BY <1>2 DEF Told
  <2> HIDE DEF v
  <2> QED BY <1>1, <2>1
<1> HIDE DEF v, l
<1>5. Told(v, toks, rep, l + 1)
  BY <1>1, <1>2, <1>3, <1>4, ToldComment
<1>6. toks \o <<>> = toks /\ rep \o <<>> = rep
  <2>1. toks \in Seq(Tokens) /\ rep \in Seq(ReportSet)
    BY ToldTyped
  <2> QED BY <2>1
<1>7. Told(Append(t, ch), toks \o <<>>, rep \o <<>>, Len(t) + 2)
  BY <1>1, <1>5, <1>6 DEF v
<1> QED BY <1>7, DoneGoes DEF Go

(* What the comment states find. *)
LEMMA ReaderInside ==
  ASSUME NEW t, NEW ch, NEW toks, NEW rep, NEW p, NEW s \in Quiet \ {"START"},
         Reader(t, ch, toks, rep, p, s)
  PROVE  /\ t \in Seq(Chars) /\ ch \in Chars /\ Told(t, toks, rep, p) /\ Within(t, p, s)
         /\ p \in 1..Len(t) /\ p <= Len(t) /\ OpensComment(t, p) /\ CommentEnds(t, p) = {}
         /\ ~OddIn(Append(t, ch)) /\ Len(t) \in Nat /\ p \in Nat
         /\ t[p + 1] \in {"*", "-"} /\ (s = "SL_COM" <=> t[p + 1] = "-")
<1>1. /\ t \in Seq(Chars) /\ ch \in Chars /\ Told(t, toks, rep, p) /\ Within(t, p, s)
      /\ ~OddIn(Append(t, ch))
  BY DEF Reader, Pending
<1>2. p \in 1..Len(t) /\ OpensComment(t, p) /\ CommentEnds(t, p) = {}
      /\ (s = "SL_COM" <=> t[p + 1] = "-")
  BY <1>1 DEF Within
<1>3. t[p + 1] \in {"*", "-"}
  BY <1>1, <1>2, OpensIs
<1> QED BY <1>1, <1>2, <1>3

(* The four states inside a comment: it ends at its first end, and not before. *)
LEMMA CommentGoes ==
  ASSUME NEW t, NEW ch, NEW toks, NEW rep, NEW p, NEW s \in Quiet \ {"START"},
         Reader(t, ch, toks, rep, p, s)
  PROVE  /\ s = "SL_COM" => Goes(t, ch, toks, rep, InSlCom(ch))
         /\ s = "ML_COM" => Goes(t, ch, toks, rep, InMlCom(ch))
         /\ s = "ML_COMSTR" => Goes(t, ch, toks, rep, InMlComstr(ch))
         /\ s = "ML_COMSTRSTR" => Goes(t, ch, toks, rep, InMlComstrstr(ch))
<1> DEFINE v == Append(t, ch)
           l == Len(t)
<1>1. /\ t \in Seq(Chars) /\ ch \in Chars /\ Told(t, toks, rep, p) /\ Within(t, p, s)
      /\ p \in 1..Len(t) /\ p <= Len(t) /\ OpensComment(t, p) /\ CommentEnds(t, p) = {}
      /\ ~OddIn(v) /\ l \in Nat /\ p \in Nat
      /\ t[p + 1] \in {"*", "-"} /\ (s = "SL_COM" <=> t[p + 1] = "-")
  BY ReaderInside
<1>2. /\ v \in Seq(Chars) /\ Len(v) = l + 1 /\ v[Len(v)] = ch
      /\ \A j \in 1..l : v[j] = t[j]
      /\ p \in 1..Len(v) /\ OpensComment(v, p) /\ p + 2 <= l /\ v[p + 1] = t[p + 1]
      /\ t[p + 2] = t[p + 1]
      /\ CommentEnds(v, p) \subseteq {Len(v)}
      /\ t[p + 1] = "*" => (Len(v) \in CommentEnds(v, p) <=>
           l >= p + 4 /\ t[l - 1] = "*" /\ t[l] = "*" /\ ch = "/")
      /\ t[p + 1] = "-" => (Len(v) \in CommentEnds(v, p) <=> ch = "nl")
  <2>1. /\ t \in Seq(Chars) /\ ch \in Chars /\ p \in 1..Len(t) /\ OpensComment(t, p)
        /\ CommentEnds(t, p) = {} /\ v = Append(t, ch)
    BY <1>1
  <2> HIDE DEF v
  <2>2. Grown(t, ch, p, v)
    BY ONLY <2>1, CommentGrows
  <2> HIDE DEF CommentEnds
  <2> QED BY <2>2 DEF Grown
<1>3. v[l] = t[l] /\ Len(v) - 1 = l /\ l \in 1..l
  BY <1>1, <1>2
<1>4. CASE Len(v) \in CommentEnds(v, p)
  <2>1. Goes(t, ch, toks, rep, Go("START", <<>>))
    <3>1. /\ Len(Append(t, ch)) \in CommentEnds(Append(t, ch), p)
          /\ CommentEnds(Append(t, ch), p) \subseteq {Len(Append(t, ch))}
          /\ OpensComment(Append(t, ch), p)
      BY <1>2, <1>4
    <3> HIDE DEF v, l
    <3> QED BY <1>1, <3>1, CloseGoes
  <2>2. s = "SL_COM" => InSlCom(ch) = Go("START", <<>>)
    BY <1>1, <1>2, <1>4 DEF InSlCom
  <2>3. s = "ML_COM" \/ s = "ML_COMSTR" => FALSE
    <3>1. s = "ML_COM" \/ s = "ML_COMSTR" =>
            t[p + 1] = "*" /\ l >= p + 4 /\ t[l - 1] = "*" /\ t[l] = "*"
      BY <1>1, <1>2, <1>4
    <3>2. s = "ML_COM" => l = p + 2 \/ t[l] # "*"
      BY <1>1 DEF Within
    <3>3. s = "ML_COMSTR" => l = p + 3 \/ t[l - 1] # "*"
      BY <1>1 DEF Within
    <3>4. l >= p + 4 => l # p + 2 /\ l # p + 3
      BY <1>1
    <3> HIDE DEF l
    <3> QED BY <3>1, <3>2, <3>3, <3>4
  <2>4. s = "ML_COMSTRSTR" => InMlComstrstr(ch) = Go("START", <<>>)
    <3>1. s = "ML_COMSTRSTR" => ch = "/"
      BY <1>1, <1>2, <1>4
    <3> QED BY <3>1 DEF InMlComstrstr
  <2> HIDE DEF v, l
  <2> QED BY <2>1, <2>2, <2>3, <2>4
<1>5. CASE Len(v) \notin CommentEnds(v, p)
  <2>1. CommentEnds(v, p) = {}
    <3> HIDE DEF CommentEnds
    <3> QED BY <1>2, <1>5
  <2> DEFINE Holds(r) ==
        /\ r = "SL_COM" <=> v[p + 1] = "-"
        /\ r = "ML_COM" => Len(v) = p + 2 \/ v[Len(v)] # "*"
        /\ r = "ML_COMSTR" => /\ Len(v) >= p + 3 /\ v[Len(v)] = "*"
                              /\ Len(v) = p + 3 \/ v[Len(v) - 1] # "*"
        /\ r = "ML_COMSTRSTR" => Len(v) >= p + 4 /\ v[Len(v)] = "*" /\ v[Len(v) - 1] = "*"
  <2>2. ASSUME NEW r \in Quiet \ {"START"}, Holds(r)
        PROVE  Goes(t, ch, toks, rep, Go(r, <<>>))
    <3>1. Within(v, p, r)
      <4> HIDE DEF v, CommentEnds
      <4> QED BY <1>2, <2>1, <2>2 DEF Within
    <3>2. Within(Append(t, ch), p, r)
      BY <3>1
    <3> HIDE DEF v, l, Holds
    <3> QED BY <1>1, <2>2, <3>2, InsideGoes
  <2> DEFINE last == v[Len(v)]
             prev == v[Len(v) - 1]
  <2>3. /\ last = ch /\ prev = t[l] /\ Len(v) = l + 1 /\ l >= p + 2 /\ v[p + 1] = t[p + 1]
    BY <1>1, <1>2, <1>3
  <2>4. {"SL_COM", "ML_COM", "ML_COMSTR", "ML_COMSTRSTR"} = Quiet \ {"START"}
    BY DEF Quiet
  <2>5. s = "SL_COM" => Goes(t, ch, toks, rep, InSlCom(ch))
    <3>1. s = "SL_COM" => ch # "nl" /\ v[p + 1] = "-"
      BY <1>1, <1>2, <1>5
    <3>2. s = "SL_COM" => InSlCom(ch) = Go("SL_COM", <<>>)
      BY <3>1 DEF InSlCom
    <3>3. s = "SL_COM" => Holds("SL_COM")
      BY <3>1
    <3> HIDE DEF Holds
    <3> QED BY <2>2, <2>4, <3>2, <3>3
  <2>6. s # "SL_COM" => v[p + 1] # "-" /\ t[p + 1] = "*"
    BY <1>1, <1>2
  <2>7. s = "ML_COM" => Goes(t, ch, toks, rep, InMlCom(ch))
    <3>1. s = "ML_COM" => l = p + 2 \/ t[l] # "*"
      BY <1>1 DEF Within
    <3> HIDE DEF v, l
    <3>2. s = "ML_COM" /\ ch = "*" => Holds("ML_COMSTR")
      BY <1>1, <2>3, <2>6, <3>1
    <3>3. s = "ML_COM" /\ ch # "*" => Holds("ML_COM")
      BY <1>1, <2>3, <2>6
    <3> HIDE DEF Holds
    <3> QED BY <2>2, <2>4, <3>2, <3>3 DEF InMlCom
  <2>8. s = "ML_COMSTR" => Goes(t, ch, toks, rep, InMlComstr(ch))
    <3>1. s = "ML_COMSTR" => l >= p + 3 /\ t[l] = "*"
      BY <1>1 DEF Within
    <3> HIDE DEF v, l
    <3>2. s = "ML_COMSTR" /\ ch = "*" => Holds("ML_COMSTRSTR")
      BY <1>1, <2>3, <2>6, <3>1
    <3>3. s = "ML_COMSTR" /\ ch # "*" => Holds("ML_COM")
      BY <1>1, <2>3, <2>6
    <3> HIDE DEF Holds
    <3> QED BY <2>2, <2>4, <3>2, <3>3 DEF InMlComstr
  <2>9. s = "ML_COMSTRSTR" => Goes(t, ch, toks, rep, InMlComstrstr(ch))
    <3>1. s = "ML_COMSTRSTR" => l >= p + 4 /\ t[l] = "*" /\ t[l - 1] = "*"
      BY <1>1 DEF Within
    <3>2. s = "ML_COMSTRSTR" => ch # "/"
      BY <1>1, <1>2, <1>5, <2>6, <3>1
    <3>3. s = "ML_COMSTRSTR" => ch # "*"
      <4> DEFINE i == l - 1
      <4>1. s = "ML_COMSTRSTR" => i \in 1..l /\ i \in 1..Len(v) /\ i + 2 <= Len(v)
                                   /\ i + 1 = l /\ i + 2 = Len(v)
        BY <1>1, <1>2, <3>1
      <4> HIDE DEF i
      <4>2. s = "ML_COMSTRSTR" => v[i] = "*" /\ v[i + 1] = "*" /\ v[i + 2] = ch
        BY <1>2, <1>3, <3>1, <4>1 DEF i
      <4> HIDE DEF v, l
      <4>3. s = "ML_COMSTRSTR" => ~(v[i] = "*" /\ v[i + 1] = "*" /\ v[i + 2] = "*")
        BY <1>1, <1>2, <4>1, NotOdd
      <4> QED BY <4>2, <4>3
    <3>4. s = "ML_COMSTRSTR" => Holds("ML_COM")
      BY <1>1, <2>3, <2>6, <3>3
    <3> HIDE DEF Holds, v, l
    <3> QED BY <2>2, <2>4, <3>2, <3>4 DEF InMlComstrstr
  <2> HIDE DEF v, l, Holds
  <2> QED BY <2>5, <2>7, <2>8, <2>9
<1> QED BY <1>4, <1>5

(* A slash and a star or a bar: the comment opens, or they are two signs. *)
LEMMA SlashAndGoes ==
  ASSUME NEW t, NEW ch, NEW toks, NEW rep, NEW p, NEW s \in {"SLASHSTAR", "SLASHMINUS"},
         Reader(t, ch, toks, rep, p, s),
         NEW sign, sign = IF s = "SLASHSTAR" THEN "*" ELSE "-",
         NEW comment, comment = IF s = "SLASHSTAR" THEN "ML_COM" ELSE "SL_COM"
  PROVE  Goes(t, ch, toks, rep, SlashAnd(sign, comment, ch))
<1>0. s \in Buffered
  BY DEF Buffered, States, Quiet
<1> DEFINE v == Append(t, ch)
<1>1. /\ t \in Seq(Chars) /\ Placed(t) /\ ch \in Chars /\ ch # "cr" /\ ch \in Chars \ {"cr"}
      /\ Told(t, toks, rep, p) /\ Waiting(t, p, buffer)
      /\ Len(buffer) = 2 /\ buffer[1] = "/" /\ buffer[2] = sign /\ ~OddIn(v)
  BY <1>0, ReaderWaits DEF Shape
<1>2. /\ v \in Seq(Chars) /\ Len(v) = Len(t) + 1 /\ v[Len(t) + 1] = ch /\ Len(t) \in Nat
  BY <1>1, ExtendsIs
<1>3. /\ p \in 1..Len(t) /\ p + 1 = Len(t) /\ p + 2 = Len(v) /\ v[p] = "/" /\ v[p + 1] = sign
      /\ v[p + 2] = ch /\ \A j \in p..Len(t) : t[j] # "nl"
  <2>1. /\ p \in 1..Len(t) /\ p + Len(buffer) = Len(t) + 1
        /\ \A k \in 1..Len(buffer) : v[p + k - 1] = buffer[k]
        /\ \A j \in p..Len(t) : t[j] # "nl"
    <3>1. ch \in Chars /\ Waiting(t, p, buffer) /\ t \in Seq(Chars)
      BY <1>1
    <3> QED BY ONLY <3>1, WaitIs
  <2>2. 1 \in 1..Len(buffer) /\ 2 \in 1..Len(buffer) /\ p + 1 - 1 = p /\ p + 2 - 1 = p + 1
    BY <1>1, <2>1
  <2> HIDE DEF v
  <2>3. v[p] = "/" /\ v[p + 1] = sign
    BY <1>1, <2>1, <2>2
  <2>4. p + 1 = Len(t) /\ p + 2 = Len(t) + 1
    BY <1>1, <1>2, <2>1
  <2> QED BY <1>2, <2>1, <2>3, <2>4
<1>4. CASE ch = sign
  <2>1. OpensComment(v, p)
    <3>1. p \in 1..Len(v) /\ p + 2 <= Len(v)
      BY <1>2, <1>3
    <3> HIDE DEF v
    <3> QED BY <1>2, <1>3, <1>4, <3>1, OpensIs
  <2> HIDE DEF v
  <2>2. CommentEnds(v, p) = {}
    <3>1. p \in 1..Len(v) /\ (p + 3)..Len(v) = {}
      BY <1>2, <1>3
    <3>2. CommentEnds(v, p) \subseteq (p + 3)..Len(v)
      BY <1>2, <3>1, CommentIs
    <3> HIDE DEF CommentEnds
    <3> QED BY <3>1, <3>2
  <2>3. Within(v, p, comment)
    <3>1. p \in 1..Len(v) /\ Len(v) = p + 2
      BY <1>2, <1>3
    <3> HIDE DEF CommentEnds
    <3> QED BY <1>3, <2>1, <2>2, <3>1 DEF Within
  <2>4. Goes(t, ch, toks, rep, Go(comment, <<>>))
    <3>1. comment \in Quiet \ {"START"}
      BY DEF Quiet
    <3> QED BY <1>1, <2>3, <3>1, InsideGoes DEF v
  <2> QED BY <1>4, <2>4 DEF SlashAnd
<1>5. CASE ch # sign
  <2>1. sign \in {"*", "-"} /\ sign \in DOMAIN Alone /\ "/" \in DOMAIN Alone /\ Alone["/"] = "TDIVD"
        /\ Alone[sign] \in {"TSTAR", "TMINS"}
    BY DEF Alone
  <2>2. ch # "="
    <3>1. p \in 1..Len(v) /\ p + 2 <= Len(v)
      BY <1>2, <1>3
    <3> HIDE DEF v
    <3>2. ~(v[p] = "/" /\ v[p + 1] \in {"*", "-"} /\ v[p + 2] = "=")
      BY <1>1, <1>2, <3>1, NotOdd
    <3> QED BY <1>3, <2>1, <3>2
  <2> DEFINE s1 == Slice(v, p, 1)
             s2 == Slice(v, p + 1, 1)
  <2>3. /\ CutIn(v, p, 1) /\ CutIn(v, p + 1, 1)
        /\ OperatorOf(s1) = "TDIVD" /\ OperatorOf(s2) = Alone[sign]
    <3>1. ASSUME NEW u \in Seq(Chars), Extends(u, v)
          PROVE  /\ Cut(u, p, 1) /\ Cut(u, p + 1, 1)
                 /\ OperatorOf(Slice(u, p, 1)) = "TDIVD"
                 /\ OperatorOf(Slice(u, p + 1, 1)) = Alone[sign]
      <4>1. Len(v) <= Len(u) /\ p + 2 <= Len(u) /\ p \in 1..Len(u) /\ p + 1 \in 1..Len(u)
        <5>1. Len(v) <= Len(u) /\ Len(u) \in Nat
          BY <3>1 DEF Extends
        <5> QED BY <1>2, <1>3, <5>1
      <4>2. u[p] = "/" /\ u[p + 1] = sign /\ u[p + 2] = ch
        <5>1. p \in 1..Len(v) /\ p + 1 \in 1..Len(v) /\ p + 2 \in 1..Len(v)
          BY <1>2, <1>3
        <5> QED BY <1>3, <3>1, <5>1 DEF Extends
      <4>3. ~OpensComment(u, p)
        BY <1>5, <2>1, <4>1, <4>2, OpensIs
      <4>4. Cut(u, p, 1) /\ OperatorOf(Slice(u, p, 1)) = "TDIVD"
        <5>1. p + 1 <= Len(u) /\ u[p + 1] # "="
          BY <1>3, <2>1, <4>1, <4>2
        <5> QED BY <2>1, <4>1, <4>2, <4>3, <5>1, AloneCut
      <4>5. Cut(u, p + 1, 1) /\ OperatorOf(Slice(u, p + 1, 1)) = Alone[sign]
        <5> DEFINE q == p + 1
        <5>1. q \in 1..Len(u) /\ q + 1 <= Len(u) /\ u[q] = sign /\ u[q + 1] = ch
          <6>1. q + 1 = p + 2
            BY <1>3
          <6> QED BY <4>1, <4>2, <6>1
        <5> HIDE DEF q
        <5>2. ~OpensComment(u, q)
          BY <2>1, <5>1, OpensIs
        <5>3. Cut(u, q, 1) /\ OperatorOf(Slice(u, q, 1)) = Alone[sign]
          BY <2>1, <2>2, <5>1, <5>2, AloneCut
        <5> QED BY <5>3 DEF q
      <4> QED BY <4>4, <4>5
    <3>2. Extends(v, v)
      <4> HIDE DEF v
      <4> QED BY <1>2 DEF Extends
    <3> HIDE DEF v
    <3> QED BY <1>2, <3>1, <3>2 DEF CutIn
  <2>4. s1 \in Seq(Chars) /\ s1 # <<>> /\ s2 \in Seq(Chars) /\ s2 # <<>>
    <3> DEFINE q == p + 1
    <3>1. /\ p \in 1..Len(v) /\ 1 \in 1..(Len(v) - p + 1)
          /\ q \in 1..Len(v) /\ 1 \in 1..(Len(v) - q + 1)
      BY <1>2, <1>3
    <3> HIDE DEF q, v
    <3>2. s1 \in Seq(Chars) /\ s1 # <<>>
      BY <1>2, <3>1, SliceAhead
    <3>3. Slice(v, q, 1) \in Seq(Chars) /\ Slice(v, q, 1) # <<>>
      BY <1>2, <3>1, SliceAhead
    <3> QED BY <3>2, <3>3 DEF q
  <2> HIDE DEF s1, s2
  <2>5. /\ TypeOf(s1) = "TDIVD" /\ ValOf(s1) = <<>> /\ \A tok : About(s1, tok) = <<>>
        /\ TypeOf(s2) = Alone[sign] /\ ValOf(s2) = <<>> /\ \A tok : About(s2, tok) = <<>>
    BY <2>1, <2>3, <2>4, SignToken
  <2>6. /\ TypeOf(s1) \in LateSigns /\ TypeOf(s2) \in LateSigns
    BY <2>1, <2>5 DEF LateSigns
  <2> DEFINE c == Here(ch) - 1
             tok1 == Token(TypeOf(s1), ValOf(s1), row, c)
             tok2 == Token(TypeOf(s2), ValOf(s2), row, Here(ch))
  <2>7. c = Back(ch) + 1
    <3>1. Here(ch) \in Int
      <4>1. p \in 1..(Len(t) + 1)
        BY <1>3
      <4> QED BY <1>1, <1>3, <4>1, PlaceHere
    <3> QED BY <1>1, <3>1 DEF Back
  <2> HIDE DEF c
  <2>8. /\ tok1 = Token("TDIVD", <<>>, row, c) /\ tok2 = Token(Alone[sign], <<>>, row, Here(ch))
        /\ About(s1, tok1) = <<>> /\ About(s2, tok2) = <<>>
    BY <2>5
  <2>9. /\ tok1 = Token(TypeOf(s1), ValOf(s1), row, c)
        /\ tok2 = Token(TypeOf(s2), ValOf(s2), row, Here(ch))
        /\ 1 \in Nat \ {0} /\ 1 = Len(buffer) - 1
    BY <1>1
  <2> HIDE DEF tok1, tok2
  <2>a. /\ CutIn(Append(t, ch), p, 1) /\ CutIn(Append(t, ch), p + 1, 1)
        /\ s1 = Slice(Append(t, ch), p, 1) /\ s2 = Slice(Append(t, ch), p + 1, 1)
    BY <2>3 DEF s1, s2
  <2>b. /\ t \in Seq(Chars) /\ Placed(t) /\ ch \in Chars \ {"cr"} /\ Told(t, toks, rep, p)
        /\ Waiting(t, p, buffer)
    BY <1>1
  <2>c. Goes(t, ch, toks, rep, Flush(<<tok1, tok2>>, About(s1, tok1) \o About(s2, tok2), ch))
    BY ONLY <2>6, <2>7, <2>9, <2>a, <2>b, TwoGoes, SMTT(60)
  <2>d. About(s1, tok1) \o About(s2, tok2) = <<>>
    BY <2>8
  <2> QED BY <1>5, <2>8, <2>c, <2>d DEF SlashAnd, c
<1> QED BY <1>4, <1>5

(***************************************************************************)
(* What a character does, whatever the text was.                           *)
(***************************************************************************)
(* A state s that is to look at ch, *)
Ready(s, ch) ==
  /\ row \in Nat \ {0} /\ col \in Nat \ {0} /\ buffer \in Seq(Chars) /\ ch \in Chars \ {"cr"}
  /\ (buffer = <<>>) = (s \in Quiet)
  /\ s = "PRE_EQUAL" => buffer[1] \in {"+", "-", "*", "="}
(* and an effect that leaves the lexer in order. *)
Sound(e) ==
  /\ e.state \in States /\ e.buffer \in Seq(Chars)
  /\ e.made \in Seq(Tokens) /\ Len(e.made) <= 3
  /\ (e.buffer = <<>>) = (e.state \in Quiet)
  /\ e.state = "PRE_EQUAL" => e.buffer[1] \in {"+", "-", "*", "="}

(* An effect is sound when its fields are. *)
LEMMA SoundIs ==
  ASSUME NEW r \in States, NEW b \in Seq(Chars), NEW made \in Seq(Tokens), Len(made) <= 3,
         (b = <<>>) = (r \in Quiet), r = "PRE_EQUAL" => b[1] \in {"+", "-", "*", "="}, NEW said
  PROVE  Sound(Effect(r, b, made, said))
<1> DEFINE e == Effect(r, b, made, said)
<1>1. e.state = r /\ e.buffer = b /\ e.made = made
  BY EffectIs
<1> HIDE DEF e
<1>2. Sound(e)
  BY <1>1 DEF Sound
<1> QED BY <1>2 DEF e

(* A character goes into the buffer. *)
LEMMA ShiftSound ==
  ASSUME NEW s, NEW ch, Ready(s, ch), NEW r \in Buffered, r # "PRE_EQUAL"
  PROVE  Sound(Shift(r, ch))
<1> DEFINE b == Append(buffer, ch)
<1>1. b \in Seq(Chars) /\ b # <<>>
  <2>1. buffer \in Seq(Chars) /\ ch \in Chars
    BY DEF Ready
  <2> QED BY <2>1, Appended
<1>2. r \in States /\ r \notin Quiet
  BY DEF Buffered
<1>3. <<>> \in Seq(Tokens) /\ Len(<<>>) = 0
  OBVIOUS
<1> HIDE DEF b
<1>4. Shift(r, ch) = Effect(r, b, <<>>, <<>>)
  BY DEF Shift, Go, b
<1> DEFINE none == <<>>
<1>6. none \in Seq(Tokens) /\ Len(none) <= 3
  BY <1>3
<1> HIDE DEF none
<1>7. Sound(Effect(r, b, none, none))
  BY <1>1, <1>2, <1>6, SoundIs
<1>5. Sound(Effect(r, b, <<>>, <<>>))
  BY <1>7 DEF none
<1> QED BY <1>4, <1>5

(* The buffer is empty and no token is made, or *)
LEMMA GoSound ==
  ASSUME NEW r \in Quiet
  PROVE  Sound(Go(r, <<>>))
<1>1. r \in States /\ r # "PRE_EQUAL"
  BY DEF Quiet, States
<1>2. <<>> \in Seq(Tokens) /\ Len(<<>>) = 0 /\ <<>> \in Seq(Chars)
  OBVIOUS
<1> DEFINE none == <<>>
<1>4. none \in Seq(Tokens) /\ Len(none) <= 3
  BY <1>2
<1> HIDE DEF none
<1>5. Sound(Effect(r, <<>>, none, none))
  BY <1>1, <1>2, <1>4, SoundIs
<1>3. Sound(Effect(r, <<>>, <<>>, <<>>))
  BY <1>5 DEF none
<1> QED BY <1>3 DEF Go

(* one is. *)
LEMMA MadeSound ==
  ASSUME NEW tok \in Tokens, NEW said
  PROVE  Sound(Effect("START", <<>>, <<tok>>, said)) /\ Sound(Made(tok))
<1>1. "START" \in States /\ "START" \in Quiet
  BY DEF Quiet, States
<1>2. <<tok>> \in Seq(Tokens) /\ Len(<<tok>>) = 1 /\ <<>> \in Seq(Chars)
  OBVIOUS
<1> DEFINE made == <<tok>>
<1> HIDE DEF made
<1>4. \A x : Sound(Effect("START", <<>>, made, x))
  <2>1. made \in Seq(Tokens) /\ Len(made) <= 3 /\ <<>> \in Seq(Chars) /\ "START" # "PRE_EQUAL"
    BY <1>2 DEF made
  <2> QED BY <1>1, <2>1, SoundIs
<1>3. \A x : Sound(Effect("START", <<>>, <<tok>>, x))
  BY <1>4 DEF made
<1> QED BY <1>3 DEF Made

(* At most two tokens are made before the character is looked at again. *)
LEMMA FlushSound ==
  ASSUME NEW s, NEW ch, Ready(s, ch), NEW made \in Seq(Tokens), Len(made) <= 2, NEW said
  PROVE  Sound(Flush(made, said, ch))
<1>1. row \in Nat \ {0} /\ col \in Nat \ {0} /\ ch \in Chars \ {"cr"} /\ ch \in Chars
  BY DEF Ready
<1>5. \A x, y, z, r : FromStart(ch) = Effect(x, y, z, r) =>
        Flush(made, said, ch) = Effect(x, y, made \o z, said \o r)
  BY FlushIs
<1>2. CASE FromStart(ch) = Effect("START", <<>>, <<>>, <<>>)
  <2>1. Flush(made, said, ch) = Effect("START", <<>>, made \o <<>>, said \o <<>>)
    BY <1>2, <1>5
  <2>2. made \o <<>> = made /\ <<>> \in Seq(Chars)
    OBVIOUS
  <2>3. "START" \in States /\ "START" \in Quiet
    BY DEF Quiet, States
  <2>4. Flush(made, said, ch) = Effect("START", <<>>, made, said \o <<>>) /\ Len(made) <= 3
    BY <2>1, <2>2
  <2> QED BY <2>2, <2>3, <2>4, SoundIs
<1>3. CASE /\ ch \in DOMAIN Lone
           /\ FromStart(ch) = Effect("START", <<>>, <<Token(Lone[ch], <<>>, row, Here(ch))>>, <<>>)
  <2> DEFINE tok == Token(Lone[ch], <<>>, row, Here(ch))
  <2>1. tok \in Tokens
    <3>1. Lone[ch] \in TokenTypes
      BY <1>3, SignNames
    <3>2. Here(ch) \in Int /\ <<>> \in Seq(Chars)
      BY <1>1 DEF Here
    <3> QED BY <1>1, <3>1, <3>2 DEF Token, Tokens, TokenSet
  <2>2. Flush(made, said, ch) = Effect("START", <<>>, made \o <<tok>>, said \o <<>>)
    BY <1>3, <1>5
  <2> HIDE DEF tok
  <2>3. made \o <<tok>> \in Seq(Tokens) /\ Len(made \o <<tok>>) <= 3 /\ <<>> \in Seq(Chars)
    BY <2>1
  <2>4. "START" \in States /\ "START" \in Quiet
    BY DEF Quiet, States
  <2> DEFINE m == made \o <<tok>>
  <2> HIDE DEF m
  <2>5. Flush(made, said, ch) = Effect("START", <<>>, m, said \o <<>>)
    BY <2>2 DEF m
  <2>6. m \in Seq(Tokens) /\ Len(m) <= 3
    BY <2>3 DEF m
  <2> QED BY <2>3, <2>4, <2>5, <2>6, SoundIs
<1>4. CASE /\ ch # "nl"
           /\ \E r \in Buffered : FromStart(ch) = Effect(r, <<ch>>, <<>>, <<>>) /\ Shape(r, <<ch>>)
  <2>1. PICK r \in Buffered : FromStart(ch) = Effect(r, <<ch>>, <<>>, <<>>) /\ Shape(r, <<ch>>)
    BY <1>4
  <2>2. Flush(made, said, ch) = Effect(r, <<ch>>, made \o <<>>, said \o <<>>)
    BY <2>1, <1>5
  <2> DEFINE b == <<ch>>
  <2>3. b \in Seq(Chars) /\ b # <<>> /\ made \o <<>> = made
    BY <1>1
  <2> HIDE DEF b
  <2>4. r = "PRE_EQUAL" => b[1] \in {"+", "-", "*", "="}
    BY <2>1 DEF Shape, b
  <2>5. r \in States /\ r \notin Quiet
    BY DEF Buffered
  <2>6. Flush(made, said, ch) = Effect(r, b, made, said \o <<>>)
    BY <2>2, <2>3 DEF b
  <2>7. Len(made) <= 3
    OBVIOUS
  <2> QED BY <2>3, <2>4, <2>5, <2>6, <2>7, SoundIs
<1> QED BY <1>1, <1>2, <1>3, <1>4, FirstIs

(* Tokens are tokens. *)
LEMMA TokenSound ==
  ASSUME NEW s, NEW ch, Ready(s, ch), NEW type \in TokenTypes, NEW val \in Seq(Chars)
  PROVE  /\ Token(type, val, row, Here(ch)) \in Tokens
         /\ Token(type, val, row, Here(ch) - 1) \in Tokens
         /\ Token(type, val, row, Back(ch)) \in Tokens
<1>1. row \in Nat \ {0} /\ Here(ch) \in Int /\ Back(ch) \in Int
  <2>1. row \in Nat \ {0} /\ col \in Nat \ {0} /\ Len(buffer) \in Nat
    BY DEF Ready
  <2> QED BY <2>1 DEF Here, Back
<1>2. \A c \in Int : Token(type, val, row, c) \in Tokens
  BY <1>1 DEF Token, Tokens, TokenSet
<1>3. Here(ch) - 1 \in Int
  BY <1>1
<1> QED BY <1>1, <1>2, <1>3

(* So are numerals, whether they fit or not. *)
LEMMA NumeralSound ==
  ASSUME NEW s, NEW ch, Ready(s, ch), NEW type \in {"TILIT", "TFLIT"}, NEW val \in Seq(Chars)
  PROVE  /\ Numeral(type, val, Back(ch)).made \in Seq(Tokens)
         /\ Len(Numeral(type, val, Back(ch)).made) = 1
<1>1. type \in TokenTypes /\ "TUNDF" \in TokenTypes
  BY DEF TokenTypes
<1> DEFINE a == Token(type, val, row, Back(ch))
           b == Token("TUNDF", val, row, Back(ch))
<1>2. a \in Tokens /\ b \in Tokens
  BY <1>1, TokenSound
<1>3. Numeral(type, val, Back(ch)).made = <<a>> \/ Numeral(type, val, Back(ch)).made = <<b>>
  BY DEF Numeral
<1> DEFINE m == Numeral(type, val, Back(ch)).made
<1> HIDE DEF a, b, m
<1>4. m = <<a>> \/ m = <<b>>
  BY <1>3 DEF m
<1>5. m \in Seq(Tokens) /\ Len(m) = 1
  <2>1. CASE m = <<a>>
    BY <1>2, <2>1
  <2>2. CASE m = <<b>>
    BY <1>2, <2>2
  <2> QED BY <1>4, <2>1, <2>2
<1> QED BY <1>5 DEF m

(* One token is made, then the character is looked at again. *)
LEMMA OneSound ==
  ASSUME NEW s, NEW ch, Ready(s, ch), NEW tok \in Tokens, NEW said
  PROVE  Sound(Flush(<<tok>>, said, ch))
<1> DEFINE made == <<tok>>
<1>1. made \in Seq(Tokens) /\ Len(made) <= 2
  OBVIOUS
<1> HIDE DEF made
<1>2. Sound(Flush(made, said, ch))
  BY <1>1, FlushSound
<1> QED BY <1>2 DEF made

(* The states one after the other: what is in the buffer, *)
LEMMA WordsSound ==
  ASSUME NEW s, NEW ch, Ready(s, ch)
  PROVE  /\ s = "START" => Sound(FromStart(ch))
         /\ s = "NUM" => Sound(InNum(ch))
         /\ s = "FLOAT" => Sound(InFloat(ch))
         /\ s = "NUMDOT" => Sound(InNumdot(ch))
         /\ s = "ALPHANUM" => Sound(InAlphanum(ch))
<1>0. {"NUM", "FLOAT", "NUMDOT", "ALPHANUM"} \subseteq Buffered
  BY DEF Buffered, States, Quiet
<1>1. buffer \in Seq(Chars) /\ (s \in Buffered => buffer # <<>>)
  BY DEF Ready, Buffered
<1>2. s = "START" => Sound(FromStart(ch))
  <2>1. <<>> \in Seq(Tokens) /\ Len(<<>>) <= 2
    OBVIOUS
  <2>2. Sound(Flush(<<>>, <<>>, ch))
    BY <2>1, FlushSound
  <2>3. \E r, b, m, x : FromStart(ch) = Effect(r, b, m, x) /\ m \in Seq(Tokens) /\ x = <<>>
    <3>1. row \in Nat \ {0} /\ col \in Nat \ {0} /\ ch \in Chars \ {"cr"}
      BY DEF Ready
    <3>2. ch \in DOMAIN Lone => <<Token(Lone[ch], <<>>, row, Here(ch))>> \in Seq(Tokens)
      <4>1. ch \in DOMAIN Lone => Lone[ch] \in TokenTypes
        BY SignNames
      <4>2. <<>> \in Seq(Chars)
        OBVIOUS
      <4>3. ch \in DOMAIN Lone => Token(Lone[ch], <<>>, row, Here(ch)) \in Tokens
        BY <4>1, <4>2, TokenSound
      <4> QED BY <4>3
    <3> QED BY <2>1, <3>1, <3>2, FirstIs
  <2>4. PICK r, b, m, x : FromStart(ch) = Effect(r, b, m, x) /\ m \in Seq(Tokens) /\ x = <<>>
    BY <2>3
  <2> DEFINE none == <<>>
  <2> HIDE DEF none
  <2>8. \A x1, y, z, r1 : FromStart(ch) = Effect(x1, y, z, r1) =>
          Flush(none, none, ch) = Effect(x1, y, none \o z, none \o r1)
    BY FlushIs
  <2>7. \A x1, y, z, r1 : FromStart(ch) = Effect(x1, y, z, r1) =>
          Flush(<<>>, <<>>, ch) = Effect(x1, y, <<>> \o z, <<>> \o r1)
    BY <2>8 DEF none
  <2>5. Flush(<<>>, <<>>, ch) = Effect(r, b, <<>> \o m, <<>> \o x)
    BY <2>4, <2>7
  <2>6. <<>> \o m = m /\ <<>> \o x = x
    BY <2>4
  <2> QED BY <2>2, <2>4, <2>5, <2>6
<1>3. s = "NUM" => Sound(InNum(ch))
  <2> DEFINE n == Numeral("TILIT", buffer, Back(ch))
             m == n.made
  <2>0. m \in Seq(Tokens) /\ Len(m) = 1
    BY <1>1, NumeralSound
  <2> HIDE DEF m
  <2>1. m \in Seq(Tokens) /\ Len(m) <= 2
    BY <2>0
  <2> HIDE DEF n
  <2>2. Sound(Flush(m, n.said, ch)) /\ Sound(Shift("NUM", ch)) /\ Sound(Shift("NUMDOT", ch))
    BY <1>0, <2>1, FlushSound, ShiftSound
  <2> QED BY <2>2 DEF InNum, n, m
<1>4. s = "FLOAT" => Sound(InFloat(ch))
  <2> DEFINE n == Numeral("TFLIT", buffer, Back(ch))
             m == n.made
  <2>0. m \in Seq(Tokens) /\ Len(m) = 1
    BY <1>1, NumeralSound
  <2> HIDE DEF m
  <2>1. m \in Seq(Tokens) /\ Len(m) <= 2
    BY <2>0
  <2> HIDE DEF n
  <2>2. Sound(Flush(m, n.said, ch)) /\ Sound(Shift("FLOAT", ch))
    BY <1>0, <2>1, FlushSound, ShiftSound
  <2> QED BY <2>2 DEF InFloat, n, m
<1>5. s = "NUMDOT" => Sound(InNumdot(ch))
  <2> SUFFICES ASSUME s = "NUMDOT" PROVE Sound(InNumdot(ch))
    OBVIOUS
  <2> DEFINE f == Front(buffer)
             n == Numeral("TILIT", f, Back(ch))
             dot == Token("TDOTT", <<>>, row, Here(ch))
             m == n.made
             made == Append(m, dot)
  <2>1. f \in Seq(Chars)
    BY <1>0, <1>1 DEF Front
  <2> HIDE DEF f
  <2>2. m \in Seq(Tokens) /\ Len(m) = 1
    BY <2>1, NumeralSound
  <2> HIDE DEF n, m
  <2>3. dot \in Tokens
    <3>1. "TDOTT" \in TokenTypes /\ <<>> \in Seq(Chars)
      BY DEF TokenTypes
    <3> QED BY <3>1, TokenSound
  <2> HIDE DEF dot
  <2>4. made \in Seq(Tokens) /\ Len(made) <= 2
    BY <2>2, <2>3
  <2> HIDE DEF made
  <2>5. Sound(Flush(made, n.said, ch)) /\ Sound(Shift("FLOAT", ch))
    BY <1>0, <2>4, FlushSound, ShiftSound
  <2> QED BY <2>5 DEF InNumdot, made, dot, m, n, f
<1>6. s = "ALPHANUM" => Sound(InAlphanum(ch))
  <2> DEFINE known == ToLower(buffer) \in DOMAIN Keywords
             word == Keywords[ToLower(buffer)]
             tok == IF known THEN Token(word, <<>>, row, Back(ch))
                    ELSE Token("TIDEN", buffer, row, Back(ch))
             said == IF known /\ buffer # Proper[ToLower(buffer)]
                     THEN <<Report("warning", row, Back(ch))>> ELSE <<>>
  <2>1. tok \in Tokens
    <3>1. "TIDEN" \in TokenTypes /\ <<>> \in Seq(Chars)
      BY DEF TokenTypes
    <3>2. known => word \in TokenTypes
      BY SignNames
    <3> HIDE DEF known, word
    <3>3. known => Token(word, <<>>, row, Back(ch)) \in Tokens
      BY <3>1, <3>2, TokenSound
    <3>4. Token("TIDEN", buffer, row, Back(ch)) \in Tokens
      BY <1>1, <3>1, TokenSound
    <3> QED BY <3>3, <3>4
  <2>2. InAlphanum(ch) = IF ch \in Letters \cup Digits THEN Shift("ALPHANUM", ch)
                         ELSE Flush(<<tok>>, said, ch)
    BY DEF InAlphanum
  <2> HIDE DEF tok, said
  <2>3. Sound(Flush(<<tok>>, said, ch)) /\ Sound(Shift("ALPHANUM", ch))
    BY <1>0, <2>1, OneSound, ShiftSound
  <2> QED BY <2>2, <2>3
<1> QED BY <1>2, <1>3, <1>4, <1>5, <1>6

(* the signs, *)
LEMMA SignsSound ==
  ASSUME NEW s, NEW ch, Ready(s, ch)
  PROVE  /\ s = "PRE_EQUAL" => Sound(InPreEqual(ch))
         /\ s = "LESS" => Sound(InLess(ch))
         /\ s = "GRTR" => Sound(InGrtr(ch))
         /\ s = "EXCLM" => Sound(InExclm(ch))
         /\ s = "SLASH" => Sound(InSlash(ch))
         /\ s = "SLASHSTAR" => Sound(InSlashstar(ch))
         /\ s = "SLASHMINUS" => Sound(InSlashminus(ch))
<1>0. {"ERROR", "SLASHSTAR", "SLASHMINUS"} \subseteq Buffered
  BY DEF Buffered, States, Quiet
<1>1. buffer \in Seq(Chars) /\ <<>> \in Seq(Chars)
  BY DEF Ready
<1>2. \A type \in TokenTypes :
        /\ Token(type, <<>>, row, Here(ch)) \in Tokens
        /\ Token(type, <<>>, row, Here(ch) - 1) \in Tokens
        /\ Token(type, buffer, row, Here(ch) - 1) \in Tokens
  BY <1>1, TokenSound
<1>3. /\ \A x \in DOMAIN Alone : Alone[x] \in TokenTypes
      /\ \A x \in Signs : BeforeEqual[x] \in TokenTypes
      /\ \A x \in {"<", ">"} : Twice[x] \in TokenTypes
      /\ "TUNDF" \in TokenTypes /\ "TDIVD" \in TokenTypes
  BY SignNames DEF TokenTypes
<1>4. DOMAIN Alone = {"+", "-", "*", "=", "<", ">", "/"}
      /\ Signs = {"+", "-", "*", "=", "<", ">", "!", "/"}
  BY DEF Alone, Signs
<1>5. s = "PRE_EQUAL" => Sound(InPreEqual(ch))
  <2>1. s = "PRE_EQUAL" => buffer[1] \in DOMAIN Alone /\ buffer[1] \in Signs
    BY <1>4 DEF Ready
  <2> DEFINE a == Token(BeforeEqual[buffer[1]], <<>>, row, Here(ch) - 1)
             b == Token(Alone[buffer[1]], <<>>, row, Here(ch) - 1)
  <2>2. s = "PRE_EQUAL" => a \in Tokens /\ b \in Tokens
    BY <1>2, <1>3, <2>1
  <2> HIDE DEF a, b
  <2>3. s = "PRE_EQUAL" => Sound(Made(a)) /\ Sound(Flush(<<b>>, <<>>, ch))
    BY <2>2, MadeSound, OneSound
  <2> QED BY <2>3 DEF InPreEqual, a, b
<1>6. ASSUME NEW sign \in {"<", ">"} PROVE Sound(InAngle(sign, ch))
  <2> DEFINE a == Token(Twice[sign], <<>>, row, Here(ch) - 1)
             b == Token(BeforeEqual[sign], <<>>, row, Here(ch) - 1)
             c == Token(Alone[sign], <<>>, row, Here(ch))
  <2>1. a \in Tokens /\ b \in Tokens /\ c \in Tokens
    BY <1>2, <1>3, <1>4
  <2> HIDE DEF a, b, c
  <2>2. Sound(Made(a)) /\ Sound(Made(b)) /\ Sound(Flush(<<c>>, <<>>, ch))
    BY <2>1, MadeSound, OneSound
  <2> QED BY <2>2 DEF InAngle, a, b, c
<1>7. s = "EXCLM" => Sound(InExclm(ch))
  <2> DEFINE a == Token(BeforeEqual["!"], <<>>, row, Here(ch) - 1)
             b == Token("TUNDF", buffer, row, Here(ch) - 1)
             said == <<Report("error", row, Here(ch) - 1)>>
  <2>1. a \in Tokens /\ b \in Tokens
    BY <1>2, <1>3, <1>4
  <2> HIDE DEF a, b, said
  <2>2. /\ Sound(Made(a)) /\ Sound(Flush(<<b>>, said, ch))
        /\ Sound(Shift("ERROR", ch))
    BY <1>0, <2>1, MadeSound, OneSound, ShiftSound
  <2> QED BY <2>2 DEF InExclm, a, b, said
<1>8. s = "SLASH" => Sound(InSlash(ch))
  <2> DEFINE a == Token(BeforeEqual["/"], <<>>, row, Here(ch) - 1)
             b == Token("TDIVD", <<>>, row, Here(ch) - 1)
  <2>1. a \in Tokens /\ b \in Tokens
    BY <1>2, <1>3, <1>4
  <2> HIDE DEF a, b
  <2>2. /\ Sound(Made(a)) /\ Sound(Flush(<<b>>, <<>>, ch))
        /\ Sound(Shift("SLASHSTAR", ch)) /\ Sound(Shift("SLASHMINUS", ch))
    BY <1>0, <2>1, MadeSound, OneSound, ShiftSound
  <2> QED BY <2>2 DEF InSlash, a, b
<1>9. ASSUME NEW sign \in {"*", "-"}, NEW comment \in Quiet
      PROVE  Sound(SlashAnd(sign, comment, ch))
  <2> DEFINE a == Token("TDIVD", <<>>, row, Here(ch) - 1)
             b == Token(Alone[sign], <<>>, row, Here(ch))
             made == <<a, b>>
  <2>1. a \in Tokens /\ b \in Tokens
    BY <1>2, <1>3, <1>4
  <2> HIDE DEF a, b
  <2>2. made \in Seq(Tokens) /\ Len(made) <= 2
    BY <2>1
  <2> HIDE DEF made
  <2>3. Sound(Go(comment, <<>>)) /\ Sound(Flush(made, <<>>, ch))
    BY <2>2, GoSound, FlushSound
  <2> QED BY <2>3 DEF SlashAnd, made, a, b
<1>a. "ML_COM" \in Quiet /\ "SL_COM" \in Quiet
  BY DEF Quiet
<1> QED BY <1>5, <1>6, <1>7, <1>8, <1>9, <1>a DEF InLess, InGrtr, InSlashstar, InSlashminus

(* strings, comments and what is not CD25. *)
LEMMA RestSound ==
  ASSUME NEW s, NEW ch, Ready(s, ch)
  PROVE  /\ s = "STRING" => Sound(InString(ch))
         /\ s = "ERROR" => Sound(InError(ch))
         /\ Sound(InMlCom(ch)) /\ Sound(InMlComstr(ch)) /\ Sound(InMlComstrstr(ch))
         /\ Sound(InSlCom(ch))
<1>0. {"ERROR", "STRING"} \subseteq Buffered
  BY DEF Buffered, States, Quiet
<1>1. buffer \in Seq(Chars) /\ (s \in Buffered => buffer # <<>>)
  BY DEF Ready, Buffered
<1>2. "TUNDF" \in TokenTypes /\ "TSTRG" \in TokenTypes
  BY DEF TokenTypes
<1> DEFINE b == Token("TUNDF", buffer, row, Back(ch))
           said == <<Report("error", row, Back(ch))>>
<1>3. b \in Tokens
  BY <1>1, <1>2, TokenSound
<1>4. s = "STRING" => Sound(InString(ch))
  <2> DEFINE a == Token("TSTRG", Tail(buffer), row, Back(ch))
  <2>1. s = "STRING" => Tail(buffer) \in Seq(Chars)
    BY <1>0, <1>1
  <2>2. s = "STRING" => a \in Tokens
    BY <1>2, <2>1, TokenSound
  <2> HIDE DEF a, b, said
  <2>3. s = "STRING" => /\ Sound(Made(a)) /\ Sound(Effect("START", <<>>, <<b>>, said))
                        /\ Sound(Shift("STRING", ch))
    BY <1>0, <1>3, <2>2, MadeSound, ShiftSound
  <2> QED BY <2>3 DEF InString, a, b, said
<1>5. s = "ERROR" => Sound(InError(ch))
  <2> HIDE DEF b, said
  <2>1. Sound(Flush(<<b>>, said, ch)) /\ Sound(Shift("ERROR", ch))
    BY <1>0, <1>3, OneSound, ShiftSound
  <2> QED BY <2>1 DEF InError, b, said
<1>6. \A r \in Quiet : Sound(Go(r, <<>>))
  BY GoSound
<1> QED BY <1>4, <1>5, <1>6 DEF Quiet, InMlCom, InMlComstr, InMlComstrstr, InSlCom

(***************************************************************************)
(* The invariant.                                                          *)
(***************************************************************************)
Eof(d) == d # <<>> /\ Last(d).type = "T_EOF"
Got    == BeforeEof(delivered) \o tokens
(* The name at the end of the file has not been made. *)
Clean  == buffer # <<>> \/ state \in Quiet

Follows == ~OddIn(Source) /\ Clean =>
             \E p \in 1..(Len(Source) + 1) :
               Told(Source, Got, reports, p) /\ Pending(Source, p, state, buffer)
IInv ==
  /\ TypeOK /\ LinesAgree
  /\ buffer # <<>> => /\ state \in Buffered
                      /\ state = "PRE_EQUAL" => buffer[1] \in {"+", "-", "*", "="}
  /\ Eof(delivered) => ended /\ tokens = <<>> /\ buffer = <<>>
  /\ Placed(Source)
  /\ Follows

(* A turn of the loop in state s on ch, whose effect is e. *)
Took(s, ch, last, e) ==
  /\ state = s /\ tokens = <<>> /\ ~ended
  /\ ch \in alphabet /\ last \in BOOLEAN
  /\ text' = Append(text, ch) /\ ended' = last /\ lineNum' = Listed(ch, last)
  /\ IF ch = "cr" THEN UNCHANGED <<state, buffer, tokens, reports, row, col>>
     ELSE /\ state' = e.state /\ buffer' = e.buffer /\ tokens' = e.made
          /\ reports' = reports \o e.said /\ Advance(ch)
  /\ UNCHANGED <<alphabet, delivered>>
(* What is known of it. *)
Keeps(s, ch, e) ==
  /\ Ready(s, ch) => Sound(e)
  /\ \A t, toks, rep, p : Reader(t, ch, toks, rep, p, s) => Goes(t, ch, toks, rep, e)

(* All the states do what the invariant needs. *)
LEMMA AllKeep ==
  ASSUME NEW ch
  PROVE  /\ Keeps("START", ch, FromStart(ch)) /\ Keeps("NUM", ch, InNum(ch))
         /\ Keeps("ALPHANUM", ch, InAlphanum(ch)) /\ Keeps("NUMDOT", ch, InNumdot(ch))
         /\ Keeps("FLOAT", ch, InFloat(ch)) /\ Keeps("PRE_EQUAL", ch, InPreEqual(ch))
         /\ Keeps("LESS", ch, InLess(ch)) /\ Keeps("GRTR", ch, InGrtr(ch))
         /\ Keeps("EXCLM", ch, InExclm(ch)) /\ Keeps("STRING", ch, InString(ch))
         /\ Keeps("SLASH", ch, InSlash(ch)) /\ Keeps("SLASHSTAR", ch, InSlashstar(ch))
         /\ Keeps("SLASHMINUS", ch, InSlashminus(ch)) /\ Keeps("ML_COM", ch, InMlCom(ch))
         /\ Keeps("ML_COMSTR", ch, InMlComstr(ch)) /\ Keeps("ML_COMSTRSTR", ch, InMlComstrstr(ch))
         /\ Keeps("SL_COM", ch, InSlCom(ch)) /\ Keeps("ERROR", ch, InError(ch))
<1>1. Keeps("START", ch, FromStart(ch))
  BY WordsSound, StartGoes DEF Keeps
<1>2. Keeps("NUM", ch, InNum(ch))
  BY WordsSound, NumGoes DEF Keeps
<1>3. Keeps("ALPHANUM", ch, InAlphanum(ch))
  BY WordsSound, AlphanumGoes DEF Keeps
<1>4. Keeps("NUMDOT", ch, InNumdot(ch))
  BY WordsSound, NumdotGoes DEF Keeps
<1>5. Keeps("FLOAT", ch, InFloat(ch))
  BY WordsSound, FloatGoes DEF Keeps
<1>6. Keeps("PRE_EQUAL", ch, InPreEqual(ch))
  BY SignsSound, PreEqualGoes DEF Keeps
<1>7. Keeps("LESS", ch, InLess(ch)) /\ Keeps("GRTR", ch, InGrtr(ch))
  <2>1. \A t, toks, rep, p :
          /\ Reader(t, ch, toks, rep, p, "LESS") => Goes(t, ch, toks, rep, InAngle("<", ch))
          /\ Reader(t, ch, toks, rep, p, "GRTR") => Goes(t, ch, toks, rep, InAngle(">", ch))
    BY AngleGoes
  <2> QED BY <2>1, SignsSound DEF Keeps, InLess, InGrtr
<1>8. Keeps("EXCLM", ch, InExclm(ch))
  BY SignsSound, ExclmGoes DEF Keeps
<1>9. Keeps("STRING", ch, InString(ch))
  BY RestSound, StringGoes DEF Keeps
<1>a. Keeps("SLASH", ch, InSlash(ch))
  BY SignsSound, SlashGoes DEF Keeps
<1>b. Keeps("SLASHSTAR", ch, InSlashstar(ch)) /\ Keeps("SLASHMINUS", ch, InSlashminus(ch))
  <2>1. \A t, toks, rep, p :
          /\ Reader(t, ch, toks, rep, p, "SLASHSTAR") =>
               Goes(t, ch, toks, rep, SlashAnd("*", "ML_COM", ch))
          /\ Reader(t, ch, toks, rep, p, "SLASHMINUS") =>
               Goes(t, ch, toks, rep, SlashAnd("-", "SL_COM", ch))
    BY SlashAndGoes
  <2> QED BY <2>1, SignsSound DEF Keeps, InSlashstar, InSlashminus
<1>c. /\ Keeps("ML_COM", ch, InMlCom(ch)) /\ Keeps("ML_COMSTR", ch, InMlComstr(ch))
      /\ Keeps("ML_COMSTRSTR", ch, InMlComstrstr(ch)) /\ Keeps("SL_COM", ch, InSlCom(ch))
  <2>1. {"ML_COM", "ML_COMSTR", "ML_COMSTRSTR", "SL_COM"} = Quiet \ {"START"}
    BY DEF Quiet
  <2>2. \A t, toks, rep, p :
          /\ Reader(t, ch, toks, rep, p, "ML_COM") => Goes(t, ch, toks, rep, InMlCom(ch))
          /\ Reader(t, ch, toks, rep, p, "ML_COMSTR") => Goes(t, ch, toks, rep, InMlComstr(ch))
          /\ Reader(t, ch, toks, rep, p, "ML_COMSTRSTR") =>
               Goes(t, ch, toks, rep, InMlComstrstr(ch))
          /\ Reader(t, ch, toks, rep, p, "SL_COM") => Goes(t, ch, toks, rep, InSlCom(ch))
    BY <2>1, CommentGoes
  <2> QED BY <2>2, RestSound DEF Keeps
<1>d. Keeps("ERROR", ch, InError(ch))
  BY RestSound, ErrorGoes DEF Keeps
<1> QED BY <1>1, <1>2, <1>3, <1>4, <1>5, <1>6, <1>7, <1>8, <1>9, <1>a, <1>b, <1>c, <1>d

(* What a turn starts from. *)
LEMMA TookFrom ==
  ASSUME IInv, NEW s, NEW ch, NEW last, NEW e, Took(s, ch, last, e)
  PROVE  /\ text \in Seq(Chars) /\ Source \in Seq(Chars) /\ ch \in Chars
         /\ Source' = IF ch = "cr" THEN Source ELSE Append(Source, ch)
         /\ ~Eof(delivered) /\ Got = delivered /\ delivered' = delivered
         /\ BeforeEof(delivered) = delivered
         /\ ch # "cr" => Ready(s, ch)
         /\ (buffer = <<>>) = (state \in Quiet) /\ Clean
<1>1. /\ text \in Seq(Chars) /\ alphabet \in Alphabets /\ ch \in alphabet
      /\ delivered \in Seq(TokenSet(TokenTypes \cup {"T_EOF"})) /\ tokens = <<>> /\ ~ended
      /\ delivered' = delivered /\ text' = Append(text, ch)
  BY DEF IInv, TypeOK, Took
<1>2. ch \in Chars
  BY <1>1, AlphabetsAssumption
<1>3. Source \in Seq(Chars)
  BY <1>1, NoReturnsIs DEF Source
<1>4. Source' = IF ch = "cr" THEN Source ELSE Append(Source, ch)
  BY <1>1, <1>2, NoReturnsIs DEF Source
<1>5. ~Eof(delivered)
  BY <1>1 DEF IInv
<1>6. BeforeEof(delivered) = delivered
  BY <1>5 DEF BeforeEof, Eof
<1>7. Got = delivered
  BY <1>1, <1>6 DEF Got
<1>8. (buffer = <<>>) = (state \in Quiet) /\ Clean
  BY <1>1 DEF IInv, TypeOK, Quiet, Clean
<1>9. ch # "cr" => Ready(s, ch)
  <2>1. state = s /\ row \in Nat \ {0} /\ col \in Nat \ {0} /\ buffer \in Seq(Chars)
    BY DEF Took, IInv, TypeOK
  <2>2. s = "PRE_EQUAL" => buffer[1] \in {"+", "-", "*", "="}
    <3>1. s = "PRE_EQUAL" => buffer # <<>>
      BY <1>8, <2>1 DEF Quiet
    <3> QED BY <2>1, <3>1 DEF IInv
  <2> QED BY <1>2, <1>8, <2>1, <2>2 DEF Ready
<1> QED BY <1>1, <1>2, <1>3, <1>4, <1>5, <1>6, <1>7, <1>8, <1>9

(* The place stays that of the text. *)
LEMMA TookPlaced ==
  ASSUME IInv, NEW s, NEW ch, NEW last, NEW e, Took(s, ch, last, e)
  PROVE  Placed(Source)' /\ LinesAgree' /\ row' \in Nat \ {0} /\ col' \in Nat \ {0}
         /\ lineNum' \in Nat \ {0}
<1> DEFINE t == Source
           n == Len(t)
<1>1. /\ t \in Seq(Chars) /\ ch \in Chars /\ t' = IF ch = "cr" THEN t ELSE Append(t, ch)
      /\ text \in Seq(Chars)
  BY TookFrom
<1>2. /\ row = RowOf(t, n + 1) /\ col = ColOf(t, n + 1) /\ row \in Nat \ {0} /\ col \in Nat \ {0}
      /\ lineNum \in Nat \ {0} /\ row = lineNum
  BY DEF IInv, Placed, TypeOK, LinesAgree, Took
<1>3. row' = IF ch = "nl" THEN row + 1 ELSE row
  BY DEF Took, Advance
<1>4. ch # "cr" => col' = IF ch = "nl" THEN 1 ELSE Here(ch) + 1
  BY DEF Took, Advance
<1>5. ch = "cr" => col' = col
  BY DEF Took
<1>6. LinesAgree'
  <2>1. /\ text' = Append(text, ch) /\ ended' = last
        /\ lineNum' = IF ch = "nl" /\ ~last THEN lineNum + 1 ELSE lineNum
    BY DEF Took, Listed
  <2>2. text' # <<>> /\ Last(text') = ch
    <3> DEFINE x == Append(text, ch)
    <3>1. x \in Seq(Chars) /\ Len(x) = Len(text) + 1 /\ Len(text) \in Nat /\ x[Len(text) + 1] = ch
      BY <1>1
    <3> HIDE DEF x
    <3>2. x # <<>> /\ x[Len(x)] = ch
      BY <3>1
    <3> QED BY <2>1, <3>2 DEF Last, x
  <2>3. ended' = last /\ last \in BOOLEAN
    BY DEF Took
  <2> QED BY <1>2, <1>3, <2>1, <2>2, <2>3 DEF LinesAgree
<1>7. Placed(Source)' /\ col' \in Nat \ {0}
  <2>1. CASE ch = "cr"
    <3>1. t' = t /\ row' = row /\ col' = col
      BY <1>1, <1>3, <1>5, <2>1
    <3> QED BY <1>1, <1>2, <3>1 DEF Placed
  <2>2. CASE ch # "cr"
    <3> DEFINE v == Append(t, ch)
    <3> HIDE DEF t
    <3>1. v \in Seq(Chars) /\ Len(v) = n + 1 /\ v[n + 1] = ch /\ Extends(v, t) /\ n \in Nat
      BY <1>1, ExtendsIs
    <3>2. t' = v
      BY <1>1, <2>2
    <3> DEFINE k == n + 1
    <3>3. k \in Nat \ {0} /\ k \in 1..(Len(t) + 1) /\ Len(v) = k
      BY <3>1
    <3> HIDE DEF v, k
    <3>4. RowOf(v, k) = RowOf(t, k) /\ ColOf(v, k) = ColOf(t, k)
      BY <1>1, <3>1, <3>3, PlaceStays
    <3>5. v[k] = ch /\ row = RowOf(v, k) /\ col = ColOf(v, k)
      BY <1>2, <3>1, <3>4 DEF k
    <3>6. RowOf(v, k + 1) = IF ch = "nl" THEN row + 1 ELSE row
      BY <3>3, <3>5, RowNext
    <3>7. ColOf(v, k + 1) = IF ch = "nl" THEN 1 ELSE IF ch = "tab" THEN col + 4 ELSE col + 1
      BY <3>3, <3>5, ColNext
    <3>8. row' = RowOf(v, Len(v) + 1)
      BY <1>3, <3>3, <3>6
    <3>9. col' = ColOf(v, Len(v) + 1) /\ col' \in Nat \ {0}
      BY <1>2, <1>4, <2>2, <3>3, <3>7 DEF Here
    <3>a. Source' = v
      BY <3>2 DEF t
    <3> QED BY <3>1, <3>8, <3>9, <3>a DEF Placed
  <2> QED BY <2>1, <2>2
<1>8. row' \in Nat \ {0} /\ lineNum' \in Nat \ {0}
  BY <1>2, <1>3 DEF Took, Listed
<1> QED BY <1>6, <1>7, <1>8

(* A turn keeps the invariant. *)
LEMMA TookKeeps ==
  ASSUME IInv, NEW s, NEW ch, NEW last, NEW e, Took(s, ch, last, e), Keeps(s, ch, e)
  PROVE  IInv'
<1>1. /\ text \in Seq(Chars) /\ Source \in Seq(Chars) /\ ch \in Chars
      /\ Source' = IF ch = "cr" THEN Source ELSE Append(Source, ch)
      /\ ~Eof(delivered) /\ Got = delivered /\ delivered' = delivered
      /\ BeforeEof(delivered) = delivered
      /\ ch # "cr" => Ready(s, ch)
      /\ (buffer = <<>>) = (state \in Quiet) /\ Clean
  BY TookFrom
<1>2. Placed(Source)' /\ LinesAgree' /\ row' \in Nat \ {0} /\ col' \in Nat \ {0}
      /\ lineNum' \in Nat \ {0}
  BY TookPlaced
<1>3. /\ state = s /\ tokens = <<>> /\ ~ended /\ last \in BOOLEAN
      /\ text' = Append(text, ch) /\ ended' = last /\ alphabet' = alphabet
  BY DEF Took
<1>4. /\ alphabet \in Alphabets /\ buffer \in Seq(Chars) /\ state \in States
      /\ delivered \in Seq(TokenSet(TokenTypes \cup {"T_EOF"}))
  BY DEF IInv, TypeOK
<1>5. ~Eof(delivered')
  BY <1>1
<1>6. text' \in Seq(Chars)
  BY <1>1, <1>3
<1>7. CASE ch = "cr"
  <2>1. UNCHANGED <<state, buffer, tokens, reports, row, col>>
    BY <1>7 DEF Took
  <2>2. TypeOK'
    <3>1. (buffer' = <<>>) = (state' \in {"START", "ML_COM", "ML_COMSTR", "ML_COMSTRSTR", "SL_COM"})
      BY <1>1, <2>1 DEF Quiet
    <3>2. tokens' \in Seq(TokenSet(TokenTypes)) /\ Len(tokens') <= 3
      BY <2>1 DEF IInv, TypeOK
    <3> QED BY <1>1, <1>2, <1>3, <1>4, <1>6, <2>1, <3>1, <3>2 DEF TypeOK
  <2>3. Follows'
    <3>1. Source' = Source /\ Got' = Got
      BY <1>1, <1>7, <2>1 DEF Got
    <3>2. ASSUME ~OddIn(Source')
          PROVE  \E p \in 1..(Len(Source') + 1) :
                   Told(Source', Got', reports', p) /\ Pending(Source', p, state', buffer')
      <4>1. ~OddIn(Source)
        BY <3>1, <3>2
      <4>2. PICK p \in 1..(Len(Source) + 1) :
              Told(Source, Got, reports, p) /\ Pending(Source, p, state, buffer)
        BY <1>1, <4>1 DEF IInv, Follows
      <4> QED BY <2>1, <3>1, <4>2
    <3> QED BY <3>2 DEF Follows
  <2>4. buffer' # <<>> => /\ state' \in Buffered
                          /\ state' = "PRE_EQUAL" => buffer'[1] \in {"+", "-", "*", "="}
    BY <2>1 DEF IInv
  <2> QED BY <1>2, <1>5, <2>2, <2>3, <2>4 DEF IInv
<1>8. CASE ch # "cr"
  <2>1. /\ state' = e.state /\ buffer' = e.buffer /\ tokens' = e.made
        /\ reports' = reports \o e.said
    BY <1>8 DEF Took
  <2>2. Sound(e)
    BY <1>1, <1>8 DEF Keeps
  <2>3. /\ state' \in States /\ buffer' \in Seq(Chars) /\ tokens' \in Seq(Tokens)
        /\ Len(tokens') <= 3 /\ (buffer' = <<>>) = (state' \in Quiet)
        /\ state' = "PRE_EQUAL" => buffer'[1] \in {"+", "-", "*", "="}
    BY <2>1, <2>2 DEF Sound
  <2>4. TypeOK'
    <3>1. (buffer' = <<>>) = (state' \in {"START", "ML_COM", "ML_COMSTR", "ML_COMSTRSTR", "SL_COM"})
      BY <2>3 DEF Quiet
    <3>2. tokens' \in Seq(TokenSet(TokenTypes)) /\ Len(tokens') <= 3
      BY <2>3 DEF Tokens
    <3> QED BY <1>1, <1>2, <1>3, <1>4, <1>6, <2>3, <3>1, <3>2 DEF TypeOK
  <2>5. buffer' # <<>> => /\ state' \in Buffered
                          /\ state' = "PRE_EQUAL" => buffer'[1] \in {"+", "-", "*", "="}
    BY <2>3 DEF Buffered
  <2>6. Source' = Append(Source, ch)
    BY <1>1, <1>8
  <2>7. ASSUME ~OddIn(Source')
        PROVE  \E p \in 1..(Len(Source') + 1) :
                 Told(Source', Got', reports', p) /\ Pending(Source', p, state', buffer')
    <3> DEFINE t == Source
    <3>1. ~OddIn(Append(t, ch)) /\ ~OddIn(t)
      BY <1>1, <2>6, <2>7, OddGrows
    <3>2. PICK p \in 1..(Len(t) + 1) : Told(t, delivered, reports, p) /\ Pending(t, p, s, buffer)
      BY <1>1, <1>3, <3>1 DEF IInv, Follows
    <3>3. Placed(t)
      BY DEF IInv
    <3> HIDE DEF t
    <3>4. t \in Seq(Chars) /\ ch \in Chars \ {"cr"} /\ Len(t) \in Nat
      BY <1>1, <1>8 DEF t
    <3>5. Reader(t, ch, delivered, reports, p, s)
      BY <3>1, <3>2, <3>3, <3>4 DEF Reader
    <3>6. Goes(t, ch, delivered, reports, e)
      BY <3>5 DEF Keeps
    <3>7. PICK q \in 1..(Len(t) + 2) :
            /\ Told(Append(t, ch), delivered \o e.made, reports \o e.said, q)
            /\ Pending(Append(t, ch), q, e.state, e.buffer)
      BY <3>6 DEF Goes
    <3>8. Got' = delivered \o e.made
      BY <1>1, <2>1 DEF Got
    <3>9. Len(Append(t, ch)) + 1 = Len(t) + 2
      BY <3>4
    <3> QED BY <2>1, <2>6, <3>7, <3>8, <3>9 DEF t
  <2>8. Follows'
    BY <2>7 DEF Follows
  <2> QED BY <1>2, <1>5, <2>4, <2>5, <2>8 DEF IInv
<1> QED BY <1>7, <1>8

(* The parser takes a token: it goes from one queue to the other. *)
LEMMA DeliverKeeps ==
  ASSUME IInv, Deliver
  PROVE  IInv'
<1>1. /\ tokens # <<>> /\ delivered' = Append(delivered, Head(tokens)) /\ tokens' = Tail(tokens)
      /\ UNCHANGED <<text, alphabet, ended, state, buffer, row, col, reports, lineNum>>
  BY DEF Deliver
<1>2. /\ tokens \in Seq(Tokens) /\ Len(tokens) <= 3
      /\ delivered \in Seq(TokenSet(TokenTypes \cup {"T_EOF"}))
  BY DEF IInv, TypeOK, Tokens
<1> DEFINE tok == Head(tokens)
           All == TokenSet(TokenTypes \cup {"T_EOF"})
<1>3. tok \in Tokens /\ tokens' \in Seq(Tokens) /\ Len(tokens') <= 3
  BY <1>1, <1>2
<1>4. tok \in All /\ tok.type # "T_EOF"
  BY <1>3 DEF Tokens, TokenSet, TokenTypes
<1>5. delivered' \in Seq(All) /\ delivered' # <<>> /\ Last(delivered') = tok
  <2>1. delivered \in Seq(All) /\ delivered' = Append(delivered, tok)
    BY <1>1, <1>2
  <2> HIDE DEF tok, All
  <2>2. delivered' \in Seq(All) /\ Len(delivered') = Len(delivered) + 1
        /\ delivered'[Len(delivered) + 1] = tok /\ Len(delivered) \in Nat
    BY <1>4, <2>1
  <2> QED BY <2>2 DEF Last
<1>6. ~Eof(delivered')
  BY <1>4, <1>5 DEF Eof
<1>7. ~Eof(delivered)
  BY <1>1 DEF IInv
<1>8. Got' = Got
  <2>1. BeforeEof(delivered) = delivered /\ BeforeEof(delivered') = delivered'
    BY <1>6, <1>7 DEF BeforeEof, Eof
  <2>4. Tokens \subseteq All
    BY DEF Tokens, TokenSet
  <2> HIDE DEF All
  <2>2. tokens \in Seq(All)
    BY <1>2, <2>4
  <2>3. Append(delivered, Head(tokens)) \o Tail(tokens) = delivered \o tokens
    BY <1>1, <1>2, <2>2
  <2> QED BY <1>1, <2>1, <2>3 DEF Got
<1>9. Source' = Source
  BY <1>1 DEF Source
<1>a. TypeOK'
  <2>1. tokens' \in Seq(TokenSet(TokenTypes)) /\ Len(tokens') <= 3
    BY <1>3 DEF Tokens
  <2> HIDE DEF tok
  <2> QED BY <1>1, <1>5, <2>1 DEF IInv, TypeOK
<1>b. LinesAgree' /\ Placed(Source)'
  BY <1>1, <1>9 DEF IInv, LinesAgree, Placed
<1>c. Follows'
  BY <1>1, <1>8, <1>9 DEF IInv, Follows, Clean
<1>d. buffer' # <<>> => /\ state' \in Buffered
                        /\ state' = "PRE_EQUAL" => buffer'[1] \in {"+", "-", "*", "="}
  BY <1>1 DEF IInv
<1> QED BY <1>6, <1>a, <1>b, <1>c, <1>d DEF IInv

(* The name at the end of the file is none of the text's tokens, *)
LEMMA NameKeeps ==
  ASSUME IInv, LastName
  PROVE  IInv'
<1> DEFINE tok == Token("TIDEN", buffer, row, col - Len(buffer))
           All == TokenSet(TokenTypes \cup {"T_EOF"})
<1>1. /\ ended /\ tokens = <<>> /\ buffer # <<>> /\ delivered' = Append(delivered, tok)
      /\ buffer' = <<>>
      /\ UNCHANGED <<text, alphabet, ended, state, tokens, row, col, reports, lineNum>>
  BY DEF LastName
<1>2. /\ buffer \in Seq(Chars) /\ row \in Nat \ {0} /\ col \in Nat \ {0}
      /\ delivered \in Seq(All) /\ state \in Buffered
  BY <1>1 DEF IInv, TypeOK
<1>3. tok \in All /\ tok.type # "T_EOF"
  <2>1. "TIDEN" \in TokenTypes /\ col - Len(buffer) \in Int
    BY <1>2 DEF TokenTypes
  <2> QED BY <1>2, <2>1 DEF Token, TokenSet
<1> HIDE DEF tok, All
<1>4. delivered' \in Seq(All) /\ Last(delivered') = tok
  <2>1. delivered' \in Seq(All) /\ Len(delivered') = Len(delivered) + 1
        /\ delivered'[Len(delivered) + 1] = tok /\ Len(delivered) \in Nat
    BY <1>1, <1>2, <1>3
  <2> QED BY <2>1 DEF Last
<1>5. ~Eof(delivered')
  BY <1>3, <1>4 DEF Eof
<1>6. Source' = Source /\ ~Clean'
  BY <1>1, <1>2 DEF Source, Clean, Buffered
<1>7. TypeOK'
  <2>1. buffer' \in Seq(Chars)
    BY <1>1
  <2> QED BY <1>1, <1>4, <2>1 DEF IInv, TypeOK, All
<1>8. LinesAgree' /\ Placed(Source)'
  BY <1>1, <1>6 DEF IInv, LinesAgree, Placed
<1>9. Follows'
  BY <1>6 DEF Follows
<1> QED BY <1>1, <1>5, <1>7, <1>8, <1>9 DEF IInv

(* nor is T_EOF. *)
LEMMA EndKeeps ==
  ASSUME IInv, EndOfFile
  PROVE  IInv'
<1> DEFINE tok == Token("T_EOF", <<>>, row, col)
           All == TokenSet(TokenTypes \cup {"T_EOF"})
<1>1. /\ ended /\ tokens = <<>> /\ buffer = <<>>
      /\ delivered' = IF Eof(delivered) THEN delivered ELSE Append(delivered, tok)
      /\ UNCHANGED <<text, alphabet, ended, state, buffer, tokens, row, col, reports, lineNum>>
  BY DEF EndOfFile, Eof
<1>2. row \in Nat \ {0} /\ col \in Nat \ {0} /\ delivered \in Seq(All)
  BY DEF IInv, TypeOK
<1>3. tok \in All /\ tok.type = "T_EOF"
  <2>1. <<>> \in Seq(Chars)
    OBVIOUS
  <2> QED BY <1>2, <2>1 DEF Token, TokenSet
<1>4. delivered' \in Seq(All) /\ BeforeEof(delivered') = BeforeEof(delivered)
  <2>1. CASE Eof(delivered)
    BY <1>1, <1>2, <2>1
  <2>2. CASE ~Eof(delivered)
    <3>1. BeforeEof(delivered) = delivered
      BY <2>2 DEF BeforeEof, Eof
    <3>2. delivered' = Append(delivered, tok)
      BY <1>1, <2>2
    <3> DEFINE d == Append(delivered, tok)
    <3> HIDE DEF tok, All
    <3>3. /\ d \in Seq(All) /\ d # <<>> /\ Last(d) = tok /\ Front(d) = delivered
      <4>1. /\ d \in Seq(All) /\ Len(d) = Len(delivered) + 1 /\ d[Len(delivered) + 1] = tok
            /\ Len(delivered) \in Nat
        BY <1>2, <1>3
      <4>2. SubSeq(d, 1, Len(delivered)) = delivered
        BY <1>2, <1>3
      <4> HIDE DEF d
      <4> QED BY <4>1, <4>2 DEF Last, Front
    <3> HIDE DEF d
    <3>4. BeforeEof(d) = delivered
      BY <1>3, <3>3 DEF BeforeEof
    <3> QED BY <3>1, <3>2, <3>3, <3>4 DEF d
  <2> QED BY <2>1, <2>2
<1> HIDE DEF tok, All
<1>5. Source' = Source /\ Got' = Got /\ (Clean' <=> Clean)
  BY <1>1, <1>4 DEF Source, Got, Clean
<1>6. TypeOK'
  BY <1>1, <1>4 DEF IInv, TypeOK, All
<1>7. LinesAgree' /\ Placed(Source)'
  BY <1>1, <1>5 DEF IInv, LinesAgree, Placed
<1>8. Follows'
  BY <1>1, <1>5 DEF IInv, Follows
<1> QED BY <1>1, <1>6, <1>7, <1>8 DEF IInv

(* At first nothing was read. *)
LEMMA FirstHolds ==
  ASSUME Init
  PROVE  IInv
<1>1. /\ alphabet \in Alphabets /\ ended \in BOOLEAN /\ text = <<>> /\ buffer = <<>>
      /\ tokens = <<>> /\ reports = <<>> /\ delivered = <<>>
      /\ state = "START" /\ row = 1 /\ col = 1 /\ lineNum = 1
  BY DEF Init
<1>2. Source = <<>>
  BY <1>1, NoReturnsIs DEF Source
<1>3. <<>> \in Seq(Chars) /\ Len(<<>>) = 0
  OBVIOUS
<1>4. TypeOK
  <2>1. \A S : <<>> \in Seq(S)
    OBVIOUS
  <2> QED BY <1>1, <2>1 DEF TypeOK, States
<1>5. LinesAgree /\ ~Eof(delivered)
  BY <1>1 DEF LinesAgree, Eof
<1>6. Placed(Source)
  <2> DEFINE t == <<>>
  <2>1. t \in Seq(Chars) /\ Len(t) + 1 = 1
    BY <1>3
  <2> HIDE DEF t
  <2>2. RowOf(t, 1) = 1 /\ ColOf(t, 1) = 1
    BY RowNext, ColNext
  <2>3. Placed(t)
    BY <1>1, <2>1, <2>2 DEF Placed
  <2> QED BY <1>2, <2>3 DEF t
<1>7. Follows
  <2>1. Got = <<>>
    <3>1. BeforeEof(delivered) = <<>>
      BY <1>1 DEF BeforeEof
    <3> QED BY <1>1, <3>1 DEF Got
  <2>2. Pending(<<>>, 1, "START", <<>>)
    <3>1. "START" \notin Buffered
      BY DEF Buffered, Quiet
    <3> QED BY <1>3, <3>1 DEF Pending
  <2>3. 1 \in 1..(Len(<<>>) + 1)
    BY <1>3
  <2> QED BY <1>1, <1>2, <2>1, <2>2, <2>3, ToldFirst DEF Follows
<1> QED BY <1>1, <1>4, <1>5, <1>6, <1>7 DEF IInv

(* Every step keeps it. *)
LEMMA StepKeeps ==
  ASSUME IInv, [Next]_vars
  PROVE  IInv'
<1>1. ASSUME NEW s, NEW ch, NEW last, NEW e, Took(s, ch, last, e), Keeps(s, ch, e)
      PROVE  IInv'
  BY <1>1, TookKeeps
<1>5. CASE UNCHANGED vars
  <2>1. /\ text' = text /\ alphabet' = alphabet /\ ended' = ended /\ state' = state
        /\ buffer' = buffer /\ tokens' = tokens /\ row' = row /\ col' = col
        /\ reports' = reports /\ lineNum' = lineNum /\ delivered' = delivered
    BY <1>5 DEF vars
  <2>2. Source' = Source /\ Got' = Got /\ (Clean' <=> Clean)
    BY <2>1 DEF Source, Got, Clean
  <2>3. TypeOK' /\ LinesAgree' /\ Placed(Source)'
    BY <2>1, <2>2 DEF IInv, TypeOK, LinesAgree, Placed
  <2>4. Follows'
    BY <2>1, <2>2 DEF IInv, Follows
  <2> QED BY <2>1, <2>3, <2>4 DEF IInv
<1>6. CASE Next
  <2>1. ASSUME Reading("START", FromStart) PROVE IInv'
    <3>1. \E ch, last : Took("START", ch, last, FromStart(ch))
      BY <2>1 DEF Reading, Took
    <3> QED BY <1>1, <3>1, AllKeep
  <2>2. ASSUME Reading("NUM", InNum) PROVE IInv'
    <3>1. \E ch, last : Took("NUM", ch, last, InNum(ch))
      BY <2>2 DEF Reading, Took
    <3> QED BY <1>1, <3>1, AllKeep
  <2>3. ASSUME Reading("ALPHANUM", InAlphanum) PROVE IInv'
    <3>1. \E ch, last : Took("ALPHANUM", ch, last, InAlphanum(ch))
      BY <2>3 DEF Reading, Took
    <3> QED BY <1>1, <3>1, AllKeep
  <2>4. ASSUME Reading("NUMDOT", InNumdot) PROVE IInv'
    <3>1. \E ch, last : Took("NUMDOT", ch, last, InNumdot(ch))
      BY <2>4 DEF Reading, Took
    <3> QED BY <1>1, <3>1, AllKeep
  <2>5. ASSUME Reading("FLOAT", InFloat) PROVE IInv'
    <3>1. \E ch, last : Took("FLOAT", ch, last, InFloat(ch))
      BY <2>5 DEF Reading, Took
    <3> QED BY <1>1, <3>1, AllKeep
  <2>6. ASSUME Reading("PRE_EQUAL", InPreEqual) PROVE IInv'
    <3>1. \E ch, last : Took("PRE_EQUAL", ch, last, InPreEqual(ch))
      BY <2>6 DEF Reading, Took
    <3> QED BY <1>1, <3>1, AllKeep
  <2>7. ASSUME Reading("LESS", InLess) PROVE IInv'
    <3>1. \E ch, last : Took("LESS", ch, last, InLess(ch))
      BY <2>7 DEF Reading, Took
    <3> QED BY <1>1, <3>1, AllKeep
  <2>8. ASSUME Reading("GRTR", InGrtr) PROVE IInv'
    <3>1. \E ch, last : Took("GRTR", ch, last, InGrtr(ch))
      BY <2>8 DEF Reading, Took
    <3> QED BY <1>1, <3>1, AllKeep
  <2>9. ASSUME Reading("EXCLM", InExclm) PROVE IInv'
    <3>1. \E ch, last : Took("EXCLM", ch, last, InExclm(ch))
      BY <2>9 DEF Reading, Took
    <3> QED BY <1>1, <3>1, AllKeep
  <2>10. ASSUME Reading("STRING", InString) PROVE IInv'
    <3>1. \E ch, last : Took("STRING", ch, last, InString(ch))
      BY <2>10 DEF Reading, Took
    <3> QED BY <1>1, <3>1, AllKeep
  <2>11. ASSUME Reading("SLASH", InSlash) PROVE IInv'
    <3>1. \E ch, last : Took("SLASH", ch, last, InSlash(ch))
      BY <2>11 DEF Reading, Took
    <3> QED BY <1>1, <3>1, AllKeep
  <2>12. ASSUME Reading("SLASHSTAR", InSlashstar) PROVE IInv'
    <3>1. \E ch, last : Took("SLASHSTAR", ch, last, InSlashstar(ch))
      BY <2>12 DEF Reading, Took
    <3> QED BY <1>1, <3>1, AllKeep
  <2>13. ASSUME Reading("SLASHMINUS", InSlashminus) PROVE IInv'
    <3>1. \E ch, last : Took("SLASHMINUS", ch, last, InSlashminus(ch))
      BY <2>13 DEF Reading, Took
    <3> QED BY <1>1, <3>1, AllKeep
  <2>14. ASSUME Reading("ML_COM", InMlCom) PROVE IInv'
    <3>1. \E ch, last : Took("ML_COM", ch, last, InMlCom(ch))
      BY <2>14 DEF Reading, Took
    <3> QED BY <1>1, <3>1, AllKeep
  <2>15. ASSUME Reading("ML_COMSTR", InMlComstr) PROVE IInv'
    <3>1. \E ch, last : Took("ML_COMSTR", ch, last, InMlComstr(ch))
      BY <2>15 DEF Reading, Took
    <3> QED BY <1>1, <3>1, AllKeep
  <2>16. ASSUME Reading("ML_COMSTRSTR", InMlComstrstr) PROVE IInv'
    <3>1. \E ch, last : Took("ML_COMSTRSTR", ch, last, InMlComstrstr(ch))
      BY <2>16 DEF Reading, Took
    <3> QED BY <1>1, <3>1, AllKeep
  <2>17. ASSUME Reading("SL_COM", InSlCom) PROVE IInv'
    <3>1. \E ch, last : Took("SL_COM", ch, last, InSlCom(ch))
      BY <2>17 DEF Reading, Took
    <3> QED BY <1>1, <3>1, AllKeep
  <2>18. ASSUME Reading("ERROR", InError) PROVE IInv'
    <3>1. \E ch, last : Took("ERROR", ch, last, InError(ch))
      BY <2>18 DEF Reading, Took
    <3> QED BY <1>1, <3>1, AllKeep
  <2>19. Deliver \/ LastName \/ EndOfFile => IInv'
    BY DeliverKeeps, NameKeeps, EndKeeps
  <2> QED BY <2>1, <2>2, <2>3, <2>4, <2>5, <2>6, <2>7, <2>8, <2>9,
            <2>10, <2>11, <2>12, <2>13, <2>14, <2>15, <2>16, <2>17, <2>18, <2>19, <1>6, Zenon DEF Next
<1> QED BY <1>5, <1>6

(* The invariant of the lexer. *)
THEOREM Invariance == Spec => []IInv
<1>1. Init => IInv
  BY FirstHolds
<1>2. IInv /\ [Next]_vars => IInv'
  BY StepKeeps
<1> QED BY <1>1, <1>2, PTL DEF Spec

(* Between tokens everything is told. *)
LEMMA SettledTold ==
  ASSUME IInv, Settled, ~Odd
  PROVE  LET meant == Meant(Source)
             got   == BeforeEof(delivered)
         IN  /\ Source \in Seq(Chars) /\ got \in Seq(Tokens) /\ Len(got) = Len(meant)
             /\ \A k \in 1..Len(got) : Agrees(Source, meant[k], got[k])
             /\ reports = Said(meant, got)
<1> DEFINE t == Source
           got == BeforeEof(delivered)
           meant == Meant(t)
<1>1. state = "START" /\ tokens = <<>> /\ buffer = <<>> /\ ~OddIn(t) /\ Clean
  <2>1. ~OddIn(t)
    BY DEF Odd, OddIn
  <2> QED BY <2>1 DEF Settled, Clean, Quiet
<1>2. t \in Seq(Chars)
  BY NoReturnsIs DEF IInv, TypeOK, Source
<1>3. got \in Seq(TokenSet(TokenTypes \cup {"T_EOF"}))
  <2> DEFINE All == TokenSet(TokenTypes \cup {"T_EOF"})
  <2>1. delivered \in Seq(All)
    BY DEF IInv, TypeOK
  <2> HIDE DEF All
  <2>2. delivered # <<>> => Front(delivered) \in Seq(All)
    BY <2>1 DEF Front
  <2>3. got \in Seq(All)
    BY <2>1, <2>2 DEF BeforeEof
  <2> QED BY <2>3 DEF All
<1>4. Got = got
  BY <1>1, <1>3 DEF Got
<1>5. PICK p \in 1..(Len(t) + 1) : Told(t, got, reports, p) /\ Pending(t, p, state, buffer)
  BY <1>1, <1>4 DEF IInv, Follows
<1>6. p = Len(t) + 1
  BY <1>1, <1>5 DEF Pending
<1> HIDE DEF t, got
<1>7. PICK m \in Seq(PieceSet) : ToldAs(t, got, reports, p, m)
  BY <1>5 DEF Told
<1>8. From(t)[1] = m \o From(t)[p]
  <2>1. Extends(t, t)
    BY <1>2 DEF Extends
  <2> QED BY <1>2, <1>7, <2>1 DEF ToldAs, Reads
<1>9. From(t)[p] = <<>>
  <2>1. From(t)[p] = FromAt(t, From(t), p) /\ p > Len(t)
    BY <1>2, <1>5, <1>6, FromIs
  <2> QED BY <2>1 DEF FromAt
<1>a. meant = m
  <2>1. m \o <<>> = m
    OBVIOUS
  <2> QED BY <1>8, <1>9, <2>1 DEF Meant
<1>b. got \in Seq(Tokens)
  BY <1>5 DEF Told
<1> QED BY <1>2, <1>7, <1>a, <1>b DEF ToldAs, t, got

(* Whatever is read, each variable has its type and no more than three tokens
   wait. *)
THEOREM TypeCorrect == Spec => []TypeOK
<1>1. IInv => TypeOK
  BY DEF IInv
<1> QED BY <1>1, Invariance, PTL

(* The parser gets the tokens that the text means, in any file of any length:
   the automaton of lexer_get_token does the longest match. *)
THEOREM Meaning == Spec => []TokensAreMeant
<1>1. ASSUME IInv PROVE TokensAreMeant
  <2> SUFFICES ASSUME Settled, ~Odd
      PROVE  LET meant == Meant(Source)
                 got   == BeforeEof(delivered)
             IN  /\ Len(got) = Len(meant)
                 /\ \A k \in DOMAIN got :
                      /\ got[k].type = TypeOf(meant[k].s)
                      /\ got[k].val = ValOf(meant[k].s)
                      /\ got[k].row = RowOf(Source, meant[k].at)
    BY DEF TokensAreMeant
  <2> DEFINE meant == Meant(Source)
             got == BeforeEof(delivered)
  <2>1. /\ got \in Seq(Tokens) /\ Len(got) = Len(meant)
        /\ \A k \in 1..Len(got) : Agrees(Source, meant[k], got[k])
    BY <1>1, SettledTold
  <2> HIDE DEF meant, got
  <2>2. DOMAIN got = 1..Len(got)
    BY <2>1
  <2>3. \A k \in DOMAIN got : /\ got[k].type = TypeOf(meant[k].s)
                              /\ got[k].val = ValOf(meant[k].s)
                              /\ got[k].row = RowOf(Source, meant[k].at)
    BY <2>1, <2>2 DEF Agrees
  <2> QED BY <2>1, <2>3 DEF meant, got
<1> QED BY <1>1, Invariance, PTL

(* Each at its column, or one further on for the signs that wait for a second
   character. *)
THEOREM Places == Spec => []Located
<1>1. ASSUME IInv PROVE Located
  <2> SUFFICES ASSUME Settled, ~Odd, NEW k \in DOMAIN BeforeEof(delivered)
      PROVE  LET meant == Meant(Source)
                 got   == BeforeEof(delivered)
                 shift == got[k].col - ColOf(Source, meant[k].at)
             IN  \/ shift = 0
                 \/ shift = 1 /\ got[k].type \in LateSigns
                 \/ shift > 0 /\ \E j \in DOMAIN Source : Source[j] = "tab"
    BY DEF Located
  <2> DEFINE meant == Meant(Source)
             got == BeforeEof(delivered)
  <2>1. got \in Seq(Tokens) /\ \A i \in 1..Len(got) : Agrees(Source, meant[i], got[i])
    BY <1>1, SettledTold
  <2>2. k \in 1..Len(got)
    BY <2>1
  <2>3. Shifted(Source, got[k].col - ColOf(Source, meant[k].at), got[k].type)
    BY <2>1, <2>2 DEF Agrees
  <2> QED BY <2>3 DEF Shifted
<1> QED BY <1>1, Invariance, PTL

(* The reports are those of the undefined tokens and of the keywords in another
   spelling, in order, at the place of the token. *)
THEOREM Reports == Spec => []ReportsAgree
<1>1. IInv => ReportsAgree
  BY SettledTold DEF ReportsAgree
<1> QED BY <1>1, Invariance, PTL

(* The listing has the number of the row on each line. *)
THEOREM Lines == Spec => []LinesAgree
<1>1. IInv => LinesAgree
  BY DEF IInv
<1> QED BY <1>1, Invariance, PTL
=============================================================================
