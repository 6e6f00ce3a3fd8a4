-------------------------------- MODULE Lexer --------------------------------
(***************************************************************************)
(* The lexer (src/src/lexer.c) and the part of the lister (src/src/lister.c)*)
(* that runs with it.  A step reads one character and makes the tokens it  *)
(* completes, or hands one token to the parser.  The file is chosen as it  *)
(* is read.  A character stands for its class; letters are kept apart as   *)
(* far as two keywords need it.                                            *)
(***************************************************************************)
EXTENDS Integers, Sequences, FiniteSets, FiniteSetsExt, SequencesExt

CONSTANTS
  Alphabets,  \* bound: a file is written with the characters of one of these
  MaxChars,   \* bound: characters of a file over few characters
  MaxMixed,   \* bound: characters of a file over more than MaxFew characters
  MaxFew,     \* bound: what few characters are
  MaxDigits   \* digits a numeral may have before strtoll and strtod give ERANGE

ASSUME BoundsAssumption == {MaxChars, MaxMixed, MaxFew, MaxDigits} \subseteq Nat

VARIABLES
  text,       \* the characters read so far, the first one first
  alphabet,   \* auxiliary: the characters of this file
  ended,      \* the file has no character left
  state,      \* lex->state
  buffer,     \* lex->buffer
  tokens,     \* lex->tokens: pushed at the head, popped at the tail, oldest first
  row, col,   \* lex->row, lex->col
  reports,    \* the queues of the lister: errors and warnings, in order
  lineNum,    \* lister->line_num, as written to the listing
  delivered   \* what lexer_get_token has returned

vars == <<text, alphabet, ended, state, buffer, tokens, row, col, reports,
          lineNum, delivered>>

-----------------------------------------------------------------------------
(* "q" is the quotation mark, "?" any character CD25 does not use. *)
Lower   == {"i", "n", "s"}
Letters == Lower \cup {"I"}
Digits  == {"1"}
Blanks  == {"sp", "tab", "nl"}
Lone    == [ch \in {";", ".", "("} |->
              CASE ch = ";" -> "TSEMI" [] ch = "." -> "TDOTT" [] ch = "(" -> "TLPAR"]
Signs   == {"+", "-", "*", "=", "<", ">", "!", "/"}
Chars   == Letters \cup Digits \cup Blanks \cup DOMAIN Lone \cup Signs
           \cup {"cr", "q", "?"}
ASSUME AlphabetsAssumption == Alphabets \subseteq SUBSET Chars

valid_char(ch) == ch \notin {"q", "?"}

States == {"START", "NUM", "ALPHANUM", "NUMDOT", "FLOAT", "PRE_EQUAL", "LESS",
           "GRTR", "EXCLM", "STRING", "SLASH", "SLASHSTAR", "SLASHMINUS",
           "ML_COM", "ML_COMSTR", "ML_COMSTRSTR", "SL_COM", "ERROR"}

(* keyword_map, and the spelling each keyword should have. *)
Keywords == [w \in {<<"i", "n">>, <<"i", "s">>} |->
               IF w = <<"i", "n">> THEN "TINPT" ELSE "TTTIS"]
Proper   == [w \in DOMAIN Keywords |-> IF w = <<"i", "n">> THEN <<"I", "n">> ELSE w]
ToLower(w) == [k \in DOMAIN w |-> IF w[k] = "I" THEN "i" ELSE w[k]]

Alone == [ch \in {"+", "-", "*", "=", "<", ">", "/"} |->
  CASE ch = "+" -> "TPLUS" [] ch = "-" -> "TMINS" [] ch = "*" -> "TSTAR"
    [] ch = "=" -> "TEQUL" [] ch = "<" -> "TLESS" [] ch = ">" -> "TGRTR"
    [] ch = "/" -> "TDIVD"]
BeforeEqual == [ch \in Signs |->
  CASE ch = "+" -> "TPLEQ" [] ch = "-" -> "TMNEQ" [] ch = "*" -> "TSTEQ"
    [] ch = "=" -> "TEQEQ" [] ch = "<" -> "TLEQL" [] ch = ">" -> "TGEQL"
    [] ch = "!" -> "TNEQL" [] ch = "/" -> "TDVEQ"]
Twice == [ch \in {"<", ">"} |-> IF ch = "<" THEN "TLSLS" ELSE "TGRGR"]

Token(type, val, r, c) == [type |-> type, val |-> val, row |-> r, col |-> c]
Report(kind, r, c)     == [kind |-> kind, row |-> r, col |-> c]

(* Mutation: a token leaves its spelling in the buffer. *)
MutMade(tok)    == [state |-> "START", buffer |-> buffer, made |-> <<tok>>, said |-> <<>>]

(* What a character does: the state and the buffer after it, the tokens made
   and the reports given, and whether start_state moved on already. *)
Effect(s, b, made, said) == [state |-> s, buffer |-> b, made |-> made, said |-> said]
Go(s, b)        == Effect(s, b, <<>>, <<>>)
Made(tok)       == Effect("START", <<>>, <<tok>>, <<>>)
Shift(s, ch)    == Go(s, Append(buffer, ch))

(* The character's own column: a tab is counted before its state is looked at. *)
Here(ch) == IF ch = "tab" THEN col + 3 ELSE col
Back(ch) == Here(ch) - Len(buffer)

-----------------------------------------------------------------------------
(* start_state: nothing is in the buffer.  The buffer is the one left by the
   state that jumped here, which is empty. *)
FromStart(ch) ==
  CASE ch \in Blanks        -> Go("START", <<>>)
    [] ch \in Digits        -> Go("NUM", <<ch>>)
    [] ch \in Letters       -> Go("ALPHANUM", <<ch>>)
    [] ch \in DOMAIN Lone   -> Made(Token(Lone[ch], <<>>, row, Here(ch)))
    [] ch \in {"+", "-", "*", "="} -> Go("PRE_EQUAL", <<ch>>)
    [] ch = "<"             -> Go("LESS", <<ch>>)
    [] ch = ">"             -> Go("GRTR", <<ch>>)
    [] ch = "!"             -> Go("EXCLM", <<ch>>)
    [] ch = "q"             -> Go("STRING", <<ch>>)
    [] ch = "/"             -> Go("SLASH", <<ch>>)
    [] OTHER                -> Go("ERROR", <<ch>>)

(* goto start_state, with tokens made and reports given before it. *)
Flush(made, said, ch) ==
  LET e == FromStart(ch)
  IN  [e EXCEPT !.made = made \o @, !.said = said \o @]

(* A numeral, or what is left of it when it does not fit. *)
Numeral(type, digits, c) ==
  IF Len(digits) <= MaxDigits
  THEN [made |-> <<Token(type, digits, row, c)>>, said |-> <<>>]
  ELSE [made |-> <<Token("TUNDF", digits, row, c)>>,
        said |-> <<Report("error", row, c)>>]

InNum(ch) ==
  IF ch \in Digits THEN Shift("NUM", ch)
  ELSE IF ch = "." THEN Shift("NUMDOT", ch)
  ELSE LET n == Numeral("TILIT", buffer, Back(ch)) IN Flush(n.made, n.said, ch)

(* The word is a keyword in whatever case; lexer_handle_capitalisation_warnings. *)
InAlphanum(ch) ==
  LET word  == ToLower(buffer)
      known == word \in DOMAIN Keywords
  IN  IF ch \in Letters \cup Digits THEN Shift("ALPHANUM", ch)
      ELSE Flush(<<IF known THEN Token(Keywords[word], <<>>, row, Back(ch))
                   ELSE Token("TIDEN", buffer, row, Back(ch))>>,
                 IF known /\ buffer # Proper[word]
                 THEN <<Report("warning", row, Back(ch))>> ELSE <<>>,
                 ch)

(* Mutation: the dot is queued before the numeral. *)
MutInNumdot(ch) ==
  IF ch \in Digits THEN Shift("FLOAT", ch)
  ELSE LET n == Numeral("TILIT", Front(buffer), Back(ch))
       IN  Flush(<<Token("TDOTT", <<>>, row, Here(ch))>> \o n.made, n.said, ch)

(* The dot turned out not to belong to the numeral. *)
InNumdot(ch) ==
  IF ch \in Digits THEN Shift("FLOAT", ch)
  ELSE LET n == Numeral("TILIT", Front(buffer), Back(ch))
       IN  Flush(Append(n.made, Token("TDOTT", <<>>, row, Here(ch))), n.said, ch)

InFloat(ch) ==
  IF ch \in Digits THEN Shift("FLOAT", ch)
  ELSE LET n == Numeral("TFLIT", buffer, Back(ch)) IN Flush(n.made, n.said, ch)

InPreEqual(ch) ==
  IF ch = "=" THEN Made(Token(BeforeEqual[buffer[1]], <<>>, row, Here(ch) - 1))
  ELSE Flush(<<Token(Alone[buffer[1]], <<>>, row, Here(ch) - 1)>>, <<>>, ch)

(* LESS and GRTR: a sign that may be doubled. *)
InAngle(sign, ch) ==
  IF ch = sign THEN Made(Token(Twice[sign], <<>>, row, Here(ch) - 1))
  ELSE IF ch = "=" THEN Made(Token(BeforeEqual[sign], <<>>, row, Here(ch) - 1))
  ELSE Flush(<<Token(Alone[sign], <<>>, row, Here(ch))>>, <<>>, ch)
InLess(ch) == InAngle("<", ch)
InGrtr(ch) == InAngle(">", ch)

InExclm(ch) ==
  IF ch = "=" THEN Made(Token(BeforeEqual["!"], <<>>, row, Here(ch) - 1))
  ELSE IF ~valid_char(ch) \/ ch = "!" THEN Shift("ERROR", ch)
  ELSE Flush(<<Token("TUNDF", buffer, row, Here(ch) - 1)>>,
             <<Report("error", row, Here(ch) - 1)>>, ch)

(* Mutation: the opening mark is dropped before the column is worked out. *)
MutInString(ch) ==
  IF ch = "q" THEN Made(Token("TSTRG", Tail(buffer), row, Here(ch) - Len(Tail(buffer))))
  ELSE IF ch = "nl"
  THEN Effect("START", <<>>, <<Token("TUNDF", buffer, row, Back(ch))>>,
              <<Report("error", row, Back(ch))>>)
  ELSE Shift("STRING", ch)

InString(ch) ==
  IF ch = "q" THEN Made(Token("TSTRG", Tail(buffer), row, Back(ch)))
  ELSE IF ch = "nl"
  THEN Effect("START", <<>>, <<Token("TUNDF", buffer, row, Back(ch))>>,
              <<Report("error", row, Back(ch))>>)
  ELSE Shift("STRING", ch)

InSlash(ch) ==
  IF ch = "=" THEN Made(Token(BeforeEqual["/"], <<>>, row, Here(ch) - 1))
  ELSE IF ch = "*" THEN Shift("SLASHSTAR", ch)
  ELSE IF ch = "-" THEN Shift("SLASHMINUS", ch)
  ELSE Flush(<<Token("TDIVD", <<>>, row, Here(ch) - 1)>>, <<>>, ch)

(* A slash and a sign that did not open a comment. *)
SlashAnd(sign, comment, ch) ==
  IF ch = sign THEN Go(comment, <<>>)
  ELSE Flush(<<Token("TDIVD", <<>>, row, Here(ch) - 1),
               Token(Alone[sign], <<>>, row, Here(ch))>>, <<>>, ch)
InSlashstar(ch)  == SlashAnd("*", "ML_COM", ch)
InSlashminus(ch) == SlashAnd("-", "SL_COM", ch)

(* The four comment states keep the buffer empty. *)
InMlCom(ch)       == Go(IF ch = "*" THEN "ML_COMSTR" ELSE "ML_COM", <<>>)
InMlComstr(ch)    == Go(IF ch = "*" THEN "ML_COMSTRSTR" ELSE "ML_COM", <<>>)
InMlComstrstr(ch) == Go(IF ch = "/" THEN "START" ELSE "ML_COM", <<>>)
InSlCom(ch)       == Go(IF ch = "nl" THEN "START" ELSE "SL_COM", <<>>)

(* Mutation: a run of unknown characters is queued without a report. *)
MutInError(ch) ==
  IF valid_char(ch) THEN Flush(<<Token("TUNDF", buffer, row, Back(ch))>>, <<>>, ch)
  ELSE Shift("ERROR", ch)

InError(ch) ==
  IF valid_char(ch)
  THEN Flush(<<Token("TUNDF", buffer, row, Back(ch))>>,
             <<Report("error", row, Back(ch))>>, ch)
  ELSE Shift("ERROR", ch)

-----------------------------------------------------------------------------
Limit == IF Cardinality(alphabet) <= MaxFew THEN MaxChars ELSE MaxMixed

Init ==
  /\ alphabet \in Alphabets
  /\ ended \in BOOLEAN
  /\ text = <<>> /\ buffer = <<>> /\ tokens = <<>> /\ reports = <<>>
  /\ delivered = <<>>
  /\ state = "START" /\ row = 1 /\ col = 1 /\ lineNum = 1

(* lister_write: every character but the last is copied to the listing, and
   each end of line starts a numbered one. *)
Listed(ch, last) == IF ch = "nl" /\ ~last THEN lineNum + 1 ELSE lineNum

(* Mutation: the early continue of start_state skips the count of lines. *)
MutAdvance(ch) == /\ row' = IF ch = "nl" /\ state # "START" THEN row + 1 ELSE row
                  /\ col' = IF ch = "nl" THEN 1 ELSE Here(ch) + 1

(* The end of the loop, and the same three lines in start_state. *)
Advance(ch) == /\ row' = IF ch = "nl" THEN row + 1 ELSE row
               /\ col' = IF ch = "nl" THEN 1 ELSE Here(ch) + 1

(* One turn of the loop of lexer_get_token in state s.  A carriage return is
   dropped before the state is looked at. *)
Reading(s, In(_)) ==
  /\ state = s /\ tokens = <<>> /\ ~ended
  /\ \E ch \in alphabet, last \in BOOLEAN :
       /\ Len(text) + 1 < Limit \/ last
       /\ text' = Append(text, ch)
       /\ ended' = last
       /\ lineNum' = Listed(ch, last)
       /\ IF ch = "cr" THEN UNCHANGED <<state, buffer, tokens, reports, row, col>>
          ELSE LET e == In(ch)
               IN  /\ state' = e.state /\ buffer' = e.buffer
                   /\ tokens' = e.made
                   /\ reports' = reports \o e.said
                   /\ Advance(ch)
  /\ UNCHANGED <<alphabet, delivered>>

(* The parser asks for a token and one is waiting. *)
Deliver ==
  /\ tokens # <<>>
  /\ delivered' = Append(delivered, Head(tokens))
  /\ tokens' = Tail(tokens)
  /\ UNCHANGED <<text, alphabet, ended, state, buffer, row, col, reports, lineNum>>

(* The file is read and something is in the buffer: it is made an identifier. *)
LastName ==
  /\ ended /\ tokens = <<>> /\ buffer # <<>>
  /\ delivered' = Append(delivered, Token("TIDEN", buffer, row, col - Len(buffer)))
  /\ buffer' = <<>>
  /\ UNCHANGED <<text, alphabet, ended, state, tokens, row, col, reports, lineNum>>

(* The file is read: T_EOF, as often as it is asked for. *)
EndOfFile ==
  /\ ended /\ tokens = <<>> /\ buffer = <<>>
  /\ delivered' = IF delivered # <<>> /\ Last(delivered).type = "T_EOF"
                  THEN delivered
                  ELSE Append(delivered, Token("T_EOF", <<>>, row, col))
  /\ UNCHANGED <<text, alphabet, ended, state, buffer, tokens, row, col, reports,
                 lineNum>>

Next ==
  \/ Reading("START", FromStart)         \/ Reading("NUM", InNum)
  \/ Reading("ALPHANUM", InAlphanum)     \/ Reading("NUMDOT", InNumdot)
  \/ Reading("FLOAT", InFloat)           \/ Reading("PRE_EQUAL", InPreEqual)
  \/ Reading("LESS", InLess)             \/ Reading("GRTR", InGrtr)
  \/ Reading("EXCLM", InExclm)           \/ Reading("STRING", InString)
  \/ Reading("SLASH", InSlash)           \/ Reading("SLASHSTAR", InSlashstar)
  \/ Reading("SLASHMINUS", InSlashminus) \/ Reading("ML_COM", InMlCom)
  \/ Reading("ML_COMSTR", InMlComstr)    \/ Reading("ML_COMSTRSTR", InMlComstrstr)
  \/ Reading("SL_COM", InSlCom)          \/ Reading("ERROR", InError)
  \/ Deliver \/ LastName \/ EndOfFile

Spec == Init /\ [][Next]_vars

-----------------------------------------------------------------------------
(* What a file means, read off its text with no automaton: blanks and comments
   go, and the longest spelling of a token comes next. *)
Slice(t, i, n) == SubSeq(t, i, i + n - 1)
OnlyOf(S, s)   == \A k \in DOMAIN s : s[k] \in S

IsWord(s)    == s # <<>> /\ s[1] \in Letters /\ OnlyOf(Letters \cup Digits, s)
IsDigits(s)  == s # <<>> /\ OnlyOf(Digits, s)
IsReal(s)    == \E k \in 2..(Len(s) - 1) :
                  /\ s[k] = "."
                  /\ IsDigits(Slice(s, 1, k - 1))
                  /\ IsDigits(SubSeq(s, k + 1, Len(s)))
IsQuoted(s)  == /\ Len(s) >= 2 /\ s[1] = "q" /\ s[Len(s)] = "q"
                /\ OnlyOf(Chars \ {"q", "nl"}, Slice(s, 2, Len(s) - 2))
OperatorOf(s) ==
  CASE Len(s) = 1 /\ s[1] \in DOMAIN Lone  -> Lone[s[1]]
    [] Len(s) = 1 /\ s[1] \in DOMAIN Alone -> Alone[s[1]]
    [] Len(s) = 2 /\ s[1] \in DOMAIN BeforeEqual /\ s[2] = "=" -> BeforeEqual[s[1]]
    [] Len(s) = 2 /\ s[1] \in DOMAIN Twice /\ s[2] = s[1]      -> Twice[s[1]]
    [] OTHER -> "none"
IsSpelling(s) == \/ IsWord(s) \/ IsDigits(s) \/ IsReal(s) \/ IsQuoted(s)
                 \/ OperatorOf(s) # "none"

(* The characters at i that make no token: a string that its line does not
   finish, or a run of unknown ones, an exclamation mark being one of them at
   its beginning. *)
JunkAt(t, i) ==
  LET ends == {j \in i..Len(t) :
                 \/ j = Len(t)
                 \/ IF t[i] = "q" THEN t[j + 1] = "nl" ELSE valid_char(t[j + 1])}
  IN  Min(ends) - i + 1

Fits(s) == Len(s) <= MaxDigits

TypeOf(s) ==
  CASE IsWord(s) -> IF ToLower(s) \in DOMAIN Keywords THEN Keywords[ToLower(s)]
                    ELSE "TIDEN"
    [] IsDigits(s) -> IF Fits(s) THEN "TILIT" ELSE "TUNDF"
    [] IsReal(s)   -> IF Fits(s) THEN "TFLIT" ELSE "TUNDF"
    [] IsQuoted(s) -> "TSTRG"
    [] OperatorOf(s) # "none" -> OperatorOf(s)
    [] OTHER       -> "TUNDF"

ValOf(s) == CASE TypeOf(s) \in {"TIDEN", "TILIT", "TFLIT", "TUNDF"} -> s
              [] IsQuoted(s) -> Slice(s, 2, Len(s) - 2)
              [] OTHER -> <<>>

(* Where a comment that opens at i ends, or 0. *)
CommentEnd(t, i) ==
  LET ends == IF Slice(t, i, 3) = <<"/", "*", "*">>
              THEN {j \in (i + 5)..Len(t) : Slice(t, j - 2, 3) = <<"*", "*", "/">>}
              ELSE {j \in (i + 3)..Len(t) : t[j] = "nl"}
  IN  IF ends = {} THEN 0 ELSE Min(ends)
OpensComment(t, i) ==
  i + 2 <= Len(t) /\ Slice(t, i, 3) \in {<<"/", "*", "*">>, <<"/", "-", "-">>}

(* The row and the column of the i-th character; a tab is four wide. *)
RowOf(t, i) == 1 + Cardinality({j \in 1..(i - 1) : t[j] = "nl"})
ColOf(t, i) == LET line == Max({0} \cup {j \in 1..(i - 1) : t[j] = "nl"})
               IN  i - line + 3 * Cardinality({j \in (line + 1)..(i - 1) : t[j] = "tab"})

Longest(t, i) == Max({0} \cup {n \in 1..(Len(t) - i + 1) : IsSpelling(Slice(t, i, n))})
Size(t, i)    == IF Longest(t, i) > 0 THEN Longest(t, i) ELSE JunkAt(t, i)
Piece(t, i)   == [s |-> Slice(t, i, Size(t, i)), at |-> i]

(* What is written from each character on. *)
From(t) ==
  LET from[i \in 1..(Len(t) + 1)] ==
        IF i > Len(t) THEN <<>>
        ELSE IF t[i] \in Blanks THEN from[i + 1]
        ELSE IF OpensComment(t, i)
        THEN IF CommentEnd(t, i) = 0 THEN <<>> ELSE from[CommentEnd(t, i) + 1]
        ELSE <<Piece(t, i)>> \o from[i + Size(t, i)]
  IN  from
Meant(t) == From(t)[1]

(* Spellings on which the automaton decides earlier than the longest match, or
   leaves a comment later than its first end. *)
Oddities == {<<"/", "*", "=">>, <<"/", "-", "=">>, <<"*", "*", "*">>,
             <<"!", "!">>}
(* Carriage returns are dropped wherever they are. *)
NoReturns(t) ==
  LET kept[n \in 0..Len(t)] == IF n = 0 THEN <<>>
                               ELSE IF t[n] = "cr" THEN kept[n - 1]
                               ELSE Append(kept[n - 1], t[n])
  IN  kept[Len(t)]
Source == NoReturns(text)
Odd    == \E i \in DOMAIN Source, n \in {2, 3} :
            i + n - 1 <= Len(Source) /\ Slice(Source, i, n) \in Oddities
Settled == state = "START" /\ tokens = <<>> /\ buffer = <<>>
BeforeEof(toks) == IF toks # <<>> /\ Last(toks).type = "T_EOF" THEN Front(toks) ELSE toks

(***************************************************************************)
(* Properties                                                              *)
(***************************************************************************)
TokenTypes == {"TUNDF", "TIDEN", "TILIT", "TFLIT", "TSTRG", "TINPT", "TTTIS", "TSEMI",
               "TDOTT", "TLPAR", "TPLUS", "TMINS", "TSTAR", "TEQUL", "TLESS", "TGRTR",
               "TDIVD", "TPLEQ", "TMNEQ", "TSTEQ", "TEQEQ", "TLEQL", "TGEQL", "TNEQL",
               "TDVEQ", "TLSLS", "TGRGR"}
TokenSet(types) == [type : types, val : Seq(Chars), row : Nat \ {0}, col : Int]

(* Types; three tokens at most wait, since one character completes no more. *)
TypeOK ==
  /\ alphabet \in Alphabets /\ ended \in BOOLEAN
  /\ text \in Seq(Chars) /\ buffer \in Seq(Chars)
  /\ state \in States /\ row \in Nat \ {0} /\ col \in Nat \ {0}
  /\ tokens \in Seq(TokenSet(TokenTypes)) /\ Len(tokens) <= 3
  /\ delivered \in Seq(TokenSet(TokenTypes \cup {"T_EOF"}))
  /\ ~ended => (buffer = <<>>) = (state \in {"START", "ML_COM", "ML_COMSTR",
                                              "ML_COMSTRSTR", "SL_COM"})
  /\ lineNum \in Nat \ {0}

(* Nothing is lost, made twice or put in another order: whenever the lexer is
   between tokens, the parser has got the tokens the text means, with their
   values and rows. *)
TokensAreMeant ==
  Settled /\ ~Odd =>
    LET meant == Meant(Source)
        got   == BeforeEof(delivered)
    IN  /\ Len(got) = Len(meant)
        /\ \A k \in DOMAIN got :
             /\ got[k].type = TypeOf(meant[k].s)
             /\ got[k].val = ValOf(meant[k].s)
             /\ got[k].row = RowOf(Source, meant[k].at)

(* The column a token is given is the one it starts in, or one more for signs
   that were waiting for a second character.  In a file with tabs it may be
   further right, never left: a tab is added up before the token that it ends
   is made, and counts as one character of a string. *)
LateSigns == {"TLESS", "TGRTR", "TDOTT", "TDIVD", "TSTAR", "TMINS"}
Located ==
  Settled /\ ~Odd =>
    LET meant == Meant(Source)
        got   == BeforeEof(delivered)
    IN  \A k \in DOMAIN got :
          LET shift == got[k].col - ColOf(Source, meant[k].at)
          IN  \/ shift = 0
              \/ shift = 1 /\ got[k].type \in LateSigns
              \/ shift > 0 /\ \E j \in DOMAIN Source : Source[j] = "tab"

(* Exactly the undefined tokens are errors and exactly the keywords in another
   spelling are warned about, in the order of the text and at the place the
   token itself is given. *)
About(s, tok) ==
  IF TypeOf(s) = "TUNDF" THEN <<Report("error", tok.row, tok.col)>>
  ELSE IF /\ IsWord(s) /\ ToLower(s) \in DOMAIN Keywords
          /\ s # Proper[ToLower(s)]
  THEN <<Report("warning", tok.row, tok.col)>>
  ELSE <<>>
Said(pieces, toks) ==
  LET said[k \in 0..Len(pieces)] ==
        IF k = 0 THEN <<>> ELSE said[k - 1] \o About(pieces[k].s, toks[k])
  IN  said[Len(pieces)]
ReportsAgree == Settled /\ ~Odd => reports = Said(Meant(Source), BeforeEof(delivered))

(* The number at the head of the line in the listing is the row in the reports:
   both are counted on their own, one in the lister and one in two places of
   the lexer.  Only an end of line that ends the file is not listed. *)
LinesAgree ==
  row = IF ended /\ text # <<>> /\ Last(text) = "nl" THEN lineNum + 1 ELSE lineNum

(* The comment at lexer.c:607: if the buffer has material at the end of the
   file, it is the program name. *)
NameAtEnd ==
  \A k \in DOMAIN delivered : delivered[k].type = "TIDEN" => IsWord(delivered[k].val)
=============================================================================
