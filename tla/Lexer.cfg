\* Short files over every character, longer ones over the characters of
\* comments, numerals, words, strings, signs and unknown characters.
CONSTANTS
  Alphabets = {
    {"i", "n", "s", "I", "1", "sp", "tab", "nl", ";", ".", "(", "+", "-", "*", "=",
     "<", ">", "!", "/", "cr", "q", "?"},
    {"/", "*", "nl"}, {"/", "-", "nl"}, {"/", "*", ";"}, {"/", "=", "i"},
    {"1", ".", "tab"}, {"1", ".", ";"}, {"i", "I", "n"}, {"i", "s", "sp"},
    {"q", "nl", "i"}, {"q", "cr", "nl"}, {"<", "=", "!"}, {">", "?", "nl"},
    {"!", "?", "="}, {"+", "=", "nl"}}
  MaxChars = 8
  MaxMixed = 3
  MaxFew = 4
  MaxDigits = 3
SPECIFICATION Spec
INVARIANTS
  TypeOK
  TokensAreMeant
  Located
  ReportsAgree
  LinesAgree
