\* Files that end with their last token, without an end of line.
CONSTANTS
  Alphabets = {{"i", "1", "q", "/", "nl"}}
  MaxChars = 4
  MaxMixed = 3
  MaxFew = 4
  MaxDigits = 3
SPECIFICATION Spec
INVARIANT NameAtEnd
