\* Every expression of up to eleven tokens over four operators, one of each
\* level and both sums.
CONSTANTS
  Ops = {"+", "-", "/", "^"}
  MaxLen = 11
SPECIFICATION Spec
INVARIANT SumsGroupLeft
