CONSTANTS
  Names <- MCNames
  Size = 2
  Word = 1000
  MaxSymbols = 5
  LastScope = 3
  Null = Null
SPECIFICATION Spec
INVARIANTS
  TypeOK
  Spelled
  Released
PROPERTY ImplementsScopes
\* The program ends.
CHECK_DEADLOCK FALSE
