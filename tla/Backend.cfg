\* Every set of constructs is a small language; together they have all of them.
\* Two argument registers, for functions of up to two parameters; the reals 3
\* and 0 are one literal to the generator, 12 is another.
CONSTANTS
  Funcs = {"f"}
  Programs = {
    {"if", "ifelse", "for", "repeat"},
    {"fncall", "arith", "asgn"},
    {"fncall", "call", "asgn"},
    {"fncall", "return", "param", "locals"},
    {"relop", "if"},
    {"not", "logic", "asgn"},
    {"not", "if"},
    {"store", "elem", "print"},
    {"copy", "elem", "readelem", "read"},
    {"param", "call", "elem"},
    {"realconst", "asgn"},
    {"intconst", "lits", "string", "asgn"},
    {"line", "string"},
    {"print", "lits"},
    {"update", "elemupdate", "mixupdate", "lits"},
    {"intarg", "fncall", "print", "call"},
    {"boolelem", "elem", "if"},
    {"fncall", "if", "return", "var"}}
  IntLits = {1, 8}
  RealLits = {3, 12}
  Quantum = 10
  MaxLines = 9
  MaxNesting = 5
  NumRegs = 2
SPECIFICATION Spec
INVARIANTS
  TypeOK
  BranchesLand
  LiteralsResolve
  
  TempsHold
  ArgumentsArrive
  FrameHolds
  EachLineOnce
