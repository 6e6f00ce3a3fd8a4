CONSTANTS
  IntLits = {i1, i2}
  RealLits = {r1}
  Consts = {c1}
  Funcs = {f1, f2}
  StrLens = {0, 3}
  FillerOps = {"LB"}
  InitialCapacity = 1
  Word = 48
  MaxInsts = 4
  MaxFiller = 0
  MaxNesting = 2
SPECIFICATION Spec
INVARIANTS
  TypeOK
  PassInStep
  CallTargets
  LiteralTargets
