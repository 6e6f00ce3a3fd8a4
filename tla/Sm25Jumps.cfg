\* Branches only: nested and sequenced constructs over a table that starts with
\* one slot, so that it grows several times.
CONSTANTS
  IntLits = {}
  RealLits = {}
  Consts = {}
  Funcs = {}
  StrLens = {}
  FillerOps = {"LB"}
  InitialCapacity = 1
  Word = 64
  MaxInsts = 9
  MaxFiller = 0
  MaxNesting = 5
SPECIFICATION Spec
INVARIANTS
  JumpTableInBounds
  EverySlotAnchored
  BranchesLand
  BranchTargets
PROPERTY AnchoredOnce
