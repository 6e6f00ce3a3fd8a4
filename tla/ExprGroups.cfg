CONSTANTS
  Ops = {"-"}
  MaxLen = 7
SPECIFICATION Spec
INVARIANT TreeIsMeant
