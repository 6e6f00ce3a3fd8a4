CONSTANTS
  Declared <- MCDeclared
  Names <- MCNames
  Fields <- MCFields
  MaxStack = 2
SPECIFICATION Spec
INVARIANTS
  NoFalseReports
  FaultsStop
  TypesMeant
