\* The sections arrays, functions and main, with if statements, calls and groups;
\* files of every length.
CONSTANTS
  Tokens = {"TCD25", "TIDEN", "TMAIN", "TCOLN", "TINTG", "TBEGN", "TTEND",
            "TSEMI", "TFUNC", "TLPAR", "TRPAR", "TCOMA", "TARRS", "TIFTH"}
  MaxNesting = 3
  MaxScope = 2
SPECIFICATION Spec
INVARIANTS
  TypeOK
  WholeFileRead
  VerdictMatchesReports
  AcceptedIsBalanced
PROPERTIES
  SectionsForward
  Terminates
