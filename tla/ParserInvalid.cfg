\* Function headings with parameters are enough.
CONSTANTS
  Tokens = {"TCD25", "TIDEN", "TCOLN", "TINTG", "TFUNC", "TLPAR", "TRPAR",
            "TCOMA"}
  MaxNesting = 3
  MaxScope = 2
SPECIFICATION Spec
INVARIANT NoTreeNoCompilation
