SPECIFICATION Spec
CONSTANTS
  MaxBits = 3
  Lengths <- UpToFive
INVARIANTS TypeOK SymbolHasLength DecodesCanonicalCodes
CHECK_DEADLOCK FALSE
