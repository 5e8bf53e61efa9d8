SPECIFICATION Spec
CONSTANTS
  MaxU32 = 255
  Half = 4
  Files <- WideFiles
INVARIANT HoldsTheImage
CHECK_DEADLOCK FALSE
