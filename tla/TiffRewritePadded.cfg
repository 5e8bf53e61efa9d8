SPECIFICATION Spec
CONSTANTS
  MaxU32 = 255
  Half = 4
  Files <- PaddedFiles
INVARIANT AllImagesEquivalent
CHECK_DEADLOCK FALSE
