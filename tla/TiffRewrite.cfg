SPECIFICATION FairSpec
CONSTANTS
  MaxU32 = 255
  Half = 4
  Files <- ExactFiles
INVARIANTS TypeOK UnpackedFromStrips UnpacksWhatWasPacked RegionsDisjoint ExactImagesEquivalent
PROPERTY RewriteEnds
CHECK_DEADLOCK FALSE
