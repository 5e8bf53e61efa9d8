SPECIFICATION Spec
CONSTANTS
  Literals = 2
  LongestMatch = 4
  MaxLit = 5
  FixedLit = 7
  LenBase <- TwoLengths
  LenExtra <- LastHasExtra
  DistBase <- TwoDistances
  DistExtra <- LastHasExtra
  RepeatBase <- RepeatBases
  RepeatBits <- RepeatWidths
  StoredBits = 5
  Strips <- AllStrips
  Earlier <- EarlierStrip
INVARIANTS TypeOK NothingBeyondTheEnd OutputBounded InflatesWhatWasDeflated
CHECK_DEADLOCK FALSE
