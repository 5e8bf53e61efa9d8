SPECIFICATION FairSpec
CONSTANTS
  Thread = {t1, t2}
  Input <- MCInput
  Dimension <- MCDimension
  StreamSize = 1
  SizeMax = 15
  IntMax = 7
  None = None
INVARIANTS
  TypeOK
  OneHandlePerUsableLibrary
  OnlyUsableLibrariesAreCalled
  ObjectsOfACall
  RowsFitTheBuffer
  ShapeMatchesBytes
  EmptyWithoutLibrary
PROPERTIES
  LoadIsFinal
  EveryRunEnds
CHECK_DEADLOCK TRUE
