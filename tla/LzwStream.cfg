SPECIFICATION StreamSpec
CONSTANTS
  Alpha = 2
  MinWidth = 3
  MaxWidth = 4
  Inputs <- ShortAndLong
  MaxClears = 2
INVARIANTS TypeOK StringsUsable EarlyChange StringsBounded WidthsAgree DecodesWhatWasSent
CHECK_DEADLOCK FALSE
