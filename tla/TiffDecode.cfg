SPECIFICATION FairSpec
CONSTANTS
  MaxU32 = 255
  Files <- MCFiles
  Workers = {w1, w2}
INVARIANTS TypeOK ReadsStayInStrip NoWriteRace PictureComplete
PROPERTIES RefinesRaster Answered
CHECK_DEADLOCK FALSE
