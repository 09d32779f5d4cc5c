\* Files read, imported and run: those the converter writes for four models,
\* and all that differ from one of them in one cell, or end early or late.
CONSTANTS
  Wide = 256
  MaxFileSize = 400
  MaxString = 2
  MaxCount = 8
  MaxRank = 5
  MaxDim = 15
  Chars = {16, 17, 18, 19, 20, 21, 22, 23, 24, 25, 26, 30, 31, 32, 33, 34, 35, 36, 40, 41, 42, 43, 44, 45, 46, 47}
  Magic = 77
  Tags <- SectionTags
  Crc <- Checksum
  Words <- Spelling
  Models <- Bases
  Loadable <- SupportedBases
  Files <- SmallFiles
  Wild = {0, 1, 2, 3, 4, 5, 7, 9, 15, 16, 17, 20, 23, 31, 33, 44, 62, 254, 255}
CHECK_DEADLOCK FALSE
SPECIFICATION Spec
INVARIANTS
  TypeOK
  InBounds
  ParsedIsWritten
  InitsComplete
  WrittenIsLoaded
  NothingDangling
  RunReturnsOutputs
  ShapesDeclared
  WindowsFit
  ReshapeKeepsElements
