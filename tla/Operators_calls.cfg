\* Every operator on either backend, one call at a time.  A block has 4
\* threads (softmax: 2 warps of 4 lanes), a tile 2 x 2 elements.
CONSTANTS
  Wide = 65536
  Exp <- Powers
  Block = 4
  Levels = 2
  SoftmaxBlock = 8
  Warp = 4
  Tile = 2
  MaxBlocks = 2
  MaxDims = 3
  Lowest <- Least
  Junk = 77
  Operations <- AllCalls
  None = None
CHECK_DEADLOCK FALSE
SPECIFICATION Spec
INVARIANTS
  TypeOK
  RaceFree
  ResultsRight
  TemporariesHeld
PROPERTY CallsEnd
