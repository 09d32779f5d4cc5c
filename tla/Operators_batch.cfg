\* A convolution of a batch of two images on CUDA.
CONSTANTS
  Wide = 65536
  Exp <- Powers
  Block = 4
  Levels = 2
  SoftmaxBlock = 8
  Warp = 4
  Tile = 2
  MaxBlocks = 2
  MaxDims = 3
  Lowest <- Least
  Junk = 77
  Operations <- BatchCalls
  None = None
CHECK_DEADLOCK FALSE
SPECIFICATION Spec
INVARIANT ResultsRight
