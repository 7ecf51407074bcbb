\* One penguin at the start, one per key, up to two; a frame of two penguins
\* needs two batches.  The random numbers are a few walks and jitters.
SPECIFICATION FairSpec
CONSTANTS
  XRes = 7
  YRes = 4
  XSprite = 3
  YSprite = 2
  Step = 2
  Walks <- MCWalks
  Jitters <- MCJitters
  MaskWidth = 3
  MaskHeight = 2
  Masks <- MCMasks
  Initial = 1
  PerKey = 1
  Batch = 1
  MaxPenguins = 2
  MaxKeys = 3
INVARIANTS
  ListShape
  FrameComplete
  OnCourse
  AllReleased
PROPERTIES
  MarchEnds
