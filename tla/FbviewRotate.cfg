SPECIFICATION Spec
CONSTANTS
  Files <- MCFiles
  Screens <- MCScreens
  Scales <- MCScales
  Rotations <- MCRotations
  HeapBytes <- MCHeapBytes
  MEMSIZE = 30
  SintMax = 8
INVARIANTS
  RotatedRight
