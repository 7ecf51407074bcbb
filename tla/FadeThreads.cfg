\* Three workers, strips of four rows and a taller last one.
SPECIFICATION FairSpec
CONSTANTS
  NR_THREADS = 3
  Xres = 4
  Yres = 12
  Frames = 2
INVARIANTS
  AccessMapped
  Lockstep
  OneWriterPerRow
PROPERTIES
  SigintStops
  KeepsFading
  ImplementsBarrier
