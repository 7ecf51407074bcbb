\* Blocks of four bytes: empty, partial, full and longer files.
SPECIFICATION Spec
CONSTANTS
  BLOCK = 4
  Sizes = {0, 1, 4, 6}
  LookAlikes = {0, 5}
  MaxEntries = 4
INVARIANTS
  RoundedUp
