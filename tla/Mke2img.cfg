\* Four entries; directories with one slot to a block, so that they fill up.
SPECIFICATION Spec
CONSTANTS
  Entries <- MCEntries
  Names <- MCNames
  Trees <- MCTrees
  Inodes = {1, 2, 3, 4, 5}
  Slots = 1
  MaxBlocks = 9
  MaxFaults = 2
INVARIANTS
  NoSharedInode
  SameShape
  NothingLost
  CompleteCopy
