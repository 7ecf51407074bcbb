\* The address of the CD; volumes written below and above the range.
SPECIFICATION MixerSpec
CONSTANTS
  Addrs = {4}
  Levels <- MCLevels
  Switches = {0, 3}
  Boxes = {0, 1, 2}
INVARIANTS
  ViewFresh
  CdSeen
