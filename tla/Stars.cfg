\* The real table on a 640 x 400 screen.
SPECIFICATION FairStarSpec
CONSTANTS
  NUMRND = 256
  rndtable <- MCrndtable
  Xres = 640
  Yres = 400
  MaxDepth = 4
INVARIANTS
  DrawnInside
PROPERTIES
  StarsRenewed
