\* The reserved code and three keys.
SPECIFICATION Spec
CONSTANTS
  Codes = {0, 1, 2, 3}
INVARIANTS
  IsrSafe
  AllOrNothing
  ReleasesHeld
