SPECIFICATION FairSpec
CONSTANTS
  N = 1
  MaxDoublings = 1
  Tracked = {1}
PROPERTY ChangeIsListed
