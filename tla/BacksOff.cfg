SPECIFICATION FairSpec
CONSTANTS
  N = 1
  MaxDoublings = 2
  Tracked = {}
PROPERTY ReconnectsBackOff
