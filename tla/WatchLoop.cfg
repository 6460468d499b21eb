SPECIFICATION FairSpec
CONSTANTS
  N = 2
  MaxDoublings = 1
  Tracked = {}
INVARIANTS TypeOK ReportedIsCovered NoSecondWatch
PROPERTY ReportedIsListed
