SPECIFICATION Spec
CONSTANTS
  Snapshots = {s0, s1, s2}
  EmptySnapshot = s0
  Absent = Absent
  Torn = Torn
INVARIANTS TypeOK SavedSurvives
PROPERTY IsDurableCell
