CONSTANTS
  Beats = {b1, b2, b3}
  TTL = 2
  RefreshMax = 2
  MaxTime = 9
SYMMETRY AnyOrder
SPECIFICATION HealthSpec
INVARIANTS DetailsAreFresh AbsenceExplained
