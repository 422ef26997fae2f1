SPECIFICATION MCSpec
CONSTANTS
  Procs = {p1, p2, p3}
  Short = {ant, bee}
  Full = {elephant}
  None = None
  MaxRuns = 5
  Files = {f1, f2, f3}
  Tables <- MCTables
SYMMETRY Symmetry
INVARIANTS
  ExactWhenAlone
  FullNamesSplit
  NothingInvented
  JoinAdds
PROPERTIES
  QueryIsExact
CHECK_DEADLOCK FALSE
