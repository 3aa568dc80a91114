SPECIFICATION SumSpec
CONSTANTS
  p1 = p1
  p2 = p2
  Producer = {p1, p2}
  Calls = 2
  MaxConnect = 2
SYMMETRY Symmetry
INVARIANTS TypeOK SingleWriter NothingStranded SpinEnds LeavesOnce MessageComplete SendOrder RdmaSound TextsExact
PROPERTY JsonExact
CHECK_DEADLOCK FALSE
