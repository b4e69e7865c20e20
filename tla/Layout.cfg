SPECIFICATION Spec
CONSTANTS
  None = None
  Callers = {p1, p2}
  Groups <- MCGroups
  Inputs <- MCInputs
  MaxSeats = 2
  SeatsPerTable = 1
  TablesPerSection = 1
  MaxNumber = 4
  MaxFaults = 1
  MaxPlace = 1
INVARIANTS TypeOK TreeIsSound CreatedAsPlanned GeometryFollowsHistory
PROPERTIES RestoredAsSaved
CHECK_DEADLOCK FALSE
SYMMETRY MCSymmetry
