SPECIFICATION Spec
CONSTANTS
  None = None
  Handlers = {h1, h2}
  Users = {u1, u2}
  Seats = {s1}
  Invitations = {i1}
  Groups <- MCGroups
  MaxTime = 2
  MaxMessages = 3
  MaxFaults = 1
INVARIANTS TypeOK TimelyChangesAreCopied NewestAccessWins PresenceCountsScans
CHECK_DEADLOCK FALSE
SYMMETRY MCSymmetry
