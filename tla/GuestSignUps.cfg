SPECIFICATION Spec
CONSTANTS
  s1 = s1  s2 = s2  s3 = s3
  g1 = g1  g2 = g2
  i1 = i1  i2 = i2
  e1 = e1  e2 = e2
  None = None
  Handlers = {h1, h2}
  Seats = {s1, s2}
  Guests = {g1, g2}
  Invitations = {i1, i2}
  EventOf <- MCEventOf
  InvitedTo <- MCInvitedTo
  GuestOf <- MCGuestOf
  Named <- MCNamed
  Messages <- SignUps
  MaxRetries = 1
  MaxIncidents = 1
INVARIANTS TypeOK TicketsNameOwnSeats HoldersAreTold
PROPERTIES LedgerSpec
SYMMETRY MCSymmetry
CHECK_DEADLOCK FALSE
