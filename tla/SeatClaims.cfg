CONSTANTS
    None = None
    Clean = Clean
    lateSeat = lateSeat
    copiedSeat = copiedSeat
    event = event
    Procs = {p1, p2}
    Seats = {s1, s2}
    Guests = {g1, g2}
    Invitations = {i1, i2}
    Events = {event}
    EventOf <- MCEventOf
    CreatedAt <- MCCreatedAt
    InsertedAs <- MCInsertedAs
    Unborn <- MCUnborn
    Ops = {"assignSeat", "assignSeatToGuest", "reserveSeatForInvitation", "unassignSeat"}
SYMMETRY MCSymmetry
SPECIFICATION Spec
INVARIANTS
    UniqueHolders
PROPERTIES
    LedgerSpec
