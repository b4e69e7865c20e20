CONSTANTS
    None = None
    Clean = Clean
    lateSeat = lateSeat
    copiedSeat = copiedSeat
    event = event
    Procs = {p1, p2}
    Seats = {s1, lateSeat, copiedSeat}
    Guests = {g1}
    Invitations = {i1}
    Events = {event, otherEvent}
    EventOf <- MCEventOf
    CreatedAt <- MCCreatedAt
    InsertedAs <- MCInsertedAs
    Unborn <- MCUnborn
    Ops = {"assignSeat", "assignSeatToGuest", "reserveSeatForInvitation", "unassignSeat", "unassignSeatsByGuestId", "createSeat", "deleteSeat", "insertSeats"}
SYMMETRY MCSymmetry
SPECIFICATION Spec
INVARIANTS
    TypeOK
    StatusMatchesHolder
    LogMatchesSeats
    FactsMatchSeats
