-------------------------- MODULE MCSeatAssignment --------------------------
(* Small instances of SeatAssignment for TLC. *)
EXTENDS SeatAssignment, TLC

CONSTANTS lateSeat,   \* a seat that does not exist at the start
          copiedSeat, \* a seat that the layout service copied from an assigned one
          event       \* the event of every seat; Events may hold one without seats

MCEventOf == [s \in Seats |-> event]

\* The seats of one createMany share their creation time.
MCCreatedAt == [s \in Seats |-> IF s = lateSeat THEN 1 ELSE 0]

MCInsertedAs == [s \in Seats |-> IF s = copiedSeat THEN "ASSIGNED" ELSE "AVAILABLE"]

MCUnborn == Seats \cap {lateSeat}

\* Processes, guests, invitations and the seats that start alike are interchangeable.
MCSymmetry == Permutations(Procs) \cup Permutations(Guests) \cup Permutations(Invitations)
              \cup Permutations(Seats \ {lateSeat, copiedSeat})
=============================================================================
