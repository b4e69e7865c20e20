------------------------- MODULE MCGuestProvisioning -------------------------
(***************************************************************************)
(* Instances of GuestProvisioning: two events, one guest without and one   *)
(* with a named seat in the first of them.                                 *)
(***************************************************************************)
EXTENDS GuestProvisioning, TLC

CONSTANTS s1, s2, s3, g1, g2, i1, i2, e1, e2

MCEventOf   == [s \in Seats |-> IF s = s3 THEN e2 ELSE e1]
MCInvitedTo == [i \in Invitations |-> e1]
MCGuestOf   == [i \in Invitations |-> IF i = i1 THEN g1 ELSE g2]
MCNamed     == [i \in Invitations |-> IF i = i1 THEN None ELSE s1]

Message(topic, of, actor) == [topic |-> topic, of |-> of, actor |-> actor]

\* The sign-ups of two guests for one event, one of them with a reservation.
SignUps == {Message("addGuestId", i1, TRUE), Message("addGuestId", i2, TRUE),
            Message("reserve", i1, TRUE)}

\* A guest who signs up and is removed twice, once by a message that names no actor.
Removals == {Message("addGuestId", i1, TRUE), Message("removeGuestId", g1, TRUE),
             Message("removeGuestId", g1, FALSE)}

\* Handlers are interchangeable.
MCSymmetry == Permutations(Handlers)
=============================================================================
