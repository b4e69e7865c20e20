------------------------- MODULE MCEventProjections -------------------------
(* A small instance of EventProjections for TLC. *)
EXTENDS EventProjections, TLC

\* Topics of different tables share no row, save through the deletion of the event.
MCGroups == {{"assigned", "removed", "owner"}, {"owner", "deleted"}, {"access", "deleted"},
             {"created", "updated"}, {"created", "deleted"}, {"scan", "revoke"}, {"seating"}}

\* Handlers and users are interchangeable.
MCSymmetry == Permutations(Handlers) \cup Permutations(Users)
=============================================================================
