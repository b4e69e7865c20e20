--------------------------- MODULE MCLayoutImport ---------------------------
(* A small instance of LayoutImport for TLC. *)
EXTENDS LayoutImport

\* One request more than there are slots, and another once a slot is free again.
MCRequests == 1 .. 3
=============================================================================
