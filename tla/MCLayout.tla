------------------------------ MODULE MCLayout ------------------------------
(* A small instance of Layout for TLC. *)
EXTENDS Layout, TLC

\* Two sections with a table of the same name; one table and its seat.
MCInputs ==
    LET S(n) == Row("section", 0, 0, Name(n), 0)
        T(s, n) == Row("table", s, 0, Name(n), 0)
        Seat(s, t) == Row("seat", s, t, Name(1), 0)
    IN  {<<S(3), S(4), T(1, 5), T(2, 5), Seat(1, 3), Seat(2, 4)>>}

\* Generation against all that reads or deletes the layout; copies, also of seats at a table
\* of another section; the history by itself, and with rows that move or go; versions.
MCGroups == {[ops |-> {"create", "generate", "delete", "undo", "save"}, calls |-> 2],
             [ops |-> {"duplicate", "clone", "undo"}, calls |-> 2],
             [ops |-> {"clone", "generate"}, calls |-> 2],
             [ops |-> {"edit", "duplicate", "clone"}, calls |-> 2],
             [ops |-> {"apply", "undo", "redo"}, calls |-> 5],
             [ops |-> {"apply", "undo", "move", "update"}, calls |-> 3],
             [ops |-> {"apply", "undo", "edit", "delete"}, calls |-> 3],
             [ops |-> {"save", "undo", "redo", "edit"}, calls |-> 3]}

MCSymmetry == Permutations(Callers)
=============================================================================
