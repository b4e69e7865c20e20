------------------------------- MODULE Layout -------------------------------
(***************************************************************************)
(* The layout of one event: its sections, tables and seats, the versions   *)
(* saved of it and the history of geometry changes, as                     *)
(* layout-write.service.ts, section-write.service.ts and                   *)
(* table-write.service.ts change them for administrators and               *)
(* event.handler.ts for seat.create and seat.delete messages.              *)
(*                                                                         *)
(* A row has a kind, the section and the table it belongs to, a name (the  *)
(* number of a seat) and a place, which stands for its coordinates (not    *)
(* its size, rotation and shape, nor its type and status).  A layout, a    *)
(* geometry to be written and a snapshot are all drawings: functions from  *)
(* identifiers to rows.  An action is a transaction or a statement outside *)
(* of one; a call looks up a row and changes it in one action when a row   *)
(* that disappears in between makes it fail either way.                    *)
(* Who holds a seat is SeatAssignment's subject.                           *)
(***************************************************************************)
EXTENDS Naturals, FiniteSets, FiniteSetsExt

CONSTANTS Callers,                           \* calls and messages handled at the same time
          Groups,                            \* bound: [ops, calls], the operations that one
                                             \* behaviour mixes and how many calls it makes
          Inputs,                            \* bound: the geometries administrators ask for
          MaxSeats,                          \* the seats a seat.create message asks for
          SeatsPerTable, TablesPerSection,   \* 10 and 5 in the code
          MaxNumber, MaxFaults, MaxPlace,    \* bounds
          None                               \* no outline

Places == 0 .. MaxPlace

\* Identifiers are positive; 0 is null.
Row(kind, section, table, name, place) ==
    [kind |-> kind, section |-> section, table |-> table, name |-> name, place |-> place]

Empty == [i \in {} |-> Row("seat", 0, 0, <<0, 0>>, 0)]

\* The rows d and those rows of e that d does not have; a function of one value.
Join(d, e) == [i \in DOMAIN d \cup DOMAIN e |-> IF i \in DOMAIN d THEN d[i] ELSE e[i]]
One(i, x)  == [j \in {i} |-> x]

\* A name and how many times "_copy" was added to it.
Name(n) == <<n, 0>>

Of(kind, d) == {i \in DOMAIN d : d[i].kind = kind}

\* The geometry engine makes tables of its sections and seats at its tables.
IsGeometry(d) ==
    /\ IsFiniteSet(DOMAIN d) /\ DOMAIN d \subseteq Nat \ {0}
    /\ \A i \in DOMAIN d :
         /\ d[i] = Row(d[i].kind, d[i].section, d[i].table, d[i].name, d[i].place)
         /\ d[i].place \in Nat
         /\ \/ d[i].kind = "section" /\ d[i].section = 0 /\ d[i].table = 0
            \/ d[i].kind = "table" /\ d[i].section \in Of("section", d) /\ d[i].table = 0
            \/ d[i].kind = "seat" /\ d[i].table \in Of("table", d)

ASSUME LayoutAssumption ==
    /\ {MaxSeats, SeatsPerTable, TablesPerSection, MaxNumber} \subseteq Nat \ {0}
    /\ {MaxFaults, MaxPlace} \subseteq Nat
    /\ \A d \in Inputs : IsGeometry(d)
    /\ \A g \in Groups : g.calls \in Nat

\* buildAutoGenerateInputFromMaxSeats, and the rows that the geometry engine makes of it: the
\* seats come first, then the tables, then the sections.
Plan(n) ==
    LET tables   == (n + SeatsPerTable - 1) \div SeatsPerTable
        sections == (tables + TablesPerSection - 1) \div TablesPerSection
        SectionOf(t) == n + tables + ((t - 1) \div TablesPerSection) + 1
    IN  [i \in 1 .. n + tables + sections |->
           IF i <= n
           THEN LET t == ((i - 1) \div SeatsPerTable) + 1
                IN  Row("seat", SectionOf(t), n + t, Name(((i - 1) % SeatsPerTable) + 1), 0)
           ELSE IF i <= n + tables THEN Row("table", SectionOf(i - n), 0, Name(i - n), 0)
           ELSE Row("section", 0, 0, Name(i - n - tables), 0)]

VARIABLES
    group,      \* the operations and calls of this behaviour
    rows,       \* the sections, tables and seats there are
    next,       \* the next identifier, less one
    versions,   \* layout_version: a snapshot for each number
    history,    \* layout_geometry_history: an entry for each position
    pending,    \* seat.create messages that wait to be handled
    calls, faults,
    pc, op,     \* the next step of each call, and its operation
    input,      \* the geometry to write, the rows to copy or the changes to apply
    snap,       \* what the serializer has read
    found,      \* the entry or version the call has read; the rows copied so far
    alone,      \* calls that overlap with no other
    raced,      \* geometry calls have overlapped with others
    moved,      \* rows moved outside of the history
    origin,     \* where each row was put at first
    outlines,   \* what was saved as each version
    astray      \* seats put to a table of another section, and what is made of them

call  == <<pc, op, input, snap, found, alone>>
ghost == <<raced, moved, origin, outlines, astray>>
vars  == <<group, rows, next, versions, history, pending, calls, faults, call, ghost>>
-----------------------------------------------------------------------------
(* Drawings *)

\* The identifiers that new rows made from the rows X get.
Fresh(X) == [i \in X |-> next + Cardinality({j \in X : j <= i})]

\* Where identifier i leads by map m: rows that m does not know stay what they are.
To(m, i) == IF i \in DOMAIN m THEN m[i] ELSE i

\* The rows X of d under their new identifiers.
Drawn(d, X, m) ==
    [n \in {m[i] : i \in X} |->
        LET i == CHOOSE i \in X : m[i] = n
        IN  [d[i] EXCEPT !.section = To(m, @), !.table = To(m, @)]]

\* Mutant: the seats at a deleted table stay.
TablesOnly(X) == X \cup {i \in Of("table", rows) : rows[i].section \in X}

\* Rows X and what the database deletes with them.
Cascade(X) == LET Y == X \cup {i \in DOMAIN rows : rows[i].section \in X}
              IN  Y \cup {i \in DOMAIN rows : rows[i].table \in Y}

Without(X) == [i \in DOMAIN rows \ Cascade(X) |-> rows[i]]

\* Names are unique among the sections, and among the tables of a section; what a row
\* belongs to is there.
Allowed(d) ==
    \A i \in DOMAIN d : /\ {d[i].section, d[i].table} \subseteq DOMAIN d \cup {0}
                        /\ d[i].kind # "seat" =>
                             ~\E j \in DOMAIN d \ {i} : /\ d[j].kind = d[i].kind
                                                        /\ d[j].section = d[i].section
                                                        /\ d[j].name = d[i].name

\* What a layout looks like: how many rows there are at each path.
Path(d, i) ==
    LET NameOf(j) == IF j \in DOMAIN d THEN d[j].name ELSE Name(0)
    IN  <<d[i].kind, NameOf(d[i].section), NameOf(d[i].table), d[i].name, d[i].place>>

Outline(d, X) == LET P == {Path(d, i) : i \in X}
                 IN  [q \in P |-> Cardinality({i \in X : Path(d, i) = q})]

\* All rows but the seats that stand in a section at no table.
Tabled(d) == {i \in DOMAIN d : d[i].kind = "seat" => d[i].table # 0}
-----------------------------------------------------------------------------
(* Calls *)

Goto(p, label) == pc' = [pc EXCEPT ![p] = label]

Begin(p, o, label) ==
    /\ o \in group.ops /\ pc[p] = "idle"
    /\ Goto(p, label)
    /\ op' = [op EXCEPT ![p] = o]
    /\ alone' = [q \in Callers |-> IF q = p THEN \A r \in Callers \ {p} : pc[r] = "idle"
                                            ELSE alone[q] /\ pc[q] = "idle"]

\* An administrator calls.
Call(p, o, label) == Begin(p, o, label) /\ calls < group.calls /\ calls' = calls + 1

\* The call returns or throws; what is committed stays.
End(p) ==
    /\ Goto(p, "idle")
    /\ op' = [op EXCEPT ![p] = "none"]
    /\ input' = [input EXCEPT ![p] = Empty]
    /\ snap' = [snap EXCEPT ![p] = Empty]
    /\ found' = [found EXCEPT ![p] = Empty]
    /\ alone' = [alone EXCEPT ![p] = TRUE]

\* A call throws at what it finds; a message is delivered again.
Throw(p) ==
    /\ End(p)
    /\ pending' = IF op[p] = "create" THEN pending + 1 ELSE pending
    /\ UNCHANGED <<group, rows, next, versions, history, calls, faults, ghost>>

\* A statement fails, or the service stops, also after the last statement.
Fail(p) ==
    /\ pc[p] # "idle"
    /\ faults < MaxFaults /\ faults' = faults + 1
    /\ End(p)
    /\ pending' = IF op[p] = "create" THEN pending + 1 ELSE pending
    /\ UNCHANGED <<group, rows, next, versions, history, calls, ghost>>

Return(p) ==
    /\ pc[p] = "done"
    /\ End(p)
    /\ UNCHANGED <<group, rows, next, versions, history, pending, calls, faults, ghost>>

\* The event service asks for seats.
Ask ==
    /\ "create" \in group.ops /\ calls < group.calls
    /\ calls' = calls + 1 /\ pending' = pending + 1
    /\ UNCHANGED <<group, rows, next, versions, history, faults, call, ghost>>

\* Changed rows; new ones remember their place.
Put(d) ==
    /\ rows' = d
    /\ next' = Max({next} \cup DOMAIN d)
    /\ origin' = [i \in DOMAIN d |-> IF i \in DOMAIN origin THEN origin[i] ELSE d[i].place]
-----------------------------------------------------------------------------
(* autoGenerate for a seat.create message or for an administrator *)

Receive(p) ==
    /\ pending > 0 /\ pending' = pending - 1
    /\ Begin(p, "create", "wipe seats")
    /\ input' = [input EXCEPT ![p] = Plan(MaxSeats)]
    /\ UNCHANGED <<group, rows, next, versions, history, calls, faults, snap, found, ghost>>

Generate(p) ==
    /\ Call(p, "generate", "wipe seats")
    /\ \E d \in Inputs : input' = [input EXCEPT ![p] = d]
    /\ UNCHANGED <<group, rows, next, versions, history, pending, faults, snap, found, ghost>>

\* Mutant: what is there stays.
WipeNothing(p) ==
    /\ pc[p] = "wipe seats"
    /\ Goto(p, "write")
    /\ UNCHANGED <<group, rows, next, versions, history, pending, calls, faults,
                   op, input, snap, found, alone, ghost>>

\* Three statements: nothing holds the layout together between them.
Wipe(p) ==
    /\ \E s \in {<<"wipe seats", "seat", "wipe tables">>, <<"wipe tables", "table", "wipe sections">>,
                 <<"wipe sections", "section", "write">>} :
         /\ pc[p] = s[1]
         /\ Put(Without(Of(s[2], rows)))
         /\ Goto(p, s[3])
    /\ UNCHANGED <<group, versions, history, pending, calls, faults,
                   op, input, snap, found, alone, raced, moved, outlines, astray>>

\* Mutant: a seat belongs to the section that was asked for, its table is found by name.
AskedSection(d, i, sections, table, r) == sections[d[d[i].table].section]

\* A seat belongs to the section of its table.
SectionOfSeat(d, i, sections, table, r) == r[table].section

\* writeGeometry: a section is found by its name or created; tables are created in it; a seat
\* is put to a table of the name of its table, whichever the database returns first.
WriteGeometry(p) ==
    LET d == input[p]
        id == Fresh(DOMAIN d)
        Named(s, r) == {i \in Of("section", r) : r[i].name = d[s].name}
        new == {s \in Of("section", d) :
                    /\ Named(s, rows) = {}
                    /\ \A t \in Of("section", d) : d[t].name = d[s].name => s <= t}
        r1 == Join(rows, Drawn(d, new, id))
        section == [s \in Of("section", d) |-> CHOOSE i \in Named(s, r1) : TRUE]
        tables == Of("table", d)
        r2 == Join(r1, Drawn(d, tables, [i \in DOMAIN d |-> IF i \in tables THEN id[i]
                                            ELSE IF i \in DOMAIN section THEN section[i] ELSE i]))
        names == {d[t].name : t \in tables}
    IN /\ pc[p] = "write"
       /\ \E table \in [names -> Of("table", r2)] :
            /\ \A n \in names : r2[table[n]].name = n
            /\ LET At(i) == table[d[d[i].table].name]
                   seats == [n \in {id[i] : i \in Of("seat", d)} |->
                               LET i == CHOOSE i \in Of("seat", d) : id[i] = n
                               IN  [d[i] EXCEPT !.table = At(i),
                                                !.section = SectionOfSeat(d, i, section, At(i), r2)]]
               IN  IF Allowed(r2)
                   THEN /\ Put(Join(r2, seats))
                        /\ Goto(p, "read sections")
                        /\ UNCHANGED <<group, versions, history, pending, calls, faults, op,
                                       input, snap, found, alone, raced, moved, outlines, astray>>
                   ELSE Throw(p)
-----------------------------------------------------------------------------
(* saveLayoutVersion: by itself, or at the end of another call *)

Save(p) ==
    /\ Call(p, "save", "read sections")
    /\ UNCHANGED <<group, rows, next, versions, history, pending, faults, input, snap, found, ghost>>

\* serializeCurrentLayout: three statements
Serialize(p) ==
    /\ \E s \in {<<"read sections", "section", "read tables">>, <<"read tables", "table", "read seats">>,
                 <<"read seats", "seat", "version">>} :
         /\ pc[p] = s[1]
         /\ snap' = [snap EXCEPT ![p] = Join(@, [i \in Of(s[2], rows) |-> rows[i]])]
         /\ Goto(p, s[3])
    /\ UNCHANGED <<group, rows, next, versions, history, pending, calls, faults,
                   op, input, found, alone, ghost>>

Numbers == 0 .. MaxNumber

\* A version saved by another call has the number Date.now(), above those before it (Fail
\* stands for two in a millisecond); an administrator gives any number.
NumbersFor(o) ==
    IF o = "save" THEN Numbers
    ELSE LET later == {v \in Numbers \ DOMAIN versions :
                          \A w \in DOMAIN versions : versions[w].dated => w < v}
         IN  {v \in later : \A w \in later : v <= w}

CreateVersion(p) ==
    /\ pc[p] = "version"
    /\ \E v \in NumbersFor(op[p]) :
         IF v \in DOMAIN versions
         THEN Throw(p)
         ELSE /\ versions' = Join(versions, One(v, [snap |-> snap[p], dated |-> op[p] # "save"]))
              /\ outlines' = Join(One(v, IF alone[p] THEN Outline(rows, Tabled(rows)) ELSE None),
                                  outlines)
              /\ Goto(p, "done")
              /\ UNCHANGED <<group, rows, next, history, pending, calls, faults,
                             op, input, snap, found, alone, raced, moved, origin, astray>>
-----------------------------------------------------------------------------
(* duplicateTable and cloneSection *)

\* Row i, its tables and the seats at them are to be copied.  The copies have other names and
\* are shifted.  All seats at the tables of a cloned section are put to its clone; at the
\* clone of a table they stay in their section.
Copy(p, o, i) ==
    \E by \in {0, 1} :
        LET tables == {i} \cup {t \in Of("table", rows) : rows[t].section = i}
            seats  == {s \in Of("seat", rows) : rows[s].table \in tables}
        IN /\ Call(p, o, "copy")
           /\ input' = [input EXCEPT ![p] =
                 [j \in tables \cup seats |->
                    [rows[j] EXCEPT !.name = IF j \in seats THEN @ ELSE <<@[1], @[2] + 1>>,
                                    !.section = IF j \in seats /\ o = "clone" THEN i ELSE @,
                                    !.place = @ + by]]]
           /\ UNCHANGED <<group, rows, next, versions, history, pending, faults, snap, found, ghost>>

\* The table is read with its seats, the section with its tables and the seats at them.
DuplicateTable(p) == \E i \in Of("table", rows) : Copy(p, "duplicate", i)
CloneSection(p)   == \E i \in Of("section", rows) : Copy(p, "clone", i)

\* The rows that one statement copies: a section; a table; the seats of the table before.
Batches(d, X) ==
    LET open == {i \in X : d[i].kind = "seat" /\ d[i].table \notin X}
    IN  IF Of("section", d) \cap X # {} THEN {Of("section", d) \cap X}
        ELSE IF open # {} THEN {open} ELSE {{t} : t \in Of("table", d) \cap X}

\* Copies belong to the copies of what the rows belong to, where that is copied too.
CopyRows(p) ==
    LET rest == DOMAIN input[p] \ DOMAIN found[p]
    IN /\ pc[p] = "copy"
       /\ \/ \E X \in Batches(input[p], rest) :
               LET m == Join(found[p], Fresh(X))
                   copied == Join(rows, Drawn(input[p], X, m))
               IN  IF Allowed(copied)
                   THEN /\ Put(copied)
                        /\ found' = [found EXCEPT ![p] = m]
                        /\ astray' = astray \cup
                              {m[i] : i \in IF op[p] = "duplicate" THEN X \cap astray ELSE {}}
                        /\ UNCHANGED <<group, versions, history, pending, calls, faults,
                                       pc, op, input, snap, alone, raced, moved, outlines>>
                   ELSE Throw(p)
          \/ /\ rest = {}
             /\ Goto(p, "read sections")
             /\ UNCHANGED <<group, rows, next, versions, history, pending, calls, faults,
                            op, input, snap, found, alone, ghost>>
-----------------------------------------------------------------------------
(* applyGeometry, undo and redo *)

Applied == {n \in DOMAIN history : history[n].applied}
Moved(d) == [i \in DOMAIN rows |-> IF i \in DOMAIN d THEN [rows[i] EXCEPT !.place = d[i]]
                                                     ELSE rows[i]]

\* What the rows are like is read, and later written into the history.  (Bound: only
\* seats are moved, and all to another place.)
Apply(p) ==
    /\ Call(p, "apply", "apply")
    /\ \E X \in SUBSET Of("seat", rows) \ {{}} : \E after \in [X -> Places] :
         /\ \A i \in X : after[i] # rows[i].place
         /\ input' = [input EXCEPT ![p] = after]
         /\ found' = [found EXCEPT ![p] = [i \in X |-> rows[i].place]]
    /\ UNCHANGED <<group, rows, next, versions, history, pending, faults, snap, ghost>>

\* What was undone can no longer be redone.
ApplyGeometry(p) ==
    /\ pc[p] = "apply"
    /\ IF DOMAIN input[p] \subseteq DOMAIN rows
       THEN /\ rows' = Moved(input[p])
            /\ next' = next + 1
            /\ LET n == IF Applied = {} THEN 0 ELSE Max(Applied) + 1
                   e == [id |-> next', before |-> found[p], after |-> input[p], applied |-> TRUE]
               IN  history' = Join([k \in Applied |-> history[k]], One(n, e))
            /\ raced' = (raced \/ ~alone[p])
            /\ Goto(p, "done")
            /\ UNCHANGED <<group, versions, pending, calls, faults,
                           op, input, snap, found, alone, moved, origin, outlines, astray>>
       ELSE Throw(p)

\* Mutant: redo takes the newest entry that was undone.
NewestUndone(o) == IF o = "undo" THEN Max(Applied) ELSE Max(DOMAIN history \ Applied)

\* The entry to undo or to redo.
Candidate(o) == IF o = "undo" THEN Max(Applied) ELSE Min(DOMAIN history \ Applied)

\* An entry of the history is looked for first, then the latest version.
Look(p, o, entries) ==
    /\ Call(p, o, IF entries = {} THEN "latest" ELSE "entry")
    /\ found' = [found EXCEPT ![p] = IF entries = {} THEN @
                                     ELSE One(Candidate(o), history[Candidate(o)])]
    /\ UNCHANGED <<group, rows, next, versions, history, pending, faults, input, snap, ghost>>

Undo(p) == Look(p, "undo", Applied)
Redo(p) == Look(p, "redo", DOMAIN history \ Applied)

\* One transaction: it fails when a row of the entry is gone, or the entry itself.
ApplyEntry(p) ==
    /\ pc[p] = "entry"
    /\ LET n == CHOOSE n \in DOMAIN found[p] : TRUE
           e == found[p][n]
           d == IF op[p] = "undo" THEN e.before ELSE e.after
       IN  IF DOMAIN d \subseteq DOMAIN rows /\ n \in DOMAIN history /\ history[n].id = e.id
           THEN /\ rows' = Moved(d)
                /\ history' = [history EXCEPT ![n].applied = (op[p] = "redo")]
                /\ raced' = (raced \/ ~alone[p])
                /\ Goto(p, "done")
                /\ UNCHANGED <<group, next, versions, pending, calls, faults,
                               op, input, snap, found, alone, moved, origin, outlines, astray>>
           ELSE Throw(p)

\* loadLatestVersion
ReadLatest(p) ==
    /\ pc[p] = "latest"
    /\ IF DOMAIN versions = {} THEN Goto(p, "done") /\ UNCHANGED found
       ELSE /\ Goto(p, "other")
            /\ found' = [found EXCEPT ![p] = One(Max(DOMAIN versions), Empty)]
    /\ UNCHANGED <<group, rows, next, versions, history, pending, calls, faults,
                   op, input, snap, alone, ghost>>

\* undo takes the version before the latest, redo the one after it.
ReadOther(p) ==
    /\ pc[p] = "other"
    /\ LET latest == CHOOSE v \in DOMAIN found[p] : TRUE
           before == {v \in DOMAIN versions : v < latest}
           after  == {v \in DOMAIN versions : v > latest}
           v == IF op[p] = "undo" THEN Max(before) ELSE Min(after)
       IN  IF (IF op[p] = "undo" THEN before ELSE after) = {}
           THEN Goto(p, "done") /\ UNCHANGED <<found, snap>>
           ELSE /\ Goto(p, "restore")
                /\ found' = [found EXCEPT ![p] = One(v, Empty)]
                /\ snap' = [snap EXCEPT ![p] = versions[v].snap]
    /\ UNCHANGED <<group, rows, next, versions, history, pending, calls, faults,
                   op, input, alone, ghost>>

\* Mutant: one seat for each number is restored.
OneSeatPerNumber(d) ==
    {i \in DOMAIN d : d[i].kind = "seat" =>
        ~\E j \in Of("seat", d) : j < i /\ d[j].name = d[i].name}

\* The rows whose section and table are in the snapshot.
Restorable(d) ==
    LET tables == {t \in Of("table", d) : d[t].section \in Of("section", d)}
    IN  Of("section", d) \cup tables
          \cup {s \in Of("seat", d) : d[s].section \in Of("section", d) /\ d[s].table \in tables}

\* restoreVersion: all rows are new.
RestoreVersion(p) ==
    /\ pc[p] = "restore"
    /\ LET X == Restorable(snap[p])
       IN  /\ Put(Drawn(snap[p], X, Fresh(X)))
           /\ astray' = astray \cup {Fresh(X)[i] : i \in X \cap astray}
    /\ Goto(p, "done")
    /\ UNCHANGED <<group, versions, history, pending, calls, faults,
                   op, input, snap, found, alone, raced, moved, outlines>>
-----------------------------------------------------------------------------
(* Other changes: one statement each, which the history does not hear of *)

\* The layout becomes d, if the database allows it.
Change(p, o, d) ==
    /\ Call(p, o, "done")
    /\ Allowed(d) /\ Put(d)
    /\ moved' = moved \cup {i \in DOMAIN rows \cap DOMAIN d : d[i].place # rows[i].place}
    /\ UNCHANGED <<group, versions, history, pending, faults, input, snap, found, raced, outlines>>

Edit(p, o, d) == Change(p, o, d) /\ UNCHANGED astray

Create(p, r) ==
    /\ Change(p, "edit", Join(rows, One(next + 1, r)))
    /\ astray' = IF r.table # 0 /\ rows[r.table].section # r.section
                 THEN astray \cup {next + 1} ELSE astray
Delete(p, i) == Edit(p, "edit", Without({i}))
Rename(p, i) == Edit(p, "edit", [rows EXCEPT ![i].name = Name(9)])
Move(p, i)   == \E at \in Places : Edit(p, "move", [rows EXCEPT ![i].place = at])

\* An update names the row or leaves its name, and puts it somewhere.
Update(p, i) ==
    \E name \in {rows[i].name, Name(9)}, at \in Places :
        Edit(p, "update", [rows EXCEPT ![i].name = name, ![i].place = at])

CreateSection(p) == Create(p, Row("section", 0, 0, Name(9), 0))
UpdateSection(p) == \E i \in Of("section", rows) : Update(p, i)
RenameSection(p) == \E i \in Of("section", rows) : Rename(p, i)
DeleteSection(p) == \E i \in Of("section", rows) : Delete(p, i)
MoveSection(p)   == \E i \in Of("section", rows) : Move(p, i)

CreateTable(p) == \E s \in Of("section", rows) : Create(p, Row("table", s, 0, Name(9), 0))
UpdateTable(p) == \E i \in Of("table", rows) : Update(p, i)
RenameTable(p) == \E i \in Of("table", rows) : Rename(p, i)
DeleteTable(p) == \E i \in Of("table", rows) : Delete(p, i)
MoveTable(p)   == \E i \in Of("table", rows) : Move(p, i)

\* At any table or at none: createSeat does not ask whether the table is in the section.
CreateSeat(p) == \E s \in Of("section", rows), t \in Of("table", rows) \cup {0} :
                     Create(p, Row("seat", s, t, Name(9), 0))

UpdateSeat(p) == \E i \in Of("seat", rows) : Update(p, i)
DeleteSeat(p) == \E i \in Of("seat", rows) : Delete(p, i)
MoveSeat(p)   == \E i \in Of("seat", rows) : Move(p, i)

\* deleteSeats, for a seat.delete message: the history is not deleted.
DeleteSeats(p) ==
    /\ Call(p, "delete", "done")
    /\ Put(Empty)
    /\ versions' = [v \in {} |-> Empty]
    /\ UNCHANGED <<group, history, pending, faults, input, snap, found, raced, moved,
                   outlines, astray>>
-----------------------------------------------------------------------------
\* No rows yet, or those of a first seat.create with the version it saved.
Init ==
    /\ group \in Groups
    /\ \/ rows = Empty /\ versions = [v \in {} |-> Empty] /\ outlines = versions
       \/ /\ rows = Plan(MaxSeats)
          /\ versions = One(1, [snap |-> rows, dated |-> TRUE])
          /\ outlines = One(1, Outline(rows, DOMAIN rows))
    /\ next = Cardinality(DOMAIN rows)
    /\ origin = [i \in DOMAIN rows |-> rows[i].place]
    /\ history = [n \in {} |-> Empty]
    /\ pending = 0 /\ calls = 0 /\ faults = 0
    /\ pc = [p \in Callers |-> "idle"] /\ op = [p \in Callers |-> "none"]
    /\ input = [p \in Callers |-> Empty] /\ snap = input /\ found = input
    /\ alone = [p \in Callers |-> TRUE]
    /\ raced = FALSE /\ moved = {} /\ astray = {}

Step(p) ==
    \/ Receive(p) \/ Generate(p) \/ Wipe(p) \/ WriteGeometry(p)
    \/ Save(p) \/ Serialize(p) \/ CreateVersion(p)
    \/ DuplicateTable(p) \/ CloneSection(p) \/ CopyRows(p)
    \/ Apply(p) \/ ApplyGeometry(p) \/ Undo(p) \/ Redo(p) \/ ApplyEntry(p)
    \/ ReadLatest(p) \/ ReadOther(p) \/ RestoreVersion(p)
    \/ CreateSection(p) \/ UpdateSection(p) \/ RenameSection(p) \/ DeleteSection(p) \/ MoveSection(p)
    \/ CreateTable(p) \/ UpdateTable(p) \/ RenameTable(p) \/ DeleteTable(p) \/ MoveTable(p)
    \/ CreateSeat(p) \/ UpdateSeat(p) \/ DeleteSeat(p) \/ MoveSeat(p) \/ DeleteSeats(p)
    \/ Return(p) \/ Fail(p)

Next == Ask \/ \E p \in Callers : Step(p)

Spec == Init /\ [][Next]_vars
-----------------------------------------------------------------------------
(* Properties *)

TypeOK ==
    /\ group \in Groups
    /\ \A i \in DOMAIN rows : /\ i \in 1 .. next
                              /\ rows[i].kind \in {"section", "table", "seat"}
                              /\ rows[i].place \in Nat
    /\ Allowed(rows)
    /\ \A n \in DOMAIN history : n \in Nat /\ history[n].applied \in BOOLEAN
    /\ DOMAIN versions \subseteq Numbers
    /\ pending \in 0 .. group.calls
    /\ alone \in [Callers -> BOOLEAN]

\* A table is in a section; a seat is in a section and at a table or at none, and the table
\* is one of its section, unless createSeat put the seat elsewhere, or the seat it was
\* duplicated or restored from: also when sections are wiped, cloned and restored at the same
\* time and calls fail half-way, and when tables of two sections have the same name.
TreeIsSound ==
    \A i \in DOMAIN rows :
        /\ rows[i].kind # "section" => rows[i].section \in Of("section", rows)
        /\ rows[i].kind = "seat" /\ rows[i].table # 0 =>
              /\ rows[i].table \in Of("table", rows)
              /\ i \notin astray => rows[rows[i].table].section = rows[i].section

\* A seat.create message that is handled leaves the seats it asks for and nothing else,
\* whatever was there, also when it failed half-way before; if no other call overlapped.
CreatedAsPlanned ==
    \A p \in Callers : pc[p] = "done" /\ op[p] = "create" /\ alone[p] =>
        LET d == Plan(MaxSeats)
        IN  /\ Outline(rows, DOMAIN rows) = Outline(d, DOMAIN d)
            /\ Cardinality(Of("seat", rows)) = MaxSeats

\* What was undone comes after what was not, and a row is where the newest entry that is
\* applied and names it put it, or else where it was put at first; if geometry calls did
\* not overlap with others and it was not moved on its own.  So undo takes back the last
\* change and redo the last undo.
GeometryFollowsHistory ==
    raced \/ /\ \A n \in Applied, k \in DOMAIN history \ Applied : n < k
             /\ \A i \in DOMAIN rows \ moved :
                   LET about == {n \in Applied : i \in DOMAIN history[n].after}
                   IN  rows[i].place = IF about = {} THEN origin[i]
                                       ELSE history[Max(about)].after[i]

\* What is restored looks as the layout did when the version was saved, but for the seats
\* that stand at no table; if no other call overlapped with the call that saved it.
RestoredAsSaved ==
    [][\A p \in Callers : RestoreVersion(p) =>
          LET v == CHOOSE v \in DOMAIN found[p] : TRUE
          IN  outlines[v] # None => Outline(rows', DOMAIN rows') = outlines[v]]_vars
=============================================================================
