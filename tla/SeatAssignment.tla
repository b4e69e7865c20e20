--------------------------- MODULE SeatAssignment ---------------------------
(***************************************************************************)
(* The seat service's write operations (seat-write.service.ts), one action *)
(* per database statement, over PostgreSQL at its default isolation level  *)
(* READ COMMITTED: a statement sees what is committed when it runs and the *)
(* writes of its own transaction; an UPDATE or DELETE of a row another     *)
(* open transaction has written waits for it and evaluates its WHERE clause*)
(* again on what was committed; the unique indexes of the seat table wait  *)
(* for open transactions that write or replace the same key.               *)
(*                                                                         *)
(* Any number of processes (Kafka handlers, GraphQL mutations, replicas)   *)
(* run the operations side by side.                                        *)
(***************************************************************************)
EXTENDS Naturals

CONSTANTS Procs,          \* concurrent callers of SeatWriteService
          Seats, Guests, Invitations, Events,
          EventOf,        \* seat.event_id
          CreatedAt,      \* seat.created_at, as a rank; seats of one createMany share it
          InsertedAs,     \* the status each row is inserted with
          Unborn,         \* the seats that are not inserted yet at the start
          Ops,            \* the operations the processes call
          None,           \* SQL null
          Clean           \* a row the transaction has not written

\* A row is UNBORN before its INSERT and DELETED after its DELETE: ids are never reused.
SeatStatus == {"AVAILABLE", "RESERVED", "ASSIGNED", "BLOCKED"}
RowStatus  == SeatStatus \cup {"UNBORN", "DELETED"}

ASSUME SeatAssumption ==
    /\ EventOf \in [Seats -> Events]
    /\ CreatedAt \in [Seats -> Nat]
    /\ InsertedAs \in [Seats -> SeatStatus]
    /\ Unborn \subseteq Seats
    /\ None \notin Seats \cup Guests \cup Invitations \cup Events

VARIABLES
    seat,     \* the committed rows of table seat: status, guest_id, invitation_id
    history,  \* the holder a reader of seat_assignment_log concludes, in commit order
    facts,    \* the subject of the last seat.assigned.v1 fact not followed by an unassigned one
    writes,   \* the rows written by the open transaction of each process
    journal,  \* the log rows and outbox facts written by that transaction, per seat
    pc,       \* the next statement of each process
    call,     \* the arguments of the running operation
    target,   \* the seat it selected
    view,     \* the row it read for that seat
    rest,     \* the rows it still has to free, as it read them
    outcome   \* how the operation ended

db   == <<seat, history, facts>>
txs  == <<writes, journal>>
proc == <<pc, call, target, view, rest, outcome>>
vars == <<db, txs, proc>>
-----------------------------------------------------------------------------
(* Rows and holders *)

Rows    == [status : RowStatus, guest : Guests \cup {None}, invitation : Invitations \cup {None}]
Holders == [guest : Guests \cup {None}, invitation : Invitations \cup {None}]
Nobody  == [guest |-> None, invitation |-> None]

Row(status, g, i) == [status |-> status, guest |-> g, invitation |-> i]
\* Mutants of the two definitions below: a release that keeps the status, a deletion
\* that leaves a row without one.
FreeRowKeepsStatus     == Row("ASSIGNED", None, None)
DeletedRowWithoutStatus == Row(None, None, None)

FreeRow    == Row("AVAILABLE", None, None)
DeletedRow == Row("DELETED", None, None)

\* The layout service inserts the status of the seat it copies or restores, not its holder.
InsertedRow(s) == Row(InsertedAs[s], None, None)

HolderOf(r) == [guest |-> r.guest, invitation |-> r.invitation]
Exists(r)   == r.status \in SeatStatus
Unheld(r)   == HolderOf(r) = Nobody
IsFree(r)   == r.status = "AVAILABLE" /\ Unheld(r)

\* subjectId of a fact: guestId ?? invitationId
Subject(h) == IF h.guest # None THEN h.guest ELSE h.invitation

Siblings(s) == {t \in Seats \ {s} : EventOf[t] = EventOf[s]}

\* Two rows collide in the unique index on (event_id, guest_id) or (event_id, invitation_id).
Clash(r, q) == \/ r.guest # None /\ r.guest = q.guest
               \/ r.invitation # None /\ r.invitation = q.invitation
-----------------------------------------------------------------------------
(* Calls *)

\* The calls: assignSeatToGuest always has an invitation (authentication.handler.ts).
AllCalls ==
    LET Calls(op, S, G, I, E) == [op : {op}, seat : S, guest : G, invitation : I, event : E]
        N == {None}
    IN  Calls("assignSeat", Seats, Guests \cup N, Invitations \cup N, N)
        \cup Calls("assignSeatToGuest", Seats \cup N, Guests, Invitations, Events)
        \cup Calls("reserveSeatForInvitation", N, N, Invitations, Events)
        \cup Calls("unassignSeat", Seats, N, N, N)
        \cup Calls("unassignSeatsByGuestId", N, Guests, N, N)
        \cup Calls("deleteSeat", Seats, N, N, N)
NullCall(op) ==
    [op |-> op, seat |-> None, guest |-> None, invitation |-> None, event |-> None]
NoCall     == NullCall("none")
CreateCall == NullCall("createSeat")
-----------------------------------------------------------------------------
(* Transactions *)

\* What process p reads for row s.
Visible(p, s) == IF writes[p][s] = Clean THEN seat[s] ELSE writes[p][s]

\* Another open transaction has the row lock of s.
Held(p, s) == \E q \in Procs \ {p} : writes[q][s] # Clean

\* An UPDATE of s to row r waits for the row lock and for every open transaction
\* that brings in or takes away a key of r.
MustWait(p, s, r) ==
    \/ Held(p, s)
    \/ \E q \in Procs \ {p}, t \in Siblings(s) :
           /\ writes[q][t] # Clean
           /\ Clash(r, writes[q][t]) \/ Clash(r, seat[t])

\* Mutant: the index on (event_id, invitation_id) is missing.
DuplicateGuestOnly(p, s, r) ==
    \E t \in Siblings(s) : ~Held(p, t) /\ r.guest # None /\ r.guest = Visible(p, t).guest

\* The UPDATE fails on a unique index (P2002).
Duplicate(p, s, r) == \E t \in Siblings(s) : ~Held(p, t) /\ Clash(r, Visible(p, t))

\* A row of seat_assignment_log with the fact enqueued beside it; subject None: no fact.
Entries == [action : {"ASSIGNED", "UNASSIGNED"}, guest : Guests \cup {None},
            invitation : Invitations \cup {None}, subject : Guests \cup Invitations \cup {None}]

\* Mutants of Entry: the log row without the invitation, the log row without its fact.
EntryWithoutInvitation(action, h, subject) ==
    [action |-> action, guest |-> h.guest, invitation |-> None, subject |-> subject]
EntryWithoutFact(action, h, subject) ==
    [action |-> action, guest |-> h.guest, invitation |-> h.invitation, subject |-> None]

Entry(action, h, subject) ==
    [action |-> action, guest |-> h.guest, invitation |-> h.invitation, subject |-> subject]

\* The sentinel for an unwritten row is no row and no log entry.
ASSUME CleanAssumption == Clean \notin Rows \cup Entries

NoWrites == [s \in Seats |-> Clean]

Labels == {"idle", "done", "commit", "logChange",
           "assign.read", "assign.conflicts", "assign.free", "assign.claim", "assign.log",
           "guest.existing", "guest.reserved", "guest.select", "guest.claim",
           "reserve.existing", "reserve.free", "reserve.claim", "reserve.retry",
           "unassign.find", "unassign.next", "unassign.read", "unassign.update",
           "delete.read", "delete.row"}

Goto(p, label) == pc' = [pc EXCEPT ![p] = label]

\* The statement writes row s and the log row and fact that follow it.
Write(p, s, r, e) ==
    /\ ~MustWait(p, s, r)
    /\ ~Duplicate(p, s, r)
    /\ writes' = [writes EXCEPT ![p][s] = r]
    /\ journal' = [journal EXCEPT ![p][s] = e]
    /\ UNCHANGED db

\* The operation answers its caller.
Answer(p, how) ==
    /\ Goto(p, "done")
    /\ outcome' = [outcome EXCEPT ![p] = how]
    /\ call' = [call EXCEPT ![p] = NoCall]

\* The operation ends; whatever its transaction wrote and did not commit is gone.
Finish(p, how) ==
    /\ Answer(p, how)
    /\ writes' = [writes EXCEPT ![p] = NoWrites]
    /\ journal' = [journal EXCEPT ![p] = NoWrites]
    /\ view' = [view EXCEPT ![p] = Clean]
    /\ rest' = [rest EXCEPT ![p] = NoWrites]
    /\ target' = [target EXCEPT ![p] = IF how = "ok" THEN target[p] ELSE None]
    /\ UNCHANGED db

\* A unique index refuses the UPDATE of s to r; the transaction rolls back.
Refused(p, s, r) ==
    /\ ~MustWait(p, s, r)
    /\ Duplicate(p, s, r)
    /\ Finish(p, "error")

Commit(p) ==
    /\ pc[p] = "commit"
    /\ seat' = [s \in Seats |-> Visible(p, s)]
    /\ history' = [s \in Seats |->
           IF journal[p][s] = Clean THEN history[s]
           ELSE IF journal[p][s].action = "ASSIGNED" THEN HolderOf(journal[p][s]) ELSE Nobody]
    /\ facts' = [s \in Seats |->
           IF journal[p][s] = Clean \/ journal[p][s].subject = None THEN facts[s]
           ELSE IF journal[p][s].action = "ASSIGNED" THEN journal[p][s].subject ELSE None]
    /\ writes' = [writes EXCEPT ![p] = NoWrites]
    /\ journal' = [journal EXCEPT ![p] = NoWrites]
    /\ IF call[p].op \in {"assignSeat", "reserveSeatForInvitation"}
       THEN Answer(p, "ok")
       ELSE Goto(p, "logChange") /\ UNCHANGED <<call, outcome>>
    /\ UNCHANGED <<target, view, rest>>

InTransaction(p) ==
    pc[p] \in {"assign.conflicts", "assign.free", "assign.claim", "assign.log",
               "guest.reserved", "guest.select", "guest.claim",
               "reserve.free", "reserve.claim", "reserve.retry", "unassign.update", "commit"}

\* Prisma's transaction timeout, PostgreSQL's deadlock detector, a lost connection, a
\* missing tenant context for the fact, or a failing statement rolls the transaction back.
Abort(p) == InTransaction(p) /\ Finish(p, "error")
-----------------------------------------------------------------------------
(* Reads of the seat table *)

\* findFirst ... orderBy createdAt: any of the oldest rows of S.
Oldest(S) == {s \in S : \A t \in S : CreatedAt[s] <= CreatedAt[t]}

SeatsOf(e) == {s \in Seats : EventOf[s] = e}

FreeSeats(p, e) == {s \in SeatsOf(e) : IsFree(Visible(p, s))}

ReservedFor(p, e, i) ==
    {s \in SeatsOf(e) : Visible(p, s).invitation = i /\ Visible(p, s).guest = None}

Select(p, s) ==
    /\ target' = [target EXCEPT ![p] = s]
    /\ view' = [view EXCEPT ![p] = Visible(p, s)]

\* Process p only moves on: nothing is written.
NoWrite == UNCHANGED <<db, txs>>
-----------------------------------------------------------------------------
(* assignSeat *)

Wanted(p) == [guest |-> call[p].guest, invitation |-> call[p].invitation]
HasAssignment(p) == Wanted(p) # Nobody

AssignRejected(p) ==
    /\ pc[p] = "assign.read"
    /\ call[p].guest # None /\ call[p].invitation # None
    /\ Finish(p, "error")

AssignRead(p) ==
    LET s == call[p].seat IN
    /\ pc[p] = "assign.read"
    /\ call[p].guest = None \/ call[p].invitation = None
    /\ \/ /\ ~Exists(seat[s])
          /\ Finish(p, "error")
       \/ /\ Exists(seat[s]) /\ ~HasAssignment(p) /\ Unheld(seat[s])
          /\ Finish(p, "ok")
       \/ /\ Exists(seat[s]) /\ (HasAssignment(p) \/ ~Unheld(seat[s]))
          /\ Goto(p, IF HasAssignment(p) THEN "assign.conflicts" ELSE "assign.claim")
          /\ Select(p, s)
          /\ NoWrite /\ UNCHANGED <<call, rest, outcome>>

\* findMany of the other seats of the event that the same guest or invitation holds
AssignFindConflicts(p) ==
    /\ pc[p] = "assign.conflicts"
    /\ rest' = [rest EXCEPT ![p] = [t \in Seats |->
           IF t \in Siblings(target[p]) /\ Clash(Wanted(p), Visible(p, t))
           THEN Visible(p, t) ELSE Clean]]
    /\ Goto(p, "assign.free")
    /\ NoWrite /\ UNCHANGED <<call, target, view, outcome>>

\* update({ where: { id } }): whoever holds the row by now; P2025 when it is gone
AssignFree(p) ==
    /\ pc[p] = "assign.free"
    /\ \/ /\ rest[p] = NoWrites
          /\ Goto(p, "assign.claim")
          /\ NoWrite /\ UNCHANGED <<call, target, view, rest, outcome>>
       \/ \E t \in Seats :
            /\ rest[p][t] # Clean
            /\ \/ /\ Exists(seat[t])
                  /\ Write(p, t, FreeRow, Entry("UNASSIGNED", rest[p][t], Subject(rest[p][t])))
                  /\ rest' = [rest EXCEPT ![p][t] = Clean]
                  /\ UNCHANGED <<pc, call, target, view, outcome>>
               \/ /\ ~Exists(seat[t])
                  /\ Finish(p, "error")

\* Mutant: the UPDATE of the target has no compare-and-set.
AssignMatchesAnyHolder(p, r) == Exists(r)

AssignMatches(p, r) ==
    IF HasAssignment(p) THEN IsFree(r) \/ HolderOf(r) = Wanted(p) ELSE Exists(r)

\* updateMany on the target, then its log row and fact; on unassign both name the
\* holder read at the start
AssignClaim(p) ==
    LET s == target[p]
        new == IF HasAssignment(p) THEN Row("ASSIGNED", call[p].guest, call[p].invitation)
                                   ELSE FreeRow
        entry == IF HasAssignment(p) THEN Entry("ASSIGNED", Wanted(p), Subject(Wanted(p)))
                                     ELSE Entry("UNASSIGNED", view[p], Subject(view[p]))
    IN /\ pc[p] = "assign.claim"
       /\ \/ /\ ~AssignMatches(p, Visible(p, s))
             /\ Finish(p, "unavailable")
          \/ /\ AssignMatches(p, Visible(p, s))
             /\ Refused(p, s, new)
          \/ /\ AssignMatches(p, Visible(p, s))
             /\ Write(p, s, new, entry)
             /\ Goto(p, "assign.log")
             /\ view' = [view EXCEPT ![p] = Clean]
             /\ UNCHANGED <<call, target, rest, outcome>>

\* logChange runs on another connection while the transaction is still open
AssignLogChange(p) ==
    /\ pc[p] = "assign.log"
    /\ Goto(p, "commit")
    /\ NoWrite /\ UNCHANGED <<call, target, view, rest, outcome>>

AssignSeat(p) == \/ AssignRejected(p) \/ AssignRead(p) \/ AssignFindConflicts(p)
                 \/ AssignFree(p) \/ AssignClaim(p) \/ AssignLogChange(p)
-----------------------------------------------------------------------------
(* assignSeatToGuest *)

GuestExisting(p) ==
    LET found == {s \in SeatsOf(call[p].event) : HolderOf(Visible(p, s)) = Wanted(p)} IN
    /\ pc[p] = "guest.existing"
    /\ \/ /\ found = {}
          /\ Goto(p, IF call[p].seat = None THEN "guest.reserved" ELSE "guest.select")
          /\ UNCHANGED target
       \/ /\ Goto(p, "logChange")
          /\ \E s \in found : target' = [target EXCEPT ![p] = s]
    /\ NoWrite /\ UNCHANGED <<call, view, rest, outcome>>

GuestFindReserved(p) ==
    LET found == Oldest(ReservedFor(p, call[p].event, call[p].invitation)) IN
    /\ pc[p] = "guest.reserved"
    /\ \/ /\ found = {}
          /\ Goto(p, "guest.select")
          /\ UNCHANGED <<target, view>>
       \/ /\ Goto(p, "guest.claim")
          /\ \E s \in found : Select(p, s)
    /\ NoWrite /\ UNCHANGED <<call, rest, outcome>>

\* findUnique of the named seat, of whatever event, or the first free seat
GuestSelect(p) ==
    LET found == IF call[p].seat = None THEN Oldest(FreeSeats(p, call[p].event))
                 ELSE {s \in {call[p].seat} : Exists(seat[s])}
    IN /\ pc[p] = "guest.select"
       /\ \/ /\ found = {}
             /\ Finish(p, "unavailable")
          \/ \E s \in found :
               \/ /\ EventOf[s] # call[p].event
                  /\ Finish(p, "error")
               \/ /\ EventOf[s] = call[p].event
                  /\ Select(p, s)
                  /\ Goto(p, "guest.claim")
                  /\ NoWrite /\ UNCHANGED <<call, rest, outcome>>

\* The WHERE clause depends on what was read when the seat was selected.
GuestMatches(p, r) ==
    IF view[p].invitation = call[p].invitation /\ view[p].guest = None
    THEN r.invitation = call[p].invitation /\ r.guest = None
    ELSE IsFree(r)

GuestClaim(p) ==
    LET s == target[p]
        new == Row("ASSIGNED", call[p].guest, call[p].invitation)
    IN /\ pc[p] = "guest.claim"
       /\ \/ /\ ~GuestMatches(p, Visible(p, s))
             /\ Finish(p, "unavailable")
          \/ /\ GuestMatches(p, Visible(p, s))
             /\ Refused(p, s, new)
          \/ /\ GuestMatches(p, Visible(p, s))
             /\ Write(p, s, new, Entry("ASSIGNED", Wanted(p), call[p].guest))
             /\ Goto(p, "commit")
             /\ view' = [view EXCEPT ![p] = Clean]
             /\ UNCHANGED <<call, target, rest, outcome>>

AssignSeatToGuest(p) == \/ GuestExisting(p) \/ GuestFindReserved(p)
                        \/ GuestSelect(p) \/ GuestClaim(p)
-----------------------------------------------------------------------------
(* reserveSeatForInvitation *)

ReserveExisting(p) ==
    LET found == {s \in SeatsOf(call[p].event) : Visible(p, s).invitation = call[p].invitation}
    IN /\ pc[p] = "reserve.existing"
       /\ \/ /\ found = {}
             /\ Goto(p, "reserve.free")
             /\ UNCHANGED <<call, target, outcome>>
          \/ /\ Answer(p, "ok")
             /\ \E s \in found : target' = [target EXCEPT ![p] = s]
       /\ NoWrite /\ UNCHANGED <<view, rest>>

ReserveFindFree(p) ==
    LET found == Oldest(FreeSeats(p, call[p].event)) IN
    /\ pc[p] = "reserve.free"
    /\ \/ /\ found = {}
          /\ Finish(p, "unavailable")
       \/ /\ \E s \in found : target' = [target EXCEPT ![p] = s]
          /\ Goto(p, "reserve.claim")
          /\ NoWrite /\ UNCHANGED <<call, view, rest, outcome>>

\* No fact is enqueued for a reservation.
ReserveClaim(p) ==
    LET s == target[p]
        new == Row("RESERVED", None, call[p].invitation)
    IN /\ pc[p] = "reserve.claim"
       /\ \/ /\ ~IsFree(Visible(p, s))
             /\ Goto(p, "reserve.retry")
             /\ NoWrite /\ UNCHANGED <<call, target, view, rest, outcome>>
          \/ /\ IsFree(Visible(p, s))
             /\ Refused(p, s, new)
          \/ /\ IsFree(Visible(p, s))
             /\ Write(p, s, new, Entry("ASSIGNED", Wanted(p), None))
             /\ Goto(p, "commit")
             /\ UNCHANGED <<call, target, view, rest, outcome>>

ReserveRetry(p) ==
    LET found == ReservedFor(p, call[p].event, call[p].invitation) IN
    /\ pc[p] = "reserve.retry"
    /\ \/ /\ found = {}
          /\ Finish(p, "unavailable")
       \/ /\ \E s \in found : target' = [target EXCEPT ![p] = s]
          /\ Answer(p, "ok")
          /\ NoWrite /\ UNCHANGED <<view, rest>>

ReserveSeatForInvitation(p) == \/ ReserveExisting(p) \/ ReserveFindFree(p)
                               \/ ReserveClaim(p) \/ ReserveRetry(p)
-----------------------------------------------------------------------------
(* unassignSeat, unassignSeatsByGuestId *)

\* findUnique before the transaction; a missing or free seat ends this call
UnassignRead(p) ==
    LET s == target[p] IN
    /\ pc[p] = "unassign.read"
    /\ IF Exists(seat[s]) /\ ~Unheld(seat[s])
       THEN Goto(p, "unassign.update") /\ Select(p, s)
       ELSE Goto(p, "unassign.next") /\ UNCHANGED <<target, view>>
    /\ NoWrite /\ UNCHANGED <<call, rest, outcome>>

\* update({ where: { id } }): whoever holds the row by now; log row and fact name the
\* holder read before
UnassignUpdate(p) ==
    LET s == target[p] IN
    /\ pc[p] = "unassign.update"
    /\ \/ /\ Exists(seat[s])
          /\ Write(p, s, FreeRow, Entry("UNASSIGNED", view[p], Subject(view[p])))
          /\ Goto(p, "commit")
          /\ view' = [view EXCEPT ![p] = Clean]
          /\ UNCHANGED <<call, target, rest, outcome>>
       \/ /\ ~Exists(seat[s])
          /\ Finish(p, "error")

\* findMany({ where: { guestId } }), over all events
UnassignFindSeats(p) ==
    /\ pc[p] = "unassign.find"
    /\ rest' = [rest EXCEPT ![p] =
           [s \in Seats |-> IF seat[s].guest = call[p].guest THEN seat[s] ELSE Clean]]
    /\ Goto(p, "unassign.next")
    /\ NoWrite /\ UNCHANGED <<call, target, view, outcome>>

\* Mutant: the loop does not advance.
UnassignSameSeat(p) ==
    /\ pc[p] = "unassign.next"
    /\ \/ /\ rest[p] = NoWrites
          /\ Finish(p, "ok")
       \/ \E s \in Seats :
            /\ rest[p][s] # Clean
            /\ target' = [target EXCEPT ![p] = s]
            /\ Goto(p, "unassign.read")
            /\ NoWrite /\ UNCHANGED <<call, view, rest, outcome>>

\* The next seat of the loop; a plain unassignSeat has none left.
UnassignNext(p) ==
    /\ pc[p] = "unassign.next"
    /\ \/ /\ rest[p] = NoWrites
          /\ Finish(p, "ok")
       \/ \E s \in Seats :
            /\ rest[p][s] # Clean
            /\ rest' = [rest EXCEPT ![p][s] = Clean]
            /\ target' = [target EXCEPT ![p] = s]
            /\ Goto(p, "unassign.read")
            /\ NoWrite /\ UNCHANGED <<call, view, outcome>>

UnassignSeat(p) == \/ UnassignRead(p) \/ UnassignUpdate(p)
                   \/ UnassignFindSeats(p) \/ UnassignNext(p)
-----------------------------------------------------------------------------
(* createSeat, deleteSeat: single statements that commit at once; inserts of the layout *)

\* The status is left to the column's default.
CreateSeat(p) ==
    /\ pc[p] = "idle"
    /\ "createSeat" \in Ops
    /\ \E s \in Oldest({t \in Seats : seat[t].status = "UNBORN"}) :
         /\ InsertedAs[s] = "AVAILABLE"
         /\ seat' = [seat EXCEPT ![s] = FreeRow]
         /\ target' = [target EXCEPT ![p] = s]
    /\ call' = [call EXCEPT ![p] = CreateCall]
    /\ Goto(p, "logChange")
    /\ UNCHANGED <<history, facts, txs, view, rest, outcome>>

\* A row that the layout service restores, generates or copies, in whatever status.
InsertSeat(s) ==
    /\ "insertSeats" \in Ops
    /\ seat[s].status = "UNBORN"
    /\ seat' = [seat EXCEPT ![s] = InsertedRow(s)]
    /\ UNCHANGED <<history, facts, txs, proc>>

DeleteRead(p) ==
    /\ pc[p] = "delete.read"
    /\ \/ /\ ~Exists(seat[target[p]])
          /\ Finish(p, "error")
       \/ /\ Exists(seat[target[p]])
          /\ Goto(p, "delete.row")
          /\ NoWrite /\ UNCHANGED <<call, target, view, rest, outcome>>

\* The DELETE takes the row whoever holds the seat: no log row, no fact.
DeleteRow(p) ==
    LET s == target[p] IN
    /\ pc[p] = "delete.row"
    /\ \/ /\ ~Exists(seat[s])
          /\ Finish(p, "error")
       \/ /\ Exists(seat[s]) /\ ~Held(p, s)
          /\ seat' = [seat EXCEPT ![s] = DeletedRow]
          /\ Goto(p, "logChange")
          /\ UNCHANGED <<history, facts, txs, call, target, view, rest, outcome>>
-----------------------------------------------------------------------------
\* layoutWriteService.logChange after the commit, on its own connection; it can fail
\* although the seat change is committed.
LogChange(p) ==
    /\ pc[p] = "logChange"
    /\ \/ /\ call[p].op \in {"unassignSeat", "unassignSeatsByGuestId"}
          /\ Goto(p, "unassign.next")
          /\ NoWrite /\ UNCHANGED <<call, target, view, rest, outcome>>
       \/ /\ call[p].op \notin {"unassignSeat", "unassignSeatsByGuestId"}
          /\ Finish(p, "ok")
       \/ Finish(p, "error")

First(op) == CASE op = "assignSeat" -> "assign.read"
               [] op = "assignSeatToGuest" -> "guest.existing"
               [] op = "reserveSeatForInvitation" -> "reserve.existing"
               [] op = "unassignSeat" -> "unassign.read"
               [] op = "unassignSeatsByGuestId" -> "unassign.find"
               [] OTHER -> "delete.read"

Begin(p) ==
    /\ pc[p] = "idle"
    /\ \E c \in AllCalls :
         /\ c.op \in Ops
         /\ call' = [call EXCEPT ![p] = c]
         /\ target' = [target EXCEPT ![p] =
                IF c.op \in {"unassignSeat", "deleteSeat"} THEN c.seat ELSE None]
         /\ Goto(p, First(c.op))
    /\ NoWrite /\ UNCHANGED <<view, rest, outcome>>

\* The caller takes the answer: outcome[p] and, when it is "ok", the seat target[p].
Return(p) ==
    /\ pc[p] = "done"
    /\ Goto(p, "idle")
    /\ target' = [target EXCEPT ![p] = None]
    /\ outcome' = [outcome EXCEPT ![p] = "none"]
    /\ NoWrite /\ UNCHANGED <<call, view, rest>>

Init ==
    /\ seat = [s \in Seats |-> IF s \in Unborn THEN Row("UNBORN", None, None) ELSE InsertedRow(s)]
    /\ history = [s \in Seats |-> Nobody]
    /\ facts = [s \in Seats |-> None]
    /\ writes = [p \in Procs |-> NoWrites]
    /\ journal = [p \in Procs |-> NoWrites]
    /\ pc = [p \in Procs |-> "idle"]
    /\ call = [p \in Procs |-> NoCall]
    /\ target = [p \in Procs |-> None]
    /\ view = [p \in Procs |-> Clean]
    /\ rest = [p \in Procs |-> NoWrites]
    /\ outcome = [p \in Procs |-> "none"]

Step(p) == \/ AssignSeat(p) \/ AssignSeatToGuest(p) \/ ReserveSeatForInvitation(p)
           \/ UnassignSeat(p) \/ DeleteRead(p) \/ DeleteRow(p)
           \/ Commit(p) \/ LogChange(p) \/ Return(p)

Next == \/ \E p \in Procs : Begin(p) \/ CreateSeat(p) \/ Step(p) \/ Abort(p)
        \/ \E s \in Seats : InsertSeat(s)

Spec == Init /\ [][Next]_vars

\* Prisma ends a transaction that does not get on, so a process in a transaction either
\* takes its next statement or is aborted; a DELETE outside one waits in PostgreSQL's
\* first-come queue of the row lock.
Fairness == \A p \in Procs : WF_vars(Step(p) \/ Abort(p)) /\ SF_vars(DeleteRow(p))
FairSpec == Spec /\ Fairness
-----------------------------------------------------------------------------
(* Properties *)

TypeOK ==
    /\ seat \in [Seats -> Rows]
    /\ history \in [Seats -> Holders]
    /\ facts \in [Seats -> Guests \cup Invitations \cup {None}]
    /\ writes \in [Procs -> [Seats -> Rows \cup {Clean}]]
    /\ journal \in [Procs -> [Seats -> Entries \cup {Clean}]]
    /\ pc \in [Procs -> Labels]
    /\ call \in [Procs -> AllCalls \cup {NoCall, CreateCall}]
    /\ target \in [Procs -> Seats \cup {None}]
    /\ view \in [Procs -> Rows \cup {Clean}]
    /\ rest \in [Procs -> [Seats -> Rows \cup {Clean}]]
    /\ outcome \in [Procs -> {"none", "ok", "unavailable", "error"}]

\* In one event no guest and no invitation has two seats, whatever the
\* interleaving of claims, moves, reservations and releases.
UniqueHolders == \A s \in Seats : \A t \in Siblings(s) : ~Clash(seat[s], seat[t])

\* A held row s is ASSIGNED, or RESERVED for an invitation without its guest; one that nobody
\* holds is AVAILABLE or has the status it was inserted with.
RowOK(s, r) == IF Unheld(r)
               THEN r.status \in {"AVAILABLE", InsertedAs[s], "UNBORN", "DELETED"}
               ELSE r.status = "ASSIGNED" \/ (r.status = "RESERVED" /\ r.guest = None)

\* The status column of every committed row agrees with its holder columns: a seat that is
\* held says so, and one that is not held never says so, unless the layout service inserted
\* it as the copy of a seat that was.
StatusMatchesHolder == \A s \in Seats : RowOK(s, seat[s])

\* Replaying the committed assignment log of a seat gives its present holder.
LogMatchesSeats == \A s \in Seats : Exists(seat[s]) => history[s] = HolderOf(seat[s])

\* Replaying the outbox facts of a seat gives the subject it is assigned to.
FactsMatchSeats ==
    \A s \in Seats : Exists(seat[s]) =>
        facts[s] = IF seat[s].status = "ASSIGNED" THEN Subject(HolderOf(seat[s])) ELSE None

\* Every committed step is one step of the ledger: a seat changes hands only when it
\* was free, held by the same holder, or kept for the guest's own invitation.
Ledger == INSTANCE SeatLedger WITH ledger <- [s \in Seats |-> HolderOf(seat[s])]
LedgerSpec == Ledger!LedgerSpec

\* Every call ends, although transactions wait for each other's rows.
EveryCallEnds == \A p \in Procs : pc[p] # "idle" ~> pc[p] = "idle"

\* When a release takes a seat from somebody, its log row names who lost it ("Bei Unassign
\* den vorherigen Holder speichern", "Wichtig: vorheriger Holder von s").
ReleaseNamesHolder ==
    [][\A p \in Procs, s \in Seats :
          ( /\ Commit(p) /\ journal[p][s] # Clean /\ journal[p][s].action = "UNASSIGNED"
            /\ ~Unheld(seat[s]) )
          => HolderOf(journal[p][s]) = HolderOf(seat[s])]_vars

\* A reservation fails only when the event has no free seat ("No seat available for
\* guest invitation").
ReservationFailsWhenFull ==
    [][\A p \in Procs : ReserveSeatForInvitation(p) /\ outcome'[p] = "unavailable"
           => FreeSeats(p, call[p].event) = {}]_vars
=============================================================================
