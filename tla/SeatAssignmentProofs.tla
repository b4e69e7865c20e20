------------------------ MODULE SeatAssignmentProofs ------------------------
(***************************************************************************)
(* Proofs about SeatAssignment, for any number of processes, seats,        *)
(* guests, invitations and events: the types, and who holds a seat.  The   *)
(* holders are unique, the status, the assignment log and the analytics    *)
(* facts agree with them, and every commit is a step of the ledger.        *)
(*                                                                         *)
(* The proof separates control from data.  Local says what a process knows *)
(* at each of its statements; StepKinds concludes that a step of the       *)
(* system writes one row of one open transaction, ends a transaction, or   *)
(* puts a row without holder in place of another.  DataInv is preserved by *)
(* each of these kinds, whatever operation they belong to.                 *)
(***************************************************************************)
EXTENDS SeatAssignment, TLAPS

-----------------------------------------------------------------------------
(* Type correctness *)

\* What the next statement of a process may rely on.
Shape(p) ==
    /\ pc[p] = "assign.read" => call[p].seat \in Seats
    /\ pc[p] \in {"assign.conflicts", "assign.free", "assign.claim", "assign.log",
                  "unassign.read", "unassign.update", "delete.read", "delete.row",
                  "guest.claim", "reserve.claim"} => target[p] \in Seats
    /\ pc[p] \in {"assign.conflicts", "assign.free", "assign.claim", "guest.claim",
                  "unassign.update"} => view[p] \in Rows
    /\ pc[p] \in {"guest.existing", "guest.reserved", "guest.select", "guest.claim"}
           => call[p].guest \in Guests /\ call[p].invitation \in Invitations
    /\ pc[p] \in {"reserve.existing", "reserve.free", "reserve.claim", "reserve.retry"}
           => call[p].guest = None /\ call[p].invitation \in Invitations

TypeInv == TypeOK /\ \A p \in Procs : Shape(p)

\* The arguments of every call.
LEMMA CallArguments ==
    ASSUME NEW c \in AllCalls \cup {NoCall, CreateCall}
    PROVE  /\ c.seat \in Seats \cup {None}
           /\ c.guest \in Guests \cup {None}
           /\ c.invitation \in Invitations \cup {None}
BY DEF AllCalls, NoCall, CreateCall, NullCall

\* Reading a row gives a row.
LEMMA VisibleIsRow ==
    ASSUME TypeOK, NEW p \in Procs, NEW s \in Seats
    PROVE  Visible(p, s) \in Rows
BY DEF TypeOK, Visible

LEMMA RowTypes ==
    /\ FreeRow \in Rows /\ DeletedRow \in Rows /\ Nobody \in Holders
    /\ \A g \in Guests \cup {None}, i \in Invitations \cup {None} :
           Row("ASSIGNED", g, i) \in Rows /\ Row("RESERVED", g, i) \in Rows
    /\ \A r \in Rows : HolderOf(r) \in Holders
    /\ \A r \in Entries : HolderOf(r) \in Holders
BY DEF FreeRow, DeletedRow, Nobody, Row, Rows, Holders, Entries, HolderOf, RowStatus, SeatStatus

LEMMA EntryTypes ==
    /\ \A h \in Holders \cup Rows : Subject(h) \in Guests \cup Invitations \cup {None}
    /\ \A h \in Holders \cup Rows, a \in {"ASSIGNED", "UNASSIGNED"},
          x \in Guests \cup Invitations \cup {None} : Entry(a, h, x) \in Entries
BY DEF Holders, Rows, Entry, Entries, Subject

LEMMA NoWritesType ==
    /\ NoWrites \in [Seats -> Rows \cup {Clean}]
    /\ NoWrites \in [Seats -> Entries \cup {Clean}]
BY DEF NoWrites

\* A process that moves on has a next statement.
LEMMA GotoType ==
    ASSUME TypeOK, NEW p \in Procs, NEW l \in Labels, Goto(p, l)
    PROVE  pc' \in [Procs -> Labels]
BY DEF TypeOK, Goto

\* Ending an operation keeps the types.
LEMMA FinishType ==
    ASSUME TypeInv, NEW p \in Procs, NEW how \in {"ok", "unavailable", "error"}, Finish(p, how)
    PROVE  TypeInv'
<1> USE NoWritesType DEF TypeInv
<1>1. TypeOK'
  BY DEF TypeOK, Finish, Answer, Goto, db, Labels
<1>2. \A q \in Procs : Shape(q)'
  BY DEF TypeOK, Finish, Answer, Goto, db, Shape
<1> QED BY <1>1, <1>2

\* A statement that writes a row keeps the types of what it changes.
LEMMA WriteType ==
    ASSUME TypeOK, NEW p \in Procs, NEW s, NEW r \in Rows, NEW e \in Entries, Write(p, s, r, e)
    PROVE  /\ writes' \in [Procs -> [Seats -> Rows \cup {Clean}]]
           /\ journal' \in [Procs -> [Seats -> Entries \cup {Clean}]]
           /\ UNCHANGED db
BY DEF TypeOK, Write

LEMMA BeginType ==
    ASSUME TypeInv, NEW p \in Procs, Begin(p)
    PROVE  TypeInv'
<1> USE DEF TypeInv
<1>1. PICK c \in AllCalls :
          /\ call' = [call EXCEPT ![p] = c]
          /\ target' = [target EXCEPT ![p] =
                 IF c.op \in {"unassignSeat", "deleteSeat"} THEN c.seat ELSE None]
          /\ Goto(p, First(c.op))
          /\ NoWrite /\ UNCHANGED <<view, rest, outcome>>
  BY DEF Begin
<1>2. /\ First(c.op) \in Labels
      /\ First(c.op) = "assign.read" => c.seat \in Seats
      /\ First(c.op) \in {"unassign.read", "delete.read"}
             => c.seat \in Seats /\ c.op \in {"unassignSeat", "deleteSeat"}
      /\ First(c.op) = "guest.existing" => c.guest \in Guests /\ c.invitation \in Invitations
      /\ First(c.op) = "reserve.existing" => c.guest = None /\ c.invitation \in Invitations
      /\ First(c.op) \in {"assign.read", "unassign.read", "delete.read", "guest.existing",
                           "reserve.existing", "unassign.find"}
  BY DEF First, AllCalls, Labels
<1>3. TypeOK'
  BY <1>1, <1>2, CallArguments DEF TypeOK, Goto, NoWrite, db, txs
<1>4. \A q \in Procs : Shape(q)'
  BY <1>1, <1>2 DEF TypeOK, Goto, NoWrite, db, txs, Shape
<1> QED BY <1>3, <1>4

LEMMA AssignSeatType ==
    ASSUME TypeInv, NEW p \in Procs, AssignSeat(p)
    PROVE  TypeInv'
<1> USE DEF TypeInv
<1>1. CASE \E how \in {"ok", "unavailable", "error"} : Finish(p, how)
  BY <1>1, FinishType
<1>2. CASE AssignRead(p) /\ ~\E how \in {"ok", "unavailable", "error"} : Finish(p, how)
  <2>1. pc' \in [Procs -> Labels]
    <3>1. Goto(p, "assign.conflicts") \/ Goto(p, "assign.claim")
      BY <1>2 DEF AssignRead
    <3>2. {"assign.conflicts", "assign.claim"} \subseteq Labels
      BY DEF Labels
    <3> QED BY <3>1, <3>2, GotoType
  <2>2. /\ target' \in [Procs -> Seats \cup {None}]
        /\ view' \in [Procs -> Rows \cup {Clean}]
    <3>1. call[p].seat \in Seats /\ Select(p, call[p].seat)
      BY <1>2 DEF AssignRead, Shape
    <3>2. Visible(p, call[p].seat) \in Rows
      BY <3>1, VisibleIsRow
    <3> QED BY <3>1, <3>2 DEF Select, TypeOK
  <2>3. UNCHANGED <<seat, history, facts, writes, journal, call, rest, outcome>>
    BY <1>2 DEF AssignRead, NoWrite, db, txs
  <2>4. TypeOK'
    BY <2>1, <2>2, <2>3 DEF TypeOK
  <2>5. \A q \in Procs : Shape(q)'
    BY <1>2, <2>3, VisibleIsRow DEF AssignRead, TypeOK, Shape, Goto, Select
  <2> QED BY <2>4, <2>5
<1>3. CASE AssignFindConflicts(p)
  <2>1. TypeOK'
    BY <1>3, VisibleIsRow DEF AssignFindConflicts, TypeOK, Goto, NoWrite, db, txs, Labels
  <2>2. \A q \in Procs : Shape(q)'
    BY <1>3 DEF AssignFindConflicts, TypeOK, Shape, Goto, NoWrite, db, txs
  <2> QED BY <2>1, <2>2
<1>4. CASE AssignFree(p) /\ ~\E how \in {"ok", "unavailable", "error"} : Finish(p, how)
  <2>1. CASE rest[p] = NoWrites /\ Goto(p, "assign.claim") /\ NoWrite
             /\ UNCHANGED <<call, target, view, rest, outcome>>
    BY <1>4, <2>1 DEF AssignFree, TypeOK, Shape, Goto, NoWrite, db, txs, Labels
  <2>2. ASSUME NEW t \in Seats, rest[p][t] # Clean,
               Write(p, t, FreeRow, Entry("UNASSIGNED", rest[p][t], Subject(rest[p][t]))),
               rest' = [rest EXCEPT ![p][t] = Clean],
               UNCHANGED <<pc, call, target, view, outcome>>
        PROVE  TypeInv'
    <3>1. rest[p][t] \in Rows
      BY <2>2 DEF TypeOK
    <3>2. Entry("UNASSIGNED", rest[p][t], Subject(rest[p][t])) \in Entries
      BY <3>1, EntryTypes
    <3>3. TypeOK'
      BY <2>2, <3>2, WriteType, RowTypes DEF TypeOK, db
    <3>4. \A q \in Procs : Shape(q)'
      BY <2>2 DEF Shape
    <3> QED BY <3>3, <3>4
  <2> QED BY <1>4, <2>1, <2>2 DEF AssignFree
<1>5. CASE AssignClaim(p) /\ ~\E how \in {"ok", "unavailable", "error"} : Finish(p, how)
  <2> DEFINE new == IF HasAssignment(p) THEN Row("ASSIGNED", call[p].guest, call[p].invitation)
                                        ELSE FreeRow
             entry == IF HasAssignment(p)
                      THEN Entry("ASSIGNED", Wanted(p), Subject(Wanted(p)))
                      ELSE Entry("UNASSIGNED", view[p], Subject(view[p]))
  <2>1. /\ pc[p] = "assign.claim" /\ Write(p, target[p], new, entry)
        /\ Goto(p, "assign.log")
        /\ view' = [view EXCEPT ![p] = Clean]
        /\ UNCHANGED <<call, target, rest, outcome>>
    BY <1>5 DEF AssignClaim, Refused
  <2>2. /\ call[p].guest \in Guests \cup {None} /\ call[p].invitation \in Invitations \cup {None}
        /\ view[p] \in Rows
    BY <2>1, CallArguments DEF TypeOK, Shape
  <2>3. new \in Rows /\ entry \in Entries
    BY <2>2, RowTypes, EntryTypes DEF Wanted, Holders
  <2>4. TypeOK'
    <3> HIDE DEF new, entry
    <3> QED BY <2>1, <2>3, WriteType DEF TypeOK, db, Goto, Labels
  <2>5. \A q \in Procs : Shape(q)'
    BY <2>1 DEF TypeOK, Shape, Goto
  <2> QED BY <2>4, <2>5
<1>6. CASE AssignLogChange(p)
  BY <1>6 DEF AssignLogChange, TypeOK, Shape, Goto, NoWrite, db, txs, Labels
<1> QED BY <1>1, <1>2, <1>3, <1>4, <1>5, <1>6 DEF AssignSeat, AssignRejected

LEMMA AssignSeatToGuestType ==
    ASSUME TypeInv, NEW p \in Procs, AssignSeatToGuest(p)
    PROVE  TypeInv'
<1> USE DEF TypeInv
<1>1. CASE \E how \in {"ok", "unavailable", "error"} : Finish(p, how)
  BY <1>1, FinishType
<1>2. CASE GuestExisting(p)
  <2>1. /\ pc' \in [Procs -> Labels]
        /\ target' \in [Procs -> Seats \cup {None}]
    <3>1. pc' \in [Procs -> Labels]
      <4>1. Goto(p, "guest.reserved") \/ Goto(p, "guest.select") \/ Goto(p, "logChange")
        BY <1>2 DEF GuestExisting
      <4>2. {"guest.reserved", "guest.select", "logChange"} \subseteq Labels
        BY DEF Labels
      <4> QED BY <4>1, <4>2, GotoType
    <3>2. target' \in [Procs -> Seats \cup {None}]
      BY <1>2 DEF GuestExisting, TypeOK, SeatsOf
    <3> QED BY <3>1, <3>2
  <2>2. UNCHANGED <<seat, history, facts, writes, journal, call, view, rest, outcome>>
    BY <1>2 DEF GuestExisting, NoWrite, db, txs
  <2>3. TypeOK'
    BY <2>1, <2>2 DEF TypeOK
  <2>4. \A q \in Procs : Shape(q)'
    BY <1>2, <2>2 DEF GuestExisting, TypeOK, Shape, Goto, SeatsOf
  <2> QED BY <2>3, <2>4
<1>3. CASE GuestFindReserved(p)
  <2>1. pc' \in [Procs -> Labels]
    <3>1. Goto(p, "guest.select") \/ Goto(p, "guest.claim")
      BY <1>3 DEF GuestFindReserved
    <3>2. {"guest.select", "guest.claim"} \subseteq Labels
      BY DEF Labels
    <3> QED BY <3>1, <3>2, GotoType
  <2>2. /\ target' \in [Procs -> Seats \cup {None}]
        /\ view' \in [Procs -> Rows \cup {Clean}]
    <3>1. UNCHANGED <<target, view>> \/ \E s \in Seats : Select(p, s)
      BY <1>3 DEF GuestFindReserved, Oldest, ReservedFor, SeatsOf
    <3>2. ASSUME NEW s \in Seats, Select(p, s)
          PROVE  /\ target' \in [Procs -> Seats \cup {None}]
                 /\ view' \in [Procs -> Rows \cup {Clean}]
      <4>1. Visible(p, s) \in Rows
        BY VisibleIsRow
      <4> QED BY <3>2, <4>1 DEF Select, TypeOK
    <3>3. CASE UNCHANGED <<target, view>>
      BY <3>3 DEF TypeOK
    <3> QED BY <3>1, <3>2, <3>3
  <2>3. UNCHANGED <<seat, history, facts, writes, journal, call, rest, outcome>>
    BY <1>3 DEF GuestFindReserved, NoWrite, db, txs
  <2>4. TypeOK'
    BY <2>1, <2>2, <2>3 DEF TypeOK
  <2>5. \A q \in Procs : Shape(q)'
    BY <1>3, <2>3, VisibleIsRow
    DEF GuestFindReserved, TypeOK, Shape, Goto, Select, Oldest, ReservedFor, SeatsOf
  <2> QED BY <2>4, <2>5
<1>4. CASE GuestSelect(p) /\ ~\E how \in {"ok", "unavailable", "error"} : Finish(p, how)
  <2>1. PICK s \in Seats :
            /\ pc[p] = "guest.select"
            /\ Select(p, s) /\ Goto(p, "guest.claim")
            /\ NoWrite /\ UNCHANGED <<call, rest, outcome>>
    BY <1>4, CallArguments DEF GuestSelect, Oldest, FreeSeats, SeatsOf, TypeOK
  <2>2. Visible(p, s) \in Rows
    BY VisibleIsRow
  <2>3. TypeOK'
    BY <2>1, <2>2 DEF TypeOK, Goto, Select, NoWrite, db, txs, Labels
  <2>4. \A q \in Procs : Shape(q)'
    BY <2>1, <2>2 DEF TypeOK, Shape, Goto, Select, NoWrite, db, txs
  <2> QED BY <2>3, <2>4
<1>5. CASE GuestClaim(p) /\ ~\E how \in {"ok", "unavailable", "error"} : Finish(p, how)
  <2> DEFINE new == Row("ASSIGNED", call[p].guest, call[p].invitation)
             entry == Entry("ASSIGNED", Wanted(p), call[p].guest)
  <2>1. /\ pc[p] = "guest.claim" /\ Write(p, target[p], new, entry)
        /\ Goto(p, "commit")
        /\ view' = [view EXCEPT ![p] = Clean]
        /\ UNCHANGED <<call, target, rest, outcome>>
    BY <1>5 DEF GuestClaim, Refused
  <2>2. call[p].guest \in Guests /\ call[p].invitation \in Invitations
    BY <2>1 DEF Shape
  <2>3. new \in Rows /\ entry \in Entries
    BY <2>2, RowTypes, EntryTypes DEF Wanted, Holders
  <2>4. TypeOK'
    <3> HIDE DEF new, entry
    <3> QED BY <2>1, <2>3, WriteType DEF TypeOK, db, Goto, Labels
  <2>5. \A q \in Procs : Shape(q)'
    BY <2>1 DEF TypeOK, Shape, Goto
  <2> QED BY <2>4, <2>5
<1> QED BY <1>1, <1>2, <1>3, <1>4, <1>5 DEF AssignSeatToGuest

LEMMA ReserveType ==
    ASSUME TypeInv, NEW p \in Procs, ReserveSeatForInvitation(p)
    PROVE  TypeInv'
<1> USE DEF TypeInv
<1>1. CASE \E how \in {"ok", "unavailable", "error"} : Finish(p, how)
  BY <1>1, FinishType
<1>2. CASE ReserveExisting(p)
  <2>1. /\ pc' \in [Procs -> Labels]
        /\ target' \in [Procs -> Seats \cup {None}]
    <3>1. pc' \in [Procs -> Labels]
      <4>1. Goto(p, "reserve.free") \/ Goto(p, "done")
        BY <1>2 DEF ReserveExisting, Answer
      <4>2. {"reserve.free", "done"} \subseteq Labels
        BY DEF Labels
      <4> QED BY <4>1, <4>2, GotoType
    <3>2. target' \in [Procs -> Seats \cup {None}]
      BY <1>2 DEF ReserveExisting, TypeOK, SeatsOf
    <3> QED BY <3>1, <3>2
  <2>2. /\ call' \in [Procs -> AllCalls \cup {NoCall, CreateCall}]
        /\ outcome' \in [Procs -> {"none", "ok", "unavailable", "error"}]
    BY <1>2 DEF ReserveExisting, Answer, TypeOK
  <2>3. UNCHANGED <<seat, history, facts, writes, journal, view, rest>>
    BY <1>2 DEF ReserveExisting, NoWrite, db, txs
  <2>4. TypeOK'
    BY <2>1, <2>2, <2>3 DEF TypeOK
  <2>5. \A q \in Procs : Shape(q)'
    BY <1>2, <2>3 DEF ReserveExisting, Answer, TypeOK, Shape, Goto
  <2> QED BY <2>4, <2>5
<1>3. CASE ReserveFindFree(p) /\ ~\E how \in {"ok", "unavailable", "error"} : Finish(p, how)
  <2>1. PICK s \in Seats :
            /\ pc[p] = "reserve.free"
            /\ target' = [target EXCEPT ![p] = s] /\ Goto(p, "reserve.claim")
            /\ NoWrite /\ UNCHANGED <<call, view, rest, outcome>>
    BY <1>3 DEF ReserveFindFree, Oldest, FreeSeats, SeatsOf
  <2>2. TypeOK'
    BY <2>1 DEF TypeOK, Goto, NoWrite, db, txs, Labels
  <2>3. \A q \in Procs : Shape(q)'
    BY <2>1 DEF TypeOK, Shape, Goto, NoWrite, db, txs
  <2> QED BY <2>2, <2>3
<1>4. CASE ReserveClaim(p) /\ ~\E how \in {"ok", "unavailable", "error"} : Finish(p, how)
  <2> DEFINE new == Row("RESERVED", None, call[p].invitation)
             entry == Entry("ASSIGNED", Wanted(p), None)
  <2>1. CASE Goto(p, "reserve.retry") /\ NoWrite /\ UNCHANGED <<call, target, view, rest, outcome>>
    BY <1>4, <2>1 DEF ReserveClaim, TypeOK, Shape, Goto, NoWrite, db, txs, Labels
  <2>2. CASE Write(p, target[p], new, entry) /\ Goto(p, "commit")
             /\ UNCHANGED <<call, target, view, rest, outcome>>
    <3>1. call[p].guest = None /\ call[p].invitation \in Invitations
      BY <1>4 DEF ReserveClaim, Shape
    <3>2. new \in Rows /\ entry \in Entries
      BY <3>1, RowTypes, EntryTypes DEF Wanted, Holders
    <3>3. TypeOK'
      <4> HIDE DEF new, entry
      <4> QED BY <2>2, <3>2, WriteType DEF TypeOK, db, Goto, Labels
    <3>4. \A q \in Procs : Shape(q)'
      BY <2>2 DEF TypeOK, Shape, Goto
    <3> QED BY <3>3, <3>4
  <2> QED BY <1>4, <2>1, <2>2 DEF ReserveClaim, Refused
<1>5. CASE ReserveRetry(p) /\ ~\E how \in {"ok", "unavailable", "error"} : Finish(p, how)
  <2>1. PICK s \in Seats :
            /\ target' = [target EXCEPT ![p] = s] /\ Answer(p, "ok")
            /\ NoWrite /\ UNCHANGED <<view, rest>>
    BY <1>5 DEF ReserveRetry, ReservedFor, SeatsOf
  <2>2. pc' \in [Procs -> Labels] /\ target' \in [Procs -> Seats \cup {None}]
    BY <2>1 DEF Answer, TypeOK, Goto, Labels
  <2>3. /\ call' \in [Procs -> AllCalls \cup {NoCall, CreateCall}]
        /\ outcome' \in [Procs -> {"none", "ok", "unavailable", "error"}]
    BY <2>1 DEF Answer, TypeOK
  <2>4. TypeOK'
    BY <2>1, <2>2, <2>3 DEF TypeOK, NoWrite, db, txs
  <2>5. \A q \in Procs : Shape(q)'
    BY <2>1 DEF Answer, TypeOK, Shape, Goto
  <2> QED BY <2>4, <2>5
<1> QED BY <1>1, <1>2, <1>3, <1>4, <1>5 DEF ReserveSeatForInvitation

LEMMA UnassignType ==
    ASSUME TypeInv, NEW p \in Procs, UnassignSeat(p)
    PROVE  TypeInv'
<1> USE DEF TypeInv
<1>1. CASE \E how \in {"ok", "unavailable", "error"} : Finish(p, how)
  BY <1>1, FinishType
<1>2. CASE UnassignRead(p)
  <2>1. Visible(p, target[p]) \in Rows
    BY <1>2, VisibleIsRow DEF UnassignRead, Shape
  <2>2. pc' \in [Procs -> Labels]
    <3>1. Goto(p, "unassign.update") \/ Goto(p, "unassign.next")
      BY <1>2 DEF UnassignRead
    <3>2. {"unassign.update", "unassign.next"} \subseteq Labels
      BY DEF Labels
    <3> QED BY <3>1, <3>2, GotoType
  <2>3. target' \in [Procs -> Seats \cup {None}] /\ view' \in [Procs -> Rows \cup {Clean}]
    BY <1>2, <2>1 DEF UnassignRead, TypeOK, Select
  <2>4. UNCHANGED <<seat, history, facts, writes, journal, call, rest, outcome>>
    BY <1>2 DEF UnassignRead, NoWrite, db, txs
  <2>5. TypeOK'
    BY <2>2, <2>3, <2>4 DEF TypeOK
  <2>6. \A q \in Procs : Shape(q)'
    BY <1>2, <2>1, <2>4 DEF UnassignRead, TypeOK, Shape, Goto, Select
  <2> QED BY <2>5, <2>6
<1>3. CASE UnassignUpdate(p) /\ ~\E how \in {"ok", "unavailable", "error"} : Finish(p, how)
  <2> DEFINE entry == Entry("UNASSIGNED", view[p], Subject(view[p]))
  <2>1. /\ pc[p] = "unassign.update" /\ Write(p, target[p], FreeRow, entry)
        /\ Goto(p, "commit")
        /\ view' = [view EXCEPT ![p] = Clean]
        /\ UNCHANGED <<call, target, rest, outcome>>
    BY <1>3 DEF UnassignUpdate
  <2>2. entry \in Entries
    BY <2>1, EntryTypes DEF Shape
  <2>3. TypeOK'
    <3> HIDE DEF entry
    <3> QED BY <2>1, <2>2, WriteType, RowTypes DEF TypeOK, db, Goto, Labels
  <2>4. \A q \in Procs : Shape(q)'
    BY <2>1 DEF TypeOK, Shape, Goto
  <2> QED BY <2>3, <2>4
<1>4. CASE UnassignFindSeats(p)
  BY <1>4 DEF UnassignFindSeats, TypeOK, Shape, Goto, NoWrite, db, txs, Labels
<1>5. CASE UnassignNext(p) /\ ~\E how \in {"ok", "unavailable", "error"} : Finish(p, how)
  <2>1. PICK s \in Seats :
            /\ rest' = [rest EXCEPT ![p][s] = Clean]
            /\ target' = [target EXCEPT ![p] = s] /\ Goto(p, "unassign.read")
            /\ NoWrite /\ UNCHANGED <<call, view, outcome>>
    BY <1>5 DEF UnassignNext
  <2>2. TypeOK'
    BY <2>1 DEF TypeOK, Goto, NoWrite, db, txs, Labels
  <2>3. \A q \in Procs : Shape(q)'
    BY <2>1 DEF TypeOK, Shape, Goto, NoWrite, db, txs
  <2> QED BY <2>2, <2>3
<1> QED BY <1>1, <1>2, <1>3, <1>4, <1>5 DEF UnassignSeat

LEMMA CommitType ==
    ASSUME TypeInv, NEW p \in Procs, Commit(p)
    PROVE  TypeInv'
<1> USE DEF TypeInv
<1>1. seat' \in [Seats -> Rows]
  BY VisibleIsRow DEF Commit
<1>2. history' \in [Seats -> Holders]
  BY RowTypes DEF Commit, TypeOK
<1>3. facts' \in [Seats -> Guests \cup Invitations \cup {None}]
  BY DEF Commit, TypeOK, Entries
<1>4. /\ writes' \in [Procs -> [Seats -> Rows \cup {Clean}]]
      /\ journal' \in [Procs -> [Seats -> Entries \cup {Clean}]]
  BY NoWritesType DEF Commit, TypeOK
<1>5. /\ pc' \in [Procs -> Labels]
      /\ call' \in [Procs -> AllCalls \cup {NoCall, CreateCall}]
      /\ outcome' \in [Procs -> {"none", "ok", "unavailable", "error"}]
  BY DEF Commit, Answer, Goto, TypeOK, Labels
<1>6. UNCHANGED <<target, view, rest>>
  BY DEF Commit
<1>7. TypeOK'
  BY <1>1, <1>2, <1>3, <1>4, <1>5, <1>6 DEF TypeOK
<1>8. pc' = [pc EXCEPT ![p] = "done"] \/ pc' = [pc EXCEPT ![p] = "logChange"]
  BY DEF Commit, Answer, Goto
<1>9. \A q \in Procs : q # p => call'[q] = call[q]
  BY DEF Commit, Answer, TypeOK
<1>10. \A q \in Procs : Shape(q)'
  BY <1>6, <1>8, <1>9 DEF TypeOK, Shape
<1> QED BY <1>7, <1>10

\* A row is inserted without a holder, and is a seat at once.
LEMMA InsertedRowFacts ==
    \A s \in Seats : /\ InsertedRow(s) \in Rows /\ Exists(InsertedRow(s))
                     /\ Unheld(InsertedRow(s)) /\ InsertedRow(s).status = InsertedAs[s]
BY SeatAssumption DEF InsertedRow, Row, Rows, RowStatus, Exists, SeatStatus, Unheld, HolderOf, Nobody

\* Every step keeps the types.
LEMMA TypeStep ==
    ASSUME TypeInv, [Next]_vars
    PROVE  TypeInv'
<1> USE DEF TypeInv
<1>1. CASE UNCHANGED vars
  BY <1>1 DEF TypeOK, Shape, vars, db, txs, proc
<1>2. ASSUME NEW p \in Procs, CreateSeat(p)
      PROVE  TypeInv'
  <2>1. TypeOK'
    BY <1>2, RowTypes DEF CreateSeat, TypeOK, Goto, txs, Labels, Oldest
  <2>2. \A q \in Procs : Shape(q)'
    BY <1>2 DEF CreateSeat, TypeOK, Shape, Goto, txs, Oldest
  <2> QED BY <2>1, <2>2
<1>3. ASSUME NEW p \in Procs, Abort(p)
      PROVE  TypeInv'
  BY <1>3, FinishType DEF Abort
<1>4. ASSUME NEW p \in Procs, DeleteRead(p) \/ DeleteRow(p)
      PROVE  TypeInv'
  <2>1. CASE \E how \in {"ok", "unavailable", "error"} : Finish(p, how)
    BY <2>1, FinishType
  <2>2. CASE DeleteRead(p) /\ ~\E how \in {"ok", "unavailable", "error"} : Finish(p, how)
    <3>1. TypeOK'
      BY <2>2 DEF DeleteRead, TypeOK, Goto, NoWrite, db, txs, Labels
    <3>2. \A q \in Procs : Shape(q)'
      BY <2>2 DEF DeleteRead, TypeOK, Shape, Goto, NoWrite, db, txs
    <3> QED BY <3>1, <3>2
  <2>3. CASE DeleteRow(p) /\ ~\E how \in {"ok", "unavailable", "error"} : Finish(p, how)
    <3>1. TypeOK'
      <4>1. /\ seat' = [seat EXCEPT ![target[p]] = DeletedRow]
            /\ Goto(p, "logChange")
            /\ UNCHANGED <<history, facts, txs, call, target, view, rest, outcome>>
        BY <2>3 DEF DeleteRow
      <4> QED BY <4>1, RowTypes DEF TypeOK, Goto, txs, Labels
    <3>2. \A q \in Procs : Shape(q)'
      BY <2>3 DEF DeleteRow, TypeOK, Shape, Goto, txs
    <3> QED BY <3>1, <3>2
  <2> QED BY <1>4, <2>1, <2>2, <2>3
<1>5. ASSUME NEW p \in Procs, LogChange(p)
      PROVE  TypeInv'
  <2>1. CASE \E how \in {"ok", "unavailable", "error"} : Finish(p, how)
    BY <2>1, FinishType
  <2>2. CASE /\ Goto(p, "unassign.next")
             /\ NoWrite /\ UNCHANGED <<call, target, view, rest, outcome>>
    <3>1. TypeOK'
      <4>1. "unassign.next" \in Labels
        BY DEF Labels
      <4>2. pc' \in [Procs -> Labels]
        BY <2>2, <4>1, GotoType
      <4> QED BY <2>2, <4>2 DEF TypeOK, NoWrite, db, txs
    <3>2. \A q \in Procs : Shape(q)'
      BY <2>2 DEF TypeOK, Shape, Goto
    <3> QED BY <3>1, <3>2
  <2> QED BY <1>5, <2>1, <2>2 DEF LogChange
<1>6. ASSUME NEW p \in Procs, Return(p)
      PROVE  TypeInv'
  BY <1>6 DEF Return, TypeOK, Shape, Goto, NoWrite, db, txs, Labels
<1>7. ASSUME NEW s \in Seats, InsertSeat(s)
      PROVE  TypeInv'
  BY <1>7, InsertedRowFacts DEF InsertSeat, TypeOK, Shape, txs, proc
<1> QED
  BY <1>1, <1>2, <1>3, <1>4, <1>5, <1>6, <1>7, BeginType, AssignSeatType, AssignSeatToGuestType,
     ReserveType, UnassignType, CommitType DEF Next, Step

LEMMA TypeInit == Init => TypeInv
<1> SUFFICES ASSUME Init PROVE TypeInv
  OBVIOUS
<1>1. seat \in [Seats -> Rows]
  BY InsertedRowFacts DEF Init, Row, Rows, RowStatus
<1>2. TypeOK
  BY <1>1, NoWritesType, RowTypes DEF Init, TypeOK, Labels
<1>3. \A p \in Procs : Shape(p)
  BY DEF Init, Shape
<1> QED BY <1>2, <1>3 DEF TypeInv

\* Whatever the interleaving, every row, transaction and local variable has its type.
THEOREM TypeCorrect == Spec => []TypeOK
<1>1. Spec => []TypeInv
  BY TypeInit, TypeStep, PTL DEF Spec
<1>2. TypeInv => TypeOK
  BY DEF TypeInv
<1> QED BY <1>1, <1>2, PTL

-----------------------------------------------------------------------------
(* What a process knows at its statements *)

\* Before the claim a transaction has only released other seats than its target, each
\* once, and nothing outside assignSeat; a release was decided on a row with a holder.
Local(p) ==
    /\ pc[p] \notin {"assign.free", "assign.claim", "assign.log", "commit"}
           => writes[p] = NoWrites
    /\ pc[p] \in {"assign.free", "assign.claim"}
           => \A s \in Seats : writes[p][s] # Clean => s # target[p] /\ Unheld(writes[p][s])
    /\ pc[p] = "assign.free"
           => \A s \in Seats : rest[p][s] # Clean =>
                  s # target[p] /\ writes[p][s] = Clean /\ ~Unheld(rest[p][s])
    /\ pc[p] \in {"assign.conflicts", "assign.free"} => HasAssignment(p)
    /\ pc[p] = "assign.claim" /\ ~HasAssignment(p) => ~Unheld(view[p])
    /\ pc[p] = "unassign.update" => ~Unheld(view[p])

LocalInv == \A p \in Procs : Local(p)

LEMMA HolderFacts ==
    /\ \A h \in Holders : h # Nobody <=> (h.guest # None \/ h.invitation # None)
    /\ \A r \in Rows : Unheld(r) <=> (r.guest = None /\ r.invitation = None)
    /\ \A h \in Holders : h # Nobody => Subject(h) # None
    /\ \A r \in Rows : ~Unheld(r) => Subject(r) # None
    /\ \A r \in Rows : Subject(r) = Subject(HolderOf(r))
BY DEF Holders, Nobody, Unheld, HolderOf, Rows, Subject

\* A release writes a row that nobody holds.
LEMMA FreeRowFacts ==
    /\ FreeRow \in Rows /\ Unheld(FreeRow) /\ Exists(FreeRow)
    /\ DeletedRow \in Rows /\ Unheld(DeletedRow) /\ ~Exists(DeletedRow)
    /\ \A s \in Seats : RowOK(s, FreeRow) /\ RowOK(s, DeletedRow)
    /\ FreeRow.status = "AVAILABLE" /\ DeletedRow.status = "DELETED"
BY RowTypes
   DEF FreeRow, DeletedRow, Row, Unheld, HolderOf, Nobody, RowOK, Exists, SeatStatus

\* An unwritten row is read as it is committed.
LEMMA NoWritesVisible ==
    ASSUME NEW p \in Procs, writes[p] = NoWrites, NEW s \in Seats
    PROVE  Visible(p, s) = seat[s]
BY DEF NoWrites, Visible

LEMMA FinishLocal ==
    ASSUME TypeInv, LocalInv, NEW p \in Procs, NEW how, Finish(p, how)
    PROVE  LocalInv'
BY DEF TypeInv, TypeOK, LocalInv, Local, Finish, Answer, Goto, HasAssignment, Wanted

\* A read of process p that leads to a statement about which Local says nothing more.
LEMMA ReadLocal ==
    ASSUME TypeInv, LocalInv, NEW p \in Procs, writes[p] = NoWrites, NoWrite,
           NEW label \in Labels \ {"assign.conflicts", "assign.free", "assign.claim",
                                   "assign.log", "unassign.update", "commit"},
           Goto(p, label),
           \A q \in Procs \ {p} : /\ call'[q] = call[q] /\ target'[q] = target[q]
                                  /\ view'[q] = view[q] /\ rest'[q] = rest[q]
    PROVE  LocalInv'
<1>1. Local(p)'
  BY DEF TypeInv, TypeOK, Local, Goto, NoWrite, txs
<1>2. ASSUME NEW q \in Procs, q # p
      PROVE  Local(q)'
  BY <1>2 DEF TypeInv, TypeOK, LocalInv, Local, Goto, NoWrite, txs, HasAssignment, Wanted
<1> QED BY <1>1, <1>2 DEF LocalInv

LEMMA AssignSeatLocal ==
    ASSUME TypeInv, LocalInv, NEW p \in Procs, AssignSeat(p)
    PROVE  LocalInv'
<1> USE DEF TypeInv, LocalInv
<1>1. CASE \E how : Finish(p, how)
  BY <1>1, FinishLocal
<1>2. CASE AssignRead(p) /\ ~\E how : Finish(p, how)
  <2> DEFINE s == call[p].seat
  <2>1. /\ s \in Seats /\ Select(p, s)
        /\ HasAssignment(p) \/ ~Unheld(seat[s])
        /\ Goto(p, IF HasAssignment(p) THEN "assign.conflicts" ELSE "assign.claim")
        /\ UNCHANGED <<writes, call, rest>>
    BY <1>2 DEF AssignRead, Shape, NoWrite, txs
  <2>2. writes[p] = NoWrites /\ Visible(p, s) = seat[s]
    BY <1>2, <2>1, NoWritesVisible DEF AssignRead, Local
  <2>3. Local(p)'
    BY <2>1, <2>2 DEF Local, TypeOK, Goto, Select, HasAssignment, Wanted, NoWrites
  <2>4. ASSUME NEW q \in Procs, q # p
        PROVE  Local(q)'
    BY <2>1, <2>4 DEF Local, TypeOK, Goto, Select, HasAssignment, Wanted
  <2> QED BY <2>3, <2>4
<1>3. CASE AssignFindConflicts(p)
  <2>1. \A t \in Seats : Clash(Wanted(p), Visible(p, t)) => ~Unheld(Visible(p, t))
    BY DEF Clash, Unheld, HolderOf, Nobody
  <2>2. Local(p)'
    <3>1. /\ pc'[p] = "assign.free" /\ HasAssignment(p)
          /\ writes[p] = NoWrites /\ UNCHANGED <<writes, call, target>>
      <4>1. /\ pc[p] = "assign.conflicts" /\ Goto(p, "assign.free")
            /\ UNCHANGED <<writes, call, target>>
        BY <1>3 DEF AssignFindConflicts, NoWrite, txs
      <4>2. HasAssignment(p) /\ writes[p] = NoWrites
        BY <4>1 DEF Local
      <4> QED BY <4>1, <4>2 DEF Goto, TypeOK
    <3>2. \A t \in Seats : rest'[p][t] =
              IF t \in Siblings(target[p]) /\ Clash(Wanted(p), Visible(p, t))
              THEN Visible(p, t) ELSE Clean
      BY <1>3 DEF AssignFindConflicts, TypeOK
    <3>3. \A t \in Seats : rest'[p][t] # Clean =>
              t # target[p] /\ writes[p][t] = Clean /\ ~Unheld(rest'[p][t])
      <4> TAKE t \in Seats
      <4> HAVE rest'[p][t] # Clean
      <4>1. t \in Siblings(target[p]) /\ Clash(Wanted(p), Visible(p, t))
            /\ rest'[p][t] = Visible(p, t)
        BY <3>2
      <4> HIDE DEF Visible, Clash, Unheld
      <4> QED BY <2>1, <3>1, <4>1 DEF Siblings, NoWrites
    <3> QED BY <3>1, <3>3 DEF Local, HasAssignment, Wanted, NoWrites
  <2>3. ASSUME NEW q \in Procs, q # p
        PROVE  Local(q)'
    BY <1>3, <2>3
    DEF AssignFindConflicts, Local, TypeOK, Goto, NoWrite, txs, HasAssignment, Wanted
  <2> QED BY <2>2, <2>3
<1>4. CASE AssignFree(p) /\ ~\E how : Finish(p, how)
  <2>1. CASE Goto(p, "assign.claim") /\ NoWrite /\ UNCHANGED <<call, target, view, rest, outcome>>
    BY <1>4, <2>1 DEF AssignFree, Local, TypeOK, Goto, NoWrite, txs, HasAssignment, Wanted
  <2>2. ASSUME NEW t \in Seats, rest[p][t] # Clean, pc[p] = "assign.free",
               writes' = [writes EXCEPT ![p][t] = FreeRow],
               rest' = [rest EXCEPT ![p][t] = Clean],
               UNCHANGED <<pc, call, target, view, outcome>>
        PROVE  LocalInv'
    <3>1. Local(p)'
      BY <2>2, FreeRowFacts DEF Local, TypeOK, HasAssignment, Wanted
    <3>2. ASSUME NEW q \in Procs, q # p
          PROVE  Local(q)'
      BY <2>2, <3>2 DEF Local, TypeOK, HasAssignment, Wanted
    <3> QED BY <3>1, <3>2
  <2> QED BY <1>4, <2>1, <2>2 DEF AssignFree, Write
<1>5. CASE AssignClaim(p) /\ ~\E how : Finish(p, how)
  <2>1. PICK s, new :
            /\ s \in Seats
            /\ writes' = [writes EXCEPT ![p][s] = new]
            /\ Goto(p, "assign.log")
            /\ view' = [view EXCEPT ![p] = Clean]
            /\ UNCHANGED <<call, target, rest, outcome>>
    BY <1>5 DEF AssignClaim, Refused, Write, Shape
  <2> QED BY <2>1 DEF Local, TypeOK, Goto, HasAssignment, Wanted
<1>6. CASE AssignLogChange(p)
  BY <1>6 DEF AssignLogChange, Local, TypeOK, Goto, NoWrite, txs, HasAssignment, Wanted
<1> QED BY <1>1, <1>2, <1>3, <1>4, <1>5, <1>6 DEF AssignSeat, AssignRejected

LEMMA AssignSeatToGuestLocal ==
    ASSUME TypeInv, LocalInv, NEW p \in Procs, AssignSeatToGuest(p)
    PROVE  LocalInv'
<1> USE DEF TypeInv, LocalInv
<1>1. CASE \E how : Finish(p, how)
  BY <1>1, FinishLocal
<1>2. CASE GuestExisting(p) \/ GuestFindReserved(p)
  BY <1>2
  DEF GuestExisting, GuestFindReserved, Select, Local, TypeOK, Goto, NoWrite, txs,
      HasAssignment, Wanted
<1>3. CASE GuestSelect(p) /\ ~\E how : Finish(p, how)
  <2>1. PICK s : Select(p, s) /\ Goto(p, "guest.claim") /\ NoWrite /\ UNCHANGED <<call, rest, outcome>>
    BY <1>3 DEF GuestSelect
  <2>2. writes[p] = NoWrites
    BY <1>3 DEF GuestSelect, Local
  <2> QED BY <2>1, <2>2, ReadLocal DEF Select, TypeOK, Labels
<1>4. CASE GuestClaim(p) /\ ~\E how : Finish(p, how)
  <2>1. PICK s, new :
            /\ s \in Seats
            /\ writes' = [writes EXCEPT ![p][s] = new]
            /\ Goto(p, "commit")
            /\ view' = [view EXCEPT ![p] = Clean]
            /\ UNCHANGED <<call, target, rest, outcome>>
    BY <1>4 DEF GuestClaim, Refused, Write, Shape
  <2> QED BY <2>1 DEF Local, TypeOK, Goto, HasAssignment, Wanted
<1> QED BY <1>1, <1>2, <1>3, <1>4 DEF AssignSeatToGuest

LEMMA ReserveLocal ==
    ASSUME TypeInv, LocalInv, NEW p \in Procs, ReserveSeatForInvitation(p)
    PROVE  LocalInv'
<1> USE DEF TypeInv, LocalInv
<1>1. CASE \E how : Finish(p, how)
  BY <1>1, FinishLocal
<1>2. CASE ReserveExisting(p)
  <2>1. PICK label \in {"reserve.free", "done"} : Goto(p, label)
    BY <1>2 DEF ReserveExisting, Answer
  <2>2. writes[p] = NoWrites /\ NoWrite
    BY <1>2 DEF ReserveExisting, Local
  <2>3. \A q \in Procs \ {p} : /\ call'[q] = call[q] /\ target'[q] = target[q]
                                 /\ view'[q] = view[q] /\ rest'[q] = rest[q]
    BY <1>2 DEF ReserveExisting, Answer, TypeOK
  <2> QED BY <2>1, <2>2, <2>3, ReadLocal DEF Labels
<1>3. CASE (ReserveFindFree(p) \/ ReserveRetry(p)) /\ ~\E how : Finish(p, how)
  <2>1. PICK label \in {"reserve.claim", "done"} : Goto(p, label)
    BY <1>3 DEF ReserveFindFree, ReserveRetry, Answer
  <2>2. writes[p] = NoWrites /\ NoWrite
    BY <1>3 DEF ReserveFindFree, ReserveRetry, Local
  <2>3. \A q \in Procs \ {p} : /\ call'[q] = call[q] /\ target'[q] = target[q]
                                 /\ view'[q] = view[q] /\ rest'[q] = rest[q]
    BY <1>3 DEF ReserveFindFree, ReserveRetry, Answer, TypeOK
  <2> QED BY <2>1, <2>2, <2>3, ReadLocal DEF Labels
<1>4. CASE ReserveClaim(p) /\ ~\E how : Finish(p, how)
  <2>1. CASE Goto(p, "reserve.retry") /\ NoWrite /\ UNCHANGED <<call, target, view, rest, outcome>>
    BY <1>4, <2>1 DEF ReserveClaim, Local, TypeOK, Goto, NoWrite, txs, HasAssignment, Wanted
  <2>2. ASSUME NEW s \in Seats, NEW new,
               writes' = [writes EXCEPT ![p][s] = new],
               Goto(p, "commit"),
               UNCHANGED <<call, target, view, rest, outcome>>
        PROVE  LocalInv'
    BY <2>2 DEF Local, TypeOK, Goto, HasAssignment, Wanted
  <2> QED BY <1>4, <2>1, <2>2 DEF ReserveClaim, Refused, Write, Shape
<1> QED BY <1>1, <1>2, <1>3, <1>4 DEF ReserveSeatForInvitation

LEMMA UnassignLocal ==
    ASSUME TypeInv, LocalInv, NEW p \in Procs, UnassignSeat(p)
    PROVE  LocalInv'
<1> USE DEF TypeInv, LocalInv
<1>1. CASE \E how : Finish(p, how)
  BY <1>1, FinishLocal
<1>2. CASE UnassignRead(p)
  <2>1. target[p] \in Seats /\ Visible(p, target[p]) = seat[target[p]]
    BY <1>2, NoWritesVisible DEF UnassignRead, Local, Shape
  <2>2. writes[p] = NoWrites /\ NoWrite /\ UNCHANGED <<call, rest>>
    BY <1>2 DEF UnassignRead, Local
  <2>3. CASE Goto(p, "unassign.next") /\ UNCHANGED <<target, view>>
    BY <2>2, <2>3, ReadLocal DEF Labels
  <2>4. CASE /\ ~Unheld(seat[target[p]])
             /\ Goto(p, "unassign.update") /\ Select(p, target[p])
    <3>1. Local(p)'
      BY <2>1, <2>2, <2>4 DEF Local, TypeOK, Goto, Select, NoWrite, txs
    <3>2. ASSUME NEW q \in Procs, q # p
          PROVE  Local(q)'
      BY <2>2, <2>4, <3>2 DEF Local, TypeOK, Goto, Select, NoWrite, txs, HasAssignment, Wanted
    <3> QED BY <3>1, <3>2
  <2> QED BY <1>2, <2>3, <2>4 DEF UnassignRead
<1>3. CASE UnassignUpdate(p) /\ ~\E how : Finish(p, how)
  <2>1. PICK s, new :
            /\ s \in Seats
            /\ writes' = [writes EXCEPT ![p][s] = new]
            /\ Goto(p, "commit")
            /\ view' = [view EXCEPT ![p] = Clean]
            /\ UNCHANGED <<call, target, rest, outcome>>
    BY <1>3 DEF UnassignUpdate, Write, Shape
  <2> QED BY <2>1 DEF Local, TypeOK, Goto, HasAssignment, Wanted
<1>4. CASE (UnassignFindSeats(p) \/ UnassignNext(p)) /\ ~\E how : Finish(p, how)
  BY <1>4
  DEF UnassignFindSeats, UnassignNext, Local, TypeOK, Goto, NoWrite, txs, HasAssignment, Wanted
<1> QED BY <1>1, <1>2, <1>3, <1>4 DEF UnassignSeat

LEMMA CommitLocal ==
    ASSUME TypeInv, LocalInv, NEW p \in Procs, Commit(p)
    PROVE  LocalInv'
<1> USE DEF TypeInv, LocalInv
<1>1. /\ writes' = [writes EXCEPT ![p] = NoWrites]
      /\ Goto(p, "done") \/ Goto(p, "logChange")
      /\ \A q \in Procs \ {p} : call'[q] = call[q]
      /\ UNCHANGED <<target, view, rest>>
  BY DEF Commit, Answer, TypeOK
<1>2. Local(p)'
  BY <1>1 DEF Local, TypeOK, Goto
<1>3. ASSUME NEW q \in Procs, q # p
      PROVE  Local(q)'
  BY <1>1, <1>3 DEF Local, TypeOK, Goto, HasAssignment, Wanted
<1> QED BY <1>2, <1>3

LEMMA LocalStep ==
    ASSUME TypeInv, LocalInv, [Next]_vars
    PROVE  LocalInv'
<1> USE DEF TypeInv, LocalInv
<1>1. CASE UNCHANGED vars
  BY <1>1 DEF Local, vars, db, txs, proc, HasAssignment, Wanted
<1>2. ASSUME NEW p \in Procs, Begin(p)
      PROVE  LocalInv'
  <2>1. PICK c \in AllCalls :
            /\ call' = [call EXCEPT ![p] = c]
            /\ target' = [target EXCEPT ![p] =
                   IF c.op \in {"unassignSeat", "deleteSeat"} THEN c.seat ELSE None]
            /\ Goto(p, First(c.op))
            /\ NoWrite /\ UNCHANGED <<view, rest, outcome>>
            /\ pc[p] = "idle"
    BY <1>2 DEF Begin
  <2>2. First(c.op) \in {"assign.read", "unassign.read", "delete.read", "guest.existing",
                          "reserve.existing", "unassign.find"}
    BY DEF First
  <2>3. Local(p)'
    <3>1. /\ writes[p] = NoWrites /\ writes' = writes
          /\ pc'[p] \in {"assign.read", "unassign.read", "delete.read", "guest.existing",
                          "reserve.existing", "unassign.find"}
      <4>1. writes[p] = NoWrites /\ writes' = writes
        BY <2>1 DEF Local, NoWrite, txs
      <4>2. pc'[p] = First(c.op)
        BY <2>1 DEF TypeOK, Goto
      <4> QED BY <2>2, <4>1, <4>2
    <3> QED BY <3>1 DEF Local
  <2>4. ASSUME NEW q \in Procs, q # p
        PROVE  Local(q)'
    BY <2>1, <2>4 DEF Local, TypeOK, Goto, NoWrite, txs, HasAssignment, Wanted
  <2> QED BY <2>3, <2>4
<1>3. ASSUME NEW p \in Procs, CreateSeat(p)
      PROVE  LocalInv'
  BY <1>3 DEF CreateSeat, Local, TypeOK, Goto, txs, HasAssignment, Wanted
<1>4. ASSUME NEW p \in Procs, Abort(p)
      PROVE  LocalInv'
  BY <1>4, FinishLocal DEF Abort
<1>5. ASSUME NEW p \in Procs, DeleteRead(p) \/ DeleteRow(p) \/ LogChange(p) \/ Return(p)
      PROVE  LocalInv'
  <2>1. CASE \E how : Finish(p, how)
    BY <2>1, FinishLocal
  <2>2. CASE ~\E how : Finish(p, how)
    BY <1>5, <2>2
    DEF DeleteRead, DeleteRow, LogChange, Return, Local, TypeOK, Goto, NoWrite, txs,
        HasAssignment, Wanted
  <2> QED BY <2>1, <2>2
<1>6. ASSUME NEW s \in Seats, InsertSeat(s)
      PROVE  LocalInv'
  BY <1>6 DEF InsertSeat, Local, txs, proc, HasAssignment, Wanted
<1> QED
  BY <1>1, <1>2, <1>3, <1>4, <1>5, <1>6, AssignSeatLocal, AssignSeatToGuestLocal, ReserveLocal,
     UnassignLocal, CommitLocal DEF Next, Step

-----------------------------------------------------------------------------
(* What a step does to the database *)

\* Entry e tells what happens when row old becomes row r: a release, or a grant that
\* names the new holder, with the fact of the assignment unless it is a reservation.
Faithful(e, r, old) ==
    \/ e.action = "UNASSIGNED" /\ Unheld(r) /\ e.subject # None
    \/ /\ e.action = "ASSIGNED" /\ HolderOf(e) = HolderOf(r) /\ ~Unheld(r)
       /\ Ledger!MaySucceed(HolderOf(old), HolderOf(r))
       /\ \/ r.status = "ASSIGNED" /\ e.subject = Subject(HolderOf(r)) /\ e.subject # None
          \/ r.status # "ASSIGNED" /\ e.subject = None /\ IsFree(old)

\* A write that is journalled faithfully, hits an unwritten row and, when it grants the
\* seat, is the only grant of its transaction.
GoodWrite(p, s, r, e) ==
    /\ Write(p, s, r, e)
    /\ writes[p][s] = Clean /\ Exists(seat[s])
    /\ Exists(r) /\ RowOK(s, r)
    /\ Faithful(e, r, seat[s])
    /\ Unheld(r) \/ \A t \in Seats : writes[p][t] = Clean \/ Unheld(writes[p][t])

\* The open transaction of p is dropped.
Rollback(p) ==
    /\ writes' = [writes EXCEPT ![p] = NoWrites]
    /\ journal' = [journal EXCEPT ![p] = NoWrites]
    /\ UNCHANGED db

\* An INSERT or a DELETE outside transactions puts a row without holder in place of row
\* s, which no open transaction has written.
Vacate(s, r) ==
    /\ seat' = [seat EXCEPT ![s] = r]
    /\ \/ r \in {FreeRow, InsertedRow(s)} /\ seat[s].status = "UNBORN"
       \/ r = DeletedRow /\ \A p \in Procs : writes[p][s] = Clean
    /\ UNCHANGED <<history, facts, txs>>

StepKind ==
    \/ UNCHANGED <<db, txs>>
    \/ \E p \in Procs : \/ Rollback(p)
                        \/ Commit(p)
                        \/ \E s \in Seats, r \in Rows, e \in Entries : GoodWrite(p, s, r, e)
    \/ \E s \in Seats, r \in Rows : Vacate(s, r)

LEMMA FinishKind ==
    ASSUME NEW p \in Procs, NEW how, Finish(p, how)
    PROVE  StepKind
BY DEF Finish, Rollback, StepKind

LEMMA NoWriteKind ==
    ASSUME NoWrite
    PROVE  StepKind
BY DEF NoWrite, StepKind

\* A free seat, a seat of the same holder and one kept for the guest's invitation exist
\* and may be taken.
LEMMA Takeable ==
    ASSUME StatusMatchesHolder, NEW s \in Seats, seat[s] \in Rows, NEW h \in Holders,
           h # Nobody,
           \/ IsFree(seat[s])
           \/ HolderOf(seat[s]) = h
           \/ seat[s].invitation = h.invitation /\ seat[s].guest = None /\ h.invitation # None
    PROVE  Exists(seat[s]) /\ Ledger!MaySucceed(HolderOf(seat[s]), h)
<1>1. Exists(seat[s])
  <2>1. CASE IsFree(seat[s])
    BY <2>1 DEF IsFree, Exists, SeatStatus
  <2>2. CASE ~Unheld(seat[s])
    <3>1. RowOK(s, seat[s])
      BY DEF StatusMatchesHolder
    <3>2. seat[s].status \in {"ASSIGNED", "RESERVED"}
      BY <2>2, <3>1 DEF RowOK
    <3> QED BY <3>2 DEF Exists, SeatStatus
  <2> QED BY <2>1, <2>2, HolderFacts DEF Unheld, HolderOf, Nobody
<1>2. Ledger!MaySucceed(HolderOf(seat[s]), h)
  BY HolderFacts DEF Ledger!MaySucceed, IsFree, Unheld, HolderOf, Nobody, Ledger!Nobody
<1> QED BY <1>1, <1>2

\* A claim that makes h the holder of s is a good write.
LEMMA ClaimKind ==
    ASSUME TypeOK, StatusMatchesHolder, NEW p \in Procs, NEW s \in Seats, NEW h \in Holders,
           h # Nobody, NEW status \in {"ASSIGNED", "RESERVED"}, NEW e \in Entries,
           Write(p, s, Row(status, h.guest, h.invitation), e),
           \A t \in Seats : writes[p][t] # Clean => t # s /\ Unheld(writes[p][t]),
           \/ IsFree(seat[s])
           \/ HolderOf(seat[s]) = h
           \/ seat[s].invitation = h.invitation /\ seat[s].guest = None /\ h.invitation # None,
           e.action = "ASSIGNED" /\ HolderOf(e) = h,
           \/ status = "ASSIGNED" /\ e.subject = Subject(h)
           \/ status = "RESERVED" /\ e.subject = None /\ h.guest = None /\ IsFree(seat[s])
    PROVE  StepKind
<1> DEFINE r == Row(status, h.guest, h.invitation)
<1>1. r \in Rows
  BY RowTypes DEF Holders
<1>2. HolderOf(r) = h /\ r.status = status /\ Exists(r)
  BY DEF Row, HolderOf, Holders, Exists, SeatStatus
<1>3. ~Unheld(r)
  BY <1>2 DEF Unheld
<1>4. RowOK(s, r)
  BY <1>2, <1>3, HolderFacts DEF RowOK, HolderOf
<1>5. seat[s] \in Rows /\ writes[p][s] = Clean
  BY DEF TypeOK
<1>6. Exists(seat[s]) /\ Ledger!MaySucceed(HolderOf(seat[s]), h)
  BY <1>5, Takeable
<1>7. Faithful(e, r, seat[s])
  BY <1>2, <1>3, <1>6, HolderFacts DEF Faithful
<1>8. GoodWrite(p, s, r, e)
  BY <1>2, <1>4, <1>5, <1>6, <1>7 DEF GoodWrite
<1> QED BY <1>1, <1>8 DEF StepKind

\* A release of s by its id is a good write.
LEMMA ReleaseKind ==
    ASSUME TypeOK, NEW p \in Procs, NEW s \in Seats, NEW old \in Rows, ~Unheld(old),
           Exists(seat[s]), writes[p][s] = Clean,
           Write(p, s, FreeRow, Entry("UNASSIGNED", old, Subject(old)))
    PROVE  StepKind
<1> DEFINE e == Entry("UNASSIGNED", old, Subject(old))
<1>1. e \in Entries
  BY EntryTypes
<1>2. e.action = "UNASSIGNED" /\ e.subject # None
  BY HolderFacts DEF Entry
<1>3. GoodWrite(p, s, FreeRow, e)
  BY <1>2, FreeRowFacts DEF GoodWrite, Faithful
<1> QED BY <1>1, <1>3, FreeRowFacts DEF StepKind

LEMMA AssignSeatKind ==
    ASSUME TypeInv, LocalInv, StatusMatchesHolder, NEW p \in Procs, AssignSeat(p)
    PROVE  StepKind
<1> USE DEF TypeInv, LocalInv
<1>1. CASE \E how : Finish(p, how)
  BY <1>1, FinishKind
<1>2. CASE NoWrite
  BY <1>2, NoWriteKind
<1>3. CASE AssignFree(p) /\ ~(\E how : Finish(p, how)) /\ ~NoWrite
  <2>1. PICK t \in Seats :
            /\ rest[p][t] # Clean /\ Exists(seat[t]) /\ pc[p] = "assign.free"
            /\ Write(p, t, FreeRow, Entry("UNASSIGNED", rest[p][t], Subject(rest[p][t])))
    BY <1>3 DEF AssignFree
  <2>2. rest[p][t] \in Rows /\ ~Unheld(rest[p][t]) /\ writes[p][t] = Clean
    BY <2>1 DEF TypeOK, Local
  <2> QED BY <2>1, <2>2, ReleaseKind
<1>4. CASE AssignClaim(p) /\ (~\E how : Finish(p, how)) /\ ~NoWrite
  <2> DEFINE s == target[p]
             h == Wanted(p)
  <2>1. /\ pc[p] = "assign.claim" /\ AssignMatches(p, Visible(p, s))
        /\ Write(p, s, IF HasAssignment(p) THEN Row("ASSIGNED", h.guest, h.invitation) ELSE FreeRow,
                 IF HasAssignment(p) THEN Entry("ASSIGNED", h, Subject(h))
                                     ELSE Entry("UNASSIGNED", view[p], Subject(view[p])))
    BY <1>4 DEF AssignClaim, Refused, Wanted
  <2>2. s \in Seats /\ view[p] \in Rows /\ h \in Holders
    BY <2>1, CallArguments DEF Shape, Wanted, Holders, TypeOK
  <2>3. \A t \in Seats : writes[p][t] # Clean => t # s /\ Unheld(writes[p][t])
    BY <2>1 DEF Local
  <2>4. Visible(p, s) = seat[s] /\ writes[p][s] = Clean
    BY <2>2, <2>3 DEF Visible
  <2>5. CASE HasAssignment(p)
    <3> DEFINE e == Entry("ASSIGNED", h, Subject(h))
    <3>1. h # Nobody
      BY <2>5 DEF HasAssignment
    <3>2. IsFree(seat[s]) \/ HolderOf(seat[s]) = h
      BY <2>1, <2>4, <2>5 DEF AssignMatches
    <3>3. e \in Entries
      BY <2>2, EntryTypes
    <3>4. e.action = "ASSIGNED" /\ HolderOf(e) = h /\ e.subject = Subject(h)
      BY <2>2 DEF Entry, HolderOf, Holders
    <3>5. Write(p, s, Row("ASSIGNED", h.guest, h.invitation), e)
      BY <2>1, <2>5
    <3> HIDE DEF s, h, e
    <3> QED BY <2>2, <2>3, <3>1, <3>2, <3>3, <3>4, <3>5, ClaimKind
  <2>6. CASE ~HasAssignment(p)
    <3>1. Exists(seat[s]) /\ ~Unheld(view[p])
      BY <2>1, <2>4, <2>6 DEF AssignMatches, Local
    <3>2. Write(p, s, FreeRow, Entry("UNASSIGNED", view[p], Subject(view[p])))
      BY <2>1, <2>6
    <3> HIDE DEF s, h
    <3> QED BY <2>2, <2>4, <3>1, <3>2, ReleaseKind
  <2> QED BY <2>5, <2>6
<1> QED
  BY <1>1, <1>2, <1>3, <1>4
  DEF AssignSeat, AssignRejected, AssignRead, AssignFindConflicts, AssignLogChange

LEMMA AssignSeatToGuestKind ==
    ASSUME TypeInv, LocalInv, StatusMatchesHolder, NEW p \in Procs, AssignSeatToGuest(p)
    PROVE  StepKind
<1> USE DEF TypeInv, LocalInv
<1>1. CASE \E how : Finish(p, how)
  BY <1>1, FinishKind
<1>2. CASE NoWrite
  BY <1>2, NoWriteKind
<1>3. CASE GuestClaim(p) /\ (~\E how : Finish(p, how)) /\ ~NoWrite
  <2> DEFINE s == target[p]
             h == Wanted(p)
             e == Entry("ASSIGNED", h, call[p].guest)
  <2>1. /\ pc[p] = "guest.claim" /\ GuestMatches(p, Visible(p, s))
        /\ Write(p, s, Row("ASSIGNED", h.guest, h.invitation), e)
    BY <1>3 DEF GuestClaim, Refused, Wanted
  <2>2. /\ s \in Seats /\ h.guest \in Guests /\ h.invitation \in Invitations /\ h \in Holders
        /\ h.guest = call[p].guest /\ h.invitation = call[p].invitation
    BY <2>1 DEF Shape, Wanted, Holders
  <2>3. h # Nobody /\ h.invitation # None /\ Subject(h) = call[p].guest
    BY <2>2, SeatAssumption DEF Nobody, Subject
  <2>4. writes[p] = NoWrites
    BY <2>1 DEF Local
  <2>5. \/ IsFree(seat[s])
        \/ seat[s].invitation = h.invitation /\ seat[s].guest = None /\ h.invitation # None
    BY <2>1, <2>2, <2>3, <2>4, NoWritesVisible DEF GuestMatches
  <2>6. e \in Entries
    BY <2>2, EntryTypes
  <2>7. e.action = "ASSIGNED" /\ HolderOf(e) = h /\ e.subject = Subject(h)
    BY <2>2, <2>3 DEF Entry, HolderOf, Holders
  <2>8. \A t \in Seats : writes[p][t] # Clean => t # s /\ Unheld(writes[p][t])
    BY <2>4 DEF NoWrites
  <2> HIDE DEF s, h, e
  <2> QED BY <2>1, <2>2, <2>3, <2>5, <2>6, <2>7, <2>8, ClaimKind
<1> QED
  BY <1>1, <1>2, <1>3 DEF AssignSeatToGuest, GuestExisting, GuestFindReserved, GuestSelect

LEMMA ReserveKind ==
    ASSUME TypeInv, LocalInv, StatusMatchesHolder, NEW p \in Procs, ReserveSeatForInvitation(p)
    PROVE  StepKind
<1> USE DEF TypeInv, LocalInv
<1>1. CASE \E how : Finish(p, how)
  BY <1>1, FinishKind
<1>2. CASE NoWrite
  BY <1>2, NoWriteKind
<1>3. CASE ReserveClaim(p) /\ (~\E how : Finish(p, how)) /\ ~NoWrite
  <2> DEFINE s == target[p]
             h == Wanted(p)
             e == Entry("ASSIGNED", h, None)
  <2>1. /\ pc[p] = "reserve.claim" /\ IsFree(Visible(p, s))
        /\ Write(p, s, Row("RESERVED", None, call[p].invitation), e)
    BY <1>3 DEF ReserveClaim, Refused
  <2>2. /\ s \in Seats /\ h.guest = None /\ h.invitation \in Invitations /\ h \in Holders
        /\ h.invitation = call[p].invitation
    BY <2>1 DEF Shape, Wanted, Holders
  <2>3. h # Nobody /\ h.invitation # None
    BY <2>2, SeatAssumption DEF Nobody
  <2>4. writes[p] = NoWrites
    BY <2>1 DEF Local
  <2>5. IsFree(seat[s])
    BY <2>1, <2>2, <2>4, NoWritesVisible
  <2>6. e \in Entries
    BY <2>2, EntryTypes
  <2>7. e.action = "ASSIGNED" /\ HolderOf(e) = h /\ e.subject = None
    BY <2>2 DEF Entry, HolderOf, Holders
  <2>8. \A t \in Seats : writes[p][t] # Clean => t # s /\ Unheld(writes[p][t])
    BY <2>4 DEF NoWrites
  <2>9. Write(p, s, Row("RESERVED", h.guest, h.invitation), e)
    BY <2>1, <2>2
  <2> HIDE DEF s, h, e
  <2> QED BY <2>2, <2>3, <2>5, <2>6, <2>7, <2>8, <2>9, ClaimKind
<1> QED
  BY <1>1, <1>2, <1>3 DEF ReserveSeatForInvitation, ReserveExisting, ReserveFindFree, ReserveRetry

LEMMA UnassignKind ==
    ASSUME TypeInv, LocalInv, NEW p \in Procs, UnassignSeat(p)
    PROVE  StepKind
<1> USE DEF TypeInv, LocalInv
<1>1. CASE \E how : Finish(p, how)
  BY <1>1, FinishKind
<1>2. CASE NoWrite
  BY <1>2, NoWriteKind
<1>3. CASE UnassignUpdate(p) /\ (~\E how : Finish(p, how)) /\ ~NoWrite
  <2>1. /\ pc[p] = "unassign.update" /\ Exists(seat[target[p]])
        /\ Write(p, target[p], FreeRow, Entry("UNASSIGNED", view[p], Subject(view[p])))
    BY <1>3 DEF UnassignUpdate
  <2>2. target[p] \in Seats /\ view[p] \in Rows /\ ~Unheld(view[p]) /\ writes[p] = NoWrites
    BY <2>1 DEF Shape, Local
  <2>3. writes[p][target[p]] = Clean
    BY <2>2 DEF NoWrites
  <2> QED BY <2>1, <2>2, <2>3, ReleaseKind
<1> QED
  BY <1>1, <1>2, <1>3 DEF UnassignSeat, UnassignRead, UnassignFindSeats, UnassignNext

LEMMA StepKinds ==
    ASSUME TypeInv, LocalInv, StatusMatchesHolder, [Next]_vars
    PROVE  StepKind
<1>1. CASE UNCHANGED vars
  BY <1>1 DEF vars, StepKind
<1>2. ASSUME NEW p \in Procs, CreateSeat(p)
      PROVE  StepKind
  <2>1. PICK s \in Seats : seat[s].status = "UNBORN" /\ seat' = [seat EXCEPT ![s] = FreeRow]
                           /\ UNCHANGED <<history, facts, txs>>
    BY <1>2 DEF CreateSeat, Oldest
  <2> QED BY <2>1, FreeRowFacts DEF Vacate, StepKind
<1>3. ASSUME NEW p \in Procs, DeleteRow(p)
      PROVE  StepKind
  <2>1. CASE \E how : Finish(p, how)
    BY <2>1, FinishKind
  <2>2. CASE /\ ~Held(p, target[p])
             /\ seat' = [seat EXCEPT ![target[p]] = DeletedRow]
             /\ UNCHANGED <<history, facts, txs>>
    <3>1. target[p] \in Seats /\ writes[p] = NoWrites
      BY <1>3 DEF DeleteRow, TypeInv, Shape, LocalInv, Local
    <3>2. \A q \in Procs : writes[q][target[p]] = Clean
      BY <2>2, <3>1 DEF Held, NoWrites
    <3> QED BY <2>2, <3>1, <3>2, FreeRowFacts DEF Vacate, StepKind
  <2> QED BY <1>3, <2>1, <2>2 DEF DeleteRow
<1>4. ASSUME NEW p \in Procs, Commit(p)
      PROVE  StepKind
  BY <1>4 DEF StepKind
<1>5. ASSUME NEW p \in Procs,
             Begin(p) \/ DeleteRead(p) \/ LogChange(p) \/ Return(p) \/ Abort(p)
      PROVE  StepKind
  BY <1>5, FinishKind, NoWriteKind DEF Begin, DeleteRead, LogChange, Return, Abort
<1>6. ASSUME NEW s \in Seats, InsertSeat(s)
      PROVE  StepKind
  BY <1>6, InsertedRowFacts DEF InsertSeat, Vacate, StepKind
<1> QED
  BY <1>1, <1>2, <1>3, <1>4, <1>5, <1>6, AssignSeatKind, AssignSeatToGuestKind, ReserveKind,
     UnassignKind DEF Next, Step

-----------------------------------------------------------------------------
(* The inductive invariant of the data *)

\* At most one open transaction has written a row.
RowLocks == \A p, q \in Procs : p # q =>
                \A s \in Seats : writes[p][s] = Clean \/ writes[q][s] = Clean

\* Every written row exists, is consistent and is journalled with what happens to it.
Journalled == \A p \in Procs, s \in Seats :
    /\ writes[p][s] = Clean <=> journal[p][s] = Clean
    /\ writes[p][s] # Clean =>
           /\ Exists(seat[s]) /\ Exists(writes[p][s]) /\ RowOK(s, writes[p][s])
           /\ Faithful(journal[p][s], writes[p][s], seat[s])

\* A transaction grants at most one seat.
OneGrant == \A p \in Procs : \A s, t \in Seats :
    s # t /\ writes[p][s] # Clean /\ writes[p][t] # Clean
        => Unheld(writes[p][s]) \/ Unheld(writes[p][t])

\* A row not yet inserted has no past.
Untouched == \A s \in Seats : seat[s].status = "UNBORN" => history[s] = Nobody /\ facts[s] = None

\* Holders are unique as each transaction sees the table.
OwnView == \A p \in Procs : \A s \in Seats : \A t \in Siblings(s) :
               ~Clash(Visible(p, s), Visible(p, t))

\* Open transactions write no key that another one writes or replaces.
KeyLocks == \A p, q \in Procs : p # q => \A s \in Seats : \A t \in Siblings(s) :
    writes[p][s] # Clean /\ writes[q][t] # Clean
        => ~Clash(writes[p][s], writes[q][t]) /\ ~Clash(writes[p][s], seat[t])

DataInv == /\ RowLocks /\ Journalled /\ OneGrant /\ Untouched /\ OwnView /\ KeyLocks
           /\ UniqueHolders /\ StatusMatchesHolder /\ LogMatchesSeats /\ FactsMatchSeats

LEMMA ClashFacts ==
    /\ \A r, q : Clash(r, q) <=> Clash(q, r)
    /\ \A r \in Rows : \A q : Unheld(r) => ~Clash(r, q) /\ ~Clash(q, r)
BY HolderFacts DEF Clash, Unheld, HolderOf, Nobody

LEMMA SiblingFacts ==
    \A s \in Seats : \A t \in Siblings(s) : t \in Seats /\ t # s /\ s \in Siblings(t)
BY DEF Siblings

LEMMA DataInit == Init => DataInv
<1> SUFFICES ASSUME Init PROVE DataInv
  OBVIOUS
<1>1. \A s \in Seats : /\ seat[s].status \in {InsertedAs[s], "UNBORN"}
                       /\ seat[s].guest = None /\ seat[s].invitation = None
                       /\ history[s] = Nobody /\ facts[s] = None
  BY DEF Init, InsertedRow, Row
<1>2. \A p \in Procs, s \in Seats : writes[p][s] = Clean /\ journal[p][s] = Clean
  BY DEF Init, NoWrites
<1>3. RowLocks /\ Journalled /\ OneGrant /\ KeyLocks
  BY <1>2 DEF RowLocks, Journalled, OneGrant, KeyLocks
<1>4. OwnView /\ UniqueHolders
  BY <1>1, <1>2, SiblingFacts DEF OwnView, UniqueHolders, Visible, Clash
<1>5. Untouched /\ StatusMatchesHolder /\ LogMatchesSeats /\ FactsMatchSeats
  BY <1>1
  DEF Untouched, StatusMatchesHolder, RowOK, Unheld, HolderOf, Nobody, LogMatchesSeats,
      FactsMatchSeats, Subject
<1> QED BY <1>3, <1>4, <1>5 DEF DataInv

LEMMA RollbackData ==
    ASSUME TypeOK, DataInv, NEW p \in Procs, Rollback(p)
    PROVE  DataInv'
<1>1. UNCHANGED <<seat, history, facts>>
  BY DEF Rollback, db
<1>2. \A q \in Procs, s \in Seats :
          IF q = p THEN writes'[q][s] = Clean /\ journal'[q][s] = Clean
          ELSE writes'[q][s] = writes[q][s] /\ journal'[q][s] = journal[q][s]
  BY DEF Rollback, TypeOK, NoWrites
<1>3. RowLocks' /\ Journalled' /\ OneGrant' /\ KeyLocks'
  BY <1>1, <1>2, SiblingFacts DEF DataInv, RowLocks, Journalled, OneGrant, KeyLocks
<1>4. OwnView'
  <2>1. \A q \in Procs, s \in Seats :
            Visible(q, s)' = IF q = p THEN seat[s] ELSE Visible(q, s)
    BY <1>1, <1>2 DEF Visible
  <2> QED BY <2>1, SiblingFacts DEF DataInv, OwnView, UniqueHolders, Siblings
<1>5. (UniqueHolders /\ Untouched /\ StatusMatchesHolder /\ LogMatchesSeats /\ FactsMatchSeats)'
  BY <1>1
  DEF DataInv, UniqueHolders, Untouched, StatusMatchesHolder, LogMatchesSeats, FactsMatchSeats
<1> QED BY <1>3, <1>4, <1>5 DEF DataInv

LEMMA WriteData ==
    ASSUME TypeOK, DataInv, NEW p \in Procs, NEW s \in Seats, NEW r \in Rows, NEW e \in Entries,
           GoodWrite(p, s, r, e)
    PROVE  DataInv'
<1>1. UNCHANGED <<seat, history, facts>>
  BY DEF GoodWrite, Write, db
<1>2. \A q \in Procs, t \in Seats :
          IF q = p /\ t = s THEN writes'[q][t] = r /\ journal'[q][t] = e
          ELSE writes'[q][t] = writes[q][t] /\ journal'[q][t] = journal[q][t]
  BY DEF GoodWrite, Write, TypeOK
<1>3. r # Clean /\ e # Clean
  BY CleanAssumption
<1>4. \A q \in Procs \ {p} : writes[q][s] = Clean
  BY DEF GoodWrite, Write, MustWait, Held
<1>5. \A q \in Procs \ {p}, t \in Siblings(s) :
          writes[q][t] # Clean => ~Clash(r, writes[q][t]) /\ ~Clash(r, seat[t])
  BY DEF GoodWrite, Write, MustWait
<1>6. \A t \in Siblings(s) : ~Clash(r, Visible(p, t))
  <2> SUFFICES ASSUME NEW t \in Siblings(s) PROVE ~Clash(r, Visible(p, t))
    OBVIOUS
  <2>1. CASE ~Held(p, t)
    BY <2>1 DEF GoodWrite, Write, Duplicate
  <2>2. CASE Held(p, t)
    <3>1. PICK q \in Procs \ {p} : writes[q][t] # Clean
      BY <2>2 DEF Held
    <3>2. writes[p][t] = Clean
      BY <3>1, SiblingFacts DEF DataInv, RowLocks
    <3> QED BY <1>5, <3>1, <3>2 DEF Visible
  <2> QED BY <2>1, <2>2
<1>7. RowLocks'
  BY <1>2, <1>4 DEF DataInv, RowLocks
<1>8. Journalled'
  BY <1>1, <1>2, <1>3 DEF DataInv, Journalled, GoodWrite
<1>9. OneGrant'
  BY <1>2 DEF DataInv, OneGrant, GoodWrite
<1>10. \A q \in Procs, t \in Seats :
           Visible(q, t)' = IF q = p /\ t = s THEN r ELSE Visible(q, t)
  BY <1>1, <1>2, <1>3 DEF Visible
<1>11. OwnView'
  <2> SUFFICES ASSUME NEW q \in Procs, NEW t \in Seats, NEW u \in Siblings(t)
               PROVE  ~Clash(Visible(q, t)', Visible(q, u)')
    BY DEF OwnView, Siblings
  <2>1. ~Clash(Visible(q, t), Visible(q, u))
    BY DEF DataInv, OwnView
  <2>2. u \in Seats /\ u # t /\ t \in Siblings(u)
    BY SiblingFacts
  <2> QED BY <1>6, <1>10, <2>1, <2>2, ClashFacts
<1>12. KeyLocks'
  <2> SUFFICES ASSUME NEW o \in Procs, NEW q \in Procs, o # q, NEW t \in Seats, NEW u \in Siblings(t),
                      writes'[o][t] # Clean, writes'[q][u] # Clean
               PROVE  ~Clash(writes'[o][t], writes'[q][u]) /\ ~Clash(writes'[o][t], seat[u])
    BY <1>1 DEF KeyLocks, Siblings
  <2>1. u \in Seats /\ u # t /\ t \in Siblings(u)
    BY SiblingFacts
  <2>2. CASE o = p /\ t = s
    BY <1>2, <1>5, <2>1, <2>2
  <2>3. CASE q = p /\ u = s /\ ~(o = p /\ t = s)
    <3>1. writes'[o][t] = writes[o][t] /\ writes'[q][u] = r /\ o # p
      BY <1>2, <2>1, <2>3
    <3>2. ~Clash(writes[o][t], r)
      BY <1>5, <2>1, <2>3, <3>1, ClashFacts
    <3>3. Visible(o, t) = writes[o][t] /\ Visible(o, s) = seat[s]
      BY <1>4, <3>1 DEF Visible
    <3>4. ~Clash(writes[o][t], seat[s])
      BY <2>1, <2>3, <3>3 DEF DataInv, OwnView
    <3> QED BY <2>3, <3>1, <3>2, <3>4
  <2>4. CASE ~(o = p /\ t = s) /\ ~(q = p /\ u = s)
    BY <1>2, <2>1, <2>4 DEF DataInv, KeyLocks
  <2> QED BY <2>2, <2>3, <2>4
<1>13. (UniqueHolders /\ Untouched /\ StatusMatchesHolder /\ LogMatchesSeats /\ FactsMatchSeats)'
  BY <1>1
  DEF DataInv, UniqueHolders, Untouched, StatusMatchesHolder, LogMatchesSeats, FactsMatchSeats
<1> QED BY <1>7, <1>8, <1>9, <1>11, <1>12, <1>13 DEF DataInv

LEMMA CommitData ==
    ASSUME TypeOK, DataInv, NEW p \in Procs, Commit(p)
    PROVE  DataInv'
<1>1. \A s \in Seats :
          /\ writes[p][s] = Clean =>
                 seat'[s] = seat[s] /\ history'[s] = history[s] /\ facts'[s] = facts[s]
          /\ writes[p][s] # Clean => seat'[s] = writes[p][s]
          /\ seat'[s] = Visible(p, s)
  BY DEF Commit, Visible, DataInv, Journalled
<1>2. \A s \in Seats : writes[p][s] # Clean /\ journal[p][s].action = "ASSIGNED" =>
          /\ history'[s] = HolderOf(journal[p][s])
          /\ facts'[s] = IF journal[p][s].subject = None THEN facts[s] ELSE journal[p][s].subject
  BY DEF Commit, DataInv, Journalled
<1>3. \A s \in Seats : writes[p][s] # Clean /\ journal[p][s].action # "ASSIGNED" =>
          /\ history'[s] = Nobody
          /\ facts'[s] = IF journal[p][s].subject = None THEN facts[s] ELSE None
  BY DEF Commit, DataInv, Journalled
<1>4. \A q \in Procs, s \in Seats :
          IF q = p THEN writes'[q][s] = Clean /\ journal'[q][s] = Clean
          ELSE writes'[q][s] = writes[q][s] /\ journal'[q][s] = journal[q][s]
  BY DEF Commit, TypeOK, NoWrites
<1>5. \A q \in Procs \ {p}, s \in Seats : writes[q][s] # Clean => seat'[s] = seat[s]
  BY <1>1 DEF DataInv, RowLocks
<1>6. RowLocks'
  BY <1>4 DEF DataInv, RowLocks
<1>7. Journalled'
  BY <1>4, <1>5 DEF DataInv, Journalled
<1>8. OneGrant'
  BY <1>4 DEF DataInv, OneGrant
<1>9. UniqueHolders'
  BY <1>1, SiblingFacts DEF UniqueHolders, DataInv, OwnView, Siblings
<1>10. KeyLocks'
  BY <1>4, <1>5, SiblingFacts DEF DataInv, KeyLocks, Siblings
<1>11. OwnView'
  <2> SUFFICES ASSUME NEW q \in Procs, NEW s \in Seats, NEW t \in Siblings(s)
               PROVE  ~Clash(Visible(q, s)', Visible(q, t)')
    BY DEF OwnView, Siblings
  <2>1. t \in Seats /\ t # s /\ s \in Siblings(t)
    BY SiblingFacts
  <2>2. ASSUME NEW u \in Seats
        PROVE  Visible(q, u)' = IF q # p /\ writes[q][u] # Clean THEN writes[q][u] ELSE Visible(p, u)
    BY <1>1, <1>4 DEF Visible
  <2>3. ~Clash(Visible(p, s), Visible(p, t)) /\ ~Clash(Visible(q, s), Visible(q, t))
    BY DEF DataInv, OwnView
  <2>4. ASSUME NEW u \in Seats, NEW w \in Siblings(u), q # p,
               writes[q][u] # Clean, writes[q][w] = Clean
        PROVE  ~Clash(writes[q][u], Visible(p, w))
    <3>1. w \in Seats
      BY SiblingFacts
    <3>2. CASE writes[p][w] # Clean
      BY <2>4, <3>1, <3>2 DEF Visible, DataInv, KeyLocks
    <3>3. CASE writes[p][w] = Clean
      BY <2>4, <3>1, <3>3 DEF Visible, DataInv, OwnView
    <3> QED BY <3>2, <3>3
  <2>5. CASE q # p /\ writes[q][s] # Clean /\ writes[q][t] = Clean
    BY <2>1, <2>2, <2>4, <2>5
  <2>6. CASE q # p /\ writes[q][t] # Clean /\ writes[q][s] = Clean
    BY <2>1, <2>2, <2>4, <2>6, ClashFacts
  <2>7. CASE q # p /\ writes[q][t] # Clean /\ writes[q][s] # Clean
    BY <2>1, <2>2, <2>3, <2>7 DEF Visible
  <2>8. CASE q = p \/ (writes[q][s] = Clean /\ writes[q][t] = Clean)
    BY <2>1, <2>2, <2>3, <2>8
  <2> QED BY <2>5, <2>6, <2>7, <2>8
<1>12. Untouched'
  BY <1>1 DEF DataInv, Untouched, Journalled, Exists, SeatStatus
<1>13. StatusMatchesHolder'
  BY <1>1 DEF DataInv, StatusMatchesHolder, Journalled
<1>14. LogMatchesSeats'
  BY <1>1, <1>2, <1>3 DEF DataInv, LogMatchesSeats, Journalled, Faithful, Unheld
<1>15. FactsMatchSeats'
  <2> SUFFICES ASSUME NEW s \in Seats, Exists(seat'[s])
               PROVE  facts'[s] = IF seat'[s].status = "ASSIGNED" THEN Subject(HolderOf(seat'[s]))
                                                                  ELSE None
    BY DEF FactsMatchSeats
  <2>1. CASE writes[p][s] = Clean
    BY <1>1, <2>1 DEF DataInv, FactsMatchSeats
  <2>2. CASE writes[p][s] # Clean
    <3>1. /\ seat'[s] = writes[p][s] /\ RowOK(s, seat'[s]) /\ Exists(seat[s])
          /\ Faithful(journal[p][s], seat'[s], seat[s])
      BY <1>1, <2>2 DEF DataInv, Journalled
    <3>2. facts[s] = IF seat[s].status = "ASSIGNED" THEN Subject(HolderOf(seat[s])) ELSE None
      BY <3>1 DEF DataInv, FactsMatchSeats
    <3>3. CASE journal[p][s].action = "UNASSIGNED"
      BY <1>3, <2>2, <3>1, <3>3 DEF Faithful, Unheld, Nobody, Subject
    <3>4. CASE journal[p][s].action = "ASSIGNED"
      BY <1>2, <2>2, <3>1, <3>2, <3>4 DEF Faithful, IsFree
    <3> QED BY <3>1, <3>3, <3>4 DEF Faithful
  <2> QED BY <2>1, <2>2
<1> QED
  BY <1>6, <1>7, <1>8, <1>9, <1>10, <1>11, <1>12, <1>13, <1>14, <1>15 DEF DataInv

LEMMA VacateData ==
    ASSUME TypeOK, DataInv, NEW s \in Seats, NEW r \in Rows, Vacate(s, r)
    PROVE  DataInv'
<1>1. UNCHANGED <<history, facts, writes, journal>>
  BY DEF Vacate, txs
<1>2. \A t \in Seats : seat'[t] = IF t = s THEN r ELSE seat[t]
  BY DEF Vacate, TypeOK
<1>3. \A p \in Procs : writes[p][s] = Clean
  BY DEF Vacate, DataInv, Journalled, Exists, SeatStatus
<1>4. Unheld(r) /\ RowOK(s, r) /\ r.status # "UNBORN"
  BY FreeRowFacts, InsertedRowFacts DEF Vacate, RowOK, Exists, SeatStatus
<1>5. \A p \in Procs, t \in Seats : Visible(p, t)' = IF t = s THEN r ELSE Visible(p, t)
  BY <1>1, <1>2, <1>3 DEF Visible
<1>6. RowLocks' /\ OneGrant'
  BY <1>1 DEF DataInv, RowLocks, OneGrant
<1>7. Journalled'
  BY <1>1, <1>2, <1>3 DEF DataInv, Journalled
<1>8. KeyLocks'
  BY <1>1, <1>2, <1>3, SiblingFacts DEF DataInv, KeyLocks, Siblings
<1>9. OwnView'
  <2> SUFFICES ASSUME NEW p \in Procs, NEW t \in Seats, NEW u \in Siblings(t)
               PROVE  ~Clash(Visible(p, t)', Visible(p, u)')
    BY DEF OwnView, Siblings
  <2>1. ~Clash(Visible(p, t), Visible(p, u)) /\ u \in Seats
    BY SiblingFacts DEF DataInv, OwnView
  <2> QED BY <1>4, <1>5, <2>1, ClashFacts
<1>10. UniqueHolders'
  <2> SUFFICES ASSUME NEW t \in Seats, NEW u \in Siblings(t)
               PROVE  ~Clash(seat'[t], seat'[u])
    BY DEF UniqueHolders, Siblings
  <2>1. ~Clash(seat[t], seat[u]) /\ u \in Seats
    BY SiblingFacts DEF DataInv, UniqueHolders
  <2> QED BY <1>2, <1>4, <2>1, ClashFacts
<1>11. Untouched' /\ StatusMatchesHolder'
  BY <1>1, <1>2, <1>4 DEF DataInv, Untouched, StatusMatchesHolder
<1>12. LogMatchesSeats' /\ FactsMatchSeats'
  <2>1. Exists(r) => history[s] = Nobody /\ facts[s] = None
    BY FreeRowFacts DEF Vacate, DataInv, Untouched
  <2> QED
    BY <1>1, <1>2, <1>4, <2>1 DEF DataInv, LogMatchesSeats, FactsMatchSeats, Unheld, Nobody, Subject
<1> QED BY <1>6, <1>7, <1>8, <1>9, <1>10, <1>11, <1>12 DEF DataInv

SeatInv == TypeInv /\ LocalInv /\ DataInv

LEMMA SeatInit == Init => SeatInv
<1> SUFFICES ASSUME Init PROVE SeatInv
  OBVIOUS
<1>1. LocalInv
  BY DEF Init, LocalInv, Local
<1> QED BY <1>1, TypeInit, DataInit DEF SeatInv

LEMMA SeatStep ==
    ASSUME SeatInv, [Next]_vars
    PROVE  SeatInv'
<1>1. TypeInv' /\ LocalInv'
  BY TypeStep, LocalStep DEF SeatInv
<1>2. StepKind
  BY StepKinds DEF SeatInv, DataInv
<1>3. TypeOK /\ DataInv
  BY DEF SeatInv, TypeInv
<1>4. CASE UNCHANGED <<db, txs>>
  <2>1. UNCHANGED <<seat, history, facts, writes, journal>>
    BY <1>4 DEF db, txs
  <2> QED
    BY <1>1, <1>3, <2>1
    DEF SeatInv, DataInv, RowLocks, Journalled, OneGrant, Untouched, OwnView, KeyLocks, Visible,
        UniqueHolders, StatusMatchesHolder, LogMatchesSeats, FactsMatchSeats
<1> QED
  BY <1>1, <1>2, <1>3, <1>4, RollbackData, WriteData, CommitData, VacateData DEF SeatInv, StepKind

\* The inductive invariant holds in every reachable state.
THEOREM SeatInvariant == Spec => []SeatInv
BY SeatInit, SeatStep, PTL DEF Spec

\* In one event no guest and no invitation ever has two seats.
THEOREM HoldersAreUnique == Spec => []UniqueHolders
<1>1. SeatInv => UniqueHolders
  BY DEF SeatInv, DataInv
<1> QED BY <1>1, SeatInvariant, PTL

\* The status column always agrees with the holder columns, but for copies of held seats.
THEOREM StatusAgrees == Spec => []StatusMatchesHolder
<1>1. SeatInv => StatusMatchesHolder
  BY DEF SeatInv, DataInv
<1> QED BY <1>1, SeatInvariant, PTL

\* The assignment log, replayed, always gives the present holders.
THEOREM LogIsComplete == Spec => []LogMatchesSeats
<1>1. SeatInv => LogMatchesSeats
  BY DEF SeatInv, DataInv
<1> QED BY <1>1, SeatInvariant, PTL

\* The analytics facts, replayed, always give the present assignments.
THEOREM FactsAreComplete == Spec => []FactsMatchSeats
<1>1. SeatInv => FactsMatchSeats
  BY DEF SeatInv, DataInv
<1> QED BY <1>1, SeatInvariant, PTL

-----------------------------------------------------------------------------
(* Refinement of the ledger *)

LEMMA LedgerNames ==
    /\ Ledger!Nobody = Nobody
    /\ \A s : Ledger!Siblings(s) = Siblings(s)
    /\ Ledger!Holders = Holders
BY DEF Ledger!Nobody, Nobody, Ledger!Siblings, Siblings, Ledger!Holders, Holders

\* Holders that share a guest or an invitation come from rows that clash.
LEMMA SharesIsClash ==
    \A r, q : Ledger!Shares(HolderOf(r), HolderOf(q)) <=> Clash(r, q)
BY DEF Ledger!Shares, HolderOf, Clash

\* The holder of every seat: the ledger that the seat table stands for.
Holding == [s \in Seats |-> HolderOf(seat[s])]

\* A commit releases the seats its transaction freed and grants at most one other.
LEMMA CommitLedger ==
    ASSUME SeatInv, NEW p \in Procs, Commit(p)
    PROVE  [Ledger!LedgerNext]_Holding
<1> DEFINE Freed == {t \in Seats : writes[p][t] # Clean /\ Unheld(writes[p][t])}
<1> USE DEF SeatInv
<1>1. \A t \in Seats : seat'[t] = IF writes[p][t] = Clean THEN seat[t] ELSE writes[p][t]
  BY DEF Commit, Visible
<1>2. \A t \in Seats : HolderOf(seat'[t]) = IF t \in Freed THEN Nobody
                                            ELSE IF writes[p][t] = Clean THEN HolderOf(seat[t])
                                            ELSE HolderOf(writes[p][t])
  BY <1>1 DEF Unheld
<1>3. Freed \in SUBSET Seats
  OBVIOUS
<1>4. CASE \A t \in Seats : writes[p][t] # Clean => Unheld(writes[p][t])
  <2>1. \A t \in Seats : HolderOf(seat'[t]) = IF t \in Freed THEN Nobody ELSE HolderOf(seat[t])
    BY <1>2, <1>4
  <2>2. Ledger!Release(Freed)
    BY <2>1, LedgerNames DEF Ledger!Release
  <2> QED BY <1>3, <2>2 DEF Ledger!LedgerNext
<1>5. ASSUME NEW s \in Seats, writes[p][s] # Clean, ~Unheld(writes[p][s])
      PROVE  Ledger!LedgerNext
  <2> DEFINE h == HolderOf(writes[p][s])
  <2>1. \A t \in Seats \ {s} : writes[p][t] # Clean => t \in Freed
    BY <1>5 DEF DataInv, OneGrant
  <2>2. h \in Holders /\ h # Nobody /\ s \notin Freed
    BY <1>5, RowTypes DEF TypeInv, TypeOK, Unheld
  <2>3. Ledger!MaySucceed(HolderOf(seat[s]), h)
    BY <1>5 DEF DataInv, Journalled, Faithful
  <2>4. \A t \in Siblings(s) \ Freed : ~Ledger!Shares(h, HolderOf(seat[t]))
    <3> SUFFICES ASSUME NEW t \in Siblings(s), t \notin Freed
                 PROVE  ~Clash(writes[p][s], seat[t])
      BY SharesIsClash
    <3>1. t \in Seats /\ t # s /\ writes[p][t] = Clean
      BY <2>1, SiblingFacts
    <3> QED BY <1>5, <3>1 DEF DataInv, OwnView, Visible
  <2>5. \A t \in Seats : HolderOf(seat'[t]) = IF t = s THEN h
                                              ELSE IF t \in Freed THEN Nobody ELSE HolderOf(seat[t])
    BY <1>2, <1>5, <2>1, <2>2
  <2>6. Ledger!Grant(s, h, Freed)
    <3> HIDE DEF Freed, h
    <3>1. \A t \in Siblings(s) \ Freed : ~Ledger!Shares(h, Holding[t])
      BY <2>4, SiblingFacts DEF Holding
    <3>2. Holding' = [t \in Seats |-> IF t = s THEN h ELSE IF t \in Freed THEN Nobody ELSE Holding[t]]
      BY <2>5 DEF Holding
    <3> QED BY <1>5, <2>2, <2>3, <3>1, <3>2, LedgerNames DEF Ledger!Grant, Holding
  <2> QED BY <1>3, <2>2, <2>6, LedgerNames DEF Ledger!LedgerNext
<1> QED BY <1>4, <1>5

\* An INSERT leaves the ledger alone; a DELETE releases the seat.
LEMMA VacateLedger ==
    ASSUME SeatInv, NEW s \in Seats, NEW r \in Rows, Vacate(s, r)
    PROVE  [Ledger!LedgerNext]_Holding
<1>1. \A t \in Seats : seat'[t] = IF t = s THEN r ELSE seat[t]
  BY DEF Vacate, SeatInv, TypeInv, TypeOK
<1>2. HolderOf(r) = Nobody
  BY FreeRowFacts, InsertedRowFacts DEF Vacate, Unheld
<1>3. \A t \in Seats : HolderOf(seat'[t]) = IF t \in {s} THEN Nobody ELSE HolderOf(seat[t])
  BY <1>1, <1>2
<1>4. Ledger!Release({s})
  BY <1>3, LedgerNames DEF Ledger!Release
<1> QED BY <1>4 DEF Ledger!LedgerNext

\* Every step of the service is a step of the ledger or leaves it alone.
THEOREM RefinesLedger == Spec => LedgerSpec
<1>1. Init => Ledger!LedgerInit
  <2> SUFFICES ASSUME Init PROVE Ledger!LedgerInit
    OBVIOUS
  <2>1. \A s \in Seats : HolderOf(seat[s]) = Nobody
    BY DEF Init, InsertedRow, Row, HolderOf, Nobody
  <2> QED BY <2>1, LedgerNames DEF Ledger!LedgerInit
<1>2. SeatInv /\ [Next]_vars => [Ledger!LedgerNext]_Holding
  <2> SUFFICES ASSUME SeatInv, [Next]_vars PROVE [Ledger!LedgerNext]_Holding
    OBVIOUS
  <2>1. StepKind
    BY StepKinds DEF SeatInv, DataInv
  <2>2. CASE UNCHANGED seat
    BY <2>2 DEF Holding
  <2>3. UNCHANGED <<db, txs>> => UNCHANGED seat
    BY DEF db
  <2>4. \A p \in Procs : Rollback(p) => UNCHANGED seat
    BY DEF Rollback, db
  <2>5. \A p \in Procs, s \in Seats, r \in Rows, e \in Entries : GoodWrite(p, s, r, e) => UNCHANGED seat
    BY DEF GoodWrite, Write, db
  <2> QED BY <2>1, <2>2, <2>3, <2>4, <2>5, CommitLedger, VacateLedger DEF StepKind
<1> QED BY <1>1, <1>2, SeatInvariant, PTL DEF Spec, LedgerSpec, Ledger!LedgerSpec, Holding

=============================================================================
