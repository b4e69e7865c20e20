----------------------------- MODULE SeatLedger -----------------------------
(***************************************************************************)
(* What the seat service promises about who sits where, with no database,  *)
(* no transactions and no processes: every step is one atomic change of    *)
(* the ledger.  A seat that nobody holds has the holder Nobody; a seat     *)
(* that is not in the event's plan has no holder either.                   *)
(*                                                                         *)
(* SeatAssignment.tla shows that the statements of seat-write.service.ts,  *)
(* interleaved under READ COMMITTED, implement this ledger.                *)
(***************************************************************************)
CONSTANTS Seats,        \* every seat that can exist
          Guests,       \* guest ids
          Invitations,  \* invitation ids
          None,         \* SQL null: no guest, no invitation
          EventOf       \* the event of each seat

VARIABLE ledger         \* the holder of each seat

Holders == [guest : Guests \cup {None}, invitation : Invitations \cup {None}]
Nobody  == [guest |-> None, invitation |-> None]

\* Two holders share a guest or an invitation.
Shares(h, k) == \/ h.guest # None /\ h.guest = k.guest
                \/ h.invitation # None /\ h.invitation = k.invitation

\* A holder may take over a seat only from itself, or as the guest for whom the
\* seat is kept under an invitation.
MaySucceed(h, k) == \/ h = Nobody
                    \/ h = k
                    \/ h.guest = None /\ h.invitation = k.invitation

Siblings(s) == {t \in Seats \ {s} : EventOf[t] = EventOf[s]}

LedgerTypeOK == ledger \in [Seats -> Holders]

LedgerInit == ledger = [s \in Seats |-> Nobody]

\* The holders of the seats in F leave them.
Release(F) == ledger' = [s \in Seats |-> IF s \in F THEN Nobody ELSE ledger[s]]

\* Holder h takes seat s of the event, and the seats in F become free in the same step.
Grant(s, h, F) ==
    /\ h # Nobody
    /\ s \notin F
    /\ MaySucceed(ledger[s], h)
    /\ \A t \in Siblings(s) \ F : ~Shares(h, ledger[t])
    /\ ledger' = [t \in Seats |-> IF t = s THEN h ELSE IF t \in F THEN Nobody ELSE ledger[t]]

LedgerNext == \E F \in SUBSET Seats :
                  \/ Release(F)
                  \/ \E s \in Seats, h \in Holders : Grant(s, h, F)

\* No step gives a seat away over the head of its holder, or seats a guest or an
\* invitation twice in an event.
LedgerSpec == LedgerInit /\ [][LedgerNext]_ledger
=============================================================================
