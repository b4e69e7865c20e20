-------------------------- MODULE GuestProvisioning --------------------------
(***************************************************************************)
(* The Kafka handlers that give guests their seats and take them away      *)
(* (authentication.handler.ts, guest-seat-reservation.handler.ts), one     *)
(* action per call to the seat service, Valkey or Kafka.  Every seat       *)
(* transaction is one step of the ledger that SeatAssignment implements;   *)
(* what the handlers add is what lies between: keys that expire, calls     *)
(* that fail, crashes, retries, duplicates and dead letters.               *)
(***************************************************************************)
EXTENDS SeatLedger, Naturals

CONSTANTS Handlers,     \* deliveries handled at the same time
          InvitedTo,    \* the event of each invitation
          GuestOf,      \* the user that signs up with an invitation
          Named,        \* the seat that the sign-up key names, or None
          Messages,     \* the messages of the three topics, in no order between topics
          MaxRetries,   \* retries of the Kafka package before a dead letter
          MaxIncidents  \* bound: crashes, redeliveries and changes by administrators

Topics == {"addGuestId", "removeGuestId", "reserve"}

ASSUME ProvisioningAssumption ==
    /\ InvitedTo \in [Invitations -> {EventOf[s] : s \in Seats}]
    /\ GuestOf \in [Invitations -> Guests]
    /\ Named \in [Invitations -> Seats \cup {None}]
    /\ \A m \in Messages : /\ m.topic \in Topics /\ m.actor \in BOOLEAN
                           /\ m.of \in IF m.topic = "removeGuestId" THEN Guests ELSE Invitations
    /\ MaxRetries \in Nat /\ MaxIncidents \in Nat
    /\ None \notin Seats \cup Guests \cup Invitations \cup Messages

VARIABLES
    keys,       \* the invitations whose sign-up key is still in Valkey
    fate,       \* what became of each message
    retries,    \* how often it was retried
    pc,         \* the next call of each handler
    msg,        \* the message it handles
    got,        \* the seat that the seat service returned
    todo,       \* the seats of a removed guest that are still to be freed
    tickets,    \* the ticket.create messages: an invitation and a seat
    reserved,   \* the seat.reserved messages: an invitation and a seat
    refused,    \* the invitations with a seat.reservationFailed message
    lost,       \* the assignments that a removal or an administrator took back
    gone,       \* the removals that read the seats of a guest who was assigned none since
    appointed,  \* the seats that an administrator gave to somebody last
    incidents   \* incidents so far

handler == <<pc, msg, got, todo>>
output  == <<tickets, reserved, refused>>
past    == <<lost, gone, appointed>>
vars    == <<ledger, keys, fate, retries, handler, output, past, incidents>>
-----------------------------------------------------------------------------
(* Seats *)

\* Mutant: the columns of a holder are filled from the wrong fields.
HolderOfEvent(i) == [guest |-> GuestOf[i], invitation |-> InvitedTo[i]]

Holder(i)  == [guest |-> GuestOf[i], invitation |-> i]
Keeper(i)  == [guest |-> None, invitation |-> i]
SeatsOf(i) == {s \in Seats : EventOf[s] = InvitedTo[i]}
Free(i)    == {s \in SeatsOf(i) : ledger[s] = Nobody}
Kept(i)    == {s \in SeatsOf(i) : ledger[s] = Keeper(i)}

\* The unique indexes of the seat table accept h on seat s.
Unique(s, h) == \A t \in Siblings(s) : ~Shares(h, ledger[t])

\* Mutant: the lookup forgets the guest.
AnySeatOfInvitation(i) == {s \in SeatsOf(i) : ledger[s].invitation = i}

\* A guest is assigned a seat again.
GoneWithout(g) == {m \in gone : m.of # g}

\* An assignment that an earlier delivery made.
Existing(i) == {s \in SeatsOf(i) : ledger[s] = Holder(i)}

\* The named seat, else the seat kept for the invitation, else a free one.
Choices(i) == IF Named[i] # None THEN {Named[i]}
              ELSE IF Kept(i) # {} THEN Kept(i) ELSE Free(i)

\* The assignments that end when the holders of the seats in F leave them.
Losses(F) == {a \in Invitations \X F : ledger[a[2]] = Holder(a[1])}
-----------------------------------------------------------------------------
(* Delivery by the Kafka package *)

Goto(h, label) == pc' = [pc EXCEPT ![h] = label]

\* The handler of h ends, and its message with it.
End(h, f) ==
    /\ Goto(h, "idle")
    /\ fate' = [fate EXCEPT ![msg[h]] = f]
    /\ msg' = [msg EXCEPT ![h] = None]
    /\ got' = [got EXCEPT ![h] = None]
    /\ todo' = [todo EXCEPT ![h] = {}]

Done(h) == End(h, "done") /\ UNCHANGED retries

\* The handler throws: the message is retried, or becomes a dead letter.
Throw(h) ==
    IF retries[msg[h]] < MaxRetries
    THEN /\ End(h, "waiting")
         /\ retries' = [retries EXCEPT ![msg[h]] = @ + 1]
    ELSE End(h, "dead") /\ UNCHANGED retries

\* A call of the handler fails without any effect.
Fail(h) ==
    /\ pc[h] # "idle"
    /\ Throw(h)
    /\ UNCHANGED <<ledger, keys, output, past, incidents>>

First(topic) == CASE topic = "addGuestId" -> "key"
                  [] topic = "removeGuestId" -> "find"
                  [] topic = "reserve" -> "reserve"

Deliver(h, m) ==
    /\ pc[h] = "idle" /\ fate[m] = "waiting"
    /\ fate' = [fate EXCEPT ![m] = "taken"]
    /\ msg' = [msg EXCEPT ![h] = m]
    /\ Goto(h, First(m.topic))
    /\ UNCHANGED <<ledger, keys, retries, got, todo, output, past, incidents>>

Incident == incidents < MaxIncidents /\ incidents' = incidents + 1

\* A message that was handled arrives again, past the package's idempotency cache.
Redeliver(m) ==
    /\ Incident
    /\ fate[m] = "done"
    /\ fate' = [fate EXCEPT ![m] = "waiting"]
    /\ UNCHANGED <<ledger, keys, retries, handler, output, past>>

\* The service stops while it handles a message: Kafka delivers it again.
Crash(h) ==
    /\ Incident
    /\ pc[h] # "idle"
    /\ End(h, "waiting")
    /\ UNCHANGED <<ledger, keys, retries, output, past>>

\* The time to live of a sign-up key ends.
KeyExpires(i) ==
    /\ i \in keys
    /\ keys' = keys \ {i}
    /\ UNCHANGED <<ledger, fate, retries, handler, output, past, incidents>>
-----------------------------------------------------------------------------
(* handleAddGuest *)

ReadKey(h) ==
    /\ pc[h] = "key"
    /\ \/ /\ msg[h].of \in keys
          /\ Goto(h, "assign")
          /\ UNCHANGED <<fate, retries, msg, got, todo>>
       \/ /\ msg[h].of \notin keys
          /\ Throw(h)
    /\ UNCHANGED <<ledger, keys, output, past, incidents>>

\* Mutant: a log row that cannot be written ends the message.
AnsweredOrDone(h, s, label) ==
    \/ /\ Goto(h, label)
       /\ got' = [got EXCEPT ![h] = s]
       /\ UNCHANGED <<fate, retries, msg, todo>>
    \/ Done(h)

\* The seat service answers with seat s, or its logChange fails after the commit.
Answered(h, s, label) ==
    \/ /\ Goto(h, label)
       /\ got' = [got EXCEPT ![h] = s]
       /\ UNCHANGED <<fate, retries, msg, todo>>
    \/ Throw(h)

\* Mutant: nothing keeps a guest from a second seat.
ClaimAnother(i, s) ==
    /\ s \in Free(i) \cup Kept(i)
    /\ ledger' = [ledger EXCEPT ![s] = Holder(i)]

\* The compare-and-set of assignSeatToGuest.
Claim(i, s) ==
    /\ s \in Free(i) \cup Kept(i)
    /\ Unique(s, Holder(i))
    /\ ledger' = [ledger EXCEPT ![s] = Holder(i)]

\* An existing assignment is returned; else a seat is claimed; a seat that is missing, of
\* another event, taken, or refused by an index makes the service throw.
AssignSeatToGuest(h) ==
    LET i == msg[h].of IN
    /\ pc[h] = "assign"
    /\ \/ \E s \in Existing(i) : Answered(h, s, "ticket") /\ UNCHANGED <<ledger, gone, appointed>>
       \/ /\ Existing(i) = {}
          /\ \E s \in Choices(i) : /\ Claim(i, s) /\ Answered(h, s, "ticket")
                                  /\ appointed' = appointed \ {s}
          /\ gone' = GoneWithout(GuestOf[i])
       \/ /\ Existing(i) = {}
          /\ Throw(h)
          /\ UNCHANGED <<ledger, gone, appointed>>
    /\ UNCHANGED <<keys, output, lost, incidents>>

\* The mapping is written to Valkey for the ticket service, and the message that names it
\* is sent: it reaches Kafka, though the send may still fail in the handler's eyes.
SendTicket(h) ==
    /\ pc[h] = "ticket"
    /\ tickets' = tickets \cup {<<msg[h].of, got[h]>>}
    /\ Done(h) \/ Throw(h)
    /\ UNCHANGED <<ledger, keys, reserved, refused, past, incidents>>
-----------------------------------------------------------------------------
(* handleReserve *)

\* The seat the invitation already has, of whatever guest, or a free one; without
\* either, or when the claim of the free one is lost, the reservation is refused.
Reserve(h) ==
    LET i == msg[h].of
        found == {s \in SeatsOf(i) : ledger[s].invitation = i}
        answered(s) == /\ Goto(h, "reserved")
                       /\ got' = [got EXCEPT ![h] = s]
    IN /\ pc[h] = "reserve"
       /\ \/ /\ \E s \in found : answered(s)
             /\ UNCHANGED <<ledger, appointed>>
          \/ /\ found = {}
             /\ \E s \in Free(i) : /\ answered(s)
                                   /\ ledger' = [ledger EXCEPT ![s] = Keeper(i)]
                                   /\ appointed' = appointed \ {s}
          \/ /\ found = {}
             /\ Goto(h, "refused")
             /\ UNCHANGED <<ledger, got, appointed>>
       /\ UNCHANGED <<keys, fate, retries, msg, todo, output, lost, gone, incidents>>

SendReserved(h) ==
    /\ pc[h] = "reserved"
    /\ reserved' = reserved \cup {<<msg[h].of, got[h]>>}
    /\ Done(h) \/ Throw(h)
    /\ UNCHANGED <<ledger, keys, tickets, refused, past, incidents>>

SendRefused(h) ==
    /\ pc[h] = "refused"
    /\ refused' = refused \cup {msg[h].of}
    /\ Done(h) \/ Throw(h)
    /\ UNCHANGED <<ledger, keys, tickets, reserved, past, incidents>>
-----------------------------------------------------------------------------
(* handleRemoveGuest *)

\* Mutant: only one of the guest's seats is found.
SeatsOfGuestInOneEvent(g) ==
    IF \E s \in Seats : ledger[s].guest = g THEN {CHOOSE s \in Seats : ledger[s].guest = g} ELSE {}

SeatsOfGuest(g) == {s \in Seats : ledger[s].guest = g}

\* Without an ACTOR_ID header the handler returns: the message is done.
FindSeats(h) ==
    /\ pc[h] = "find"
    /\ \/ /\ ~msg[h].actor
          /\ Done(h)
          /\ UNCHANGED gone
       \/ /\ msg[h].actor
          /\ todo' = [todo EXCEPT ![h] = SeatsOfGuest(msg[h].of)]
          /\ gone' = gone \cup {msg[h]}
          /\ Goto(h, "release")
          /\ UNCHANGED <<fate, retries, msg, got>>
    /\ UNCHANGED <<ledger, keys, output, lost, appointed, incidents>>

\* Mutant: the loop does not advance.
UnassignSameSeat(h) ==
    /\ pc[h] = "release"
    /\ \/ /\ todo[h] = {}
          /\ Done(h)
          /\ UNCHANGED <<ledger, lost>>
       \/ /\ todo[h] # {}
          /\ \E s \in todo[h] : Release({s}) /\ lost' = lost \cup Losses({s})
          /\ UNCHANGED <<fate, retries, handler>>
    /\ UNCHANGED <<keys, output, gone, appointed, incidents>>

\* unassignSeat on the next seat, whoever holds it by now; its logChange may fail after
\* the commit.
UnassignSeats(h) ==
    /\ pc[h] = "release"
    /\ \/ /\ todo[h] = {}
          /\ Done(h)
          /\ UNCHANGED <<ledger, lost>>
       \/ \E s \in todo[h] :
            /\ Release({s}) /\ lost' = lost \cup Losses({s})
            /\ \/ /\ todo' = [todo EXCEPT ![h] = @ \ {s}]
                  /\ UNCHANGED <<fate, retries, pc, msg, got>>
               \/ ledger[s] # Nobody /\ Throw(h)
    /\ UNCHANGED <<keys, output, gone, appointed, incidents>>
-----------------------------------------------------------------------------
(* Administrators: unassignSeat, and assignSeat to a guest or to an invitation *)

AdminRelease(s) ==
    /\ Incident
    /\ ledger[s] # Nobody
    /\ Release({s}) /\ lost' = lost \cup Losses({s})
    /\ UNCHANGED <<keys, fate, retries, handler, output, gone, appointed>>

\* assignSeat refuses a guest together with an invitation.
Appointees == [guest : Guests, invitation : {None}] \cup [guest : {None}, invitation : Invitations]

\* The other seats of k in the event become free.  (Nothing changes where k has the seat
\* already.)
AdminAssign(s, k) ==
    LET F == {t \in Siblings(s) : Shares(k, ledger[t])}
    IN /\ Incident
       /\ ledger[s] = Nobody
       /\ Grant(s, k, F) /\ lost' = lost \cup Losses(F)
       /\ gone' = GoneWithout(k.guest)
       /\ appointed' = appointed \cup {s}
       /\ UNCHANGED <<keys, fate, retries, handler, output>>

Init ==
    /\ LedgerInit
    /\ keys = Invitations
    /\ fate = [m \in Messages |-> "waiting"]
    /\ retries = [m \in Messages |-> 0]
    /\ pc = [h \in Handlers |-> "idle"]
    /\ msg = [h \in Handlers |-> None]
    /\ got = [h \in Handlers |-> None]
    /\ todo = [h \in Handlers |-> {}]
    /\ tickets = {} /\ reserved = {} /\ refused = {}
    /\ lost = {} /\ gone = {} /\ appointed = {}
    /\ incidents = 0

Handle(h) == \/ ReadKey(h) \/ AssignSeatToGuest(h) \/ SendTicket(h)
             \/ Reserve(h) \/ SendReserved(h) \/ SendRefused(h)
             \/ FindSeats(h) \/ UnassignSeats(h)

Next == \/ \E h \in Handlers : Handle(h) \/ Fail(h) \/ Crash(h) \/ \E m \in Messages : Deliver(h, m)
        \/ \E m \in Messages : Redeliver(m)
        \/ \E i \in Invitations : KeyExpires(i)
        \/ \E s \in Seats : AdminRelease(s) \/ \E k \in Appointees : AdminAssign(s, k)

Spec == Init /\ [][Next]_vars

\* Kafka delivers what was published to a free handler, and every call returns.
Fairness == /\ \A m \in Messages : WF_vars(\E h \in Handlers : Deliver(h, m))
            /\ \A h \in Handlers : WF_vars(Handle(h))
FairSpec == Spec /\ Fairness
-----------------------------------------------------------------------------
(* Properties *)

Fates  == {"waiting", "taken", "done", "dead"}
Labels == {"idle", "key", "assign", "ticket", "reserve", "reserved", "refused",
           "find", "release"}

TypeOK ==
    /\ LedgerTypeOK
    /\ keys \subseteq Invitations
    /\ fate \in [Messages -> Fates]
    /\ retries \in [Messages -> 0 .. MaxRetries]
    /\ pc \in [Handlers -> Labels]
    /\ msg \in [Handlers -> Messages \cup {None}]
    /\ got \in [Handlers -> Seats \cup {None}]
    /\ todo \in [Handlers -> SUBSET Seats]
    /\ tickets \subseteq Invitations \X Seats
    /\ reserved \subseteq Invitations \X Seats /\ refused \subseteq Invitations
    /\ lost \subseteq Invitations \X Seats /\ gone \subseteq Messages
    /\ appointed \subseteq Seats
    /\ incidents \in 0 .. MaxIncidents

\* Whatever is retried, duplicated or lost, the seat of a ticket is the guest's own until
\* an administrator or a removal takes it back.
TicketsNameOwnSeats ==
    \A i \in Invitations, s \in Seats :
        <<i, s>> \in tickets => ledger[s] = Holder(i) \/ <<i, s>> \in lost

\* A message about i that is not handled to its end.
Unfinished(topic, i) ==
    \E m \in Messages : /\ m.topic = topic /\ m.of = i
                        /\ fate[m] \in {"waiting", "taken", "dead"}

\* No failure between the commit of a seat and the message about it leaves a guest whom a
\* handler gave the seat without ticket.create, or an invitation for which one keeps it
\* without seat.reserved, that no retry and no dead letter will make good.  Nobody sends a
\* message about a seat that an administrator assigned; once a handler gives it to
\* somebody it counts like any other.
HoldersAreTold ==
    \A s \in Seats \ appointed, i \in Invitations :
        /\ ledger[s] = Holder(i) => <<i, s>> \in tickets \/ Unfinished("addGuestId", i)
        /\ ledger[s] = Keeper(i) => <<i, s>> \in reserved \/ Unfinished("reserve", i)

\* After a removal that read the seats of the guest, as one without an actor does not, and was
\* handled to its end, the guest holds a seat in any event only if somebody assigned one since.
RemovalsAreComplete ==
    \A m \in Messages :
        m \in gone /\ fate[m] = "done" => SeatsOfGuest(m.of) = {}

\* Every message is handled to its end or becomes a dead letter.
EveryMessageEnds == \A m \in Messages : fate[m] = "waiting" ~> fate[m] \in {"done", "dead"}

\* "Redelivery is safe": a message whose assignment was made and taken back since, by a
\* removal or an administrator, does not seat the guest again.
RedeliveryIsSafe ==
    [][\A h \in Handlers : AssignSeatToGuest(h) /\ (\E s \in Seats : <<msg[h].of, s>> \in lost)
           => UNCHANGED ledger]_vars
=============================================================================
