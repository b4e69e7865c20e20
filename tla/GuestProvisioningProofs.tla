----------------------- MODULE GuestProvisioningProofs -----------------------
(***************************************************************************)
(* Proofs about GuestProvisioning, for any handlers, seats, events, guests *)
(* and messages and any number of retries and incidents.                   *)
(*                                                                         *)
(* The invariant is built in layers: what a handler is busy with           *)
(* (HandlersFit), who may hold a seat (SeatsFit), what is still to be told *)
(* (TicketsFit and Told), and which seats a removal has yet to free        *)
(* (Removed).                                                              *)
(***************************************************************************)
EXTENDS GuestProvisioning, TLAPS

-----------------------------------------------------------------------------
(* Handlers and messages *)

LabelsOf(topic) == CASE topic = "addGuestId"    -> {"key", "assign", "ticket"}
                     [] topic = "removeGuestId" -> {"find", "release"}
                     [] topic = "reserve"       -> {"reserve", "reserved", "refused"}

\* A busy handler has a message of its own, which is taken, and stands at a call of that
\* message's handler.
HandlersFit ==
    /\ fate \in [Messages -> Fates]
    /\ retries \in [Messages -> 0 .. MaxRetries]
    /\ pc \in [Handlers -> Labels]
    /\ msg \in [Handlers -> Messages \cup {None}]
    /\ got \in [Handlers -> Seats \cup {None}]
    /\ todo \in [Handlers -> SUBSET Seats]
    /\ \A h \in Handlers : pc[h] = "idle" => msg[h] = None
    /\ \A h \in Handlers : pc[h] # "idle" => /\ msg[h] \in Messages
                                             /\ fate[msg[h]] = "taken"
                                             /\ pc[h] \in LabelsOf(msg[h].topic)
    /\ \A g, h \in Handlers : g # h /\ msg[g] # None => msg[g] # msg[h]
    /\ \A h \in Handlers : pc[h] \in {"ticket", "reserved"} => got[h] \in Seats

LEMMA MessageType ==
    ASSUME NEW m \in Messages
    PROVE  /\ m \notin {None} /\ m.topic \in Topics
           /\ m.topic = "removeGuestId" => m.of \in Guests
           /\ m.topic # "removeGuestId" => m.of \in Invitations
BY ProvisioningAssumption

LEMMA EndFits ==
    ASSUME HandlersFit, NEW h \in Handlers, pc[h] # "idle", NEW f \in Fates, End(h, f),
           retries' \in [Messages -> 0 .. MaxRetries]
    PROVE  HandlersFit'
<1>1. pc' = [pc EXCEPT ![h] = "idle"] /\ fate' = [fate EXCEPT ![msg[h]] = f]
      /\ msg' = [msg EXCEPT ![h] = None] /\ got' = [got EXCEPT ![h] = None]
      /\ todo' = [todo EXCEPT ![h] = {}]
  BY DEF End, Goto
<1>2. \A g \in Handlers \ {h} : msg[g] # msg[h]
  BY MessageType DEF HandlersFit
<1>3. /\ fate' \in [Messages -> Fates] /\ pc' \in [Handlers -> Labels]
      /\ msg' \in [Handlers -> Messages \cup {None}]
      /\ got' \in [Handlers -> Seats \cup {None}] /\ todo' \in [Handlers -> SUBSET Seats]
  BY <1>1 DEF HandlersFit, Labels
<1>4. /\ \A g \in Handlers : pc'[g] = "idle" => msg'[g] = None
      /\ \A g, k \in Handlers : g # k /\ msg'[g] # None => msg'[g] # msg'[k]
      /\ \A g \in Handlers : pc'[g] \in {"ticket", "reserved"} => got'[g] \in Seats
  BY <1>1 DEF HandlersFit
<1>5. \A g \in Handlers : pc'[g] # "idle" => /\ msg'[g] \in Messages
                                             /\ fate'[msg'[g]] = "taken"
                                             /\ pc'[g] \in LabelsOf(msg'[g].topic)
  BY <1>1, <1>2 DEF HandlersFit
<1> QED BY <1>3, <1>4, <1>5 DEF HandlersFit

LEMMA ThrowFits ==
    ASSUME HandlersFit, NEW h \in Handlers, pc[h] # "idle", Throw(h)
    PROVE  /\ HandlersFit'
           /\ \E f \in {"waiting", "dead"} : End(h, f)
<1>1. msg[h] \in Messages
  BY DEF HandlersFit
<1>2. CASE retries[msg[h]] < MaxRetries
  <2>1. End(h, "waiting") /\ retries' = [retries EXCEPT ![msg[h]] = @ + 1]
    BY <1>2 DEF Throw
  <2>2. retries' \in [Messages -> 0 .. MaxRetries]
    BY <1>1, <1>2, <2>1, ProvisioningAssumption DEF HandlersFit
  <2>3. HandlersFit'
    BY <2>1, <2>2, EndFits DEF Fates
  <2> QED BY <2>1, <2>3
<1>3. CASE ~(retries[msg[h]] < MaxRetries)
  <2>1. End(h, "dead") /\ UNCHANGED retries
    BY <1>3 DEF Throw
  <2>2. retries' \in [Messages -> 0 .. MaxRetries]
    BY <2>1 DEF HandlersFit
  <2>3. HandlersFit'
    BY <2>1, <2>2, EndFits DEF Fates
  <2> QED BY <2>1, <2>3
<1> QED BY <1>2, <1>3

LEMMA DoneFits ==
    ASSUME HandlersFit, NEW h \in Handlers, pc[h] # "idle", Done(h)
    PROVE  HandlersFit'
BY EndFits DEF Done, Fates, HandlersFit

\* The handler goes on to another call, with a seat when the call needs one.
LEMMA GotoFits ==
    ASSUME HandlersFit, NEW h \in Handlers, pc[h] # "idle",
           NEW label \in LabelsOf(msg[h].topic), Goto(h, label),
           NEW s \in Seats \cup {None}, got' = [got EXCEPT ![h] = s],
           label \in {"ticket", "reserved"} => s \in Seats,
           todo' \in [Handlers -> SUBSET Seats], UNCHANGED <<fate, retries, msg>>
    PROVE  HandlersFit'
<1>1. label \in Labels /\ label # "idle"
  BY MessageType DEF HandlersFit, LabelsOf, Labels, Topics
<1> QED BY <1>1 DEF HandlersFit, Goto

LEMMA DeliverFits ==
    ASSUME HandlersFit, NEW h \in Handlers, NEW m \in Messages, Deliver(h, m)
    PROVE  HandlersFit'
<1>1. First(m.topic) \in LabelsOf(m.topic) /\ First(m.topic) \in Labels
      /\ First(m.topic) \notin {"idle", "ticket", "reserved"}
  BY MessageType DEF First, LabelsOf, Labels, Topics
<1>2. /\ fate' = [fate EXCEPT ![m] = "taken"] /\ msg' = [msg EXCEPT ![h] = m]
      /\ pc' = [pc EXCEPT ![h] = First(m.topic)] /\ UNCHANGED <<retries, got, todo>>
      /\ fate[m] = "waiting"
  BY DEF Deliver, Goto
<1>3. \A g \in Handlers : msg[g] # m
  BY <1>2, MessageType DEF HandlersFit
<1>4. /\ fate' \in [Messages -> Fates] /\ pc' \in [Handlers -> Labels]
      /\ msg' \in [Handlers -> Messages \cup {None}]
  BY <1>1, <1>2 DEF HandlersFit, Fates
<1> QED BY <1>1, <1>2, <1>3, <1>4 DEF HandlersFit

LEMMA RedeliverFits ==
    ASSUME HandlersFit, NEW m \in Messages, Redeliver(m)
    PROVE  HandlersFit'
BY DEF HandlersFit, Redeliver, handler, Fates
\* Every action keeps the handlers and their messages together.
LEMMA ActionFits ==
    ASSUME HandlersFit, NEW h \in Handlers, Handle(h) \/ Fail(h) \/ Crash(h)
    PROVE  HandlersFit'
<1> USE DEF HandlersFit
<1>1. CASE ReadKey(h)
  <2>1. CASE Throw(h)
    BY <1>1, <2>1, ThrowFits DEF ReadKey
  <2>2. CASE Goto(h, "assign") /\ UNCHANGED <<fate, retries, msg, got, todo>>
    <3>1. pc[h] = "key" /\ msg[h].topic = "addGuestId"
      BY <1>1, MessageType DEF ReadKey, LabelsOf, Topics
    <3>2. got' = [got EXCEPT ![h] = got[h]] /\ got[h] \in Seats \cup {None}
      BY <2>2
    <3> QED BY <2>2, <3>1, <3>2, GotoFits DEF LabelsOf
  <2> QED BY <1>1, <2>1, <2>2 DEF ReadKey
<1>2. CASE AssignSeatToGuest(h)
  <2>1. pc[h] = "assign" /\ msg[h].topic = "addGuestId"
    BY <1>2, MessageType DEF AssignSeatToGuest, LabelsOf, Topics
  <2>2. Throw(h) \/ \E s \in Seats : Answered(h, s, "ticket")
    BY <1>2 DEF AssignSeatToGuest, Existing, Choices, Claim, Free, Kept, SeatsOf
  <2>3. ASSUME NEW s \in Seats, Answered(h, s, "ticket"), ~Throw(h)
        PROVE  HandlersFit'
    <3>1. Goto(h, "ticket") /\ got' = [got EXCEPT ![h] = s] /\ UNCHANGED <<fate, retries, msg, todo>>
      BY <2>3 DEF Answered
    <3> QED BY <2>1, <3>1, GotoFits DEF LabelsOf
  <2> QED BY <2>1, <2>2, <2>3, ThrowFits
<1>3. CASE SendTicket(h)
  BY <1>3, ThrowFits, DoneFits DEF SendTicket
<1>4. CASE Reserve(h)
  <2>1. pc[h] = "reserve" /\ msg[h].topic = "reserve" /\ UNCHANGED <<fate, retries, msg, todo>>
    BY <1>4, MessageType DEF Reserve, LabelsOf, Topics
  <2>2. \/ \E s \in Seats : Goto(h, "reserved") /\ got' = [got EXCEPT ![h] = s]
        \/ Goto(h, "refused") /\ UNCHANGED got
    BY <1>4 DEF Reserve, SeatsOf, Free
  <2>3. CASE Goto(h, "refused") /\ UNCHANGED got
    <3>1. got' = [got EXCEPT ![h] = got[h]] /\ got[h] \in Seats \cup {None}
      BY <2>3
    <3> QED BY <2>1, <2>3, <3>1, GotoFits DEF LabelsOf
  <2>4. ASSUME NEW s \in Seats, Goto(h, "reserved"), got' = [got EXCEPT ![h] = s]
        PROVE  HandlersFit'
    BY <2>1, <2>4, GotoFits DEF LabelsOf
  <2> QED BY <2>2, <2>3, <2>4
<1>5. CASE SendReserved(h)
  BY <1>5, ThrowFits, DoneFits DEF SendReserved
<1>6. CASE SendRefused(h)
  BY <1>6, ThrowFits, DoneFits DEF SendRefused
<1>7. CASE FindSeats(h)
  <2>1. CASE Done(h)
    BY <1>7, <2>1, DoneFits DEF FindSeats
  <2>2. CASE /\ todo' = [todo EXCEPT ![h] = SeatsOfGuest(msg[h].of)]
             /\ Goto(h, "release") /\ UNCHANGED <<fate, retries, msg, got>>
    <3>1. pc[h] = "find" /\ msg[h].topic = "removeGuestId"
      BY <1>7, MessageType DEF FindSeats, LabelsOf, Topics
    <3>2. got' = [got EXCEPT ![h] = got[h]] /\ got[h] \in Seats \cup {None}
      BY <2>2
    <3>3. todo' \in [Handlers -> SUBSET Seats]
      BY <2>2 DEF SeatsOfGuest
    <3> QED BY <2>2, <3>1, <3>2, <3>3, GotoFits DEF LabelsOf
  <2> QED BY <1>7, <2>1, <2>2 DEF FindSeats
<1>8. CASE UnassignSeats(h)
  <2>1. pc[h] = "release"
    BY <1>8 DEF UnassignSeats
  <2>2. CASE Throw(h) \/ Done(h)
    BY <2>1, <2>2, ThrowFits, DoneFits
  <2>3. ASSUME NEW s \in todo[h], todo' = [todo EXCEPT ![h] = @ \ {s}],
               UNCHANGED <<fate, retries, pc, msg, got>>
        PROVE  HandlersFit'
    BY <2>3
  <2> QED BY <1>8, <2>2, <2>3 DEF UnassignSeats
<1>9. CASE Fail(h)
  BY <1>9, ThrowFits DEF Fail
<1>10. CASE Crash(h)
  BY <1>10, EndFits DEF Crash, Fates
<1> QED BY <1>1, <1>2, <1>3, <1>4, <1>5, <1>6, <1>7, <1>8, <1>9, <1>10 DEF Handle

LEMMA HandlersStay ==
    ASSUME HandlersFit, [Next]_vars
    PROVE  HandlersFit'
<1>1. ASSUME NEW h \in Handlers, Handle(h) \/ Fail(h) \/ Crash(h)
      PROVE  HandlersFit'
  BY <1>1, ActionFits
<1>2. ASSUME NEW h \in Handlers, NEW m \in Messages, Deliver(h, m)
      PROVE  HandlersFit'
  BY <1>2, DeliverFits
<1>3. ASSUME NEW m \in Messages, Redeliver(m)
      PROVE  HandlersFit'
  BY <1>3, RedeliverFits
<1>4. CASE UNCHANGED <<fate, retries, handler>>
  BY <1>4 DEF HandlersFit, handler
<1>5. ASSUME NEW i \in Invitations, KeyExpires(i)
      PROVE  UNCHANGED <<fate, retries, handler>>
  BY <1>5 DEF KeyExpires
<1>6. ASSUME NEW s \in Seats, AdminRelease(s) \/ \E k \in Appointees : AdminAssign(s, k)
      PROVE  UNCHANGED <<fate, retries, handler>>
  BY <1>6 DEF AdminRelease, AdminAssign
<1>7. CASE UNCHANGED vars
  BY <1>7, <1>4 DEF vars
<1> QED BY <1>1, <1>2, <1>3, <1>4, <1>5, <1>6, <1>7 DEF Next
-----------------------------------------------------------------------------
(* Seats *)

\* An invitation has at most one seat in an event, and from the handlers only seats of the
\* event it invites to.
SeatsFit ==
    /\ ledger \in [Seats -> Holders]
    /\ appointed \subseteq Seats
    /\ \A s \in Seats \ appointed : ledger[s].invitation # None =>
                                        EventOf[s] = InvitedTo[ledger[s].invitation]
    /\ \A s \in Seats : \A t \in Siblings(s) :
           ledger[s].invitation = ledger[t].invitation => ledger[s].invitation = None

LEMMA HolderTypes ==
    ASSUME NEW i \in Invitations
    PROVE  /\ Holder(i) \in Holders /\ Keeper(i) \in Holders
           /\ Holder(i).invitation = i /\ Keeper(i).invitation = i
           /\ Holder(i).guest # None /\ Keeper(i).guest = None /\ i # None
           /\ Holder(i) # Nobody /\ Keeper(i) # Nobody
           /\ \A j \in Invitations : Holder(i) # Keeper(j)
BY ProvisioningAssumption DEF Holder, Keeper, Holders, Nobody

\* What one step does to the seats: nothing; a guest claims the seat; an invitation takes
\* one; seats are freed; an administrator gives a seat to a guest or an invitation.
SeatStep ==
    \/ UNCHANGED <<ledger, lost, appointed>>
    \/ \E i \in Invitations : \E s \in Seats :
         Claim(i, s) /\ UNCHANGED lost /\ appointed' = appointed \ {s}
    \/ \E i \in Invitations : \E s \in Free(i) :
         /\ \A t \in SeatsOf(i) : ledger[t].invitation # i
         /\ ledger' = [ledger EXCEPT ![s] = Keeper(i)]
         /\ UNCHANGED lost /\ appointed' = appointed \ {s}
    \/ \E F \in SUBSET Seats :
         Release(F) /\ lost' = lost \cup Losses(F) /\ UNCHANGED appointed
    \/ \E s \in Seats : \E k \in Appointees : \E F \in SUBSET Seats :
         /\ ledger[s] = Nobody
         /\ Grant(s, k, F)
         /\ lost' = lost \cup Losses(F) /\ appointed' = appointed \cup {s}

LEMMA SeatStepKeeps ==
    ASSUME SeatsFit, SeatStep
    PROVE  /\ SeatsFit'
           /\ \A i \in Invitations : \A s \in Seats :
                 ledger[s] = Holder(i) \/ <<i, s>> \in lost
                     => ledger'[s] = Holder(i) \/ <<i, s>> \in lost'
<1> DEFINE Keeps == \A j \in Invitations : \A t \in Seats :
                       ledger[t] = Holder(j) \/ <<j, t>> \in lost
                           => ledger'[t] = Holder(j) \/ <<j, t>> \in lost'
<1>1. CASE UNCHANGED <<ledger, lost, appointed>>
  <2>1. SeatsFit' /\ Keeps
    BY <1>1 DEF SeatsFit
  <2> QED BY <2>1
<1>2. ASSUME NEW i \in Invitations, NEW s \in SeatsOf(i), NEW k \in {Holder(i), Keeper(i)},
             \A t \in Siblings(s) : ledger[t].invitation # i,
             ledger[s] \in {Nobody, Keeper(i)}, ledger' = [ledger EXCEPT ![s] = k],
             UNCHANGED lost, appointed' = appointed \ {s}
      PROVE  SeatsFit' /\ Keeps
  <2>1. s \in Seats /\ EventOf[s] = InvitedTo[i] /\ k \in Holders /\ k.invitation = i /\ i # None
    BY <1>2, HolderTypes DEF SeatsOf
  <2>2. ledger' \in [Seats -> Holders] /\ ledger'[s].invitation = i
        /\ \A t \in Seats \ {s} : ledger'[t] = ledger[t]
    BY <1>2, <2>1 DEF SeatsFit
  <2>3. \A t \in Seats \ appointed' : ledger'[t].invitation # None =>
                                          EventOf[t] = InvitedTo[ledger'[t].invitation]
    BY <1>2, <2>1, <2>2 DEF SeatsFit
  <2>4. \A t \in Seats : \A u \in Siblings(t) :
           ledger'[t].invitation = ledger'[u].invitation => ledger'[t].invitation = None
    BY <1>2, <2>1, <2>2 DEF SeatsFit, Siblings
  <2>5. SeatsFit'
    BY <1>2, <2>2, <2>3, <2>4 DEF SeatsFit
  <2>6. \A j \in Invitations : ledger[s] # Holder(j)
    BY <1>2, HolderTypes
  <2> QED BY <1>2, <2>2, <2>5, <2>6
<1>3. ASSUME NEW i \in Invitations, NEW s \in Seats, Claim(i, s), UNCHANGED lost,
             appointed' = appointed \ {s}
      PROVE  SeatsFit' /\ Keeps
  <2>1. /\ ledger' = [ledger EXCEPT ![s] = Holder(i)] /\ s \in SeatsOf(i)
        /\ ledger[s] \in {Nobody, Keeper(i)}
    BY <1>3 DEF Claim, Free, Kept, SeatsOf
  <2>2. \A t \in Siblings(s) : ledger[t].invitation # i
    BY <1>3, HolderTypes DEF Claim, Unique, Shares
  <2> QED BY <1>2, <1>3, <2>1, <2>2
<1>4. ASSUME NEW i \in Invitations, NEW s \in Free(i),
             \A t \in SeatsOf(i) : ledger[t].invitation # i,
             ledger' = [ledger EXCEPT ![s] = Keeper(i)], UNCHANGED lost,
             appointed' = appointed \ {s}
      PROVE  SeatsFit' /\ Keeps
  <2>1. s \in SeatsOf(i) /\ ledger[s] \in {Nobody, Keeper(i)}
    BY DEF Free
  <2>2. \A t \in Siblings(s) : ledger[t].invitation # i
    BY <1>4, <2>1 DEF SeatsOf, Siblings
  <2> QED BY <1>2, <1>4, <2>1, <2>2
<1>5. ASSUME NEW F \in SUBSET Seats, Release(F), lost' = lost \cup Losses(F), UNCHANGED appointed
      PROVE  SeatsFit' /\ Keeps
  <2>1. /\ ledger' = [t \in Seats |-> IF t \in F THEN Nobody ELSE ledger[t]]
        /\ Nobody \in Holders /\ Nobody.invitation = None
    BY <1>5 DEF Release, Nobody, Holders
  <2>2. SeatsFit'
    BY <1>5, <2>1 DEF SeatsFit, Siblings
  <2> QED BY <1>5, <2>1, <2>2 DEF Losses
<1>6. ASSUME NEW s \in Seats, NEW k \in Appointees, NEW F \in SUBSET Seats, ledger[s] = Nobody,
             Grant(s, k, F), lost' = lost \cup Losses(F), appointed' = appointed \cup {s}
      PROVE  SeatsFit' /\ Keeps
  <2>1. /\ ledger' = [t \in Seats |-> IF t = s THEN k ELSE IF t \in F THEN Nobody ELSE ledger[t]]
        /\ s \notin F /\ Nobody \in Holders /\ Nobody.invitation = None /\ k \in Holders
    BY <1>6 DEF Grant, Nobody, Holders, Appointees
  <2>2. \A t \in Siblings(s) : ledger'[t].invitation = k.invitation => k.invitation = None
    <3>1. \A t \in Siblings(s) \ F : k.invitation # None => k.invitation # ledger[t].invitation
      BY <1>6 DEF Grant, Shares
    <3> QED BY <2>1, <3>1 DEF Siblings
  <2>3. /\ ledger' \in [Seats -> Holders] /\ ledger'[s] = k
        /\ \A t \in Seats \ {s} : ledger'[t] \in {ledger[t], Nobody}
    BY <2>1 DEF SeatsFit
  <2>4. \A t \in Seats : \A u \in Siblings(t) :
           ledger'[t].invitation = ledger'[u].invitation => ledger'[t].invitation = None
    BY <2>1, <2>2, <2>3 DEF SeatsFit, Siblings
  <2>5. \A t \in Seats \ appointed' : ledger'[t].invitation # None =>
                                          EventOf[t] = InvitedTo[ledger'[t].invitation]
    BY <1>6, <2>1, <2>3 DEF SeatsFit
  <2>6. SeatsFit'
    BY <1>6, <2>3, <2>4, <2>5 DEF SeatsFit
  <2>7. \A j \in Invitations : ledger[s] # Holder(j)
    BY <1>6, HolderTypes
  <2> QED BY <1>6, <2>1, <2>6, <2>7 DEF Losses
<1> QED BY <1>1, <1>3, <1>4, <1>5, <1>6 DEF SeatStep, Keeps

\* Every action is a step of the seats.
LEMMA ActionIsSeatStep ==
    ASSUME HandlersFit, Next
    PROVE  SeatStep
<1>1. ASSUME NEW h \in Handlers, AssignSeatToGuest(h)
      PROVE  SeatStep
  <2>1. msg[h].of \in Invitations /\ UNCHANGED lost
    BY <1>1, MessageType DEF AssignSeatToGuest, HandlersFit, LabelsOf, Topics
  <2>2. \/ UNCHANGED <<ledger, appointed>>
        \/ \E s \in Seats : Claim(msg[h].of, s) /\ appointed' = appointed \ {s}
    BY <1>1 DEF AssignSeatToGuest, Claim, Free, Kept, SeatsOf
  <2> QED BY <2>1, <2>2 DEF SeatStep
<1>2. ASSUME NEW h \in Handlers, Reserve(h)
      PROVE  SeatStep
  <2>1. msg[h].of \in Invitations /\ UNCHANGED lost
    BY <1>2, MessageType DEF Reserve, HandlersFit, LabelsOf, Topics
  <2>2. CASE UNCHANGED <<ledger, appointed>>
    BY <2>1, <2>2 DEF SeatStep
  <2>3. ASSUME NEW s \in Free(msg[h].of), ledger' = [ledger EXCEPT ![s] = Keeper(msg[h].of)],
               appointed' = appointed \ {s},
               {t \in SeatsOf(msg[h].of) : ledger[t].invitation = msg[h].of} = {}
        PROVE  SeatStep
    BY <2>1, <2>3 DEF SeatStep
  <2> QED BY <1>2, <2>2, <2>3 DEF Reserve
<1>3. ASSUME NEW h \in Handlers, UnassignSeats(h)
      PROVE  SeatStep
  <2>1. CASE UNCHANGED <<ledger, lost, appointed>>
    BY <2>1 DEF SeatStep
  <2>2. ASSUME NEW s \in todo[h], Release({s}), lost' = lost \cup Losses({s}),
               UNCHANGED appointed
        PROVE  SeatStep
    <3>1. {s} \in SUBSET Seats
      BY <2>2 DEF HandlersFit
    <3> QED BY <2>2, <3>1 DEF SeatStep
  <2> QED BY <1>3, <2>1, <2>2 DEF UnassignSeats
<1>4. ASSUME NEW s \in Seats, AdminRelease(s)
      PROVE  SeatStep
  <2>1. {s} \in SUBSET Seats
    OBVIOUS
  <2> QED BY <1>4, <2>1 DEF AdminRelease, SeatStep
<1>5. ASSUME NEW s \in Seats, NEW k \in Appointees, AdminAssign(s, k)
      PROVE  SeatStep
  <2> DEFINE F == {t \in Siblings(s) : Shares(k, ledger[t])}
  <2>1. /\ ledger[s] = Nobody /\ lost' = lost \cup Losses(F)
        /\ Grant(s, k, F) /\ appointed' = appointed \cup {s}
    BY <1>5 DEF AdminAssign
  <2>2. F \in SUBSET Seats
    BY DEF Siblings
  <2> HIDE DEF F
  <2> QED BY <2>1, <2>2 DEF SeatStep
<1>6. ASSUME NEW h \in Handlers,
             ReadKey(h) \/ SendTicket(h) \/ SendReserved(h) \/ SendRefused(h) \/ FindSeats(h)
      PROVE  SeatStep
  <2>1. UNCHANGED <<ledger, lost, appointed>>
    BY <1>6 DEF ReadKey, SendTicket, SendReserved, SendRefused, FindSeats, past
  <2> QED BY <2>1 DEF SeatStep
<1>7. ASSUME NEW h \in Handlers, Fail(h) \/ Crash(h) \/ \E m \in Messages : Deliver(h, m)
      PROVE  SeatStep
  <2>1. UNCHANGED <<ledger, lost, appointed>>
    BY <1>7 DEF Fail, Crash, Deliver, past
  <2> QED BY <2>1 DEF SeatStep
<1>8. ASSUME (\E m \in Messages : Redeliver(m)) \/ (\E i \in Invitations : KeyExpires(i))
      PROVE  SeatStep
  <2>1. UNCHANGED <<ledger, lost, appointed>>
    BY <1>8 DEF Redeliver, KeyExpires, past
  <2> QED BY <2>1 DEF SeatStep
<1> QED BY <1>1, <1>2, <1>3, <1>4, <1>5, <1>6, <1>7, <1>8 DEF Next, Handle

LEMMA SeatsStay ==
    ASSUME HandlersFit, SeatsFit, [Next]_vars
    PROVE  /\ SeatsFit'
           /\ \A i \in Invitations : \A s \in Seats :
                 ledger[s] = Holder(i) \/ <<i, s>> \in lost
                     => ledger'[s] = Holder(i) \/ <<i, s>> \in lost'
<1>1. SeatStep
  BY ActionIsSeatStep DEF vars, past, SeatStep
<1> QED BY <1>1, SeatStepKeeps
-----------------------------------------------------------------------------
(* Types *)

\* The parts of the type invariant that are not in HandlersFit or SeatsFit.
OutputFits ==
    /\ keys \subseteq Invitations
    /\ tickets \subseteq Invitations \X Seats
    /\ reserved \subseteq Invitations \X Seats /\ refused \subseteq Invitations
    /\ lost \subseteq Invitations \X Seats /\ gone \subseteq Messages
    /\ incidents \in 0 .. MaxIncidents

LEMMA OutputStays ==
    ASSUME HandlersFit, OutputFits, [Next]_vars
    PROVE  OutputFits'
<1> USE DEF OutputFits, output, past
<1>1. \A F \in SUBSET Seats : Losses(F) \subseteq Invitations \X Seats
  BY DEF Losses
<1>2. ASSUME Incident
      PROVE  incidents' \in 0 .. MaxIncidents
  BY <1>2, ProvisioningAssumption DEF Incident
<1>3. ASSUME NEW h \in Handlers, Handle(h)
      PROVE  OutputFits'
  <2>1. CASE ReadKey(h)
    BY <2>1 DEF ReadKey
  <2>2. CASE AssignSeatToGuest(h)
    BY <2>2 DEF AssignSeatToGuest, GoneWithout
  <2>3. CASE SendTicket(h)
    <3>1. msg[h].of \in Invitations /\ got[h] \in Seats
      BY <2>3, MessageType DEF SendTicket, HandlersFit, LabelsOf, Topics
    <3> QED BY <2>3, <3>1 DEF SendTicket
  <2>4. CASE Reserve(h)
    BY <2>4 DEF Reserve
  <2>5. CASE SendReserved(h)
    <3>1. msg[h].of \in Invitations /\ got[h] \in Seats
      BY <2>5, MessageType DEF SendReserved, HandlersFit, LabelsOf, Topics
    <3> QED BY <2>5, <3>1 DEF SendReserved
  <2>6. CASE SendRefused(h)
    <3>1. msg[h].of \in Invitations
      BY <2>6, MessageType DEF SendRefused, HandlersFit, LabelsOf, Topics
    <3> QED BY <2>6, <3>1 DEF SendRefused
  <2>7. CASE FindSeats(h)
    <3>1. msg[h] \in Messages
      BY <2>7 DEF FindSeats, HandlersFit
    <3> QED BY <2>7, <3>1 DEF FindSeats
  <2>8. CASE UnassignSeats(h)
    <3>1. UNCHANGED lost \/ \E s \in Seats : lost' = lost \cup Losses({s})
      BY <2>8 DEF UnassignSeats, HandlersFit
    <3>2. \A s \in Seats : {s} \in SUBSET Seats
      OBVIOUS
    <3>3. lost' \subseteq Invitations \X Seats
      BY <1>1, <3>1, <3>2
    <3> QED BY <2>8, <3>3 DEF UnassignSeats
  <2> QED BY <1>3, <2>1, <2>2, <2>3, <2>4, <2>5, <2>6, <2>7, <2>8 DEF Handle
<1>4. ASSUME NEW h \in Handlers, Fail(h) \/ \E m \in Messages : Deliver(h, m)
      PROVE  OutputFits'
  BY <1>4 DEF Fail, Deliver
<1>5. ASSUME NEW h \in Handlers, Crash(h)
      PROVE  OutputFits'
  BY <1>2, <1>5 DEF Crash
<1>6. ASSUME NEW m \in Messages, Redeliver(m)
      PROVE  OutputFits'
  BY <1>2, <1>6 DEF Redeliver
<1>7. ASSUME NEW i \in Invitations, KeyExpires(i)
      PROVE  OutputFits'
  BY <1>7 DEF KeyExpires
<1>8. ASSUME NEW s \in Seats, AdminRelease(s)
      PROVE  OutputFits'
  <2>1. {s} \in SUBSET Seats
    OBVIOUS
  <2> QED BY <1>1, <1>2, <1>8, <2>1 DEF AdminRelease
<1>9. ASSUME NEW s \in Seats, NEW k \in Appointees, AdminAssign(s, k)
      PROVE  OutputFits'
  <2>1. \E F \in SUBSET Seats : lost' = lost \cup Losses(F)
    BY <1>9 DEF AdminAssign, Siblings
  <2>2. lost' \subseteq Invitations \X Seats
    BY <1>1, <2>1
  <2> QED BY <1>2, <1>9, <2>2 DEF AdminAssign, GoneWithout
<1>10. CASE UNCHANGED vars
  BY <1>10 DEF vars
<1> QED BY <1>3, <1>4, <1>5, <1>6, <1>7, <1>8, <1>9, <1>10 DEF Next
-----------------------------------------------------------------------------
(* What a handler does to its own message *)

\* The handler gives its message back, finishes it, or makes its next call; the others
\* and their messages are left alone.
HandlerStep(h) ==
    /\ \A g \in Handlers \ {h} : pc'[g] = pc[g] /\ msg'[g] = msg[g] /\ got'[g] = got[g]
    /\ \A m \in Messages \ {msg[h]} : fate'[m] = fate[m]
    /\ tickets \subseteq tickets' /\ reserved \subseteq reserved'
    /\ \/ pc'[h] = "idle" /\ fate'[msg[h]] \in {"waiting", "dead"}
       \/ /\ pc'[h] = "idle" /\ fate'[msg[h]] = "done"
          /\ \/ pc[h] = "ticket" /\ <<msg[h].of, got[h]>> \in tickets'
             \/ pc[h] = "reserved" /\ <<msg[h].of, got[h]>> \in reserved'
             \/ pc[h] \in {"refused", "find", "release"}
       \/ /\ msg'[h] = msg[h]
          /\ \/ pc[h] = "key" /\ pc'[h] = "assign"
             \/ /\ pc[h] = "assign" /\ pc'[h] = "ticket"
                /\ got'[h] \in SeatsOf(msg[h].of) /\ ledger'[got'[h]] = Holder(msg[h].of)
             \/ /\ pc[h] = "reserve" /\ pc'[h] = "reserved"
                /\ got'[h] \in SeatsOf(msg[h].of) /\ ledger'[got'[h]].invitation = msg[h].of
             \/ /\ pc[h] = "reserve" /\ pc'[h] = "refused" /\ UNCHANGED ledger
                /\ \A s \in SeatsOf(msg[h].of) : ledger[s].invitation # msg[h].of
             \/ pc[h] \in {"find", "release"} /\ pc'[h] = "release"
    /\ \A i \in Invitations, s \in Seats : <<i, s>> \in tickets' \ tickets
           => pc[h] = "ticket" /\ i = msg[h].of /\ s = got[h]

LEMMA EndIsStep ==
    ASSUME HandlersFit, NEW h \in Handlers, pc[h] # "idle",
           NEW f \in {"waiting", "dead"}, End(h, f),
           \/ UNCHANGED tickets
           \/ pc[h] = "ticket" /\ tickets' = tickets \cup {<<msg[h].of, got[h]>>},
           reserved \subseteq reserved'
    PROVE  HandlerStep(h)
<1>1. /\ pc'[h] = "idle" /\ fate'[msg[h]] = f
      /\ \A g \in Handlers \ {h} : pc'[g] = pc[g] /\ msg'[g] = msg[g] /\ got'[g] = got[g]
      /\ \A m \in Messages \ {msg[h]} : fate'[m] = fate[m]
  BY DEF End, Goto, HandlersFit
<1>2. \A i \in Invitations, s \in Seats : <<i, s>> \in tickets' \ tickets
           => pc[h] = "ticket" /\ i = msg[h].of /\ s = got[h]
  OBVIOUS
<1> QED BY <1>1, <1>2 DEF HandlerStep

LEMMA ThrowIsStep ==
    ASSUME HandlersFit, NEW h \in Handlers, pc[h] # "idle", Throw(h),
           \/ UNCHANGED tickets
           \/ pc[h] = "ticket" /\ tickets' = tickets \cup {<<msg[h].of, got[h]>>},
           reserved \subseteq reserved'
    PROVE  HandlerStep(h)
BY ThrowFits, EndIsStep

\* A message is handled to its end only after what it asks for is done.
LEMMA DoneIsStep ==
    ASSUME HandlersFit, NEW h \in Handlers, Done(h),
           \/ /\ pc[h] = "ticket" /\ UNCHANGED reserved
              /\ tickets' = tickets \cup {<<msg[h].of, got[h]>>}
           \/ /\ pc[h] = "reserved" /\ UNCHANGED tickets
              /\ reserved' = reserved \cup {<<msg[h].of, got[h]>>}
           \/ pc[h] \in {"refused", "find", "release"} /\ UNCHANGED <<tickets, reserved>>
    PROVE  HandlerStep(h)
<1>1. /\ pc'[h] = "idle" /\ fate'[msg[h]] = "done"
      /\ \A g \in Handlers \ {h} : pc'[g] = pc[g] /\ msg'[g] = msg[g] /\ got'[g] = got[g]
      /\ \A m \in Messages \ {msg[h]} : fate'[m] = fate[m]
  BY DEF Done, End, Goto, HandlersFit
<1>2. \A i \in Invitations, s \in Seats : <<i, s>> \in tickets' \ tickets
           => pc[h] = "ticket" /\ i = msg[h].of /\ s = got[h]
  OBVIOUS
<1> QED BY <1>1, <1>2 DEF HandlerStep

LEMMA ActionIsHandlerStep ==
    ASSUME HandlersFit, SeatsFit, NEW h \in Handlers, Handle(h) \/ Fail(h) \/ Crash(h)
    PROVE  HandlerStep(h)
<1>1. CASE ReadKey(h)
  <2>1. CASE Throw(h)
    BY <1>1, <2>1, ThrowIsStep DEF ReadKey, output
  <2>2. CASE ~Throw(h)
    <3>1. /\ pc[h] = "key" /\ pc' = [pc EXCEPT ![h] = "assign"]
          /\ UNCHANGED <<fate, msg, got, tickets, reserved>>
      BY <1>1, <2>2 DEF ReadKey, Goto, output
    <3> QED BY <3>1 DEF HandlerStep, HandlersFit
  <2> QED BY <2>1, <2>2
<1>2. CASE AssignSeatToGuest(h)
  <2>1. pc[h] = "assign" /\ msg[h].of \in Invitations /\ UNCHANGED <<tickets, reserved>>
    BY <1>2, MessageType DEF AssignSeatToGuest, HandlersFit, LabelsOf, Topics, output
  <2>2. CASE Throw(h)
    BY <2>1, <2>2, ThrowIsStep
  <2>3. CASE ~Throw(h)
    <3>1. PICK s \in SeatsOf(msg[h].of) : Answered(h, s, "ticket") /\ ledger'[s] = Holder(msg[h].of)
      BY <1>2, <2>3 DEF AssignSeatToGuest, Existing, Claim, Free, Kept, SeatsOf, SeatsFit
    <3>2. /\ pc' = [pc EXCEPT ![h] = "ticket"] /\ got' = [got EXCEPT ![h] = s]
          /\ UNCHANGED <<fate, msg>>
      BY <2>3, <3>1 DEF Answered, Goto
    <3> QED BY <2>1, <3>1, <3>2 DEF HandlerStep, HandlersFit
  <2> QED BY <2>2, <2>3
<1>3. CASE SendTicket(h)
  <2>1. /\ pc[h] = "ticket" /\ UNCHANGED reserved
        /\ tickets' = tickets \cup {<<msg[h].of, got[h]>>}
    BY <1>3 DEF SendTicket
  <2> QED BY <1>3, <2>1, ThrowIsStep, DoneIsStep DEF SendTicket
<1>4. CASE Reserve(h)
  <2>1. /\ pc[h] = "reserve" /\ msg[h].of \in Invitations
        /\ UNCHANGED <<fate, msg, tickets, reserved>>
    BY <1>4, MessageType DEF Reserve, HandlersFit, LabelsOf, Topics, output
  <2>2. \/ \E s \in SeatsOf(msg[h].of) : /\ pc' = [pc EXCEPT ![h] = "reserved"]
                                         /\ got' = [got EXCEPT ![h] = s]
                                         /\ ledger'[s].invitation = msg[h].of
        \/ /\ pc' = [pc EXCEPT ![h] = "refused"]
           /\ UNCHANGED <<ledger, got>>
           /\ \A s \in SeatsOf(msg[h].of) : ledger[s].invitation # msg[h].of
    BY <1>4, <2>1, HolderTypes DEF Reserve, SeatsOf, Free, Goto, SeatsFit
  <2> QED BY <2>1, <2>2 DEF HandlerStep, HandlersFit
<1>5. CASE SendReserved(h)
  <2>1. /\ pc[h] = "reserved" /\ UNCHANGED tickets
        /\ reserved' = reserved \cup {<<msg[h].of, got[h]>>}
    BY <1>5 DEF SendReserved
  <2> QED BY <1>5, <2>1, ThrowIsStep, DoneIsStep DEF SendReserved
<1>6. CASE SendRefused(h)
  BY <1>6, ThrowIsStep, DoneIsStep DEF SendRefused
<1>7. CASE FindSeats(h)
  <2>1. pc[h] = "find" /\ UNCHANGED <<tickets, reserved>>
    BY <1>7 DEF FindSeats, output
  <2>2. CASE Done(h)
    BY <2>1, <2>2, DoneIsStep
  <2>3. CASE pc' = [pc EXCEPT ![h] = "release"] /\ UNCHANGED <<fate, msg, got>>
    BY <2>1, <2>3 DEF HandlerStep, HandlersFit
  <2> QED BY <1>7, <2>2, <2>3 DEF FindSeats, Goto
<1>8. CASE UnassignSeats(h)
  <2>1. pc[h] = "release" /\ UNCHANGED <<tickets, reserved>>
    BY <1>8 DEF UnassignSeats, output
  <2>2. CASE Done(h) \/ Throw(h)
    BY <2>1, <2>2, DoneIsStep, ThrowIsStep
  <2>3. CASE UNCHANGED <<fate, pc, msg, got>>
    BY <2>1, <2>3 DEF HandlerStep, HandlersFit
  <2> QED BY <1>8, <2>2, <2>3 DEF UnassignSeats
<1>9. CASE Fail(h)
  BY <1>9, ThrowIsStep DEF Fail, output
<1>10. CASE Crash(h)
  BY <1>10, EndIsStep DEF Crash, output
<1> QED BY <1>1, <1>2, <1>3, <1>4, <1>5, <1>6, <1>7, <1>8, <1>9, <1>10 DEF Handle
-----------------------------------------------------------------------------
(* Tickets *)

Own(i, s) == ledger[s] = Holder(i) \/ <<i, s>> \in lost

\* The ticket that a handler is about to send names a seat of the guest, like those sent.
TicketsFit ==
    /\ \A h \in Handlers : pc[h] = "ticket" => Own(msg[h].of, got[h])
    /\ \A i \in Invitations, s \in Seats : <<i, s>> \in tickets => Own(i, s)

LEMMA TicketsStay ==
    ASSUME HandlersFit, SeatsFit, TicketsFit, [Next]_vars
    PROVE  TicketsFit'
<1> DEFINE OwnNext(i, s) == ledger'[s] = Holder(i) \/ <<i, s>> \in lost'
<1>1. \A i \in Invitations, s \in Seats : Own(i, s) => OwnNext(i, s)
  BY SeatsStay DEF Own
<1>2. \A h \in Handlers : pc[h] = "ticket" =>
          msg[h].of \in Invitations /\ got[h] \in Seats /\ OwnNext(msg[h].of, got[h])
  <2>1. \A h \in Handlers : pc[h] = "ticket" => msg[h].of \in Invitations /\ got[h] \in Seats
    BY MessageType DEF HandlersFit, LabelsOf, Topics
  <2> HIDE DEF OwnNext
  <2> QED BY <1>1, <2>1 DEF TicketsFit
<1>3. ASSUME \A h \in Handlers : pc'[h] = "ticket" => OwnNext(msg'[h].of, got'[h]),
             \A i \in Invitations, s \in Seats : <<i, s>> \in tickets' => OwnNext(i, s)
      PROVE  TicketsFit'
  BY <1>3 DEF TicketsFit, Own, Holder
<1>4. CASE /\ \A h \in Handlers : pc'[h] = "ticket" =>
                  pc[h] = "ticket" /\ msg'[h] = msg[h] /\ got'[h] = got[h]
           /\ UNCHANGED tickets
  <2> HIDE DEF OwnNext
  <2>1. \A i \in Invitations, s \in Seats : <<i, s>> \in tickets' => OwnNext(i, s)
    BY <1>1, <1>4 DEF TicketsFit
  <2>2. \A h \in Handlers : pc'[h] = "ticket" => OwnNext(msg'[h].of, got'[h])
    BY <1>2, <1>4
  <2> QED BY <1>3, <2>1, <2>2
<1>5. ASSUME NEW h \in Handlers, HandlerStep(h)
      PROVE  TicketsFit'
  <2>1. \A g \in Handlers \ {h} : pc'[g] = "ticket" => OwnNext(msg'[g].of, got'[g])
    <3> HIDE DEF OwnNext
    <3> QED BY <1>2, <1>5 DEF HandlerStep
  <2>2. pc'[h] = "ticket" => OwnNext(msg'[h].of, got'[h])
    BY <1>5 DEF HandlerStep
  <2>3. \A i \in Invitations, s \in Seats : <<i, s>> \in tickets' => OwnNext(i, s)
    <3> HIDE DEF OwnNext
    <3> QED BY <1>1, <1>2, <1>5 DEF HandlerStep, TicketsFit
  <2> HIDE DEF OwnNext
  <2> QED BY <1>3, <2>1, <2>2, <2>3
<1>6. ASSUME NEW h \in Handlers, NEW m \in Messages, Deliver(h, m)
      PROVE  TicketsFit'
  <2>1. First(m.topic) # "ticket"
    BY MessageType DEF First, Topics
  <2>2. pc' = [pc EXCEPT ![h] = First(m.topic)] /\ msg' = [msg EXCEPT ![h] = m]
        /\ UNCHANGED <<got, tickets>>
    BY <1>6 DEF Deliver, Goto, output
  <2> QED BY <1>4, <2>1, <2>2 DEF HandlersFit
<1>7. ASSUME \/ \E m \in Messages : Redeliver(m)
             \/ \E i \in Invitations : KeyExpires(i)
             \/ \E s \in Seats : AdminRelease(s) \/ \E k \in Appointees : AdminAssign(s, k)
             \/ UNCHANGED vars
      PROVE  TicketsFit'
  <2>1. UNCHANGED <<pc, msg, got, tickets>>
    BY <1>7 DEF Redeliver, KeyExpires, AdminRelease, AdminAssign, vars, handler, output
  <2> QED BY <1>4, <2>1
<1> QED BY <1>5, <1>6, <1>7, ActionIsHandlerStep DEF Next

-----------------------------------------------------------------------------
(* Messages that are still to be sent *)

Heads(h, s) == \/ pc[h] \in {"key", "assign", "reserve"}
               \/ pc[h] \in {"ticket", "reserved"} /\ got[h] = s

\* The message m will be tried again, or is at hand for an operator, or its handler is
\* about to tell of seat s.
Pending(m, s) == \/ fate[m] \in {"waiting", "dead"}
                 \/ \E h \in Handlers : msg[h] = m /\ Heads(h, s)

Told ==
    \A s \in Seats \ appointed, i \in Invitations :
        /\ ledger[s] = Holder(i) =>
               \/ <<i, s>> \in tickets
               \/ \E m \in Messages : m.topic = "addGuestId" /\ m.of = i /\ Pending(m, s)
        /\ ledger[s] = Keeper(i) =>
               \/ <<i, s>> \in reserved
               \/ \E m \in Messages : m.topic = "reserve" /\ m.of = i /\ Pending(m, s)

\* A handler gives up the message that is to tell of a seat only when it has told.
LEMMA StepKeepsPending ==
    ASSUME HandlersFit, SeatsFit, SeatsFit', NEW h \in Handlers, pc[h] # "idle", HandlerStep(h),
           NEW m \in Messages, m.topic # "removeGuestId",
           NEW s \in SeatsOf(m.of), Pending(m, s),
           ledger[s].invitation = m.of, ledger'[s].invitation = m.of
    PROVE  \/ Pending(m, s)'
           \/ m.topic = "addGuestId" /\ <<m.of, s>> \in tickets'
           \/ m.topic = "reserve" /\ <<m.of, s>> \in reserved'
<1>1. CASE msg[h] # m
  <2>1. /\ fate'[m] = fate[m]
        /\ \A g \in Handlers : msg[g] = m =>
              msg'[g] = m /\ pc'[g] = pc[g] /\ got'[g] = got[g]
    BY <1>1 DEF HandlerStep
  <2> QED BY <2>1 DEF Pending, Heads
<1>2. CASE msg[h] = m
  <2>1. Heads(h, s)
    BY <1>2, MessageType DEF Pending, HandlersFit
  <2>2. m.topic \in {"addGuestId", "reserve"} /\ pc[h] \in LabelsOf(m.topic) /\ m.of \in Invitations
    BY <1>2, MessageType DEF HandlersFit, Topics
  <2>3. \/ m.topic = "addGuestId" /\ pc[h] \in {"key", "assign", "ticket"}
        \/ m.topic = "reserve" /\ pc[h] \in {"reserve", "reserved", "refused"}
    <3>1. CASE m.topic = "addGuestId"
      BY <2>2, <3>1 DEF LabelsOf
    <3>2. CASE m.topic = "reserve"
      BY <2>2, <3>2 DEF LabelsOf
    <3> QED BY <2>2, <3>1, <3>2
  <2>4. CASE fate'[m] \in {"waiting", "dead"}
    BY <2>4 DEF Pending
  <2>5. CASE fate'[m] = "done" /\ pc[h] \in {"ticket", "reserved"}
    BY <1>2, <2>1, <2>3, <2>5 DEF HandlerStep, Heads
  <2>6. CASE pc[h] = "refused"
    BY <2>1, <2>6 DEF Heads
  <2>7. CASE msg'[h] = m /\ pc'[h] = "assign"
    BY <2>7 DEF Pending, Heads
  <2>8. CASE msg'[h] = m /\ pc'[h] \in {"ticket", "reserved"} /\ got'[h] \in SeatsOf(m.of)
             /\ ledger'[got'[h]].invitation = m.of
    <3>1. got'[h] = s
      BY <2>2, <2>8, ProvisioningAssumption DEF SeatsFit, SeatsOf, Siblings
    <3> QED BY <2>8, <3>1 DEF Pending, Heads
  <2>9. CASE \A t \in SeatsOf(m.of) : ledger[t].invitation # m.of
    BY <2>9
  <2> QED BY <1>2, <2>2, <2>3, <2>4, <2>5, <2>6, <2>7, <2>8, <2>9, HolderTypes DEF HandlerStep
<1> QED BY <1>1, <1>2

\* What seat s of invitation i still needs to be told of.
TicketDue(i, s) == \E m \in Messages : m.topic = "addGuestId" /\ m.of = i /\ Pending(m, s)
ReplyDue(i, s)  == \E m \in Messages : m.topic = "reserve" /\ m.of = i /\ Pending(m, s)

\* A seat gets a guest or a keeper from a handler that has yet to tell of it.
LEMMA NewHolders ==
    ASSUME HandlersFit, SeatsFit, Next, NEW s \in Seats, s \notin appointed',
           NEW i \in Invitations
    PROVE  /\ ledger'[s] = Holder(i) =>
                  (ledger[s] = Holder(i) /\ s \notin appointed) \/ TicketDue(i, s)'
           /\ ledger'[s] = Keeper(i) =>
                  (ledger[s] = Keeper(i) /\ s \notin appointed) \/ ReplyDue(i, s)'
<1> DEFINE Goal == /\ ledger'[s] = Holder(i) =>
                          (ledger[s] = Holder(i) /\ s \notin appointed) \/ TicketDue(i, s)'
                   /\ ledger'[s] = Keeper(i) =>
                          (ledger[s] = Keeper(i) /\ s \notin appointed) \/ ReplyDue(i, s)'
<1>1. ASSUME NEW h \in Handlers, AssignSeatToGuest(h)
      PROVE  Goal
  <2>1. /\ pc[h] = "assign" /\ msg[h] \in Messages
        /\ msg[h].topic = "addGuestId" /\ msg[h].of \in Invitations
        /\ fate \in [Messages -> Fates]
    BY <1>1, MessageType DEF AssignSeatToGuest, HandlersFit, LabelsOf, Topics
  <2>2. CASE UNCHANGED <<ledger, appointed>>
    BY <2>2
  <2>3. ASSUME NEW t \in Seats, Claim(msg[h].of, t), Answered(h, t, "ticket"),
               appointed' = appointed \ {t}
        PROVE  Goal
    <3>1. ledger' = [ledger EXCEPT ![t] = Holder(msg[h].of)]
      BY <2>3 DEF Claim
    <3>2. ASSUME NEW m \in Messages, m = msg[h]
          PROVE  Pending(m, t)'
      <4>1. CASE Goto(h, "ticket") /\ got' = [got EXCEPT ![h] = t] /\ UNCHANGED msg
        <5>1. pc'[h] = "ticket" /\ got'[h] = t /\ msg'[h] = m
          BY <3>2, <4>1 DEF Goto, HandlersFit
        <5> QED BY <5>1 DEF Pending, Heads
      <4>2. CASE Throw(h)
        <5>1. PICK f \in {"waiting", "dead"} : End(h, f)
          BY <2>1, <4>2, ThrowFits
        <5>2. fate'[m] = f
          BY <2>1, <3>2, <5>1 DEF End
        <5> QED BY <5>2 DEF Pending
      <4> QED BY <2>3, <4>1, <4>2 DEF Answered
    <3>3. CASE s # t
      BY <2>3, <3>1, <3>3 DEF SeatsFit
    <3>4. CASE s = t
      <4>1. ledger'[s] = Holder(msg[h].of)
        BY <3>1, <3>4 DEF SeatsFit
      <4>2. ledger'[s] # Keeper(i) /\ (ledger'[s] = Holder(i) => msg[h].of = i)
        BY <2>1, <4>1, HolderTypes
      <4> QED BY <2>1, <3>2, <3>4, <4>2 DEF TicketDue
    <3> QED BY <3>3, <3>4
  <2> QED BY <1>1, <2>2, <2>3 DEF AssignSeatToGuest, Claim, Free, Kept, SeatsOf
<1>2. ASSUME NEW h \in Handlers, Reserve(h)
      PROVE  Goal
  <2>1. /\ pc[h] = "reserve" /\ msg[h] \in Messages /\ UNCHANGED msg
        /\ msg[h].topic = "reserve" /\ msg[h].of \in Invitations
    BY <1>2, MessageType DEF Reserve, HandlersFit, LabelsOf, Topics
  <2>2. CASE UNCHANGED <<ledger, appointed>>
    BY <2>2
  <2>3. ASSUME NEW t \in Seats, ledger' = [ledger EXCEPT ![t] = Keeper(msg[h].of)],
               Goto(h, "reserved"), got' = [got EXCEPT ![h] = t],
               appointed' = appointed \ {t}
        PROVE  Goal
    <3>1. pc'[h] = "reserved" /\ got'[h] = t /\ msg'[h] = msg[h]
      BY <2>1, <2>3 DEF Goto, HandlersFit
    <3>2. Pending(msg[h], t)'
      BY <3>1 DEF Pending, Heads
    <3>3. CASE s # t
      BY <2>3, <3>3 DEF SeatsFit
    <3>4. CASE s = t
      <4>1. ledger'[s] = Keeper(msg[h].of)
        BY <2>3, <3>4 DEF SeatsFit
      <4>2. ledger'[s] # Holder(i) /\ (ledger'[s] = Keeper(i) => msg[h].of = i)
        BY <2>1, <4>1, HolderTypes
      <4> QED BY <2>1, <3>2, <3>4, <4>2 DEF ReplyDue
    <3> QED BY <3>3, <3>4
  <2> QED BY <1>2, <2>2, <2>3 DEF Reserve, Free, SeatsOf
<1>3. ASSUME UNCHANGED ledger \/ \E F : ledger' = [t \in Seats |-> IF t \in F THEN Nobody ELSE ledger[t]],
             UNCHANGED appointed
      PROVE  Goal
  BY <1>3, HolderTypes DEF Nobody
<1>4. ASSUME NEW h \in Handlers, UnassignSeats(h)
      PROVE  Goal
  <2>1. UNCHANGED ledger \/ \E t \in Seats : Release({t})
    BY <1>4 DEF UnassignSeats, HandlersFit
  <2>2. UNCHANGED ledger \/ \E F : ledger' = [t \in Seats |-> IF t \in F THEN Nobody ELSE ledger[t]]
    BY <2>1 DEF Release
  <2> HIDE DEF Goal
  <2> QED BY <1>3, <1>4, <2>2 DEF UnassignSeats
<1>5. ASSUME NEW t \in Seats, AdminRelease(t)
      PROVE  Goal
  <2> HIDE DEF Goal
  <2> QED BY <1>3, <1>5 DEF AdminRelease, Release
<1>6. ASSUME NEW t \in Seats, NEW k \in Appointees, AdminAssign(t, k)
      PROVE  Goal
  <2>1. s # t /\ s \notin appointed
    BY <1>6 DEF AdminAssign
  <2>2. ledger'[s] \in {ledger[s], Nobody}
    BY <1>6, <2>1 DEF AdminAssign, Grant
  <2> QED BY <2>1, <2>2, HolderTypes
<1>7. ASSUME NEW h \in Handlers,
             \/ ReadKey(h) \/ SendTicket(h) \/ SendReserved(h) \/ SendRefused(h) \/ FindSeats(h)
             \/ Fail(h) \/ Crash(h) \/ \E m \in Messages : Deliver(h, m)
      PROVE  Goal
  <2>1. UNCHANGED <<ledger, appointed>>
    BY <1>7 DEF ReadKey, SendTicket, SendReserved, SendRefused, FindSeats, Fail, Crash, Deliver,
                past
  <2> QED BY <2>1
<1>8. ASSUME (\E m \in Messages : Redeliver(m)) \/ (\E j \in Invitations : KeyExpires(j))
       PROVE  Goal
  <2>1. UNCHANGED <<ledger, appointed>>
    BY <1>8 DEF Redeliver, KeyExpires, past
  <2> QED BY <2>1
<1> HIDE DEF Goal
<1>9. Goal
  BY <1>1, <1>2, <1>4, <1>5, <1>6, <1>7, <1>8 DEF Next, Handle
<1> QED BY <1>9 DEF Goal

\* What is due for a seat that keeps its holder stays due, or is sent.
LEMMA DueStays ==
    ASSUME HandlersFit, SeatsFit, SeatsFit', Next, NEW i \in Invitations, NEW s \in SeatsOf(i),
           ledger[s].invitation = i, ledger'[s].invitation = i,
           NEW m \in Messages, m.of = i, m.topic # "removeGuestId", Pending(m, s)
    PROVE  /\ tickets \subseteq tickets' /\ reserved \subseteq reserved'
           /\ \/ Pending(m, s)'
              \/ m.topic = "addGuestId" /\ <<i, s>> \in tickets'
              \/ m.topic = "reserve" /\ <<i, s>> \in reserved'
<1>1. ASSUME NEW h \in Handlers, Handle(h) \/ Fail(h) \/ Crash(h)
      PROVE  /\ tickets \subseteq tickets' /\ reserved \subseteq reserved'
             /\ \/ Pending(m, s)'
                \/ m.topic = "addGuestId" /\ <<i, s>> \in tickets'
                \/ m.topic = "reserve" /\ <<i, s>> \in reserved'
  <2>1. pc[h] # "idle"
    BY <1>1 DEF Handle, Fail, Crash, ReadKey, AssignSeatToGuest, SendTicket, Reserve,
                SendReserved, SendRefused, FindSeats, UnassignSeats
  <2>2. HandlerStep(h)
    BY <1>1, ActionIsHandlerStep
  <2> QED BY <2>1, <2>2, StepKeepsPending DEF HandlerStep
<1>2. ASSUME NEW h \in Handlers, NEW n \in Messages, Deliver(h, n)
      PROVE  UNCHANGED <<tickets, reserved>> /\ Pending(m, s)'
  <2>1. /\ pc[h] = "idle" /\ fate[n] = "waiting" /\ fate' = [fate EXCEPT ![n] = "taken"]
        /\ msg' = [msg EXCEPT ![h] = n] /\ pc' = [pc EXCEPT ![h] = First(n.topic)]
        /\ UNCHANGED <<got, tickets, reserved>>
    BY <1>2 DEF Deliver, Goto, output
  <2>2. CASE m = n
    <3>1. First(m.topic) \in {"key", "reserve"}
      BY MessageType DEF First, Topics
    <3>2. msg'[h] = m /\ pc'[h] = First(m.topic)
      BY <2>1, <2>2 DEF HandlersFit
    <3> QED BY <2>1, <3>1, <3>2 DEF Pending, Heads
  <2>3. CASE m # n
    <3>1. fate'[m] = fate[m]
      BY <2>1, <2>3 DEF HandlersFit
    <3>2. \A g \in Handlers : msg[g] = m =>
              msg'[g] = m /\ pc'[g] = pc[g] /\ got'[g] = got[g]
      BY <2>1, MessageType DEF HandlersFit
    <3> QED BY <2>1, <3>1, <3>2 DEF Pending, Heads
  <2> QED BY <2>2, <2>3
<1>3. ASSUME NEW n \in Messages, Redeliver(n)
      PROVE  UNCHANGED <<tickets, reserved>> /\ Pending(m, s)'
  <2>1. /\ fate[n] = "done" /\ fate' = [fate EXCEPT ![n] = "waiting"]
        /\ UNCHANGED <<pc, msg, got, tickets, reserved>>
    BY <1>3 DEF Redeliver, handler, output
  <2>2. fate'[m] = fate[m] \/ fate'[m] = "waiting"
    BY <2>1 DEF HandlersFit
  <2> QED BY <2>1, <2>2 DEF Pending, Heads
<1>4. ASSUME (\E j \in Invitations : KeyExpires(j))
             \/ (\E t \in Seats : AdminRelease(t) \/ \E k \in Appointees : AdminAssign(t, k))
      PROVE  UNCHANGED <<tickets, reserved>> /\ Pending(m, s)'
  <2>1. UNCHANGED <<fate, pc, msg, got, tickets, reserved>>
    BY <1>4 DEF KeyExpires, AdminRelease, AdminAssign, handler, output
  <2> QED BY <2>1 DEF Pending, Heads
<1> QED BY <1>1, <1>2, <1>3, <1>4 DEF Next

\* Messages that were sent stay sent.
LEMMA SentStays ==
    ASSUME HandlersFit, SeatsFit, Next
    PROVE  tickets \subseteq tickets' /\ reserved \subseteq reserved'
<1>1. ASSUME NEW h \in Handlers, Handle(h) \/ Fail(h) \/ Crash(h)
      PROVE  tickets \subseteq tickets' /\ reserved \subseteq reserved'
  BY <1>1, ActionIsHandlerStep DEF HandlerStep
<1>2. ASSUME \/ \E h \in Handlers : \E m \in Messages : Deliver(h, m)
             \/ \E m \in Messages : Redeliver(m)
             \/ \E i \in Invitations : KeyExpires(i)
             \/ \E s \in Seats : AdminRelease(s) \/ \E k \in Appointees : AdminAssign(s, k)
      PROVE  UNCHANGED <<tickets, reserved>>
  BY <1>2 DEF Deliver, Redeliver, KeyExpires, AdminRelease, AdminAssign, output
<1> QED BY <1>1, <1>2 DEF Next

LEMMA ToldStays ==
    ASSUME HandlersFit, SeatsFit, Told, [Next]_vars
    PROVE  Told'
<1>1. CASE UNCHANGED vars
  <2>1. UNCHANGED <<ledger, appointed, fate, pc, msg, got, tickets, reserved>>
    BY <1>1 DEF vars, handler, output, past
  <2>2. ASSUME NEW m \in Messages, NEW s \in Seats, Pending(m, s)
        PROVE  Pending(m, s)'
    BY <2>1, <2>2 DEF Pending, Heads
  <2>3. ledger' = ledger /\ appointed' = appointed /\ tickets' = tickets /\ reserved' = reserved
    BY <2>1
  <2>4. ASSUME NEW s \in Seats \ appointed, NEW i \in Invitations, ledger[s] = Holder(i)
        PROVE  <<i, s>> \in tickets' \/ TicketDue(i, s)'
    BY <2>2, <2>3, <2>4 DEF Told, TicketDue
  <2>5. ASSUME NEW s \in Seats \ appointed, NEW i \in Invitations, ledger[s] = Keeper(i)
        PROVE  <<i, s>> \in reserved' \/ ReplyDue(i, s)'
    BY <2>2, <2>3, <2>5 DEF Told, ReplyDue
  <2> QED BY <2>3, <2>4, <2>5 DEF Told, TicketDue, ReplyDue, Holder, Keeper
<1>2. CASE Next
  <2>1. SeatsFit' /\ tickets \subseteq tickets' /\ reserved \subseteq reserved'
    BY <1>2, SeatsStay, SentStays
  <2>2. ASSUME NEW s \in Seats \ appointed', NEW i \in Invitations, ledger'[s] = Holder(i)
        PROVE  <<i, s>> \in tickets' \/ TicketDue(i, s)'
    <3>1. CASE ledger[s] = Holder(i) /\ s \notin appointed /\ <<i, s>> \notin tickets
      <4>1. PICK m \in Messages : m.topic = "addGuestId" /\ m.of = i /\ Pending(m, s)
        BY <3>1 DEF Told
      <4>2. ledger[s].invitation = i /\ ledger'[s].invitation = i /\ s \in SeatsOf(i)
        BY <2>2, <3>1, HolderTypes DEF SeatsFit, SeatsOf
      <4>3. Pending(m, s)' \/ <<i, s>> \in tickets'
        BY <1>2, <2>1, <4>1, <4>2, DueStays
      <4> QED BY <4>1, <4>3 DEF TicketDue
    <3> QED BY <1>2, <2>1, <2>2, <3>1, NewHolders
  <2>3. ASSUME NEW s \in Seats \ appointed', NEW i \in Invitations, ledger'[s] = Keeper(i)
        PROVE  <<i, s>> \in reserved' \/ ReplyDue(i, s)'
    <3>1. CASE ledger[s] = Keeper(i) /\ s \notin appointed /\ <<i, s>> \notin reserved
      <4>1. PICK m \in Messages : m.topic = "reserve" /\ m.of = i /\ Pending(m, s)
        BY <3>1 DEF Told
      <4>2. ledger[s].invitation = i /\ ledger'[s].invitation = i /\ s \in SeatsOf(i)
        BY <2>3, <3>1, HolderTypes DEF SeatsFit, SeatsOf
      <4>3. Pending(m, s)' \/ <<i, s>> \in reserved'
        BY <1>2, <2>1, <4>1, <4>2, DueStays
      <4> QED BY <4>1, <4>3 DEF ReplyDue
    <3> QED BY <1>2, <2>1, <2>3, <3>1, NewHolders
  <2> QED BY <2>2, <2>3 DEF Told, TicketDue, ReplyDue, Holder, Keeper
<1> QED BY <1>1, <1>2
-----------------------------------------------------------------------------
(* Removals *)

\* A removal that read the seats of its guest has an actor; while it releases them, the
\* guest's seats are among those it read; when it is done, there are none.
Removed ==
    /\ \A m \in gone : m \in Messages /\ m.topic = "removeGuestId" /\ m.actor
    /\ \A h \in Handlers : pc[h] = "release" /\ msg[h] \in gone
                               => SeatsOfGuest(msg[h].of) \subseteq todo[h]
    /\ \A m \in gone : fate[m] = "done" => SeatsOfGuest(m.of) = {}

\* A step that neither removes nor seats a guest who is gone.
LEMMA RemovedKept ==
    ASSUME Removed, gone' \subseteq gone,
           \A m \in gone' : SeatsOfGuest(m.of)' \subseteq SeatsOfGuest(m.of),
           \A m \in gone' : fate'[m] = "done" => fate[m] = "done",
           \A h \in Handlers : pc'[h] = "release" /\ msg'[h] \in gone' =>
               pc[h] = "release" /\ msg'[h] = msg[h] /\ todo'[h] = todo[h]
    PROVE  Removed'
BY DEF Removed

\* A guest takes a seat only if it is not gone, or no longer.
LEMMA GuestsLeave ==
    ASSUME HandlersFit, SeatsFit, Removed, [Next]_vars,
           NEW m \in gone, m \in gone'
    PROVE  SeatsOfGuest(m.of)' \subseteq SeatsOfGuest(m.of)
<1>0. m.of \in Guests /\ m.of # None
  BY MessageType, ProvisioningAssumption DEF Removed
<1>1. ASSUME NEW s \in Seats, ledger'[s].guest = m.of
      PROVE  ledger[s].guest = m.of
  <2>1. CASE UNCHANGED ledger
    BY <1>1, <2>1
  <2>2. ASSUME NEW h \in Handlers, AssignSeatToGuest(h), ledger' # ledger
        PROVE  ledger[s].guest = m.of
    <3>1. /\ \E t \in Seats : ledger' = [ledger EXCEPT ![t] = Holder(msg[h].of)]
          /\ gone' = GoneWithout(GuestOf[msg[h].of])
      BY <2>2 DEF AssignSeatToGuest, Claim, Free, Kept, SeatsOf
    <3>2. Holder(msg[h].of).guest # m.of
      BY <3>1 DEF GoneWithout, Holder
    <3> QED BY <1>1, <3>1, <3>2 DEF SeatsFit
  <2>3. ASSUME NEW h \in Handlers, Reserve(h), ledger' # ledger
        PROVE  ledger[s].guest = m.of
    <3>1. \E t \in Seats : ledger' = [ledger EXCEPT ![t] = Keeper(msg[h].of)]
      BY <2>3 DEF Reserve, Free, SeatsOf
    <3> QED BY <1>0, <1>1, <3>1 DEF SeatsFit, Keeper
  <2>4. ASSUME NEW F \in SUBSET Seats, Release(F)
        PROVE  ledger[s].guest = m.of
    BY <1>0, <1>1, <2>4 DEF Release, Nobody
  <2>5. ASSUME NEW t \in Seats, NEW k \in Appointees, AdminAssign(t, k)
        PROVE  ledger[s].guest = m.of
    <3>1. k.guest # m.of
      BY <2>5 DEF AdminAssign, GoneWithout
    <3>2. \E F : ledger' = [u \in Seats |-> IF u = t THEN k
                                          ELSE IF u \in F THEN Nobody ELSE ledger[u]]
      BY <2>5 DEF AdminAssign, Grant
    <3> QED BY <1>0, <1>1, <3>1, <3>2 DEF Nobody
  <2>6. \/ UNCHANGED ledger \/ \E F \in SUBSET Seats : Release(F)
        \/ \E h \in Handlers : AssignSeatToGuest(h) \/ Reserve(h)
        \/ \E t \in Seats, k \in Appointees : AdminAssign(t, k)
    <3>1. CASE \E h \in Handlers : UnassignSeats(h)
      <4>1. \E t \in Seats : UNCHANGED ledger \/ Release({t})
        BY <3>1 DEF UnassignSeats, HandlersFit
      <4>2. \A t \in Seats : {t} \in SUBSET Seats
        OBVIOUS
      <4> QED BY <4>1, <4>2
    <3>2. CASE \E t \in Seats : AdminRelease(t)
      <4>1. \A t \in Seats : {t} \in SUBSET Seats
        OBVIOUS
      <4> QED BY <3>2, <4>1 DEF AdminRelease
    <3>3. ASSUME NEW h \in Handlers, ReadKey(h) \/ SendTicket(h) \/ SendReserved(h)
                                       \/ SendRefused(h) \/ FindSeats(h) \/ Fail(h) \/ Crash(h)
          PROVE  UNCHANGED ledger
      BY <3>3 DEF ReadKey, SendTicket, SendReserved, SendRefused, FindSeats, Fail, Crash
    <3>4. CASE \/ \E h \in Handlers, n \in Messages : Deliver(h, n)
               \/ \E n \in Messages : Redeliver(n)
               \/ \E i \in Invitations : KeyExpires(i)
      BY <3>4 DEF Deliver, Redeliver, KeyExpires
    <3>5. CASE UNCHANGED vars
      BY <3>5 DEF vars
    <3> QED BY <3>1, <3>2, <3>3, <3>4, <3>5 DEF Next, Handle
  <2> QED BY <2>1, <2>2, <2>3, <2>4, <2>5, <2>6
<1> QED BY <1>1 DEF SeatsOfGuest

LEMMA HandlerRemoves ==
    ASSUME HandlersFit, SeatsFit, OutputFits, Removed, NEW h \in Handlers,
           Handle(h) \/ Fail(h) \/ Crash(h)
    PROVE  Removed'
<1>1. \A m \in gone \cap gone' : SeatsOfGuest(m.of)' \subseteq SeatsOfGuest(m.of)
  BY GuestsLeave DEF Next
<1>2. ASSUME Throw(h) \/ End(h, "waiting"), gone' \subseteq gone, pc[h] # "idle"
      PROVE  Removed'
  <2>1. \E f \in {"waiting", "dead"} : End(h, f)
    BY <1>2, ThrowFits
  <2>2. \A m \in gone' : fate'[m] = "done" => fate[m] = "done"
    BY <1>2, <2>1 DEF End, HandlersFit, OutputFits
  <2>3. \A g \in Handlers : pc'[g] = "release" =>
            pc[g] = "release" /\ msg'[g] = msg[g] /\ todo'[g] = todo[g]
    BY <2>1 DEF End, Goto, HandlersFit
  <2> QED BY <1>1, <1>2, <2>2, <2>3, RemovedKept
<1>3. ASSUME Done(h), gone' \subseteq gone, pc[h] # "idle",
             \A m \in gone : m = msg[h] => SeatsOfGuest(m.of)' = {}
      PROVE  Removed'
  <2>1. \A m \in gone' : fate'[m] = "done" => fate[m] = "done" \/ m = msg[h]
    BY <1>3 DEF Done, End, HandlersFit, OutputFits
  <2>2. \A g \in Handlers : pc'[g] = "release" =>
            pc[g] = "release" /\ msg'[g] = msg[g] /\ todo'[g] = todo[g]
    BY <1>3 DEF Done, End, Goto, HandlersFit
  <2>3. ASSUME NEW m \in gone', fate'[m] = "done"
        PROVE  SeatsOfGuest(m.of)' = {}
    BY <1>1, <1>3, <2>1, <2>3 DEF Removed
  <2>4. ASSUME NEW m \in gone', NEW g \in Handlers, pc'[g] = "release", msg'[g] = m
        PROVE  SeatsOfGuest(m.of)' \subseteq todo'[g]
    BY <1>1, <1>3, <2>2, <2>4 DEF Removed
  <2> QED BY <1>3, <2>3, <2>4 DEF Removed
<1>4. ASSUME NEW label, label # "release", Goto(h, label), gone' \subseteq gone,
             UNCHANGED <<fate, msg, todo>>
      PROVE  Removed'
  <2>1. \A g \in Handlers : pc'[g] = "release" => pc[g] = "release"
    BY <1>4 DEF Goto, HandlersFit
  <2> QED BY <1>1, <1>4, <2>1, RemovedKept
<1>5. pc[h] # "idle" => msg[h] \in Messages /\ pc[h] \in LabelsOf(msg[h].topic)
  BY DEF HandlersFit
<1>6. ASSUME pc[h] # "idle", pc[h] \notin {"find", "release"}
      PROVE  msg[h] \notin gone
  BY <1>5, <1>6 DEF Removed, LabelsOf
<1>7. CASE ReadKey(h)
  BY <1>2, <1>4, <1>7 DEF ReadKey, past
<1>8. CASE AssignSeatToGuest(h)
  <2>1. gone' \subseteq gone /\ pc[h] # "idle"
    BY <1>8 DEF AssignSeatToGuest, GoneWithout
  <2>2. Throw(h) \/ (Goto(h, "ticket") /\ UNCHANGED <<fate, msg, todo>>)
    BY <1>8 DEF AssignSeatToGuest, Answered
  <2> QED BY <1>2, <1>4, <2>1, <2>2
<1>9. CASE SendTicket(h) \/ SendReserved(h) \/ SendRefused(h)
  <2>1. (Done(h) \/ Throw(h)) /\ UNCHANGED gone /\ pc[h] # "idle" /\ msg[h] \notin gone
    BY <1>6, <1>9 DEF SendTicket, SendReserved, SendRefused, past
  <2> QED BY <1>2, <1>3, <2>1
<1>10. CASE Reserve(h)
  <2>1. /\ UNCHANGED <<fate, msg, todo, gone>>
        /\ Goto(h, "reserved") \/ Goto(h, "refused")
    BY <1>10 DEF Reserve
  <2> QED BY <1>4, <2>1
<1>11. CASE FindSeats(h)
  <2>1. CASE ~msg[h].actor
    <3>1. msg[h] \notin gone
      BY <2>1 DEF Removed
    <3> QED BY <1>3, <1>11, <2>1, <3>1 DEF FindSeats
  <2>2. CASE msg[h].actor
    <3>1. /\ todo' = [todo EXCEPT ![h] = SeatsOfGuest(msg[h].of)]
          /\ gone' = gone \cup {msg[h]} /\ pc' = [pc EXCEPT ![h] = "release"]
          /\ UNCHANGED <<fate, msg, ledger>>
      BY <1>11, <2>2 DEF FindSeats, Goto
    <3>2. msg[h] \in Messages /\ msg[h].topic = "removeGuestId" /\ fate[msg[h]] = "taken"
      BY <1>11, MessageType DEF FindSeats, HandlersFit, LabelsOf, Topics
    <3>3. \A m : SeatsOfGuest(m.of)' = SeatsOfGuest(m.of)
      BY <3>1 DEF SeatsOfGuest
    <3>4. \A m \in gone' : m \in Messages /\ m.topic = "removeGuestId" /\ m.actor
      BY <2>2, <3>1, <3>2 DEF Removed
    <3>5. ASSUME NEW g \in Handlers, NEW m \in gone', pc'[g] = "release", msg'[g] = m
          PROVE  SeatsOfGuest(m.of)' \subseteq todo'[g]
      <4>1. CASE g = h
        BY <3>1, <3>3, <3>5, <4>1 DEF HandlersFit
      <4>2. CASE g # h
        <5>1. msg[g] = m /\ m \in gone /\ pc[g] = "release" /\ todo'[g] = todo[g]
          BY <3>1, <3>2, <3>5, <4>2, MessageType DEF HandlersFit
        <5> QED BY <3>3, <5>1 DEF Removed
      <4> QED BY <4>1, <4>2
    <3>6. \A m \in gone' : fate'[m] = "done" => SeatsOfGuest(m.of)' = {}
      BY <3>1, <3>2, <3>3 DEF Removed
    <3> QED BY <3>4, <3>5, <3>6 DEF Removed
  <2> QED BY <2>1, <2>2
<1>12. CASE UnassignSeats(h)
  <2>1. pc[h] = "release" /\ UNCHANGED gone
    BY <1>12 DEF UnassignSeats
  <2>2. CASE todo[h] = {} /\ Done(h) /\ UNCHANGED ledger
    <3>1. msg[h] \in gone => SeatsOfGuest(msg[h].of) = {}
      BY <2>1, <2>2 DEF Removed
    <3>2. \A m : SeatsOfGuest(m.of)' = SeatsOfGuest(m.of)
      BY <2>2 DEF SeatsOfGuest
    <3> QED BY <1>3, <2>1, <2>2, <3>1, <3>2
  <2>3. CASE Throw(h)
    BY <1>2, <2>1, <2>3
  <2>4. ASSUME NEW s \in todo[h], Release({s}), todo' = [todo EXCEPT ![h] = @ \ {s}],
               UNCHANGED <<fate, pc, msg>>
        PROVE  Removed'
    <3>1. \A m \in gone : m.of # None
      BY MessageType, ProvisioningAssumption DEF Removed
    <3>2. \A m \in gone : s \notin SeatsOfGuest(m.of)'
      BY <2>4, <3>1 DEF Release, SeatsOfGuest, Nobody
    <3>3. \A m \in gone' : m = msg[h] => SeatsOfGuest(m.of)' \subseteq todo'[h]
      <4>1. todo'[h] = todo[h] \ {s}
        BY <2>4 DEF HandlersFit
      <4>2. \A m : SeatsOfGuest(m.of)' \subseteq SeatsOfGuest(m.of) \cup {s}
        BY <2>4 DEF Release, SeatsOfGuest
      <4> QED BY <2>1, <3>2, <4>1, <4>2 DEF Removed
    <3>4. \A g \in Handlers \ {h} : todo'[g] = todo[g]
      BY <2>4 DEF HandlersFit
    <3> QED BY <1>1, <2>1, <2>4, <3>3, <3>4 DEF Removed
  <2> QED BY <1>12, <2>1, <2>2, <2>3, <2>4 DEF UnassignSeats
<1>13. CASE Fail(h)
  BY <1>2, <1>13 DEF Fail, past
<1>14. CASE Crash(h)
  BY <1>2, <1>14 DEF Crash, past
<1> QED BY <1>7, <1>8, <1>9, <1>10, <1>11, <1>12, <1>13, <1>14 DEF Handle

LEMMA RemovedStays ==
    ASSUME HandlersFit, SeatsFit, OutputFits, Removed, [Next]_vars
    PROVE  Removed'
<1>1. \A m \in gone \cap gone' : SeatsOfGuest(m.of)' \subseteq SeatsOfGuest(m.of)
  BY GuestsLeave
<1>2. ASSUME NEW h \in Handlers, Handle(h) \/ Fail(h) \/ Crash(h)
      PROVE  Removed'
  BY <1>2, HandlerRemoves
<1>3. ASSUME NEW h \in Handlers, NEW n \in Messages, Deliver(h, n)
      PROVE  Removed'
  <2>1. First(n.topic) # "release"
    BY MessageType DEF First, Topics
  <2>2. \A g \in Handlers : pc'[g] = "release" => pc[g] = "release" /\ g # h
    BY <1>3, <2>1 DEF Deliver, Goto, HandlersFit
  <2>3. \A m \in gone' : fate'[m] = "done" => fate[m] = "done"
    BY <1>3 DEF Deliver, HandlersFit, OutputFits
  <2>4. UNCHANGED <<gone, todo>> /\ \A g \in Handlers \ {h} : msg'[g] = msg[g]
    BY <1>3 DEF Deliver, HandlersFit, past
  <2> QED BY <1>1, <2>2, <2>3, <2>4, RemovedKept
<1>4. ASSUME NEW n \in Messages, Redeliver(n)
      PROVE  Removed'
  <2>1. \A m \in gone' : fate'[m] = "done" => fate[m] = "done"
    BY <1>4 DEF Redeliver, HandlersFit, OutputFits
  <2>2. UNCHANGED <<gone, pc, msg, todo>>
    BY <1>4 DEF Redeliver, handler, past
  <2> QED BY <1>1, <2>1, <2>2, RemovedKept
<1>5. CASE gone' \subseteq gone /\ UNCHANGED <<fate, pc, msg, todo>>
  BY <1>1, <1>5, RemovedKept
<1>6. ASSUME \/ \E i \in Invitations : KeyExpires(i)
             \/ \E s \in Seats : AdminRelease(s) \/ \E k \in Appointees : AdminAssign(s, k)
             \/ UNCHANGED vars
      PROVE  gone' \subseteq gone /\ UNCHANGED <<fate, pc, msg, todo>>
  BY <1>6 DEF KeyExpires, AdminRelease, AdminAssign, GoneWithout, handler, past, vars
<1> QED BY <1>2, <1>3, <1>4, <1>5, <1>6 DEF Next
-----------------------------------------------------------------------------
(* The invariant and what follows from it *)

Inv == HandlersFit /\ SeatsFit /\ OutputFits /\ TicketsFit /\ Told /\ Removed

\* The service keeps Inv whatever fails, is repeated or is lost.
THEOREM InvHolds == Spec => []Inv
<1>1. Init => Inv
  <2> SUFFICES ASSUME Init PROVE Inv
    OBVIOUS
  <2> USE DEF Init
  <2>1. HandlersFit
    <3>1. retries \in [Messages -> 0 .. MaxRetries]
      BY ProvisioningAssumption
    <3> QED BY <3>1 DEF HandlersFit, Fates, Labels
  <2>2. SeatsFit
    BY DEF SeatsFit, LedgerInit, Nobody, Holders
  <2>3. OutputFits
    BY ProvisioningAssumption DEF OutputFits
  <2>4. TicketsFit
    BY DEF TicketsFit
  <2>5. Told
    BY HolderTypes DEF Told, LedgerInit
  <2>6. Removed
    BY DEF Removed
  <2> QED BY <2>1, <2>2, <2>3, <2>4, <2>5, <2>6 DEF Inv
<1>2. Inv /\ [Next]_vars => Inv'
  BY HandlersStay, SeatsStay, OutputStays, TicketsStay, ToldStays, RemovedStays DEF Inv
<1> QED BY <1>1, <1>2, PTL DEF Spec

\* Every variable keeps its type: no handler is stuck without a message or between calls.
THEOREM TypeCorrect == Spec => []TypeOK
<1>1. Inv => TypeOK
  BY DEF Inv, HandlersFit, SeatsFit, OutputFits, TypeOK, LedgerTypeOK
<1> QED BY <1>1, InvHolds, PTL

\* Whatever is retried, duplicated or lost, a ticket names the guest's own seat until a
\* removal or an administrator takes it back.
THEOREM TicketsOwned == Spec => []TicketsNameOwnSeats
<1>1. Inv => TicketsNameOwnSeats
  BY DEF Inv, TicketsFit, Own, TicketsNameOwnSeats
<1> QED BY <1>1, InvHolds, PTL

\* A seat that a handler gave to a guest or keeps for an invitation was told of, or its
\* message is not finished, also when an administrator had given it to somebody before.
THEOREM HoldersTold == Spec => []HoldersAreTold
<1>1. ASSUME HandlersFit, NEW m \in Messages, NEW s \in Seats, Pending(m, s)
      PROVE  fate[m] \in {"waiting", "taken", "dead"}
  BY <1>1 DEF HandlersFit, Pending, Heads
<1>2. ASSUME Inv, NEW s \in Seats \ appointed, NEW i \in Invitations
      PROVE  /\ ledger[s] = Holder(i) => <<i, s>> \in tickets \/ Unfinished("addGuestId", i)
             /\ ledger[s] = Keeper(i) => <<i, s>> \in reserved \/ Unfinished("reserve", i)
  <2>1. ASSUME ledger[s] = Holder(i), <<i, s>> \notin tickets
        PROVE  Unfinished("addGuestId", i)
    <3>1. PICK m \in Messages : m.topic = "addGuestId" /\ m.of = i /\ Pending(m, s)
      BY <1>2, <2>1 DEF Inv, Told
    <3> QED BY <1>1, <1>2, <3>1 DEF Inv, Unfinished
  <2>2. ASSUME ledger[s] = Keeper(i), <<i, s>> \notin reserved
        PROVE  Unfinished("reserve", i)
    <3>1. PICK m \in Messages : m.topic = "reserve" /\ m.of = i /\ Pending(m, s)
      BY <1>2, <2>2 DEF Inv, Told
    <3> QED BY <1>1, <1>2, <3>1 DEF Inv, Unfinished
  <2> QED BY <2>1, <2>2
<1>3. Inv => HoldersAreTold
  BY <1>2 DEF HoldersAreTold
<1> QED BY <1>3, InvHolds, PTL

\* A removal that is done has freed every seat of its guest, in whatever order seats were
\* freed, assigned to others and taken back, and however often the loop started anew.
THEOREM RemovalsComplete == Spec => []RemovalsAreComplete
<1>1. Inv => RemovalsAreComplete
  BY DEF Inv, Removed, RemovalsAreComplete
<1> QED BY <1>1, InvHolds, PTL

\* What the handlers do to the seats is what the ledger allows: they give no seat away over
\* the head of its holder, and seat no guest and no invitation twice in an event.
THEOREM RefinesLedger == Spec => LedgerSpec
<1>1. Init => LedgerInit
  BY DEF Init
<1>2. ASSUME Inv, SeatStep
      PROVE  [LedgerNext]_ledger
  <2>1. ASSUME NEW s \in Seats, NEW h \in Holders, h # Nobody, MaySucceed(ledger[s], h),
               \A t \in Siblings(s) : ~Shares(h, ledger[t]),
               ledger' = [ledger EXCEPT ![s] = h]
        PROVE  LedgerNext
    <3>1. ledger' = [t \in Seats |-> IF t = s THEN h ELSE IF t \in {} THEN Nobody ELSE ledger[t]]
      BY <1>2, <2>1 DEF Inv, SeatsFit
    <3>2. Grant(s, h, {})
      BY <2>1, <3>1 DEF Grant
    <3>3. {} \in SUBSET Seats
      OBVIOUS
    <3> QED BY <3>2, <3>3 DEF LedgerNext
  <2>2. ASSUME NEW i \in Invitations, NEW s \in Seats, Claim(i, s)
        PROVE  LedgerNext
    <3>1. /\ \A t \in Siblings(s) : ~Shares(Holder(i), ledger[t])
          /\ ledger' = [ledger EXCEPT ![s] = Holder(i)] /\ ledger[s] \in {Nobody, Keeper(i)}
      BY <2>2 DEF Claim, Unique, Free, Kept
    <3>2. MaySucceed(ledger[s], Holder(i))
      BY <3>1, HolderTypes DEF MaySucceed
    <3> QED BY <2>1, <3>1, <3>2, HolderTypes
  <2>3. ASSUME NEW i \in Invitations, NEW s \in Free(i),
               \A t \in SeatsOf(i) : ledger[t].invitation # i,
               ledger' = [ledger EXCEPT ![s] = Keeper(i)]
        PROVE  LedgerNext
    <3>1. s \in Seats /\ EventOf[s] = InvitedTo[i] /\ ledger[s] = Nobody
      BY <2>3 DEF Free, SeatsOf
    <3>2. \A t \in Siblings(s) : ~Shares(Keeper(i), ledger[t])
      BY <2>3, <3>1, HolderTypes DEF Siblings, SeatsOf, Shares
    <3>3. MaySucceed(ledger[s], Keeper(i))
      BY <3>1 DEF MaySucceed
    <3> QED BY <2>1, <2>3, <3>1, <3>2, <3>3, HolderTypes
  <2>4. ASSUME NEW F \in SUBSET Seats, Release(F)
        PROVE  LedgerNext
    BY <2>4 DEF LedgerNext
  <2>5. ASSUME NEW s \in Seats, NEW k \in Appointees, NEW F \in SUBSET Seats, Grant(s, k, F)
        PROVE  LedgerNext
    <3>1. k \in Holders
      BY DEF Appointees, Holders
    <3> QED BY <2>5, <3>1 DEF LedgerNext
  <2> QED BY <1>2, <2>2, <2>3, <2>4, <2>5 DEF SeatStep
<1>3. ASSUME Inv, [Next]_vars
      PROVE  [LedgerNext]_ledger
  <2>1. SeatStep
    BY <1>3, ActionIsSeatStep DEF Inv, vars, past, SeatStep
  <2> QED BY <1>2, <1>3, <2>1
<1> QED BY <1>1, <1>3, InvHolds, PTL DEF Spec, LedgerSpec
=============================================================================
