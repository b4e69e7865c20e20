-------------------------- MODULE EventProjections --------------------------
(***************************************************************************)
(* The local copies of what other services own, kept up to date by Kafka   *)
(* messages: roles and access of users (event-role.handler.ts), settings   *)
(* of the event (event-settings.handler.ts), presence at a seat            *)
(* (milestone.handler.ts) and seating of invitations                       *)
(* (invitation-seating.handler.ts), for one event, one action per database *)
(* statement.                                                              *)
(*                                                                         *)
(* A message carries the time at which its change occurred; a row carries  *)
(* the time that later messages are compared with.  Messages are handled   *)
(* in any order, side by side, and again after a crash.  The clocks of the *)
(* services agree.                                                         *)
(***************************************************************************)
EXTENDS Naturals

CONSTANTS Handlers,     \* messages handled at the same time
          Users, Seats, Invitations,
          Groups,       \* bound: the kinds of messages that one behaviour mixes
          MaxTime, MaxMessages, MaxFaults,   \* bounds
          None          \* no row; a field that is null or missing

\* A row is known by its table and the user, seat or invitation it is about.
Tables == {"role", "access", "settings"}
Keys == ({"role", "access"} \X Users) \cup {<<"settings", None>>}
        \cup ({"presence"} \X Seats) \cup ({"seating"} \X Invitations)

Roles    == {"ADMIN", "GUEST"}
Settings == [maxSeats : {None, 1}, selection : BOOLEAN]
Updates  == [maxSeats : {None, 1}, selection : BOOLEAN \cup {None}]
Presence == [inside : BOOLEAN, checkedIn : Nat, revoked : BOOLEAN]

\* What a row of table t may hold.
Values(t) == {None} \cup CASE t = "role"     -> Roles
                         [] t = "settings" -> Settings
                         [] t = "presence" -> Presence
                         [] OTHER          -> {"none", "some"}

ASSUME ProjectionAssumption ==
    /\ MaxTime \in Nat \ {0} /\ MaxMessages \in Nat /\ MaxFaults \in Nat
    /\ None \notin Users \cup Seats \cup Invitations \cup BOOLEAN \cup Nat
    /\ None \notin Roles \cup Settings \cup Presence \cup {"none", "some"}

Row(value, at) == [value |-> value, at |-> at]
Absent         == Row(None, 0)

VARIABLES
    now,      \* the time
    kinds,    \* the kinds of messages of this behaviour
    row,      \* the projections
    source,   \* what the owning services say
    pending,  \* the messages that wait to be handled
    sent,     \* how many messages there were
    pc, msg,  \* the next statement and the message of each handler
    seen,     \* the row it read
    todo,     \* the tables it still has to clear
    late,     \* rows with a change that occurred before the one before it was handled
    raced,    \* rows that two handlers worked on at once, or presence for one message twice
    newest,   \* the newest access message handled for each user
    scans,    \* the scans handled for each seat since it was revoked
    faults    \* faults so far

handler == <<pc, msg, seen, todo>>
ghost   == <<late, raced, newest, scans>>
vars    == <<now, kinds, row, source, pending, sent, handler, ghost, faults>>
-----------------------------------------------------------------------------
(* The owning services *)

\* The row a message is about; an ownerChanged is about the new owner here.
KeyOf(m) == CASE m.kind \in {"assigned", "removed", "owner"} -> <<"role", m.of>>
              [] m.kind = "access"                           -> <<"access", m.of>>
              [] m.kind \in {"scan", "revoke"}               -> <<"presence", m.of>>
              [] m.kind = "seating"                          -> <<"seating", m.of>>
              [] OTHER                                       -> <<"settings", None>>

\* All rows a message is about.
KeysOf(m) == CASE m.kind = "owner"   -> {KeyOf(m)} \cup {<<"role", u>> : u \in {m.value} \cap Users}
               [] m.kind = "deleted" -> {k \in Keys : k[1] \in Tables}
               [] OTHER              -> {KeyOf(m)}

\* Two messages or handlings about the same row.
WorkedOn(k) == \E h \in Handlers : pc[h] # "idle" /\ k \in KeysOf(msg[h])
Unsettled(k) == WorkedOn(k) \/ \E m \in pending : k \in KeysOf(m)

\* Mutant: a field that is missing is cleared.
Replace(old, new) == new

\* The settings after an update: a field that is missing is kept.
Merge(old, new) ==
    [maxSeats  |-> IF new.maxSeats = None THEN old.maxSeats ELSE new.maxSeats,
     selection |-> IF new.selection = None THEN old.selection ELSE new.selection]

\* The messages the other services can send next; the value of an ownerChanged is the
\* old owner.
Contents ==
    LET M(kind, O, V) == [kind : {kind} \cap kinds, of : O, value : V]
        settings == source[<<"settings", None>>]
    IN  M("access", Users, {"none", "some"}) \cup M("assigned", Users, Roles)
        \cup M("removed", Users, {None}) \cup M("deleted", {None}, {None})
        \cup {m \in M("owner", Users, Users \cup {None}) : m.of # m.value}
        \cup (IF settings = None THEN M("created", {None}, Settings)
                                 ELSE M("updated", {None}, Updates))
        \cup M("scan", Seats, {None}) \cup M("revoke", Seats, {None})
        \cup M("seating", Invitations, {"none", "some"})

\* What the owning service says of row k after m.
After(m, k) ==
    CASE m.kind \in {"removed", "deleted"} -> None
      [] m.kind = "owner"                  -> IF k = KeyOf(m) THEN "ADMIN" ELSE None
      [] m.kind = "updated"                -> Merge(source[k], m.value)
      [] OTHER                             -> m.value

\* A deleted event is heard of no more.
Occur ==
    /\ sent < MaxMessages /\ sent' = sent + 1
    /\ \A m \in pending : m.kind # "deleted"
    /\ \E c \in Contents :
         LET m == [kind |-> c.kind, of |-> c.of, value |-> c.value, at |-> now] IN
         /\ pending' = pending \cup {m}
         /\ source' = [k \in Keys |-> IF k \in KeysOf(m) THEN After(m, k) ELSE source[k]]
         /\ late' = late \cup {k \in KeysOf(m) : Unsettled(k)}
    /\ UNCHANGED <<now, kinds, row, handler, raced, newest, scans, faults>>

Tick ==
    /\ now < MaxTime /\ now' = now + 1
    /\ UNCHANGED <<kinds, row, source, pending, sent, handler, ghost, faults>>
-----------------------------------------------------------------------------
(* Delivery *)

Goto(h, label) == pc' = [pc EXCEPT ![h] = label]

First(m) == CASE m.kind = "owner" /\ m.value # None -> "readOld"
              [] m.kind = "deleted"                 -> "delete"
              [] m.kind \in {"created", "revoke", "seating"} -> "write"
              [] OTHER                              -> "read"

Deliver(h, m) ==
    /\ pc[h] = "idle"
    /\ pending' = pending \ {m}
    /\ msg' = [msg EXCEPT ![h] = m]
    /\ todo' = [todo EXCEPT ![h] = IF m.kind = "deleted" THEN Tables ELSE {}]
    /\ raced' = raced \cup {k \in KeysOf(m) : WorkedOn(k)}
    /\ Goto(h, First(m))
    /\ UNCHANGED <<now, kinds, row, source, sent, seen, late, newest, scans, faults>>

End(h) ==
    /\ Goto(h, "idle")
    /\ msg' = [msg EXCEPT ![h] = None]
    /\ seen' = [seen EXCEPT ![h] = Absent]
    /\ todo' = [todo EXCEPT ![h] = {}]

\* The handler returns.
Return(h) ==
    /\ pc[h] = "done"
    /\ End(h)
    /\ UNCHANGED <<now, kinds, row, source, pending, sent, ghost, faults>>

\* A statement fails or the service stops: the message is handled again, from the start.
Again(h) ==
    /\ faults < MaxFaults /\ faults' = faults + 1
    /\ pc[h] # "idle"
    /\ pending' = pending \cup {msg[h]}
    /\ End(h)
    /\ raced' = raced \cup {k \in KeysOf(msg[h]) : pc[h] = "done" /\ k[1] = "presence"}
    /\ UNCHANGED <<now, kinds, row, source, sent, late, newest, scans>>
-----------------------------------------------------------------------------
(* Handlers *)

\* Mutants: a message of the same time is stale; none is.
StaleOrEqual(m, r) == r.at # 0 /\ m.at <= r.at
NeverStale(m, r)   == FALSE

\* A row without a time, or no row, makes nothing stale.
Stale(m, r) == r.at # 0 /\ m.at < r.at

Read(h) ==
    /\ pc[h] = "read"
    /\ seen' = [seen EXCEPT ![h] = row[KeyOf(msg[h])]]
    /\ Goto(h, "write")
    /\ UNCHANGED <<now, kinds, row, source, pending, sent, msg, todo, ghost, faults>>

\* Mutant: a seat without a row counts as entered.
EntersUnlessRow(r) == r.value # None /\ ~r.value.inside

\* A scan enters a seat whose row does not say INSIDE.
Enters(r) == r.value = None \/ ~r.value.inside

\* What each handler makes of row q with message m.
UserAccessChanged(m) == Row(m.value, m.at)
RoleAssigned(m)      == Row(m.value, now)
OwnerChanged         == Row("ADMIN", now)
RoleRemoved          == Absent
SettingsCreated(m)   == Row(m.value, now)
InvitationSeated(m)  == Row(m.value, 0)

SettingsUpdated(m, q) ==
    Row(Merge(IF q = Absent THEN [maxSeats |-> None, selection |-> FALSE] ELSE q.value, m.value), now)

\* checkedInAt is set once, as far as row r, read before, knows.
Scanned(m, r, q) ==
    LET inside == Enters(r)
        first == inside /\ (r.value = None \/ r.value.checkedIn = 0)
        old == IF q.value = None THEN [inside |-> FALSE, checkedIn |-> 0, revoked |-> FALSE]
                                 ELSE q.value
    IN Row([old EXCEPT !.inside = inside, !.checkedIn = IF first THEN m.at ELSE @], 0)

Revoked(q) ==
    Row([inside |-> FALSE, revoked |-> TRUE, checkedIn |-> IF q = Absent THEN 0 ELSE q.value.checkedIn], 0)

Written(m, r, q) ==
    CASE m.kind = "access"   -> UserAccessChanged(m)
      [] m.kind = "assigned" -> RoleAssigned(m)
      [] m.kind = "owner"    -> OwnerChanged
      [] m.kind = "removed"  -> RoleRemoved
      [] m.kind = "created"  -> SettingsCreated(m)
      [] m.kind = "updated"  -> SettingsUpdated(m, q)
      [] m.kind = "scan"     -> Scanned(m, r, q)
      [] m.kind = "revoke"   -> Revoked(q)
      [] m.kind = "seating"  -> InvitationSeated(m)

\* The upsert or deleteMany, unless the message is stale by what was read; events created,
\* revocations and seatings are written without a look.
Write(h) ==
    LET m == msg[h]
        k == KeyOf(m)
    IN /\ pc[h] = "write"
       /\ \/ Stale(m, seen[h]) /\ UNCHANGED row
          \/ ~Stale(m, seen[h]) /\ row' = [row EXCEPT ![k] = Written(m, seen[h], @)]
       /\ newest' = IF m.kind = "access" /\ m.at > newest[m.of]
                    THEN [newest EXCEPT ![m.of] = m.at] ELSE newest
       /\ scans' = CASE m.kind = "scan"   -> [scans EXCEPT ![m.of] = 1 - @]
                     [] m.kind = "revoke" -> [scans EXCEPT ![m.of] = 0]
                     [] OTHER             -> scans
       /\ Goto(h, "done")
       /\ UNCHANGED <<now, kinds, source, pending, sent, msg, seen, todo, late, raced, faults>>

OldKey(h) == <<"role", msg[h].value>>

\* handleOwnerChanged: the old owner first, then the new one
ReadOld(h) ==
    /\ pc[h] = "readOld"
    /\ seen' = [seen EXCEPT ![h] = row[OldKey(h)]]
    /\ Goto(h, "deleteOld")
    /\ UNCHANGED <<now, kinds, row, source, pending, sent, msg, todo, ghost, faults>>

DeleteOld(h) ==
    /\ pc[h] = "deleteOld"
    /\ row' = IF Stale(msg[h], seen[h]) THEN row ELSE [row EXCEPT ![OldKey(h)] = Absent]
    /\ Goto(h, "read")
    /\ UNCHANGED <<now, kinds, source, pending, sent, msg, seen, todo, ghost, faults>>

\* Mutant: the settings of a deleted event are kept.
ClearedButSettings(t) ==
    [k \in Keys |-> IF k[1] = t /\ t # "settings" THEN Absent ELSE row[k]]

Cleared(t) == [k \in Keys |-> IF k[1] = t THEN Absent ELSE row[k]]

\* handleEventDeleted: one deleteMany for each table, in any order
DeleteTable(h) ==
    /\ pc[h] = "delete"
    /\ \/ \E t \in todo[h] :
            /\ row' = Cleared(t)
            /\ todo' = [todo EXCEPT ![h] = @ \ {t}]
            /\ newest' = IF t = "access" THEN [u \in Users |-> 0] ELSE newest
            /\ UNCHANGED pc
       \/ /\ todo[h] = {}
          /\ Goto(h, "done")
          /\ UNCHANGED <<row, todo, newest>>
    /\ UNCHANGED <<now, kinds, source, pending, sent, msg, seen, late, raced, scans, faults>>

Init ==
    /\ now = 1
    /\ kinds \in Groups
    /\ row = [k \in Keys |-> Absent]
    /\ source = [k \in Keys |-> None]
    /\ pending = {} /\ sent = 0
    /\ pc = [h \in Handlers |-> "idle"]
    /\ msg = [h \in Handlers |-> None]
    /\ seen = [h \in Handlers |-> Absent]
    /\ todo = [h \in Handlers |-> {}]
    /\ late = {} /\ raced = {}
    /\ newest = [u \in Users |-> 0]
    /\ scans = [s \in Seats |-> 0]
    /\ faults = 0

Handle(h) == \/ Read(h) \/ Write(h) \/ ReadOld(h) \/ DeleteOld(h) \/ DeleteTable(h) \/ Return(h)

Next == \/ Occur \/ Tick
        \/ \E h \in Handlers : Handle(h) \/ Again(h) \/ \E m \in pending : Deliver(h, m)

Spec == Init /\ [][Next]_vars
-----------------------------------------------------------------------------
(* Properties *)

TypeOK ==
    /\ now \in 1 .. MaxTime
    /\ \A k \in Keys : /\ row[k].value \in Values(k[1]) /\ row[k].at \in 0 .. MaxTime
                       /\ k[1] # "presence" => source[k] \in Values(k[1])
    /\ \A m \in pending : m.at \in 1 .. MaxTime
    /\ pc \in [Handlers -> {"idle", "read", "write", "readOld", "deleteOld", "delete", "done"}]
    /\ todo \in [Handlers -> SUBSET Tables]
    /\ late \subseteq Keys /\ raced \subseteq Keys

\* A copy agrees with its owner once every message about it is handled, if each change
\* occurred after the one before it was handled: also when both have the same time, after
\* a crash between the two rows of a change of owner, and when the event is deleted.
TimelyChangesAreCopied ==
    \A k \in Keys : k[1] # "presence" /\ ~Unsettled(k) /\ k \notin late
                        => row[k].value = source[k]

\* Whatever the order and the repetitions of access messages, the newest one handled wins,
\* unless two were handled at the same time.
NewestAccessWins ==
    \A u \in Users : <<"access", u>> \notin raced
                         => row[<<"access", u>>].at = newest[u]

\* A seat is INSIDE after an odd number of scans since its ticket was revoked, unless two
\* messages about it were handled at the same time or one twice.
PresenceCountsScans ==
    \A s \in Seats : LET p == row[<<"presence", s>>].value IN
        <<"presence", s>> \notin raced => (scans[s] = 1 <=> p # None /\ p.inside)
=============================================================================
