----------------------- MODULE EventProjectionsProofs -----------------------
(***************************************************************************)
(* Proofs about EventProjections, for any users, seats and invitations,    *)
(* any number of messages handled at the same time, and any mix of their   *)
(* kinds.                                                                  *)
(*                                                                         *)
(* The three properties are about one row each, and so are the parts of    *)
(* the invariant they follow from: what is known of a row while messages   *)
(* about it wait or are handled.                                           *)
(***************************************************************************)
EXTENDS EventProjections, TLAPS

-----------------------------------------------------------------------------
(* Types *)

Texts == {"none", "some"}

\* What the message m may be.
IsMessage(m) ==
    /\ m.at \in 1 .. now
    /\ \/ m.kind = "access" /\ m.of \in Users /\ m.value \in Texts
       \/ m.kind = "assigned" /\ m.of \in Users /\ m.value \in Roles
       \/ m.kind = "removed" /\ m.of \in Users
       \/ m.kind = "deleted"
       \/ m.kind = "owner" /\ m.of \in Users /\ m.value \in Users \cup {None} /\ m.of # m.value
       \/ m.kind = "created" /\ m.value \in Settings
       \/ m.kind = "updated" /\ m.value \in Updates
       \/ m.kind \in {"scan", "revoke"} /\ m.of \in Seats
       \/ m.kind = "seating" /\ m.of \in Invitations /\ m.value \in Texts

\* What the row k may be; rows of seats and invitations have no time.
IsRow(k, r) == /\ r \in [value : Values(k[1]), at : 0 .. now]
               /\ r.value = None => r.at = 0
               /\ k[1] \in {"presence", "seating"} => r.at = 0

\* The messages whose handlers read the row before they write it.
Reading == {"access", "assigned", "removed", "owner", "updated", "scan"}

\* The messages that a handler at a statement may have.
KindsAt(label) == CASE label = "read"   -> Reading
                    [] label = "write"  -> Reading \cup {"created", "revoke", "seating"}
                    [] label \in {"readOld", "deleteOld"} -> {"owner"}
                    [] label = "delete" -> {"deleted"}
                    [] OTHER -> Reading \cup {"created", "revoke", "seating", "deleted"}

HandlerFits(h) ==
    /\ pc[h] = "idle" => seen[h] = Absent
    /\ pc[h] # "idle" => IsMessage(msg[h]) /\ msg[h].kind \in KindsAt(pc[h])
    /\ pc[h] \in {"readOld", "deleteOld"} => msg[h].value \in Users
    /\ pc[h] = "write" => IF msg[h].kind \in Reading THEN IsRow(KeyOf(msg[h]), seen[h])
                                                     ELSE seen[h] = Absent
    /\ pc[h] \in {"readOld", "delete"} => seen[h] = Absent

TypeInv ==
    /\ now \in 1 .. MaxTime
    /\ DOMAIN row = Keys /\ DOMAIN source = Keys /\ DOMAIN msg = Handlers /\ DOMAIN seen = Handlers
    /\ \A k \in Keys : IsRow(k, row[k])
    /\ \A k \in Keys : k[1] # "presence" => source[k] \in Values(k[1])
    /\ \A m \in pending : IsMessage(m)
    /\ pc \in [Handlers -> {"idle", "read", "write", "readOld", "deleteOld", "delete", "done"}]
    /\ todo \in [Handlers -> SUBSET Tables]
    /\ \A h \in Handlers : HandlerFits(h)
    /\ late \subseteq Keys /\ raced \subseteq Keys
    /\ newest \in [Users -> Nat] /\ scans \in [Seats -> {0, 1}]

-----------------------------------------------------------------------------
(* One row *)

\* Handler h works on row k.
On(h, k) == pc[h] # "idle" /\ k \in KeysOf(msg[h])

\* One handler at most works on row k, and what it has read of it still holds.
Alone(k) ==
    /\ \A g, h \in Handlers : On(g, k) /\ On(h, k) => g = h
    /\ \A h \in Handlers : /\ pc[h] = "write" /\ msg[h].kind \in Reading /\ k = KeyOf(msg[h])
                           => seen[h] = row[k]

AccessInv(u)   == <<"access", u>> \notin raced =>
                      Alone(<<"access", u>>) /\ row[<<"access", u>>].at = newest[u]

PresenceInv(s) == LET k == <<"presence", s>>
                      p == row[k].value
                  IN  k \notin raced => Alone(k) /\ (scans[s] = 1 <=> p # None /\ p.inside)

\* What the owning service says of row k after message m, the last one about it.
Says(m, k) ==
    CASE m.kind \in {"removed", "deleted"} -> None
      [] m.kind = "owner"                  -> IF k = KeyOf(m) THEN "ADMIN" ELSE None
      [] m.kind = "updated"                -> Merge(row[k].value, m.value)
      [] OTHER                             -> m.value

Agrees(k) == row[k].value = source[k]

\* m will make row k what it should be, or has, and is stale only then.
Promise(m, k) ==
    /\ source[k] = Says(m, k)
    /\ m.kind = "updated" => row[k].value # None
    /\ Agrees(k) \/ row[k].at <= m.at

\* How far handler h is with row k.
Progress(h, k) ==
    /\ pc[h] = "done" => Agrees(k)
    /\ pc[h] \in {"read", "write"} /\ k # KeyOf(msg[h]) => Agrees(k)
    /\ pc[h] = "write" /\ msg[h].kind \in Reading /\ k = KeyOf(msg[h]) => seen[h] = row[k]
    /\ pc[h] = "deleteOld" /\ k # KeyOf(msg[h]) => seen[h] = row[k]
    /\ pc[h] = "delete" => k[1] \in todo[h] \/ row[k].value = None

\* One message about row k waits or is handled, and keeps its promise; without one, the
\* row agrees with its owner.
Timely(k) ==
    /\ \A m, n \in pending : k \in KeysOf(m) /\ k \in KeysOf(n) => m = n
    /\ \A g, h \in Handlers : On(g, k) /\ On(h, k) => g = h
    /\ \A m \in pending, h \in Handlers : ~(k \in KeysOf(m) /\ On(h, k))
    /\ \A m \in pending : k \in KeysOf(m) => Promise(m, k)
    /\ \A h \in Handlers : On(h, k) => Promise(msg[h], k) /\ Progress(h, k)
    /\ ~Unsettled(k) => Agrees(k)

CopiedInv(k) == k[1] # "presence" /\ k \notin late => Timely(k)

Inv == /\ TypeInv
       /\ \A u \in Users : AccessInv(u)
       /\ \A s \in Seats : PresenceInv(s)
       /\ \A k \in Keys : CopiedInv(k)
-----------------------------------------------------------------------------
(* Types *)

LEMMA KeyFacts ==
    ASSUME NEW m, IsMessage(m)
    PROVE  /\ KeyOf(m) \in KeysOf(m) /\ KeysOf(m) \subseteq Keys
           /\ m.kind \notin {"owner", "deleted"} => KeysOf(m) = {KeyOf(m)}
           /\ m.kind = "owner" => /\ KeyOf(m) = <<"role", m.of>>
                                  /\ KeysOf(m) \subseteq {KeyOf(m), <<"role", m.value>>}
                                  /\ m.value \in Users => <<"role", m.value>> \in KeysOf(m)
                                  /\ m.value = None => KeysOf(m) = {KeyOf(m)}
           /\ m.kind = "deleted" => KeysOf(m) = {k \in Keys : k[1] \in Tables}
BY ProjectionAssumption DEF IsMessage, KeyOf, KeysOf, Keys, Tables

LEMMA KeyOfKind ==
    ASSUME NEW m, IsMessage(m)
    PROVE  /\ m.kind = "access" => KeyOf(m) = <<"access", m.of>> /\ m.of \in Users
           /\ m.kind \in {"assigned", "removed", "owner"} => KeyOf(m) = <<"role", m.of>> /\ m.of \in Users
           /\ m.kind \in {"created", "updated"} => KeyOf(m) = <<"settings", None>>
           /\ m.kind \in {"scan", "revoke"} => KeyOf(m) = <<"presence", m.of>> /\ m.of \in Seats
           /\ m.kind = "seating" => KeyOf(m) = <<"seating", m.of>> /\ m.of \in Invitations
BY DEF IsMessage, KeyOf

LEMMA KeyKinds ==
    ASSUME NEW k \in Keys
    PROVE  k[1] \in {"role", "access", "settings", "presence", "seating"}
BY DEF Keys

LEMMA AbsentIsRow ==
    ASSUME TypeInv, NEW k
    PROVE  IsRow(k, Absent)
BY DEF IsRow, Absent, Row, Values, TypeInv

LEMMA MergeOfType ==
    ASSUME NEW old \in Settings, NEW new \in Updates
    PROVE  Merge(old, new) \in Settings /\ Merge(Merge(old, new), new) = Merge(old, new)
BY ProjectionAssumption DEF Merge, Settings, Updates

\* What a handler writes is a row of its table.
LEMMA WrittenIsRow ==
    ASSUME TypeInv, NEW m, IsMessage(m), m.kind # "deleted",
           NEW r, m.kind \in Reading => IsRow(KeyOf(m), r), NEW q, IsRow(KeyOf(m), q)
    PROVE  IsRow(KeyOf(m), Written(m, r, q))
<1> DEFINE k == KeyOf(m)
<1> USE ProjectionAssumption DEF IsRow, Row, Values
<1>0. now \in 0 .. now /\ 0 \in 0 .. now /\ m.at \in 0 .. now /\ m.at \in Nat
  BY DEF TypeInv, IsMessage
<1>1. CASE m.kind = "access"
  <2>1. Written(m, r, q) = UserAccessChanged(m) /\ k[1] = "access" /\ m.value \in Texts
    BY <1>1, KeyOfKind DEF Written, IsMessage
  <2> QED BY <1>0, <2>1 DEF UserAccessChanged, Texts
<1>2. CASE m.kind = "assigned"
  <2>1. Written(m, r, q) = RoleAssigned(m) /\ k[1] = "role" /\ m.value \in Roles
    BY <1>2, KeyOfKind DEF Written, IsMessage
  <2> QED BY <1>0, <2>1 DEF RoleAssigned
<1>3. CASE m.kind = "owner"
  <2>1. Written(m, r, q) = OwnerChanged /\ k[1] = "role"
    BY <1>3, KeyOfKind DEF Written
  <2> QED BY <1>0, <2>1 DEF OwnerChanged, Roles
<1>4. CASE m.kind = "removed"
  <2>1. Written(m, r, q) = Absent
    BY <1>4 DEF Written, RoleRemoved
  <2> QED BY <2>1, AbsentIsRow
<1>5. CASE m.kind = "created"
  <2>1. Written(m, r, q) = SettingsCreated(m) /\ k[1] = "settings" /\ m.value \in Settings
    BY <1>5, KeyOfKind DEF Written, IsMessage
  <2> QED BY <1>0, <2>1 DEF SettingsCreated
<1>6. CASE m.kind = "updated"
  <2>1. Written(m, r, q) = SettingsUpdated(m, q) /\ k[1] = "settings" /\ m.value \in Updates
    BY <1>6, KeyOfKind DEF Written, IsMessage
  <2>2. [maxSeats |-> None, selection |-> FALSE] \in Settings
    BY DEF Settings
  <2>3. q # Absent => q.value \in Settings
    BY <2>1 DEF Absent
  <2>4. \E v \in Settings : SettingsUpdated(m, q) = Row(v, now)
    BY <2>1, <2>2, <2>3, MergeOfType DEF SettingsUpdated
  <2> QED BY <1>0, <2>1, <2>4
<1>7. CASE m.kind = "scan"
  <2>1. Written(m, r, q) = Scanned(m, r, q) /\ k[1] = "presence"
    BY <1>7, KeyOfKind DEF Written
  <2>2. r.value \in {None} \cup Presence /\ q.value \in {None} \cup Presence
    BY <1>7, <2>1 DEF Reading
  <2>3. \E v \in Presence : Scanned(m, r, q) = Row(v, 0)
    <3> DEFINE new == [inside |-> FALSE, checkedIn |-> 0, revoked |-> FALSE]
               old == IF q.value = None THEN new ELSE q.value
               first == Enters(r) /\ (r.value = None \/ r.value.checkedIn = 0)
               at == IF first THEN m.at ELSE old.checkedIn
               v == [old EXCEPT !.inside = Enters(r), !.checkedIn = at]
    <3>1. Scanned(m, r, q) = Row(v, 0)
      BY DEF Scanned
    <3>2. old \in Presence
      BY <2>2 DEF Presence
    <3>3. Enters(r) \in BOOLEAN
      BY <2>2 DEF Enters, Presence
    <3> HIDE DEF old, first
    <3>4. at \in Nat
      BY <1>0, <3>2 DEF Presence
    <3> HIDE DEF at
    <3>5. v \in Presence
      BY <3>2, <3>3, <3>4 DEF Presence
    <3> QED BY <3>1, <3>5
  <2> QED BY <1>0, <2>1, <2>3
<1>8. CASE m.kind = "revoke"
  <2>1. Written(m, r, q) = Revoked(q) /\ k[1] = "presence"
    BY <1>8, KeyOfKind DEF Written
  <2>2. q # Absent => q.value \in Presence
    BY <2>1 DEF Absent
  <2>3. \E v \in Presence : Revoked(q) = Row(v, 0)
    BY <2>2 DEF Revoked, Presence
  <2> QED BY <1>0, <2>1, <2>3
<1>9. CASE m.kind = "seating"
  <2>1. Written(m, r, q) = InvitationSeated(m) /\ k[1] = "seating" /\ m.value \in Texts
    BY <1>9, KeyOfKind DEF Written, IsMessage
  <2> QED BY <1>0, <2>1 DEF InvitationSeated, Texts
<1> QED BY <1>1, <1>2, <1>3, <1>4, <1>5, <1>6, <1>7, <1>8, <1>9 DEF IsMessage

LEMMA ContentsAreMessages ==
    ASSUME TypeInv, NEW c \in Contents, NEW m,
           m = [kind |-> c.kind, of |-> c.of, value |-> c.value, at |-> now]
    PROVE  IsMessage(m) /\ (m.kind = "updated" => source[<<"settings", None>>] # None)
<1> DEFINE M(kind, O, V) == [kind : {kind} \cap kinds, of : O, value : V]
<1>1. now \in 1 .. now
  BY DEF TypeInv
<1>2. CASE c \in M("access", Users, {"none", "some"}) \cup M("assigned", Users, Roles)
                 \cup M("removed", Users, {None}) \cup M("deleted", {None}, {None})
  BY <1>1, <1>2 DEF IsMessage, Texts
<1>3. CASE c \in {n \in M("owner", Users, Users \cup {None}) : n.of # n.value}
  BY <1>1, <1>3 DEF IsMessage
<1>4. CASE c \in IF source[<<"settings", None>>] = None THEN M("created", {None}, Settings)
                                                      ELSE M("updated", {None}, Updates)
  BY <1>1, <1>4 DEF IsMessage
<1>5. CASE c \in M("scan", Seats, {None}) \cup M("revoke", Seats, {None})
                 \cup M("seating", Invitations, {"none", "some"})
  BY <1>1, <1>5 DEF IsMessage, Texts
<1> QED BY <1>2, <1>3, <1>4, <1>5 DEF Contents

\* A row that message m is about is in the table of its kind.
LEMMA TableOfKind ==
    ASSUME NEW m, IsMessage(m), NEW k \in KeysOf(m)
    PROVE  /\ k \in Keys
           /\ m.kind \in {"assigned", "removed", "owner"} => k[1] = "role"
           /\ m.kind = "access" => k[1] = "access"
           /\ m.kind \in {"created", "updated"} => k = <<"settings", None>>
           /\ m.kind \in {"scan", "revoke"} => k[1] = "presence"
           /\ m.kind = "seating" => k[1] = "seating"
           /\ m.kind = "deleted" => k[1] \in Tables
<1>1. KeyOf(m) \in KeysOf(m) /\ KeysOf(m) \subseteq Keys
  BY KeyFacts
<1>2. CASE m.kind = "owner"
  <2>1. k = <<"role", m.of>> \/ k = <<"role", m.value>>
    BY <1>2, KeyFacts
  <2> QED BY <1>1, <1>2, <2>1
<1>3. CASE m.kind = "deleted"
  BY <1>3, KeyFacts
<1>4. CASE m.kind \notin {"owner", "deleted"}
  <2>1. k = KeyOf(m)
    BY <1>4, KeyFacts
  <2> QED BY <1>1, <1>4, <2>1, KeyOfKind
<1> QED BY <1>2, <1>3, <1>4

LEMMA AfterOfType ==
    ASSUME TypeInv, NEW m, IsMessage(m), NEW k \in KeysOf(m), k[1] # "presence",
           m.kind = "updated" => source[<<"settings", None>>] # None
    PROVE  After(m, k) \in Values(k[1])
<1>1. CASE m.kind \in {"removed", "deleted"}
  BY <1>1 DEF After, Values
<1>2. CASE m.kind = "owner"
  <2>1. k[1] = "role" /\ After(m, k) \in Roles \cup {None}
    BY <1>2, TableOfKind DEF After, Roles
  <2> QED BY <2>1 DEF Values
<1>3. CASE m.kind = "updated"
  <2>1. k = <<"settings", None>> /\ k \in Keys
    BY <1>3, TableOfKind
  <2>2. source[k] \in Settings /\ m.value \in Updates
    BY <1>3, <2>1 DEF TypeInv, Values, IsMessage
  <2> QED BY <1>3, <2>1, <2>2, MergeOfType DEF After, Values
<1>4. CASE m.kind \in {"access", "assigned", "created", "seating"}
  <2>1. After(m, k) = m.value
    BY <1>4 DEF After
  <2>2. /\ m.kind = "access" => k[1] = "access"
        /\ m.kind = "seating" => k[1] = "seating"
        /\ m.kind = "assigned" => k[1] = "role"
        /\ m.kind = "created" => k[1] = "settings"
    BY TableOfKind
  <2>3. /\ m.kind \in {"access", "seating"} => m.value \in Texts
        /\ m.kind = "assigned" => m.value \in Roles
        /\ m.kind = "created" => m.value \in Settings
    BY <1>4 DEF IsMessage
  <2> QED BY <1>4, <2>1, <2>2, <2>3 DEF Values, Texts
<1>5. m.kind \notin {"scan", "revoke"}
  BY TableOfKind
<1> QED BY <1>1, <1>2, <1>3, <1>4, <1>5 DEF IsMessage

LEMMA FitsKept ==
    ASSUME TypeInv, now' \in Nat, now <= now', NEW h \in Handlers, HandlerFits(h),
           pc'[h] = pc[h], msg'[h] = msg[h], seen'[h] = seen[h]
    PROVE  HandlerFits(h)'
<1>1. \A m : IsMessage(m) => IsMessage(m)'
  BY DEF IsMessage, TypeInv
<1>2. \A k, r : IsRow(k, r) => IsRow(k, r)'
  BY DEF IsRow, TypeInv
<1> QED BY <1>1, <1>2 DEF HandlerFits

\* A step of one handler.
LEMMA StepOfType ==
    ASSUME TypeInv, NEW h \in Handlers, UNCHANGED <<now, source, late>>,
           DOMAIN row' = Keys, \A k \in Keys : IsRow(k, row'[k]),
           \A m \in pending' : IsMessage(m),
           NEW label \in {"idle", "read", "write", "readOld", "deleteOld", "delete", "done"},
           Goto(h, label), todo' \in [Handlers -> SUBSET Tables],
           DOMAIN msg' = Handlers, DOMAIN seen' = Handlers, HandlerFits(h)',
           \A g \in Handlers \ {h} : msg'[g] = msg[g] /\ seen'[g] = seen[g],
           raced' \subseteq Keys, newest' \in [Users -> Nat], scans' \in [Seats -> {0, 1}]
    PROVE  TypeInv'
<1>1. pc' = [pc EXCEPT ![h] = label]
  BY DEF Goto
<1>2. \A g \in Handlers : HandlerFits(g)'
  BY <1>1, FitsKept DEF TypeInv
<1>3. \A m \in pending' : IsMessage(m)'
  BY DEF IsMessage
<1>4. \A k \in Keys : IsRow(k, row[k])'
  BY DEF IsRow
<1> QED BY <1>1, <1>2, <1>3, <1>4 DEF TypeInv

LEMMA EndOfType ==
    ASSUME TypeInv, NEW h \in Handlers, End(h), UNCHANGED <<now, source, late, row, newest, scans>>,
           \A m \in pending' : IsMessage(m), raced' \subseteq Keys
    PROVE  TypeInv'
<1>1. /\ Goto(h, "idle") /\ msg' = [msg EXCEPT ![h] = None] /\ seen' = [seen EXCEPT ![h] = Absent]
      /\ todo' = [todo EXCEPT ![h] = {}]
  BY DEF End
<1>2. HandlerFits(h)'
  BY <1>1 DEF HandlerFits, Goto, TypeInv, Absent, Row
<1>3. /\ todo' \in [Handlers -> SUBSET Tables] /\ DOMAIN msg' = Handlers /\ DOMAIN seen' = Handlers
      /\ \A g \in Handlers \ {h} : msg'[g] = msg[g] /\ seen'[g] = seen[g]
  BY <1>1 DEF TypeInv
<1> QED BY <1>1, <1>2, <1>3, StepOfType DEF TypeInv

LEMMA DeliverOfType ==
    ASSUME TypeInv, NEW h \in Handlers, NEW m \in pending, Deliver(h, m)
    PROVE  TypeInv'
<1> DEFINE label == First(m)
<1>1. /\ Goto(h, label) /\ pending' = pending \ {m} /\ msg' = [msg EXCEPT ![h] = m]
      /\ todo' = [todo EXCEPT ![h] = IF m.kind = "deleted" THEN Tables ELSE {}]
      /\ UNCHANGED <<now, source, late, row, newest, scans, seen>>
      /\ pc[h] = "idle"
  BY DEF Deliver, ghost
<1>2. IsMessage(m) /\ seen[h] = Absent
  BY <1>1 DEF TypeInv, HandlerFits
<1>3. /\ label \in {"read", "write", "readOld", "delete"} /\ m.kind \in KindsAt(label)
      /\ label = "readOld" => m.value \in Users
      /\ label = "write" => m.kind \notin Reading
  BY <1>2 DEF First, KindsAt, Reading, IsMessage
<1>4. HandlerFits(h)'
  BY <1>1, <1>2, <1>3 DEF HandlerFits, Goto, TypeInv, Absent, Row, IsMessage
<1>5. raced' \subseteq Keys
  BY <1>2, KeyFacts DEF Deliver, TypeInv
<1>6. /\ todo' \in [Handlers -> SUBSET Tables] /\ DOMAIN msg' = Handlers
      /\ \A g \in Handlers \ {h} : msg'[g] = msg[g]
  BY <1>1 DEF TypeInv
<1> HIDE DEF label
<1> QED BY <1>1, <1>3, <1>4, <1>5, <1>6, StepOfType DEF TypeInv

LEMMA ReadOfType ==
    ASSUME TypeInv, NEW h \in Handlers, Read(h) \/ ReadOld(h)
    PROVE  TypeInv'
<1>1. /\ UNCHANGED <<now, source, late, row, newest, scans, pending, msg, todo, raced>>
      /\ DOMAIN seen' = Handlers /\ \A g \in Handlers \ {h} : seen'[g] = seen[g]
  BY DEF Read, ReadOld, TypeInv, ghost
<1>2. CASE Read(h)
  <2>1. Goto(h, "write") /\ pc[h] = "read" /\ seen'[h] = row[KeyOf(msg[h])]
    BY <1>2 DEF Read, TypeInv
  <2>2. IsMessage(msg[h]) /\ msg[h].kind \in Reading
    BY <2>1 DEF TypeInv, HandlerFits, KindsAt
  <2>3. IsRow(KeyOf(msg[h]), row[KeyOf(msg[h])])
    BY <2>2, KeyFacts DEF TypeInv
  <2>4. HandlerFits(h)'
    BY <1>1, <2>1, <2>2, <2>3 DEF HandlerFits, Goto, TypeInv, IsMessage, IsRow, KindsAt, KeyOf
  <2> QED BY <1>1, <2>1, <2>4, StepOfType DEF TypeInv
<1>3. CASE ReadOld(h)
  <2>1. Goto(h, "deleteOld") /\ pc[h] = "readOld"
    BY <1>3 DEF ReadOld
  <2>2. IsMessage(msg[h]) /\ msg[h].kind = "owner" /\ msg[h].value \in Users
    BY <2>1 DEF TypeInv, HandlerFits, KindsAt
  <2>3. HandlerFits(h)'
    BY <1>1, <2>1, <2>2 DEF HandlerFits, Goto, TypeInv, IsMessage, KindsAt
  <2> QED BY <1>1, <2>1, <2>3, StepOfType DEF TypeInv
<1> QED BY <1>2, <1>3

LEMMA WriteOfType ==
    ASSUME TypeInv, NEW h \in Handlers, Write(h)
    PROVE  TypeInv'
<1> DEFINE m == msg[h]
           k == KeyOf(m)
<1>1. /\ pc[h] = "write" /\ Goto(h, "done")
      /\ row' = row \/ row' = [row EXCEPT ![k] = Written(m, seen[h], @)]
      /\ UNCHANGED <<now, source, late, pending, msg, seen, todo, raced>>
  BY DEF Write
<1>2. IsMessage(m) /\ m.kind # "deleted" /\ (m.kind \in Reading => IsRow(k, seen[h]))
  BY <1>1 DEF TypeInv, HandlerFits, KindsAt, Reading
<1>3. k \in Keys /\ IsRow(k, row[k])
  BY <1>2, KeyFacts DEF TypeInv
<1>4. IsRow(k, Written(m, seen[h], row[k]))
  BY <1>2, <1>3, WrittenIsRow
<1>5. DOMAIN row' = Keys /\ \A j \in Keys : IsRow(j, row'[j])
  BY <1>1, <1>3, <1>4 DEF TypeInv
<1>6. HandlerFits(h)'
  BY <1>1, <1>2 DEF HandlerFits, Goto, TypeInv, IsMessage, KindsAt
<1>7. newest' \in [Users -> Nat]
  <2>1. m.at \in Nat
    BY <1>2 DEF IsMessage
  <2> QED BY <2>1 DEF Write, TypeInv
<1>8. scans' \in [Seats -> {0, 1}]
  <2>1. scans \in [Seats -> {0, 1}]
    BY DEF TypeInv
  <2>2. CASE m.kind = "scan"
    <3>1. m.of \in Seats /\ scans' = [scans EXCEPT ![m.of] = 1 - scans[m.of]]
      BY <1>2, <2>2, KeyOfKind DEF Write
    <3>2. 1 - scans[m.of] \in {0, 1}
      BY <2>1, <3>1
    <3> QED BY <2>1, <3>1, <3>2
  <2>3. CASE m.kind = "revoke"
    BY <2>1, <2>3 DEF Write
  <2>4. CASE m.kind \notin {"scan", "revoke"}
    BY <2>1, <2>4 DEF Write
  <2> QED BY <2>2, <2>3, <2>4
<1> QED BY <1>1, <1>5, <1>6, <1>7, <1>8, StepOfType DEF TypeInv

LEMMA DeleteOfType ==
    ASSUME TypeInv, NEW h \in Handlers, DeleteOld(h) \/ DeleteTable(h)
    PROVE  TypeInv'
<1>1. CASE DeleteOld(h)
  <2>1. /\ pc[h] = "deleteOld" /\ Goto(h, "read")
        /\ row' = row \/ row' = [row EXCEPT ![OldKey(h)] = Absent]
        /\ UNCHANGED <<now, source, late, pending, msg, seen, todo, raced, newest, scans>>
    BY <1>1 DEF DeleteOld, ghost
  <2>2. IsMessage(msg[h]) /\ msg[h].kind = "owner"
    BY <2>1 DEF TypeInv, HandlerFits, KindsAt
  <2>3. DOMAIN row' = Keys /\ \A k \in Keys : IsRow(k, row'[k])
    BY <2>1, AbsentIsRow DEF TypeInv
  <2>4. HandlerFits(h)'
    BY <2>1, <2>2 DEF HandlerFits, Goto, TypeInv, IsMessage, KindsAt, Reading
  <2> QED BY <2>1, <2>3, <2>4, StepOfType DEF TypeInv
<1>2. CASE DeleteTable(h)
  <2>1. /\ pc[h] = "delete" /\ UNCHANGED <<now, source, late, pending, msg, seen, raced, scans>>
    BY <1>2 DEF DeleteTable
  <2>2. IsMessage(msg[h]) /\ msg[h].kind = "deleted" /\ seen[h] = Absent
    BY <2>1 DEF TypeInv, HandlerFits, KindsAt
  <2>3. ASSUME NEW t \in todo[h], row' = Cleared(t), todo' = [todo EXCEPT ![h] = @ \ {t}],
               newest' = IF t = "access" THEN [u \in Users |-> 0] ELSE newest, UNCHANGED pc
        PROVE  TypeInv'
    <3>1. DOMAIN row' = Keys /\ \A k \in Keys : IsRow(k, row'[k])
      BY <2>3, AbsentIsRow DEF TypeInv, Cleared
    <3>2. HandlerFits(h)'
      BY <2>1, <2>2, <2>3 DEF HandlerFits, TypeInv, IsMessage
    <3>3. Goto(h, "delete") /\ newest' \in [Users -> Nat] /\ todo' \in [Handlers -> SUBSET Tables]
      BY <2>1, <2>3 DEF Goto, TypeInv
    <3> QED BY <2>1, <3>1, <3>2, <3>3, StepOfType DEF TypeInv
  <2>4. CASE Goto(h, "done") /\ UNCHANGED <<row, todo, newest>>
    <3>1. HandlerFits(h)'
      BY <2>1, <2>2, <2>4 DEF HandlerFits, Goto, TypeInv, IsMessage, KindsAt
    <3> QED BY <2>1, <2>4, <3>1, StepOfType DEF TypeInv
  <2> QED BY <1>2, <2>3, <2>4 DEF DeleteTable
<1> QED BY <1>1, <1>2

LEMMA OccurOfType ==
    ASSUME TypeInv, Occur
    PROVE  TypeInv'
<1>0. PICK c \in Contents :
         LET m == [kind |-> c.kind, of |-> c.of, value |-> c.value, at |-> now] IN
         /\ pending' = pending \cup {m}
         /\ source' = [k \in Keys |-> IF k \in KeysOf(m) THEN After(m, k) ELSE source[k]]
         /\ late' = late \cup {k \in KeysOf(m) : Unsettled(k)}
  BY DEF Occur
<1>1. PICK m :
      /\ m = [kind |-> c.kind, of |-> c.of, value |-> c.value, at |-> now]
      /\ pending' = pending \cup {m}
      /\ source' = [k \in Keys |-> IF k \in KeysOf(m) THEN After(m, k) ELSE source[k]]
      /\ late' = late \cup {k \in KeysOf(m) : Unsettled(k)}
  BY <1>0
<1>2. UNCHANGED <<now, row, pc, msg, seen, todo, raced, newest, scans>>
  BY DEF Occur, handler
<1>3. IsMessage(m) /\ (m.kind = "updated" => source[<<"settings", None>>] # None)
  BY <1>1, ContentsAreMessages
<1>4. \A k \in Keys : k[1] # "presence" => source'[k] \in Values(k[1])
  BY <1>1, <1>3, AfterOfType DEF TypeInv
<1>5. late' \subseteq Keys
  BY <1>1, <1>3, KeyFacts DEF TypeInv
<1>6. \A h \in Handlers : HandlerFits(h)'
  BY <1>2, FitsKept DEF TypeInv
<1>7. \A n \in pending' : IsMessage(n)'
  BY <1>1, <1>2, <1>3 DEF IsMessage, TypeInv
<1>8. \A k \in Keys : IsRow(k, row[k])'
  BY <1>2 DEF IsRow, TypeInv
<1> QED BY <1>1, <1>2, <1>4, <1>5, <1>6, <1>7, <1>8 DEF TypeInv

LEMMA TickOfType ==
    ASSUME TypeInv, Tick
    PROVE  TypeInv'
<1>1. /\ now < MaxTime /\ now' = now + 1 /\ now \in 1 .. MaxTime
      /\ UNCHANGED <<row, source, pending, pc, msg, seen, todo, late, raced, newest, scans>>
  BY DEF Tick, handler, ghost, TypeInv
<1>2. now' \in 1 .. MaxTime /\ now' \in Nat /\ now <= now'
  BY <1>1, ProjectionAssumption
<1>3. \A h \in Handlers : HandlerFits(h)'
  BY <1>1, <1>2, FitsKept DEF TypeInv
<1>4. \A m \in pending' : IsMessage(m)'
  BY <1>1 DEF IsMessage, TypeInv
<1>5. \A k \in Keys : IsRow(k, row[k])'
  BY <1>1 DEF IsRow, TypeInv
<1> QED BY <1>1, <1>2, <1>3, <1>4, <1>5 DEF TypeInv

LEMMA TypeStays ==
    ASSUME TypeInv, [Next]_vars
    PROVE  TypeInv'
<1>1. ASSUME NEW h \in Handlers, Return(h)
      PROVE  TypeInv'
  BY <1>1, EndOfType DEF Return, TypeInv, ghost
<1>2. ASSUME NEW h \in Handlers, Again(h)
      PROVE  TypeInv'
  <2>1. /\ pc[h] # "idle" /\ pending' = pending \cup {msg[h]} /\ End(h)
        /\ raced' \subseteq raced \cup KeysOf(msg[h])
        /\ UNCHANGED <<now, source, late, row, newest, scans>>
    BY <1>2 DEF Again
  <2>2. IsMessage(msg[h])
    BY <2>1 DEF TypeInv, HandlerFits
  <2> QED BY <2>1, <2>2, KeyFacts, EndOfType DEF TypeInv
<1>3. CASE UNCHANGED vars
  <2>1. UNCHANGED <<now, row, source, pending, pc, msg, seen, todo, late, raced, newest, scans>>
    BY <1>3 DEF vars, handler, ghost
  <2>2. \A h \in Handlers : HandlerFits(h)'
    BY <2>1, FitsKept DEF TypeInv
  <2>3. \A m \in pending' : IsMessage(m)'
    BY <2>1 DEF IsMessage, TypeInv
  <2>4. \A k \in Keys : IsRow(k, row[k])'
    BY <2>1 DEF IsRow, TypeInv
  <2> QED BY <2>1, <2>2, <2>3, <2>4 DEF TypeInv
<1> QED BY <1>1, <1>2, <1>3, DeliverOfType, ReadOfType, WriteOfType, DeleteOfType, OccurOfType,
           TickOfType DEF Next, Handle
-----------------------------------------------------------------------------
(* Rows that one handler at most works on *)

LEMMA OnOwnRow ==
    ASSUME TypeInv, NEW h \in Handlers, pc[h] # "idle"
    PROVE  IsMessage(msg[h]) /\ On(h, KeyOf(msg[h]))
BY KeyFacts DEF TypeInv, HandlerFits, On

\* A handler changes no rows but those its message is about.
LEMMA OwnRows ==
    ASSUME TypeInv, NEW h \in Handlers, Handle(h), NEW k \in Keys
    PROVE  row'[k] = row[k] \/ On(h, k)
<1>1. CASE Write(h)
  <2>1. pc[h] = "write" /\ (row' = row \/ row' = [row EXCEPT ![KeyOf(msg[h])] = Written(msg[h], seen[h], @)])
    BY <1>1 DEF Write
  <2> QED BY <2>1, OnOwnRow DEF TypeInv
<1>2. CASE DeleteOld(h)
  <2>1. /\ pc[h] = "deleteOld"
        /\ row' = row \/ row' = [row EXCEPT ![<<"role", msg[h].value>>] = Absent]
    BY <1>2 DEF DeleteOld, OldKey
  <2>2. IsMessage(msg[h]) /\ msg[h].kind = "owner" /\ msg[h].value \in Users
    BY <2>1 DEF TypeInv, HandlerFits, KindsAt
  <2>3. On(h, <<"role", msg[h].value>>)
    BY <2>1, <2>2, KeyFacts DEF On
  <2> QED BY <2>1, <2>3 DEF TypeInv
<1>3. CASE DeleteTable(h)
  <2>1. pc[h] = "delete" /\ (row' = row \/ \E t \in todo[h] : row' = Cleared(t))
    BY <1>3 DEF DeleteTable
  <2>2. IsMessage(msg[h]) /\ msg[h].kind = "deleted"
    BY <2>1 DEF TypeInv, HandlerFits, KindsAt
  <2>3. k[1] \in Tables => On(h, k)
    BY <2>1, <2>2, KeyFacts DEF On
  <2> QED BY <2>1, <2>3 DEF TypeInv, Cleared
<1>4. CASE Read(h) \/ ReadOld(h) \/ Return(h)
  BY <1>4 DEF Read, ReadOld, Return
<1> QED BY <1>1, <1>2, <1>3, <1>4 DEF Handle

LEMMA AloneKept ==
    ASSUME TypeInv, NEW k \in Keys, Alone(k), NEW h \in Handlers,
           \A g \in Handlers \ {h} : pc'[g] = pc[g] /\ msg'[g] = msg[g] /\ seen'[g] = seen[g],
           On(h, k)' => On(h, k) \/ \A g \in Handlers \ {h} : ~On(g, k),
           row'[k] = row[k] \/ On(h, k),
           pc'[h] = "write" /\ msg'[h].kind \in Reading /\ k = KeyOf(msg'[h])
               => seen'[h] = row'[k]
    PROVE  Alone(k)'
<1>1. \A g \in Handlers \ {h} : On(g, k)' <=> On(g, k)
  BY DEF On
<1>2. \A f, g \in Handlers : On(f, k)' /\ On(g, k)' => f = g
  BY <1>1 DEF Alone
<1>3. ASSUME NEW g \in Handlers \ {h}, pc[g] = "write", msg[g].kind \in Reading, k = KeyOf(msg[g])
      PROVE  seen[g] = row'[k]
  <2>1. On(g, k)
    BY <1>3, OnOwnRow
  <2>2. ~On(h, k)
    BY <2>1 DEF Alone
  <2> QED BY <1>3, <2>2 DEF Alone
<1> QED BY <1>2, <1>3 DEF Alone

LEMMA AloneStays ==
    ASSUME TypeInv, [Next]_vars, NEW k \in Keys, k \notin raced', k \notin raced => Alone(k)
    PROVE  Alone(k)'
<1>0. raced \subseteq raced' /\ Alone(k)
  BY DEF Next, Handle, Occur, Tick, Deliver, Again, Read, Write, ReadOld, DeleteOld, DeleteTable,
         Return, vars, ghost
<1>1. ASSUME NEW h \in Handlers, NEW m \in pending, Deliver(h, m)
      PROVE  Alone(k)'
  <2>1. /\ pc' = [pc EXCEPT ![h] = First(m)] /\ msg' = [msg EXCEPT ![h] = m]
        /\ UNCHANGED <<row, seen>> /\ pc[h] = "idle"
    BY <1>1 DEF Deliver, Goto
  <2>2. IsMessage(m)
    BY DEF TypeInv
  <2>3. On(h, k)' => \A g \in Handlers \ {h} : ~On(g, k)
    <3>1. On(h, k)' => k \in KeysOf(m)
      BY <2>1 DEF On, TypeInv
    <3>2. k \in KeysOf(m) => ~WorkedOn(k)
      BY <1>1 DEF Deliver
    <3> QED BY <3>1, <3>2 DEF WorkedOn, On
  <2>4. pc'[h] = "write" => m.kind \notin Reading
    BY <2>1, <2>2 DEF First, Reading, IsMessage, TypeInv
  <2>5. /\ \A g \in Handlers \ {h} : pc'[g] = pc[g] /\ msg'[g] = msg[g] /\ seen'[g] = seen[g]
        /\ msg'[h] = m
    BY <2>1 DEF TypeInv
  <2> QED BY <1>0, <2>1, <2>3, <2>4, <2>5, AloneKept
<1>2. ASSUME NEW h \in Handlers, Return(h) \/ Again(h)
      PROVE  Alone(k)'
  <2>1. End(h) /\ UNCHANGED row
    BY <1>2 DEF Return, Again
  <2>2. /\ pc'[h] = "idle"
        /\ \A g \in Handlers \ {h} : pc'[g] = pc[g] /\ msg'[g] = msg[g] /\ seen'[g] = seen[g]
    BY <2>1 DEF End, Goto, TypeInv
  <2>3. ~On(h, k)'
    BY <2>2 DEF On
  <2> QED BY <1>0, <2>1, <2>2, <2>3, AloneKept
<1>3. ASSUME NEW h \in Handlers, Read(h) \/ ReadOld(h) \/ Write(h) \/ DeleteOld(h) \/ DeleteTable(h)
      PROVE  Alone(k)'
  <2>1. row'[k] = row[k] \/ On(h, k)
    BY <1>3, OwnRows DEF Handle
  <2>2. /\ UNCHANGED msg /\ pc[h] # "idle"
        /\ \A g \in Handlers \ {h} : pc'[g] = pc[g] /\ seen'[g] = seen[g]
    BY <1>3 DEF Read, ReadOld, Write, DeleteOld, DeleteTable, Goto, TypeInv
  <2>3. On(h, k)' => On(h, k)
    BY <2>2 DEF On
  <2>4. pc'[h] = "write" /\ k = KeyOf(msg[h]) => seen'[h] = row'[k]
    BY <1>3 DEF Read, ReadOld, Write, DeleteOld, DeleteTable, Goto, TypeInv
  <2> QED BY <1>0, <2>1, <2>2, <2>3, <2>4, AloneKept
<1>4. CASE Occur \/ Tick \/ UNCHANGED vars
  <2>1. UNCHANGED <<pc, msg, seen, row>>
    BY <1>4 DEF Occur, Tick, vars, handler
  <2> QED BY <1>0, <2>1 DEF Alone, On
<1> QED BY <1>1, <1>2, <1>3, <1>4 DEF Next, Handle

\* A handler that writes an access row, or deletes it, keeps the time of the newest message.
LEMMA AccessStays ==
    ASSUME TypeInv, [Next]_vars, NEW u \in Users, AccessInv(u)
    PROVE  AccessInv(u)'
<1> DEFINE k == <<"access", u>>
<1>0. k \in Keys
  BY DEF Keys
<1> SUFFICES ASSUME k \notin raced'
             PROVE  Alone(k)' /\ row'[k].at = newest'[u]
  BY DEF AccessInv
<1>1. k \notin raced
  BY DEF Next, Handle, Occur, Tick, Deliver, Again, Read, Write, ReadOld, DeleteOld, DeleteTable,
         Return, vars, ghost
<1>2. Alone(k) /\ row[k].at = newest[u]
  BY <1>1 DEF AccessInv
<1>3. Alone(k)'
  BY <1>0, <1>2, AloneStays
<1> HIDE DEF k
<1>4. ASSUME NEW h \in Handlers, Write(h)
      PROVE  row'[k].at = newest'[u]
  <2> DEFINE m == msg[h]
  <2>1. pc[h] = "write"
    BY <1>4 DEF Write
  <2>2. IsMessage(m) /\ m.kind # "deleted" /\ m.at \in Nat /\ m.at > 0
    BY <2>1 DEF TypeInv, HandlerFits, KindsAt, Reading, IsMessage
  <2>3. m.kind = "access" => KeyOf(m) = <<"access", m.of>> /\ m.of \in Users
    BY <2>2, KeyOfKind
  <2>4. KeyOf(m) = k <=> m.kind = "access" /\ m.of = u
    <3>1. m.kind # "access" => KeyOf(m)[1] # "access"
      BY <2>2, KeyOfKind DEF IsMessage
    <3> QED BY <2>3, <3>1 DEF k
  <2>5. CASE KeyOf(m) # k
    <3>1. row'[k] = row[k] /\ newest'[u] = newest[u]
      BY <1>0, <1>4, <2>3, <2>4, <2>5 DEF Write, TypeInv
    <3> QED BY <1>2, <3>1
  <2>6. CASE KeyOf(m) = k
    <3>1. seen[h] = row[k] /\ m.kind = "access" /\ m.of = u
      BY <1>2, <2>1, <2>4, <2>6 DEF Alone, Reading
    <3>2. newest[u] \in Nat
      BY DEF TypeInv
    <3>3. CASE Stale(m, seen[h])
      <4>1. UNCHANGED row
        BY <1>4, <3>3 DEF Write
      <4>2. ~(m.at > newest[u])
        BY <1>2, <2>2, <3>1, <3>2, <3>3 DEF Stale
      <4> QED BY <1>2, <1>4, <3>1, <4>1, <4>2 DEF Write
    <3>4. CASE ~Stale(m, seen[h])
      <4>1. row'[k] = Written(m, seen[h], row[k])
        BY <1>0, <1>4, <2>6, <3>4 DEF Write, TypeInv
      <4>2. row'[k].at = m.at
        BY <3>1, <4>1 DEF Written, UserAccessChanged, Row
      <4>3. newest'[u] = IF m.at > newest[u] THEN m.at ELSE newest[u]
        BY <1>4, <3>1 DEF Write, TypeInv
      <4>4. newest[u] = 0 \/ m.at >= newest[u]
        BY <1>2, <2>2, <3>1, <3>2, <3>4 DEF Stale
      <4> QED BY <2>2, <3>2, <4>2, <4>3, <4>4
    <3> QED BY <3>3, <3>4
  <2> QED BY <2>5, <2>6
<1>5. ASSUME NEW h \in Handlers, DeleteTable(h)
      PROVE  row'[k].at = newest'[u]
  <2>1. ASSUME NEW t, row' = Cleared(t), newest' = IF t = "access" THEN [v \in Users |-> 0] ELSE newest
        PROVE  row'[k].at = newest'[u]
    BY <1>0, <1>2, <2>1 DEF Cleared, Absent, Row, k
  <2>2. CASE UNCHANGED <<row, newest>>
    BY <1>2, <2>2
  <2> QED BY <1>5, <2>1, <2>2 DEF DeleteTable
<1>6. ASSUME NEW h \in Handlers, DeleteOld(h)
      PROVE  row'[k].at = newest'[u]
  <2>1. row'[k] = row[k] /\ UNCHANGED newest
    BY <1>0, <1>6 DEF DeleteOld, OldKey, TypeInv, ghost, k
  <2> QED BY <1>2, <2>1
<1>7. CASE UNCHANGED <<row, newest>>
  BY <1>2, <1>3, <1>7
<1> QED BY <1>3, <1>4, <1>5, <1>6, <1>7 DEF Next, Handle, Occur, Tick, Deliver, Again, Read, ReadOld,
                                          Return, vars, ghost

\* A scan turns what its handler read of the seat, a revocation clears it.
LEMMA PresenceStays ==
    ASSUME TypeInv, [Next]_vars, NEW s \in Seats, PresenceInv(s)
    PROVE  PresenceInv(s)'
<1> DEFINE k == <<"presence", s>>
           Inside(r) == r.value # None /\ r.value.inside
<1>0. k \in Keys /\ k[1] = "presence"
  BY DEF Keys
<1> SUFFICES ASSUME k \notin raced'
             PROVE  Alone(k)' /\ (scans'[s] = 1 <=> Inside(row'[k]))
  BY DEF PresenceInv
<1>1. k \notin raced
  BY DEF Next, Handle, Occur, Tick, Deliver, Again, Read, Write, ReadOld, DeleteOld, DeleteTable,
         Return, vars, ghost
<1>2. Alone(k) /\ (scans[s] = 1 <=> Inside(row[k]))
  BY <1>1 DEF PresenceInv
<1>3. Alone(k)'
  BY <1>0, <1>2, AloneStays
<1> HIDE DEF k
<1>4. ASSUME NEW h \in Handlers, Write(h)
      PROVE  scans'[s] = 1 <=> Inside(row'[k])
  <2> DEFINE m == msg[h]
  <2>1. pc[h] = "write"
    BY <1>4 DEF Write
  <2>2. IsMessage(m) /\ m.kind # "deleted" /\ (m.kind \notin Reading => seen[h] = Absent)
    BY <2>1 DEF TypeInv, HandlerFits, KindsAt, Reading
  <2>3. m.kind \in {"scan", "revoke"} => KeyOf(m) = <<"presence", m.of>> /\ m.of \in Seats
    BY <2>2, KeyOfKind
  <2>4. KeyOf(m) = k <=> m.kind \in {"scan", "revoke"} /\ m.of = s
    <3>1. m.kind \notin {"scan", "revoke"} => KeyOf(m)[1] # "presence"
      BY <2>2, KeyOfKind DEF IsMessage
    <3> QED BY <2>3, <3>1 DEF k
  <2>5. scans[s] \in {0, 1}
    BY DEF TypeInv
  <2>6. CASE KeyOf(m) # k
    <3>1. row'[k] = row[k]
      BY <1>0, <1>4, <2>6 DEF Write, TypeInv
    <3>2. scans'[s] = scans[s]
      BY <1>4, <2>3, <2>4, <2>6 DEF Write, TypeInv
    <3> QED BY <1>2, <3>1, <3>2
  <2>7. CASE m.kind = "scan" /\ m.of = s
    <3>1. seen[h] = row[k]
      BY <1>2, <2>1, <2>4, <2>7 DEF Alone, Reading
    <3>2. IsRow(k, row[k]) /\ row[k].at = 0 /\ row[k].value \in {None} \cup Presence
      BY <1>0 DEF TypeInv, IsRow, Values
    <3>3. row'[k] = Scanned(m, row[k], row[k])
      BY <1>0, <1>4, <2>4, <2>7, <3>1, <3>2 DEF Write, Stale, Written, TypeInv
    <3>4. scans'[s] = 1 - scans[s]
      BY <1>4, <2>7 DEF Write, TypeInv
    <3>5. row'[k].value.inside = Enters(row[k]) /\ row'[k].value # None
      <4> DEFINE q == row[k]
                 new == [inside |-> FALSE, checkedIn |-> 0, revoked |-> FALSE]
                 old == IF q.value = None THEN new ELSE q.value
                 first == Enters(q) /\ (q.value = None \/ q.value.checkedIn = 0)
                 at == IF first THEN m.at ELSE old.checkedIn
                 v == [old EXCEPT !.inside = Enters(q), !.checkedIn = at]
      <4>1. old \in Presence
        BY <3>2 DEF Presence
      <4>2. row'[k] = Row(v, 0)
        BY <3>3 DEF Scanned
      <4>3. Enters(q) \in BOOLEAN /\ m.at \in Nat
        BY <2>2, <3>2 DEF Enters, Presence, IsMessage
      <4> HIDE DEF old, first
      <4>4. at \in Nat
        BY <4>1, <4>3 DEF Presence
      <4> HIDE DEF at
      <4>5. v \in Presence /\ v.inside = Enters(q)
        BY <4>1, <4>3, <4>4 DEF Presence
      <4>6. None \notin Presence
        BY ProjectionAssumption
      <4> HIDE DEF v
      <4>7. row'[k].value = v
        BY <4>2 DEF Row
      <4> QED BY <4>5, <4>6, <4>7
    <3>6. Enters(row[k]) <=> ~Inside(row[k])
      BY <3>2 DEF Enters, Presence
    <3> QED BY <1>2, <2>5, <3>4, <3>5, <3>6
  <2>8. CASE m.kind = "revoke" /\ m.of = s
    <3>1. row'[k] = Revoked(row[k])
      BY <1>0, <1>4, <2>2, <2>4, <2>8 DEF Write, Stale, Written, TypeInv, Reading, Absent, Row
    <3>2. scans'[s] = 0
      BY <1>4, <2>8 DEF Write, TypeInv
    <3>3. ~Inside(row'[k])
      BY <3>1 DEF Revoked, Row
    <3> QED BY <3>2, <3>3
  <2> QED BY <2>4, <2>6, <2>7, <2>8
<1>5. ASSUME NEW h \in Handlers, DeleteTable(h) \/ DeleteOld(h)
      PROVE  scans'[s] = 1 <=> Inside(row'[k])
  <2>1. UNCHANGED scans /\ row'[k] = row[k]
    BY <1>0, <1>5 DEF DeleteTable, DeleteOld, OldKey, Cleared, TypeInv, Tables, ghost, k
  <2> QED BY <1>2, <2>1
<1>6. CASE UNCHANGED <<row, scans>>
  BY <1>2, <1>3, <1>6
<1> QED BY <1>3, <1>4, <1>5, <1>6 DEF Next, Handle, Occur, Tick, Deliver, Again, Read, ReadOld,
                                    Return, vars, ghost
-----------------------------------------------------------------------------
(* Copies *)

\* A step of a handler, between its first statement and its return.
LEMMA TimelyHandled ==
    ASSUME TypeInv, NEW k \in Keys, Timely(k), NEW h \in Handlers, Handle(h),
           UNCHANGED <<pending, source, msg>>, pc[h] # "idle", pc'[h] # "idle",
           \A g \in Handlers \ {h} : pc'[g] = pc[g] /\ seen'[g] = seen[g] /\ todo'[g] = todo[g],
           On(h, k) => Promise(msg[h], k)' /\ Progress(h, k)'
    PROVE  Timely(k)'
<1>1. \A g \in Handlers : On(g, k)' <=> On(g, k)
  BY DEF On
<1>2. Unsettled(k)' <=> Unsettled(k)
  BY <1>1 DEF Unsettled, WorkedOn, On
<1>3. row'[k] = row[k] \/ On(h, k)
  BY OwnRows
<1>4. ASSUME NEW m \in pending, k \in KeysOf(m)
      PROVE  Promise(m, k)'
  <2>1. ~On(h, k) /\ Promise(m, k)
    BY <1>4 DEF Timely
  <2> QED BY <1>3, <2>1 DEF Promise, Says, Agrees
<1>5. ASSUME NEW g \in Handlers, On(g, k)
      PROVE  Promise(msg[g], k)' /\ Progress(g, k)'
  <2>1. CASE g = h
    BY <1>5, <2>1
  <2>2. CASE g # h
    <3>1. ~On(h, k) /\ Promise(msg[g], k) /\ Progress(g, k)
      BY <1>5, <2>2 DEF Timely
    <3>2. row'[k] = row[k] /\ pc'[g] = pc[g] /\ seen'[g] = seen[g] /\ todo'[g] = todo[g]
      BY <1>3, <2>2, <3>1
    <3>3. Promise(msg[g], k)'
      BY <3>1, <3>2 DEF Promise, Says, Agrees
    <3>4. Progress(g, k)'
      BY <3>1, <3>2 DEF Progress, Agrees
    <3> QED BY <3>3, <3>4
  <2> QED BY <2>1, <2>2
<1>6. ~Unsettled(k)' => Agrees(k)'
  <2>1. ~Unsettled(k) => ~On(h, k) /\ Agrees(k)
    BY DEF Timely, Unsettled, WorkedOn, On
  <2> QED BY <1>2, <1>3, <2>1 DEF Agrees
<1>7. /\ \A m, n \in pending : k \in KeysOf(m) /\ k \in KeysOf(n) => m = n
      /\ \A g, f \in Handlers : On(g, k) /\ On(f, k) => g = f
      /\ \A m \in pending, g \in Handlers : ~(k \in KeysOf(m) /\ On(g, k))
  BY DEF Timely
<1>8. /\ \A m, n \in pending' : k \in KeysOf(m) /\ k \in KeysOf(n) => m = n
      /\ \A g, f \in Handlers : On(g, k)' /\ On(f, k)' => g = f
      /\ \A m \in pending', g \in Handlers : ~(k \in KeysOf(m) /\ On(g, k)')
  BY <1>1, <1>7
<1>9. \A m \in pending' : k \in KeysOf(m) => Promise(m, k)'
  BY <1>4
<1>10. \A g \in Handlers : On(g, k)' => Promise(msg[g], k)' /\ Progress(g, k)'
  BY <1>1, <1>5
<1> QED BY <1>6, <1>8, <1>9, <1>10 DEF Timely

LEMMA TimelyRead ==
    ASSUME TypeInv, NEW k \in Keys, Timely(k), NEW h \in Handlers, Read(h) \/ ReadOld(h)
    PROVE  Timely(k)'
<1>1. /\ UNCHANGED <<pending, source, msg, row, todo>> /\ pc[h] \in {"read", "readOld"}
      /\ pc'[h] \in {"write", "deleteOld"}
      /\ \A g \in Handlers \ {h} : pc'[g] = pc[g] /\ seen'[g] = seen[g]
  BY DEF Read, ReadOld, Goto, TypeInv
<1>2. SUFFICES ASSUME On(h, k)
               PROVE  Promise(msg[h], k)' /\ Progress(h, k)'
  BY <1>1, TimelyHandled DEF Handle
<1>3. Promise(msg[h], k) /\ Progress(h, k)
  BY <1>2 DEF Timely
<1>4. Promise(msg[h], k)'
  BY <1>1, <1>3 DEF Promise, Says, Agrees
<1>5. CASE Read(h)
  <2>1. pc[h] = "read" /\ pc'[h] = "write" /\ seen'[h] = row[KeyOf(msg[h])]
    BY <1>5 DEF Read, Goto, TypeInv
  <2> QED BY <1>1, <1>3, <1>4, <2>1 DEF Progress, Agrees
<1>6. CASE ReadOld(h)
  <2>1. pc[h] = "readOld" /\ pc'[h] = "deleteOld" /\ seen'[h] = row[<<"role", msg[h].value>>]
    BY <1>6 DEF ReadOld, OldKey, Goto, TypeInv
  <2>2. IsMessage(msg[h]) /\ msg[h].kind = "owner"
    BY <2>1 DEF TypeInv, HandlerFits, KindsAt
  <2>3. k # KeyOf(msg[h]) => k = <<"role", msg[h].value>>
    BY <1>2, <2>2, KeyFacts DEF On
  <2> QED BY <1>1, <1>4, <2>1, <2>3 DEF Progress
<1> QED BY <1>5, <1>6

LEMMA TimelyDeleteOld ==
    ASSUME TypeInv, NEW k \in Keys, Timely(k), NEW h \in Handlers, DeleteOld(h)
    PROVE  Timely(k)'
<1> DEFINE m == msg[h]
<1>1. /\ UNCHANGED <<pending, source, msg, seen, todo>> /\ pc[h] = "deleteOld" /\ pc'[h] = "read"
      /\ \A g \in Handlers \ {h} : pc'[g] = pc[g]
      /\ row' = IF Stale(m, seen[h]) THEN row ELSE [row EXCEPT ![<<"role", m.value>>] = Absent]
  BY DEF DeleteOld, OldKey, Goto, TypeInv
<1>2. SUFFICES ASSUME On(h, k)
               PROVE  Promise(msg[h], k)' /\ Progress(h, k)'
  BY <1>1, TimelyHandled DEF Handle
<1>3. Promise(m, k) /\ Progress(h, k)
  BY <1>2 DEF Timely
<1>4. IsMessage(m) /\ m.kind = "owner" /\ m.value \in Users
  BY <1>1 DEF TypeInv, HandlerFits, KindsAt
<1>5. KeyOf(m) = <<"role", m.of>> /\ m.of # m.value
  BY <1>4, KeyOfKind DEF IsMessage
<1>6. source[k] = Says(m, k) /\ Says(m, k) = Says(m, k)'
  BY <1>1, <1>3, <1>4 DEF Promise, Says
<1>7. CASE k = KeyOf(m)
  <2>1. row'[k] = row[k]
    BY <1>1, <1>5, <1>7 DEF TypeInv
  <2>2. Promise(msg[h], k)'
    BY <1>1, <1>3, <1>4, <1>6, <2>1 DEF Promise, Agrees
  <2> QED BY <1>1, <1>7, <2>2 DEF Progress
<1>8. CASE k # KeyOf(m)
  <2>1. k = <<"role", m.value>> /\ seen[h] = row[k]
    BY <1>1, <1>2, <1>3, <1>4, <1>8, KeyFacts DEF On, Progress
  <2>2. Agrees(k)'
    <3>1. CASE Stale(m, seen[h])
      <4>1. row[k].at \in Nat /\ m.at \in Nat
        BY <1>4 DEF TypeInv, IsRow, IsMessage
      <4>2. Agrees(k)
        BY <1>3, <2>1, <3>1, <4>1 DEF Stale, Promise
      <4> QED BY <1>1, <3>1, <4>2 DEF Agrees
    <3>2. CASE ~Stale(m, seen[h])
      <4>1. row'[k] = Absent
        BY <1>1, <2>1, <3>2 DEF TypeInv
      <4>2. source[k] = None
        BY <1>4, <1>6, <1>8 DEF Says
      <4> QED BY <1>1, <4>1, <4>2 DEF Agrees, Absent, Row
    <3> QED BY <3>1, <3>2
  <2>3. Promise(msg[h], k)'
    BY <1>1, <1>4, <1>6, <2>2 DEF Promise
  <2> QED BY <1>1, <2>2, <2>3 DEF Progress
<1> QED BY <1>7, <1>8

\* What a handler writes is what the owner says.
LEMMA WritesWhatIsSaid ==
    ASSUME TypeInv, NEW m, IsMessage(m), m.kind # "deleted", NEW k \in Keys, k = KeyOf(m),
           k[1] # "presence", Promise(m, k), NEW r
    PROVE  /\ Written(m, r, row[k]).value = source[k]
           /\ m.kind = "updated" => LET v == Written(m, r, row[k]).value IN
                                    v \in Settings /\ Merge(v, m.value) = v
<1>1. source[k] = Says(m, k)
  BY DEF Promise
<1>2. CASE m.kind \in {"access", "assigned", "created", "seating"}
  BY <1>1, <1>2 DEF Says, Written, UserAccessChanged, RoleAssigned, SettingsCreated,
                    InvitationSeated, Row
<1>3. CASE m.kind \in {"removed", "owner"}
  BY <1>1, <1>3 DEF Says, Written, RoleRemoved, OwnerChanged, Absent, Row
<1>4. CASE m.kind = "updated"
  <2>1. row[k].value # None /\ row[k] # Absent
    BY <1>4 DEF Promise, Absent, Row
  <2>2. row[k].value \in Settings /\ m.value \in Updates
    <3>1. k[1] = "settings"
      BY <1>4, KeyOfKind
    <3> QED BY <1>4, <2>1, <3>1 DEF TypeInv, IsRow, Values, IsMessage
  <2>3. Written(m, r, row[k]) = Row(Merge(row[k].value, m.value), now)
    BY <1>4, <2>1 DEF Written, SettingsUpdated
  <2>4. Says(m, k) = Merge(row[k].value, m.value)
    BY <1>4 DEF Says
  <2> QED BY <1>1, <2>2, <2>3, <2>4, MergeOfType DEF Row
<1>5. m.kind \notin {"scan", "revoke"}
  BY KeyOfKind
<1> QED BY <1>2, <1>3, <1>4, <1>5 DEF IsMessage

LEMMA TimelyWrite ==
    ASSUME TypeInv, NEW k \in Keys, k[1] # "presence", Timely(k), NEW h \in Handlers, Write(h)
    PROVE  Timely(k)'
<1> DEFINE m == msg[h]
<1>1. /\ UNCHANGED <<pending, source, msg, seen, todo>> /\ pc[h] = "write" /\ pc'[h] = "done"
      /\ \A g \in Handlers \ {h} : pc'[g] = pc[g]
      /\ \/ Stale(m, seen[h]) /\ UNCHANGED row
         \/ ~Stale(m, seen[h]) /\ row' = [row EXCEPT ![KeyOf(m)] = Written(m, seen[h], @)]
  BY DEF Write, Goto, TypeInv
<1>2. SUFFICES ASSUME On(h, k)
               PROVE  Promise(msg[h], k)' /\ Progress(h, k)'
  BY <1>1, TimelyHandled DEF Handle
<1>3. Promise(m, k) /\ Progress(h, k)
  BY <1>2 DEF Timely
<1>4. IsMessage(m) /\ m.kind # "deleted"
  BY <1>1 DEF TypeInv, HandlerFits, KindsAt, Reading
<1>5. source[k] = Says(m, k)
  BY <1>3 DEF Promise
<1>6. CASE k # KeyOf(m) \/ Stale(m, seen[h])
  <2>1. row'[k] = row[k]
    BY <1>1, <1>6 DEF TypeInv
  <2>2. Agrees(k)
    <3>1. CASE k # KeyOf(m)
      BY <1>1, <1>3, <3>1 DEF Progress
    <3>2. CASE k = KeyOf(m) /\ Stale(m, seen[h])
      <4>1. m.kind \in Reading
        BY <1>1, <3>2 DEF TypeInv, HandlerFits, Stale, Absent, Row
      <4>2. seen[h] = row[k]
        BY <1>1, <1>3, <3>2, <4>1 DEF Progress
      <4>3. row[k].at \in Nat /\ m.at \in Nat
        BY <1>4 DEF TypeInv, IsRow, IsMessage
      <4> QED BY <1>3, <3>2, <4>2, <4>3 DEF Stale, Promise
    <3> QED BY <1>6, <3>1, <3>2
  <2>3. Promise(msg[h], k)'
    BY <1>1, <1>3, <2>1 DEF Promise, Says, Agrees
  <2> QED BY <1>1, <2>1, <2>2, <2>3 DEF Progress, Agrees
<1>7. CASE k = KeyOf(m) /\ ~Stale(m, seen[h])
  <2>1. row'[k] = Written(m, seen[h], row[k])
    BY <1>1, <1>7 DEF TypeInv
  <2>2. row'[k].value = source[k]
    BY <1>3, <1>4, <1>7, <2>1, WritesWhatIsSaid
  <2>3. m.kind = "updated" => row'[k].value \in Settings /\ Merge(row'[k].value, m.value) = row'[k].value
    BY <1>3, <1>4, <1>7, <2>1, WritesWhatIsSaid
  <2>4. Agrees(k)'
    BY <1>1, <2>2 DEF Agrees
  <2>5. source[k] = Says(m, k)'
    BY <1>1, <1>5, <2>2, <2>3 DEF Says
  <2>6. None \notin Settings
    BY ProjectionAssumption
  <2>7. Promise(msg[h], k)'
    BY <1>1, <2>3, <2>4, <2>5, <2>6 DEF Promise
  <2> QED BY <1>1, <2>4, <2>7 DEF Progress
<1> QED BY <1>6, <1>7

LEMMA TimelyDeleteTable ==
    ASSUME TypeInv, NEW k \in Keys, Timely(k), NEW h \in Handlers, DeleteTable(h)
    PROVE  Timely(k)'
<1> DEFINE m == msg[h]
<1>1. /\ UNCHANGED <<pending, source, msg, seen>> /\ pc[h] = "delete"
      /\ pc'[h] \in {"delete", "done"}
      /\ \A g \in Handlers \ {h} : pc'[g] = pc[g] /\ todo'[g] = todo[g]
  BY DEF DeleteTable, Goto, TypeInv
<1>2. SUFFICES ASSUME On(h, k)
               PROVE  Promise(msg[h], k)' /\ Progress(h, k)'
  BY <1>1, TimelyHandled DEF Handle
<1>3. Promise(m, k) /\ Progress(h, k)
  BY <1>2 DEF Timely
<1>4. IsMessage(m) /\ m.kind = "deleted"
  BY <1>1 DEF TypeInv, HandlerFits, KindsAt
<1>5. source[k] = None
  BY <1>3, <1>4 DEF Promise, Says
<1>6. row[k].value = None \/ k[1] \in todo[h]
  BY <1>1, <1>3 DEF Progress
<1>7. row'[k] = row[k] \/ row'[k] = Absent
  BY DEF DeleteTable, Cleared
<1>8. Promise(msg[h], k)'
  <2>1. source' = source /\ msg' = msg
    BY <1>1
  <2>2. Says(m, k)' = None
    BY <1>4, <2>1 DEF Says
  <2>3. Agrees(k)' \/ row'[k].at <= m.at
    BY <1>3, <1>5, <1>7, <2>1 DEF Agrees, Promise, Absent, Row
  <2> QED BY <1>4, <1>5, <2>1, <2>2, <2>3 DEF Promise
<1>9. Progress(h, k)'
  <2>1. ASSUME NEW t \in todo[h], row' = Cleared(t), todo' = [todo EXCEPT ![h] = @ \ {t}], UNCHANGED pc
        PROVE  Progress(h, k)'
    <3>1. k[1] \in todo'[h] \/ row'[k].value = None
      BY <1>6, <2>1 DEF Cleared, TypeInv, Absent, Row
    <3> QED BY <1>1, <2>1, <3>1 DEF Progress
  <2>2. CASE todo[h] = {} /\ Goto(h, "done") /\ UNCHANGED <<row, todo>>
    <3>1. Agrees(k)'
      BY <1>1, <1>5, <1>6, <2>2 DEF Agrees
    <3>2. pc'[h] = "done"
      BY <2>2 DEF Goto, TypeInv
    <3> QED BY <3>1, <3>2 DEF Progress
  <2> QED BY <2>1, <2>2 DEF DeleteTable
<1> QED BY <1>8, <1>9

LEMMA TimelyDelivered ==
    ASSUME TypeInv, NEW k \in Keys, k[1] # "presence", Timely(k), NEW h \in Handlers,
           NEW m \in pending, Deliver(h, m)
    PROVE  Timely(k)'
<1>1. /\ UNCHANGED <<source, row, seen>> /\ pc[h] = "idle" /\ pending' = pending \ {m}
      /\ pc'[h] = First(m) /\ msg'[h] = m /\ todo'[h] = IF m.kind = "deleted" THEN Tables ELSE {}
      /\ \A g \in Handlers \ {h} : pc'[g] = pc[g] /\ msg'[g] = msg[g] /\ todo'[g] = todo[g]
  BY DEF Deliver, Goto, TypeInv
<1>2. IsMessage(m)
  BY DEF TypeInv
<1>3. \A n : Promise(n, k)' <=> Promise(n, k)
  BY <1>1 DEF Promise, Says, Agrees
<1>4. /\ pc'[h] # "idle" /\ \A g \in Handlers \ {h} : On(g, k)' <=> On(g, k)
      /\ ~On(h, k) /\ (On(h, k)' <=> k \in KeysOf(m))
  BY <1>1 DEF First, On
<1>5. \A g \in Handlers \ {h} : Progress(g, k) => Progress(g, k)'
  BY <1>1 DEF Progress, Agrees
<1>6. k \in KeysOf(m) => Promise(m, k) /\ Progress(h, k)'
  <2> SUFFICES ASSUME k \in KeysOf(m)
               PROVE  Promise(m, k) /\ Progress(h, k)'
    OBVIOUS
  <2>1. Promise(m, k)
    BY DEF Timely
  <2>2. First(m) \in {"read", "write"} => k = KeyOf(m)
    BY <1>2, KeyFacts DEF First, IsMessage
  <2>3. First(m) = "write" => m.kind \notin Reading
    BY <1>2 DEF First, Reading, IsMessage
  <2>4. First(m) = "delete" => m.kind = "deleted" /\ k[1] \in Tables
    BY <1>2, TableOfKind DEF First
  <2>5. First(m) \in {"read", "write", "readOld", "delete"}
    BY DEF First
  <2>6. Progress(h, k)'
    BY <1>1, <2>2, <2>3, <2>4, <2>5 DEF Progress
  <2> QED BY <2>1, <2>6
<1>7. ~Unsettled(k)' => ~Unsettled(k)
  <2>1. \A n \in pending : n \in pending' \/ n = m
    BY <1>1
  <2> QED BY <1>4, <2>1 DEF Unsettled, WorkedOn, On
<1>8. /\ \A n, p \in pending : k \in KeysOf(n) /\ k \in KeysOf(p) => n = p
      /\ \A f, g \in Handlers : On(f, k) /\ On(g, k) => f = g
      /\ \A n \in pending, g \in Handlers : ~(k \in KeysOf(n) /\ On(g, k))
      /\ \A n \in pending : k \in KeysOf(n) => Promise(n, k)
      /\ \A g \in Handlers : On(g, k) => Promise(msg[g], k) /\ Progress(g, k)
      /\ ~Unsettled(k) => Agrees(k)
  BY DEF Timely
<1>9. /\ \A n, p \in pending' : k \in KeysOf(n) /\ k \in KeysOf(p) => n = p
      /\ \A n \in pending' : k \in KeysOf(n) => Promise(n, k)'
  BY <1>1, <1>3, <1>8
<1>10. /\ \A f, g \in Handlers : On(f, k)' /\ On(g, k)' => f = g
       /\ \A n \in pending', g \in Handlers : ~(k \in KeysOf(n) /\ On(g, k)')
  BY <1>1, <1>4, <1>8
<1>11. \A g \in Handlers : On(g, k)' => Promise(msg[g], k)' /\ Progress(g, k)'
  <2>1. ASSUME NEW g \in Handlers \ {h}, On(g, k)'
        PROVE  Promise(msg[g], k)' /\ Progress(g, k)'
    <3>1. Promise(msg[g], k) /\ Progress(g, k) /\ msg'[g] = msg[g]
      BY <1>1, <1>4, <1>8, <2>1
    <3>2. Promise(msg[g], k)'
      BY <1>1, <3>1 DEF Promise, Says, Agrees
    <3> QED BY <1>5, <3>1, <3>2
  <2>2. On(h, k)' => Promise(msg[h], k)' /\ Progress(h, k)'
    <3>1. Promise(m, k) => Promise(msg[h], k)'
      BY <1>1 DEF Promise, Says, Agrees
    <3> QED BY <1>4, <1>6, <3>1
  <2> QED BY <2>1, <2>2
<1>12. ~Unsettled(k)' => Agrees(k)'
  BY <1>1, <1>7, <1>8 DEF Agrees
<1> QED BY <1>9, <1>10, <1>11, <1>12 DEF Timely

\* A handler returns, or gives its message back.
LEMMA TimelyEnded ==
    ASSUME TypeInv, NEW k \in Keys, Timely(k), NEW h \in Handlers, Return(h) \/ Again(h)
    PROVE  Timely(k)'
<1>1. /\ UNCHANGED <<source, row>> /\ pc[h] # "idle" /\ pc'[h] = "idle"
      /\ \A g \in Handlers \ {h} : pc'[g] = pc[g] /\ msg'[g] = msg[g] /\ seen'[g] = seen[g]
                                     /\ todo'[g] = todo[g]
      /\ \/ pc[h] = "done" /\ pending' = pending
         \/ pending' = pending \cup {msg[h]}
  BY DEF Return, Again, End, Goto, TypeInv
<1>2. \A n : Promise(n, k)' <=> Promise(n, k)
  BY <1>1 DEF Promise, Says, Agrees
<1>3. ~On(h, k)' /\ (On(h, k) <=> k \in KeysOf(msg[h])) /\ \A g \in Handlers \ {h} : On(g, k)' <=> On(g, k)
  BY <1>1 DEF On
<1>4. \A g \in Handlers \ {h} : Progress(g, k) => Progress(g, k)'
  BY <1>1 DEF Progress, Agrees
<1>5. /\ \A n, p \in pending : k \in KeysOf(n) /\ k \in KeysOf(p) => n = p
      /\ \A f, g \in Handlers : On(f, k) /\ On(g, k) => f = g
      /\ \A n \in pending, g \in Handlers : ~(k \in KeysOf(n) /\ On(g, k))
      /\ \A n \in pending : k \in KeysOf(n) => Promise(n, k)
      /\ \A g \in Handlers : On(g, k) => Promise(msg[g], k) /\ Progress(g, k)
      /\ ~Unsettled(k) => Agrees(k)
  BY DEF Timely
<1>6. /\ \A n, p \in pending' : k \in KeysOf(n) /\ k \in KeysOf(p) => n = p
      /\ \A n \in pending' : k \in KeysOf(n) => Promise(n, k)'
  BY <1>1, <1>2, <1>3, <1>5
<1>7. /\ \A f, g \in Handlers : On(f, k)' /\ On(g, k)' => f = g
      /\ \A n \in pending', g \in Handlers : ~(k \in KeysOf(n) /\ On(g, k)')
  BY <1>1, <1>3, <1>5
<1>8. \A g \in Handlers : On(g, k)' => Promise(msg[g], k)' /\ Progress(g, k)'
  <2> SUFFICES ASSUME NEW g \in Handlers \ {h}, On(g, k)'
               PROVE  Promise(msg[g], k)' /\ Progress(g, k)'
    BY <1>3
  <2>1. Promise(msg[g], k) /\ Progress(g, k) /\ msg'[g] = msg[g]
    BY <1>1, <1>3, <1>5
  <2>2. Promise(msg[g], k)'
    BY <1>1, <2>1 DEF Promise, Says, Agrees
  <2> QED BY <1>4, <2>1, <2>2
<1>9. ~Unsettled(k)' => Agrees(k)'
  <2>1. ASSUME ~Unsettled(k)', On(h, k)
        PROVE  Agrees(k)
    <3>1. pc[h] = "done"
      BY <1>1, <1>3, <2>1 DEF Unsettled
    <3> QED BY <1>5, <2>1, <3>1 DEF Progress
  <2>2. ~Unsettled(k)' /\ ~On(h, k) => ~Unsettled(k)
    <3>1. pending \subseteq pending'
      BY <1>1
    <3> QED BY <1>3, <3>1 DEF Unsettled, WorkedOn, On
  <2> QED BY <1>1, <1>5, <2>1, <2>2 DEF Agrees
<1> QED BY <1>6, <1>7, <1>8, <1>9 DEF Timely

LEMMA TimelyOccurs ==
    ASSUME TypeInv, NEW k \in Keys, k[1] # "presence", k \notin late', Timely(k), Occur
    PROVE  Timely(k)'
<1>0. PICK c \in Contents :
         LET m == [kind |-> c.kind, of |-> c.of, value |-> c.value, at |-> now] IN
         /\ pending' = pending \cup {m}
         /\ source' = [j \in Keys |-> IF j \in KeysOf(m) THEN After(m, j) ELSE source[j]]
         /\ late' = late \cup {j \in KeysOf(m) : Unsettled(j)}
  BY DEF Occur
<1>1. PICK m :
      /\ m = [kind |-> c.kind, of |-> c.of, value |-> c.value, at |-> now]
      /\ pending' = pending \cup {m}
      /\ source' = [j \in Keys |-> IF j \in KeysOf(m) THEN After(m, j) ELSE source[j]]
      /\ late' = late \cup {j \in KeysOf(m) : Unsettled(j)}
  BY <1>0
<1>2. UNCHANGED <<row, pc, msg, seen, todo>>
  BY DEF Occur, handler
<1>3. IsMessage(m) /\ (m.kind = "updated" => source[<<"settings", None>>] # None)
  BY <1>1, ContentsAreMessages
<1>4. /\ \A n, p \in pending : k \in KeysOf(n) /\ k \in KeysOf(p) => n = p
      /\ \A f, g \in Handlers : On(f, k) /\ On(g, k) => f = g
      /\ \A n \in pending, g \in Handlers : ~(k \in KeysOf(n) /\ On(g, k))
      /\ \A n \in pending : k \in KeysOf(n) => Promise(n, k)
      /\ \A g \in Handlers : On(g, k) => Promise(msg[g], k) /\ Progress(g, k)
      /\ ~Unsettled(k) => Agrees(k)
  BY DEF Timely
<1>5. \A g \in Handlers : On(g, k)' <=> On(g, k)
  BY <1>2 DEF On
<1>6. CASE k \notin KeysOf(m)
  <2>1. source'[k] = source[k]
    BY <1>1, <1>6
  <2>2. \A n : Promise(n, k)' <=> Promise(n, k)
    BY <1>2, <2>1 DEF Promise, Says, Agrees
  <2>3. Unsettled(k)' <=> Unsettled(k)
    BY <1>1, <1>2, <1>6 DEF Unsettled, WorkedOn
  <2>4. /\ \A n, p \in pending' : k \in KeysOf(n) /\ k \in KeysOf(p) => n = p
        /\ \A n \in pending' : k \in KeysOf(n) => Promise(n, k)'
        /\ \A n \in pending', g \in Handlers : ~(k \in KeysOf(n) /\ On(g, k)')
    BY <1>1, <1>4, <1>5, <1>6, <2>2
  <2>5. \A g \in Handlers : On(g, k)' => Promise(msg[g], k)' /\ Progress(g, k)'
    <3> SUFFICES ASSUME NEW g \in Handlers, On(g, k)
                 PROVE  Promise(msg[g], k)' /\ Progress(g, k)'
      BY <1>5
    <3>1. Promise(msg[g], k) /\ Progress(g, k)
      BY <1>4
    <3>2. Promise(msg[g], k)'
      BY <1>2, <2>1, <3>1 DEF Promise, Says, Agrees
    <3>3. Progress(g, k)'
      BY <1>2, <2>1, <3>1 DEF Progress, Agrees
    <3> QED BY <3>2, <3>3
  <2>6. ~Unsettled(k)' => Agrees(k)'
    BY <1>2, <1>4, <2>1, <2>3 DEF Agrees
  <2> QED BY <1>4, <1>5, <2>4, <2>5, <2>6 DEF Timely
<1>7. CASE k \in KeysOf(m)
  <2>1. ~Unsettled(k) /\ Agrees(k)
    BY <1>1, <1>4, <1>7
  <2>2. (\A n \in pending : k \notin KeysOf(n)) /\ (\A g \in Handlers : ~On(g, k))
    BY <2>1 DEF Unsettled, WorkedOn, On
  <2>3. source'[k] = After(m, k)
    BY <1>1, <1>7
  <2>4. After(m, k) = Says(m, k)
    <3>1. CASE m.kind = "updated"
      BY <2>1, <3>1 DEF After, Says, Agrees
    <3>2. CASE m.kind # "updated"
      BY <3>2 DEF After, Says
    <3> QED BY <3>1, <3>2
  <2>5. m.kind = "updated" => row[k].value # None
    <3>1. m.kind = "updated" => k = <<"settings", None>>
      BY <1>3, <1>7, TableOfKind
    <3> QED BY <1>3, <2>1, <3>1 DEF Agrees
  <2>6. row[k].at <= m.at
    BY <1>1 DEF TypeInv, IsRow
  <2>7. Promise(m, k)'
    <3>1. Says(m, k)' = Says(m, k)
      BY <1>2 DEF Says
    <3> QED BY <1>2, <2>3, <2>4, <2>5, <2>6, <3>1 DEF Promise
  <2>8. \A n \in pending' : k \in KeysOf(n) => n = m
    BY <1>1, <2>2
  <2>9. Unsettled(k)'
    BY <1>1, <1>7 DEF Unsettled
  <2>10. \A g \in Handlers : ~On(g, k)'
    BY <1>5, <2>2
  <2> QED BY <2>7, <2>8, <2>9, <2>10 DEF Timely
<1> QED BY <1>6, <1>7

\* What is known of a row whose changes were timely stays true.
LEMMA CopiedStays ==
    ASSUME TypeInv, [Next]_vars, NEW k \in Keys, CopiedInv(k)
    PROVE  CopiedInv(k)'
<1> SUFFICES ASSUME k[1] # "presence", k \notin late'
             PROVE  Timely(k)'
  BY DEF CopiedInv
<1>1. k \notin late
  BY DEF Next, Handle, Occur, Tick, Deliver, Again, Read, Write, ReadOld, DeleteOld, DeleteTable,
         Return, vars, ghost
<1>2. Timely(k)
  BY <1>1 DEF CopiedInv
<1>3. CASE Tick \/ UNCHANGED vars
  <2>1. UNCHANGED <<row, source, pending, pc, msg, seen, todo>>
    BY <1>3 DEF Tick, vars, handler
  <2> QED BY <1>2, <2>1 DEF Timely, On, Promise, Says, Progress, Agrees, Unsettled, WorkedOn
<1> QED BY <1>2, <1>3, TimelyOccurs, TimelyDelivered, TimelyEnded, TimelyRead, TimelyWrite,
           TimelyDeleteOld, TimelyDeleteTable DEF Next, Handle
-----------------------------------------------------------------------------
(* Theorems *)

LEMMA InvHolds == Spec => []Inv
<1>1. Init => Inv
  <2> SUFFICES ASSUME Init
               PROVE  Inv
    OBVIOUS
  <2>1. \A k \in Keys : row[k] = Absent /\ source[k] = None
    BY DEF Init
  <2>2. \A h \in Handlers : pc[h] = "idle" /\ seen[h] = Absent
    BY DEF Init
  <2>3. now = 1 /\ now \in 1 .. MaxTime
    BY ProjectionAssumption DEF Init
  <2>4. \A k : IsRow(k, Absent) /\ None \in Values(k[1])
    BY <2>3 DEF IsRow, Absent, Row, Values
  <2>5. TypeInv
    BY <2>1, <2>2, <2>3, <2>4 DEF Init, TypeInv, HandlerFits
  <2>6. \A k : Alone(k)
    BY <2>2 DEF Alone, On
  <2>7. \A u \in Users : AccessInv(u)
    BY <2>1, <2>6 DEF AccessInv, Init, Keys, Absent, Row
  <2>8. \A s \in Seats : PresenceInv(s)
    BY <2>1, <2>6 DEF PresenceInv, Init, Keys, Absent, Row
  <2>9. \A k \in Keys : CopiedInv(k)
    BY <2>1, <2>2 DEF CopiedInv, Timely, On, Unsettled, WorkedOn, Agrees, Init, Absent, Row
  <2> QED BY <2>5, <2>7, <2>8, <2>9 DEF Inv
<1>2. Inv /\ [Next]_vars => Inv'
  BY TypeStays, AccessStays, PresenceStays, CopiedStays DEF Inv
<1> QED BY <1>1, <1>2, PTL DEF Spec

\* Every row has a value of its table and a time that has come, and what the handlers keep
\* of their messages fits the statement they are at: event-role, event-settings, milestone
\* and invitation-seating handlers, whatever they are sent and however often.
THEOREM TypeCorrect == Spec => []TypeOK
<1>1. Inv => TypeOK
  <2> SUFFICES ASSUME TypeInv
               PROVE  TypeOK
    BY DEF Inv
  <2>1. \A k \in Keys : row[k].value \in Values(k[1]) /\ row[k].at \in 0 .. MaxTime
    BY ProjectionAssumption DEF TypeInv, IsRow
  <2>2. \A m \in pending : m.at \in 1 .. MaxTime
    BY ProjectionAssumption DEF TypeInv, IsMessage
  <2> QED BY <2>1, <2>2 DEF TypeOK, TypeInv
<1> QED BY <1>1, InvHolds, PTL

\* Whatever the order and the repetitions of access messages, the row of a user has the time
\* of the newest one handled, unless two handlers worked on it at once: the comparison of
\* userAccessChanged in event-role.handler.ts.
THEOREM NewestWins == Spec => []NewestAccessWins
<1>1. Inv => NewestAccessWins
  BY DEF Inv, AccessInv, NewestAccessWins
<1> QED BY <1>1, InvHolds, PTL

\* A seat is INSIDE after an odd number of scans since its ticket was revoked, unless two
\* handlers worked on its row at once or one message was handled twice: the toggle of
\* milestone.handler.ts.
THEOREM ScansCounted == Spec => []PresenceCountsScans
<1>1. Inv => PresenceCountsScans
  BY DEF Inv, PresenceInv, PresenceCountsScans
<1> QED BY <1>1, InvHolds, PTL

\* A copy agrees with its owner once every message about it is handled, if each change
\* occurred after the one before it was handled, whatever is handled side by side for other
\* rows, crashes, and is handled again.
THEOREM CopiesTimely == Spec => []TimelyChangesAreCopied
<1>1. Inv => TimelyChangesAreCopied
  BY DEF Inv, CopiedInv, Timely, Agrees, TimelyChangesAreCopied
<1> QED BY <1>1, InvHolds, PTL
=============================================================================
